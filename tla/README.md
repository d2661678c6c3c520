# antv: models, checks and proofs

antv is a small antivirus for Linux. A command-line program, `antv`, scans files for byte
signatures, renames an infected file to `<name>.infected` and takes its permissions away. A
kernel module, `on_access`, replaces the kernel's `open(2)` by a function that runs
`antv -scan <file>` before every open. This directory holds TLA+ modules of the program's
logic, TLC configurations that check them on small instances, and TLAPS proofs.

## 1. Inventory

| component | source | state | operations | modules |
|---|---|---|---|---|
| On-access hook | `on_access/on_access.c` | `sys_call_table[__NR_open]`, the protection of its page, `old_open`, `antv_mutex`, the module's life | `init`, `cleanup`, `new_open`, `set_addr_rw`, `set_addr_ro` | `SyscallHook`, `OpenGate` |
| Signature scan | `src/scan.c` | position of the database stream, getline's buffer, the loaded file, `found`, the caller's `virus_name` | `scan`, `sig_compare`, `load_file`, `extrac_signature` | `SigScan`, `Signatures`, `Detector`, `DbLine` |
| On-demand scan and quarantine | `src/main.c` | directory stream, current path, `virus_name`, descriptors, the result; the directory itself | `on_demand`, `is_dir`, `rename_and_remove_permission` | `OnDemand`, `OnAccess` |
| Whitelist | `src/whitelist.c` | the whitelist stream, the buffer `check` of one call | `whitelistCheck`, `UsingFileWhitelistCheck` | `Whitelist`, `OnDemand` |
| Database update | `src/main.c:80-131` | the database and whitelist files, one stream per updater | `antv -update` | `Update` |
| Character device variant | `on_access/on_access-1.c` | what is registered, the table, `antv_mutex`, `message`, `size_of_message` | `init`, `cleanup`, `new_open`, `dev_open`, `dev_read`, `dev_write`, `dev_release` | `KscanDevice` |
| Open-hijack modules | `hijack-linux-sys-calls/`, `samples/hijack-master/` | the table, its page, each module's saved pointer | `init`, `exit`, `new_open` | `HookStack` |
| Command line | `src/main.c` | none | dispatches one option | none |

Not modelled: the command line (it keeps no state; what each option starts is a step of a
module), `on_access()` in `main.c` (no caller), the other `samples/` (third-party examples),
`rsrc/` (data) and the files kbuild generates. `on_access-1.c` includes a header that does not
exist and is not in the Makefile; it is the earlier design of the hook and modelled as such.

**Interactions.** `new_open` starts `antv` with `call_usermodehelper` and waits for it; `antv`
opens files itself, through the same system call table. `on_demand` calls `whitelistCheck`
(which runs `sha1sum` through `popen`), then `scan`, then `rename_and_remove_permission`, on
the same path but with a new look-up each time. It hands one database stream and one
`virus_name` buffer to the scans of all files of a directory, and the verdict of a scan is the
first byte of that buffer. Several `antv` processes (shells, or the hook's) share the
directory, the database and the whitelist, without any lock. `antv -update` rewrites the last
two in place. Modules that hook the same table entry share it and the page it lies in.

**What is hard here.** The table is global while the mutex is not: the scan window of one open
is a bypass for all others. `antv`'s own opens must not reach the `new_open` that waits for
it. The module may be unloaded with tasks still in its text, and loaded again, or below another
one. Scanners race between check, hash, open, rename and chmod, and the file the hook scanned is
looked up again before it is opened. `readdir` may show the names that the quarantine
creates, and `rename` replaces what has such a name. Almost every call may fail for one file, which is then
skipped without a trace in the result. The hook takes the opens of FIFOs and devices too, on which antv
itself may wait for ever. Buffers are never initialised, streams leak, zero bytes end
a window early. A download may fail or be killed after the file was emptied.
`PROJECT.json` lists each hazard at its line.

**What makes each part correct.**

* Hook: it stays in the table except during one scan; the mutex is exclusive and always
  released; antv bypasses it; no fault; nothing but antv makes an open wait; after unload the table is restored.
* Hook and scanner together: an open that waited for a scan finds no infected file, if the scan could read and rename it.
* Scan: the verdict is that of the whole file and the whole database, on every call; the name
  is that of the first match; a line of the database gives back the signature it was written for.
* On-demand: infected files end renamed and stripped, all other files and whitelisted files
  are untouched, whatever the scanners interleave; a call that fails for one file harms no other; the scan
  ends and its result is reported.
* Whitelist: the search finds a hash exactly when a line begins with it.
* Update: a file nobody writes is whole unless a write ended badly, and a later good one repairs it.
* Device: one owner at a time; what is written is read back; a failed load leaves nothing behind.
* Stack of hooks: no pointer into text that is gone, and none of the older hooks is lost.

## 2. Modules

Each module has its model-checking module `MC...` with the model values, enumerated inputs and
symmetry sets. Definitions marked "Faulty variant" are plausible mistakes in the code. No
specification uses them; putting one in the place of the definition after it violates a
property (`mutants`).

### SyscallHook: the on-access module

Function pointers are numbers: 0 is the kernel's `sys_open` and g > 0 is `new_open` of the g-th
load. `loads` and `module` follow insmod, `init()`, rmmod and `cleanup()`; text is mapped from
insmod until it is freed. `pc[t]` is the control point of a task. `Users` call `open(2)` at
will; `Helpers` are `antv` processes, created by `StartHelper`, whose opens go through the same
table. Two loads are never mapped together (insmod refuses a second module of the same name).

| action | code |
|---|---|
| `Dispatch`, `KernelOpen` | system call entry and the kernel's open (external) |
| `TryLock` | `mutex_trylock`, or return `-EBUSY` (149-152) |
| `PutBack` | `sys_call_table[__NR_open] = old_open` (154) |
| `StartHelper`, `StartFails`, `Wake`, `HelperExit` | `call_usermodehelper(..., UMH_WAIT_PROC)` (158-180) |
| `Rearm`, `Unlock`, `CallOriginal` | 181, 183, 187 |
| `Insmod`, `SetAddrRW`, `SaveOld`, `Hook` | `init()` |
| `Unhook`, `SetAddrRO`, `Free` | `cleanup()` and the unloading of the text |
| `Fault` | an instruction fetched from freed text |

A store into a read-only page and a jump to unmapped text are faults that kill the task
(`"oops"`). `new_open` takes no module reference, so `Unhook` has no guard on tasks inside.
`cu` is never read by the code, so nothing depends on antv's exit status. Nothing obliges an antv process
to end (`HelperExit` has no fairness): it may wait for ever on the FIFO whose opening it was started for.

### OpenGate: what the hook promises

The abstract specification of `SyscallHook`, without table, pointers and mutex. `gate` is off,
on, or void after the first unload, when nothing is promised any more. `stage[t]` takes an open
through idle, asked, scanning, cleared and passing. An open is served after its own scan, or
unscanned while another is scanned (the bypass the code has), and refused (`-EBUSY`) only while
another is scanned; scans exclude one another.

### OnAccess: hook and scanner together

`OnAccess` puts `OpenGate`, through which `SyscallHook` is proved to go, in front of `OnDemand`:
scanner t of `OnDemand` is the `antv` process that task t starts, root as all processes of
`call_usermodehelper`, and `StartAntv`, `AntvStep`, `AntvEnds` are the gate's scan. The exit
status has no influence; what a scan achieves is its renames. `SysOpen` looks the name up
again. `AntvFails` is a process that cannot be started. An open may name any file or the
directory, also names that only the quarantine creates. `wanted[t]` is the path as the task means it,
`start[t]` as antv does, whose working directory is `/`: a relative name may be any of `Elsewhere` to
antv, so that another file than the opened one is scanned, or none. `failed[t]` holds what failed
during the current open. Nobody else renames files here, and no scan is started from a shell.

### Signatures, Detector, SigScan: the scan

`Signatures` holds what one window comparison computes. `strncpy(window, file + i, SIG_SIZE)`
stops at a zero byte and pads with zeros, hence `Window`; `load_size` counts the terminator,
hence `Limit`. `Occurs` is the reference definition: the bytes of the signature stand in the
file. `Detector` is the abstract specification: one answer per call, the verdict of the whole
database on the whole file, or a refusal. `SigScan` is the loop of `scan()`: one step per line
read, per window compared and per return, called again and again on one database stream and
one buffer, which is how `on_demand` calls it. A line is a record `[name, sig]`, as
`extrac_signature` returns it.

### DbLine: a line of the database

`getline` reads lines of any length into one buffer that keeps the rest of earlier lines, and
`extrac_signature` takes a name and `SIG_SIZE` hexadecimal pairs out of it. Characters are
numbers. `Pair` is the index arithmetic (comma, two blanks, groups of two pairs). `temp[2]` has no room for a
terminator: `Strtol` is what `strtol` makes of its two characters and of what stands behind them on the
stack (blanks skipped, a minus negates, the last two digits count, the rest is ignored), and `Behind` is what
may stand there, chosen anew for each byte. `NameIn` is the block of `calloc(index, 1)`, again without room for a terminator: `Blocks` holds the block
sizes that a name may fill, where `strlen` reads on into the heap's bookkeeping. `Entry` is the
reference: the line that stands for a name and a signature.

### Whitelist: the search of the whitelist

`UsingFileWhitelistCheck`, called again and again. `HashFile` is `popen("sha1sum " path)` and
one `fgets`: the shell splits the path at blanks, `sha1sum` prints one line per word it can
read, and `check` keeps what the stack held when there is none. `NextEntry` is one `fgets` of
at most COMPLENGTH + 1 characters and one `strncmp` of COMPLENGTH; a long line is thus read in
several chunks. `OnList` is the reference: a line begins with the hash.

### OnDemand: scanners on a directory

Each `Scanners` process runs `on_demand` on the directory or on one file of it, with one step
per call that looks a path up or changes the directory. A name is `<<b, k>>`, base name b with
k suffixes `.infected`; files may have names that the quarantine gives to others, and `Rename`
replaces the file that has the new name (`Gone`). The verdict of `scan` is taken from SigScan: infected or not, and for a
file shorter than a signature, or with the empty database that a failed `-update` leaves (`database`), whatever
the buffer held. `fds` counts descriptors with every leak
of the code: the whitelist stream of each check, and each file on which `scan` fails. `hash` is
the uninitialised buffer `check`. `StreamsSee` is the freedom POSIX gives `readdir` when
the directory changes under an open stream. `asRoot` is free in each scanner: root opens stripped files.

Every call may fail (`Fails`): where it must, because the name is gone, the user has no permission or the
process no descriptor; and where it may, for a reason outside the model. Of the second kind are `opendir` and `stat`,
the whitelist that cannot be opened, `popen` and `sha1sum`, `fopen`, `scan` returning FAIL on a regular file, and
`rename` and `chmod` of a user who is neither root nor the owner. `MaxFaults` bounds how many do so in
the runs, and the theorems hold for any number. The history variables `failed` (per scanner) and `ever` (hash and chmod, for good) record what
failed for which file, so that the properties can say that a failure harms only its own file.
`Spaced` holds the names of paths that the shell takes for several words: `sha1sum` then prints no hash or
that of another file. `Endless` holds FIFOs and devices, on which a scanner may hang (`Blocks`).

| action | code |
|---|---|
| `StartDirectory`, `StartFile`, `ReadDir`, `EndOfDirectory`, `Close` | the loop of `on_demand`, `is_dir` |
| `OpenToCheck`, `OpenWhitelist`, `Hash` | `whitelistCheck`, `UsingFileWhitelistCheck` |
| `ScanOpenFails`, `ScanFails`, `Scan` | 204-232 |
| `Rename`, `Chmod` | `rename_and_remove_permission` |

### Update: antv -update

A file is a sequence of chunks `<<version, index>>`. `Fopen` truncates, `Receive` is a flushed
`write_data` at the position of that updater's own stream, `PerformReturns` ends the transfer
at the end of the body or anywhere before (nobody reads the result), `Crash` ends it without a
word. The server may send an error page. Updaters overlap, since nothing locks the file; a
write past the end leaves a `Hole`. A reader is one pass of `scan()` over the database. The
history variables `bad` and `overlap` say since when a file is spoilt and which passes met that.

### KscanDevice: the character device

`init()` registers a device number, a class and a device, one step each, and each may fail and
unwinds the earlier ones; then it hooks the table. `cleanup()` undoes this, with a class that is
unregistered twice. `new_open` stores the name of the file in `message` under the mutex; opening
`/dev/antv_char` takes the same mutex until the release. `EarlyOpens` lets tasks open the device
while `init()` still runs. `said` is a history variable: what the owner wrote.

### HookStack: several hooks of one entry

Modules that save the pointer they find, store their own and restore the saved one on exit,
loaded in any order and unloaded last first. Those in `Scanning` take themselves out of the
table during a scan as `on_access.c` does, the others pass opens on (`hijack-syscall.c`,
`hack_open.c`). All share one page, which each makes writable and read-only for itself.

## 3. Runs

| run | instance | shows |
|---|---|---|
| `hook` | 2 users, 2 antv slots with 1 open each, 2 loads | armed, exclusive, bypassed by antv, no fault before an unload; `IInv` is an invariant; every open returns or waits for an antv that never ends; the hook implements `OpenGate` |
|  `hook_unload` | 2 users, 2 slots, 1 load | counterexample to `OpenRestored` |
| `scan_loop` | all files of at most 4 bytes over {0, 1, 2}, signatures of 2 bytes, databases of 0 to 2 lines, 2 calls | the verdict, the name, `LoopInv`, the loop implements `Detector` |
| `scan_zero_byte` | files of at most 2 bytes, one line, 1 call | counterexample to `DetectsContained` |
| `dbline` | entries of 4 bytes, cut and stray lines, in any order; 3 contents of the stack | an entry gives its name back, and each byte of its signature behind which no digit stands; a long enough line does not depend on earlier ones |
| `whitelist_search` | hashes of 2 digits, every list of at most 6 characters, 5 paths | `SearchIsExact`, `CheckReturns` |
| `ondemand_solo` | 1 scanner, root or not, 5 files, exactly the descriptors it needs, one fault (1.4 million states) | renamed once, reported, descriptors suffice, the scan ends or hangs on the FIFO |
| `ondemand_duo` | 2 scanners, 2 files with colliding names, 10 descriptors, one fault (2.5 million states) | clean and whitelisted files untouched, renamed files stripped, no infected file slips through unless a call fails for it |
| `on_access` | 2 tasks, an infected file and a FIFO with colliding names, one relative name, one fault (385 000 states) | `CheckedOpenIsSafe`, `OpensServed` |
| `update` | 2 updaters of 2 runs each, 1 reader | `UInv`, repaired by a good update, versions never mixed, a quiet pass sees one version |
| `device` | 2 tasks, one file, one text | exclusion, the buffer, unwinding, opens return, only an open device keeps the mutex |
| `hook_stack` | 3 modules, one of which scans, 2 tasks | no dangling pointer, older hooks kept, opens return unless a scan does not |

**Bounds and why they are enough.**

* `Users`, `Helpers`, `Tasks`: two opens and two antv processes exhibit a holder and a refused task, and a
  scan of an earlier load beside one of a later. The theorems hold for any number.
* `HelperOpens`: an antv process opens a bounded number of files; one open already meets any
  state of the table. `MaxLoads` = 2 is the first value with a reload.
* `MaxFile`, `SigSize`, `Byte`: a file of four bytes has three windows of two bytes, the first, a
  middle and the last, and files of one byte or none have no window; 0 and two other byte values
  separate equal, different and terminating bytes. `MaxCalls` = 2 is the first value with a reused stream and buffer.
* DbLine: 4 bytes are two groups, the first value with the blank between them; names of 1, 2 and 4
  characters, the last of which fills its block; bytes with digits and letters. Behind `temp` stand nothing, one or two digits,
  or a minus. `BufLen` holds the longest line.
* Whitelist: 6 characters are two lines of a hash and a newline each, or one line that needs
  two chunks; `CompLength` = 2 keeps a shared first digit and a different second one apart.
* `MaxSuffixes` = 2 stands for NAME_MAX: renamed once, renamed again, refused; 1 in `on_access`. `MaxFds` is
  RLIMIT_NOFILE: 18 is the number that `DescriptorsSuffice` computes for 5 files, 10 lets a
  scanner run out, 20 is room for a scan of the whole directory in `on_access`.
* `MaxFaults` = 1: the properties say that the failure for one file harms no other and excuses only its own
  scanner; one fault beside the calls that must fail shows both.
* `ondemand_solo` has one file of each kind: infected, infected but whitelisted under a path with a
  blank, clean with the name of a quarantined file, a FIFO (which is also short), a subdirectory. `ondemand_duo`
  keeps an infected file and one that is clean and whitelisted and has its next name, two scanners being the first number that races.
  `on_access` keeps the infected file, whose absolute name a relative one may also mean to antv, and the FIFO.
* Update: the old version has 3 chunks, the new 2, the error page 1, so that a shorter file over a longer one shows;
  `MaxRuns` = 2 is a retry after a failure, and two updaters overlap in any way.
* HookStack: three modules are a scanner with one hook below and one above. Each is loaded once.

**Deadlock** is checked except where the system really stops: every scanner ends in
`ondemand_*`; the bound on calls is reached in `scan_*`; in `hook` and  `hook_unload` every task may have been killed
after an unload. **Symmetry** is used in `ondemand_duo` only (the scanners), which checks no liveness.

**Fairness.** Weak fairness of what the kernel schedules, nothing else: in `SyscallHook`, `HookStack` and
`KscanDevice` the steps of a task inside the module's `new_open`; in `OnAccess` those and the steps of
antv, in `OnDemand` the steps of each process, in both only while it does not stand at a call that may wait for ever
(`Blocks`, `Waits`); in `Whitelist` the steps of a running check. Nobody has to call open, load or unload.
Nobody has to end an antv process, to return from the open of a FIFO or to close the device: no timeout and no code
obliges them, and the reader that `on_access-1.c:127` describes loops on the open device. The liveness
properties therefore say what else could stop an open, a scan or the mutex, namely nothing:
`OpensReturn` of `SyscallHook` and `HookStack` or antv never ends, `OpensServed` and `Terminates` or it hangs on a FIFO or device
for good, `LockoutEnds` or one process keeps the device open for good. In `KscanDevice` the files
opened are ones that `sys_open` does not wait for. `Update` has no fairness: curl is given no timeout, so a
transfer need not end, and no liveness is claimed. `Terminates` and `OpensServed` rest on
the limit of names and not on the directory: `readdir` may return every name that a rename
creates, and only NAME_MAX bounds the scan.

**Conditions of the quarantine's properties.** Where the code does go wrong when a call fails, the property
excludes that file and nothing else. `CleanUntouched`: a file the database's lines find clean, so none when
the database is empty and none shorter than a signature. `ListedUntouched`: a file whose hash has never failed to be read, which excludes paths
with blanks. `RenamedIsStripped`, `QuarantinedOnce`, `DescriptorsSuffice`: `chmod` has not failed for the file (for
any file in the last). `QuarantineComplete`: the database is whole, the scan has not ended with FAIL, and
no call of this scanner has failed for this file. `FoundIsReported`: no call before the verdict has. `CheckedOpenIsSafe`: besides, the name means the same file to
opener and antv.

## 4. Proofs

TLAPS checks these for every value of the constants, under the named assumptions of each module
and no others. The properties are seldom inductive; each proof module has one lemma per part of
its invariant or per group of steps.

**SyscallHookProofs** (assumes `TasksAssumption`: user and antv tasks are distinct, `NoOne` is
not a task; `BoundsAssumption`: the bounds are naturals). That the table points at the hook
follows only if the window closes, and the window closes only if its task holds the mutex of
its own load, runs mapped text and may store into the table. `IInv` adds the missing parts:

* `PointersInv`: each load saved a pointer to an *earlier* load or the kernel; a load in `init()` is not in the table yet.
* `ExecutionInv`: only loads that finished `init()` are executed.
* `MutexInv`: a task between trylock and unlock owns the mutex of its load.
* `WindowInv`: during a scan of load g neither the table nor any saved pointer leads to g. This part
  survives an unload and reload during the scan, and gives `HelperBypassesHook`.
* `PageInv`, `ArmedInv`, `ParentInv`: the page is writable while it is written; a table without the hook means an open window; a parent waits as long as its antv process lives.

From `Invariance` follow `TypeCorrectness`, `HookStaysArmed`, `MutexIsExclusive`,
`HelpersBypassHook` and `NoFault`.

`HookImplementsGate` is the refinement of OpenGate: the mapping reads `gate` off the life of the
module and `stage[t]` off the control point; each action of the hook is one step of the gate or a stutter, by `IInv`.

**SigScanProofs** (assumes `SignaturesAssumption`, `ScanAssumption`, and `DatabasesAssumption`:
no name overruns `virus_name`, which the code does not check). `LoopInv` says what has been
compared so far: at each control point no line before `pos` matches, and no window before `i`
matches line `pos` (`SearchedInv`); a call begins with the stream at the first line
(`RewoundInv`); `virus_name` holds the first matching name, or a zero once a window has been
compared (`NameInv`). From it follow `ScanIsExhaustive`, `ScanIsExact` (with a
lemma that a window equals a zero-free signature only if the bytes are in the file),
`NameIsVerdict`, `NameIsFirst`, and `ScanImplementsDetector`: every step of the loop is a step
or a stutter of the one-step detector.

**OnAccessProofs** (assumes `KindsAssumption`, `LimitsAssumption`, `NamesAssumption`) has the
theorems of OnDemand and of OnAccess. For any number of scanners, files and names, `OInv` needs,
beside types: what each control point holds
open (`DescriptorsInv`); that only what was found is renamed (`ControlInv`); that names stay
unique and only grow (`NamesInv`); that nobody is about to scan a protected file, or to rename or strip one that is not
suspect (`KeptInv`); that an untouched infected file is still ahead of every scanner that can
reach it, or a call of that scanner has failed for it (`CoveredInv`); what a scanner that is alone has done (`AloneInv`).
The history of failures only grows (`HistoryGrows`), and `Suspect`, the files that may be quarantined, grows with it
(`SuspectGrows`): a listed file joins it when its hash could not be read, and from then on nothing is claimed of
it. That a step that leaves a file untouched has recorded why is `AtTheFile`. From `OInv` follow
`CleanStay`, `ListedStay`, `RenamedAreStripped`, `SoloRenamesOnce`, `DetectionIsReported` and
`NothingSlipsThrough`.

`DescriptorsDoSuffice` counts instead of following one file. `BudgetInv` holds of a scanner that
is alone and has seen no `chmod` fail: what it has open, plus one for each file whose name its stream has still to return
(`ToCheck`, a leaked whitelist each), plus one more for each of them (`ToOpen`, a file on which `scan` may
fail), stays within the budget of 2 n + 8. A name leaves the stream for good when it is read, and its file is counted until
the check has left the whitelist open, or until it has been scanned; a renamed file is out of both sets, since it never gets
its first name back. The proof needs that `Files` is finite (`KindsAssumption`).

With the hook in front (and `ElsewhereAssumption`): `AccessInvariance` and `CheckedOpensAreSafe`. The invariant relates the stage of
an open to the control point of its antv process (`GateInv`, `ScanInv`, `RestInv`), and says of each
checked open that the infected file antv was started for is ahead of antv or renamed, as long as no call has failed for it (`CheckedInv`).
The step lemmas of OnDemand are used for the steps of antv.

**UpdateProofs** (assumes `SizeAssumption`). The heart of `UInv` is `FileInv`: a file is spoilt,
or still the old one with nobody writing, or will be spoilt by a transfer under way, or each missing chunk is
still to be written by some updater. `PrefixInv` says that a quiet reader has read a prefix of a
file that nobody writes. Results: `UpdateRepairs`, `NeverMixed`, `QuietScanIsWhole`.

**KscanDeviceProofs** (assumes the module's `NamesAssumption`): `InitUnwinds` for any load (where rmmod dies,
the table is restored and no more than the device number stays registered), and, when nobody opens the device during `init()`, `DeviceIsExclusive` and `WrittenIsReadBack`. With
early opens the first is false (section 6).

**HookStackProofs** (assumes `ModulesAssumption`): `StackInvariance`, `NothingDangles`,
`LoadingIsSafe`. `StackInv` says that the loaded modules stand in the order of loading
(`LoadedInv`), that the table and every saved pointer lead to modules loaded *earlier* than
their holder (`OrderInv`), and who finds the page writable (`WritableInv`). `OlderIsKept` needs the
other direction: `KeptInv` says of the i-th loaded module, when every scanner came later, that the
table leads to it or to a later one, and so does the pointer of each later one (`From`); the saved pointer a scan
puts into the table is one of these. A chain that descends in the order of loading and does not
pass below i must meet i (`ChainReaches`).

**WhitelistProofs** (assumes `ListAssumption`): `SearchInvariance`, `SearchDecides`. `SearchInv`
says where the stream can stand: before a line (`AtLine`), or before a rest that a newline or the
end of the file cuts short of a hash (`AtRest`); and that no line beginning before that place
matches. A chunk read at a line ends at the next line or, for a longer line, at such a rest
(`ChunkEnds`), so that `strncmp` on the chunk decides that line and nothing else (`ChunkDecides`).
`LinesFit` excludes lines with room for a second hash, where a rest could be taken for an entry.

**DbLineProofs** (assumes `SizesAssumption`, `BehindAssumption`): `LineInv` says that the buffer holds the last line
and its terminator, and that what was extracted is what the buffer says. `LongLineIsAlone`
follows because the first comma is in the line (`NameEndsInLine`) and every pair that is read
ends before the line does (`Offsets`). For `EntryIsReadBack` the lemma `NextPair` says that each
pair `Entry` appends leaves the name, the comma and the earlier pairs at their places, and puts its own where
`Pair` looks for it; the value that `Strtol` makes of its two digits is the byte when no digit follows them
on the stack (`TwoDigits`, `TwoDigitsConverted`). Nothing is assumed of the stack but that the digits there fit a long.

The chain of HookStack (`follow`) and the text of `Entry` are recursive functions. That such a function has a
value is proved from the least number at which no function solves its equation
(`FollowUnfolds`, `EntryUnfolds`); what it computes, from the least number at which the claim fails.

**Only model-checked**: what holds under fairness (`OpensReturn` of three modules, `OpensServed`,
`LockoutEnds`, `Terminates`, `CheckReturns`), which is outside the prover's reach. Every
invariant of the passing runs is a theorem.
The theorems say nothing of what the models abstract (section 5).

## 5. What is not modelled

* Command line, `on_access()` of `main.c`, third-party samples, data, build products: see section 1.
* A scan from a shell while the hook is loaded: its own `fopen` goes through the hook and may get EBUSY. `OnAccess` has the hook's scans only, and no unload, which `SyscallHook` covers.
* Other programs that rename or write files between the scan and the open, or while a scanner runs: the names are exchanged by scanners only.
* In SyscallHook: the file name, the flags, the kernel's protections of the module text; `lookup_address` failing.
* In OnDemand: subdirectories beyond the entry itself (the code does not descend), `path[1000]` overruns, a database that cannot be
  opened (`db` is NULL, which `getline` and `fclose` do not survive), a database that changes during a scan (`Update` has that), signals and killed scanners.
  A partial database is a smaller set `Infected`. A FIFO or device that does deliver bytes counts as a file without a window: `load_file` finds no size for it.
* In OnAccess: another working directory of antv than `/`, and names of other directories.
* In KscanDevice: rmmod while the device is open or a task is inside (the same fault as in `SyscallHook`), `message[512]` overruns.
* In HookStack: what `new_open` of `hijack-syscall.c` does with file names, unloading out of order (the saved pointer then dangles at once), a second load of one module.
* In Update: the server, the content of what it sends, a full disk other than as a transfer that ends early.
* In Whitelist: the effect of a path with shell metacharacters other than blanks.

## 6. Findings

Two are runs. The others are shown by configurations that are not runs of the project; each
names a property that TLC finds violated, e.g. `tlc -config MCUpdateSaysUpdated.cfg MCUpdate`.

| shown by | what the code does |
|---|---|
|  `hook_unload` | a scan that overlaps rmmod stores `new_open` back after `cleanup()` restored the table; the next open jumps into freed text |
| `scan_zero_byte` | a signature with a zero byte before a nonzero one is never found |
| `MCSigScanNameOnlyIfFound.cfg` | a file shorter than a signature leaves the old name in the buffer, which is read as a detection |
| `MCSigScanNameIsExact.cfg` | the name is copied without a terminator |
| `MCOnDemandHashIssue.cfg` | a path that `sha1sum` cannot hash yields 0 or 1, never the documented 4 |
| `MCDbLineTerminated.cfg` | a name that fills its heap block has no terminator |
| `MCDbLineSigFromLine.cfg` | a short line is completed from what the buffer held of an earlier one |
| `MCDbLinePairsOnly.cfg` | `strtol` reads past `temp[2]` into the stack, and a digit there changes the byte |
| `MCWhitelistWords.cfg` | a path with a blank is answered for another file |
| `MCUpdateSaysUpdated.cfg` | "updated..." is printed with an empty, partial or foreign database in place |
| `MCKscanDeviceName.cfg` | the device delivers the stored name with the length of something else, often none |
| `MCKscanDeviceEarly.cfg` | `mutex_init` after the device is visible frees a mutex that an early opener holds |
| `MCHookStackPage.cfg` | unloading one module makes the page read-only under another; its next scan dies in its store |

## 7. Plan

Done: every component of section 1 that runs, each with its proofs where the prover reaches.

Left:

1. Scans from a shell beside the loaded hook: `OnAccess` with scanners that open through the gate and are refused.
2. `Whitelist` and `DbLine` as refinements of one-step specifications, cited by `OnDemand` and `SigScan`.
