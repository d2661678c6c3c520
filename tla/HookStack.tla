----------------------------- MODULE HookStack -----------------------------
(***************************************************************************)
(* Several modules that hook sys_call_table[__NR_open] in the same way:     *)
(* hijack-linux-sys-calls/hijack-syscall.c and samples/hijack-master/       *)
(* hack_open.c, whose new_open passes every open on, and on_access.c, whose *)
(* new_open takes itself out of the table while it scans (Scanning).        *)
(* Each saves the pointer it finds and restores it on exit, so the saved    *)
(* pointers form a chain that starts in the table and ends in the kernel.   *)
(*                                                                         *)
(* Root is careful: one insmod or rmmod at a time, and rmmod only of the    *)
(* module loaded last, while nobody executes it.  Careless unloading of one *)
(* module is the subject of SyscallHook.  Bound: each module is loaded once.*)
(***************************************************************************)
EXTENDS Naturals, Sequences, FiniteSets

CONSTANTS
  Modules,   \* the modules
  Scanning,  \* those that scan
  Tasks,     \* tasks that call open(2), antv processes among them
  Kernel,    \* the kernel's sys_open
  NoOne      \* no task

ASSUME ModulesAssumption ==
  /\ IsFiniteSet(Modules) /\ Scanning \subseteq Modules
  /\ Kernel \notin Modules /\ NoOne \notin Tasks

VARIABLES
  table,   \* sys_call_table[__NR_open]
  pageRW,  \* the page of the table is writable
  phase,   \* phase[m]: progress of insmod and rmmod of m
  loaded,  \* the modules that have not gone, in the order they saved the pointer
  saved,   \* saved[m]: original_open or old_open of m
  mutex,   \* mutex[m]: the owner of the mutex of a scanning module
  pc,      \* pc[t]: where task t is
  at       \* at[t]: the module whose new_open t executes

rootVars == <<phase, loaded, saved>>
vars == <<table, pageRW, rootVars, mutex, pc, at>>

Init ==
  /\ table = Kernel
  /\ pageRW = FALSE
  /\ phase = [m \in Modules |-> "absent"]
  /\ loaded = << >>
  /\ saved = [m \in Modules |-> Kernel]
  /\ mutex = [m \in Modules |-> NoOne]
  /\ pc = [t \in Tasks |-> "idle"]
  /\ at = [t \in Tasks |-> Kernel]

Mapped(f) == f = Kernel \/ phase[f] \notin {"absent", "gone"}
Inside(t) == pc[t] \notin {"idle", "oops"}
Goto(t, label) == pc' = [pc EXCEPT ![t] = label]
RootIsFree == \A m \in Modules : phase[m] \in {"absent", "live", "gone", "stuck"}
-----------------------------------------------------------------------------
\* Control of t reaches the function f.
Jump(t, f) ==
  /\ Goto(t, IF ~Mapped(f) THEN "oops" ELSE IF f = Kernel THEN "idle" ELSE "entry")
  /\ at' = [at EXCEPT ![t] = f]

\* open(2).
Call(t) ==
  /\ pc[t] = "idle"
  /\ Jump(t, table)
  /\ UNCHANGED <<table, pageRW, rootVars, mutex>>

\* return (*original_open)(pathname, flags);
PassOn(t) ==
  /\ pc[t] = "entry" /\ at[t] \notin Scanning
  /\ Jump(t, saved[at[t]])
  /\ UNCHANGED <<table, pageRW, rootVars, mutex>>

TryLock(t) ==
  /\ pc[t] = "entry" /\ at[t] \in Scanning
  /\ \/ /\ mutex[at[t]] = NoOne
        /\ mutex' = [mutex EXCEPT ![at[t]] = t]
        /\ Goto(t, "locked")
     \/ /\ mutex[at[t]] # NoOne
        /\ Goto(t, "idle")
        /\ UNCHANGED mutex
  /\ UNCHANGED <<table, pageRW, rootVars, at>>

\* A store into the table kills the task when the page is read-only.
Store(t, f, next) ==
  /\ table' = IF pageRW THEN f ELSE table
  /\ Goto(t, IF pageRW THEN next ELSE "oops")

\* Faulty variant: a scan puts the kernel's function into the table.
PutBackKernel(t) ==
  /\ pc[t] = "locked"
  /\ Store(t, Kernel, "scan")
  /\ UNCHANGED <<pageRW, rootVars, mutex, at>>

PutBack(t) ==
  /\ pc[t] = "locked"
  /\ Store(t, saved[at[t]], "scan")
  /\ UNCHANGED <<pageRW, rootVars, mutex, at>>

\* The antv process has ended.
Rearm(t) ==
  /\ pc[t] = "scan"
  /\ Store(t, at[t], "unlock")
  /\ UNCHANGED <<pageRW, rootVars, mutex, at>>

Unlock(t) ==
  /\ pc[t] = "unlock"
  /\ mutex' = [mutex EXCEPT ![at[t]] = NoOne]
  /\ Goto(t, "original")
  /\ UNCHANGED <<table, pageRW, rootVars, at>>

CallOriginal(t) ==
  /\ pc[t] = "original"
  /\ Jump(t, saved[at[t]])
  /\ UNCHANGED <<table, pageRW, rootVars, mutex>>
-----------------------------------------------------------------------------
\* Faulty variant: the page is left read-only.
InitRWNoOp(m) ==
  /\ phase[m] = "absent" /\ RootIsFree
  /\ phase' = [phase EXCEPT ![m] = "save"]
  /\ UNCHANGED <<table, pageRW, loaded, saved, mutex, pc, at>>

\* insmod; set_addr_rw.
InitRW(m) ==
  /\ phase[m] = "absent" /\ RootIsFree
  /\ pageRW' = TRUE
  /\ phase' = [phase EXCEPT ![m] = "save"]
  /\ UNCHANGED <<table, loaded, saved, mutex, pc, at>>

\* Faulty variant: the saved pointer is read after the hook has been placed.
InitSaveLate(m) ==
  /\ phase[m] = "save"
  /\ saved' = [saved EXCEPT ![m] = m]
  /\ loaded' = Append(loaded, m)
  /\ phase' = [phase EXCEPT ![m] = "hook"]
  /\ UNCHANGED <<table, pageRW, mutex, pc, at>>

\* original_open = syscall_table[__NR_open];
InitSave(m) ==
  /\ phase[m] = "save"
  /\ saved' = [saved EXCEPT ![m] = table]
  /\ loaded' = Append(loaded, m)
  /\ phase' = [phase EXCEPT ![m] = "hook"]
  /\ UNCHANGED <<table, pageRW, mutex, pc, at>>

\* syscall_table[__NR_open] = new_open;
InitHook(m) ==
  /\ phase[m] = "hook"
  /\ table' = IF pageRW THEN m ELSE table
  /\ phase' = [phase EXCEPT ![m] = IF pageRW THEN "live" ELSE "stuck"]
  /\ UNCHANGED <<pageRW, loaded, saved, mutex, pc, at>>

\* Faulty variant: the pointer is not restored.
ExitKeepsHook(m) ==
  /\ phase[m] = "live" /\ RootIsFree
  /\ loaded[Len(loaded)] = m
  /\ \A t \in Tasks : Inside(t) => at[t] # m
  /\ phase' = [phase EXCEPT ![m] = IF pageRW THEN "ro" ELSE "stuck"]
  /\ UNCHANGED <<table, pageRW, loaded, saved, mutex, pc, at>>

\* rmmod; syscall_table[__NR_open] = original_open;  The store into a
\* read-only page kills rmmod, and the module stays loaded for good.
ExitRestore(m) ==
  /\ phase[m] = "live" /\ RootIsFree
  /\ loaded[Len(loaded)] = m
  /\ \A t \in Tasks : Inside(t) => at[t] # m
  /\ table' = IF pageRW THEN saved[m] ELSE table
  /\ phase' = [phase EXCEPT ![m] = IF pageRW THEN "ro" ELSE "stuck"]
  /\ UNCHANGED <<pageRW, loaded, saved, mutex, pc, at>>

\* set_addr_ro; exit() returns and the text is freed.
ExitRO(m) ==
  /\ phase[m] = "ro"
  /\ pageRW' = FALSE
  /\ phase' = [phase EXCEPT ![m] = "gone"]
  /\ loaded' = SubSeq(loaded, 1, Len(loaded) - 1)
  /\ UNCHANGED <<table, saved, mutex, pc, at>>
-----------------------------------------------------------------------------
HookCode(t) == PassOn(t) \/ TryLock(t) \/ PutBack(t) \/ Unlock(t) \/ CallOriginal(t)
Opening(t) == HookCode(t) \/ Rearm(t)

LoadUnload(m) ==
  InitRW(m) \/ InitSave(m) \/ InitHook(m) \/ ExitRestore(m) \/ ExitRO(m)

Next == (\E t \in Tasks : Call(t) \/ Opening(t)) \/ \E m \in Modules : LoadUnload(m)

Spec == Init /\ [][Next]_vars

\* The kernel schedules every task inside a module; antv need not end, so that
\* a scan need not.
FairSpec == Spec /\ \A t \in Tasks : WF_vars(HookCode(t))
-----------------------------------------------------------------------------
\* follow[n]: the n-th function that an open of the table's chain reaches.
follow[n \in 0 .. Cardinality(Modules)] ==
  IF n = 0 THEN table
  ELSE IF follow[n - 1] = Kernel THEN Kernel ELSE saved[follow[n - 1]]

InChain(m) == \E n \in 0 .. Cardinality(Modules) : follow[n] = m
Precedes(m, n) ==
  \E i, j \in 1 .. Len(loaded) : i < j /\ loaded[i] = m /\ loaded[j] = n

\* Unloaded in reverse order, no module leaves a pointer to itself behind:
\* the table and every saved pointer lead to the kernel or to loaded text, and
\* no task executes a module that is gone (hijack-syscall.c:59-60, 69; on_access.c:154,
\* 181, 234-236, 246).
NoDangling ==
  /\ Mapped(table)
  /\ \A t \in Tasks : Inside(t) => Mapped(at[t])
  /\ \A i \in 1 .. Len(loaded) : Mapped(saved[loaded[i]])

\* A scan drops the modules loaded after the scanner from the table for good
\* (on_access.c:181 stores the scanner's own function), but never one that was
\* loaded before every scanner: opens keep passing it (on_access.c:154, 187).
OlderKept ==
  \A m \in Modules :
    /\ phase[m] \in {"live", "stuck"}
    /\ \A s \in Scanning \ {m} : phase[s] = "absent" \/ Precedes(m, s)
    /\ m \notin Scanning
    => InChain(m)

Unloading == \E m \in Modules : phase[m] \in {"ro", "gone"}

\* Loading alone never faults, whatever is loaded on top of what
\* (hijack-syscall.c:57-60, on_access.c:228-236).
NoFaultBeforeUnload ==
  ~Unloading =>
    /\ \A t \in Tasks : pc[t] # "oops"
    /\ \A m \in Modules : phase[m] # "stuck"

\* The saved pointers form no loop: every open gets through the chain, unless
\* it is scanned for ever because antv never ends, or dies in a store, which
\* only happens after an unload (hijack-syscall.c:50, on_access.c:187).
OpensReturn ==
  \A t \in Tasks :
    \/ pc[t] # "idle" ~> (pc[t] = "idle" \/ (pc[t] = "oops" /\ Unloading))
    \/ <>[](pc[t] = "scan")

\* on_access.c:229: "allow us to write to memory page, so that we can hijack
\* the system call": while a scanner is live the page is writable.
PageStaysWritable == \A m \in Scanning : phase[m] = "live" => pageRW
=============================================================================
