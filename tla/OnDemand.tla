------------------------------ MODULE OnDemand ------------------------------
(***************************************************************************)
(* on_demand() of src/main.c: "antv -scan path" run by one or more         *)
(* processes on one directory, with whitelistCheck (src/whitelist.c) and   *)
(* rename_and_remove_permission.  Steps of the processes interleave at     *)
(* every call that looks a path up: the name checked, the name hashed, the *)
(* name scanned and the name renamed need not be the same file.            *)
(*                                                                         *)
(* A name is <<b, k>>: the base name b followed by k times ".infected".     *)
(* rename replaces the file that already has the new name.                 *)
(* What scan() finds in a file is taken from SigScan: the name buffer is   *)
(* nonempty iff the file is infected, and untouched for a file shorter     *)
(* than a signature and by a database without lines.                       *)
(*                                                                         *)
(* Every call may fail: because it must (no descriptors, no permission, no *)
(* such name), or for a reason outside the model (an unreadable directory  *)
(* or whitelist, a read error, a user who may not rename or chmod).        *)
(***************************************************************************)
EXTENDS Integers, FiniteSets

CONSTANTS
  Scanners,     \* antv -scan processes
  Files,        \* entries of the directory
  Bases,        \* base names
  First,        \* First[f]: the name f has at first
  Infected,     \* files that contain a signature of the database
  Listed,       \* files whose hash is in the whitelist
  Short,        \* files shorter than SIG_SIZE
  Dirs,         \* entries that are directories
  Directory,    \* the start path that names the directory itself
  Gone,         \* the name of a file that was replaced
  MaxSuffixes,  \* how many suffixes fit into NAME_MAX
  Spaced,       \* base names of paths that the shell takes for several words
  Endless,      \* FIFOs and devices, whose open or read may never return
  MaxFds,       \* descriptors one process may open (RLIMIT_NOFILE)
  MaxFaults     \* how many calls fail for a reason outside the model

Names == Bases \X (0 .. MaxSuffixes)
Base(n) == n[1]
Suffixed(n) == <<n[1], n[2] + 1>>
Regular == Files \ Dirs

\* load_file() finds no size in a FIFO or device, so no window either.
ASSUME KindsAssumption ==
  /\ IsFiniteSet(Files)
  /\ Infected \subseteq Files /\ Listed \subseteq Files
  /\ Short \subseteq Files /\ Dirs \subseteq Files /\ Endless \subseteq Short
  /\ Infected \intersect (Short \union Dirs) = {}
  /\ Listed \intersect (Dirs \union Endless) = {}

ASSUME LimitsAssumption ==
  /\ MaxSuffixes \in Nat \ {0}
  /\ MaxFds \in Nat /\ MaxFds >= 5  \* the database and the directory open
  /\ MaxFaults \in Nat

ASSUME NamesAssumption ==
  /\ First \in [Files -> Names]
  /\ \A f, g \in Files : First[f] = First[g] => f = g
  /\ Directory \notin Names /\ Gone \notin Names /\ Gone # Directory

VARIABLES
  name,        \* name[f]: the name f has now, or Gone when it was replaced
  permitted,   \* permitted[f]: f has not been stripped by chmod 000
  database,    \* "whole", or "empty" as a failed -update leaves it
  asRoot,      \* asRoot[s]: s runs as root, permissions do not stop it
  start,       \* start[s]: the path argument
  pc,          \* pc[s]: where on_demand is
  stream,      \* stream[s]: names readdir may still return
  path,        \* path[s]: the current path
  hash,        \* hash[s]: what the uninitialised buffer check holds
  wc,          \* wc[s]: result of the last whitelistCheck
  named,       \* named[s]: virus_name is a nonempty string
  fds,         \* fds[s]: open descriptors
  re,          \* re[s]: the result
  \* History of the failures, each with where it was and the file it was for:
  failed,      \* failed[s]: the calls of s that failed
  ever,        \* the hash and chmod calls that failed of any process
  faults       \* how many of them failed for a reason outside the model

fsVars == <<name, permitted, database>>
argVars == <<asRoot, start>>
checkVars == <<hash, wc>>
failVars == <<failed, ever, faults>>
vars == <<name, permitted, database, asRoot, start, pc, stream, path, hash, wc,
          named, fds, re, failed, ever, faults>>

Labels == {"start", "readdir", "check", "whitelist", "hash", "open", "rename",
           "chmod", "close", "done"}

At(n) == {f \in Files : name[f] = n}  \* the file named n, if any
Readable(s, n) == \E f \in At(n) : permitted[f] \/ asRoot[s]
FreeFds(s) == MaxFds - fds[s]
Goto(s, label) == pc' = [pc EXCEPT ![s] = label]

\* The call of s works, which only what can work does, ...
Works(can) == can /\ UNCHANGED failVars

\* ... or it fails for these files.
Fails(s, can, files) ==
  /\ \/ ~can /\ UNCHANGED faults
     \/ can /\ faults < MaxFaults /\ faults' = faults + 1
  /\ failed' = [failed EXCEPT ![s] = @ \union ({pc[s]} \X files)]
  /\ ever' = ever \union (({pc[s]} \intersect {"hash", "chmod"}) \X files)

\* The next entry of the directory, or the end when one file was asked for.
NextEntry(s) == Goto(s, IF stream[s].open THEN "readdir" ELSE "close")

\* stdin, stdout and stderr are open.  The start path names the directory or
\* a file in it; virus_name is an uninitialised array.
Init ==
  /\ name = First
  /\ permitted = [f \in Files |-> TRUE]
  /\ database \in {"whole", "empty"}
  /\ asRoot \in [Scanners -> BOOLEAN]
  /\ start \in [Scanners -> {Directory} \union {First[f] : f \in Regular}]
  /\ pc = [s \in Scanners |-> "start"]
  /\ stream = [s \in Scanners |-> [open |-> FALSE, left |-> {}]]
  /\ path = start
  /\ hash = [s \in Scanners |-> "other"]
  /\ wc = [s \in Scanners |-> 0]
  /\ named \in [Scanners -> BOOLEAN]
  /\ fds = [s \in Scanners |-> 3]
  /\ re = [s \in Scanners |-> "SUCCESS"]
  /\ failed = [s \in Scanners |-> {}]
  /\ ever = {}
  /\ faults = 0

-----------------------------------------------------------------------------
(***************************************************************************)
(* The loop of on_demand.                                                  *)
(***************************************************************************)

\* The database is opened; opendir starts a directory stream, or returns NULL:
\* then nothing is scanned and the result is SUCCESS.
StartDirectory(s) ==
  /\ pc[s] = "start"
  /\ start[s] = Directory
  /\ \/ /\ Works(TRUE)
        /\ stream' = [stream EXCEPT ![s] =
             [open |-> TRUE, left |-> {name[f] : f \in Files} \ {Gone}]]
        /\ fds' = [fds EXCEPT ![s] = @ + 2]
        /\ Goto(s, "readdir")
     \/ /\ Fails(s, TRUE, Files)
        /\ fds' = [fds EXCEPT ![s] = @ + 1]
        /\ Goto(s, "close")
        /\ UNCHANGED stream
  /\ UNCHANGED <<fsVars, argVars, path, checkVars, named, re>>

\* When stat fails, is_dir's buffer stays uninitialised: the path is taken for
\* a directory, which opendir then cannot open, or for a file.
StartFile(s) ==
  /\ pc[s] = "start"
  /\ start[s] # Directory
  /\ fds' = [fds EXCEPT ![s] = @ + 1]
  /\ \/ UNCHANGED failVars /\ Goto(s, "check")
     \/ Fails(s, At(start[s]) # {}, At(start[s])) /\ Goto(s, "close")
  /\ UNCHANGED <<fsVars, argVars, stream, path, checkVars, named, re>>

\* readdir returns an entry; the name may meanwhile be gone.
ReadDir(s) ==
  /\ pc[s] = "readdir"
  /\ \E n \in stream[s].left :
       /\ path' = [path EXCEPT ![s] = n]
       /\ stream' = [stream EXCEPT ![s] = [open |-> @.open, left |-> @.left \ {n}]]
  /\ Goto(s, "check")
  /\ UNCHANGED <<fsVars, argVars, checkVars, named, fds, re, failVars>>

\* readdir returns NULL: closedir.
EndOfDirectory(s) ==
  /\ pc[s] = "readdir"
  /\ stream[s].left = {}
  /\ stream' = [stream EXCEPT ![s] = [open |-> FALSE, left |-> @.left]]
  /\ fds' = [fds EXCEPT ![s] = @ - 1]
  /\ Goto(s, "close")
  /\ UNCHANGED <<fsVars, argVars, path, checkVars, named, re, failVars>>

\* fclose(db); return re;
Close(s) ==
  /\ pc[s] = "close"
  /\ fds' = [fds EXCEPT ![s] = @ - 1]
  /\ Goto(s, "done")
  /\ UNCHANGED <<fsVars, argVars, stream, path, checkVars, named, re, failVars>>

-----------------------------------------------------------------------------
(***************************************************************************)
(* whitelistCheck and UsingFileWhitelistCheck.                             *)
(***************************************************************************)

CheckReturns(s, code) ==
  /\ wc' = [wc EXCEPT ![s] = code]
  /\ IF code = 0 THEN Goto(s, "open") ELSE NextEntry(s)

CanOpen(s) == Readable(s, path[s]) /\ FreeFds(s) > 0

\* fopen(filepath, "rb"), or return 2.
OpenToCheck(s) ==
  /\ pc[s] = "check"
  /\ \/ /\ Works(CanOpen(s))
        /\ fds' = [fds EXCEPT ![s] = @ + 1]
        /\ Goto(s, "whitelist")
        /\ UNCHANGED wc
     \/ /\ Fails(s, CanOpen(s), At(path[s]))
        /\ CheckReturns(s, 2)
        /\ UNCHANGED fds
  /\ UNCHANGED <<fsVars, argVars, stream, path, hash, named, re>>

\* fopen(WHITELISTFILE, "r"), which nobody closes, or fclose(file), return 3.
OpenWhitelist(s) ==
  /\ pc[s] = "whitelist"
  /\ \/ /\ Works(FreeFds(s) > 0)
        /\ fds' = [fds EXCEPT ![s] = @ + 1]
        /\ Goto(s, "hash")
        /\ UNCHANGED wc
     \/ /\ Fails(s, FreeFds(s) > 0, At(path[s]))
        /\ CheckReturns(s, 3)
        /\ fds' = [fds EXCEPT ![s] = @ - 1]
  /\ UNCHANGED <<fsVars, argVars, stream, path, hash, named, re>>

HashOf(n) == IF At(n) \subseteq Listed THEN "listed" ELSE "other"

\* sha1sum is handed the path as one word, can read it and prints its hash.
Hashable(s) ==
  /\ Readable(s, path[s]) /\ At(path[s]) \subseteq Regular \ Endless
  /\ Base(path[s]) \notin Spaced

\* Faulty variant: the hash read may be left over from an earlier file.
PrintedBefore(s) == {hash[s], HashOf(path[s])}

\* What check holds after fgets when sha1sum has printed the hash of the path ...
Printed(s) == {HashOf(path[s])}

\* ... and when it has not: whatever the stack held, which may be the hash of an
\* earlier file, or the hash of what another word of the path names.
Unprinted(s) ==
  {hash[s], "other"} \union (IF Base(path[s]) \in Spaced THEN {"listed"} ELSE {})

\* The whitelist is searched for the hash.
Search(s, hashes) ==
  \E h \in hashes :
    /\ hash' = [hash EXCEPT ![s] = h]
    /\ CheckReturns(s, IF h = "listed" THEN 1 ELSE 0)

\* Faulty variant: pclose is forgotten.
HashKeepsPipe(s) ==
  /\ pc[s] = "hash"
  /\ \/ /\ FreeFds(s) >= 2
        /\ \/ Works(Hashable(s)) /\ Search(s, Printed(s))
           \/ Fails(s, Hashable(s), At(path[s])) /\ Search(s, Unprinted(s))
        /\ UNCHANGED fds
     \/ /\ Fails(s, FreeFds(s) >= 2, At(path[s]))
        /\ CheckReturns(s, 4)
        /\ fds' = [fds EXCEPT ![s] = @ - 1]
        /\ UNCHANGED hash
  /\ UNCHANGED <<fsVars, argVars, stream, path, named, re>>

\* Faulty variant: the file is not looked up in the whitelist.
HashIgnored(s) ==
  /\ pc[s] = "hash"
  /\ CheckReturns(s, 0)
  /\ fds' = [fds EXCEPT ![s] = @ - 1]
  /\ UNCHANGED <<fsVars, argVars, stream, path, hash, named, re, failVars>>

\* popen("sha1sum filepath") needs the two ends of a pipe, or return 4.  The
\* hash is read, pclose, and the whitelist is searched for it: 1 or 0.  The
\* caller then closes file; the whitelist stays open.
Hash(s) ==
  /\ pc[s] = "hash"
  /\ fds' = [fds EXCEPT ![s] = @ - 1]
  /\ \/ /\ FreeFds(s) >= 2
        /\ \/ Works(Hashable(s)) /\ Search(s, Printed(s))
           \/ Fails(s, Hashable(s), At(path[s])) /\ Search(s, Unprinted(s))
     \/ /\ Fails(s, FreeFds(s) >= 2, At(path[s]))
        /\ CheckReturns(s, 4)
        /\ UNCHANGED hash
  /\ UNCHANGED <<fsVars, argVars, stream, path, named, re>>

-----------------------------------------------------------------------------
(***************************************************************************)
(* The scan proper and the quarantine.                                     *)
(***************************************************************************)

\* fopen(path, "rb") fails: fclose(db) and return FAIL at once.
ScanOpenFails(s) ==
  /\ pc[s] = "open"
  /\ Fails(s, CanOpen(s), At(path[s]))
  /\ re' = [re EXCEPT ![s] = "FAIL"]
  /\ fds' = [fds EXCEPT ![s] = @ - 1]
  /\ Goto(s, "done")
  /\ UNCHANGED <<fsVars, argVars, stream, path, checkVars, named>>

\* scan() cannot read the file, or it is a directory: it returns FAIL, leaves
\* the file open and virus_name as it was.
ScanFails(s) ==
  /\ pc[s] = "open"
  /\ CanOpen(s)
  /\ Fails(s, At(path[s]) \subseteq Regular, At(path[s]))
  /\ fds' = [fds EXCEPT ![s] = @ + 1]
  /\ NextEntry(s)
  /\ UNCHANGED <<fsVars, argVars, stream, path, checkVars, named, re>>

\* scan() has read the file and closed it; virus_name tells the verdict.
Verdict(s, found, clean) ==
  /\ pc[s] = "open"
  /\ CanOpen(s)
  /\ Works(At(path[s]) \subseteq Regular)
  /\ named' = [named EXCEPT ![s] = found]
  /\ IF found
       THEN re' = [re EXCEPT ![s] = "FOUND"] /\ Goto(s, "rename")
       ELSE re' = [re EXCEPT ![s] = clean] /\ NextEntry(s)
  /\ UNCHANGED <<fsVars, argVars, stream, path, checkVars, fds>>

\* A database without lines and a file without a window leave virus_name alone.
NameAfter(s) ==
  IF database = "empty" \/ At(path[s]) \subseteq Short
    THEN named[s]
    ELSE At(path[s]) \subseteq Infected

\* Faulty variant: a clean file does not clear virus_name.
ScanKeepsName(s) == Verdict(s, named[s] \/ NameAfter(s), re[s])

\* Faulty variant: the result is that of the last file.
ScanResetsResult(s) == Verdict(s, NameAfter(s), "SUCCESS")

Scan(s) == Verdict(s, NameAfter(s), re[s])

\* A rename moves an entry of the directory under the streams that are open:
\* each may still return the old name, and may return the new one.
StreamsSee(old, new) ==
  LET Open == {x \in Scanners : stream[x].open} IN
  \E lost \in SUBSET Open : \E seen \in SUBSET Open :
    stream' = [x \in Scanners |-> [open |-> stream[x].open, left |->
       (IF x \in lost THEN stream[x].left \ {old} ELSE stream[x].left)
         \union (IF x \in seen THEN {new} ELSE {})]]

\* The file named path moves to the new name and replaces the one there.
Moved(s) ==
  /\ name' = [f \in Files |->
       IF name[f] = path[s] THEN Suffixed(path[s])
       ELSE IF name[f] = Suffixed(path[s]) THEN Gone ELSE name[f]]
  /\ StreamsSee(path[s], Suffixed(path[s]))
  /\ Goto(s, "chmod")

\* rename(2) fails when the path is gone, when the new name is too long, and
\* when it is the name of a directory.
CanRename(n) ==
  At(n) # {} /\ n[2] < MaxSuffixes /\ At(Suffixed(n)) \subseteq Regular

\* Faulty variant: a rename that fails is tried again.
RenameRetries(s) ==
  /\ pc[s] = "rename"
  /\ \/ Works(CanRename(path[s])) /\ Moved(s)
     \/ Fails(s, CanRename(path[s]), At(path[s])) /\ UNCHANGED <<name, stream, pc>>
  /\ UNCHANGED <<permitted, database, argVars, path, checkVars, named, fds, re>>

\* rename(pathname, newname); a failure ends the quarantine of this file.
Rename(s) ==
  /\ pc[s] = "rename"
  /\ \/ Works(CanRename(path[s])) /\ Moved(s)
     \/ /\ Fails(s, CanRename(path[s]), At(path[s]))
        /\ NextEntry(s)
        /\ UNCHANGED <<name, stream>>
  /\ UNCHANGED <<permitted, database, argVars, path, checkVars, named, fds, re>>

Strip(n) == permitted' = [f \in Files |-> permitted[f] /\ name[f] # n]

\* Faulty variant: the permissions are removed from the old name.
ChmodOldName(s) ==
  /\ pc[s] = "chmod"
  /\ Strip(path[s])
  /\ NextEntry(s)
  /\ UNCHANGED <<name, database, argVars, stream, path, checkVars, named, fds, re, failVars>>

\* chmod(newname, 0), which fails when the new name is gone, or when the user is
\* neither root nor the owner and seteuid(0) has not changed that: the file then
\* keeps its new name and its permissions.
Chmod(s) ==
  /\ pc[s] = "chmod"
  /\ \/ Works(At(Suffixed(path[s])) # {}) /\ Strip(Suffixed(path[s]))
     \/ /\ Fails(s, At(Suffixed(path[s])) # {}, At(Suffixed(path[s])))
        /\ UNCHANGED permitted
  /\ NextEntry(s)
  /\ UNCHANGED <<name, database, argVars, stream, path, checkVars, named, fds, re>>

-----------------------------------------------------------------------------
Step(s) ==
  \/ StartDirectory(s) \/ StartFile(s) \/ ReadDir(s) \/ EndOfDirectory(s)
  \/ OpenToCheck(s) \/ OpenWhitelist(s) \/ Hash(s)
  \/ ScanOpenFails(s) \/ ScanFails(s) \/ Scan(s)
  \/ Rename(s) \/ Chmod(s) \/ Close(s)

Next == \E s \in Scanners : Step(s)

Spec == Init /\ [][Next]_vars

\* s opens or hashes a FIFO or device, or sha1sum reads another word of the path:
\* this may take for ever.
Blocks(s) ==
  \/ /\ pc[s] \in {"check", "hash", "open"}
     /\ Readable(s, path[s]) /\ At(path[s]) \intersect Endless # {}
  \/ pc[s] = "hash" /\ Base(path[s]) \in Spaced

\* A process that can run does run, but nobody is obliged to end its wait.
FairSpec == Spec /\ \A s \in Scanners : WF_vars(~Blocks(s) /\ Step(s))
-----------------------------------------------------------------------------
(***************************************************************************)
(* Properties.                                                             *)
(***************************************************************************)

TypeOK ==
  /\ name \in [Files -> Names \union {Gone}]
  /\ permitted \in [Files -> BOOLEAN]
  /\ database \in {"whole", "empty"}
  /\ asRoot \in [Scanners -> BOOLEAN]
  /\ start \in [Scanners -> {Directory} \union Names]
  /\ pc \in [Scanners -> Labels]
  /\ stream \in [Scanners -> [open : BOOLEAN, left : SUBSET Names]]
  /\ path \in [Scanners -> {Directory} \union Names]
  /\ hash \in [Scanners -> {"listed", "other"}]
  /\ wc \in [Scanners -> 0 .. 4]
  /\ named \in [Scanners -> BOOLEAN]
  /\ fds \in [Scanners -> 0 .. MaxFds]
  /\ re \in [Scanners -> {"SUCCESS", "FOUND", "FAIL"}]
  /\ failed \in [Scanners -> SUBSET (Labels \X Files)]
  /\ ever \subseteq {"hash", "chmod"} \X Files
  /\ faults \in 0 .. MaxFaults

\* For these files scan() may leave a nonempty virus_name.
Detectable ==
  IF database = "empty" THEN Regular ELSE (Infected \union Short) \intersect Regular

\* A listed file whose own hash has always been read.
Protected(f) == f \in Listed /\ <<"hash", f>> \notin ever

\* A file that may be quarantined, and one that has such a file's next names.
Suspect == {f \in Detectable : ~Protected(f)}
Replaceable(f) ==
  \E g \in Suspect : Base(First[g]) = Base(First[f]) /\ First[g][2] < First[f][2]
Kept(f) ==
  /\ permitted[f]
  /\ name[f] = First[f] \/ (name[f] = Gone /\ Replaceable(f))

\* A file that scan() finds clean keeps its permissions and its name, whatever
\* was found in the files scanned before it on the same virus_name buffer,
\* whatever fails, and whatever the other scanners do; it is lost only when it
\* has the name that the quarantine gives to another file (main.c:213-227, 382).
\* An empty database finds no file clean: it does not touch virus_name.
CleanUntouched == \A f \in Files \ Detectable : Kept(f)

\* A whitelisted file is never renamed or stripped unless its own hash could
\* not be read once, although its path is opened, hashed, opened again and
\* renamed in separate calls, and although another scanner may rename files in
\* between; it too is lost only to the quarantine of a file whose next name it
\* has (main.c:201-224, 382; whitelist.c:26-34).
ListedUntouched == \A f \in Listed : Protected(f) => Kept(f)

\* A renamed file is stripped, or the scanner that gave it its present name is
\* about to strip it, or chmod has failed for it: when another scanner renames
\* the file between the rename and the chmod, the duty to strip it moves on
\* (main.c:382-397).
RenamedIsStripped ==
  \A f \in Files : name[f] \notin {First[f], Gone} /\ permitted[f] =>
    \/ \E s \in Scanners : pc[s] = "chmod" /\ name[f] = Suffixed(path[s])
    \/ <<"chmod", f>> \in ever

\* s has ended a scan of the directory and not given up on the way.
Scanned(s) == pc[s] = "done" /\ start[s] = Directory /\ re[s] # "FAIL"

\* An infected file that a scan has to quarantine.
Quarantinable == (Infected \intersect Regular) \ Listed

\* Where a scan can fail before it has found anything in a file.
Unseen == {"start", "check", "whitelist", "hash", "open"}

\* Once a scan of the directory by a whole database has ended without FAIL, each
\* infected file outside the whitelist is stripped or no longer where it was,
\* unless one of this scanner's own calls failed for this very file: no race
\* with other scanners, no stale hash or name and no failure for another file
\* lets it slip through (main.c:186-243).
QuarantineComplete ==
  database = "whole" =>
    \A s \in Scanners : Scanned(s) =>
      \A f \in Quarantinable : name[f] = First[f] /\ permitted[f] =>
        \E at \in Unseen \union {"rename"} : <<at, f>> \in failed[s]

\* s is not root, and no other scanner runs before s has ended.
Alone(s) == ~asRoot[s] /\ \A x \in Scanners \ {s} : pc[x] = "start"

\* One scanner that is not root renames a file once, although readdir may
\* return the new name: the stripped file cannot be opened, unless chmod has
\* failed for it (main.c:186, 224, 397).
QuarantinedOnce ==
  \A s \in Scanners : Alone(s) =>
    \A f \in Files : <<"chmod", f>> \notin ever =>
      name[f] \in {First[f], Suffixed(First[f]), Gone}

\* The result of a scan of the directory by one scanner is FOUND when there is
\* an infected file outside the whitelist whose scan did not fail: it is not
\* lost on the files after the last infected one, nor by failures for other
\* files, nor by a rename or chmod that fails (main.c:170, 223, 300).
FoundIsReported ==
  database = "whole" =>
    \A s \in Scanners : Alone(s) /\ Scanned(s) =>
      \A f \in Quarantinable :
        (\A at \in Unseen : <<at, f>> \notin failed[s]) => re[s] = "FOUND"

\* A single scanner on a directory of n entries needs 2 n + 8 descriptors: with
\* these no call lacks one, although the whitelist of each check and each
\* file that scan() fails on stay open; unless chmod has failed, because what
\* is not stripped is scanned under its new names too (whitelist.c:16,
\* main.c:205, scan.c:17-21).
DescriptorsSuffice ==
  MaxFds >= 2 * Cardinality(Files) + 8 =>
    \A s \in Scanners : Alone(s) /\ (\A f \in Files : <<"chmod", f>> \notin ever) =>
      /\ pc[s] \in {"check", "whitelist", "open"} => FreeFds(s) >= 1
      /\ pc[s] = "hash" => FreeFds(s) >= 2

\* Every scan ends, even when readdir keeps returning the names a root scanner
\* or two racing scanners create, for a name can only grow to NAME_MAX; or it
\* hangs for good on one FIFO or device, and on nothing else (main.c:186,
\* whitelist.c:5, 30).
Terminates == \A s \in Scanners : <>(pc[s] = "done") \/ <>[]Blocks(s)

\* whitelist.h:26: "4 if there was an issue hashing the file with sha1sum."
HashIssueCode ==
  [][\A s \in Scanners :
       pc[s] = "hash" /\ pc'[s] # "hash" /\ ~Hashable(s) => wc'[s] = 4]_vars
-----------------------------------------------------------------------------
(***************************************************************************)
(* Why these hold: the inductive invariant of OnAccessProofs.              *)
(***************************************************************************)

\* The control points between the top of the loop and its end.
Looping == {"readdir", "check", "whitelist", "hash", "open", "rename", "chmod"}

\* A scanner holds the database, its directory stream, and the file it checks.
DescriptorsInv ==
  \A s \in Scanners :
    LET dir == IF stream[s].open THEN 1 ELSE 0 IN
    /\ pc[s] = "start" => fds[s] = 3
    /\ pc[s] \in Looping \union {"close"} => fds[s] >= 4 + dir
    /\ pc[s] \in {"whitelist", "hash"} => fds[s] >= 5 + dir

\* The directory is read to its end unless the scan fails, and only what was
\* found is renamed.
ControlInv ==
  \A s \in Scanners :
    /\ pc[s] \in {"rename", "chmod"} => re[s] = "FOUND" /\ path[s] \in Names
    /\ pc[s] = "chmod" => Suffixed(path[s]) \in Names
    /\ pc[s] = "start" => ~stream[s].open /\ stream[s].left = {}
    /\ re[s] = "FAIL" => pc[s] = "done"
    /\ pc[s] = "readdir" => stream[s].open
    /\ start[s] = Directory /\ pc[s] \in Looping => stream[s].open
    /\ start[s] = Directory /\ pc[s] \in {"close", "done"} /\ re[s] # "FAIL" =>
         ~stream[s].open /\ stream[s].left = {}

\* No two files have one name, and a file only gains suffixes.
NamesInv ==
  /\ \A f, g \in Files : name[f] = name[g] /\ name[f] # Gone => f = g
  /\ \A f \in Files : name[f] # Gone =>
       Base(name[f]) = Base(First[f]) /\ First[f][2] <= name[f][2]

\* What is not suspect stays, because no scanner is about to scan a protected
\* file or to rename or strip one that is not suspect.
KeptInv ==
  /\ \A f \in Files \ Suspect : Kept(f)
  /\ \A s \in Scanners :
       /\ pc[s] = "open" => \A f \in Files : Protected(f) => name[f] # path[s]
       /\ pc[s] = "rename" => \A f \in Files \ Suspect : name[f] # path[s]
       /\ pc[s] = "chmod" => \A f \in Files \ Suspect : name[f] # Suffixed(path[s])

\* An infected file that nobody has touched is still to be returned to every
\* scanner of the directory or just being scanned by it, unless that scanner
\* gave up, or failed on this file before or after it found it infected.
CoveredInv ==
  database = "whole" =>
    \A s \in Scanners : start[s] = Directory /\ pc[s] # "start" =>
      \A f \in Quarantinable : name[f] = First[f] /\ permitted[f] =>
        \/ First[f] \in stream[s].left
        \/ path[s] = First[f] /\ pc[s] \in {"check", "whitelist", "hash", "open", "rename"}
        \/ re[s] = "FAIL"
        \/ \E at \in Unseen : <<at, f>> \in failed[s]
        \/ re[s] = "FOUND" /\ <<"rename", f>> \in failed[s]

\* While one scanner that is not root is alone, it renames what has its first
\* name, and what it touched is in its result.
AloneInv ==
  \A s \in Scanners : Alone(s) =>
    /\ \A f \in Files : <<"chmod", f>> \notin ever =>
         /\ name[f] \in {First[f], Suffixed(First[f]), Gone}
         /\ pc[s] = "rename" /\ name[f] = path[s] => name[f] = First[f]
    /\ re[s] # "SUCCESS" \/ (\A f \in Files : name[f] = First[f] /\ permitted[f])

\* The inductive invariant of scanners on one directory: the parts above, from
\* which the safety properties of the quarantine follow (main.c:168-408).
OInv ==
  /\ TypeOK /\ DescriptorsInv /\ ControlInv /\ NamesInv /\ KeptInv
  /\ RenamedIsStripped /\ CoveredInv /\ AloneInv

=============================================================================
