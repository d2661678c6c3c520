--------------------------- MODULE OnAccessProofs ---------------------------
(***************************************************************************)
(* The quarantine, for any number of scanners, users, files, names and      *)
(* descriptors: OInv is inductive, and the safety properties follow.  For a *)
(* single scanner BudgetInv counts the descriptors still to be left open.   *)
(*                                                                         *)
(* Then the hook and the scanner together, for any number of tasks and      *)
(* files: the invariant adds that one antv runs at a time, and where it is  *)
(* on its way to the file that it was started for.                          *)
(***************************************************************************)
EXTENDS OnAccess, FiniteSetTheorems, TLAPS

\* The names of the files in the directory are names.
LEMMA NamesFacts ==
  /\ Gone \notin Names /\ Directory \notin Names /\ Gone # Directory
  /\ \A f \in Files : First[f] \in Names
  /\ \A n \in Names :
       /\ n = <<n[1], n[2]>> /\ n[1] \in Bases /\ n[2] \in 0 .. MaxSuffixes
       /\ Suffixed(n)[1] = n[1] /\ Suffixed(n)[2] = n[2] + 1 /\ Suffixed(n) # n
       /\ n[2] < MaxSuffixes => Suffixed(n) \in Names
<1>1. /\ Gone \notin Names /\ Directory \notin Names /\ Gone # Directory
      /\ \A f \in Files : First[f] \in Names
  BY NamesAssumption
<1>2. ASSUME NEW n \in Names
      PROVE  /\ n = <<n[1], n[2]>> /\ n[1] \in Bases /\ n[2] \in 0 .. MaxSuffixes
             /\ Suffixed(n)[1] = n[1] /\ Suffixed(n)[2] = n[2] + 1 /\ Suffixed(n) # n
             /\ n[2] < MaxSuffixes => Suffixed(n) \in Names
  BY LimitsAssumption DEF Names, Suffixed
<1>3. QED
  BY <1>1, <1>2

-----------------------------------------------------------------------------
(***************************************************************************)
(* What a step of one scanner changes.                                     *)
(***************************************************************************)

\* What a failure leaves in the history.
LEMMA FailsEffect ==
  ASSUME TypeOK, NEW s \in Scanners, NEW can \in BOOLEAN, NEW files \in SUBSET Files,
         Fails(s, can, files)
  PROVE  /\ failed' \in [Scanners -> SUBSET (Labels \X Files)]
         /\ ever' \subseteq {"hash", "chmod"} \X Files
         /\ faults' \in 0 .. MaxFaults
         /\ ever \subseteq ever' /\ failed[s] \subseteq failed'[s]
         /\ \A x \in Scanners \ {s} : failed'[x] = failed[x]
         /\ \A f \in files : /\ <<pc[s], f>> \in failed'[s]
                             /\ pc[s] \in {"hash", "chmod"} => <<pc[s], f>> \in ever'
<1>1. pc[s] \in Labels
  BY DEF TypeOK
<1>2. {pc[s]} \X files \subseteq Labels \X Files
  BY <1>1
<1>3. failed' = [failed EXCEPT ![s] = failed[s] \union ({pc[s]} \X files)]
  BY DEF Fails
<1>4. ever' = ever \union (({pc[s]} \intersect {"hash", "chmod"}) \X files)
  BY DEF Fails
<1>5. faults' \in 0 .. MaxFaults
  BY LimitsAssumption DEF Fails, TypeOK
<1>6. failed' \in [Scanners -> SUBSET (Labels \X Files)]
      /\ failed'[s] = failed[s] \union ({pc[s]} \X files)
      /\ \A x \in Scanners \ {s} : failed'[x] = failed[x]
  BY <1>2, <1>3 DEF TypeOK
<1>7. ever' \subseteq {"hash", "chmod"} \X Files /\ ever \subseteq ever'
  BY <1>4 DEF TypeOK
<1>8. ASSUME NEW f \in files
      PROVE  /\ <<pc[s], f>> \in failed'[s]
             /\ pc[s] \in {"hash", "chmod"} => <<pc[s], f>> \in ever'
  BY <1>4, <1>6
<1>9. QED
  BY <1>5, <1>6, <1>7, <1>8

\* Each step works, or fails for some files; the database stays as it is.
LEMMA WorksOrFails ==
  ASSUME NEW s \in Scanners, Step(s)
  PROVE  /\ database' = database
         /\ \/ UNCHANGED failVars
            \/ \E can \in BOOLEAN : \E files \in SUBSET Files : Fails(s, can, files)
<1> USE DEF fsVars, Works
<1>1. \A n : At(n) \in SUBSET Files
  BY DEF At
<1>2. CASE StartDirectory(s)
  BY <1>2, Zenon DEF StartDirectory
<1>3. CASE StartFile(s)
  <2>1. (At(start[s]) # {}) \in BOOLEAN
    OBVIOUS
  <2>2. QED
    BY <1>1, <1>3, <2>1, Zenon DEF StartFile
<1>4. CASE ReadDir(s)
  BY <1>4, Zenon DEF ReadDir
<1>5. CASE EndOfDirectory(s)
  BY <1>5, Zenon DEF EndOfDirectory
<1>6. CASE OpenToCheck(s)
  <2>1. CanOpen(s) \in BOOLEAN
    BY DEF CanOpen, Readable
  <2>2. QED
    BY <1>1, <1>6, <2>1, Zenon DEF OpenToCheck
<1>7. CASE OpenWhitelist(s)
  <2>1. (FreeFds(s) > 0) \in BOOLEAN
    OBVIOUS
  <2>2. QED
    BY <1>1, <1>7, <2>1, Zenon DEF OpenWhitelist
<1>8. CASE Hash(s)
  <2>1. Hashable(s) \in BOOLEAN /\ (FreeFds(s) >= 2) \in BOOLEAN
    BY DEF Hashable, Readable
  <2>2. QED
    BY <1>1, <1>8, <2>1, Zenon DEF Hash
<1>9. CASE ScanOpenFails(s)
  <2>1. CanOpen(s) \in BOOLEAN
    BY DEF CanOpen, Readable
  <2>2. QED
    BY <1>1, <1>9, <2>1, Zenon DEF ScanOpenFails
<1>10. CASE ScanFails(s)
  <2>1. (At(path[s]) \subseteq Regular) \in BOOLEAN
    OBVIOUS
  <2>2. QED
    BY <1>1, <1>10, <2>1, Zenon DEF ScanFails
<1>11. CASE Scan(s)
  BY <1>11, Zenon DEF Scan, Verdict
<1>12. CASE Rename(s)
  <2>1. CanRename(path[s]) \in BOOLEAN
    BY DEF CanRename
  <2>2. QED
    BY <1>1, <1>12, <2>1, Zenon DEF Rename
<1>13. CASE Chmod(s)
  <2>1. (At(Suffixed(path[s])) # {}) \in BOOLEAN
    OBVIOUS
  <2>2. QED
    BY <1>1, <1>13, <2>1, Zenon DEF Chmod
<1>14. CASE Close(s)
  BY <1>14, Zenon DEF Close
<1>15. QED
  BY <1>2, <1>3, <1>4, <1>5, <1>6, <1>7, <1>8, <1>9, <1>10, <1>11, <1>12, <1>13, <1>14
  DEF Step

\* The history of the failures only grows.
LEMMA HistoryGrows ==
  ASSUME TypeOK, NEW s \in Scanners, Step(s)
  PROVE  /\ database' = database
         /\ failed' \in [Scanners -> SUBSET (Labels \X Files)]
         /\ ever' \subseteq {"hash", "chmod"} \X Files
         /\ faults' \in 0 .. MaxFaults
         /\ ever \subseteq ever' /\ failed[s] \subseteq failed'[s]
         /\ \A x \in Scanners \ {s} : failed'[x] = failed[x]
<1>1. CASE UNCHANGED failVars
  BY <1>1, WorksOrFails DEF failVars, TypeOK
<1>2. ASSUME NEW can \in BOOLEAN, NEW files \in SUBSET Files, Fails(s, can, files)
      PROVE  /\ failed' \in [Scanners -> SUBSET (Labels \X Files)]
             /\ ever' \subseteq {"hash", "chmod"} \X Files
             /\ faults' \in 0 .. MaxFaults
             /\ ever \subseteq ever' /\ failed[s] \subseteq failed'[s]
             /\ \A x \in Scanners \ {s} : failed'[x] = failed[x]
  BY <1>2, FailsEffect
<1>3. QED
  BY <1>1, <1>2, WorksOrFails

\* A step of s leaves the control of the others and all arguments alone.
LEMMA OthersKept ==
  ASSUME TypeOK, NEW s \in Scanners, Step(s)
  PROVE  /\ asRoot' = asRoot /\ start' = start
         /\ pc'[s] # "start" /\ pc[s] # "done"
         /\ \A x \in Scanners \ {s} :
              /\ pc'[x] = pc[x] /\ path'[x] = path[x]
              /\ fds'[x] = fds[x] /\ re'[x] = re[x]
              /\ stream'[x].open = stream[x].open
<1> USE DEF TypeOK, Goto, argVars, checkVars, fsVars, NextEntry
<1>1. CASE StartDirectory(s)
  BY <1>1 DEF StartDirectory
<1>2. CASE StartFile(s)
  BY <1>2 DEF StartFile
<1>3. CASE ReadDir(s)
  BY <1>3 DEF ReadDir
<1>4. CASE EndOfDirectory(s)
  BY <1>4 DEF EndOfDirectory
<1>5. CASE OpenToCheck(s)
  BY <1>5 DEF OpenToCheck, CheckReturns
<1>6. CASE OpenWhitelist(s)
  BY <1>6 DEF OpenWhitelist, CheckReturns
<1>7. CASE Hash(s)
  BY <1>7 DEF Hash, Search, CheckReturns
<1>8. CASE ScanOpenFails(s)
  BY <1>8 DEF ScanOpenFails
<1>9. CASE ScanFails(s)
  BY <1>9 DEF ScanFails
<1>10. CASE Scan(s)
  BY <1>10 DEF Scan, Verdict
<1>11. CASE Rename(s)
  BY <1>11 DEF Rename, Moved, StreamsSee
<1>12. CASE Chmod(s)
  BY <1>12 DEF Chmod
<1>13. CASE Close(s)
  BY <1>13 DEF Close
<1>14. QED
  BY <1>1, <1>2, <1>3, <1>4, <1>5, <1>6, <1>7, <1>8, <1>9, <1>10, <1>11, <1>12, <1>13
  DEF Step

\* Only a rename moves files, and only a chmod strips one.
LEMMA DirectoryKept ==
  ASSUME TypeOK, NEW s \in Scanners, Step(s)
  PROVE  \/ /\ name' = name /\ permitted' = permitted
            /\ \A x \in Scanners \ {s} : stream'[x] = stream[x]
            /\ pc'[s] # "chmod"
         \/ /\ pc[s] = "rename" /\ CanRename(path[s]) /\ Moved(s)
            /\ permitted' = permitted /\ path' = path /\ re' = re /\ fds' = fds
         \/ /\ pc[s] = "chmod" /\ Chmod(s) /\ pc'[s] # "chmod"
<1> USE DEF TypeOK, Goto, argVars, checkVars, fsVars, NextEntry
<1>1. CASE StartDirectory(s)
  BY <1>1 DEF StartDirectory
<1>2. CASE StartFile(s)
  BY <1>2 DEF StartFile
<1>3. CASE ReadDir(s)
  BY <1>3 DEF ReadDir
<1>4. CASE EndOfDirectory(s)
  BY <1>4 DEF EndOfDirectory
<1>5. CASE OpenToCheck(s)
  BY <1>5 DEF OpenToCheck, CheckReturns
<1>6. CASE OpenWhitelist(s)
  BY <1>6 DEF OpenWhitelist, CheckReturns
<1>7. CASE Hash(s)
  BY <1>7 DEF Hash, Search, CheckReturns
<1>8. CASE ScanOpenFails(s)
  BY <1>8 DEF ScanOpenFails
<1>9. CASE ScanFails(s)
  BY <1>9 DEF ScanFails
<1>10. CASE Scan(s)
  BY <1>10 DEF Scan, Verdict
<1>11. CASE Rename(s)
  BY <1>11 DEF Rename, Works
<1>12. CASE Chmod(s)
  BY <1>12 DEF Chmod
<1>13. CASE Close(s)
  BY <1>13 DEF Close
<1>14. QED
  BY <1>1, <1>2, <1>3, <1>4, <1>5, <1>6, <1>7, <1>8, <1>9, <1>10, <1>11, <1>12, <1>13
  DEF Step

\* What opendir makes of the stream.
LEMMA OpenedEffect ==
  ASSUME TypeOK, NEW s \in Scanners, StartDirectory(s)
  PROVE  /\ stream' \in [Scanners -> [open : BOOLEAN, left : SUBSET Names]]
         /\ pc' \in [Scanners -> Labels]
         /\ fds' = [fds EXCEPT ![s] = fds'[s]]
         /\ \/ /\ pc'[s] = "readdir" /\ stream'[s].open
               /\ stream'[s].left = {name[f] : f \in Files} \ {Gone}
               /\ fds'[s] = fds[s] + 2
            \/ /\ pc'[s] = "close" /\ stream' = stream
               /\ fds'[s] = fds[s] + 1 /\ Fails(s, TRUE, Files)
<1> DEFINE all == {name[f] : f \in Files} \ {Gone}
           opened == [open |-> TRUE, left |-> all]
<1>1. all \subseteq Names
  BY DEF TypeOK
<1>2. CASE /\ stream' = [stream EXCEPT ![s] = opened] /\ fds' = [fds EXCEPT ![s] = @ + 2]
           /\ Goto(s, "readdir")
  <2>1. opened \in [open : BOOLEAN, left : SUBSET Names] /\ opened.open /\ opened.left = all
    BY <1>1
  <2> HIDE DEF opened, all
  <2>2. stream' \in [Scanners -> [open : BOOLEAN, left : SUBSET Names]] /\ stream'[s] = opened
    BY <1>2, <2>1 DEF TypeOK
  <2>3. pc' \in [Scanners -> Labels] /\ pc'[s] = "readdir"
    BY <1>2 DEF TypeOK, Labels, Goto
  <2>4. fds'[s] = fds[s] + 2 /\ fds' = [fds EXCEPT ![s] = fds'[s]]
    BY <1>2 DEF TypeOK
  <2>5. QED
    BY <2>1, <2>2, <2>3, <2>4 DEF all
<1>3. CASE /\ stream' = stream /\ fds' = [fds EXCEPT ![s] = @ + 1] /\ Goto(s, "close")
           /\ Fails(s, TRUE, Files)
  <2>1. fds'[s] = fds[s] + 1 /\ fds' = [fds EXCEPT ![s] = fds'[s]]
    BY <1>3 DEF TypeOK
  <2>2. QED
    BY <1>3, <2>1 DEF TypeOK, Labels, Goto
<1> HIDE DEF opened
<1>4. QED
  BY <1>2, <1>3, Zenon DEF StartDirectory, opened, all

\* What a rename makes of a name, and of the streams.
LEMMA MovedEffect ==
  ASSUME TypeOK, NEW s \in Scanners, pc[s] = "rename", CanRename(path[s]), Moved(s)
  PROVE  /\ path[s] \in Names /\ Suffixed(path[s]) \in Names
         /\ name' \in [Files -> Names \union {Gone}]
         /\ \A f \in Files : name'[f] =
              IF name[f] = path[s] THEN Suffixed(path[s])
              ELSE IF name[f] = Suffixed(path[s]) THEN Gone ELSE name[f]
         /\ stream' \in [Scanners -> [open : BOOLEAN, left : SUBSET Names]]
         /\ \A x \in Scanners :
              /\ stream'[x].open = stream[x].open
              /\ stream[x].left \ {path[s]} \subseteq stream'[x].left
              /\ stream'[x].left \subseteq stream[x].left \union {Suffixed(path[s])}
              /\ ~stream[x].open => stream'[x].left = stream[x].left
         /\ pc' = [pc EXCEPT ![s] = "chmod"]
<1>1. path[s] \in {Directory} \union Names
  BY DEF TypeOK
<1>2. PICK f \in Files : name[f] = path[s]
  BY DEF CanRename, At
<1>3. name[f] \in Names \union {Gone}
  BY <1>2 DEF TypeOK
<1>4. path[s] \in Names /\ path[s][2] < MaxSuffixes
  BY <1>1, <1>2, <1>3, NamesFacts DEF CanRename
<1>5. Suffixed(path[s]) \in Names
  BY <1>4, NamesFacts
<1>6. /\ name' \in [Files -> Names \union {Gone}]
      /\ \A g \in Files : name'[g] =
           IF name[g] = path[s] THEN Suffixed(path[s])
           ELSE IF name[g] = Suffixed(path[s]) THEN Gone ELSE name[g]
  BY <1>5 DEF Moved, TypeOK
<1> DEFINE Left(x, lost, seen) ==
      (IF x \in lost THEN stream[x].left \ {path[s]} ELSE stream[x].left)
        \union (IF x \in seen THEN {Suffixed(path[s])} ELSE {})
<1>7. PICK lost \in SUBSET {x \in Scanners : stream[x].open} :
        \E seen \in SUBSET {x \in Scanners : stream[x].open} :
          stream' = [x \in Scanners |->
                      [open |-> stream[x].open, left |-> Left(x, lost, seen)]]
  BY DEF Moved, StreamsSee
<1>8. PICK seen \in SUBSET {x \in Scanners : stream[x].open} :
        stream' = [x \in Scanners |->
                    [open |-> stream[x].open, left |-> Left(x, lost, seen)]]
  BY <1>7
<1>9. ASSUME NEW x \in Scanners
      PROVE  /\ Left(x, lost, seen) \subseteq Names
             /\ stream[x].left \ {path[s]} \subseteq Left(x, lost, seen)
             /\ Left(x, lost, seen) \subseteq stream[x].left \union {Suffixed(path[s])}
             /\ ~stream[x].open => Left(x, lost, seen) = stream[x].left
             /\ stream[x].open \in BOOLEAN
  <2>1. stream[x].left \subseteq Names /\ stream[x].open \in BOOLEAN
    BY DEF TypeOK
  <2>2. QED
    BY <1>5, <1>7, <1>8, <2>1
<1> HIDE DEF Left
<1>10. QED
  BY <1>4, <1>5, <1>6, <1>8, <1>9 DEF Moved, Goto

-----------------------------------------------------------------------------
(***************************************************************************)
(* One lemma for each part of the invariant.                               *)
(***************************************************************************)

\* Where a check of the whitelist leads.
LEMMA CheckEffect ==
  ASSUME TypeOK, NEW s \in Scanners, NEW code \in 0 .. 4, CheckReturns(s, code)
  PROVE  /\ wc' \in [Scanners -> 0 .. 4] /\ wc'[s] = code
         /\ pc' \in [Scanners -> Labels]
         /\ code = 0 => pc'[s] = "open"
         /\ code # 0 => pc'[s] = IF stream[s].open THEN "readdir" ELSE "close"
BY DEF TypeOK, CheckReturns, NextEntry, Goto, Labels

\* Every step of on_demand keeps the types.
LEMMA TypeStep ==
  ASSUME TypeOK, DescriptorsInv, NEW s \in Scanners, Step(s)
  PROVE  TypeOK'
<1> DEFINE Others ==
      /\ name' \in [Files -> Names \union {Gone}]
      /\ permitted' \in [Files -> BOOLEAN]
      /\ asRoot' \in [Scanners -> BOOLEAN]
      /\ start' \in [Scanners -> {Directory} \union Names]
      /\ pc' \in [Scanners -> Labels]
      /\ stream' \in [Scanners -> [open : BOOLEAN, left : SUBSET Names]]
      /\ path' \in [Scanners -> {Directory} \union Names]
      /\ hash' \in [Scanners -> {"listed", "other"}]
      /\ wc' \in [Scanners -> 0 .. 4]
      /\ named' \in [Scanners -> BOOLEAN]
      /\ fds' \in [Scanners -> 0 .. MaxFds]
      /\ re' \in [Scanners -> {"SUCCESS", "FOUND", "FAIL"}]
<1> SUFFICES Others
  BY HistoryGrows DEF TypeOK
<1> USE DEF TypeOK, Goto, argVars, checkVars, fsVars, NextEntry, FreeFds, Labels
<1>0. fds[s] \in 0 .. MaxFds /\ MaxFds \in Nat /\ MaxFds >= 5
  BY LimitsAssumption
<1>1. CASE StartDirectory(s)
  <2>1. fds[s] = 3
    BY <1>1 DEF StartDirectory, DescriptorsInv
  <2>2. fds' = [fds EXCEPT ![s] = fds'[s]] /\ fds'[s] \in {4, 5}
    <3>1. fds' = [fds EXCEPT ![s] = fds'[s]]
          /\ (fds'[s] = fds[s] + 2 \/ fds'[s] = fds[s] + 1)
      BY <1>1, OpenedEffect, Zenon
    <3>2. QED
      BY <2>1, <3>1
  <2>3. fds' \in [Scanners -> 0 .. MaxFds]
    BY <1>0, <2>2
  <2>4. stream' \in [Scanners -> [open : BOOLEAN, left : SUBSET Names]]
        /\ pc' \in [Scanners -> Labels]
    BY <1>1, OpenedEffect
  <2>5. UNCHANGED <<name, permitted, asRoot, start, path, hash, wc, named, re>>
    BY <1>1 DEF StartDirectory
  <2> HIDE DEF Labels
  <2>6. QED
    BY <2>3, <2>4, <2>5
<1>2. CASE StartFile(s)
  <2>1. fds[s] = 3
    BY <1>2 DEF StartFile, DescriptorsInv
  <2>2. QED
    BY <1>0, <1>2, <2>1 DEF StartFile
<1>3. CASE ReadDir(s)
  BY <1>3 DEF ReadDir
<1>4. CASE EndOfDirectory(s)
  <2>1. fds[s] >= 4
    BY <1>0, <1>4 DEF EndOfDirectory, DescriptorsInv, Looping
  <2>2. QED
    BY <1>0, <1>4, <2>1 DEF EndOfDirectory
<1>5. CASE OpenToCheck(s)
  <2>1. CASE CanOpen(s) /\ fds' = [fds EXCEPT ![s] = @ + 1] /\ Goto(s, "whitelist") /\ UNCHANGED wc
    <3>1. fds' \in [Scanners -> 0 .. MaxFds]
      BY <1>0, <2>1 DEF CanOpen
    <3>2. QED
      BY <1>5, <2>1, <3>1 DEF OpenToCheck
  <2>2. CASE CheckReturns(s, 2) /\ UNCHANGED fds
    BY <1>5, <2>2, CheckEffect DEF OpenToCheck
  <2>3. QED
    BY <1>5, <2>1, <2>2 DEF OpenToCheck, Works
<1>6. CASE OpenWhitelist(s)
  <2>1. fds[s] >= 4
    BY <1>0, <1>6 DEF OpenWhitelist, DescriptorsInv, Looping
  <2>2. CASE FreeFds(s) > 0 /\ fds' = [fds EXCEPT ![s] = @ + 1] /\ Goto(s, "hash") /\ UNCHANGED wc
    <3>1. fds' \in [Scanners -> 0 .. MaxFds]
      BY <1>0, <2>2
    <3>2. QED
      BY <1>6, <2>2, <3>1 DEF OpenWhitelist
  <2>3. CASE CheckReturns(s, 3) /\ fds' = [fds EXCEPT ![s] = @ - 1]
    <3>1. fds' \in [Scanners -> 0 .. MaxFds]
      BY <1>0, <2>1, <2>3
    <3>2. QED
      BY <1>6, <2>3, <3>1, CheckEffect DEF OpenWhitelist
  <2>4. QED
    BY <1>6, <2>2, <2>3 DEF OpenWhitelist, Works
<1>7. CASE Hash(s)
  <2>1. fds[s] >= 4
    BY <1>0, <1>7 DEF Hash, DescriptorsInv, Looping
  <2>2. \A h \in Printed(s) \union Unprinted(s) : h \in {"listed", "other"}
    BY DEF Printed, Unprinted, HashOf
  <2>3. fds' \in [Scanners -> 0 .. MaxFds]
    BY <1>0, <1>7, <2>1 DEF Hash
  <2>4. ASSUME NEW h \in {"listed", "other"}, hash' = [hash EXCEPT ![s] = h],
               CheckReturns(s, IF h = "listed" THEN 1 ELSE 0)
        PROVE  Others
    BY <1>7, <2>3, <2>4, CheckEffect DEF Hash
  <2>5. CASE CheckReturns(s, 4) /\ UNCHANGED hash
    BY <1>7, <2>3, <2>5, CheckEffect DEF Hash
  <2>6. QED
    BY <1>7, <2>2, <2>4, <2>5 DEF Hash, Search
<1>8. CASE ScanOpenFails(s)
  <2>1. fds[s] >= 4
    BY <1>0, <1>8 DEF ScanOpenFails, DescriptorsInv, Looping
  <2>2. QED
    BY <1>0, <1>8, <2>1 DEF ScanOpenFails
<1>9. CASE ScanFails(s)
  <2>1. FreeFds(s) > 0
    BY <1>9 DEF ScanFails, CanOpen
  <2>2. QED
    BY <1>0, <1>9, <2>1 DEF ScanFails
<1>10. CASE Scan(s)
  <2>1. NameAfter(s) \in BOOLEAN
    BY DEF NameAfter
  <2>2. QED
    BY <1>10, <2>1 DEF Scan, Verdict
<1>11. CASE Rename(s)
  <2>1. CASE CanRename(path[s]) /\ Moved(s)
    <3>1. pc[s] = "rename"
      BY <1>11 DEF Rename
    <3>2. name' \in [Files -> Names \union {Gone}]
          /\ stream' \in [Scanners -> [open : BOOLEAN, left : SUBSET Names]]
          /\ pc' = [pc EXCEPT ![s] = "chmod"]
      BY <2>1, <3>1, MovedEffect
    <3>3. QED
      BY <1>11, <3>2 DEF Rename
  <2>2. CASE NextEntry(s) /\ UNCHANGED <<name, stream>>
    BY <1>11, <2>2 DEF Rename
  <2>3. QED
    BY <1>11, <2>1, <2>2 DEF Rename, Works
<1>12. CASE Chmod(s)
  BY <1>12 DEF Chmod, Strip
<1>13. CASE Close(s)
  <2>1. fds[s] >= 4
    BY <1>0, <1>13 DEF Close, DescriptorsInv
  <2>2. QED
    BY <1>0, <1>13, <2>1 DEF Close
<1>14. QED
  BY <1>1, <1>2, <1>3, <1>4, <1>5, <1>6, <1>7, <1>8, <1>9, <1>10, <1>11, <1>12, <1>13
  DEF Step

\* ... and the account of open descriptors.
LEMMA DescriptorsStep ==
  ASSUME TypeOK, DescriptorsInv, ControlInv, NEW s \in Scanners, Step(s)
  PROVE  DescriptorsInv'
<1> DEFINE Holds(x) ==
      /\ pc[x] = "start" => fds[x] = 3
      /\ pc[x] \in Looping \union {"close"} =>
           fds[x] >= 4 + (IF stream[x].open THEN 1 ELSE 0)
      /\ pc[x] \in {"whitelist", "hash"} =>
           fds[x] >= 5 + (IF stream[x].open THEN 1 ELSE 0)
<1>1. ASSUME NEW x \in Scanners \ {s} PROVE Holds(x)'
  <2>1. pc'[x] = pc[x] /\ fds'[x] = fds[x] /\ stream'[x].open = stream[x].open
    BY OthersKept
  <2>2. Holds(x)
    BY DEF DescriptorsInv
  <2>3. QED
    BY <2>1, <2>2
<1>2. Holds(s)'
  <2> USE DEF TypeOK, Goto, argVars, checkVars, fsVars, NextEntry, FreeFds, Looping
  <2>0. fds[s] \in Int /\ stream[s].open \in BOOLEAN
    BY LimitsAssumption
  <2>1. Holds(s)
    BY DEF DescriptorsInv
  <2>2. CASE StartDirectory(s)
    <3>1. /\ pc[s] = "start"
          /\ \/ pc'[s] = "readdir" /\ fds'[s] = 5
             \/ pc'[s] = "close" /\ fds'[s] = 4 /\ stream' = stream
      <4>1. pc[s] = "start"
        BY <2>2 DEF StartDirectory
      <4>2. fds[s] = 3
        BY <2>1, <4>1
      <4>3. \/ pc'[s] = "readdir" /\ fds'[s] = 5
            \/ pc'[s] = "close" /\ fds'[s] = 4 /\ stream' = stream
        <5>1. \/ pc'[s] = "readdir" /\ fds'[s] = fds[s] + 2
              \/ pc'[s] = "close" /\ fds'[s] = fds[s] + 1 /\ stream' = stream
          BY <2>2, OpenedEffect, Zenon
        <5>2. QED
          BY <4>2, <5>1
      <4>4. QED
        BY <4>1, <4>2, <4>3
    <3>2. ~stream[s].open
      BY <3>1 DEF ControlInv
    <3>3. QED
      BY <3>1, <3>2
  <2>3. CASE StartFile(s)
    <3>1. ~stream[s].open
      BY <2>3 DEF StartFile, ControlInv
    <3>2. QED
      BY <2>0, <2>1, <2>3, <3>1 DEF StartFile
  <2>4. CASE ReadDir(s)
    BY <2>0, <2>1, <2>4 DEF ReadDir
  <2>5. CASE EndOfDirectory(s)
    <3>1. stream[s].open
      BY <2>5 DEF EndOfDirectory, ControlInv
    <3>2. QED
      BY <2>0, <2>1, <2>5, <3>1 DEF EndOfDirectory
  <2>6. CASE OpenToCheck(s)
    BY <2>0, <2>1, <2>6 DEF OpenToCheck, CheckReturns
  <2>7. CASE OpenWhitelist(s)
    BY <2>0, <2>1, <2>7 DEF OpenWhitelist, CheckReturns
  <2>8. CASE Hash(s)
    BY <2>0, <2>1, <2>8 DEF Hash, Search, CheckReturns
  <2>9. CASE ScanOpenFails(s)
    BY <2>0, <2>1, <2>9 DEF ScanOpenFails
  <2>10. CASE ScanFails(s)
    BY <2>0, <2>1, <2>10 DEF ScanFails
  <2>11. CASE Scan(s)
    BY <2>0, <2>1, <2>11 DEF Scan, Verdict
  <2>12. CASE Rename(s)
    <3>1. CASE CanRename(path[s]) /\ Moved(s)
      <4>1. stream'[s].open = stream[s].open /\ pc' = [pc EXCEPT ![s] = "chmod"]
        BY <2>12, <3>1, MovedEffect DEF Rename
      <4>2. QED
        BY <2>0, <2>1, <2>12, <4>1 DEF Rename
    <3>2. CASE NextEntry(s) /\ UNCHANGED <<name, stream>>
      BY <2>0, <2>1, <2>12, <3>2 DEF Rename
    <3>3. QED
      BY <2>12, <3>1, <3>2 DEF Rename, Works
  <2>13. CASE Chmod(s)
    BY <2>0, <2>1, <2>13 DEF Chmod
  <2>14. CASE Close(s)
    BY <2>0, <2>1, <2>14 DEF Close
  <2>15. QED
    BY <2>2, <2>3, <2>4, <2>5, <2>6, <2>7, <2>8, <2>9, <2>10, <2>11, <2>12, <2>13, <2>14
    DEF Step
<1>3. QED
  BY <1>1, <1>2 DEF DescriptorsInv

\* ... and what each control point knows of the process.
LEMMA ControlStep ==
  ASSUME TypeOK, ControlInv, NEW s \in Scanners, Step(s)
  PROVE  ControlInv'
<1> DEFINE Holds(x) ==
      /\ pc[x] \in {"rename", "chmod"} => re[x] = "FOUND" /\ path[x] \in Names
      /\ pc[x] = "chmod" => Suffixed(path[x]) \in Names
      /\ pc[x] = "start" => ~stream[x].open /\ stream[x].left = {}
      /\ re[x] = "FAIL" => pc[x] = "done"
      /\ pc[x] = "readdir" => stream[x].open
      /\ start[x] = Directory /\ pc[x] \in Looping => stream[x].open
      /\ start[x] = Directory /\ pc[x] \in {"close", "done"} /\ re[x] # "FAIL" =>
           ~stream[x].open /\ stream[x].left = {}
<1>1. ASSUME NEW x \in Scanners \ {s} PROVE Holds(x)'
  <2>1. /\ pc'[x] = pc[x] /\ path'[x] = path[x] /\ re'[x] = re[x]
        /\ stream'[x].open = stream[x].open /\ start' = start
    BY OthersKept
  <2>2. ~stream[x].open => stream'[x].left = stream[x].left
    BY DirectoryKept, MovedEffect DEF Chmod
  <2>3. Holds(x)
    BY DEF ControlInv
  <2>4. Suffixed(path[x])' = Suffixed(path[x])
    BY <2>1 DEF Suffixed
  <2>5. QED
    BY <2>1, <2>2, <2>3, <2>4
<1>2. Holds(s)'
  <2> USE DEF TypeOK, Goto, argVars, checkVars, fsVars, NextEntry, Looping
  <2>1. Holds(s)
    BY DEF ControlInv
  <2>2. CASE StartDirectory(s)
    <3>1. pc[s] = "start" /\ UNCHANGED <<start, path, re>>
      BY <2>2 DEF StartDirectory
    <3>2. \/ pc'[s] = "readdir" /\ stream'[s].open
          \/ pc'[s] = "close" /\ stream' = stream
      BY <2>2, OpenedEffect
    <3>3. QED
      BY <2>1, <3>1, <3>2
  <2>3. CASE StartFile(s)
    BY <2>1, <2>3 DEF StartFile
  <2>4. CASE ReadDir(s)
    BY <2>1, <2>4 DEF ReadDir
  <2>5. CASE EndOfDirectory(s)
    BY <2>1, <2>5 DEF EndOfDirectory
  <2>6. CASE OpenToCheck(s)
    BY <2>1, <2>6 DEF OpenToCheck, CheckReturns
  <2>7. CASE OpenWhitelist(s)
    BY <2>1, <2>7 DEF OpenWhitelist, CheckReturns
  <2>8. CASE Hash(s)
    BY <2>1, <2>8 DEF Hash, Search, CheckReturns
  <2>9. CASE ScanOpenFails(s)
    BY <2>1, <2>9 DEF ScanOpenFails
  <2>10. CASE ScanFails(s)
    BY <2>1, <2>10 DEF ScanFails
  <2>11. CASE Scan(s)
    <3>1. path[s] \in Names
      <4>1. PICK f \in Files : name[f] = path[s]
        BY <2>11 DEF Scan, Verdict, CanOpen, Readable, At
      <4>2. QED
        BY <4>1, NamesFacts
    <3>2. CASE NameAfter(s)
      BY <2>1, <2>11, <3>1, <3>2 DEF Scan, Verdict
    <3>3. CASE ~NameAfter(s)
      BY <2>1, <2>11, <3>3 DEF Scan, Verdict
    <3>4. QED
      BY <3>2, <3>3
  <2>12. CASE Rename(s)
    <3>1. CASE CanRename(path[s]) /\ Moved(s)
      <4>1. /\ stream'[s].open = stream[s].open /\ pc' = [pc EXCEPT ![s] = "chmod"]
            /\ path[s] \in Names /\ Suffixed(path[s]) \in Names
        BY <2>12, <3>1, MovedEffect DEF Rename
      <4>2. Suffixed(path[s])' = Suffixed(path[s])
        BY <2>12 DEF Rename, Suffixed
      <4>3. QED
        BY <2>1, <2>12, <4>1, <4>2 DEF Rename
    <3>2. CASE NextEntry(s) /\ UNCHANGED <<name, stream>>
      BY <2>1, <2>12, <3>2 DEF Rename
    <3>3. QED
      BY <2>12, <3>1, <3>2 DEF Rename, Works
  <2>13. CASE Chmod(s)
    BY <2>1, <2>13 DEF Chmod
  <2>14. CASE Close(s)
    BY <2>1, <2>14 DEF Close
  <2>15. QED
    BY <2>2, <2>3, <2>4, <2>5, <2>6, <2>7, <2>8, <2>9, <2>10, <2>11, <2>12, <2>13, <2>14
    DEF Step
<1>3. QED
  BY <1>1, <1>2 DEF ControlInv

\* ... and what each inode may be called.
LEMMA NamesStep ==
  ASSUME TypeOK, NamesInv, NEW s \in Scanners, Step(s)
  PROVE  NamesInv'
<1>1. CASE name' = name
  BY <1>1 DEF NamesInv, Base
<1>2. CASE pc[s] = "rename" /\ CanRename(path[s]) /\ Moved(s)
  <2> DEFINE old == path[s]
             new == Suffixed(path[s])
  <2>1. /\ old \in Names /\ new \in Names
        /\ \A f \in Files : name'[f] =
             IF name[f] = old THEN new ELSE IF name[f] = new THEN Gone ELSE name[f]
    BY <1>2, MovedEffect
  <2>2. new[1] = old[1] /\ new[2] = old[2] + 1 /\ old[2] \in Nat
    BY <2>1, NamesFacts
  <2>3. ASSUME NEW f \in Files, NEW g \in Files, name'[f] = name'[g], name'[f] # Gone
        PROVE  f = g
    BY <2>1, <2>3, NamesFacts DEF NamesInv
  <2>4. ASSUME NEW f \in Files, name'[f] # Gone
        PROVE  Base(name'[f]) = Base(First[f]) /\ First[f][2] <= name'[f][2]
    <3>1. First[f] \in Names /\ First[f][2] \in Nat
      BY NamesFacts
    <3>2. name[f] # Gone => Base(name[f]) = Base(First[f]) /\ First[f][2] <= name[f][2]
      BY DEF NamesInv
    <3>3. CASE name[f] = old
      BY <2>1, <2>2, <3>1, <3>2, <3>3, NamesFacts DEF Base
    <3>4. CASE name[f] # old
      BY <2>1, <2>4, <3>2, <3>4 DEF Base
    <3>5. QED
      BY <3>3, <3>4
  <2>5. QED
    BY <2>3, <2>4 DEF NamesInv
<1>3. QED
  BY <1>1, <1>2, DirectoryKept DEF Chmod

\* ... and that a file under a new name has lost its permissions.
LEMMA StrippedStep ==
  ASSUME TypeOK, RenamedIsStripped, NEW s \in Scanners, Step(s)
  PROVE  RenamedIsStripped'
<1> SUFFICES ASSUME NEW f \in Files, name'[f] \notin {First[f], Gone}, permitted'[f],
                    <<"chmod", f>> \notin ever'
             PROVE  \E x \in Scanners : pc'[x] = "chmod" /\ name'[f] = Suffixed(path'[x])
  BY DEF RenamedIsStripped, Suffixed
<1>0. <<"chmod", f>> \notin ever
  BY HistoryGrows
<1>1. CASE pc[s] = "rename" /\ CanRename(path[s]) /\ Moved(s)
           /\ permitted' = permitted /\ path' = path
  <2>1. /\ name'[f] = IF name[f] = path[s] THEN Suffixed(path[s])
                      ELSE IF name[f] = Suffixed(path[s]) THEN Gone ELSE name[f]
        /\ pc' = [pc EXCEPT ![s] = "chmod"]
    BY <1>1, MovedEffect
  <2>2. CASE name[f] = path[s]
    <3>1. pc'[s] = "chmod" /\ name'[f] = Suffixed(path'[s])
      BY <1>1, <2>1, <2>2 DEF TypeOK
    <3>2. QED
      BY <3>1
  <2>3. CASE name[f] # path[s]
    <3>1. name'[f] = name[f]
      BY <2>1, <2>3
    <3>2. PICK x \in Scanners : pc[x] = "chmod" /\ name[f] = Suffixed(path[x])
      BY <1>0, <1>1, <3>1 DEF RenamedIsStripped
    <3>3. x # s
      BY <1>1, <3>2
    <3>4. QED
      BY <1>1, <2>1, <3>1, <3>2, <3>3 DEF TypeOK
  <2>4. QED
    BY <2>2, <2>3
<1>2. CASE name' = name /\ permitted' = permitted /\ pc[s] # "chmod"
  <2>1. PICK x \in Scanners : pc[x] = "chmod" /\ name[f] = Suffixed(path[x])
    BY <1>0, <1>2 DEF RenamedIsStripped
  <2>2. pc'[x] = "chmod" /\ path'[x] = path[x]
    BY <1>2, <2>1, OthersKept
  <2>3. QED
    BY <1>2, <2>1, <2>2
<1>3. CASE pc[s] = "chmod" /\ Chmod(s)
  <2>1. name'[f] = name[f] /\ permitted[f] /\ name[f] # Suffixed(path[s])
    <3> DEFINE new == Suffixed(path[s])
    <3>1. name' = name
      BY <1>3 DEF Chmod
    <3>2. CASE Strip(new)
      BY <3>1, <3>2 DEF Strip, TypeOK
    <3>3. CASE Fails(s, At(new) # {}, At(new)) /\ permitted' = permitted
      <4>1. (At(new) # {}) \in BOOLEAN /\ At(new) \in SUBSET Files
        BY DEF At
      <4>2. f \notin At(new)
        BY <1>3, <3>3, <4>1, FailsEffect
      <4>3. QED
        BY <3>1, <3>3, <4>2 DEF At
    <3>4. QED
      BY <1>3, <3>2, <3>3 DEF Chmod
  <2>2. PICK x \in Scanners : pc[x] = "chmod" /\ name[f] = Suffixed(path[x])
    BY <1>0, <2>1 DEF RenamedIsStripped
  <2>3. pc'[x] = "chmod" /\ path'[x] = path[x]
    BY <2>1, <2>2, OthersKept
  <2>4. QED
    BY <2>1, <2>2, <2>3
<1>4. pc[s] = "chmod" => Chmod(s)
  BY DEF Step, StartDirectory, StartFile, ReadDir, EndOfDirectory, OpenToCheck,
    OpenWhitelist, Hash, ScanOpenFails, ScanFails, Scan, Verdict, Rename, Close
<1>5. QED
  BY <1>1, <1>2, <1>3, <1>4, DirectoryKept

\* Files of one name are one file.
LEMMA OneFile ==
  ASSUME NamesInv, NEW f \in Files, name[f] # Gone
  PROVE  At(name[f]) = {f}
BY DEF NamesInv, At

\* A listed file is recognised wherever it is, or could not be hashed.
LEMMA ListedRecognised ==
  ASSUME TypeOK, NamesInv, NEW s \in Scanners, Hash(s),
         NEW f \in Files, name[f] = path[s], Protected(f)'
  PROVE  pc'[s] # "open"
<1> USE DEF Protected
<1>1. At(path[s]) = {f} /\ At(path[s]) \in SUBSET Files
  BY NamesFacts, OneFile DEF TypeOK
<1>2. HashOf(path[s]) = "listed"
  BY <1>1 DEF HashOf
<1>3. ASSUME NEW can \in BOOLEAN, Fails(s, can, At(path[s])) PROVE FALSE
  <2>1. pc[s] = "hash"
    BY DEF Hash
  <2>2. <<"hash", f>> \in ever'
    BY <1>1, <1>3, <2>1, FailsEffect
  <2>3. QED
    BY <2>2
<1>4. Hashable(s) \in BOOLEAN /\ (FreeFds(s) >= 2) \in BOOLEAN
  BY DEF Hashable, Readable
<1>5. Search(s, {"listed"})
  BY <1>2, <1>3, <1>4, Zenon DEF Hash, Printed
<1>6. QED
  BY <1>5 DEF Search, CheckReturns, NextEntry, Goto, TypeOK

\* What scan() reports in a file whose name a suspect file does not have.
LEMMA FoundIsSuspect ==
  ASSUME TypeOK, NamesInv, KeptInv, NEW s \in Scanners, pc[s] = "open",
         At(path[s]) \subseteq Regular, NameAfter(s),
         NEW f \in Files \ Suspect
  PROVE  name[f] # path[s]
<1> SUFFICES ASSUME name[f] = path[s] PROVE FALSE
  OBVIOUS
<1>1. name[f] # Gone
  BY NamesFacts DEF TypeOK
<1>2. At(path[s]) = {f}
  BY <1>1, OneFile
<1>3. f \in Regular /\ ~Protected(f)
  BY <1>2 DEF KeptInv
<1>4. f \in Detectable
  BY <1>2, <1>3 DEF NameAfter, Detectable
<1>5. QED
  BY <1>3, <1>4 DEF Suspect

\* What is suspect stays so.
LEMMA SuspectGrows ==
  ASSUME TypeOK, NEW s \in Scanners, Step(s)
  PROVE  /\ \A f \in Files : Protected(f)' => Protected(f)
         /\ Files \ Suspect' \subseteq Files \ Suspect
         /\ \A f \in Files : Replaceable(f) => Replaceable(f)'
<1>1. ever \subseteq ever' /\ database' = database
  BY HistoryGrows
<1>2. \A f \in Files : Protected(f)' => Protected(f)
  BY <1>1 DEF Protected
<1>3. Detectable' = Detectable
  BY <1>1 DEF Detectable
<1>4. Detectable \subseteq Files
  BY KindsAssumption DEF Detectable, Regular
<1>5. Suspect \subseteq Suspect'
  BY <1>2, <1>3, <1>4 DEF Suspect
<1>6. QED
  BY <1>2, <1>5 DEF Replaceable, Base

\* ... and that clean and white-listed files stay.
LEMMA KeptStep ==
  ASSUME TypeOK, ControlInv, NamesInv, KeptInv, NEW s \in Scanners, Step(s)
  PROVE  KeptInv'
<1>0. /\ \A f \in Files : Protected(f)' => Protected(f)
      /\ Files \ Suspect' \subseteq Files \ Suspect
      /\ \A f \in Files : Replaceable(f) => Replaceable(f)'
  BY SuspectGrows
\* Such a file stays where it is, or is replaced.
<1>1. ASSUME NEW f \in Files \ Suspect
      PROVE  Kept(f)' /\ name'[f] \in {name[f], Gone}
  <2>1. Kept(f)
    BY DEF KeptInv
  <2>2. CASE name' = name /\ permitted' = permitted
    BY <1>0, <2>1, <2>2 DEF Kept
  <2>3. CASE pc[s] = "rename" /\ CanRename(path[s]) /\ Moved(s) /\ permitted' = permitted
    <3> DEFINE old == path[s]
               new == Suffixed(path[s])
    <3>1. /\ old \in Names /\ new \in Names
          /\ \A g \in Files : name'[g] =
               IF name[g] = old THEN new ELSE IF name[g] = new THEN Gone ELSE name[g]
      BY <2>3, MovedEffect
    <3>2. \A g \in Files \ Suspect : name[g] # old
      BY <2>3 DEF KeptInv
    <3>3. CASE name[f] # new
      BY <1>0, <2>1, <2>3, <3>1, <3>2, <3>3 DEF Kept
    <3>4. CASE name[f] = new
      <4>1. name'[f] = Gone /\ name[f] # Gone
        BY <3>1, <3>2, <3>4, NamesFacts
      <4>2. name[f] = First[f]
        BY <2>1, <4>1 DEF Kept
      <4>3. PICK g \in Files : name[g] = old
        BY <2>3 DEF CanRename, At
      <4>4. g \in Suspect /\ name[g] # Gone
        BY <3>1, <3>2, <4>3, NamesFacts
      <4>5. Base(old) = Base(First[g]) /\ First[g][2] <= old[2]
        BY <4>3, <4>4 DEF NamesInv
      <4>6. First[f][1] = old[1] /\ First[f][2] = old[2] + 1 /\ old[2] \in Nat
        <5>1. new[1] = old[1] /\ new[2] = old[2] + 1 /\ old[2] \in 0 .. MaxSuffixes
          BY <3>1, NamesFacts
        <5>2. First[f] = new
          BY <3>4, <4>2
        <5>3. QED
          BY <5>1, <5>2, LimitsAssumption
      <4>7. First[g][2] \in Nat
        BY <4>3, NamesFacts
      <4>8. Replaceable(f)
        BY <4>4, <4>5, <4>6, <4>7 DEF Replaceable, Base
      <4>9. QED
        BY <1>0, <2>1, <2>3, <4>1, <4>8 DEF Kept
    <3>5. QED
      BY <3>3, <3>4
  <2>4. CASE pc[s] = "chmod" /\ Chmod(s)
    <3>1. name[f] # Suffixed(path[s])
      BY <2>4 DEF KeptInv
    <3>2. name' = name
      BY <2>4 DEF Chmod
    <3>3. CASE permitted' = permitted
      BY <1>0, <2>1, <3>2, <3>3 DEF Kept
    <3>4. CASE Strip(Suffixed(path[s]))
      <4>1. permitted'[f] = (permitted[f] /\ name[f] # Suffixed(path[s]))
        BY <3>4 DEF Strip
      <4>2. QED
        BY <1>0, <2>1, <3>1, <3>2, <4>1 DEF Kept
    <3>5. QED
      BY <2>4, <3>3, <3>4 DEF Chmod
  <2>5. QED
    BY <2>2, <2>3, <2>4, DirectoryKept
<1> DEFINE Holds(x) ==
      /\ pc[x] = "open" => \A f \in Files : Protected(f) => name[f] # path[x]
      /\ pc[x] = "rename" => \A f \in Files \ Suspect : name[f] # path[x]
      /\ pc[x] = "chmod" => \A f \in Files \ Suspect : name[f] # Suffixed(path[x])
<1>2. \A f \in Files : Protected(f) => f \in Files \ Suspect
  BY DEF Suspect
<1>3. ASSUME NEW x \in Scanners \ {s} PROVE Holds(x)'
  <2>1. pc'[x] = pc[x] /\ path'[x] = path[x]
    BY OthersKept
  <2>2. Holds(x)
    BY DEF KeptInv
  <2>3. path[x] # Gone /\ (pc[x] = "chmod" => Suffixed(path[x]) # Gone)
    BY NamesFacts DEF TypeOK, ControlInv
  <2>4. Suffixed(path[x])' = Suffixed(path[x])
    BY <2>1 DEF Suffixed
  <2>5. QED
    BY <1>0, <1>1, <1>2, <2>1, <2>2, <2>3, <2>4
<1>4. Holds(s)'
  <2>1. Holds(s)
    BY DEF KeptInv
  <2> USE DEF TypeOK, Goto, argVars, checkVars, fsVars, NextEntry
  <2>2. CASE StartDirectory(s)
    BY <2>2 DEF StartDirectory
  <2>3. CASE StartFile(s)
    BY <2>3 DEF StartFile
  <2>4. CASE ReadDir(s)
    BY <2>4 DEF ReadDir
  <2>5. CASE EndOfDirectory(s)
    BY <2>5 DEF EndOfDirectory
  <2>6. CASE OpenToCheck(s)
    BY <2>6 DEF OpenToCheck, CheckReturns
  <2>7. CASE OpenWhitelist(s)
    BY <2>7 DEF OpenWhitelist, CheckReturns
  <2>8. CASE Hash(s)
    <3>1. \A f \in Files : Protected(f)' /\ name[f] = path[s] => pc'[s] # "open"
      BY <2>8, ListedRecognised
    <3>2. name' = name /\ path' = path
      BY <2>8 DEF Hash
    <3>3. pc'[s] \notin {"rename", "chmod"}
      BY <2>8 DEF Hash, Search, CheckReturns
    <3>4. QED
      BY <3>1, <3>2, <3>3
  <2>9. CASE ScanOpenFails(s)
    BY <2>9 DEF ScanOpenFails
  <2>10. CASE ScanFails(s)
    BY <2>10 DEF ScanFails
  <2>11. CASE Scan(s)
    <3>1. CASE NameAfter(s)
      <4>1. \A f \in Files \ Suspect : name[f] # path[s]
        BY <2>11, <3>1, FoundIsSuspect DEF Scan, Verdict, Works
      <4>2. pc'[s] = "rename" /\ name' = name /\ path' = path
        BY <2>11, <3>1 DEF Scan, Verdict
      <4>3. QED
        BY <1>0, <4>1, <4>2
    <3>2. CASE ~NameAfter(s)
      BY <2>11, <3>2 DEF Scan, Verdict
    <3>3. QED
      BY <3>1, <3>2
  <2>12. CASE Rename(s)
    <3>1. CASE CanRename(path[s]) /\ Moved(s)
      <4>1. /\ path[s] \in Names /\ Suffixed(path[s]) \in Names
            /\ \A f \in Files : name'[f] =
                 IF name[f] = path[s] THEN Suffixed(path[s])
                 ELSE IF name[f] = Suffixed(path[s]) THEN Gone ELSE name[f]
            /\ pc' = [pc EXCEPT ![s] = "chmod"]
        BY <2>12, <3>1, MovedEffect DEF Rename
      <4>2. \A f \in Files \ Suspect : name[f] # path[s]
        BY <2>12, <2>1 DEF Rename
      <4>3. Suffixed(path[s])' = Suffixed(path[s])
        BY <2>12 DEF Rename, Suffixed
      <4>4. Gone # Suffixed(path[s])
        BY <4>1, NamesFacts
      <4>7. \A f \in Files \ Suspect : name'[f] # Suffixed(path[s])
        <5>1. TAKE f \in Files \ Suspect
        <5>2. name[f] # path[s]
          BY <4>2
        <5>3. name'[f] = IF name[f] = Suffixed(path[s]) THEN Gone ELSE name[f]
          BY <4>1, <5>2
        <5>4. QED
          BY <4>4, <5>3
      <4>5. pc'[s] = "chmod"
        BY <4>1
      <4>6. QED
        BY <1>0, <4>3, <4>5, <4>7
    <3>2. CASE NextEntry(s) /\ UNCHANGED <<name, stream>>
      BY <2>12, <3>2 DEF Rename
    <3>3. QED
      BY <2>12, <3>1, <3>2 DEF Rename, Works
  <2>13. CASE Chmod(s)
    BY <2>13 DEF Chmod
  <2>14. CASE Close(s)
    BY <2>14 DEF Close
  <2>15. QED
    BY <2>2, <2>3, <2>4, <2>5, <2>6, <2>7, <2>8, <2>9, <2>10, <2>11, <2>12, <2>13, <2>14
    DEF Step
<1>5. QED
  BY <1>0, <1>1, <1>3, <1>4 DEF KeptInv

\* A file that has its first name and its permissions never lost them.
LEMMA FirstStays ==
  ASSUME TypeOK, NamesInv, NEW s \in Scanners, Step(s),
         NEW f \in Files, name'[f] = First[f], permitted'[f]
  PROVE  /\ name[f] = First[f] /\ permitted[f]
         /\ pc[s] = "rename" /\ CanRename(path[s]) /\ Moved(s) => path[s] # First[f]
<1>1. CASE name' = name /\ permitted' = permitted /\ ~Moved(s)
  BY <1>1
<1>2. CASE pc[s] = "rename" /\ CanRename(path[s]) /\ Moved(s) /\ permitted' = permitted
  <2> DEFINE old == path[s]
             new == Suffixed(path[s])
  <2>1. /\ old \in Names /\ new \in Names
        /\ name'[f] = IF name[f] = old THEN new ELSE IF name[f] = new THEN Gone ELSE name[f]
    BY <1>2, MovedEffect
  <2>2. new[1] = old[1] /\ new[2] = old[2] + 1 /\ old[2] \in Nat /\ new # old
    BY <2>1, NamesFacts
  <2>3. First[f] \in Names /\ First[f][2] \in Nat /\ First[f] # Gone
    BY NamesFacts
  <2>4. name[f] # old
    <3> SUFFICES ASSUME name[f] = old PROVE FALSE
      OBVIOUS
    <3>1. First[f][2] <= old[2]
      BY <2>1, NamesFacts DEF NamesInv
    <3>2. First[f] = new
      BY <2>1
    <3>3. QED
      BY <2>2, <2>3, <3>1, <3>2
  <2>5. name[f] = First[f]
    BY <2>1, <2>3, <2>4
  <2>6. QED
    BY <1>2, <2>4, <2>5
<1>3. CASE pc[s] = "chmod" /\ Chmod(s)
  BY <1>3 DEF Chmod, Strip, TypeOK
<1>4. CASE name' = name /\ permitted' = permitted /\ Moved(s) /\ ~(pc[s] = "rename" /\ CanRename(path[s]))
  BY <1>4
<1>5. QED
  BY <1>1, <1>2, <1>3, <1>4, DirectoryKept

\* An infected file that nobody has touched is readable, not listed and found.
LEMMA FoundWhereItIs ==
  ASSUME TypeOK, NamesInv, NEW s \in Scanners, database = "whole",
         NEW f \in Quarantinable, name[f] = path[s]
  PROVE  /\ At(path[s]) = {f} /\ At(path[s]) \subseteq Regular
         /\ Printed(s) = {"other"}
         /\ NameAfter(s)
<1>1. f \in Files /\ f \in Infected /\ f \notin Dirs /\ f \notin Short /\ f \notin Listed
  BY KindsAssumption DEF Quarantinable, Regular
<1>2. name[f] # Gone
  BY NamesFacts DEF TypeOK
<1>3. At(path[s]) = {f}
  BY <1>1, <1>2, OneFile
<1>4. QED
  BY <1>1, <1>3 DEF Regular, Printed, HashOf, NameAfter

\* A step that a scanner takes on such a file keeps to it, fails for it, or has
\* renamed it.
LEMMA AtTheFile ==
  ASSUME TypeOK, NamesInv, NEW s \in Scanners, database = "whole", Step(s),
         NEW f \in Quarantinable, name[f] = path[s],
         pc[s] \in {"check", "whitelist", "hash", "open", "rename"}
  PROVE  \/ path'[s] = path[s] /\ pc'[s] \in {"whitelist", "hash", "open", "rename"}
         \/ <<pc[s], f>> \in failed'[s] /\ (pc[s] = "rename" => re' = re)
         \/ pc[s] = "rename" /\ CanRename(path[s]) /\ Moved(s)
<1>1. /\ At(path[s]) = {f} /\ At(path[s]) \subseteq Regular
      /\ Printed(s) = {"other"} /\ NameAfter(s)
  BY FoundWhereItIs
<1>2. ASSUME NEW can \in BOOLEAN, Fails(s, can, At(path[s])) PROVE <<pc[s], f>> \in failed'[s]
  BY <1>1, <1>2, FailsEffect DEF At
<1>3. \A code \in 0 .. 4 : CheckReturns(s, code) /\ code = 0 => pc'[s] = "open"
  BY DEF CheckReturns, Goto, TypeOK
<1>4. CASE OpenToCheck(s)
  <2>1. CanOpen(s) \in BOOLEAN /\ path' = path
    BY <1>4 DEF CanOpen, Readable, OpenToCheck
  <2>2. CASE Goto(s, "whitelist")
    BY <2>1, <2>2 DEF Goto, TypeOK
  <2>3. CASE Fails(s, CanOpen(s), At(path[s])) /\ pc[s] = "check"
    BY <1>2, <2>1, <2>3
  <2>4. QED
    BY <1>4, <2>2, <2>3 DEF OpenToCheck
<1>5. CASE OpenWhitelist(s)
  <2>1. (FreeFds(s) > 0) \in BOOLEAN /\ path' = path
    BY <1>5 DEF OpenWhitelist
  <2>2. CASE Goto(s, "hash")
    BY <2>1, <2>2 DEF Goto, TypeOK
  <2>3. CASE Fails(s, FreeFds(s) > 0, At(path[s])) /\ pc[s] = "whitelist"
    BY <1>2, <2>1, <2>3
  <2>4. QED
    BY <1>5, <2>2, <2>3 DEF OpenWhitelist
<1>6. CASE Hash(s)
  <2>1. Hashable(s) \in BOOLEAN /\ (FreeFds(s) >= 2) \in BOOLEAN /\ path' = path
    BY <1>6 DEF Hashable, Readable, Hash
  <2>2. CASE Search(s, Printed(s))
    BY <1>1, <2>1, <2>2 DEF Search, CheckReturns, Goto, TypeOK
  <2>3. CASE Fails(s, Hashable(s), At(path[s])) /\ pc[s] = "hash"
    BY <1>2, <2>1, <2>3
  <2>4. CASE Fails(s, FreeFds(s) >= 2, At(path[s])) /\ pc[s] = "hash"
    BY <1>2, <2>1, <2>4
  <2>5. QED
    BY <1>6, <2>2, <2>3, <2>4 DEF Hash
<1>7. CASE ScanOpenFails(s)
  <2>1. CanOpen(s) \in BOOLEAN
    BY DEF CanOpen, Readable
  <2>2. QED
    BY <1>2, <1>7, <2>1 DEF ScanOpenFails
<1>8. CASE ScanFails(s)
  <2>1. (At(path[s]) \subseteq Regular) \in BOOLEAN
    OBVIOUS
  <2>2. QED
    BY <1>2, <1>8, <2>1 DEF ScanFails
<1>9. CASE Scan(s)
  BY <1>1, <1>9 DEF Scan, Verdict, Goto, TypeOK
<1>10. CASE Rename(s)
  <2>1. CanRename(path[s]) \in BOOLEAN /\ re' = re /\ pc[s] = "rename"
    BY <1>10 DEF CanRename, Rename
  <2>2. QED
    BY <1>2, <1>10, <2>1, Zenon DEF Rename, Works
<1>11. QED
  BY <1>4, <1>5, <1>6, <1>7, <1>8, <1>9, <1>10 DEF Step, StartDirectory, StartFile, ReadDir,
    EndOfDirectory, Chmod, Close

\* A step drops no name from its stream but the one it takes or moves.
LEMMA StreamKept ==
  ASSUME TypeOK, NEW s \in Scanners, Step(s), pc[s] # "start", NEW n \in stream[s].left
  PROVE  \/ n \in stream'[s].left
         \/ path'[s] = n /\ pc'[s] = "check"
         \/ pc[s] = "rename" /\ CanRename(path[s]) /\ Moved(s) /\ path[s] = n
<1>1. CASE ReadDir(s)
  BY <1>1 DEF ReadDir, Goto, TypeOK
<1>2. CASE EndOfDirectory(s)
  BY <1>2 DEF EndOfDirectory
<1>3. CASE Rename(s)
  <2>1. CASE CanRename(path[s]) /\ Moved(s)
    BY <1>3, <2>1, MovedEffect DEF Rename
  <2>2. CASE UNCHANGED <<name, stream>>
    BY <2>2
  <2>3. QED
    BY <1>3, <2>1, <2>2, Zenon DEF Rename, Works
<1>4. CASE OpenToCheck(s) \/ OpenWhitelist(s) \/ Hash(s) \/ ScanOpenFails(s) \/ ScanFails(s)
           \/ Scan(s) \/ Chmod(s) \/ Close(s)
  <2>1. stream' = stream
    BY <1>4 DEF OpenToCheck, OpenWhitelist, Hash, ScanOpenFails, ScanFails, Scan, Verdict,
      Chmod, Close
  <2>2. QED
    BY <2>1
<1>5. QED
  BY <1>1, <1>2, <1>3, <1>4 DEF Step, StartDirectory, StartFile

\* A result other than SUCCESS stays, or is followed by FAIL or FOUND.
LEMMA ResultKept ==
  ASSUME TypeOK, NEW s \in Scanners, Step(s)
  PROVE  re'[s] = re[s] \/ re'[s] \in {"FOUND", "FAIL"}
BY DEF TypeOK, Step, StartDirectory, StartFile, ReadDir, EndOfDirectory, OpenToCheck,
  OpenWhitelist, Hash, ScanOpenFails, ScanFails, Scan, Verdict, Rename, Chmod, Close

\* ... and what is already dealt with.
LEMMA CoveredStep ==
  ASSUME TypeOK, ControlInv, NamesInv, CoveredInv, NEW s \in Scanners, Step(s)
  PROVE  CoveredInv'
<1> DEFINE Covered(x, f) ==
      \/ First[f] \in stream[x].left
      \/ path[x] = First[f] /\ pc[x] \in {"check", "whitelist", "hash", "open", "rename"}
      \/ re[x] = "FAIL"
      \/ \E at \in Unseen : <<at, f>> \in failed[x]
      \/ re[x] = "FOUND" /\ <<"rename", f>> \in failed[x]
<1> SUFFICES ASSUME database' = "whole",
                    NEW x \in Scanners, start'[x] = Directory, pc'[x] # "start",
                    NEW f \in Quarantinable, name'[f] = First[f], permitted'[f]
             PROVE  Covered(x, f)'
  BY DEF CoveredInv
<1>0. database = "whole" /\ failed[s] \subseteq failed'[s]
      /\ \A y \in Scanners \ {s} : failed'[y] = failed[y]
  BY HistoryGrows
<1>1. f \in Files /\ f \in Regular
  BY KindsAssumption DEF Quarantinable, Regular
<1>2. /\ name[f] = First[f] /\ permitted[f]
      /\ pc[s] = "rename" /\ CanRename(path[s]) /\ Moved(s) => path[s] # First[f]
  BY <1>1, FirstStays
<1>3. start' = start /\ start[x] = Directory
  BY OthersKept
<1>4. CASE x # s
  <2>1. pc'[x] = pc[x] /\ path'[x] = path[x] /\ re'[x] = re[x] /\ failed'[x] = failed[x]
    BY <1>0, <1>4, OthersKept
  <2>2. Covered(x, f)
    BY <1>0, <1>2, <1>3, <2>1 DEF CoveredInv
  <2>3. First[f] \in stream[x].left => First[f] \in stream'[x].left
    <3>1. CASE pc[s] = "rename" /\ CanRename(path[s]) /\ Moved(s)
      BY <1>2, <3>1, MovedEffect
    <3>2. CASE stream'[x] = stream[x]
      BY <3>2
    <3>3. QED
      BY <1>4, <3>1, <3>2, DirectoryKept DEF Chmod
  <2>4. QED
    BY <2>1, <2>2, <2>3
<1>5. CASE x = s /\ pc[s] = "start"
  <2>1. StartDirectory(s)
    BY <1>3, <1>5 DEF Step, StartFile, ReadDir, EndOfDirectory, OpenToCheck, OpenWhitelist,
      Hash, ScanOpenFails, ScanFails, Scan, Verdict, Rename, Chmod, Close
  <2>2. First[f] \in {name[g] : g \in Files} \ {Gone}
    BY <1>1, <1>2, NamesFacts
  <2>3. CASE stream'[s].left = {name[g] : g \in Files} \ {Gone}
    BY <1>5, <2>2, <2>3
  <2>4. CASE Fails(s, TRUE, Files)
    <3>1. <<"start", f>> \in failed'[s]
      BY <1>1, <1>5, <2>4, FailsEffect
    <3>2. QED
      BY <1>5, <3>1 DEF Unseen
  <2>5. QED
    BY <2>1, <2>3, <2>4, OpenedEffect
<1>6. CASE x = s /\ pc[s] # "start"
  <2>1. Covered(s, f)
    BY <1>0, <1>2, <1>3, <1>6 DEF CoveredInv
  <2>2. CASE First[f] \in stream[s].left
    BY <1>2, <1>6, <2>2, StreamKept
  <2>3. CASE path[s] = First[f] /\ pc[s] \in {"check", "whitelist", "hash", "open", "rename"}
    <3>1. \/ path'[s] = path[s] /\ pc'[s] \in {"whitelist", "hash", "open", "rename"}
          \/ <<pc[s], f>> \in failed'[s] /\ (pc[s] = "rename" => re' = re)
      BY <1>0, <1>2, <2>3, AtTheFile
    <3>2. pc[s] = "rename" => re[s] = "FOUND"
      BY DEF ControlInv
    <3>3. QED
      BY <1>6, <2>3, <3>1, <3>2 DEF Unseen
  <2>4. CASE re[s] = "FAIL"
    BY <2>4, OthersKept DEF ControlInv
  <2>5. CASE \E at \in Unseen : <<at, f>> \in failed[s]
    BY <1>0, <1>6, <2>5
  <2>6. CASE re[s] = "FOUND" /\ <<"rename", f>> \in failed[s]
    BY <1>0, <1>6, <2>6, ResultKept
  <2>7. QED
    BY <2>1, <2>2, <2>3, <2>4, <2>5, <2>6
<1>7. QED
  BY <1>4, <1>5, <1>6

\* ... and, for a single process, that a file is renamed once.
LEMMA AloneStep ==
  ASSUME TypeOK, ControlInv, NamesInv, RenamedIsStripped, AloneInv,
         NEW s \in Scanners, Step(s)
  PROVE  AloneInv'
<1> SUFFICES ASSUME NEW x \in Scanners, Alone(x)'
             PROVE  /\ \A f \in Files : <<"chmod", f>> \notin ever' =>
                         /\ name'[f] \in {First[f], Suffixed(First[f]), Gone}
                         /\ pc'[x] = "rename" /\ name'[f] = path'[x] => name'[f] = First[f]
                    /\ re'[x] # "SUCCESS" \/
                         (\A f \in Files : name'[f] = First[f] /\ permitted'[f])
  BY DEF AloneInv, Suffixed
<1>1. x = s /\ Alone(s) /\ ~asRoot[s] /\ \A y \in Scanners \ {s} : pc[y] = "start"
  BY OthersKept DEF Alone
<1>2. /\ \A f \in Files : <<"chmod", f>> \notin ever' =>
           /\ name[f] \in {First[f], Suffixed(First[f]), Gone}
           /\ pc[s] = "rename" /\ name[f] = path[s] => name[f] = First[f]
      /\ re[s] # "SUCCESS" \/ (\A f \in Files : name[f] = First[f] /\ permitted[f])
  BY <1>1, HistoryGrows DEF AloneInv
<1>3. CASE pc[s] = "rename" /\ CanRename(path[s]) /\ Moved(s) /\ path' = path /\ re' = re
  <2>1. /\ \A f \in Files : name'[f] =
             IF name[f] = path[s] THEN Suffixed(path[s])
             ELSE IF name[f] = Suffixed(path[s]) THEN Gone ELSE name[f]
        /\ pc' = [pc EXCEPT ![s] = "chmod"]
    BY <1>3, MovedEffect
  <2>2. re'[s] = "FOUND" /\ pc'[s] = "chmod"
    BY <1>3, <2>1 DEF ControlInv, TypeOK
  <2>3. \A f \in Files : <<"chmod", f>> \notin ever' /\ name[f] = path[s] => path[s] = First[f]
    BY <1>2, <1>3
  <2>4. QED
    BY <1>1, <1>2, <2>1, <2>2, <2>3
<1>4. CASE pc[s] = "chmod" /\ Chmod(s)
  <2>1. name' = name /\ re'[s] = "FOUND" /\ pc'[s] # "rename"
    BY <1>4 DEF Chmod, ControlInv, TypeOK, NextEntry, Goto
  <2>2. QED
    BY <1>1, <1>2, <2>1
<1>5. CASE name' = name /\ permitted' = permitted /\ pc[s] # "chmod"
  <2>1. re[s] # "SUCCESS" => re'[s] # "SUCCESS"
    BY DEF TypeOK, Step, StartDirectory, StartFile, ReadDir, EndOfDirectory, OpenToCheck,
      OpenWhitelist, Hash, ScanOpenFails, ScanFails, Scan, Verdict, Rename, Chmod, Close
  <2>2. pc'[s] = "rename" => pc[s] = "open" /\ Scan(s)
    BY DEF TypeOK, Step, StartDirectory, StartFile, ReadDir, EndOfDirectory, OpenToCheck,
      OpenWhitelist, Hash, ScanOpenFails, ScanFails, Scan, Verdict, Rename, Chmod, Close,
      NextEntry, Search, CheckReturns, Goto, Moved
  <2>3. ASSUME pc'[s] = "rename", NEW f \in Files, name'[f] = path'[s],
               <<"chmod", f>> \notin ever'
        PROVE  name'[f] = First[f]
    <3>1. path'[s] = path[s] /\ name[f] = path[s] /\ Readable(s, path[s]) /\ pc[s] = "open"
      BY <1>5, <2>2, <2>3 DEF Scan, Verdict, CanOpen
    <3>2. name[f] # Gone
      BY <3>1, NamesFacts DEF TypeOK
    <3>3. permitted[f]
      BY <1>1, <3>1, <3>2, OneFile DEF Readable
    <3>4. \A y \in Scanners : pc[y] # "chmod"
      BY <1>1, <1>5
    <3>5. QED
      BY <1>5, <2>3, <3>2, <3>3, <3>4, HistoryGrows DEF RenamedIsStripped
  <2>4. QED
    BY <1>1, <1>2, <1>5, <2>1, <2>3
<1>6. pc[s] = "chmod" => Chmod(s)
  BY DEF Step, StartDirectory, StartFile, ReadDir, EndOfDirectory, OpenToCheck,
    OpenWhitelist, Hash, ScanOpenFails, ScanFails, Scan, Verdict, Rename, Close
<1>7. QED
  BY <1>3, <1>4, <1>5, <1>6, DirectoryKept

-----------------------------------------------------------------------------
(***************************************************************************)
(* The invariant and what follows from it.                                 *)
(***************************************************************************)

\* The invariant holds when the processes start.
LEMMA InitInv == Init => OInv
<1> SUFFICES ASSUME Init PROVE OInv
  OBVIOUS
<1> USE DEF Init
<1>1. TypeOK
  <2>1. \A f \in Regular : First[f] \in Names
    BY NamesFacts DEF Regular
  <2>2. start \in [Scanners -> {Directory} \union Names]
    BY <2>1
  <2>3. QED
    BY <2>2, NamesAssumption, LimitsAssumption DEF TypeOK, Labels
<1>2. DescriptorsInv
  BY DEF DescriptorsInv, Looping
<1>3. ControlInv
  BY DEF ControlInv, Looping
<1>4. NamesInv
  <2>1. \A f \in Files : First[f] \in Names /\ First[f][2] \in Nat
    BY NamesFacts
  <2>2. QED
    BY <2>1, NamesAssumption DEF NamesInv
<1>5. KeptInv
  BY DEF KeptInv, Kept
<1>6. RenamedIsStripped
  BY DEF RenamedIsStripped
<1>7. CoveredInv
  BY DEF CoveredInv
<1>8. AloneInv
  BY DEF AloneInv
<1>9. QED
  BY <1>1, <1>2, <1>3, <1>4, <1>5, <1>6, <1>7, <1>8 DEF OInv

\* Every step keeps it.
LEMMA StepInv == OInv /\ [Next]_vars => OInv'
<1> SUFFICES ASSUME OInv, [Next]_vars PROVE OInv'
  OBVIOUS
<1>1. CASE UNCHANGED vars
  <2>1. /\ Suspect' = Suspect /\ \A f \in Files : Replaceable(f)' = Replaceable(f)
        /\ \A f \in Files : Protected(f)' = Protected(f)
    BY <1>1 DEF vars, Suspect, Detectable, Protected, Replaceable
  <2>2. KeptInv'
    BY <1>1, <2>1 DEF vars, OInv, KeptInv, Kept
  <2>3. TypeOK' /\ DescriptorsInv' /\ ControlInv' /\ NamesInv'
    BY <1>1 DEF vars, OInv, TypeOK, DescriptorsInv, ControlInv, NamesInv
  <2>4. RenamedIsStripped' /\ CoveredInv' /\ AloneInv'
    BY <1>1 DEF vars, OInv, RenamedIsStripped, CoveredInv, AloneInv, Alone
  <2>5. QED
    BY <2>2, <2>3, <2>4 DEF OInv
<1>2. ASSUME NEW s \in Scanners, Step(s) PROVE OInv'
  <2> USE DEF OInv
  <2>1. TypeOK'
    BY <1>2, TypeStep
  <2>2. DescriptorsInv'
    BY <1>2, DescriptorsStep
  <2>3. ControlInv'
    BY <1>2, ControlStep
  <2>4. NamesInv'
    BY <1>2, NamesStep
  <2>5. KeptInv'
    BY <1>2, KeptStep
  <2>6. RenamedIsStripped'
    BY <1>2, StrippedStep
  <2>7. CoveredInv'
    BY <1>2, CoveredStep
  <2>8. AloneInv'
    BY <1>2, AloneStep
  <2>9. QED
    BY <2>1, <2>2, <2>3, <2>4, <2>5, <2>6, <2>7, <2>8
<1>3. QED
  BY <1>1, <1>2 DEF Next

\* The invariant holds of every behaviour of the scanners.
THEOREM OnDemandInvariance == Spec => []OInv
BY InitInv, StepInv, PTL DEF Spec

\* Every variable keeps its type; the descriptors stay within their limit.
THEOREM TypeCorrectness == Spec => []TypeOK
<1>1. OInv => TypeOK
  BY DEF OInv
<1>2. QED
  BY <1>1, OnDemandInvariance, PTL

\* A file that scan() finds clean keeps its name and permissions, or is replaced
\* by a quarantine whose new name it has, whatever fails (main.c:213-227, 382).
THEOREM CleanStay == Spec => []CleanUntouched
<1>1. OInv => CleanUntouched
  BY DEF OInv, KeptInv, CleanUntouched, Suspect
<1>2. QED
  BY <1>1, OnDemandInvariance, PTL

\* So does a whitelisted file, unless its own hash could not be read
\* (main.c:201-224, 382; whitelist.c:26-34).
THEOREM ListedStay == Spec => []ListedUntouched
<1>1. OInv => ListedUntouched
  BY KindsAssumption DEF OInv, KeptInv, ListedUntouched, Suspect, Detectable, Protected
<1>2. QED
  BY <1>1, OnDemandInvariance, PTL

\* A renamed file is stripped or about to be, or chmod has failed for it
\* (main.c:382-403).
THEOREM RenamedAreStripped == Spec => []RenamedIsStripped
<1>1. OInv => RenamedIsStripped
  BY DEF OInv
<1>2. QED
  BY <1>1, OnDemandInvariance, PTL

\* One scanner that is not root renames a file once, unless chmod has failed for
\* it (main.c:186, 224, 397).
THEOREM SoloRenamesOnce == Spec => []QuarantinedOnce
<1>1. OInv => QuarantinedOnce
  BY DEF OInv, AloneInv, QuarantinedOnce
<1>2. QED
  BY <1>1, OnDemandInvariance, PTL

\* What a scanner that has scanned the directory knows of an infected file that
\* is still as it was: its own calls failed for it before or after it found it.
LEMMA EndedCovered ==
  ASSUME OInv, database = "whole", NEW s \in Scanners, Scanned(s),
         NEW f \in Quarantinable, name[f] = First[f], permitted[f]
  PROVE  \/ \E at \in Unseen : <<at, f>> \in failed[s]
         \/ re[s] = "FOUND" /\ <<"rename", f>> \in failed[s]
<1>1. pc[s] = "done" /\ start[s] = Directory /\ re[s] # "FAIL"
  BY DEF Scanned
<1>2. stream[s].left = {}
  BY <1>1 DEF OInv, ControlInv
<1>3. QED
  BY <1>1, <1>2 DEF OInv, CoveredInv

\* No race and no failure for another file lets an infected file slip through
\* (main.c:186-243).
THEOREM NothingSlipsThrough == Spec => []QuarantineComplete
<1>1. OInv => QuarantineComplete
  BY EndedCovered DEF QuarantineComplete
<1>2. QED
  BY <1>1, OnDemandInvariance, PTL

\* A detection reaches the result of the scan (main.c:170, 223, 300).
THEOREM DetectionIsReported == Spec => []FoundIsReported
<1>1. OInv => FoundIsReported
  <2> SUFFICES ASSUME OInv, database = "whole", NEW s \in Scanners, Alone(s), Scanned(s),
                      NEW f \in Quarantinable, \A at \in Unseen : <<at, f>> \notin failed[s]
               PROVE  re[s] = "FOUND"
    BY DEF FoundIsReported
  <2>1. re[s] \in {"SUCCESS", "FOUND"}
    BY DEF OInv, TypeOK, Scanned
  <2>2. CASE re[s] = "SUCCESS"
    <3>1. name[f] = First[f] /\ permitted[f]
      BY <2>2 DEF OInv, AloneInv, Quarantinable, Regular
    <3>2. QED
      BY <2>2, <3>1, EndedCovered
  <2>3. QED
    BY <2>1, <2>2
<1>2. QED
  BY <1>1, OnDemandInvariance, PTL
-----------------------------------------------------------------------------
(***************************************************************************)
(* How many descriptors a lone scanner needs.                              *)
(***************************************************************************)

\* As many as DescriptorsSuffice asks for.
Enough == MaxFds >= 2 * Cardinality(Files) + 8

\* The files s can still read whose names are to come, or are checked at labels.
Ahead(s, labels) ==
  {f \in Files : permitted[f] /\ name[f] = First[f] /\
     (First[f] \in stream[s].left \/ (pc[s] \in labels /\ path[s] = First[f]))}

\* Each whitelist check still to come leaves one descriptor open, and each scan
\* may leave one more.
ToCheck(s) == Ahead(s, {"check", "whitelist"})
ToOpen(s) == Ahead(s, {"check", "whitelist", "hash", "open"})

\* The descriptor of the file that is checked.
Checking(s) == IF pc[s] \in {"whitelist", "hash"} THEN 1 ELSE 0

\* What s has open and will leave open fits the budget, the name it works on has
\* left the stream, and what it has opened to check is where it was at first.
LoneInv(s) ==
  /\ pc[s] \in Looping =>
       fds[s] + Cardinality(ToCheck(s)) + Cardinality(ToOpen(s))
         <= 2 * Cardinality(Files) + 5 + Checking(s)
  /\ pc[s] \in {"check", "whitelist", "hash", "open"} => path[s] \notin stream[s].left
  /\ pc[s] \in {"whitelist", "hash", "open"} =>
       \E f \in Files : permitted[f] /\ name[f] = path[s] /\ name[f] = First[f]

Lone(s) == Alone(s) /\ \A f \in Files : <<"chmod", f>> \notin ever
BudgetInv == Enough => \A s \in Scanners : Lone(s) => LoneInv(s)

\* A part of a finite set, and one without an element of it.
LEMMA FewerElements ==
  ASSUME NEW S, IsFiniteSet(S), NEW T \in SUBSET S
  PROVE  /\ Cardinality(S) \in Nat /\ Cardinality(T) \in Nat
         /\ Cardinality(T) <= Cardinality(S)
         /\ \A x \in S : x \notin T => Cardinality(T) + 1 <= Cardinality(S)
<1>1. IsFiniteSet(T) /\ Cardinality(T) <= Cardinality(S)
  BY FS_Subset
<1>2. Cardinality(S) \in Nat /\ Cardinality(T) \in Nat
  BY <1>1, FS_CardinalityType
<1>3. ASSUME NEW x \in S, x \notin T PROVE Cardinality(T) + 1 <= Cardinality(S)
  <2>1. IsFiniteSet(S \ {x}) /\ Cardinality(S \ {x}) = Cardinality(S) - 1
    BY <1>3, FS_RemoveElement
  <2>2. T \in SUBSET (S \ {x})
    BY <1>3
  <2>3. Cardinality(T) <= Cardinality(S \ {x})
    BY <2>1, <2>2, FS_Subset
  <2>4. QED
    BY <1>2, <2>1, <2>3
<1>4. QED
  BY <1>1, <1>2, <1>3

\* No step adds a file that is still to be checked or opened: the new name that
\* a rename adds to the stream is not the first name of a file that is left.
LEMMA AheadShrinks ==
  ASSUME TypeOK, NamesInv, NEW s \in Scanners, Step(s), pc[s] # "start",
         NEW labels \in {{"check", "whitelist"}, {"check", "whitelist", "hash", "open"}}
  PROVE  Ahead(s, labels)' \subseteq Ahead(s, labels)
<1> SUFFICES ASSUME NEW f \in Files, permitted'[f], name'[f] = First[f],
                    First[f] \in stream'[s].left \/ (pc'[s] \in labels /\ path'[s] = First[f])
             PROVE  First[f] \in stream[s].left \/ (pc[s] \in labels /\ path[s] = First[f])
  BY FirstStays DEF Ahead
<1>1. /\ name[f] = First[f] /\ permitted[f]
      /\ pc[s] = "rename" /\ CanRename(path[s]) /\ Moved(s) => path[s] # First[f]
  BY FirstStays
<1> USE DEF TypeOK, Goto, argVars, checkVars, fsVars, NextEntry
<1>2. CASE ReadDir(s)
  BY <1>2 DEF ReadDir
<1>3. CASE EndOfDirectory(s) \/ Close(s) \/ Chmod(s) \/ ScanOpenFails(s) \/ ScanFails(s)
  <2>1. pc'[s] \in {"readdir", "close", "done"}
    BY <1>3 DEF EndOfDirectory, Close, Chmod, ScanOpenFails, ScanFails
  <2>2. stream'[s].left = stream[s].left
    BY <1>3 DEF EndOfDirectory, Close, Chmod, ScanOpenFails, ScanFails
  <2>3. QED
    BY <2>1, <2>2
<1>4. CASE OpenToCheck(s) \/ OpenWhitelist(s)
  BY <1>4 DEF OpenToCheck, OpenWhitelist, CheckReturns
<1>5. CASE Hash(s)
  BY <1>5 DEF Hash, Search, CheckReturns
<1>6. CASE Scan(s)
  BY <1>6 DEF Scan, Verdict
<1>7. CASE Rename(s) /\ CanRename(path[s]) /\ Moved(s)
  <2>1. /\ pc'[s] = "chmod" /\ Gone \notin Names
        /\ stream'[s].left \subseteq stream[s].left \union {Suffixed(path[s])}
        /\ name'[f] = IF name[f] = path[s] THEN Suffixed(path[s])
                      ELSE IF name[f] = Suffixed(path[s]) THEN Gone ELSE name[f]
    BY <1>7, MovedEffect, NamesFacts DEF Rename
  <2>2. path[s] # First[f] /\ First[f] \in Names
    BY <1>1, <1>7, NamesFacts DEF Rename
  <2>3. First[f] # Suffixed(path[s])
    BY <1>1, <2>1, <2>2
  <2>4. QED
    BY <2>1, <2>3
<1>8. CASE Rename(s) /\ ~(CanRename(path[s]) /\ Moved(s))
  <2>1. NextEntry(s) /\ UNCHANGED <<name, stream>>
    BY <1>8 DEF Rename, Works
  <2>2. pc'[s] \in {"readdir", "close"}
    BY <2>1
  <2>3. QED
    BY <2>1, <2>2
<1>9. QED
  BY <1>2, <1>3, <1>4, <1>5, <1>6, <1>7, <1>8 DEF Step, StartDirectory, StartFile

\* A step of a lone scanner stays within the budget: what it leaves open is
\* charged to the file that it checked or to the directory that it opened.
LEMMA LoneStep ==
  ASSUME OInv, TypeOK', Enough, NEW s \in Scanners, Lone(s), LoneInv(s), Step(s)
  PROVE  LoneInv(s)'
<1> DEFINE n == Cardinality(Files)
           c == Cardinality(ToCheck(s))
           o == Cardinality(ToOpen(s))
           c2 == Cardinality(ToCheck(s)')
           o2 == Cardinality(ToOpen(s)')
           fd == fds[s]
           fd2 == fds'[s]
           Untouched == \E f \in Files : permitted[f] /\ name[f] = path[s] /\ name[f] = First[f]
<1>1. /\ n \in Nat /\ c \in Nat /\ o \in Nat /\ c2 \in Nat /\ o2 \in Nat
      /\ c2 <= n /\ o2 <= n
      /\ fd \in Nat /\ fd2 \in Nat /\ MaxFds \in Nat /\ MaxFds >= 2 * n + 8
  <2>1. IsFiniteSet(Files)
    BY KindsAssumption
  <2>2. /\ ToCheck(s) \in SUBSET Files /\ ToCheck(s)' \in SUBSET Files
        /\ ToOpen(s) \in SUBSET Files /\ ToOpen(s)' \in SUBSET Files
    BY DEF ToCheck, ToOpen, Ahead
  <2>3. fd \in Nat /\ fd2 \in Nat /\ MaxFds \in Nat
    BY LimitsAssumption DEF OInv, TypeOK
  <2>4. n \in Nat /\ c \in Nat /\ c2 \in Nat /\ c2 <= n
    BY <2>1, <2>2, FewerElements
  <2>5. o \in Nat /\ o2 \in Nat /\ o2 <= n
    BY <2>1, <2>2, FewerElements
  <2>6. QED
    BY <2>3, <2>4, <2>5 DEF Enough
<1>2. ASSUME pc[s] # "start"
      PROVE  /\ c2 <= c /\ o2 <= o
             /\ \A f \in ToCheck(s) : f \notin ToCheck(s)' => c2 + 1 <= c
             /\ \A f \in ToOpen(s) : f \notin ToOpen(s)' => o2 + 1 <= o
  <2>1. /\ ToCheck(s) \in SUBSET Files /\ ToCheck(s)' \in SUBSET ToCheck(s)
        /\ ToOpen(s) \in SUBSET Files /\ ToOpen(s)' \in SUBSET ToOpen(s)
    BY <1>2, AheadShrinks DEF OInv, ToCheck, ToOpen, Ahead
  <2>2. IsFiniteSet(ToCheck(s)) /\ IsFiniteSet(ToOpen(s))
    BY <2>1, FS_Subset, KindsAssumption
  <2>3. QED
    BY <2>1, <2>2, FewerElements
<1>3. /\ pc[s] = "start" => fd = 3 /\ stream[s].left = {}
      /\ pc[s] \in Looping => fd + c + o <= 2 * n + 5 + Checking(s)
      /\ pc[s] \in {"check", "whitelist", "hash", "open"} => path[s] \notin stream[s].left
      /\ pc[s] \in {"whitelist", "hash", "open"} => Untouched
  BY DEF LoneInv, OInv, DescriptorsInv, ControlInv
<1>4. /\ ~asRoot[s] /\ \A x \in Scanners \ {s} : pc[x] = "start"
      /\ \A f \in Files : <<"chmod", f>> \notin ever
  BY DEF Lone, Alone
<1>5. SUFFICES /\ pc'[s] \in Looping => fd2 + c2 + o2 <= 2 * n + 5 + Checking(s)'
               /\ pc'[s] \in {"check", "whitelist", "hash", "open"} =>
                    path'[s] \notin stream'[s].left
               /\ pc'[s] \in {"whitelist", "hash", "open"} =>
                    \E f \in Files : permitted'[f] /\ name'[f] = path'[s] /\ name'[f] = First[f]
  BY DEF LoneInv
<1> HIDE DEF n, c, o, c2, o2
<1>6. /\ pc \in [Scanners -> Labels]
      /\ fds \in [Scanners -> 0 .. MaxFds]
      /\ stream \in [Scanners -> [open : BOOLEAN, left : SUBSET Names]]
      /\ path \in [Scanners -> {Directory} \union Names]
  BY DEF OInv, TypeOK
<1> USE DEF Goto, argVars, checkVars, fsVars, NextEntry, Looping, Checking, Labels
<1>7. CASE StartDirectory(s)
  <2>1. pc[s] = "start" /\ fd = 3
    BY <1>3, <1>7 DEF StartDirectory
  <2>2. \/ pc'[s] = "readdir" /\ fds'[s] = fds[s] + 2
        \/ pc'[s] = "close"
    BY <1>7, OpenedEffect, Zenon DEF OInv
  <2>3. QED
    BY <1>1, <2>1, <2>2
<1>8. CASE StartFile(s)
  <2>1. pc'[s] \in {"check", "close"} /\ fd2 = 4 /\ stream'[s].left = {}
    BY <1>1, <1>3, <1>6, <1>8 DEF StartFile
  <2>2. QED
    BY <1>1, <2>1
<1>9. CASE ReadDir(s)
  <2>1. /\ pc[s] = "readdir" /\ pc'[s] = "check" /\ fd2 = fd
        /\ path'[s] \notin stream'[s].left
    BY <1>6, <1>9 DEF ReadDir
  <2>2. QED
    BY <1>1, <1>2, <1>3, <2>1
<1>10. CASE EndOfDirectory(s) \/ Close(s) \/ ScanOpenFails(s)
  <2>1. pc'[s] \in {"close", "done"}
    BY <1>6, <1>10 DEF EndOfDirectory, Close, ScanOpenFails
  <2>2. QED
    BY <2>1
<1>11. CASE OpenToCheck(s)
  <2>1. pc[s] = "check" /\ UNCHANGED <<name, permitted, stream, path>>
    BY <1>11 DEF OpenToCheck
  <2>2. CASE CanOpen(s) /\ fds' = [fds EXCEPT ![s] = @ + 1] /\ Goto(s, "whitelist")
    <3>1. pc'[s] = "whitelist" /\ fd2 = fd + 1
      BY <1>6, <2>2
    <3>2. PICK f \in Files : name[f] = path[s] /\ permitted[f]
      BY <1>4, <2>2 DEF CanOpen, Readable, At
    <3>3. name[f] # Gone
      BY <1>6, <3>2, NamesFacts
    <3>4. name[f] = First[f]
      BY <1>4, <2>1, <3>2, <3>3 DEF OInv, RenamedIsStripped
    <3>5. QED
      BY <1>1, <1>2, <1>3, <2>1, <3>1, <3>2, <3>4
  <2>3. CASE CheckReturns(s, 2) /\ UNCHANGED fds
    <3>1. pc'[s] \in {"readdir", "close"} /\ fd2 = fd
      BY <1>6, <2>3 DEF CheckReturns
    <3>2. QED
      BY <1>1, <1>2, <1>3, <2>1, <3>1
  <2>4. QED
    BY <1>11, <2>2, <2>3 DEF OpenToCheck, Works
<1>12. CASE OpenWhitelist(s)
  <2>1. pc[s] = "whitelist" /\ UNCHANGED <<name, permitted, stream, path>>
    BY <1>12 DEF OpenWhitelist
  <2>2. PICK f \in Files : permitted[f] /\ name[f] = path[s] /\ name[f] = First[f]
    BY <1>3, <2>1
  <2>3. CASE fds' = [fds EXCEPT ![s] = @ + 1] /\ Goto(s, "hash")
    <3>1. pc'[s] = "hash" /\ fd2 = fd + 1
      BY <1>6, <2>3
    <3>2. f \in ToCheck(s) /\ f \notin ToCheck(s)'
      BY <1>3, <2>1, <2>2, <3>1 DEF ToCheck, Ahead
    <3>3. c2 + 1 <= c /\ o2 <= o
      BY <1>2, <2>1, <3>2
    <3>4. QED
      BY <1>1, <1>3, <2>1, <2>2, <3>1, <3>3
  <2>4. CASE CheckReturns(s, 3) /\ fds' = [fds EXCEPT ![s] = @ - 1]
    <3>1. pc'[s] \in {"readdir", "close"} /\ fd2 = fd - 1
      BY <1>6, <2>4 DEF CheckReturns
    <3>2. QED
      BY <1>1, <1>2, <1>3, <2>1, <3>1
  <2>5. QED
    BY <1>12, <2>3, <2>4 DEF OpenWhitelist
<1>13. CASE Hash(s)
  <2>1. pc[s] = "hash" /\ UNCHANGED <<name, permitted, stream, path>> /\ fd2 = fd - 1
    BY <1>6, <1>13 DEF Hash
  <2>2. pc'[s] \in {"open", "readdir", "close"}
    BY <1>6, <1>13 DEF Hash, Search, CheckReturns
  <2>3. QED
    BY <1>1, <1>2, <1>3, <2>1, <2>2
<1>14. CASE ScanFails(s)
  <2>1. /\ pc[s] = "open" /\ UNCHANGED <<name, permitted, stream, path>>
        /\ fd2 = fd + 1 /\ pc'[s] \in {"readdir", "close"}
    BY <1>6, <1>14 DEF ScanFails
  <2>2. PICK f \in Files : permitted[f] /\ name[f] = path[s] /\ name[f] = First[f]
    BY <1>3, <2>1
  <2>3. f \in ToOpen(s) /\ f \notin ToOpen(s)'
    BY <1>3, <2>1, <2>2 DEF ToOpen, Ahead
  <2>4. o2 + 1 <= o /\ c2 <= c
    BY <1>2, <2>1, <2>3
  <2>5. QED
    BY <1>1, <1>3, <2>1, <2>4
<1>15. CASE Scan(s)
  <2>1. pc[s] = "open" /\ fd2 = fd /\ pc'[s] \in {"rename", "readdir", "close"}
    BY <1>6, <1>15 DEF Scan, Verdict
  <2>2. QED
    BY <1>1, <1>2, <1>3, <2>1
<1>16. CASE Rename(s)
  <2>1. pc[s] = "rename" /\ fd2 = fd /\ pc'[s] \in {"chmod", "readdir", "close"}
    BY <1>6, <1>16 DEF Rename, Moved
  <2>2. QED
    BY <1>1, <1>2, <1>3, <2>1
<1>17. CASE Chmod(s)
  <2>1. pc[s] = "chmod" /\ fd2 = fd /\ pc'[s] \in {"readdir", "close"}
    BY <1>6, <1>17 DEF Chmod
  <2>2. QED
    BY <1>1, <1>2, <1>3, <2>1
<1>18. QED
  BY <1>7, <1>8, <1>9, <1>10, <1>11, <1>12, <1>13, <1>14, <1>15, <1>16, <1>17 DEF Step

\* The inductive invariant of a lone scanner's descriptors (whitelist.c:16,
\* main.c:205, scan.c:20).
THEOREM BudgetInvariance == Spec => [](OInv /\ BudgetInv)
<1>1. Init => BudgetInv
  BY DEF Init, BudgetInv, LoneInv, Looping
<1>2. OInv /\ BudgetInv /\ [Next]_vars => BudgetInv'
  <2> SUFFICES ASSUME OInv, BudgetInv, [Next]_vars, Enough, NEW x \in Scanners, Lone(x)'
               PROVE  LoneInv(x)'
    BY DEF BudgetInv, Enough
  <2>1. CASE UNCHANGED vars
    <3>1. ToCheck(x)' = ToCheck(x) /\ ToOpen(x)' = ToOpen(x) /\ Checking(x)' = Checking(x)
      BY <2>1 DEF vars, ToCheck, ToOpen, Ahead, Checking
    <3>2. LoneInv(x)
      BY <2>1 DEF vars, BudgetInv, Lone, Alone
    <3>3. UNCHANGED <<name, permitted, pc, stream, path, fds>>
      BY <2>1 DEF vars
    <3>4. QED
      BY <3>1, <3>2, <3>3 DEF LoneInv
  <2>2. ASSUME NEW s \in Scanners, Step(s) PROVE LoneInv(x)'
    <3>1. x = s /\ Lone(s)
      BY <2>2, OthersKept, HistoryGrows DEF OInv, Lone, Alone
    <3>2. LoneInv(s)
      BY <3>1 DEF BudgetInv
    <3>3. TypeOK'
      BY StepInv DEF OInv
    <3>4. QED
      BY <2>2, <3>1, <3>2, <3>3, LoneStep
  <2>3. QED
    BY <2>1, <2>2 DEF Next
<1>3. QED
  BY <1>1, <1>2, OnDemandInvariance, PTL DEF Spec

\* 2 n + 8 descriptors suffice a single scanner of n files, although every check
\* leaves the whitelist open and every scan may leave the file open, unless chmod
\* has failed (whitelist.c:16, main.c:205, scan.c:17-21).
THEOREM DescriptorsDoSuffice == Spec => []DescriptorsSuffice
<1>1. OInv /\ BudgetInv => DescriptorsSuffice
  <2> SUFFICES ASSUME OInv, BudgetInv, Enough, NEW s \in Scanners, Lone(s)
               PROVE  /\ pc[s] \in {"check", "whitelist", "open"} => FreeFds(s) >= 1
                      /\ pc[s] = "hash" => FreeFds(s) >= 2
    BY DEF DescriptorsSuffice, Enough, Lone
  <2>1. LoneInv(s)
    BY DEF BudgetInv
  <2>2. IsFiniteSet(Files) /\ ToCheck(s) \in SUBSET Files /\ ToOpen(s) \in SUBSET Files
    BY KindsAssumption DEF ToCheck, ToOpen, Ahead
  <2>3. /\ Cardinality(Files) \in Nat /\ Cardinality(ToCheck(s)) \in Nat
        /\ Cardinality(ToOpen(s)) \in Nat
    BY <2>2, FewerElements
  <2>4. fds[s] \in Nat /\ MaxFds \in Nat
    BY LimitsAssumption DEF OInv, TypeOK
  <2>5. QED
    BY <2>1, <2>3, <2>4 DEF LoneInv, Enough, FreeFds, Looping, Checking
<1>2. QED
  BY <1>1, BudgetInvariance, PTL

-----------------------------------------------------------------------------
(***************************************************************************)
(* The hook and the scanner together.                                       *)
(***************************************************************************)
\* The gate is on, and one scan runs at a time.
GateInv ==
  /\ gate = "on"
  /\ stage \in [Scanners -> Gate!Stages]
  /\ checked \in [Scanners -> BOOLEAN]
  /\ \A t, u \in Scanners : stage[t] = "scanning" /\ stage[u] = "scanning" => t = u

\* The parts of OInv that hold whoever starts scanners.
ScanInv == TypeOK /\ DescriptorsInv /\ ControlInv /\ NamesInv /\ KeptInv

\* A task that does not wait for antv has no antv process.
RestInv ==
  \A t \in Scanners :
    /\ asRoot[t]
    /\ stage[t] # "scanning" =>
         /\ pc[t] = "start" /\ path[t] = start[t]
         /\ ~stream[t].open /\ stream[t].left = {}
    /\ stage[t] \in {"idle", "asked"} => ~checked[t]

\* antv is on its way to the rename of the one file it was started for.
OnItsWay(t) ==
  /\ path[t] = start[t] /\ ~stream[t].open
  /\ pc[t] \in {"start", "check", "whitelist", "hash", "open", "rename"}

\* What is known of a file that antv was started for, if nothing failed for it.
CheckedFile(t, f) ==
  /\ checked[t] /\ start[t] = First[f] /\ database = "whole"
  /\ \A at \in Labels : <<at, f>> \notin failed[t]
  => /\ stage[t] = "scanning" => name[f] # First[f] \/ OnItsWay(t)
     /\ stage[t] \in {"cleared", "passing"} => name[f] # First[f]

CheckedInv == \A t \in Scanners : \A f \in Quarantinable : CheckedFile(t, f)

AccessInv == GateInv /\ ScanInv /\ RestInv /\ CheckedInv
-----------------------------------------------------------------------------
\* A file does not get its first name back.
LEMMA FirstIsLost ==
  ASSUME TypeOK, NamesInv, NEW s \in Scanners, Step(s), NEW f \in Files,
         name[f] # First[f]
  PROVE  name'[f] # First[f]
<1>1. CASE name' = name
  BY <1>1
<1>2. CASE pc[s] = "rename" /\ CanRename(path[s]) /\ Moved(s)
  <2>1. /\ path[s] \in Names /\ First[f] \in Names /\ First[f] # Gone
        /\ name'[f] = IF name[f] = path[s] THEN Suffixed(path[s])
                      ELSE IF name[f] = Suffixed(path[s]) THEN Gone ELSE name[f]
    BY <1>2, MovedEffect, NamesFacts
  <2>2. CASE name[f] = path[s]
    <3>1. First[f][2] <= path[s][2] /\ First[f][2] \in Nat /\ path[s][2] \in Nat
      BY <2>1, <2>2, NamesFacts, LimitsAssumption DEF NamesInv
    <3>2. Suffixed(path[s])[2] = path[s][2] + 1
      BY <2>1, NamesFacts
    <3>3. QED
      BY <2>1, <2>2, <3>1, <3>2
  <2>3. QED
    BY <2>1, <2>2
<1>3. QED
  BY <1>1, <1>2, DirectoryKept DEF Chmod

\* A step that leaves the files and the control of the scanners alone.
LEMMA KeptSame ==
  ASSUME KeptInv, UNCHANGED <<name, permitted, database, ever, pc, path>>
  PROVE  KeptInv'
<1>1. /\ Suspect' = Suspect /\ \A f \in Files : Replaceable(f)' = Replaceable(f)
      /\ \A f \in Files : Protected(f)' = Protected(f)
  BY DEF Suspect, Detectable, Protected, Replaceable
<1>2. QED
  BY <1>1 DEF KeptInv, Kept, Suffixed

\* A task without an antv process may name any file.
LEMMA ArgumentKeeps ==
  ASSUME ScanInv, NEW t \in Scanners, pc[t] = "start",
         NEW n \in {Directory} \union Names,
         start' = [start EXCEPT ![t] = n], path' = [path EXCEPT ![t] = n],
         UNCHANGED <<fsVars, asRoot, pc, stream, checkVars, named, fds, re, ever, faults>>,
         failed' \in [Scanners -> SUBSET (Labels \X Files)]
  PROVE  ScanInv'
<1> USE DEF ScanInv, fsVars, checkVars
<1>0. /\ UNCHANGED <<name, permitted, database, asRoot, pc, stream, hash, wc, named, fds, re,
                     ever, faults>>
      /\ \A s \in Scanners : pc[s] # "start" => start'[s] = start[s] /\ path'[s] = path[s]
  BY DEF TypeOK
<1>1. TypeOK'
  BY <1>0 DEF TypeOK
<1>2. DescriptorsInv'
  BY <1>0 DEF DescriptorsInv
<1>3. ControlInv'
  <2> SUFFICES ASSUME NEW s \in Scanners
               PROVE  /\ pc[s] \in {"rename", "chmod"} => re[s] = "FOUND" /\ path'[s] \in Names
                      /\ pc[s] = "chmod" => Suffixed(path'[s]) \in Names
                      /\ pc[s] = "start" => ~stream[s].open /\ stream[s].left = {}
                      /\ re[s] = "FAIL" => pc[s] = "done"
                      /\ pc[s] = "readdir" => stream[s].open
                      /\ start'[s] = Directory /\ pc[s] \in Looping => stream[s].open
                      /\ start'[s] = Directory /\ pc[s] \in {"close", "done"} /\ re[s] # "FAIL" =>
                           ~stream[s].open /\ stream[s].left = {}
    BY <1>0 DEF ControlInv
  <2>1. CASE pc[s] = "start"
    BY <2>1 DEF ControlInv, Looping
  <2>2. CASE pc[s] # "start"
    BY <1>0, <2>2 DEF ControlInv
  <2>3. QED
    BY <2>1, <2>2
<1>4. NamesInv'
  BY <1>0 DEF NamesInv
<1>5. KeptInv'
  <2>0. /\ Suspect' = Suspect /\ \A f \in Files : Replaceable(f)' = Replaceable(f)
        /\ \A f \in Files : Protected(f)' = Protected(f)
    BY <1>0 DEF Suspect, Detectable, Protected, Replaceable
  <2>1. \A f \in Files \ Suspect : Kept(f)'
    BY <1>0, <2>0 DEF KeptInv, Kept
  <2>2. ASSUME NEW s \in Scanners
        PROVE  /\ pc[s] = "open" => \A f \in Files : Protected(f) => name[f] # path'[s]
               /\ pc[s] = "rename" => \A f \in Files \ Suspect : name[f] # path'[s]
               /\ pc[s] = "chmod" => \A f \in Files \ Suspect : name[f] # Suffixed(path'[s])
    BY <1>0 DEF KeptInv
  <2>3. QED
    BY <1>0, <2>0, <2>1, <2>2 DEF KeptInv
<1>6. QED
  BY <1>1, <1>2, <1>3, <1>4, <1>5

\* antv starts, cannot be started, or has exited.
LEMMA ProcessKeeps ==
  ASSUME ScanInv, NEW t \in Scanners,
         pc'[t] = "start" \/ (~stream[t].open /\ stream[t].left = {} /\ re[t] # "FAIL"),
         pc'[t] \in {"start", "done"}, pc' = [pc EXCEPT ![t] = pc'[t]],
         path'[t] \in {Directory} \union Names, path' = [path EXCEPT ![t] = path'[t]],
         stream' \in {stream, [stream EXCEPT ![t] = [open |-> FALSE, left |-> {}]]},
         pc'[t] = "start" => /\ ~stream'[t].open /\ stream'[t].left = {}
                            /\ fds'[t] = 3 /\ re'[t] # "FAIL",
         hash' \in [Scanners -> {"listed", "other"}], wc' \in [Scanners -> 0 .. 4],
         named' \in [Scanners -> BOOLEAN],
         fds' \in {fds, [fds EXCEPT ![t] = 3]},
         re' \in {re, [re EXCEPT ![t] = "SUCCESS"]},
         UNCHANGED <<fsVars, argVars, failVars>>
  PROVE  ScanInv'
<1> USE DEF ScanInv, fsVars, argVars, failVars
<1>0. /\ UNCHANGED <<name, permitted, database, asRoot, start, failed, ever, faults>>
      /\ \A s \in Scanners \ {t} : pc'[s] = pc[s] /\ path'[s] = path[s] /\ fds'[s] = fds[s]
                                  /\ re'[s] = re[s] /\ stream'[s] = stream[s]
      /\ fds'[t] \in {fds[t], 3} /\ re'[t] \in {re[t], "SUCCESS"}
      /\ stream'[t] \in {stream[t], [open |-> FALSE, left |-> {}]}
  BY DEF TypeOK
<1>1. TypeOK'
  <2>1. 3 \in 0 .. MaxFds
    BY LimitsAssumption
  <2>2. fds' \in [Scanners -> 0 .. MaxFds] /\ re' \in [Scanners -> {"SUCCESS", "FOUND", "FAIL"}]
    BY <2>1 DEF TypeOK
  <2>3. stream' \in [Scanners -> [open : BOOLEAN, left : SUBSET Names]]
    <3>1. [open |-> FALSE, left |-> {}] \in [open : BOOLEAN, left : SUBSET Names]
      OBVIOUS
    <3>2. CASE stream' = stream
      BY <3>2 DEF TypeOK
    <3>3. CASE stream' = [stream EXCEPT ![t] = [open |-> FALSE, left |-> {}]]
      <4> DEFINE closed == [open |-> FALSE, left |-> {}]
      <4>1. closed \in [open : BOOLEAN, left : SUBSET Names]
        BY <3>1
      <4>2. stream' = [stream EXCEPT ![t] = closed]
        BY <3>3
      <4> HIDE DEF closed
      <4>3. QED
        BY <4>1, <4>2 DEF TypeOK
    <3>4. QED
      BY <3>2, <3>3
  <2>4. pc' \in [Scanners -> Labels]
    BY DEF TypeOK, Labels
  <2>5. path' \in [Scanners -> {Directory} \union Names]
    BY DEF TypeOK
  <2>6. QED
    BY <1>0, <2>2, <2>3, <2>4, <2>5 DEF TypeOK
<1>2. DescriptorsInv'
  BY <1>0 DEF DescriptorsInv, Looping
<1>3. ControlInv'
  <2> SUFFICES ASSUME NEW s \in Scanners
               PROVE  /\ pc'[s] \in {"rename", "chmod"} => re'[s] = "FOUND" /\ path'[s] \in Names
                      /\ pc'[s] = "chmod" => Suffixed(path'[s]) \in Names
                      /\ pc'[s] = "start" => ~stream'[s].open /\ stream'[s].left = {}
                      /\ re'[s] = "FAIL" => pc'[s] = "done"
                      /\ pc'[s] = "readdir" => stream'[s].open
                      /\ start[s] = Directory /\ pc'[s] \in Looping => stream'[s].open
                      /\ start[s] = Directory /\ pc'[s] \in {"close", "done"} /\ re'[s] # "FAIL"
                           => ~stream'[s].open /\ stream'[s].left = {}
    BY <1>0 DEF ControlInv
  <2>1. CASE s = t
    BY <1>0, <2>1 DEF Looping
  <2>2. CASE s # t
    BY <1>0, <2>2 DEF ControlInv
  <2>3. QED
    BY <2>1, <2>2
<1>4. NamesInv'
  BY <1>0 DEF NamesInv
<1>5. KeptInv'
  <2>0. /\ Suspect' = Suspect /\ \A f \in Files : Replaceable(f)' = Replaceable(f)
        /\ \A f \in Files : Protected(f)' = Protected(f)
    BY <1>0 DEF Suspect, Detectable, Protected, Replaceable
  <2>1. \A f \in Files \ Suspect : Kept(f)'
    BY <1>0, <2>0 DEF KeptInv, Kept
  <2>2. ASSUME NEW s \in Scanners
        PROVE  /\ pc'[s] = "open" => \A f \in Files : Protected(f) => name[f] # path'[s]
               /\ pc'[s] = "rename" => \A f \in Files \ Suspect : name[f] # path'[s]
               /\ pc'[s] = "chmod" => \A f \in Files \ Suspect : name[f] # Suffixed(path'[s])
    BY <1>0 DEF KeptInv
  <2>3. QED
    BY <1>0, <2>0, <2>1, <2>2 DEF KeptInv
<1>6. QED
  BY <1>1, <1>2, <1>3, <1>4, <1>5
-----------------------------------------------------------------------------
\* antv has renamed the file it was started for, has failed for it, or comes
\* nearer to it (main.c:252-300, whitelist.c:4-49).
LEMMA AntvAdvances ==
  ASSUME ScanInv, NEW t \in Scanners, Step(t), OnItsWay(t), database = "whole",
         NEW f \in Quarantinable, start[t] = First[f], name[f] = First[f]
  PROVE  \/ name'[f] # First[f] \/ OnItsWay(t)'
         \/ \E at \in Labels : <<at, f>> \in failed'[t]
<1> USE DEF ScanInv
<1>1. f \in Files /\ First[f] \in Names /\ First[f] # Directory /\ path[t] = First[f]
  BY NamesFacts DEF Quarantinable, Regular, OnItsWay
<1>2. start' = start
  BY OthersKept
<1>3. CASE pc[t] = "start"
  <2>1. StartFile(t)
    BY <1>1, <1>3 DEF Step, StartDirectory, StartFile, ReadDir, EndOfDirectory, OpenToCheck,
      OpenWhitelist, Hash, ScanOpenFails, ScanFails, Scan, Verdict, Rename, Chmod, Close
  <2>2. path' = path /\ stream' = stream
    BY <2>1 DEF StartFile
  <2>3. CASE Goto(t, "check")
    <3>1. pc'[t] = "check"
      BY <2>3 DEF Goto, TypeOK
    <3>2. QED
      BY <1>2, <2>2, <3>1 DEF OnItsWay
  <2>4. CASE Fails(t, At(start[t]) # {}, At(start[t]))
    <3>1. (At(start[t]) # {}) \in BOOLEAN /\ At(start[t]) \in SUBSET Files /\ f \in At(start[t])
      BY <1>1 DEF At
    <3>2. <<pc[t], f>> \in failed'[t]
      BY <2>4, <3>1, FailsEffect
    <3>3. QED
      BY <3>2 DEF TypeOK
  <2>5. QED
    BY <2>1, <2>3, <2>4 DEF StartFile
<1>4. CASE pc[t] # "start"
  <2>1. \/ path'[t] = path[t] /\ pc'[t] \in {"whitelist", "hash", "open", "rename"}
        \/ <<pc[t], f>> \in failed'[t]
        \/ pc[t] = "rename" /\ CanRename(path[t]) /\ Moved(t)
    BY <1>1, <1>4, AtTheFile DEF OnItsWay
  <2>2. CASE path'[t] = path[t] /\ pc'[t] \in {"whitelist", "hash", "open", "rename"}
    <3>1. stream' = stream
      BY <2>2 DEF Step, StartDirectory, StartFile, ReadDir, EndOfDirectory, OpenToCheck,
        OpenWhitelist, Hash, ScanOpenFails, ScanFails, Scan, Verdict, Rename, Chmod, Close,
        Moved, Goto, NextEntry, TypeOK
    <3>2. QED
      BY <1>2, <2>2, <3>1 DEF OnItsWay
  <2>3. CASE <<pc[t], f>> \in failed'[t]
    BY <2>3 DEF TypeOK
  <2>4. CASE pc[t] = "rename" /\ CanRename(path[t]) /\ Moved(t)
    <3>1. name'[f] = Suffixed(First[f])
      BY <1>1, <2>4, MovedEffect
    <3>2. QED
      BY <1>1, <3>1, NamesFacts
  <2>5. QED
    BY <2>1, <2>2, <2>3, <2>4
<1>5. QED
  BY <1>3, <1>4
-----------------------------------------------------------------------------
\* The steps of antv.
LEMMA AntvStepKeeps ==
  ASSUME AccessInv, NEW t \in Scanners, AntvStep(t)
  PROVE  AccessInv'
<1> USE DEF AccessInv
<1>1. stage[t] = "scanning" /\ Step(t) /\ UNCHANGED <<gate, stage, checked>>
  BY DEF AntvStep, accessVars
<1>2. GateInv'
  BY <1>1 DEF GateInv
<1>3. ScanInv'
  BY <1>1, TypeStep, DescriptorsStep, ControlStep, NamesStep, KeptStep DEF ScanInv
<1>4. /\ asRoot' = asRoot /\ start' = start /\ database' = database
      /\ failed[t] \subseteq failed'[t] /\ \A x \in Scanners \ {t} : failed'[x] = failed[x]
      /\ \A x \in Scanners \ {t} : pc'[x] = pc[x] /\ path'[x] = path[x] /\ fds'[x] = fds[x]
                                  /\ stream'[x].open = stream[x].open
  BY <1>1, OthersKept, HistoryGrows DEF ScanInv
<1>5. \A x \in Scanners \ {t} : ~stream[x].open => stream'[x].left = stream[x].left
  <2>1. CASE \A x \in Scanners \ {t} : stream'[x] = stream[x]
    BY <2>1
  <2>2. CASE pc[t] = "rename" /\ CanRename(path[t]) /\ Moved(t)
    BY <2>2, MovedEffect DEF ScanInv
  <2>3. CASE Chmod(t)
    BY <2>3 DEF Chmod
  <2>4. QED
    BY <1>1, <2>1, <2>2, <2>3, DirectoryKept DEF ScanInv
<1>6. RestInv'
  BY <1>1, <1>4, <1>5 DEF RestInv, GateInv
<1>7. CheckedInv'
  <2> SUFFICES ASSUME NEW x \in Scanners, NEW f \in Quarantinable
               PROVE  CheckedFile(x, f)'
    BY DEF CheckedInv
  <2>1. f \in Files /\ CheckedFile(x, f)
    BY DEF CheckedInv, Quarantinable, Regular
  <2>2. name[f] # First[f] => name'[f] # First[f]
    BY <1>1, <2>1, FirstIsLost DEF ScanInv
  <2>3. CASE x = t
    <3>1. database = "whole" /\ start[t] = First[f] /\ name[f] = First[f] /\ OnItsWay(t) =>
            \/ name'[f] # First[f] \/ OnItsWay(t)'
            \/ \E at \in Labels : <<at, f>> \in failed'[t]
      BY <1>1, AntvAdvances
    <3>2. stage'[t] = "scanning"
      BY <1>1
    <3>3. QED
      BY <1>1, <1>4, <2>1, <2>2, <2>3, <3>1, <3>2 DEF CheckedFile
  <2>4. CASE x # t
    BY <1>1, <1>4, <2>1, <2>2, <2>4 DEF CheckedFile, GateInv
  <2>5. QED
    BY <2>3, <2>4
<1>8. QED
  BY <1>2, <1>3, <1>6, <1>7

\* A step of a task that leaves the files alone keeps what the other tasks know.
LEMMA OwnStepKeeps ==
  ASSUME AccessInv, NEW t \in Scanners, NEW l \in Gate!Stages,
         stage' = [stage EXCEPT ![t] = l], gate' = gate,
         l = "scanning" => \A u \in Scanners : stage[u] # "scanning",
         checked' = [checked EXCEPT ![t] = checked'[t]], checked'[t] \in BOOLEAN,
         l \in {"idle", "asked"} => ~checked'[t],
         ScanInv', UNCHANGED <<name, asRoot, database>>,
         l # "scanning" => /\ pc'[t] = "start" /\ path'[t] = start'[t]
                           /\ ~stream'[t].open /\ stream'[t].left = {},
         \A f \in Quarantinable : CheckedFile(t, f)',
         \A u \in Scanners \ {t} : /\ pc'[u] = pc[u] /\ path'[u] = path[u]
                                  /\ start'[u] = start[u] /\ stream'[u] = stream[u]
                                  /\ failed'[u] = failed[u]
  PROVE  AccessInv'
<1> USE DEF AccessInv
<1>1. GateInv'
  BY DEF GateInv
<1>2. \A u \in Scanners \ {t} : stage'[u] = stage[u] /\ checked'[u] = checked[u]
  BY DEF GateInv
<1>3. stage'[t] = l
  BY DEF GateInv
<1>4. RestInv'
  BY <1>2, <1>3 DEF RestInv
<1>5. CheckedInv'
  <2> SUFFICES ASSUME NEW u \in Scanners, NEW f \in Quarantinable, u # t
               PROVE  CheckedFile(u, f)'
    BY DEF CheckedInv
  <2>1. CheckedFile(u, f)
    BY DEF CheckedInv
  <2>2. QED
    BY <1>2, <2>1 DEF CheckedFile, OnItsWay
<1>6. QED
  BY <1>1, <1>4, <1>5
-----------------------------------------------------------------------------
\* open(2) is called, refused, or returns.
LEMMA NamingKeeps ==
  ASSUME AccessInv, NEW t \in Scanners, Open(t) \/ Busy(t) \/ SysOpen(t)
  PROVE  AccessInv'
<1> USE DEF Gate!Stages
<1>1. PICK l \in {"idle", "asked", "passing"} :
        /\ stage' = [stage EXCEPT ![t] = l] /\ gate' = gate
        /\ stage[t] # "scanning"
        /\ checked' = [checked EXCEPT ![t] = FALSE]
  BY DEF Open, Busy, SysOpen, Returns, AccessInv, GateInv, RestInv, Gate!Ask, Gate!Bypass,
    Gate!Refuse, Gate!Finish, Gate!Move
<1>2. PICK n \in {Directory} \union Names :
        start' = [start EXCEPT ![t] = n] /\ path' = [path EXCEPT ![t] = n]
  BY ElsewhereAssumption DEF Open, Busy, SysOpen, Returns, Wanted
<1>3. UNCHANGED <<fsVars, asRoot, pc, stream, checkVars, named, fds, re, ever, faults>>
  BY DEF Open, Busy, SysOpen, Returns, failVars
<1>4. pc[t] = "start" /\ ~stream[t].open /\ stream[t].left = {}
  BY <1>1 DEF AccessInv, RestInv
<1>5. failed' \in {failed, [failed EXCEPT ![t] = {}]}
  BY DEF Open, Busy, SysOpen, Returns, failVars
<1>6. failed' \in [Scanners -> SUBSET (Labels \X Files)]
      /\ \A u \in Scanners \ {t} : failed'[u] = failed[u]
  BY <1>5 DEF AccessInv, ScanInv, TypeOK
<1>7. ScanInv'
  BY <1>2, <1>3, <1>4, <1>6, ArgumentKeeps DEF AccessInv
<1>8. checked'[t] = FALSE /\ start'[t] = n /\ path'[t] = n
      /\ \A u \in Scanners \ {t} : start'[u] = start[u] /\ path'[u] = path[u]
  BY <1>1, <1>2 DEF AccessInv, GateInv, ScanInv, TypeOK
<1>9. \A f \in Quarantinable : CheckedFile(t, f)'
  BY <1>8 DEF CheckedFile
<1>10. UNCHANGED <<name, asRoot, database, pc, stream>>
  BY <1>3 DEF fsVars
<1>11. QED
  BY <1>1, <1>4, <1>6, <1>7, <1>8, <1>9, <1>10, OwnStepKeeps

\* call_usermodehelper starts antv, or fails.
LEMMA StartKeeps ==
  ASSUME AccessInv, NEW t \in Scanners, StartAntv(t) \/ AntvFails(t)
  PROVE  AccessInv'
<1> USE DEF Gate!Stages
<1>1. /\ stage' = [stage EXCEPT ![t] = "scanning"] /\ gate' = gate
      /\ stage[t] = "asked" /\ \A u \in Scanners : stage[u] # "scanning"
  BY DEF StartAntv, AntvFails, Gate!Scan, Gate!Move, Gate!BusyWith
<1>2. /\ pc[t] = "start" /\ path[t] = start[t] /\ ~stream[t].open /\ stream[t].left = {}
      /\ checked[t] = FALSE /\ fds[t] = 3 /\ re[t] # "FAIL"
  BY <1>1 DEF AccessInv, RestInv, GateInv, ScanInv, DescriptorsInv, ControlInv
<1>3. CASE StartAntv(t)
  <2>1. /\ UNCHANGED <<name, permitted, database, asRoot, start, pc, path, stream, hash, wc, fds,
                       re, failed, ever, faults>>
        /\ checked' = [checked EXCEPT ![t] = TRUE] /\ named' \in [Scanners -> BOOLEAN]
    BY <1>3 DEF StartAntv, fsVars, argVars, checkVars, failVars, AccessInv, ScanInv, TypeOK
  <2>2. ScanInv'
    <3>1. TypeOK' /\ DescriptorsInv' /\ ControlInv' /\ NamesInv'
      BY <2>1 DEF AccessInv, ScanInv, TypeOK, DescriptorsInv, ControlInv, NamesInv
    <3>2. KeptInv'
      BY <2>1, KeptSame DEF AccessInv, ScanInv
    <3>3. QED
      BY <3>1, <3>2 DEF ScanInv
  <2>3. \A f \in Quarantinable : CheckedFile(t, f)'
    BY <1>1, <1>2, <2>1 DEF CheckedFile, OnItsWay, AccessInv, GateInv
  <2>4. checked'[t] \in BOOLEAN /\ checked' = [checked EXCEPT ![t] = checked'[t]]
    BY <2>1 DEF AccessInv, GateInv
  <2>5. QED
    BY <1>1, <2>1, <2>2, <2>3, <2>4, OwnStepKeeps
<1>4. CASE AntvFails(t)
  <2>1. /\ UNCHANGED <<name, permitted, database, asRoot, start, path, stream, hash, wc, named,
                       fds, re, failed, ever, faults, checked>>
        /\ pc' = [pc EXCEPT ![t] = "done"]
    BY <1>4 DEF AntvFails, fsVars, argVars, checkVars, failVars
  <2>2. pc'[t] = "done" /\ pc' = [pc EXCEPT ![t] = pc'[t]]
        /\ path' = [path EXCEPT ![t] = path'[t]] /\ path'[t] \in {Directory} \union Names
        /\ hash' \in [Scanners -> {"listed", "other"}] /\ wc' \in [Scanners -> 0 .. 4]
        /\ named' \in [Scanners -> BOOLEAN] /\ UNCHANGED <<fsVars, argVars, failVars>>
    BY <2>1 DEF AccessInv, ScanInv, TypeOK, fsVars, argVars, failVars
  <2>3. ScanInv'
    BY <1>2, <2>1, <2>2, ProcessKeeps DEF AccessInv
  <2>4. \A f \in Quarantinable : CheckedFile(t, f)'
    BY <1>2, <2>1 DEF CheckedFile
  <2>5. checked'[t] \in BOOLEAN /\ checked' = [checked EXCEPT ![t] = checked'[t]]
        /\ \A u \in Scanners \ {t} : pc'[u] = pc[u]
    BY <2>1 DEF AccessInv, GateInv, ScanInv, TypeOK
  <2>6. QED
    BY <1>1, <2>1, <2>3, <2>4, <2>5, OwnStepKeeps
<1>5. QED
  BY <1>3, <1>4

\* call_usermodehelper returns, and old_open is called.
LEMMA EndKeeps ==
  ASSUME AccessInv, NEW t \in Scanners, AntvEnds(t) \/ OldOpen(t)
  PROVE  AccessInv'
<1> USE DEF Gate!Stages
<1>1. CASE AntvEnds(t)
  <2>1. /\ stage' = [stage EXCEPT ![t] = "cleared"] /\ gate' = gate
        /\ stage[t] = "scanning" /\ pc[t] = "done"
    BY <1>1 DEF AntvEnds, Gate!Clear, Gate!Move
  <2>2. /\ UNCHANGED <<name, permitted, database, asRoot, start, checked, failed, ever, faults>>
        /\ pc' = [pc EXCEPT ![t] = "start"]
        /\ stream' = [stream EXCEPT ![t] = [open |-> FALSE, left |-> {}]]
        /\ hash' = [hash EXCEPT ![t] = "other"] /\ wc' = [wc EXCEPT ![t] = 0]
        /\ named' = [named EXCEPT ![t] = FALSE] /\ fds' = [fds EXCEPT ![t] = 3]
        /\ re' = [re EXCEPT ![t] = "SUCCESS"] /\ path' = [path EXCEPT ![t] = start[t]]
    BY <1>1 DEF AntvEnds, Exited, fsVars, argVars, failVars
  <2>3. /\ pc'[t] = "start" /\ path'[t] = start'[t] /\ path'[t] \in {Directory} \union Names
        /\ stream'[t] = [open |-> FALSE, left |-> {}] /\ fds'[t] = 3 /\ re'[t] = "SUCCESS"
        /\ hash' \in [Scanners -> {"listed", "other"}] /\ wc' \in [Scanners -> 0 .. 4]
        /\ named' \in [Scanners -> BOOLEAN] /\ UNCHANGED <<fsVars, argVars, failVars>>
        /\ \A u \in Scanners \ {t} : /\ pc'[u] = pc[u] /\ path'[u] = path[u]
                                    /\ stream'[u] = stream[u] /\ fds'[u] = fds[u]
    BY <2>2 DEF AccessInv, ScanInv, TypeOK, fsVars, argVars, failVars
  <2>4. ScanInv'
    <3>1. pc'[t] \in {"start", "done"} /\ ~stream'[t].open /\ re'[t] # "FAIL"
      BY <2>2, <2>3
    <3>4. pc' = [pc EXCEPT ![t] = pc'[t]]
      BY <2>2, <2>3, Zenon
    <3>3. path' = [path EXCEPT ![t] = path'[t]]
      <4>1. path'[t] = start[t]
        BY <2>2 DEF AccessInv, ScanInv, TypeOK
      <4>2. QED
        BY <2>2, <4>1, Zenon
    <3>2. /\ stream' \in {stream, [stream EXCEPT ![t] = [open |-> FALSE, left |-> {}]]}
          /\ fds' \in {fds, [fds EXCEPT ![t] = 3]} /\ re' \in {re, [re EXCEPT ![t] = "SUCCESS"]}
      BY <2>2
    <3>5. QED
      BY <2>3, <3>1, <3>2, <3>3, <3>4, ProcessKeeps DEF AccessInv
  <2>5. ASSUME NEW f \in Quarantinable PROVE CheckedFile(t, f)'
    <3>1. CheckedFile(t, f) /\ ~OnItsWay(t)
      BY <2>1, <2>5 DEF AccessInv, CheckedInv, OnItsWay
    <3>2. QED
      BY <2>1, <2>2, <3>1 DEF CheckedFile, AccessInv, GateInv
  <2>6. checked'[t] \in BOOLEAN /\ checked' = [checked EXCEPT ![t] = checked'[t]]
    BY <2>2 DEF AccessInv, GateInv
  <2>7. QED
    <3>1. ~stream'[t].open /\ stream'[t].left = {} /\ UNCHANGED <<name, asRoot, database>>
          /\ \A u \in Scanners \ {t} : start'[u] = start[u] /\ failed'[u] = failed[u]
      BY <2>2, <2>3
    <3>2. QED
      BY <2>1, <2>3, <2>4, <2>5, <2>6, <3>1, OwnStepKeeps
<1>2. CASE OldOpen(t)
  <2>1. /\ stage' = [stage EXCEPT ![t] = "passing"] /\ gate' = gate /\ stage[t] = "cleared"
        /\ UNCHANGED <<name, permitted, database, asRoot, start, pc, path, stream, hash, wc,
                       named, fds, re, failed, ever, faults, checked>>
    BY <1>2 DEF OldOpen, Gate!Pass, Gate!Move, scanVars, fsVars, argVars, checkVars, failVars
  <2>2. ScanInv'
    <3>1. TypeOK' /\ DescriptorsInv' /\ ControlInv' /\ NamesInv'
      BY <2>1 DEF AccessInv, ScanInv, TypeOK, DescriptorsInv, ControlInv, NamesInv
    <3>2. KeptInv'
      BY <2>1, KeptSame DEF AccessInv, ScanInv
    <3>3. QED
      BY <3>1, <3>2 DEF ScanInv
  <2>3. ASSUME NEW f \in Quarantinable PROVE CheckedFile(t, f)'
    <3>1. CheckedFile(t, f)
      BY <2>3 DEF AccessInv, CheckedInv
    <3>2. QED
      BY <2>1, <3>1 DEF CheckedFile, AccessInv, GateInv
  <2>4. /\ checked'[t] \in BOOLEAN /\ checked' = [checked EXCEPT ![t] = checked'[t]]
        /\ pc[t] = "start" /\ path[t] = start[t] /\ ~stream[t].open /\ stream[t].left = {}
    BY <2>1 DEF AccessInv, GateInv, RestInv
  <2>5. QED
    BY <2>1, <2>2, <2>3, <2>4, OwnStepKeeps
<1>3. QED
  BY <1>1, <1>2
-----------------------------------------------------------------------------
\* The invariant of the hook and the scanner together (on_access.c:149-187,
\* main.c:168-300).
THEOREM AccessInvariance == AccessSpec => []AccessInv
<1>1. AccessInit => AccessInv
  <2> SUFFICES ASSUME AccessInit PROVE AccessInv
    OBVIOUS
  <2>1. ScanInv
    BY InitInv DEF AccessInit, ScanInv, OInv
  <2>2. GateInv /\ RestInv /\ CheckedInv
    BY DEF AccessInit, Init, GateInv, RestInv, CheckedInv, CheckedFile, Gate!Stages
  <2>3. QED
    BY <2>1, <2>2 DEF AccessInv
<1>2. AccessInv /\ [AccessNext]_allVars => AccessInv'
  <2> SUFFICES ASSUME AccessInv, [AccessNext]_allVars PROVE AccessInv'
    OBVIOUS
  <2>1. CASE UNCHANGED allVars
    <3> USE <2>1 DEF allVars, accessVars, vars, AccessInv
    <3>1. TypeOK' /\ DescriptorsInv' /\ ControlInv' /\ NamesInv'
      BY DEF ScanInv, TypeOK, DescriptorsInv, ControlInv, NamesInv
    <3>2. KeptInv'
      BY KeptSame DEF ScanInv
    <3>3. GateInv' /\ RestInv' /\ CheckedInv'
      BY DEF GateInv, RestInv, CheckedInv, CheckedFile, OnItsWay
    <3>4. QED
      BY <3>1, <3>2, <3>3 DEF ScanInv
  <2>2. CASE \E t \in Scanners : Open(t) \/ InOpen(t)
    BY <2>2, NamingKeeps, StartKeeps, AntvStepKeeps, EndKeeps DEF InOpen
  <2>3. QED
    BY <2>1, <2>2 DEF AccessNext
<1>3. QED
  BY <1>1, <1>2, PTL DEF AccessSpec

\* An open that antv has checked by the same name without a failure finds no
\* infected file there but one that was moved there (on_access.c:167-187,
\* main.c:224).
THEOREM CheckedOpensAreSafe == AccessSpec => CheckedOpenIsSafe
<1> DEFINE Safe(t, f) ==
      (/\ database = "whole" /\ name[f] = wanted[t]
       /\ \A at \in Labels : <<at, f>> \notin failed[t]) => name[f] # First[f]
<1>1. AccessInv /\ [AccessNext]_allVars =>
        [\A t \in Scanners :
           stage[t] = "passing" /\ stage'[t] = "idle" /\ checked[t] /\ wanted[t] = start[t] =>
             \A f \in Quarantinable : Safe(t, f)]_allVars
  BY DEF AccessInv, CheckedInv, CheckedFile
<1>2. QED
  BY <1>1, AccessInvariance, PTL DEF AccessSpec, CheckedOpenIsSafe
=============================================================================
