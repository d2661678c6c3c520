------------------------------ MODULE SigScan ------------------------------
(***************************************************************************)
(* scan() of src/scan.c, called for one file after the other on one open   *)
(* database and one virus_name buffer, as on_demand does (main.c:213).     *)
(*                                                                         *)
(* One step is one line read, one window compared, or one return.  The     *)
(* database lines are taken after extrac_signature: records [name, sig].   *)
(* The file position of the database stream is the number of lines read.   *)
(***************************************************************************)
EXTENDS Signatures

CONSTANTS
  Files,       \* the files that are scanned
  Databases,   \* the contents of the signature database
  Char,        \* the characters of names (0 terminates a name)
  NameCap,     \* MAX_NAME_LEN, the size of virus_name
  MaxCalls     \* bound: calls of scan()

ASSUME ScanAssumption ==
  /\ 0 \notin Char
  /\ NameCap \in Nat \ {0}
  /\ Files \subseteq File
  /\ MaxCalls \in Nat

\* No line of the database overruns virus_name (scan.c:120 does not check it).
ASSUME DatabasesAssumption ==
  \A d \in Databases : /\ d \in Seq([name : Seq(Char), sig : Signature])
                       /\ \A l \in 1 .. Len(d) : Len(d[l].name) \in 1 .. NameCap

VARIABLES
  db,          \* the lines of the database
  pos,         \* position of the stream db: lines read since the last rewind
  file,        \* the bytes load_file has read
  i,           \* offset of the current window
  found,       \* the flag of scan()
  virus_name,  \* the caller's buffer, never initialised by the caller
  ret,         \* what the last call returned
  pc,          \* where scan() is
  calls        \* calls so far

vars == <<db, pos, file, i, found, virus_name, ret, pc, calls>>

Buffer == [1 .. NameCap -> Char \union {0}]

\* The stack may hold anything where the caller declares virus_name.
Init ==
  /\ db \in Databases
  /\ pos = 0
  /\ file = <<>>
  /\ i = 0
  /\ found = FALSE
  /\ virus_name \in Buffer
  /\ ret = "none"
  /\ pc = "return"
  /\ calls = 0

-----------------------------------------------------------------------------
\* Faulty variant: the flag of the previous call survives.
CallKeepsFlag(f) ==
  /\ pc = "return"
  /\ calls < MaxCalls
  /\ calls' = calls + 1
  /\ file' = f
  /\ pc' = "load"
  /\ UNCHANGED <<db, pos, i, found, virus_name, ret>>

\* scan(fd, db, virus_name)
Call(f) ==
  /\ pc = "return"
  /\ calls < MaxCalls
  /\ calls' = calls + 1
  /\ file' = f
  /\ found' = FALSE
  /\ pc' = "load"
  /\ UNCHANGED <<db, pos, i, virus_name, ret>>

\* load_file has read the whole file.
Load ==
  /\ pc = "load"
  /\ pc' = "getline"
  /\ UNCHANGED <<db, pos, file, i, found, virus_name, ret, calls>>

\* load_file fails (no memory, short read, a stream that cannot seek):
\* scan returns FAIL and touches neither the database nor virus_name.
LoadFails ==
  /\ pc = "load"
  /\ ret' = "FAIL"
  /\ pc' = "return"
  /\ UNCHANGED <<db, pos, file, i, found, virus_name, calls>>

\* Faulty variant: the loop goes on after a detection.
NextLineGoesOn ==
  /\ pc = "getline"
  /\ pos < Len(db)
  /\ pos' = pos + 1
  /\ pc' = "compare"
  /\ i' = 0
  /\ UNCHANGED <<db, file, found, virus_name, ret, calls>>

\* Faulty variant: the end of the database is not noticed.
NextLinePastEnd ==
  /\ pc = "getline"
  /\ pos' = pos + 1
  /\ pc' = IF found THEN "finish" ELSE "compare"
  /\ i' = 0
  /\ UNCHANGED <<db, file, found, virus_name, ret, calls>>

\* getline succeeds; a line read after a detection ends the loop unused.
NextLine ==
  /\ pc = "getline"
  /\ pos < Len(db)
  /\ pos' = pos + 1
  /\ pc' = IF found THEN "finish" ELSE "compare"
  /\ i' = 0
  /\ UNCHANGED <<db, file, found, virus_name, ret, calls>>

\* getline returns -1.
EndOfDatabase ==
  /\ pc = "getline"
  /\ pos = Len(db)
  /\ pc' = "finish"
  /\ UNCHANGED <<db, pos, file, i, found, virus_name, ret, calls>>

\* Faulty variant: a mismatch does not clear virus_name.
MismatchKeepsName ==
  /\ pc = "compare"
  /\ i < Limit(file)
  /\ ~MatchAt(file, i, db[pos].sig)
  /\ i' = i + 1
  /\ UNCHANGED <<db, pos, file, found, virus_name, ret, pc, calls>>

\* *virus_name = 0; ++i
Mismatch ==
  /\ pc = "compare"
  /\ i < Limit(file)
  /\ ~MatchAt(file, i, db[pos].sig)
  /\ virus_name' = [virus_name EXCEPT ![1] = 0]
  /\ i' = i + 1
  /\ UNCHANGED <<db, pos, file, found, ret, pc, calls>>

\* strncpy(virus_name, name, strlen(name)): no terminator is copied.
CopyName(name) ==
  [k \in 1 .. NameCap |-> IF k <= Len(name) THEN name[k] ELSE virus_name[k]]

\* Faulty variant: the detection goes on with the remaining lines.
DetectForgetsFlag ==
  /\ pc = "compare"
  /\ i < Limit(file)
  /\ MatchAt(file, i, db[pos].sig)
  /\ virus_name' = CopyName(db[pos].name)
  /\ pc' = "getline"
  /\ UNCHANGED <<db, pos, file, i, found, ret, calls>>

Detect ==
  /\ pc = "compare"
  /\ i < Limit(file)
  /\ MatchAt(file, i, db[pos].sig)
  /\ virus_name' = CopyName(db[pos].name)
  /\ found' = TRUE
  /\ pc' = "getline"
  /\ UNCHANGED <<db, pos, file, i, ret, calls>>

\* The window loop ends without a match.
LineExhausted ==
  /\ pc = "compare"
  /\ i >= Limit(file)
  /\ pc' = "getline"
  /\ UNCHANGED <<db, pos, file, i, found, virus_name, ret, calls>>

\* Faulty variant: the database stream is not rewound.
FinishWithoutRewind ==
  /\ pc = "finish"
  /\ ret' = "SUCCESS"
  /\ pc' = "return"
  /\ UNCHANGED <<db, pos, file, i, found, virus_name, calls>>

\* fseek(db, 0, SEEK_SET); return SUCCESS;
Finish ==
  /\ pc = "finish"
  /\ pos' = 0
  /\ ret' = "SUCCESS"
  /\ pc' = "return"
  /\ UNCHANGED <<db, file, i, found, virus_name, calls>>

Next ==
  \/ \E f \in Files : Call(f)
  \/ Load \/ LoadFails \/ NextLine \/ EndOfDatabase
  \/ Mismatch \/ Detect \/ LineExhausted \/ Finish

Spec == Init /\ [][Next]_vars

-----------------------------------------------------------------------------
(***************************************************************************)
(* Properties.                                                             *)
(***************************************************************************)

TypeOK ==
  /\ db \in Databases
  /\ pos \in 0 .. Len(db)
  /\ file \in File
  /\ i \in Nat
  /\ found \in BOOLEAN
  /\ virus_name \in Buffer
  /\ ret \in {"none", "SUCCESS", "FAIL"}
  /\ pc \in {"return", "load", "getline", "compare", "finish"}
  /\ calls \in Nat

Success == pc = "return" /\ ret = "SUCCESS"
DetectedIn(f) == \E l \in 1 .. Len(db) : Matches(f, db[l].sig)
ContainedIn(f) == \E l \in 1 .. Len(db) : Occurs(f, db[l].sig)

\* A call that returns SUCCESS has compared every window of the file with every
\* line of the database until a match: the flag is set exactly when some line
\* matches somewhere, on the first call and on every later one (scan.c:53-139).
FoundIffMatches == Success => (found <=> DetectedIn(file))

\* For signatures without a zero byte the verdict is the exact one: found
\* exactly when the bytes of some signature stand in the file (scan.c:88-130).
ZeroFreeExact ==
  (\A l \in 1 .. Len(db) : ZeroFree(db[l].sig)) =>
     (Success => (found <=> ContainedIn(file)))

\* The caller reads the verdict off the first byte of virus_name
\* (main.c:217).  That is the verdict of this call, whatever the buffer held
\* before, when at least one window was compared.
VerdictInName ==
  Success /\ db # <<>> /\ Len(file) >= SigSize =>
    (virus_name[1] # 0 <=> found)

\* virus_name starts with the name of the first matching line: no later line
\* overwrites it (scan.c:63-66, 120-124).
FirstLineNamed ==
  Success /\ found =>
    \E l \in 1 .. Len(db) :
      /\ Matches(file, db[l].sig)
      /\ \A m \in 1 .. l - 1 : ~Matches(file, db[m].sig)
      /\ \A k \in 1 .. Len(db[l].name) : virus_name[k] = db[l].name[k]

\* The parts of the loop invariant.
\* No line up to n matches anywhere in the file.
ClearUpTo(n) == \A l \in 1 .. n : ~Matches(file, db[l].sig)

\* A call starts at the first line and leaves the stream there.
RewoundInv == pc \in {"return", "load"} => pos = 0

\* What has been compared without a match, at each control point.
SearchedInv ==
  /\ pc = "load" => ~found
  /\ pc = "getline" /\ ~found => ClearUpTo(pos)
  /\ pc = "compare" => /\ ~found /\ pos >= 1 /\ ClearUpTo(pos - 1)
                       /\ \A j \in 0 .. i - 1 : ~MatchAt(file, j, db[pos].sig)
  /\ pc = "finish" /\ ~found => ClearUpTo(Len(db))
  /\ Success /\ ~found => ClearUpTo(Len(db))

\* The line that matches first and whose name stands in virus_name.
NamedLine ==
  \E l \in 1 .. Len(db) :
    /\ Matches(file, db[l].sig)
    /\ ClearUpTo(l - 1)
    /\ \A k \in 1 .. Len(db[l].name) : virus_name[k] = db[l].name[k]

\* A window has been compared in this call and cleared virus_name.
Cleared ==
  \/ pc = "getline" /\ pos >= 1
  \/ pc = "compare" /\ (i >= 1 \/ pos >= 2)
  \/ (pc = "finish" \/ Success) /\ db # <<>>

NameInv ==
  /\ found => NamedLine
  /\ ~found /\ Cleared /\ Limit(file) >= 1 => virus_name[1] = 0

\* Together they are preserved by every step of the loop, and they imply the
\* properties of the verdict above (scan.c:53-148).
LoopInv == TypeOK /\ RewoundInv /\ SearchedInv /\ NameInv

\* scan() implements the one-step detector: each call is answered with the
\* verdict of the whole database on the whole file, or refused.
Promise == INSTANCE Detector WITH
  lines <- db, subject <- file, busy <- (pc # "return"), answer <- ret,
  verdict <- (pc = "return" /\ found)

ImplementsDetector == Promise!DetectorSpec

\* scan.c:56-57: "In each interation, scan through the file that has been
\* loaded to file, Looking for line in the file."  A file that contains the
\* bytes of a signature is found.
DetectsContained == Success /\ ContainedIn(file) => found

\* scan.c:7: "store the name of the virus to virus_name, if founf."  After a
\* successful scan virus_name holds a name only if a virus was found.
NameOnlyIfFound == Success /\ virus_name[1] # 0 => found

\* const.h:44: "store the name of the virus to virus_name, if founf."  The
\* string in virus_name is the name of a matching line.
NameIsExact ==
  Success /\ found =>
    \E l \in 1 .. Len(db) :
      /\ Matches(file, db[l].sig)
      /\ virus_name = [k \in 1 .. NameCap |->
           IF k <= Len(db[l].name) THEN db[l].name[k]
           ELSE IF k = Len(db[l].name) + 1 THEN 0 ELSE virus_name[k]]
=============================================================================
