--------------------------- MODULE SigScanProofs ---------------------------
(***************************************************************************)
(* The verdict of scan() for any database, any files and any sequence of   *)
(* calls: LoopInv is inductive, and the properties of the verdict follow.  *)
(***************************************************************************)
EXTENDS SigScan, SequenceTheorems, TLAPS

\* What DatabaseAssumption says of one line.
LEMMA DatabaseShape ==
  ASSUME TypeOK
  PROVE  /\ Len(db) \in Nat
         /\ \A l \in 1 .. Len(db) : /\ db[l].name \in Seq(Char)
                                    /\ Len(db[l].name) \in 1 .. NameCap
                                    /\ db[l].sig \in Signature
<1>1. db \in Seq([name : Seq(Char), sig : Signature])
  BY DatabasesAssumption DEF TypeOK
<1>2. ASSUME NEW l \in 1 .. Len(db)
      PROVE  db[l] \in [name : Seq(Char), sig : Signature]
  BY <1>1, ElementOfSeq
<1>3. \A l \in 1 .. Len(db) : Len(db[l].name) \in 1 .. NameCap
  BY DatabasesAssumption DEF TypeOK
<1>4. Len(db) \in Nat
  BY <1>1
<1>5. \A l \in 1 .. Len(db) : db[l].name \in Seq(Char) /\ db[l].sig \in Signature
  BY <1>2
<1>6. QED
  BY <1>3, <1>4, <1>5

\* The name of a line fits into virus_name and replaces its beginning.
LEMMA CopyNameBuffer ==
  ASSUME TypeOK, NEW name \in Seq(Char), Len(name) \in 1 .. NameCap
  PROVE  /\ CopyName(name) \in Buffer
         /\ \A k \in 1 .. Len(name) : CopyName(name)[k] = name[k]
         /\ CopyName(name)[1] # 0
<1>1. \A k \in 1 .. Len(name) : name[k] \in Char
  OBVIOUS
<1>2. \A k \in 1 .. Len(name) : k \in 1 .. NameCap
  BY ScanAssumption
<1>3. CopyName(name) \in Buffer
  BY <1>1, ScanAssumption DEF TypeOK, CopyName, Buffer
<1>4. \A k \in 1 .. Len(name) : CopyName(name)[k] = name[k]
  BY <1>2 DEF CopyName
<1>5. CopyName(name)[1] = name[1] /\ name[1] \in Char
  BY <1>1, <1>4
<1>6. QED
  BY <1>3, <1>4, <1>5, ScanAssumption

-----------------------------------------------------------------------------
\* Every variable keeps its type: virus_name is never overrun.
LEMMA TypeCorrect == LoopInv /\ [Next]_vars => TypeOK'
<1> SUFFICES ASSUME TypeOK, SearchedInv, [Next]_vars PROVE TypeOK'
  BY DEF LoopInv
<1>1. ASSUME NEW f \in Files, Call(f) PROVE TypeOK'
  <2>1. file' \in File /\ calls' \in Nat
    BY <1>1, ScanAssumption DEF Call, TypeOK
  <2>2. QED
    BY <1>1, <2>1 DEF Call, TypeOK
<1>2. CASE Load \/ LoadFails
  BY <1>2 DEF Load, LoadFails, TypeOK
<1>3. CASE NextLine
  BY <1>3, DatabaseShape DEF NextLine, TypeOK
<1>4. CASE EndOfDatabase \/ LineExhausted
  BY <1>4 DEF EndOfDatabase, LineExhausted, TypeOK
<1>5. CASE Mismatch
  <2>1. virus_name' \in Buffer
    BY <1>5 DEF Mismatch, TypeOK, Buffer
  <2>2. QED
    BY <1>5, <2>1 DEF Mismatch, TypeOK
<1>6. CASE Detect
  <2>1. pos \in 1 .. Len(db)
    BY <1>6, DatabaseShape DEF Detect, SearchedInv, TypeOK
  <2>2. virus_name' \in Buffer
    BY <1>6, <2>1, DatabaseShape, CopyNameBuffer DEF Detect
  <2>3. QED
    BY <1>6, <2>2 DEF Detect, TypeOK
<1>7. CASE Finish
  BY <1>7, DatabaseShape DEF Finish, TypeOK
<1>8. CASE UNCHANGED vars
  BY <1>8 DEF vars, TypeOK
<1>9. QED
  BY <1>1, <1>2, <1>3, <1>4, <1>5, <1>6, <1>7, <1>8 DEF Next

\* The file offset is back at the start of each window (scan.c:108-136).
LEMMA RewoundCorrect == LoopInv /\ [Next]_vars => RewoundInv'
BY DEF LoopInv, RewoundInv, Next, Call, Load, LoadFails, NextLine, EndOfDatabase,
       Mismatch, Detect, LineExhausted, Finish, vars

\* A line whose windows have all been compared matches nowhere.
LEMMA LineClear ==
  ASSUME TypeOK, SearchedInv, LineExhausted
  PROVE  ClearUpTo(pos)
<1>1. /\ pos \in Nat /\ pos >= 1 /\ ClearUpTo(pos - 1)
      /\ \A j \in 0 .. i - 1 : ~MatchAt(file, j, db[pos].sig)
  BY DatabaseShape DEF LineExhausted, SearchedInv, TypeOK
<1>2. Limit(file) \in Int /\ i \in Nat /\ i >= Limit(file)
  BY SignaturesAssumption DEF LineExhausted, TypeOK, File, Limit
<1>3. ~Matches(file, db[pos].sig)
  BY <1>1, <1>2 DEF Matches, Offsets
<1>4. QED
  BY <1>1, <1>3 DEF ClearUpTo

\* The windows compared so far, at each control point.
LEMMA SearchedCorrect == LoopInv /\ [Next]_vars => SearchedInv'
<1> SUFFICES ASSUME TypeOK, RewoundInv, SearchedInv, [Next]_vars PROVE SearchedInv'
  BY DEF LoopInv
<1>1. ASSUME NEW f \in Files, Call(f) PROVE SearchedInv'
  BY <1>1 DEF Call, SearchedInv, Success
<1>2. CASE Load
  BY <1>2, DatabaseShape DEF Load, RewoundInv, SearchedInv, Success, ClearUpTo
<1>3. CASE LoadFails
  BY <1>3 DEF LoadFails, SearchedInv, Success
<1>4. CASE NextLine
  <2>1. CASE found
    BY <1>4, <2>1 DEF NextLine, SearchedInv, Success
  <2>2. CASE ~found
    <3>1. /\ pc' = "compare" /\ pos' = pos + 1 /\ i' = 0 /\ ~found'
          /\ ClearUpTo(pos) /\ UNCHANGED <<db, file>> /\ pos \in Nat
      BY <1>4, <2>2, DatabaseShape DEF NextLine, SearchedInv, TypeOK
    <3>2. pos' - 1 = pos /\ pos' >= 1
      BY <3>1
    <3>3. ClearUpTo(pos - 1)'
      BY <3>1, <3>2 DEF ClearUpTo
    <3>4. \A j \in 0 .. i' - 1 : FALSE
      BY <3>1
    <3>5. QED
      BY <3>1, <3>2, <3>3, <3>4 DEF SearchedInv, Success
  <2>3. QED
    BY <2>1, <2>2
<1>5. CASE EndOfDatabase
  BY <1>5 DEF EndOfDatabase, SearchedInv, Success, ClearUpTo
<1>6. CASE Mismatch
  <2>1. \A j \in 0 .. i' - 1 : ~MatchAt(file, j, db[pos].sig)
    BY <1>6 DEF Mismatch, SearchedInv, TypeOK
  <2>2. QED
    BY <1>6, <2>1 DEF Mismatch, SearchedInv, Success, ClearUpTo
<1>7. CASE Detect
  BY <1>7 DEF Detect, SearchedInv, Success
<1>8. CASE LineExhausted
  BY <1>8, LineClear DEF LineExhausted, SearchedInv, Success, ClearUpTo
<1>9. CASE Finish
  BY <1>9 DEF Finish, SearchedInv, Success, ClearUpTo
<1>10. CASE UNCHANGED vars
  BY <1>10 DEF vars, SearchedInv, Success, ClearUpTo
<1>11. QED
  BY <1>1, <1>2, <1>3, <1>4, <1>5, <1>6, <1>7, <1>8, <1>9, <1>10 DEF Next

-----------------------------------------------------------------------------
\* A step that changes neither the file, the database nor the name keeps the
\* line whose name stands in virus_name.
LEMMA NamedLineStable ==
  ASSUME NamedLine, UNCHANGED <<db, file, virus_name>>
  PROVE  NamedLine'
BY DEF NamedLine, ClearUpTo

\* The match at offset i is a match of the line.
LEMMA DetectMatches ==
  ASSUME TypeOK, Detect
  PROVE  Matches(file, db[pos].sig)
<1>1. i \in Offsets(file)
  BY SignaturesAssumption DEF Detect, TypeOK, File, Limit, Offsets
<1>2. QED
  BY <1>1 DEF Detect, Matches

\* What stands in virus_name, at each control point.
LEMMA NameCorrect == LoopInv /\ [Next]_vars => NameInv'
<1> SUFFICES ASSUME TypeOK, RewoundInv, SearchedInv, NameInv, [Next]_vars PROVE NameInv'
  BY DEF LoopInv
<1>1. ASSUME NEW f \in Files, Call(f) PROVE NameInv'
  BY <1>1 DEF Call, NameInv, Cleared, Success
<1>2. CASE Load
  <2>1. ~found' /\ ~Cleared'
    BY <1>2, DatabaseShape DEF Load, RewoundInv, SearchedInv, Cleared, Success, TypeOK
  <2>2. QED
    BY <2>1 DEF NameInv
<1>3. CASE LoadFails
  BY <1>3 DEF LoadFails, SearchedInv, NameInv, Cleared, Success
<1>4. CASE NextLine
  <2>1. UNCHANGED <<db, file, virus_name, found>>
    BY <1>4 DEF NextLine
  <2>2. CASE found
    BY <2>1, <2>2, NamedLineStable DEF NameInv
  <2>3. CASE ~found
    <3>1. Cleared' => Cleared
      BY <1>4, <2>3, DatabaseShape DEF NextLine, Cleared, Success, TypeOK
    <3>2. QED
      BY <2>1, <2>3, <3>1 DEF NameInv
  <2>4. QED
    BY <2>2, <2>3
<1>5. CASE EndOfDatabase
  <2>1. UNCHANGED <<db, file, virus_name, found>>
    BY <1>5 DEF EndOfDatabase
  <2>2. Cleared' => Cleared
    <3>1. db # <<>> => Len(db) >= 1
      BY DatabasesAssumption, EmptySeq DEF TypeOK
    <3>2. QED
      BY <1>5, <3>1, DatabaseShape DEF EndOfDatabase, Cleared, Success
  <2>3. QED
    BY <2>1, <2>2, NamedLineStable DEF NameInv
<1>6. CASE Mismatch
  BY <1>6, ScanAssumption DEF Mismatch, SearchedInv, NameInv, TypeOK, Buffer
<1>7. CASE Detect
  <2>1. pos \in 1 .. Len(db) /\ ClearUpTo(pos - 1)
    BY <1>7, DatabaseShape DEF Detect, SearchedInv, TypeOK
  <2>2. \A k \in 1 .. Len(db[pos].name) : virus_name'[k] = db[pos].name[k]
    BY <1>7, <2>1, DatabaseShape, CopyNameBuffer DEF Detect
  <2>3. found' /\ UNCHANGED <<db, file>>
    BY <1>7 DEF Detect
  <2>4. NamedLine'
    BY <1>7, <2>1, <2>2, <2>3, DetectMatches DEF NamedLine, ClearUpTo
  <2>5. QED
    BY <2>3, <2>4 DEF NameInv
<1>8. CASE LineExhausted
  <2>1. UNCHANGED <<db, file, virus_name, found, pos>> /\ ~found
    BY <1>8 DEF LineExhausted, SearchedInv
  <2>2. Limit(file) >= 1 => Cleared
    BY <1>8, SignaturesAssumption DEF LineExhausted, Cleared, TypeOK, File, Limit
  <2>3. QED
    BY <2>1, <2>2 DEF NameInv
<1>9. CASE Finish
  <2>1. UNCHANGED <<db, file, virus_name, found>> /\ (Cleared' => Cleared)
    BY <1>9 DEF Finish, Cleared, Success
  <2>2. QED
    BY <2>1, NamedLineStable DEF NameInv
<1>10. CASE UNCHANGED vars
  BY <1>10, NamedLineStable DEF vars, NameInv, Cleared, Success
<1>11. QED
  BY <1>1, <1>2, <1>3, <1>4, <1>5, <1>6, <1>7, <1>8, <1>9, <1>10 DEF Next

-----------------------------------------------------------------------------
\* The loop invariant holds before the first call.
LEMMA InitCorrect == Init => LoopInv
<1> SUFFICES ASSUME Init PROVE LoopInv
  OBVIOUS
<1>1. db \in Databases /\ Len(db) \in Nat
  BY DatabasesAssumption DEF Init
<1>2. <<>> \in File
  BY DEF File
<1>3. TypeOK
  <2>1. file \in File
    BY <1>2, Zenon DEF Init
  <2>2. /\ db \in Databases /\ virus_name \in Buffer /\ found = FALSE
        /\ pos = 0 /\ i = 0 /\ calls = 0 /\ ret = "none" /\ pc = "return"
    BY Zenon DEF Init
  <2>3. pos \in 0 .. Len(db) /\ i \in Nat /\ calls \in Nat
    <3>1. 0 \in Nat /\ 0 \in 0 .. Len(db)
      BY <1>1
    <3>2. QED
      BY <2>2, <3>1, Zenon
  <2>4. QED
    BY <2>1, <2>2, <2>3, Zenon DEF TypeOK
<1>4. RewoundInv /\ SearchedInv /\ NameInv
  BY DEF Init, RewoundInv, SearchedInv, NameInv, Cleared, Success
<1>5. QED
  BY <1>3, <1>4 DEF LoopInv

\* The loop invariant of scan() holds for every database without an overlong
\* name, every set of files and any number of calls (scan.c:53-148).
THEOREM LoopInvariance == Spec => []LoopInv
<1>1. LoopInv /\ [Next]_vars => LoopInv'
  BY TypeCorrect, RewoundCorrect, SearchedCorrect, NameCorrect DEF LoopInv
<1>2. QED
  BY InitCorrect, <1>1, PTL DEF Spec

\* The variables keep their types; a copied name never leaves virus_name.
THEOREM TypeCorrectness == Spec => []TypeOK
<1>1. LoopInv => TypeOK
  BY DEF LoopInv
<1>2. QED
  BY LoopInvariance, <1>1, PTL

\* The flag at the end of a call is the verdict of the whole database.
LEMMA VerdictAtEnd ==
  ASSUME LoopInv, pc = "finish" \/ Success
  PROVE  found <=> DetectedIn(file)
BY DatabaseShape DEF LoopInv, SearchedInv, NameInv, NamedLine, ClearUpTo, DetectedIn

\* scan() that returns SUCCESS has found a signature exactly when some line of
\* the database matches somewhere in the file (scan.c:53-139).
THEOREM ScanIsExhaustive == Spec => []FoundIffMatches
<1>1. LoopInv => FoundIffMatches
  BY VerdictAtEnd DEF FoundIffMatches
<1>2. QED
  BY LoopInvariance, <1>1, PTL

\* The copied window equals a signature without a zero byte exactly when the
\* file holds the signature's bytes at that place.
LEMMA ZeroFreeWindow ==
  ASSUME NEW f, NEW o \in Nat, NEW sig, ZeroFree(sig)
  PROVE  MatchAt(f, o, sig) <=> \A k \in 1 .. SigSize : f[o + k] = sig[k]
<1>1. ASSUME MatchAt(f, o, sig), NEW k \in 1 .. SigSize PROVE f[o + k] = sig[k]
  <2>1. Window(f, o)[k] = sig[k] /\ sig[k] # 0
    BY <1>1 DEF MatchAt, SigCompare, ZeroFree
  <2>2. Window(f, o)[k] = IF \E j \in 1 .. k : f[o + j] = 0 THEN 0 ELSE f[o + k]
    BY DEF Window
  <2>3. QED
    BY <2>1, <2>2
<1>2. ASSUME \A k \in 1 .. SigSize : f[o + k] = sig[k], NEW k \in 1 .. SigSize
      PROVE  Window(f, o)[k] = sig[k]
  <2>1. \A j \in 1 .. k : f[o + j] # 0
    BY <1>2, SignaturesAssumption DEF ZeroFree
  <2>2. QED
    BY <1>2, <2>1 DEF Window
<1>3. QED
  BY <1>1, <1>2 DEF MatchAt, SigCompare

\* The window loop covers every place a signature can stand in the file: the
\* terminator counted in load_size makes up for the strict comparison.
LEMMA ZeroFreeMatches ==
  ASSUME NEW f \in File, NEW sig, ZeroFree(sig)
  PROVE  Matches(f, sig) <=> Occurs(f, sig)
<1>1. Offsets(f) = 0 .. (Len(f) - SigSize)
  BY SignaturesAssumption DEF Offsets, Limit, File
<1>2. \A o \in Offsets(f) : o \in Nat
  BY <1>1
<1>3. \A o \in Offsets(f) :
        MatchAt(f, o, sig) <=> \A k \in 1 .. SigSize : f[o + k] = sig[k]
  BY <1>2, ZeroFreeWindow
<1>4. QED
  BY <1>1, <1>3 DEF Matches, Occurs

\* For signatures without a zero byte scan() decides exactly whether the file
\* contains one of them (scan.c:88-130).
THEOREM ScanIsExact == Spec => []ZeroFreeExact
<1>1. LoopInv => ZeroFreeExact
  <2> SUFFICES ASSUME LoopInv, \A l \in 1 .. Len(db) : ZeroFree(db[l].sig), Success
               PROVE  found <=> ContainedIn(file)
    BY DEF ZeroFreeExact
  <2>1. \A l \in 1 .. Len(db) : Matches(file, db[l].sig) <=> Occurs(file, db[l].sig)
    BY ZeroFreeMatches DEF LoopInv, TypeOK
  <2>2. QED
    BY <2>1, VerdictAtEnd DEF DetectedIn, ContainedIn
<1>2. QED
  BY LoopInvariance, <1>1, PTL

\* When at least one window was compared, the first byte of virus_name is the
\* verdict of this call (scan.c:120-127, main.c:217).
THEOREM NameIsVerdict == Spec => []VerdictInName
<1>1. LoopInv => VerdictInName
  <2> SUFFICES ASSUME LoopInv, Success, db # <<>>, Len(file) >= SigSize
               PROVE  virus_name[1] # 0 <=> found
    BY DEF VerdictInName
  <2>1. CASE found
    <3>1. PICK l \in 1 .. Len(db) :
            \A k \in 1 .. Len(db[l].name) : virus_name[k] = db[l].name[k]
      BY <2>1 DEF LoopInv, NameInv, NamedLine
    <3>2. db[l].name \in Seq(Char) /\ Len(db[l].name) \in 1 .. NameCap
      BY DatabaseShape DEF LoopInv
    <3>3. virus_name[1] = db[l].name[1] /\ db[l].name[1] \in Char
      BY <3>1, <3>2
    <3>4. QED
      BY <2>1, <3>3, ScanAssumption
  <2>2. CASE ~found
    <3>1. Limit(file) >= 1
      BY SignaturesAssumption DEF LoopInv, TypeOK, File, Limit
    <3>2. QED
      BY <2>2, <3>1 DEF LoopInv, NameInv, Cleared
  <2>3. QED
    BY <2>1, <2>2
<1>2. QED
  BY LoopInvariance, <1>1, PTL

\* virus_name starts with the name of the first line that matches
\* (scan.c:63-66, 120-124).
THEOREM NameIsFirst == Spec => []FirstLineNamed
<1>1. LoopInv => FirstLineNamed
  BY DEF LoopInv, NameInv, NamedLine, ClearUpTo, FirstLineNamed
<1>2. QED
  BY LoopInvariance, <1>1, PTL

-----------------------------------------------------------------------------
\* Every step of the loop is a step of the one-step detector or a stutter.
LEMMA StepRefines ==
  LoopInv /\ [Next]_vars => [Promise!DetectorNext]_(Promise!detectorVars)
<1> SUFFICES ASSUME LoopInv, [Next]_vars
             PROVE  Promise!DetectorNext \/ UNCHANGED Promise!detectorVars
  OBVIOUS
<1> USE DEF Promise!detectorVars
<1>1. ASSUME NEW f \in Files, Call(f) PROVE Promise!Call(f)
  BY <1>1 DEF Call, Promise!Call
<1>2. CASE LoadFails
  <2>1. Promise!Refuse
    BY <1>2 DEF LoadFails, Promise!Refuse, LoopInv, SearchedInv
  <2>2. QED
    BY <2>1 DEF Promise!DetectorNext
<1>3. CASE Finish
  <2>1. found <=> Promise!Infected(file)
    BY <1>3, VerdictAtEnd DEF Finish, DetectedIn, Promise!Infected, Promise!Matches,
       Promise!MatchAt, Promise!SigCompare, Promise!Window, Promise!Offsets,
       Promise!Limit, Matches, MatchAt, SigCompare, Window, Offsets, Limit
  <2>2. (pc = "return" /\ found)' = Promise!Infected(file)
    <3>1. (pc = "return" /\ found)' <=> Promise!Infected(file)
      BY <1>3, <2>1 DEF Finish
    <3>2. Promise!Infected(file) \in BOOLEAN
      BY DEF Promise!Infected
    <3>3. QED
      BY <3>1, <3>2, Zenon
  <2>3. (pc # "return")' = FALSE
    BY <1>3, Zenon DEF Finish
  <2>4. Promise!Answer
    BY <1>3, <2>2, <2>3 DEF Finish, Promise!Answer
  <2>5. QED
    BY <2>4 DEF Promise!DetectorNext
<1>4. CASE Load \/ NextLine \/ EndOfDatabase \/ Mismatch \/ Detect \/ LineExhausted
  BY <1>4 DEF Load, NextLine, EndOfDatabase, Mismatch, Detect, LineExhausted
<1>5. CASE UNCHANGED vars
  BY <1>5 DEF vars
<1>6. QED
  BY <1>1, <1>2, <1>3, <1>4, <1>5 DEF Next, Promise!DetectorNext

\* scan() implements the one-step detector: each call is answered with the
\* verdict of the whole database on the whole file, or refused (scan.c:11-152).
THEOREM ScanImplementsDetector == Spec => ImplementsDetector
<1>1. Init => Promise!DetectorInit
  BY DEF Init, Promise!DetectorInit
<1>2. QED
  BY <1>1, StepRefines, LoopInvariance, PTL DEF Spec, ImplementsDetector, Promise!DetectorSpec
=============================================================================
