---------------------------- MODULE UpdateProofs ----------------------------
(***************************************************************************)
(* What an update may leave behind, for any number of updaters, readers and *)
(* runs and files of any size: UInv is inductive.                           *)
(***************************************************************************)
EXTENDS Update, TLAPS

\* Writing one chunk keeps a sequence of chunks one.
LEMMA WrittenIsFile ==
  ASSUME NEW content \in Seq(Chunk), NEW p \in Nat, NEW c \in Chunk
  PROVE  /\ Written(content, p, c) \in Seq(Chunk)
         /\ Len(Written(content, p, c)) = (IF p < Len(content) THEN Len(content) ELSE p + 1)
         /\ \A i \in 1 .. Len(Written(content, p, c)) :
              Written(content, p, c)[i] =
                IF i = p + 1 THEN c ELSE IF i <= Len(content) THEN content[i] ELSE Hole
<1> DEFINE m == IF p < Len(content) THEN Len(content) ELSE p + 1
           g(i) == IF i = p + 1 THEN c ELSE IF i <= Len(content) THEN content[i] ELSE Hole
<1>1. m \in Nat
  OBVIOUS
<1>2. \A i \in 1 .. m : g(i) \in Chunk
  BY DEF Chunk, Hole
<1>3. Written(content, p, c) = [i \in 1 .. m |-> g(i)]
  BY DEF Written
<1> HIDE DEF m, g
<1>4. [i \in 1 .. m |-> g(i)] \in Seq(Chunk) /\ Len([i \in 1 .. m |-> g(i)]) = m
  BY <1>1, <1>2
<1>5. QED
  BY <1>3, <1>4 DEF m, g

\* A whole version is a content the file may have.
LEMMA WholeIsFile ==
  ASSUME NEW v \in Versions
  PROVE  /\ Whole(v) \in Seq(Chunk) /\ Len(Whole(v)) = Size[v]
         /\ \A i \in 1 .. Size[v] : Whole(v)[i] = <<v, i>>
<1>1. Size[v] \in Nat
  BY SizeAssumption
<1>2. \A i \in 1 .. Size[v] : <<v, i>> \in Chunk
  BY <1>1 DEF Chunk
<1>3. QED
  BY <1>1, <1>2 DEF Whole

\* What Receive changes.
LEMMA ReceiveEffect ==
  ASSUME TypeOK, NEW u \in Updaters, Receive(u)
  PROVE  /\ file[u] \in Files /\ pos[u] \in Nat /\ sent[u] \in {"new", "page"}
         /\ <<sent[u], pos[u] + 1>> \in Chunk
         /\ disk' \in [Files -> Seq(Chunk)]
         /\ \A f \in Files : f # file[u] => disk'[f] = disk[f]
         /\ disk[file[u]] \in Seq(Chunk)
         /\ Len(disk'[file[u]]) =
              (IF pos[u] < Len(disk[file[u]]) THEN Len(disk[file[u]]) ELSE pos[u] + 1)
         /\ \A i \in 1 .. Len(disk'[file[u]]) :
              disk'[file[u]][i] =
                IF i = pos[u] + 1 THEN <<sent[u], pos[u] + 1>>
                ELSE IF i <= Len(disk[file[u]]) THEN disk[file[u]][i] ELSE Hole
         /\ pos' \in [Updaters -> Nat]
         /\ \A v \in Updaters : pos'[v] = IF v = u THEN pos[u] + 1 ELSE pos[v]
<1>1. file[u] \in Files /\ pos[u] \in Nat /\ sent[u] \in {"new", "page"}
  BY DEF TypeOK
<1>2. <<sent[u], pos[u] + 1>> \in Chunk
  BY <1>1 DEF Chunk, Versions
<1>3. disk[file[u]] \in Seq(Chunk)
  BY <1>1 DEF TypeOK
<1> DEFINE c == <<sent[u], pos[u] + 1>>
           w == Written(disk[file[u]], pos[u], c)
<1> HIDE DEF c
<1>4. c \in Chunk
  BY <1>2 DEF c
<1> DEFINE old == disk[file[u]]
<1> HIDE DEF old
<1>10. old \in Seq(Chunk) /\ pos[u] \in Nat
  BY <1>1, <1>3 DEF old
<1> DEFINE p == pos[u]
<1> HIDE DEF p
<1>11. p \in Nat
  BY <1>10 DEF p
<1>12. /\ Written(old, p, c) \in Seq(Chunk)
       /\ Len(Written(old, p, c)) = (IF p < Len(old) THEN Len(old) ELSE p + 1)
       /\ \A i \in 1 .. Len(Written(old, p, c)) :
            Written(old, p, c)[i] =
              IF i = p + 1 THEN c ELSE IF i <= Len(old) THEN old[i] ELSE Hole
  BY <1>4, <1>10, <1>11, WrittenIsFile
<1>5. /\ w \in Seq(Chunk)
      /\ Len(w) = (IF pos[u] < Len(disk[file[u]]) THEN Len(disk[file[u]]) ELSE pos[u] + 1)
      /\ \A i \in 1 .. Len(w) :
           w[i] = IF i = pos[u] + 1 THEN c
                  ELSE IF i <= Len(disk[file[u]]) THEN disk[file[u]][i] ELSE Hole
  BY <1>12 DEF old, p
<1> HIDE DEF w
<1>6. disk' = [disk EXCEPT ![file[u]] = w]
  BY DEF Receive, w, c
<1>7. disk' \in [Files -> Seq(Chunk)] /\ disk'[file[u]] = w
      /\ \A f \in Files : f # file[u] => disk'[f] = disk[f]
  BY <1>1, <1>5, <1>6 DEF TypeOK
<1>8. pos' \in [Updaters -> Nat]
      /\ \A v \in Updaters : pos'[v] = IF v = u THEN pos[u] + 1 ELSE pos[v]
  BY <1>1 DEF Receive, TypeOK
<1>9. QED
  BY <1>1, <1>2, <1>3, <1>5, <1>7, <1>8 DEF c

\* Every step keeps the types.
LEMMA TypeCorrect == TypeOK /\ [Next]_vars => TypeOK'
<1> SUFFICES ASSUME TypeOK, [Next]_vars PROVE TypeOK'
  OBVIOUS
<1> USE DEF TypeOK
<1>1. ASSUME NEW u \in Updaters, Updating(u), Watched PROVE TypeOK'
  <2>0. overlap' \in [Readers -> BOOLEAN]
    <3>1. reading' = reading
      BY <1>1 DEF Updating, Start, Fopen, FopenFails, Receive, PerformReturns, Fclose,
                  PrintUpdated, Crash, readerVars
    <3>2. QED
      BY <1>1, <3>1 DEF Watched
  <2>1. CASE Start(u)
    <3>1. runs'[u] \in 0 .. MaxRuns
      BY <2>1, SizeAssumption DEF Start
    <3>2. QED
      BY <2>0, <2>1, <3>1 DEF Start, readerVars, Goto, Files
  <2>2. CASE Fopen(u)
    BY <2>0, <2>2 DEF Fopen, readerVars, Goto
  <2>3. CASE FopenFails(u)
    BY <2>0, <2>3 DEF FopenFails, updaterVars, readerVars, Goto
  <2>4. CASE Receive(u)
    BY <2>0, <2>4, ReceiveEffect DEF Receive, readerVars
  <2>5. CASE PerformReturns(u)
    BY <2>0, <2>5 DEF PerformReturns, updaterVars, readerVars, Goto
  <2>6. CASE Fclose(u)
    BY <2>0, <2>6 DEF Fclose, updaterVars, readerVars, Goto
  <2>7. CASE PrintUpdated(u)
    BY <2>0, <2>7 DEF PrintUpdated, readerVars, Goto, Files
  <2>8. CASE Crash(u)
    BY <2>0, <2>8 DEF Crash, updaterVars, readerVars, Goto
  <2>9. QED
    BY <1>1, <2>1, <2>2, <2>3, <2>4, <2>5, <2>6, <2>7, <2>8 DEF Updating
<1>2. ASSUME NEW r \in Readers, ReadFirst(r) \/ ReadOn(r) \/ ReadEnd(r), Watched
      PROVE  TypeOK'
  <2>1. reading' \in [Readers -> BOOLEAN]
    BY <1>2 DEF ReadFirst, ReadOn, ReadEnd
  <2>2. overlap' \in [Readers -> BOOLEAN]
    BY <1>2, <2>1 DEF Watched
  <2>3. seen' \in [Readers -> Seq(Chunk)]
    <3>1. CASE ReadOn(r)
      <4>1. disk["db"] \in Seq(Chunk) /\ seen[r] \in Seq(Chunk)
        BY DEF Files
      <4>2. disk["db"][Len(seen[r]) + 1] \in Chunk
        BY <3>1, <4>1 DEF ReadOn
      <4>3. Append(seen[r], disk["db"][Len(seen[r]) + 1]) \in Seq(Chunk)
        BY <4>1, <4>2
      <4>4. QED
        BY <3>1, <4>3 DEF ReadOn
    <3>2. CASE ReadFirst(r)
      <4>1. << >> \in Seq(Chunk)
        OBVIOUS
      <4>2. QED
        BY <3>2, <4>1 DEF ReadFirst
    <3>3. CASE ReadEnd(r)
      BY <3>3 DEF ReadEnd
    <3>4. QED
      BY <1>2, <3>1, <3>2, <3>3
  <2>4. QED
    BY <1>2, <2>1, <2>2, <2>3 DEF ReadFirst, ReadOn, ReadEnd, updaterVars
<1>3. CASE UNCHANGED vars
  BY <1>3 DEF vars, updaterVars, readerVars
<1>4. QED
  BY <1>1, <1>2, <1>3 DEF Next
-----------------------------------------------------------------------------
\* Nothing that the explanation of file f looks at has changed.
LEMMA ExplainedFrame ==
  ASSUME NEW f \in Files, Explained(f), disk'[f] = disk[f], bad'[f] = bad[f],
         \A u \in Updaters : Performing(u, f)' <=> Performing(u, f),
         \A u \in Updaters : Performing(u, f) => pos'[u] = pos[u] /\ sent'[u] = sent[u]
  PROVE  Explained(f)'
<1>1. CASE bad[f]
  BY <1>1 DEF Explained
<1>2. CASE Untouched(f)
  BY <1>2 DEF Explained, Untouched, Whole
<1>3. CASE PageComes(f)
  BY <1>3 DEF Explained, PageComes
<1>4. CASE Filling(f)
  BY <1>4 DEF Explained, Filling
<1>5. QED
  BY <1>1, <1>2, <1>3, <1>4 DEF Explained

\* Truncating the file keeps it explained.
LEMMA ExplainedFopen ==
  ASSUME TypeOK, NEW u \in Updaters, Fopen(u), NEW f \in Files, Explained(f)
  PROVE  Explained(f)'
<1>1. CASE f = file[u]
  <2>1. disk'[f] = << >> /\ Performing(u, f)' /\ pos'[u] = 0
    BY <1>1 DEF Fopen, Goto, Performing, TypeOK
  <2>2. Filling(f)'
    BY <2>1, SizeAssumption DEF Filling, Versions
  <2>3. QED
    BY <2>2 DEF Explained
<1>2. CASE f # file[u]
  BY <1>2, ExplainedFrame DEF Fopen, Goto, Performing, TypeOK
<1>3. QED
  BY <1>1, <1>2

\* A write of one chunk keeps it explained.
LEMMA ExplainedReceive ==
  ASSUME TypeOK, NEW u \in Updaters, Receive(u), NEW f \in Files, Explained(f)
  PROVE  Explained(f)'
<1>1. \A v \in Updaters : (Performing(v, f)' <=> Performing(v, f)) /\ sent'[v] = sent[v]
  BY DEF Receive, Performing
<1>2. bad' = bad /\ pc[u] = "perform" /\ pos[u] < Size[sent[u]]
  BY DEF Receive
<1>3. CASE f # file[u]
  <2>1. disk'[f] = disk[f] /\ ~Performing(u, f)
    BY <1>3, ReceiveEffect DEF Performing
  <2>2. \A v \in Updaters : Performing(v, f) => pos'[v] = pos[v]
    BY <2>1, ReceiveEffect
  <2>3. QED
    BY <1>1, <1>2, <2>1, <2>2, ExplainedFrame
<1>4. CASE f = file[u] /\ bad[f]
  BY <1>2, <1>4 DEF Explained
<1>5. CASE f = file[u] /\ PageComes(f)
  BY <1>1, <1>5 DEF PageComes, Explained
<1>6. CASE f = file[u] /\ ~bad[f] /\ ~PageComes(f)
  <2>1. Performing(u, f)
    BY <1>2, <1>6 DEF Performing
  <2>2. sent[u] = "new" /\ Filling(f)
    BY <1>6, <2>1, ReceiveEffect DEF PageComes, Explained, Untouched
  <2>3. disk[f] \in Seq(Chunk) /\ pos[u] \in Nat
    BY <1>6, ReceiveEffect
  <2>4. Len(disk[f]) \in Nat /\ Size["new"] \in Nat
    BY <2>3, SizeAssumption DEF Versions
  <2>5. Len(disk'[f]) = (IF pos[u] < Len(disk[f]) THEN Len(disk[f]) ELSE pos[u] + 1)
    BY <1>6, ReceiveEffect
  <2>6. Len(disk'[f]) <= Size["new"]
    BY <1>2, <2>2, <2>3, <2>4, <2>5 DEF Filling
  <2>7. ASSUME NEW i \in 1 .. Size["new"]
        PROVE  \/ i <= Len(disk'[f]) /\ disk'[f][i] = <<"new", i>>
               \/ \E v \in Updaters : Performing(v, f)' /\ pos'[v] < i
    <3>1. \A k \in 1 .. Len(disk'[f]) :
            disk'[f][k] = IF k = pos[u] + 1 THEN <<"new", pos[u] + 1>>
                          ELSE IF k <= Len(disk[f]) THEN disk[f][k] ELSE Hole
      BY <1>6, <2>2, ReceiveEffect
    <3>2. CASE i = pos[u] + 1
      BY <2>3, <2>4, <2>5, <3>1, <3>2
    <3>3. CASE i # pos[u] + 1 /\ i <= Len(disk[f]) /\ disk[f][i] = <<"new", i>>
      BY <2>3, <2>4, <2>5, <3>1, <3>3
    <3>4. CASE i # pos[u] + 1 /\ \E v \in Updaters : Performing(v, f) /\ pos[v] < i
      <4>1. PICK v \in Updaters : Performing(v, f) /\ pos[v] < i
        BY <3>4
      <4>2. pos'[v] = IF v = u THEN pos[u] + 1 ELSE pos[v]
        BY ReceiveEffect
      <4>4. pos'[v] < i
        BY <2>3, <2>4, <3>4, <4>1, <4>2
      <4>3. QED
        BY <1>1, <4>1, <4>4
    <3>5. QED
      BY <2>2, <3>2, <3>3, <3>4 DEF Filling
  <2>8. QED
    BY <2>6, <2>7 DEF Filling, Explained
<1>7. QED
  BY <1>3, <1>4, <1>5, <1>6

\* A transfer that ends badly spoils the file; one that ends well leaves no
\* chunk for itself to write.
LEMMA ExplainedEnds ==
  ASSUME TypeOK, NEW u \in Updaters, PerformReturns(u) \/ Crash(u),
         NEW f \in Files, Explained(f)
  PROVE  Explained(f)'
<1>1. disk' = disk /\ pos' = pos /\ sent' = sent /\ file' = file
  BY DEF PerformReturns, Crash, updaterVars
<1>2. \A v \in Updaters : v # u => (Performing(v, f)' <=> Performing(v, f))
  BY DEF PerformReturns, Crash, updaterVars, Goto, Performing, TypeOK
<1>3. ~Performing(u, f)'
  BY DEF PerformReturns, Crash, updaterVars, Goto, Performing, TypeOK
<1>4. CASE ~Performing(u, f)
  <2>1. \A v \in Updaters : Performing(v, f)' <=> Performing(v, f)
    BY <1>2, <1>3, <1>4
  <2>2. bad'[f] = bad[f] \/ bad'[f]
    BY <1>4 DEF PerformReturns, Crash, Performing, TypeOK
  <2>3. CASE bad'[f]
    BY <2>3 DEF Explained
  <2>4. CASE bad'[f] = bad[f]
    BY <1>1, <2>1, <2>4, ExplainedFrame
  <2>5. QED
    BY <2>2, <2>3, <2>4
<1>5. CASE Performing(u, f) /\ bad'[f]
  BY <1>5 DEF Explained
<1>6. CASE Performing(u, f) /\ ~bad'[f]
  <2>1. /\ ~bad[f] /\ sent[u] = "new" /\ ~(pos[u] < Size["new"])
    BY <1>6 DEF PerformReturns, Crash, Performing, TypeOK
  <2>2. CASE PageComes(f)
    BY <1>1, <1>2, <2>1, <2>2 DEF PageComes, Explained
  <2>3. CASE Filling(f)
    <3>1. ASSUME NEW i \in 1 .. Size["new"], NEW v \in Updaters, Performing(v, f), pos[v] < i
          PROVE  v # u
      BY <2>1, <3>1, SizeAssumption DEF TypeOK, Versions
    <3>2. Filling(f)'
      BY <1>1, <1>2, <2>3, <3>1 DEF Filling
    <3>3. QED
      BY <3>2 DEF Explained
  <2>4. ~Untouched(f)
    BY <1>6 DEF Untouched
  <2>5. QED
    BY <2>1, <2>2, <2>3, <2>4 DEF Explained
<1>7. QED
  BY <1>4, <1>5, <1>6

\* Every step keeps the file explained by its writers.
LEMMA FileCorrect == UInv /\ [Next]_vars => FileInv'
<1> SUFFICES ASSUME TypeOK, FileInv, [Next]_vars, NEW f \in Files PROVE Explained(f)'
  BY DEF UInv, FileInv
<1>0. Explained(f)
  BY DEF FileInv
<1>1. ASSUME NEW u \in Updaters,
             Start(u) \/ FopenFails(u) \/ Fclose(u) \/ PrintUpdated(u)
      PROVE  Explained(f)'
  <2>1. disk' = disk /\ bad' = bad /\ pos' = pos /\ sent' = sent
    BY <1>1 DEF Start, FopenFails, Fclose, PrintUpdated, updaterVars
  <2>2. \A v \in Updaters : Performing(v, f)' <=> Performing(v, f)
    BY <1>1 DEF Start, FopenFails, Fclose, PrintUpdated, updaterVars, Goto, Performing, TypeOK
  <2>3. QED
    BY <1>0, <2>1, <2>2, ExplainedFrame
<1>2. CASE UNCHANGED <<disk, pc, updaterVars, bad>>
  BY <1>0, <1>2, ExplainedFrame DEF updaterVars, Performing
<1>3. ASSUME NEW r \in Readers, ReadFirst(r) \/ ReadOn(r) \/ ReadEnd(r)
      PROVE  UNCHANGED <<disk, pc, updaterVars, bad>>
  BY <1>3 DEF ReadFirst, ReadOn, ReadEnd
<1>4. QED
  BY <1>0, <1>1, <1>2, <1>3, ExplainedFopen, ExplainedReceive, ExplainedEnds
  DEF Next, Updating, vars

-----------------------------------------------------------------------------
\* The old content is gone before the first chunk is written.
LEMMA MixCorrect == UInv /\ [Next]_vars => OldGoneInv' /\ NoMix'
<1> SUFFICES ASSUME TypeOK, OldGoneInv, NoMix, [Next]_vars PROVE OldGoneInv' /\ NoMix'
  BY DEF UInv
<1>1. ASSUME NEW u \in Updaters, Receive(u) PROVE OldGoneInv' /\ NoMix'
  <2>1. \A i \in 1 .. Len(disk'[file[u]]) : disk'[file[u]][i][1] # "old"
    <3> SUFFICES ASSUME NEW i \in 1 .. Len(disk'[file[u]])
                 PROVE  disk'[file[u]][i][1] # "old"
      OBVIOUS
    <3>1. \A k \in 1 .. Len(disk[file[u]]) : disk[file[u]][k][1] # "old"
      BY <1>1 DEF OldGoneInv, Receive
    <3>2. CASE i = pos[u] + 1
      <4>1. disk'[file[u]][i] = <<sent[u], pos[u] + 1>> /\ sent[u] \in {"new", "page"}
        BY <1>1, <3>2, ReceiveEffect
      <4>2. QED
        BY <4>1
    <3>3. CASE i # pos[u] + 1 /\ i <= Len(disk[file[u]])
      <4>1. disk'[file[u]][i] = disk[file[u]][i] /\ pos[u] \in Nat
            /\ disk[file[u]] \in Seq(Chunk)
        BY <1>1, <3>3, ReceiveEffect
      <4>2. i \in 1 .. Len(disk[file[u]])
        BY <3>3, <4>1
      <4>3. QED
        BY <3>1, <4>1, <4>2
    <3>4. CASE i # pos[u] + 1 /\ ~(i <= Len(disk[file[u]]))
      <4>1. disk'[file[u]][i] = Hole
        BY <1>1, <3>4, ReceiveEffect
      <4>2. QED
        BY <4>1 DEF Hole
    <3>5. QED
      BY <3>2, <3>3, <3>4
  <2>2. \A f \in Files : f # file[u] => disk'[f] = disk[f]
    BY <1>1, ReceiveEffect
  <2>3. pc' = pc /\ file' = file
    BY <1>1 DEF Receive
  <2>4. OldGoneInv'
    <3> SUFFICES ASSUME NEW v \in Updaters, pc[v] = "perform",
                        NEW i \in 1 .. Len(disk'[file[v]])
                 PROVE  disk'[file[v]][i][1] # "old"
      BY <2>3 DEF OldGoneInv
    <3>1. CASE file[v] = file[u]
      BY <2>1, <3>1
    <3>2. CASE file[v] # file[u]
      <4>1. disk'[file[v]] = disk[file[v]]
        BY <2>2, <3>2 DEF TypeOK
      <4>2. QED
        BY <4>1 DEF OldGoneInv
    <3>3. QED
      BY <3>1, <3>2
  <2>5. NoMix'
    BY <2>1, <2>2 DEF NoMix
  <2>6. QED
    BY <2>4, <2>5
<1>2. ASSUME NEW u \in Updaters, Fopen(u) PROVE OldGoneInv' /\ NoMix'
  <2>1. /\ \A f \in Files : disk'[f] = IF f = file[u] THEN << >> ELSE disk[f]
        /\ file' = file /\ \A v \in Updaters : v # u => pc'[v] = pc[v]
    BY <1>2 DEF Fopen, Goto, TypeOK
  <2>2. ASSUME NEW f \in Files, NEW i \in 1 .. Len(disk'[f])
        PROVE  f # file[u] /\ disk'[f] = disk[f]
    BY <2>1, <2>2
  <2>3. NoMix'
    BY <2>2 DEF NoMix
  <2>4. OldGoneInv'
    <3> SUFFICES ASSUME NEW v \in Updaters, pc'[v] = "perform",
                        NEW i \in 1 .. Len(disk'[file[v]])
                 PROVE  disk'[file[v]][i][1] # "old"
      BY <2>1 DEF OldGoneInv
    <3>1. file[v] # file[u] /\ disk'[file[v]] = disk[file[v]]
      BY <2>2 DEF TypeOK
    <3>2. pc[v] = "perform"
      BY <2>1, <3>1
    <3>3. QED
      BY <3>1, <3>2 DEF OldGoneInv
  <2>5. QED
    BY <2>3, <2>4
<1>3. ASSUME disk' = disk,
             \A v \in Updaters : pc'[v] = "perform" => pc[v] = "perform" /\ file'[v] = file[v]
      PROVE  OldGoneInv' /\ NoMix'
  BY <1>3 DEF OldGoneInv, NoMix
<1>4. ASSUME NEW u \in Updaters,
             \/ Start(u) \/ FopenFails(u) \/ PerformReturns(u) \/ Fclose(u)
             \/ PrintUpdated(u) \/ Crash(u)
      PROVE  /\ disk' = disk
             /\ \A v \in Updaters : pc'[v] = "perform" =>
                  pc[v] = "perform" /\ file'[v] = file[v]
  BY <1>4 DEF Start, FopenFails, PerformReturns, Fclose, PrintUpdated, Crash, updaterVars,
              Goto, TypeOK
<1>5. ASSUME NEW r \in Readers, ReadFirst(r) \/ ReadOn(r) \/ ReadEnd(r)
      PROVE  disk' = disk /\ pc' = pc /\ file' = file
  BY <1>5 DEF ReadFirst, ReadOn, ReadEnd, updaterVars
<1>6. QED
  BY <1>1, <1>2, <1>3, <1>4, <1>5 DEF Next, Updating, vars, updaterVars

-----------------------------------------------------------------------------
\* A step that leaves a quiet reader quiet leaves the database alone.
LEMMA QuietStep ==
  ASSUME TypeOK, NEW u \in Updaters, Updating(u), ~Writing("db"), ~Writing("db")'
  PROVE  disk'["db"] = disk["db"]
<1>1. CASE Fopen(u)
  <2>1. file[u] # "db"
    BY <1>1 DEF Fopen, Goto, Writing, TypeOK
  <2>2. QED
    BY <1>1, <2>1 DEF Fopen, TypeOK, Files
<1>2. CASE Receive(u)
  <2>1. file[u] # "db"
    BY <1>2 DEF Receive, Writing
  <2>2. QED
    BY <1>2, <2>1, ReceiveEffect DEF Files
<1>3. CASE ~(Fopen(u) \/ Receive(u))
  BY <1>3 DEF Updating, Start, FopenFails, PerformReturns, Fclose, PrintUpdated, Crash
<1>4. QED
  BY <1>1, <1>2, <1>3

\* Every step keeps what a reader has seen a prefix of a version.
LEMMA PrefixCorrect == UInv /\ [Next]_vars => PrefixInv'
<1> SUFFICES ASSUME TypeOK, PrefixInv, [Next]_vars,
                    NEW r \in Readers, reading'[r], ~overlap'[r]
             PROVE  /\ ~Writing("db")' /\ ~bad'["db"]
                    /\ Len(seen'[r]) <= Len(disk'["db"])
                    /\ \A i \in 1 .. Len(seen'[r]) : seen'[r][i] = disk'["db"][i]
  BY DEF UInv, PrefixInv
<1>1. ASSUME Watched
      PROVE  ~overlap[r] /\ ~Writing("db")' /\ ~bad'["db"]
  BY <1>1 DEF Watched
<1>2. ASSUME NEW u \in Updaters, Updating(u), Watched
      PROVE  /\ ~Writing("db")' /\ ~bad'["db"]
             /\ Len(seen'[r]) <= Len(disk'["db"])
             /\ \A i \in 1 .. Len(seen'[r]) : seen'[r][i] = disk'["db"][i]
  <2>1. reading' = reading /\ seen' = seen
    BY <1>2 DEF Updating, Start, Fopen, FopenFails, Receive, PerformReturns, Fclose,
                PrintUpdated, Crash, readerVars
  <2>2. disk'["db"] = disk["db"]
    BY <1>1, <1>2, <2>1, QuietStep DEF PrefixInv
  <2>3. QED
    BY <1>1, <1>2, <2>1, <2>2 DEF PrefixInv
<1>3. ASSUME NEW q \in Readers, ReadFirst(q) \/ ReadOn(q) \/ ReadEnd(q), Watched
      PROVE  /\ ~Writing("db")' /\ ~bad'["db"]
             /\ Len(seen'[r]) <= Len(disk'["db"])
             /\ \A i \in 1 .. Len(seen'[r]) : seen'[r][i] = disk'["db"][i]
  <2>1. disk' = disk
    BY <1>3 DEF ReadFirst, ReadOn, ReadEnd
  <2>2. disk["db"] \in Seq(Chunk) /\ seen[r] \in Seq(Chunk)
    BY DEF TypeOK, Files
  <2>3. CASE q = r /\ ReadFirst(r)
    BY <1>1, <1>3, <2>1, <2>2, <2>3 DEF ReadFirst, TypeOK
  <2>4. CASE q = r /\ ReadOn(r)
    <3>1. seen'[r] = Append(seen[r], disk["db"][Len(seen[r]) + 1])
      BY <2>4 DEF ReadOn, TypeOK
    <3>2. disk["db"][Len(seen[r]) + 1] \in Chunk
      BY <2>2, <2>4 DEF ReadOn
    <3>3. Len(seen'[r]) = Len(seen[r]) + 1
      BY <2>2, <3>1, <3>2
    <3>4. \A i \in 1 .. Len(seen[r]) : seen[r][i] = disk["db"][i]
      BY <1>1, <1>3, <2>4 DEF PrefixInv, ReadOn
    <3>5. \A i \in 1 .. Len(seen'[r]) : seen'[r][i] = disk["db"][i]
      BY <2>2, <3>1, <3>2, <3>3, <3>4
    <3>6. QED
      BY <1>1, <1>3, <2>1, <2>2, <2>4, <3>3, <3>5 DEF ReadOn
  <2>5. CASE q = r /\ ReadEnd(r)
    BY <2>5 DEF ReadEnd, TypeOK
  <2>6. CASE q # r
    <3>1. seen'[r] = seen[r] /\ reading'[r] = reading[r]
      BY <1>3, <2>6 DEF ReadFirst, ReadOn, ReadEnd, TypeOK
    <3>2. QED
      BY <1>1, <1>3, <2>1, <3>1 DEF PrefixInv
  <2>7. QED
    BY <1>3, <2>3, <2>4, <2>5, <2>6
<1>4. CASE UNCHANGED vars
  BY <1>4 DEF PrefixInv, Writing, vars, updaterVars, readerVars
<1>5. QED
  BY <1>2, <1>3, <1>4 DEF Next

-----------------------------------------------------------------------------
\* The invariant holds before the first update.
LEMMA InitCorrect == Init => UInv
<1> SUFFICES ASSUME Init PROVE UInv
  OBVIOUS
<1>1. Whole("old") \in Seq(Chunk) /\ Len(Whole("old")) = Size["old"]
      /\ \A i \in 1 .. Size["old"] : Whole("old")[i] = <<"old", i>>
  BY WholeIsFile DEF Versions
<1>2. << >> \in Seq(Chunk) /\ 0 \in 0 .. MaxRuns
  BY SizeAssumption
<1>3. TypeOK
  BY <1>1, <1>2 DEF Init, TypeOK, Files
<1>4. FileInv
  BY DEF Init, FileInv, Explained, Untouched, Performing
<1>5. OldGoneInv /\ PrefixInv
  BY DEF Init, OldGoneInv, PrefixInv
<1>6. \A f \in Files : \A i \in 1 .. Len(disk[f]) : disk[f][i][1] = "old"
  BY <1>1 DEF Init
<1>7. QED
  BY <1>3, <1>4, <1>5, <1>6 DEF UInv, NoMix

\* Every step preserves the explanation of what is on the disk (main.c:80-131).
THEOREM UpdateInvariance == Spec => []UInv
<1>1. UInv /\ [Next]_vars => UInv'
  BY TypeCorrect, FileCorrect, MixCorrect, PrefixCorrect DEF UInv
<1>2. QED
  BY <1>1, InitCorrect, PTL DEF Spec

\* The invariant gives the property the runs check.
LEMMA InvariantImpliesWhole == UInv => WholeUnlessBad
<1> SUFFICES ASSUME TypeOK, FileInv, NEW f \in Files, ~Writing(f), ~bad[f]
             PROVE  disk[f] \in {Whole("old"), Whole("new")}
  BY DEF UInv, WholeUnlessBad
<1>1. \A u \in Updaters : ~Performing(u, f)
  BY DEF Writing, Performing
<1>2. CASE Untouched(f)
  BY <1>2 DEF Untouched
<1>3. CASE Filling(f)
  <2>1. disk[f] \in Seq(Chunk) /\ Size["new"] \in Nat
    BY SizeAssumption DEF TypeOK, Versions
  <2>2. \A i \in 1 .. Size["new"] : i <= Len(disk[f]) /\ disk[f][i] = <<"new", i>>
    BY <1>1, <1>3 DEF Filling
  <2>3. Len(disk[f]) = Size["new"]
    BY <1>3, <2>1, <2>2 DEF Filling
  <2>4. disk[f] = Whole("new")
    <3>1. disk[f] = [i \in 1 .. Len(disk[f]) |-> disk[f][i]]
      BY <2>1
    <3>2. QED
      BY <2>2, <2>3, <3>1 DEF Whole
  <2>5. QED
    BY <2>4
<1>4. QED
  BY <1>1, <1>2, <1>3 DEF FileInv, Explained, PageComes

\* However many updaters overlap, fail, crash and are run again, a file that
\* nobody writes is whole, old or new, unless it was spoilt since its last
\* truncation: running -update to a good end repairs it (main.c:97-104).
THEOREM UpdateRepairs == Spec => []WholeUnlessBad
<1>1. QED
  BY UpdateInvariance, InvariantImpliesWhole, PTL

\* Old and new content never share a file (main.c:97, 117).
THEOREM NeverMixed == Spec => []NoMix
<1>1. UInv => NoMix
  BY DEF UInv
<1>2. QED
  BY <1>1, UpdateInvariance, PTL

\* A scan that overlaps no update reads the database of one version, whole
\* (scan.c:53, main.c:97).
THEOREM QuietScanIsWhole == Spec => []QuietPassIsWhole
<1>1. UInv => QuietPassIsWhole
  <2> SUFFICES ASSUME UInv, NEW r \in Readers, AtEnd(r), ~overlap[r]
               PROVE  seen[r] \in {Whole("old"), Whole("new")}
    BY DEF QuietPassIsWhole
  <2>1. seen[r] \in Seq(Chunk) /\ disk["db"] \in Seq(Chunk)
    BY DEF UInv, TypeOK, Files
  <2>2. /\ ~Writing("db") /\ ~bad["db"] /\ Len(seen[r]) = Len(disk["db"])
        /\ \A i \in 1 .. Len(seen[r]) : seen[r][i] = disk["db"][i]
    BY <2>1 DEF UInv, PrefixInv, AtEnd
  <2>3. seen[r] = disk["db"]
    BY <2>1, <2>2
  <2>4. QED
    BY <2>2, <2>3, InvariantImpliesWhole DEF WholeUnlessBad, Files
<1>2. QED
  BY <1>1, UpdateInvariance, PTL
=============================================================================
