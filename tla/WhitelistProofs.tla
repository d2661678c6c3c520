-------------------------- MODULE WhitelistProofs --------------------------
(***************************************************************************)
(* The search of the whitelist, for lists, lines and hashes of any length:  *)
(* chunk by chunk, no line that begins with the hash is passed over and no  *)
(* rest of a line is taken for one.                                         *)
(***************************************************************************)
EXTENDS Whitelist, SequenceTheorems, WellFoundedInduction, TLAPS

\* Line k begins with the hash in check.
Matches(k) ==
  /\ LineStart(k) /\ k + CompLength - 1 <= Len(list)
  /\ \A i \in 1 .. CompLength : list[k + i - 1] = check[i]

\* The stream stands before a line, or before the rest of a line whose first
\* chunk had no newline: too short to be taken for a hash.
AtLine == LineStart(pos + 1)
AtRest ==
  \/ Len(list) < pos + CompLength
  \/ \E j \in pos + 1 .. pos + CompLength : j <= Len(list) /\ list[j] = Newline

\* The hash that is searched is the file's, and begins no line that was read.
SearchInv ==
  /\ list \in Lists /\ path \in Paths /\ check \in Sha \union {<<>>}
  /\ pos \in 0 .. Len(list) /\ out \in {0, 1} /\ pc \in {"return", "hash", "search"}
  /\ pc = "hash" => pos = 0
  /\ (pc = "search" \/ (pc = "return" /\ pos > 0)) /\ Plain(path) => check = Content[path]
  /\ pc = "search" /\ LinesFit /\ check \in Sha =>
       /\ AtLine \/ AtRest
       /\ \A k \in 1 .. pos : ~Matches(k)
  /\ pc = "return" /\ pos > 0 /\ LinesFit /\ Plain(path) =>
       (out = 1 <=> \E k \in 1 .. Len(list) : Matches(k))
-----------------------------------------------------------------------------
\* A non-empty set of naturals has a least element.
LEMMA LeastElement ==
  ASSUME NEW T \in SUBSET Nat, T # {}
  PROVE  \E n \in T : \A m \in T : n <= m
<1>1. PICK n \in T : \A m \in T : ~ (<<m, n>> \in OpToRel(<, Nat))
  BY NatLessThanWellFounded, WFMin
<1>2. \A m \in T : ~ (m < n)
  BY <1>1 DEF OpToRel
<1>3. QED
  BY <1>2

\* A part of a sequence, and its characters.
LEMMA PartOf ==
  ASSUME NEW S, NEW s \in Seq(S), NEW a \in Nat, NEW l \in Nat, a + l <= Len(s)
  PROVE  /\ SubSeq(s, a + 1, a + l) \in [1 .. l -> S]
         /\ Len(SubSeq(s, a + 1, a + l)) = l
         /\ \A i \in 1 .. l : SubSeq(s, a + 1, a + l)[i] = s[a + i]
<1> DEFINE r == SubSeq(s, a + 1, a + l)
<1>1. \A i \in a + 1 .. a + l : s[i] \in S
  BY Len(s) \in Nat
<1>2. /\ r \in Seq(S)
      /\ Len(r) = IF a + 1 <= a + l THEN a + l - (a + 1) + 1 ELSE 0
      /\ \A i \in 1 .. a + l - (a + 1) + 1 : r[i] = s[a + 1 + i - 1]
  BY <1>1, SubSeqProperties
<1> HIDE DEF r
<1>3. Len(r) = l
  BY <1>2
<1>4. ASSUME NEW i \in 1 .. l PROVE r[i] = s[a + i]
  <2>1. i \in 1 .. a + l - (a + 1) + 1 /\ a + 1 + i - 1 = a + i
    OBVIOUS
  <2>2. QED
    BY <1>2, <2>1
<1>5. r \in [1 .. l -> S]
  BY <1>2, <1>3
<1>6. QED
  BY <1>3, <1>4, <1>5 DEF r

\* fgets stops at the first newline, at the end of the list, or when the buffer
\* is full.
LEMMA ChunkEnds ==
  ASSUME list \in Seq(Digit \union {Newline}), pos \in Nat, pos < Len(list)
  PROVE  LET e == ChunkEnd(ShaLength + 1)
         IN  /\ e \in pos + 1 .. Len(list) /\ e <= pos + CompLength + 1
             /\ \A k \in pos + 1 .. e - 1 : list[k] # Newline
             /\ list[e] = Newline \/ e = Len(list) \/ e = pos + CompLength + 1
             /\ Len(Chunk) = e - pos
             /\ \A i \in 1 .. e - pos : Chunk[i] = list[pos + i]
<1> DEFINE e == ChunkEnd(ShaLength + 1)
           size == ShaLength + 1
           last == IF pos + size - 1 < Len(list) THEN pos + size - 1 ELSE Len(list)
           ends == {k \in pos + 1 .. last : list[k] = Newline \/ k = last}
<1>1. /\ CompLength \in Nat \ {0} /\ Len(list) \in Nat
      /\ size = CompLength + 2
  BY ListAssumption DEF ShaLength
<1>2. last \in pos + 1 .. Len(list) /\ last <= pos + CompLength + 1
      /\ (last = Len(list) \/ last = pos + CompLength + 1)
  BY <1>1
<1>3. e = CHOOSE k \in ends : \A j \in ends : k <= j
  BY DEF ChunkEnd
<1> HIDE DEF size, last, e
<1>4. e \in ends /\ \A j \in ends : e <= j
  <2>1. ends \in SUBSET Nat /\ last \in ends
    BY <1>1, <1>2
  <2>2. \E k \in ends : \A j \in ends : k <= j
    BY <2>1, LeastElement
  <2>3. QED
    BY <1>3, <2>2
<1>5. ASSUME NEW k \in pos + 1 .. e - 1 PROVE list[k] # Newline
  <2>1. k \in pos + 1 .. last /\ ~(e <= k)
    BY <1>1, <1>2, <1>4
  <2>2. QED
    BY <1>4, <2>1
<1>6. /\ e \in pos + 1 .. Len(list) /\ e <= pos + CompLength + 1
      /\ list[e] = Newline \/ e = Len(list) \/ e = pos + CompLength + 1
  BY <1>1, <1>2, <1>4
<1>7. /\ Len(SubSeq(list, pos + 1, e)) = e - pos
      /\ \A i \in 1 .. e - pos : SubSeq(list, pos + 1, e)[i] = list[pos + i]
  <2>1. PICK l \in Nat : pos + l = e /\ l = e - pos
    <3>1. e - pos \in Nat /\ pos + (e - pos) = e
      BY <1>6
    <3>2. QED
      BY <3>1
  <2>2. pos + l <= Len(list)
    BY <1>1, <1>6, <2>1
  <2>3. /\ Len(SubSeq(list, pos + 1, pos + l)) = l
        /\ \A i \in 1 .. l : SubSeq(list, pos + 1, pos + l)[i] = list[pos + i]
    BY <1>1, <2>2, PartOf
  <2>4. QED
    BY <2>1, <2>3
<1>8. QED
  BY <1>5, <1>6, <1>7 DEF Chunk, e

\* strncmp finds the hash at the head of a chunk that is long enough.
LEMMA SameMeans ==
  ASSUME list \in Seq(Digit \union {Newline}), pos \in Nat, pos < Len(list), check \in Sha
  PROVE  SameHash(Chunk, check) <=>
           /\ Len(Chunk) >= CompLength
           /\ \A i \in 1 .. CompLength : list[pos + i] = check[i]
<1>1. CompLength \in Nat \ {0} /\ Len(list) \in Nat
  BY ListAssumption
<1>2. Len(check) = CompLength
  BY <1>1 DEF Sha
<1>3. PICK n \in Nat : Len(Chunk) = n /\ \A i \in 1 .. n : Chunk[i] = list[pos + i]
  <2>1. ChunkEnd(ShaLength + 1) - pos \in Nat
    BY <1>1, ChunkEnds
  <2>2. QED
    BY <2>1, ChunkEnds
<1>4. (\A k \in 1 .. CompLength : (k <= n) = (k <= CompLength)) <=> n >= CompLength
  BY <1>1
<1>5. QED
  BY <1>1, <1>2, <1>3, <1>4 DEF SameHash

\* The reference definition, character by character.
LEMMA OnListMeans ==
  ASSUME list \in Seq(Digit \union {Newline}), check \in Sha
  PROVE  OnList(check) <=> \E k \in 1 .. Len(list) : Matches(k)
<1>1. CompLength \in Nat \ {0} /\ Len(list) \in Nat
  BY ListAssumption
<1>2. ASSUME NEW k \in 1 .. Len(list), k + CompLength - 1 <= Len(list)
      PROVE  SubSeq(list, k, k + CompLength - 1) = check <=>
               \A i \in 1 .. CompLength : list[k + i - 1] = check[i]
  <2>1. PICK a \in Nat : a + 1 = k
    <3>1. k - 1 \in Nat /\ (k - 1) + 1 = k
      BY <1>1
    <3>2. QED
      BY <3>1
  <2>2. a + CompLength <= Len(list) /\ k + CompLength - 1 = a + CompLength
    BY <1>1, <1>2, <2>1
  <2> DEFINE r == SubSeq(list, a + 1, a + CompLength)
  <2>3. /\ r \in [1 .. CompLength -> Digit \union {Newline}]
        /\ \A i \in 1 .. CompLength : r[i] = list[a + i]
    BY <1>1, <2>2, PartOf
  <2> HIDE DEF r
  <2>4. r = check <=> \A i \in 1 .. CompLength : r[i] = check[i]
    <3>1. check \in [1 .. CompLength -> Digit]
      BY DEF Sha
    <3>2. ASSUME \A i \in 1 .. CompLength : r[i] = check[i] PROVE r = check
      <4>1. /\ r = [i \in 1 .. CompLength |-> r[i]]
            /\ check = [i \in 1 .. CompLength |-> check[i]]
        BY <2>3, <3>1
      <4>2. QED
        BY <3>2, <4>1, Zenon
    <3>3. QED
      BY <3>2
  <2>5. \A i \in 1 .. CompLength : k + i - 1 = a + i
    BY <1>1, <2>1
  <2>6. SubSeq(list, k, k + CompLength - 1) = r
    BY <2>1, <2>2 DEF r
  <2>7. QED
    BY <2>3, <2>4, <2>5, <2>6
<1>3. \A k : k \in 1 .. Len(list) - CompLength + 1 <=>
               k \in 1 .. Len(list) /\ k + CompLength - 1 <= Len(list)
  BY <1>1
<1>4. QED
  BY <1>2, <1>3 DEF OnList, Matches
-----------------------------------------------------------------------------
\* With lines of at most twice the length of a hash, the next chunk is taken for
\* the hash exactly when it begins a line with it, and leaves the stream before
\* a line or the short rest of one (whitelist.c:43-46).
LEMMA ChunkDecides ==
  ASSUME list \in Seq(Digit \union {Newline}), pos \in Nat, pos < Len(list), check \in Sha,
         LinesFit, AtLine \/ AtRest
  PROVE  /\ SameHash(Chunk, check) <=> Matches(pos + 1)
         /\ \A k \in pos + 2 .. pos + Len(Chunk) : ~Matches(k)
         /\ pos + Len(Chunk) <= Len(list) /\ Len(Chunk) \in Nat \ {0}
         /\ LET p == pos + Len(Chunk)
            IN  \/ list[p] = Newline
                \/ Len(list) < p + CompLength
                \/ \E j \in p + 1 .. p + CompLength : j <= Len(list) /\ list[j] = Newline
<1> DEFINE c == CompLength
           e == ChunkEnd(ShaLength + 1)
<1>1. /\ c \in Nat \ {0} /\ Len(list) \in Nat /\ Newline \notin Digit
      /\ \A i \in 1 .. c : check[i] \in Digit
  BY ListAssumption DEF Sha
<1>2. /\ e \in pos + 1 .. Len(list) /\ e <= pos + c + 1
      /\ \A k \in pos + 1 .. e - 1 : list[k] # Newline
      /\ list[e] = Newline \/ e = Len(list) \/ e = pos + c + 1
      /\ Len(Chunk) = e - pos
  BY ChunkEnds
<1> HIDE DEF c, e
<1>3. SameHash(Chunk, check) <=>
        e - pos >= c /\ \A i \in 1 .. c : list[pos + i] = check[i]
  BY <1>2, SameMeans DEF c
<1>4. pos + Len(Chunk) = e /\ Len(Chunk) \in Nat \ {0} /\ e <= Len(list)
  BY <1>1, <1>2
<1>5. ASSUME NEW k \in pos + 2 .. e PROVE ~Matches(k)
  <2>1. k - 1 \in pos + 1 .. e - 1 /\ k # 1
    BY <1>1, <1>2
  <2>2. QED
    BY <1>2, <2>1 DEF Matches, LineStart
<1>6. ASSUME Matches(pos + 1) PROVE SameHash(Chunk, check)
  <2>1. /\ pos + c <= Len(list)
        /\ \A i \in 1 .. c : list[pos + i] = check[i]
    <3>1. /\ (pos + 1) + c - 1 <= Len(list)
          /\ \A i \in 1 .. c : list[(pos + 1) + i - 1] = check[i]
      BY <1>6 DEF Matches, c
    <3>2. \A i \in 1 .. c : (pos + 1) + i - 1 = pos + i
      BY <1>1
    <3>3. QED
      BY <1>1, <3>1, <3>2
  <2>2. e - pos >= c
    <3> SUFFICES ASSUME e - pos < c PROVE FALSE
      BY <1>1, <1>2
    <3>1. e - pos \in 1 .. c /\ pos + (e - pos) = e /\ list[e] = Newline
      BY <1>1, <1>2, <2>1
    <3>2. QED
      BY <1>1, <2>1, <3>1
  <2>3. QED
    BY <1>3, <2>1, <2>2
<1>7. ASSUME SameHash(Chunk, check) PROVE Matches(pos + 1)
  <2>1. e - pos >= c /\ \A i \in 1 .. c : list[pos + i] = check[i] /\ check[i] \in Digit
    BY <1>1, <1>3, <1>7
  <2>2. ~AtRest
    <3>1. ~(Len(list) < pos + c)
      BY <1>1, <1>2, <2>1
    <3>2. ASSUME NEW j \in pos + 1 .. pos + c PROVE list[j] # Newline
      <4>1. j - pos \in 1 .. c /\ pos + (j - pos) = j
        BY <1>1
      <4>2. QED
        BY <1>1, <2>1, <4>1
    <3>3. QED
      BY <3>1, <3>2 DEF AtRest, c
  <2>3. (pos + 1) + c - 1 <= Len(list)
    BY <1>1, <1>2, <2>1
  <2>4. \A i \in 1 .. c : (pos + 1) + i - 1 = pos + i
    BY <1>1
  <2>5. QED
    BY <2>1, <2>2, <2>3, <2>4 DEF Matches, AtLine, c
<1>8. \/ list[e] = Newline
      \/ Len(list) < e + c
      \/ \E j \in e + 1 .. e + c : j <= Len(list) /\ list[j] = Newline
  <2> SUFFICES ASSUME list[e] # Newline, e + c <= Len(list)
               PROVE  \E j \in e + 1 .. e + c : j <= Len(list) /\ list[j] = Newline
    BY <1>1, <1>2
  <2>1. e = pos + c + 1 /\ \A k \in pos + 1 .. e : list[k] # Newline
    <3>1. e # Len(list)
      BY <1>1
    <3>2. e = pos + c + 1
      BY <1>2, <3>1
    <3>3. ASSUME NEW k \in pos + 1 .. e PROVE k \in pos + 1 .. e - 1 \/ k = e
      BY <1>1, <3>2
    <3>4. QED
      BY <1>2, <3>2, <3>3
  <2>2. CASE pos + 1 <= Len(list) - 2 * c
    <3>1. \A k \in 1 .. Len(list) - 2 * c : \E j \in k .. k + 2 * c : list[j] = Newline
      BY DEF LinesFit, c
    <3>2. pos + 1 \in 1 .. Len(list) - 2 * c
      BY <1>1, <2>2
    <3>3. PICK j \in pos + 1 .. pos + 1 + 2 * c : list[j] = Newline
      BY <3>1, <3>2
    <3>4. j \in e + 1 .. e + c /\ j <= Len(list)
      BY <1>1, <2>1, <2>2, <3>3
    <3>5. QED
      BY <3>3, <3>4
  <2>3. CASE ~(pos + 1 <= Len(list) - 2 * c)
    BY <1>1, <2>1, <2>3
  <2>4. QED
    BY <2>2, <2>3
<1>9. QED
  BY <1>4, <1>5, <1>6, <1>7, <1>8 DEF c

\* Before each check the types hold and nothing else is known.
LEMMA CallKeeps ==
  ASSUME SearchInv, NEW p \in Paths, Call(p)
  PROVE  SearchInv'
<1>1. /\ pc' = "hash" /\ pos' = 0 /\ path' = p
      /\ UNCHANGED <<list, check, out>>
  BY DEF Call
<1>2. Len(list) \in Nat
  BY ListAssumption DEF SearchInv
<1>3. QED
  BY <1>1, <1>2 DEF SearchInv

\* fgets(check, SHA_LENGTH, hash) (whitelist.c:35): the hash of a path that the
\* shell does not split is that of its file.
LEMMA HashKeeps ==
  ASSUME SearchInv, HashFile
  PROVE  SearchInv'
<1>1. /\ pc = "hash" /\ pc' = "search" /\ pos = 0
      /\ UNCHANGED <<list, path, pos, out>>
  BY DEF HashFile, SearchInv
<1>2. path \in Paths /\ path \in DOMAIN Content
      /\ path \in Seq({path[k] : k \in DOMAIN path})
      /\ \A k \in DOMAIN path : <<path[k]>> \in DOMAIN Content
  BY ListAssumption DEF SearchInv
<1>3. check' \in Sha \union {<<>>}
  BY <1>2, ListAssumption DEF HashFile, Hashed, SearchInv
<1>4. ASSUME Plain(path) PROVE check' = Content[path]
  <2>1. Len(path) = 1 /\ Content[path] # <<>>
    BY <1>4 DEF Plain
  <2>2. DOMAIN path = {1} /\ path = <<path[1]>>
    BY <1>2, <2>1
  <2>3. Hashed(path) = {1}
    BY <2>1, <2>2 DEF Hashed
  <2>4. QED
    BY <2>2, <2>3 DEF HashFile
<1>5. AtLine' /\ 1 .. pos' = {}
  BY <1>1 DEF AtLine, LineStart
<1>6. QED
  BY <1>1, <1>3, <1>4, <1>5 DEF SearchInv, Plain

\* fgets(whCheck, SHA_LENGTH + 1, wh) and strncmp (whitelist.c:43-46).
LEMMA NextKeeps ==
  ASSUME SearchInv, NextEntry
  PROVE  SearchInv'
<1>1. /\ pc = "search" /\ pos < Len(list) /\ pos' = pos + Len(Chunk)
      /\ UNCHANGED <<list, path, check>>
      /\ \/ SameHash(Chunk, check) /\ out' = 1 /\ pc' = "return"
         \/ ~SameHash(Chunk, check) /\ out' = out /\ pc' = "search"
  BY DEF NextEntry
<1>2. /\ list \in Lists /\ path \in Paths /\ check \in Sha \union {<<>>}
      /\ pos \in Nat /\ out \in {0, 1} /\ list \in Seq(Digit \union {Newline})
      /\ CompLength \in Nat \ {0} /\ Len(list) \in Nat
      /\ Plain(path) => check = Content[path]
      /\ Plain(path) => check \in Sha
  BY <1>1, ListAssumption DEF SearchInv, Plain
<1>3. pos + Len(Chunk) <= Len(list) /\ Len(Chunk) \in Nat \ {0}
  BY <1>1, <1>2, ChunkEnds
<1>4. pos' \in 0 .. Len(list) /\ pos' > 0 /\ (pos' + 1) - 1 = pos'
  BY <1>1, <1>2, <1>3
<1>5. CASE ~(LinesFit /\ check \in Sha)
  <2>1. ~(LinesFit' /\ check' \in Sha)
    BY <1>1, <1>5 DEF LinesFit
  <2>2. ~(LinesFit' /\ Plain(path'))
    BY <1>1, <1>2, <2>1
  <2>3. QED
    BY <1>1, <1>2, <1>4, <2>1, <2>2 DEF SearchInv, Plain
<1>6. CASE LinesFit /\ check \in Sha
  <2>1. (AtLine \/ AtRest) /\ \A k \in 1 .. pos : ~Matches(k)
    BY <1>1, <1>6 DEF SearchInv
  <2>2. /\ SameHash(Chunk, check) <=> Matches(pos + 1)
        /\ \A k \in pos + 2 .. pos' : ~Matches(k)
        /\ \/ list[pos'] = Newline
           \/ Len(list) < pos' + CompLength
           \/ \E j \in pos' + 1 .. pos' + CompLength : j <= Len(list) /\ list[j] = Newline
    BY <1>1, <1>2, <1>6, <2>1, ChunkDecides
  <2>3. \A k : Matches(k)' <=> Matches(k)
    BY <1>1 DEF Matches, LineStart
  <2>4. CASE SameHash(Chunk, check)
    <3>1. Matches(pos + 1) /\ pos + 1 \in 1 .. Len(list)
      BY <1>1, <1>2, <2>2, <2>4
    <3>2. \E k \in 1 .. Len(list') : Matches(k)'
      BY <1>1, <2>3, <3>1
    <3>3. QED
      BY <1>1, <1>2, <1>4, <2>4, <3>2 DEF SearchInv, Plain
  <2>5. CASE ~SameHash(Chunk, check)
    <3>1. \A k \in 1 .. pos' : k \in 1 .. pos \/ k = pos + 1 \/ k \in pos + 2 .. pos'
      BY <1>2, <1>4
    <3>2. \A k \in 1 .. pos' : ~Matches(k)'
      BY <2>1, <2>2, <2>3, <2>5, <3>1
    <3>3. AtLine' \/ AtRest'
      BY <1>1, <1>4, <2>2 DEF AtLine, AtRest, LineStart
    <3>4. QED
      BY <1>1, <1>2, <1>4, <2>5, <3>2, <3>3 DEF SearchInv, Plain
  <2>6. QED
    BY <2>4, <2>5
<1>7. QED
  BY <1>5, <1>6

\* The end of the list: return 0 (whitelist.c:50).
LEMMA EndKeeps ==
  ASSUME SearchInv, EndOfList
  PROVE  SearchInv'
<1>1. /\ pc = "search" /\ pos = Len(list) /\ pc' = "return" /\ out' = 0
      /\ UNCHANGED <<list, path, check, pos>>
  BY DEF EndOfList
<1>2. Plain(path) => check = Content[path] /\ check \in Sha
  BY <1>1, ListAssumption DEF SearchInv, Plain
<1>3. LinesFit /\ check \in Sha => \A k \in 1 .. Len(list) : ~Matches(k)
  BY <1>1 DEF SearchInv
<1>4. \A k : Matches(k)' <=> Matches(k)
  BY <1>1 DEF Matches, LineStart
<1>5. (LinesFit' <=> LinesFit) /\ (Plain(path)' <=> Plain(path))
  BY <1>1 DEF LinesFit, Plain
<1>6. QED
  BY <1>1, <1>2, <1>3, <1>4, <1>5 DEF SearchInv

\* The inductive invariant of the search (whitelist.c:35-50).
THEOREM SearchInvariance == Spec => []SearchInv
<1>1. Init => SearchInv
  BY ListAssumption DEF Init, SearchInv
<1>2. SearchInv /\ [Next]_vars => SearchInv'
  <2> SUFFICES ASSUME SearchInv, [Next]_vars PROVE SearchInv'
    OBVIOUS
  <2>1. CASE UNCHANGED vars
    BY <2>1 DEF vars, SearchInv, LinesFit, Plain, AtLine, AtRest, Matches, LineStart
  <2>2. CASE Next
    BY <2>2, CallKeeps, HashKeeps, NextKeeps, EndKeeps DEF Next
  <2>3. QED
    BY <2>1, <2>2
<1>3. QED
  BY <1>1, <1>2, PTL DEF Spec

\* On every call the search in chunks finds the hash of the file exactly when a
\* line of the list begins with it (whitelist.c:35-50).
THEOREM SearchDecides == Spec => []SearchIsExact
<1>1. SearchInv => SearchIsExact
  <2> SUFFICES ASSUME SearchInv, pc = "return", pos > 0, LinesFit, Plain(path)
               PROVE  out = 1 <=> OnList(check) /\ check = Content[path]
    BY DEF SearchIsExact
  <2>1. check = Content[path] /\ check \in Sha /\ list \in Seq(Digit \union {Newline})
    BY ListAssumption DEF SearchInv, Plain
  <2>2. QED
    BY <2>1, OnListMeans DEF SearchInv
<1>2. QED
  BY <1>1, SearchInvariance, PTL
=============================================================================
