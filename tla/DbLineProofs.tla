---------------------------- MODULE DbLineProofs ----------------------------
(***************************************************************************)
(* The parsing of the database for signatures, names and lines of any       *)
(* length: what is extracted depends on the characters of the line alone    *)
(* when it is long enough, and an entry gives back what it was written for. *)
(***************************************************************************)
EXTENDS DbLine, SequenceTheorems, WellFoundedInduction, TLAPS

\* The buffer holds the line and its terminator.
Holds(b, l) ==
  /\ b \in [0 .. BufLen - 1 -> Char]
  /\ \A k \in 0 .. Len(l) - 1 : b[k] = l[k + 1]
  /\ b[Len(l)] = Nul

\* What was extracted last is what the buffer says.
LineInv ==
  /\ buffer \in [0 .. BufLen - 1 -> Char]
  /\ pc \in {"getline", "extract"}
  /\ line # <<>> \/ pc = "extract" => line \in Lines /\ Holds(buffer, line)
  /\ Extracted => sig = SigIn(buffer, behind) /\ name = NameIn(buffer) /\ behind \in Behind
-----------------------------------------------------------------------------
\* A non-empty set of naturals has a least element.
LEMMA LeastElement ==
  ASSUME NEW T \in SUBSET Nat, T # {}
  PROVE  \E n \in T : \A m \in T : n <= m
<1>1. PICK n \in T : \A m \in T : ~ (<<m, n>> \in OpToRel(<, Nat))
  BY NatLessThanWellFounded, WFMin
<1>2. \A m \in T : ~ (m < n)
  BY <1>1 DEF OpToRel
<1>3. QED
  BY <1>2

\* getline leaves the line and its terminator in the buffer (scan.c:246).
LEMMA FilledHolds ==
  ASSUME NEW b \in [0 .. BufLen - 1 -> Char], NEW l \in Lines
  PROVE  Holds(Filled(b, l), l)
<1>1. /\ BufLen \in Nat /\ l \in Seq(Char \ {Nul}) /\ Len(l) \in Nat /\ Len(l) < BufLen
      /\ Nul \in Char
  BY SizesAssumption DEF Char, Nul
<1>2. \A k \in 0 .. BufLen - 1 : k < Len(l) => l[k + 1] \in Char
  BY <1>1
<1>3. /\ Filled(b, l) \in [0 .. BufLen - 1 -> Char]
      /\ \A k \in 0 .. BufLen - 1 :
           Filled(b, l)[k] = IF k < Len(l) THEN l[k + 1] ELSE IF k = Len(l) THEN Nul ELSE b[k]
  BY <1>1, <1>2 DEF Filled
<1>4. QED
  BY <1>1, <1>3 DEF Holds

\* The name ends at the first comma or terminator.
LEMMA NameEndIs ==
  ASSUME NEW b \in [0 .. BufLen - 1 -> Char], NEW e \in 0 .. BufLen - 1,
         b[e] \in {Comma, Nul}, \A j \in 0 .. e - 1 : b[j] \notin {Comma, Nul}
  PROVE  NameEnd(b) = e
<1> DEFINE P(k) == b[k] \in {Comma, Nul} /\ \A j \in 0 .. k - 1 : b[j] \notin {Comma, Nul}
<1>1. BufLen \in Nat
  BY SizesAssumption
<1>2. ASSUME NEW k \in 0 .. BufLen - 1, P(k) PROVE k = e
  <2>1. ~(k < e)
    BY <1>1, <1>2
  <2>2. ~(e < k)
    BY <1>1, <1>2
  <2>3. QED
    BY <1>1, <2>1, <2>2
<1>3. P(e)
  OBVIOUS
<1>4. NameEnd(b) = CHOOSE k \in 0 .. BufLen - 1 : P(k)
  BY DEF NameEnd
<1> HIDE DEF P
<1>5. QED
  BY <1>2, <1>3, <1>4

\* It ends within the line, at the same place in every buffer that holds it.
LEMMA NameEndsInLine ==
  ASSUME NEW l \in Lines, NEW b, Holds(b, l)
  PROVE  /\ NameEnd(b) \in 0 .. Len(l)
         /\ \A d : Holds(d, l) => NameEnd(d) = NameEnd(b)
<1>1. BufLen \in Nat /\ Len(l) \in Nat /\ Len(l) < BufLen
  BY SizesAssumption
<1> DEFINE T == {k \in 0 .. Len(l) : b[k] \in {Comma, Nul}}
<1>2. PICK e \in T : \A k \in T : e <= k
  <2>1. Len(l) \in T /\ T \in SUBSET Nat
    BY <1>1 DEF Holds
  <2>2. QED
    BY <2>1, LeastElement
<1>3. e \in 0 .. Len(l) /\ e \in 0 .. BufLen - 1 /\ b[e] \in {Comma, Nul}
  BY <1>1, <1>2
<1>4. ASSUME NEW j \in 0 .. e - 1 PROVE j \in 0 .. Len(l) - 1 /\ b[j] \notin {Comma, Nul}
  <2>1. j \in 0 .. Len(l) /\ ~(e <= j)
    BY <1>1, <1>3
  <2>2. QED
    BY <1>1, <1>2, <1>3, <2>1
<1>5. ASSUME NEW d, Holds(d, l) PROVE NameEnd(d) = e
  <2>1. \A k \in 0 .. Len(l) : d[k] = b[k]
    BY <1>1, <1>5 DEF Holds
  <2>2. \A j \in 0 .. e - 1 : d[j] \notin {Comma, Nul}
    BY <1>1, <1>4, <2>1
  <2>3. d \in [0 .. BufLen - 1 -> Char]
    BY <1>5 DEF Holds
  <2>4. QED
    BY <1>3, <2>1, <2>2, <2>3, NameEndIs
<1>6. QED
  BY <1>3, <1>5

\* Where the pair of byte k begins, behind what comes before the pairs.
Offset(k) == 5 * (k \div 2) + 2 * (k % 2)

\* Every group of two pairs and its blank takes five characters; the last pair
\* ends one before the newline.
LEMMA Offsets ==
  /\ Offset(0) = 0 /\ Offset(SigSize) = 5 * (SigSize \div 2)
  /\ \A k \in Nat :
       /\ Offset(k) \in Nat
       /\ Offset(k + 1) = Offset(k) + 2 + (k % 2)
       /\ k % 2 \in {0, 1} /\ ((k + 1) % 2 = 0 <=> k % 2 = 1)
  /\ \A k \in 0 .. SigSize - 1 : Offset(k) + 2 <= 5 * (SigSize \div 2) - 1
<1>1. SigSize \in Nat /\ SigSize % 2 = 0
  BY SizesAssumption
<1>2. Offset(0) = 0 /\ Offset(SigSize) = 5 * (SigSize \div 2)
  BY <1>1 DEF Offset
<1>3. ASSUME NEW k \in Nat
      PROVE  /\ Offset(k) \in Nat
             /\ Offset(k + 1) = Offset(k) + 2 + (k % 2)
             /\ k % 2 \in {0, 1} /\ ((k + 1) % 2 = 0 <=> k % 2 = 1)
  BY DEF Offset
<1>4. ASSUME NEW k \in 0 .. SigSize - 1 PROVE Offset(k) + 2 <= 5 * (SigSize \div 2) - 1
  BY <1>1 DEF Offset
<1>5. QED
  BY <1>2, <1>3, <1>4

\* Two buffers with one line have one signature when the line is long enough.
LEMMA SameSig ==
  ASSUME NEW l \in Lines, NEW b, Holds(b, l), NEW d, Holds(d, l),
         Len(l) >= NameEnd(b) + 3 + 5 * (SigSize \div 2) - 1, NEW r
  PROVE  SigIn(b, r) = SigIn(d, r)
<1>1. SigSize \in Nat /\ Len(l) \in Nat
  BY SizesAssumption
<1>2. NameEnd(b) \in 0 .. Len(l) /\ NameEnd(d) = NameEnd(b)
  BY NameEndsInLine
<1>3. ASSUME NEW k \in 1 .. SigSize
      PROVE  /\ b[Pair(b, k - 1)] = d[Pair(d, k - 1)]
             /\ b[Pair(b, k - 1) + 1] = d[Pair(d, k - 1) + 1]
  <2>1. k - 1 \in 0 .. SigSize - 1 /\ k - 1 \in Nat
    BY <1>1
  <2> DEFINE p == Pair(b, k - 1)
             half == SigSize \div 2
  <2>2. half \in Int /\ Offset(k - 1) \in Nat /\ Offset(k - 1) + 2 <= 5 * half - 1
    <3>1. half \in Int
      BY <1>1
    <3>2. Offset(k - 1) \in Nat
      BY <2>1, Offsets
    <3>3. Offset(k - 1) + 2 <= 5 * half - 1
      BY <2>1, Offsets
    <3>4. QED
      BY <3>1, <3>2, <3>3
  <2>3. p = NameEnd(b) + 3 + Offset(k - 1) /\ Pair(d, k - 1) = p
    BY <1>1, <1>2, <2>1 DEF Pair, Offset
  <2>4. Len(l) >= NameEnd(b) + 3 + 5 * half - 1
    OBVIOUS
  <2> HIDE DEF p, half
  <2>5. p \in 0 .. Len(l) - 1 /\ p + 1 \in 0 .. Len(l) - 1
    <3>1. NameEnd(b) \in Nat /\ p \in Nat
      BY <1>1, <1>2, <2>2, <2>3
    <3>2. p + 1 <= Len(l) - 1
      <4> DEFINE o == Offset(k - 1)
                 n == NameEnd(b)
      <4>1. /\ o \in Nat /\ o + 2 <= 5 * half - 1 /\ half \in Int /\ n \in Nat
            /\ p = n + 3 + o /\ Len(l) >= n + 3 + 5 * half - 1 /\ Len(l) \in Nat
        BY <1>1, <2>2, <2>3, <2>4, <3>1
      <4> HIDE DEF o, n
      <4>2. QED
        BY <4>1
    <3>3. QED
      BY <1>1, <3>1, <3>2
  <2>6. b[p] = d[p] /\ b[p + 1] = d[p + 1]
    BY <2>5 DEF Holds
  <2>7. QED
    BY <2>3, <2>6 DEF p
<1>4. QED
  BY <1>3 DEF SigIn

\* What holds of the buffer, the line and the last result between the steps.
THEOREM LineInvariance == Spec => []LineInv
<1>1. Init => LineInv
  <2>1. ASSUME NEW c \in {Nul, 9}
        PROVE  [k \in 0 .. BufLen - 1 |-> c] \in [0 .. BufLen - 1 -> Char]
    BY DEF Nul, Char
  <2>2. QED
    BY <2>1 DEF Init, LineInv, Extracted
<1>2. LineInv /\ [Next]_vars => LineInv'
  <2> SUFFICES ASSUME LineInv, [Next]_vars PROVE LineInv'
    OBVIOUS
  <2>1. ASSUME NEW l \in Lines, GetLine(l) PROVE LineInv'
    <3>1. buffer' = Filled(buffer, l) /\ line' = l /\ pc' = "extract"
      BY <2>1 DEF GetLine
    <3>2. Holds(buffer', l)
      BY <3>1, FilledHolds DEF LineInv
    <3>3. buffer' \in [0 .. BufLen - 1 -> Char]
      BY <3>2 DEF Holds
    <3>4. QED
      BY <3>1, <3>2, <3>3 DEF LineInv, Extracted
  <2>2. CASE Extract
    <3>1. sig' = SigIn(buffer', behind') /\ name' = NameIn(buffer') /\ behind' \in Behind
      BY <2>2 DEF Extract
    <3>2. pc = "extract" /\ pc' = "getline" /\ buffer' = buffer /\ line' = line
      BY <2>2 DEF Extract
    <3>3. QED
      BY <3>1, <3>2 DEF LineInv, Extracted
  <2>3. CASE UNCHANGED vars
    BY <2>3 DEF vars, LineInv, Extracted
  <2>4. QED
    BY <2>1, <2>2, <2>3 DEF Next
<1>3. QED
  BY <1>1, <1>2, PTL DEF Spec

\* A line that is long enough is read without looking past its end: its
\* signature does not depend on what the buffer held before (scan.c:246-290).
THEOREM LongLineIsAlone == Spec => []LongLineAlone
<1>1. LineInv => LongLineAlone
  <2> SUFFICES ASSUME LineInv, Extracted, LongEnough(line)
               PROVE  sig = SigIn(Alone(line), behind)
    BY DEF LongLineAlone
  <2>1. line \in Lines /\ Holds(buffer, line) /\ sig = SigIn(buffer, behind)
    BY DEF LineInv, Extracted
  <2>2. Holds(Alone(line), line)
    <3>1. [k \in 0 .. BufLen - 1 |-> Nul] \in [0 .. BufLen - 1 -> Char]
      BY DEF Nul, Char
    <3>2. QED
      BY <2>1, <3>1, FilledHolds DEF Alone
  <2>3. Len(line) >= NameEnd(Alone(line)) + 3 + 5 * (SigSize \div 2) - 1
    BY DEF LongEnough
  <2>4. SigIn(Alone(line), behind) = SigIn(buffer, behind)
    BY <2>1, <2>2, <2>3, SameSig
  <2>5. QED
    BY <2>1, <2>4
<1>2. QED
  BY <1>1, LineInvariance, PTL
-----------------------------------------------------------------------------
\* What the entry holds after its pair k, given what it held before.
Link(n, s, g, k) ==
  IF k = 0 THEN n \o <<Comma, Blank, Blank>>
  ELSE g[k - 1] \o Hex(s[k]) \o
       (IF k = SigSize THEN <<Newline>> ELSE IF k % 2 = 0 THEN <<Blank>> ELSE <<>>)

\* The recursive function that Entry writes a line with has a value at every
\* pair: there is no least pair up to which no function solves its equation.
LEMMA EntryUnfolds ==
  ASSUME NEW n, NEW s
  PROVE  \E text : /\ \A k \in 0 .. SigSize : text[k] = Link(n, s, text, k)
                   /\ Entry(n, s) = text[SigSize]
<1> DEFINE L(g, k) == Link(n, s, g, k)
           Solved(m) == \E g : g = [k \in 0 .. m |-> L(g, k)]
<1>1. SigSize \in Nat
  BY SizesAssumption
<1>2. Solved(0)
  <2> DEFINE f == [k \in 0 .. 0 |-> n \o <<Comma, Blank, Blank>>]
  <2>1. f = [k \in 0 .. 0 |-> L(f, k)]
    BY DEF Link
  <2>2. QED
    BY <2>1
<1>3. ASSUME NEW m \in Nat, Solved(m) PROVE Solved(m + 1)
  <2>1. PICK g : g = [k \in 0 .. m |-> L(g, k)]
    BY <1>3
  <2> DEFINE h == [k \in 0 .. m + 1 |-> IF k \in 0 .. m THEN g[k] ELSE L(g, k)]
  <2>2. /\ \A k \in 0 .. m : h[k] = g[k]
        /\ h = [k \in 0 .. m + 1 |-> IF k \in 0 .. m THEN g[k] ELSE L(g, k)]
    OBVIOUS
  <2> HIDE DEF h
  <2>3. \A k \in 0 .. m + 1 : k # 0 => k - 1 \in 0 .. m
    OBVIOUS
  <2>4. ASSUME NEW k \in 0 .. m + 1 PROVE L(h, k) = L(g, k)
    <3>1. CASE k = 0
      BY <3>1 DEF Link
    <3>2. CASE k # 0
      <4>1. h[k - 1] = g[k - 1]
        BY <2>2, <2>3, <3>2
      <4>2. QED
        BY <3>2, <4>1, Zenon DEF Link
    <3>3. QED
      BY <3>1, <3>2
  <2> HIDE DEF L
  <2>5. \A k \in 0 .. m : g[k] = L(g, k)
    BY <2>1
  <2>6. h = [k \in 0 .. m + 1 |-> L(h, k)]
    BY <2>2, <2>4, <2>5
  <2>7. QED
    BY <2>6
<1>4. Solved(SigSize)
  <2> DEFINE T == {m \in Nat : ~Solved(m)}
  <2> SUFFICES ASSUME T # {} PROVE FALSE
    BY <1>1
  <2>1. PICK m \in T : \A k \in T : m <= k
    BY LeastElement
  <2>2. m \in Nat /\ m # 0 /\ ~Solved(m)
    BY <1>2, <2>1
  <2>3. m - 1 \in Nat /\ (m - 1) + 1 = m /\ ~(m <= m - 1)
    BY <2>2
  <2>4. Solved(m - 1)
    BY <2>1, <2>3
  <2> HIDE DEF Solved
  <2>5. Solved((m - 1) + 1)
    BY <1>3, <2>3, <2>4
  <2>6. QED
    BY <2>2, <2>3, <2>5
<1> DEFINE text == CHOOSE g : g = [k \in 0 .. SigSize |-> L(g, k)]
<1>5. text = [k \in 0 .. SigSize |-> L(text, k)]
  BY <1>4
<1>6. Entry(n, s) = text[SigSize]
  BY DEF Entry, Link
<1>7. \A k \in 0 .. SigSize : text[k] = L(text, k)
  <2> HIDE DEF text, L
  <2>1. QED
    BY <1>5
<1>8. QED
  BY <1>6, <1>7


\* A byte is written as two hexadecimal digits.
LEMMA TwoDigits ==
  ASSUME NEW byte \in 0 .. 255
  PROVE  /\ byte \div 16 \in Digit /\ byte % 16 \in Digit
         /\ 16 * (byte \div 16) + (byte % 16) = byte
         /\ byte \div 16 \in Int /\ byte % 16 \in Int
BY DEF Digit

\* Later pairs stand further behind.
LEMMA OffsetsGrow ==
  ASSUME NEW i \in Nat, NEW k \in Nat, i < k
  PROVE  Offset(i) + 2 <= Offset(k)
BY DEF Offset

\* A pair and what follows it go behind what was written before.
LEMMA PairBehind ==
  ASSUME NEW x \in Seq(Int), NEW byte \in 0 .. 255, NEW t \in Seq(Int)
  PROVE  \E y : /\ y = x \o Hex(byte) \o t
                /\ y \in Seq(Int) /\ Len(y) = Len(x) + 2 + Len(t)
                /\ \A i \in 1 .. Len(x) : y[i] = x[i]
                /\ y[Len(x) + 1] = byte \div 16 /\ y[Len(x) + 2] = byte % 16
<1> DEFINE hi == byte \div 16
           lo == byte % 16
           u == x \o <<hi, lo>>
           y == u \o t
<1>1. hi \in Int /\ lo \in Int
  BY TwoDigits, Zenon
<1>2. y = x \o Hex(byte) \o t
  BY DEF Hex
<1> HIDE DEF hi, lo
<1>3. /\ u \in Seq(Int) /\ Len(u) = Len(x) + 2
      /\ \A i \in 1 .. Len(x) : u[i] = x[i]
      /\ u[Len(x) + 1] = hi /\ u[Len(x) + 2] = lo
  BY <1>1
<1> HIDE DEF u
<1>4. /\ y \in Seq(Int) /\ Len(y) = Len(u) + Len(t)
      /\ \A i \in 1 .. Len(u) : y[i] = u[i]
  <2>1. Len(u) \in Nat /\ Len(t) \in Nat
    BY <1>3
  <2>2. /\ y \in Seq(Int) /\ Len(y) = Len(u) + Len(t)
        /\ \A i \in 1 .. Len(u) + Len(t) : y[i] = IF i <= Len(u) THEN u[i] ELSE t[i - Len(u)]
    BY <1>3, ConcatProperties, ZenonT(60)
  <2> HIDE DEF y
  <2>3. QED
    BY <2>1, <2>2
<1>5. /\ Len(x) \in Nat
      /\ Len(x) + 1 \in 1 .. Len(u) /\ Len(x) + 2 \in 1 .. Len(u)
      /\ \A i \in 1 .. Len(x) : i \in 1 .. Len(u)
  BY <1>3
<1> HIDE DEF y
<1>6. /\ y \in Seq(Int) /\ Len(y) = Len(x) + 2 + Len(t)
      /\ \A i \in 1 .. Len(x) : y[i] = x[i]
      /\ y[Len(x) + 1] = hi /\ y[Len(x) + 2] = lo
  BY <1>3, <1>4, <1>5
<1>7. QED
  BY <1>2, <1>6, Zenon DEF hi, lo

\* What stands where in a line that is written up to pair k.
Named(n, e) == e[Len(n) + 1] = Comma /\ \A j \in 1 .. Len(n) : e[j] = n[j]
Paired(n, s, e, k) ==
  \A j \in 1 .. k : /\ e[Len(n) + 3 + Offset(j - 1) + 1] = s[j] \div 16
                    /\ e[Len(n) + 3 + Offset(j - 1) + 2] = s[j] % 16
Written(n, s, e, k) ==
  /\ e \in Seq(Int) /\ Len(e) = Len(n) + 3 + Offset(k)
  /\ Named(n, e)
  /\ Paired(n, s, e, k)

\* Writing the next pair leaves everything before it at its place.
LEMMA NextPair ==
  ASSUME NEW n \in Seq(Int), NEW s \in [1 .. SigSize -> 0 .. 255],
         NEW x, NEW k \in 1 .. SigSize, Written(n, s, x, k - 1),
         NEW t \in Seq(Int), Len(t) = (k - 1) % 2
  PROVE  Written(n, s, x \o Hex(s[k]) \o t, k)
<1> DEFINE hi == s[k] \div 16
           lo == s[k] % 16
           N == Len(n) + 3
<1>1. SigSize \in Nat /\ Len(n) \in Nat /\ N \in Nat /\ k - 1 \in Nat /\ (k - 1) + 1 = k
  BY SizesAssumption
<1>2. /\ x \in Seq(Int) /\ Len(x) = N + Offset(k - 1)
      /\ \A j \in 1 .. Len(n) : x[j] = n[j]
      /\ x[Len(n) + 1] = Comma
      /\ \A j \in 1 .. k - 1 : /\ x[N + Offset(j - 1) + 1] = s[j] \div 16
                               /\ x[N + Offset(j - 1) + 2] = s[j] % 16
  BY DEF Written, Named, Paired
<1>3. PICK y : /\ y = x \o Hex(s[k]) \o t
               /\ y \in Seq(Int) /\ Len(y) = Len(x) + 2 + Len(t)
               /\ \A i \in 1 .. Len(x) : y[i] = x[i]
               /\ y[Len(x) + 1] = hi /\ y[Len(x) + 2] = lo
  <2>1. x \in Seq(Int) /\ s[k] \in 0 .. 255
    BY <1>2
  <2>2. QED
    BY <2>1, PairBehind, ZenonT(40)
<1>4. /\ y \in Seq(Int) /\ Len(y) = Len(x) + 2 + Len(t)
      /\ \A i \in 1 .. Len(x) : y[i] = x[i]
      /\ y[Len(x) + 1] = hi /\ y[Len(x) + 2] = lo
  BY <1>3
<1> HIDE DEF hi, lo
<1>5. Offset(k - 1) \in Nat /\ Offset(k) = Offset(k - 1) + 2 + ((k - 1) % 2)
  BY <1>1, Offsets
<1>6. (k - 1) % 2 \in Nat
  BY <1>1, Offsets
<1>7. \A j \in 1 .. k - 1 : /\ Offset(j - 1) \in Nat
                            /\ Offset(j - 1) + 2 <= Offset(k - 1)
  <2> SUFFICES ASSUME NEW j \in 1 .. k - 1
               PROVE  Offset(j - 1) \in Nat /\ Offset(j - 1) + 2 <= Offset(k - 1)
    OBVIOUS
  <2>1. j - 1 \in Nat
    BY <1>1
  <2>2. Offset(j - 1) + 2 <= Offset(k - 1)
    <3>1. k - 1 \in Nat /\ j - 1 < k - 1
      BY <1>1, <2>1
    <3>2. QED
      BY <2>1, <3>1, OffsetsGrow
  <2>3. QED
    BY <2>1, <2>2, Offsets
<1>8. Len(y) = N + Offset(k)
  <2> DEFINE o == Offset(k - 1)
             r == (k - 1) % 2
  <2>1. Len(x) = N + o /\ Offset(k) = o + 2 + r /\ Len(y) = Len(x) + 2 + r /\ o \in Nat /\ r \in Nat
    BY <1>2, <1>4, <1>5, <1>6
  <2> HIDE DEF o, r
  <2>2. QED
    BY <1>1, <2>1
<1>9. /\ \A j \in 1 .. Len(n) : y[j] = n[j]
      /\ y[Len(n) + 1] = Comma
  <2>1. Len(n) + 1 \in 1 .. Len(x) /\ \A j \in 1 .. Len(n) : j \in 1 .. Len(x)
    <3> DEFINE o == Offset(k - 1)
               len == Len(x)
    <3>1. o \in Nat /\ len = Len(n) + 3 + o
      BY <1>2, <1>5
    <3> HIDE DEF o, len
    <3>2. Len(n) + 1 \in 1 .. len /\ \A j \in 1 .. Len(n) : j \in 1 .. len
      BY <1>1, <3>1
    <3>3. QED
      BY <3>2 DEF len
  <2>2. QED
    BY <1>2, <1>4, <2>1
<1>10. Paired(n, s, y, k)
  <2> SUFFICES ASSUME NEW j \in 1 .. k
               PROVE  /\ y[N + Offset(j - 1) + 1] = s[j] \div 16
                      /\ y[N + Offset(j - 1) + 2] = s[j] % 16
    BY DEF Paired
  <2>1. CASE j = k
    BY <1>2, <1>4, <2>1 DEF hi, lo
  <2>2. CASE j # k
    <3>1. j \in 1 .. k - 1
      BY <1>1, <2>2
    <3> DEFINE o == Offset(j - 1)
               p == Offset(k - 1)
    <3>2. o \in Nat /\ p \in Nat /\ o + 2 <= p /\ Len(x) = N + p
      BY <1>2, <1>5, <1>7, <3>1
    <3>3. x[N + o + 1] = s[j] \div 16 /\ x[N + o + 2] = s[j] % 16
      BY <1>2, <3>1
    <3> HIDE DEF o, p, N
    <3>4. N + o + 1 \in 1 .. Len(x) /\ N + o + 2 \in 1 .. Len(x)
      BY <1>1, <3>2
    <3>5. y[N + o + 1] = s[j] \div 16 /\ y[N + o + 2] = s[j] % 16
      BY <1>4, <3>3, <3>4
    <3>6. QED
      BY <3>5 DEF o, N
  <2>3. QED
    BY <2>1, <2>2
<1>11. Len(y) = Len(n) + 3 + Offset(k)
  BY <1>8
<1>12. Named(n, y)
  BY <1>9 DEF Named
<1>13. Written(n, s, y, k)
  BY <1>3, <1>10, <1>11, <1>12, Zenon DEF Written
<1>14. QED
  BY <1>3, <1>13, Zenon

\* The line of the database for a name and a signature.
LEMMA EntryWritten ==
  ASSUME NEW n \in Names, NEW s \in Sigs
  PROVE  Written(n, s, Entry(n, s), SigSize)
<1>1. /\ SigSize \in Nat /\ SigSize % 2 = 0
      /\ n \in Seq(Int) /\ Len(n) \in Nat /\ s \in [1 .. SigSize -> 0 .. 255]
  <2>1. n \in Seq(Char \ {Comma, Nul})
    BY SizesAssumption
  <2>2. Char \ {Comma, Nul} \in SUBSET Int
    BY DEF Char
  <2>3. QED
    BY <2>1, <2>2, SizesAssumption
<1>2. PICK text : /\ \A k \in 0 .. SigSize : text[k] = Link(n, s, text, k)
                  /\ Entry(n, s) = text[SigSize]
  BY EntryUnfolds
<1> DEFINE Ok(k) == k \in 0 .. SigSize => Written(n, s, text[k], k)
<1>3. Ok(0)
  <2>1. text[0] = n \o <<Comma, Blank, Blank>>
    <3>1. 0 \in 0 .. SigSize
      BY <1>1
    <3>2. QED
      BY <1>2, <3>1 DEF Link
  <2>2. Comma \in Int /\ Blank \in Int
    BY DEF Comma, Blank
  <2>3. /\ n \o <<Comma, Blank, Blank>> \in Seq(Int)
        /\ Len(n \o <<Comma, Blank, Blank>>) = Len(n) + 3
        /\ \A j \in 1 .. Len(n) : (n \o <<Comma, Blank, Blank>>)[j] = n[j]
        /\ (n \o <<Comma, Blank, Blank>>)[Len(n) + 1] = Comma
    BY <1>1, <2>2
  <2>4. QED
    BY <1>1, <2>1, <2>3, Offsets DEF Written, Named, Paired
<1>4. ASSUME NEW k \in Nat, Ok(k) PROVE Ok(k + 1)
  <2> SUFFICES ASSUME k + 1 \in 0 .. SigSize PROVE Written(n, s, text[k + 1], k + 1)
    OBVIOUS
  <2>1. k \in 0 .. SigSize /\ k + 1 \in 1 .. SigSize /\ (k + 1) - 1 = k /\ k + 1 # 0
    BY <1>1
  <2> DEFINE t == IF k + 1 = SigSize THEN <<Newline>>
                  ELSE IF (k + 1) % 2 = 0 THEN <<Blank>> ELSE <<>>
  <2>2. text[k + 1] = text[k] \o Hex(s[k + 1]) \o t
    BY <1>2, <2>1 DEF Link
  <2>3. t \in Seq(Int) /\ Len(t) = k % 2
    <3>1. k % 2 \in {0, 1} /\ ((k + 1) % 2 = 0 <=> k % 2 = 1)
      BY Offsets
    <3>2. k + 1 = SigSize => (k + 1) % 2 = 0
      BY <1>1
    <3>3. Newline \in Int /\ Blank \in Int
      BY DEF Newline, Blank
    <3>4. QED
      BY <3>1, <3>2, <3>3
  <2> HIDE DEF t
  <2>4. Written(n, s, text[k], (k + 1) - 1)
    BY <1>4, <2>1
  <2>5. Len(t) = ((k + 1) - 1) % 2
    BY <2>1, <2>3
  <2>6. QED
    BY <1>1, <2>1, <2>2, <2>3, <2>4, <2>5, NextPair
<1>5. Ok(SigSize)
  <2> DEFINE T == {m \in Nat : ~Ok(m)}
  <2> SUFFICES ASSUME T # {} PROVE FALSE
    BY <1>1
  <2>1. PICK m \in T : \A k \in T : m <= k
    BY LeastElement
  <2>2. m \in Nat /\ m # 0 /\ ~Ok(m)
    BY <1>3, <2>1
  <2>3. m - 1 \in Nat /\ (m - 1) + 1 = m /\ ~(m <= m - 1)
    BY <2>2
  <2>4. Ok(m - 1)
    BY <2>1, <2>3
  <2> HIDE DEF Ok
  <2>5. Ok((m - 1) + 1)
    BY <1>4, <2>3, <2>4
  <2>6. QED
    BY <2>2, <2>3, <2>5
<1>6. QED
  BY <1>1, <1>2, <1>5

\* The place that a scan over the characters cs stops at.
LEMMA PastIs ==
  ASSUME NEW text, NEW i \in Nat, NEW e \in i .. Len(text), Len(text) \in Nat, NEW cs,
         text[e] \notin cs, \A j \in i .. e - 1 : text[j] \in cs
  PROVE  Past(text, i, cs) = e
<1> DEFINE P(k) == text[k] \notin cs /\ \A j \in i .. k - 1 : text[j] \in cs
<1>1. ASSUME NEW k \in i .. Len(text), P(k) PROVE k = e
  <2>1. ~(k < e) /\ ~(e < k)
    BY <1>1
  <2>2. QED
    BY <2>1
<1>2. P(e)
  OBVIOUS
<1>3. Past(text, i, cs) = CHOOSE k \in i .. Len(text) : P(k)
  BY DEF Past
<1> HIDE DEF P
<1>4. QED
  BY <1>1, <1>2, <1>3

\* Two digits behind which no further digit stands are converted to the byte
\* that they are written for (scan.c:276).
LEMMA TwoDigitsConverted ==
  ASSUME NEW a \in Digit, NEW b \in Digit, NEW r \in Seq(Char \ {Nul}), Ends(r)
  PROVE  Strtol(a, b, r) = 16 * a + b
<1> DEFINE text == <<a, b>> \o r \o <<Nul>>
<1>1. Len(r) \in Nat /\ Len(text) = Len(r) + 3 /\ Len(text) \in Nat /\ 3 \in 1 .. Len(text)
  BY DEF Nul, Char, Digit
<1>2. text[1] = a /\ text[2] = b
  BY DEF Nul, Char, Digit
<1>3. text[3] \notin Digit
  <2>1. CASE r = <<>>
    <3>1. text[3] = Nul
      BY <2>1 DEF Nul, Digit
    <3>2. QED
      BY <3>1 DEF Nul, Digit
  <2>2. CASE r # <<>>
    <3>1. Len(r) >= 1 /\ r[1] \notin Digit
      BY <2>2 DEF Ends
    <3>2. text[3] = r[1]
      BY <3>1 DEF Nul, Char, Digit
    <3>3. QED
      BY <3>1, <3>2
  <2>3. QED
    BY <2>1, <2>2
<1> HIDE DEF text
<1>4. a \notin {Blank, Newline} /\ a # Minus /\ a \in Int /\ b \in Int
  BY DEF Digit, Blank, Newline, Minus
<1>5. Past(text, 1, {Blank, Newline}) = 1
  <2>1. text[1] \notin {Blank, Newline}
    BY <1>2, <1>4
  <2>2. QED
    BY <1>1, <2>1, PastIs
<1>6. Past(text, 1, Digit) = 3
  <2>1. \A j \in 1 .. 3 - 1 : text[j] \in Digit
    BY <1>2
  <2>2. QED
    BY <1>1, <1>3, <2>1, PastIs
<1>7. Strtol(a, b, r) =
        LET start == Past(text, 1, {Blank, Newline})
            from == IF text[start] = Minus THEN start + 1 ELSE start
            to == Past(text, from, Digit)
            digit(k) == IF k >= from THEN text[k] ELSE 0
            byte == 16 * digit(to - 2) + digit(to - 1)
        IN  IF from # start THEN (256 - byte) % 256 ELSE byte
  BY DEF Strtol, text
<1>8. text[1] # Minus
  BY <1>2, <1>4
<1>9. QED
  BY <1>2, <1>4, <1>5, <1>6, <1>7, <1>8

\* What is extracted from a buffer that holds an entry is the entry.
LEMMA EntryExtracted ==
  ASSUME NEW n \in Names, NEW s \in Sigs, NEW b,
         Entry(n, s) \in Lines, Holds(b, Entry(n, s)), NEW r \in Behind
  PROVE  /\ \A k \in 1 .. SigSize : Ends(r[k]) => SigIn(b, r)[k] = s[k]
         /\ Len(n) \notin Blocks => NameIn(b) = n
<1> DEFINE e == Entry(n, s)
<1>1. /\ SigSize \in Nat /\ BufLen \in Nat /\ Len(e) \in Nat /\ Len(e) < BufLen
      /\ n \in Seq(Char \ {Comma, Nul}) /\ Len(n) \in Nat
      /\ s \in [1 .. SigSize -> 0 .. 255]
  <2>1. Len(e) \in Nat /\ Len(e) < BufLen
    BY SizesAssumption
  <2> HIDE DEF e
  <2>2. QED
    BY <2>1, SizesAssumption
<1>2. Written(n, s, e, SigSize)
  BY EntryWritten
<1>3. /\ b \in [0 .. BufLen - 1 -> Char]
      /\ \A k \in 0 .. Len(e) - 1 : b[k] = e[k + 1]
  BY DEF Holds
<1> HIDE DEF e
<1>4. Offset(SigSize) \in Nat /\ Len(e) = Len(n) + 3 + Offset(SigSize)
  BY <1>1, <1>2, Offsets DEF Written, Named, Paired
<1>5. NameEnd(b) = Len(n)
  <2>1. Len(n) \in 0 .. Len(e) - 1 /\ Len(n) \in 0 .. BufLen - 1
    <3> DEFINE o == Offset(SigSize)
    <3>1. o \in Nat /\ Len(e) = Len(n) + 3 + o
      BY <1>4
    <3> HIDE DEF o
    <3>2. QED
      BY <1>1, <3>1
  <2>2. b[Len(n)] = Comma
    BY <1>2, <1>3, <2>1 DEF Written, Named, Paired
  <2>3. ASSUME NEW j \in 0 .. Len(n) - 1 PROVE b[j] \notin {Comma, Nul}
    <3>1. j \in 0 .. Len(e) - 1 /\ j + 1 \in 1 .. Len(n)
      BY <1>1, <2>1
    <3>2. b[j] = n[j + 1]
      BY <1>2, <1>3, <3>1 DEF Written, Named, Paired
    <3>3. n[j + 1] \in Char \ {Comma, Nul}
      BY <1>1, <3>1
    <3>4. QED
      BY <3>2, <3>3
  <2>4. QED
    BY <1>3, <2>1, <2>2, <2>3, NameEndIs
<1>6. ASSUME NEW k \in 1 .. SigSize, Ends(r[k])
      PROVE  Strtol(b[Pair(b, k - 1)], b[Pair(b, k - 1) + 1], r[k]) = s[k]
  <2> DEFINE p == Pair(b, k - 1)
             o == Offset(k - 1)
             q == Offset(SigSize)
  <2>1. k - 1 \in Nat /\ k - 1 < SigSize
    BY <1>1
  <2>2. p = Len(n) + 3 + o
    BY <1>5, <2>1 DEF Pair, Offset
  <2>3. o \in Nat /\ q \in Nat /\ o + 2 <= q /\ Len(e) = Len(n) + 3 + q
    BY <1>1, <1>4, <2>1, Offsets, OffsetsGrow
  <2>4. e[Len(n) + 3 + o + 1] = s[k] \div 16 /\ e[Len(n) + 3 + o + 2] = s[k] % 16
    BY <1>2 DEF Written, Named, Paired
  <2> HIDE DEF p, o, q
  <2>5. /\ p \in 0 .. Len(e) - 1 /\ p + 1 \in 0 .. Len(e) - 1
        /\ p + 1 = Len(n) + 3 + o + 1 /\ (p + 1) + 1 = Len(n) + 3 + o + 2
    BY <1>1, <2>2, <2>3
  <2>6. b[p] = s[k] \div 16 /\ b[p + 1] = s[k] % 16
    BY <1>3, <2>4, <2>5
  <2>7. Strtol(s[k] \div 16, s[k] % 16, r[k]) = s[k]
    <3>1. s[k] \in 0 .. 255 /\ r[k] \in Seq(Char \ {Nul})
      BY <1>1, BehindAssumption
    <3>2. /\ s[k] \div 16 \in Digit /\ s[k] % 16 \in Digit
          /\ 16 * (s[k] \div 16) + (s[k] % 16) = s[k]
      BY <3>1, TwoDigits, Zenon
    <3>3. QED
      BY <1>6, <3>1, <3>2, TwoDigitsConverted, Zenon
  <2>8. QED
    BY <2>6, <2>7 DEF p
<1>7. \A k \in 1 .. SigSize : Ends(r[k]) => SigIn(b, r)[k] = s[k]
  BY <1>6 DEF SigIn
<1>8. ASSUME Len(n) \notin Blocks PROVE NameIn(b) = n
  <2>1. NameIn(b) = [k \in 1 .. Len(n) |-> b[k - 1]]
    BY <1>5, <1>8 DEF NameIn
  <2>2. ASSUME NEW k \in 1 .. Len(n) PROVE b[k - 1] = n[k]
    <3>1. k - 1 \in 0 .. Len(e) - 1 /\ (k - 1) + 1 = k
      <4> DEFINE q == Offset(SigSize)
      <4>1. q \in Nat /\ Len(e) = Len(n) + 3 + q
        BY <1>4
      <4> HIDE DEF q
      <4>2. QED
        BY <1>1, <4>1
    <3>2. QED
      BY <1>2, <1>3, <3>1 DEF Written, Named, Paired
  <2>3. n = [k \in 1 .. Len(n) |-> n[k]]
    BY <1>1
  <2>4. [k \in 1 .. Len(n) |-> b[k - 1]] = [k \in 1 .. Len(n) |-> n[k]]
    BY <2>2, Zenon
  <2>5. QED
    BY <2>1, <2>3, <2>4
<1>9. QED
  BY <1>7, <1>8

\* Extracting the line written for a signature gives that signature back: every
\* byte at its place behind whose two digits no further digit happens to stand
\* on the stack, and the name when its block leaves room for a terminator,
\* whatever lines were read before (scan.c:254-290).
THEOREM EntryIsReadBack == Spec => []EntryReadBack
<1>1. LineInv => EntryReadBack
  <2> SUFFICES ASSUME LineInv, NEW n \in Names, NEW s \in Sigs,
                      Extracted, line = Entry(n, s)
               PROVE  /\ \A k \in 1 .. SigSize : Ends(behind[k]) => sig[k] = s[k]
                      /\ Len(n) \notin Blocks => name = n
    BY DEF EntryReadBack
  <2>1. /\ line \in Lines /\ Holds(buffer, line) /\ behind \in Behind
        /\ sig = SigIn(buffer, behind) /\ name = NameIn(buffer)
    BY DEF LineInv, Extracted
  <2>2. /\ \A k \in 1 .. SigSize : Ends(behind[k]) => SigIn(buffer, behind)[k] = s[k]
        /\ Len(n) \notin Blocks => NameIn(buffer) = n
    BY <2>1, EntryExtracted
  <2>3. QED
    BY <2>1, <2>2
<1>2. QED
  BY <1>1, LineInvariance, PTL
=============================================================================
