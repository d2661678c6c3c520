------------------------------- MODULE DbLine -------------------------------
(***************************************************************************)
(* extrac_signature() of src/scan.c on the lines that getline reads into   *)
(* one buffer, as scan() calls it.  A line of rsrc/db.txt is a name, a     *)
(* comma, two blanks, the bytes of the signature as hexadecimal pairs with *)
(* a blank after every second pair, and a newline.                         *)
(*                                                                         *)
(* Characters are numbers: 0 .. 15 are the hexadecimal digits.             *)
(***************************************************************************)
EXTENDS Integers, Sequences

CONSTANTS
  SigSize,  \* SIG_SIZE
  BufLen,   \* size of getline's buffer; longer lines are left out
  Names,    \* the names and
  Sigs,     \* the signatures of a well-formed database
  Stray,    \* lines that are no entries
  Blocks,   \* usable sizes of the blocks that calloc returns
  Behind    \* what may stand behind temp on the stack at each conversion

Digit == 0 .. 15
Comma == 16
Blank == 17
Minus == 18
Newline == 19
Other == 20   \* neither of these nor an x
Nul == 21
Heap == 22    \* a byte of the heap's own bookkeeping
Char == 0 .. 21

\* The line of the database that stands for a name and a signature.
Hex(byte) == <<byte \div 16, byte % 16>>
Entry(n, s) ==
  LET text[k \in 0 .. SigSize] ==
        IF k = 0 THEN n \o <<Comma, Blank, Blank>>
        ELSE text[k - 1] \o Hex(s[k]) \o
             (IF k = SigSize THEN <<Newline>>
              ELSE IF k % 2 = 0 THEN <<Blank>> ELSE <<>>)
  IN  text[SigSize]

Lines == {Entry(n, s) : n \in Names, s \in Sigs} \union Stray

ASSUME SizesAssumption ==
  /\ SigSize \in Nat /\ SigSize % 2 = 0
  /\ BufLen \in Nat /\ Blocks \subseteq Nat
  /\ \A n \in Names : n \in Seq(Char \ {Comma, Nul})
  /\ Sigs \subseteq [1 .. SigSize -> 0 .. 255]
  /\ \A l \in Lines : l \in Seq(Char \ {Nul}) /\ Len(l) < BufLen

\* Thirteen digits behind temp's two still fit into a long.
ASSUME BehindAssumption ==
  /\ Behind # {}
  /\ \A r \in Behind : \A k \in 1 .. SigSize :
       r[k] \in Seq(Char \ {Nul}) /\ Len(r[k]) <= 13

VARIABLES
  buffer,  \* line_ptr: what getline's buffer holds
  line,    \* the line that was read last
  name,    \* signature.name, the string that starts there
  sig,     \* signature.sig
  behind,  \* behind[k]: what stood behind temp up to a zero byte, at byte k
  pc

vars == <<buffer, line, name, sig, behind, pc>>

\* malloc does not clear the buffer.
Init ==
  /\ buffer \in {[k \in 0 .. BufLen - 1 |-> c] : c \in {Nul, 9}}
  /\ line = <<>>
  /\ name = <<>>
  /\ sig = <<>>
  /\ behind = <<>>
  /\ pc = "getline"

\* getline writes the line and a terminator over what the buffer held.
Filled(b, l) ==
  [k \in DOMAIN b |-> IF k < Len(l) THEN l[k + 1]
                      ELSE IF k = Len(l) THEN Nul ELSE b[k]]

GetLine(l) ==
  /\ pc = "getline"
  /\ line' = l
  /\ buffer' = Filled(buffer, l)
  /\ pc' = "extract"
  /\ UNCHANGED <<name, sig, behind>>

\* The index of the first comma or of the terminator.
NameEnd(b) ==
  CHOOSE k \in DOMAIN b : /\ b[k] \in {Comma, Nul}
                          /\ \A j \in 0 .. k - 1 : b[j] \notin {Comma, Nul}

\* The first place from i on that holds none of the characters cs.
Past(text, i, cs) ==
  CHOOSE k \in i .. Len(text) :
    text[k] \notin cs /\ \A j \in i .. k - 1 : text[j] \in cs

\* strtol(temp, &ptr, 16) cut to a byte, its last two digits.  temp has no room
\* for a terminator, so strtol reads on into what stands behind it.  Blanks are
\* skipped, a minus negates, and what follows the digits is ignored.
Strtol(a, b, rest) ==
  LET text == <<a, b>> \o rest \o <<Nul>>
      start == Past(text, 1, {Blank, Newline})
      from == IF text[start] = Minus THEN start + 1 ELSE start
      to == Past(text, from, Digit)
      digit(k) == IF k >= from THEN text[k] ELSE 0
      byte == 16 * digit(to - 2) + digit(to - 1)
  IN  IF from # start THEN (256 - byte) % 256 ELSE byte

\* Faulty variant: the blank between two groups is not skipped.
PairWithoutGap(b, k) == NameEnd(b) + 3 + 2 * k

\* Faulty variant: the first pair is skipped.
PairAfter(b, k) == NameEnd(b) + 3 + 5 * ((k + 1) \div 2) + 2 * ((k + 1) % 2)

\* Where the pair of byte k begins: comma and two blanks, then groups of two
\* pairs and a blank.
Pair(b, k) == NameEnd(b) + 3 + 5 * (k \div 2) + 2 * (k % 2)

SigIn(b, rest) ==
  [k \in 1 .. SigSize |-> Strtol(b[Pair(b, k - 1)], b[Pair(b, k - 1) + 1], rest[k])]

\* calloc(index, 1) leaves no room for a terminator: the string ends inside
\* its block only if the block is larger than the name.
NameIn(b) ==
  LET text == [k \in 1 .. NameEnd(b) |-> b[k - 1]]
  IN  IF NameEnd(b) \in Blocks THEN Append(text, Heap) ELSE text

Extract ==
  /\ pc = "extract"
  /\ name' = NameIn(buffer)
  /\ behind' \in Behind
  /\ sig' = SigIn(buffer, behind')
  /\ pc' = "getline"
  /\ UNCHANGED <<buffer, line>>

Next == (\E l \in Lines : GetLine(l)) \/ Extract

Spec == Init /\ [][Next]_vars

-----------------------------------------------------------------------------
Extracted == pc = "getline" /\ line # <<>>

\* strtol stops at the end of temp.
Ends(rest) == rest = <<>> \/ rest[1] \notin Digit

\* Extracting the line written for a signature gives that signature back, with
\* every byte at its place, whatever lines were read before: every byte behind
\* whose two digits no further digit happens to stand (scan.c:254-290).
EntryReadBack ==
  \A n \in Names, s \in Sigs :
    Extracted /\ line = Entry(n, s) =>
      /\ \A k \in 1 .. SigSize : Ends(behind[k]) => sig[k] = s[k]
      /\ Len(n) \notin Blocks => name = n

\* A line that is long enough, well-formed or not, with or without its
\* newline, is read without looking past its end: the result does not
\* depend on the earlier lines in the buffer, only on it and on what stands
\* behind temp (scan.c:246-290).
Alone(l) == Filled([k \in 0 .. BufLen - 1 |-> Nul], l)
LongEnough(l) == Len(l) >= NameEnd(Alone(l)) + 3 + 5 * (SigSize \div 2) - 1
LongLineAlone == Extracted /\ LongEnough(line) => sig = SigIn(Alone(line), behind)

\* const.h:36: "char* name; /*Null terminated*/".  No byte of the heap's
\* bookkeeping belongs to the name.
NameTerminated == Extracted => Heap \notin {name[k] : k \in 1 .. Len(name)}

\* const.h:54: "Extract signature from char* read, and store it to members of
\* signature".  The signature comes from the line that was read.
SigFromLine == Extracted => sig = SigIn(Alone(line), behind)

\* const.h:54 again: the bytes are those of the line, and none is completed
\* from the stack.
PairsOnly ==
  \A n \in Names, s \in Sigs : Extracted /\ line = Entry(n, s) => sig = s
=============================================================================
