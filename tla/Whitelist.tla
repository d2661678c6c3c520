----------------------------- MODULE Whitelist -----------------------------
(***************************************************************************)
(* UsingFileWhitelistCheck() of src/whitelist.c: the hash that sha1sum      *)
(* prints for a path is searched in the whitelist file, which fgets reads  *)
(* in chunks.  OnDemand takes the answer of this search in one step.       *)
(*                                                                         *)
(* The shell splits "sha1sum <path>" at blanks: a path is the sequence of  *)
(* its words, and each word is a name of its own.                          *)
(***************************************************************************)
EXTENDS Integers, Sequences, FiniteSets

CONSTANTS
  CompLength,  \* COMPLENGTH, the length of a hash
  Digit,       \* the digits of a hash
  Newline,
  Lists,       \* contents of the whitelist file
  Paths,       \* paths that are checked
  Content      \* Content[p]: the hash of the file named by path p, if any

Sha == [1 .. CompLength -> Digit]
ShaLength == CompLength + 1

ASSUME ListAssumption ==
  /\ CompLength \in Nat \ {0}
  /\ Newline \notin Digit
  /\ \A l \in Lists : l \in Seq(Digit \union {Newline})
  /\ \A p \in Paths : p \in Seq({p[k] : k \in DOMAIN p}) \ {<<>>}
  /\ Paths \subseteq DOMAIN Content
  /\ \A p \in Paths : \A k \in DOMAIN p : <<p[k]>> \in DOMAIN Content
  /\ \A p \in DOMAIN Content : Content[p] \in Sha \union {<<>>}

VARIABLES
  list,   \* the whitelist file
  path,   \* the path of the current check
  check,  \* the string in check, which no call initialises
  pos,    \* characters read from the stream of this call
  out,    \* what the last check returned
  pc

vars == <<list, path, check, pos, out, pc>>

Init ==
  /\ list \in Lists
  /\ path \in Paths
  /\ check \in Sha \union {<<>>}
  /\ pos = 0
  /\ out = 0
  /\ pc = "return"

Call(p) ==
  /\ pc = "return"
  /\ path' = p
  /\ pos' = 0
  /\ pc' = "hash"
  /\ UNCHANGED <<list, check, out>>

\* The words that sha1sum can read: it prints the hash of each on a line.
Hashed(p) == {k \in DOMAIN p : Content[<<p[k]>>] # <<>>}

\* fgets(check, SHA_LENGTH, hash) takes the first of them and leaves check as
\* it is when there is none.
HashFile ==
  /\ pc = "hash"
  /\ \/ Hashed(path) = {} /\ UNCHANGED check
     \/ \E k \in Hashed(path) :
          (\A j \in Hashed(path) : k <= j) /\ check' = Content[<<path[k]>>]
  /\ pc' = "search"
  /\ UNCHANGED <<list, path, pos, out>>

\* How far one fgets of at most size - 1 characters goes: through the newline.
ChunkEnd(size) ==
  LET last == IF pos + size - 1 < Len(list) THEN pos + size - 1 ELSE Len(list)
      ends == {k \in pos + 1 .. last : list[k] = Newline \/ k = last}
  IN  CHOOSE k \in ends : \A j \in ends : k <= j

\* Faulty variant: the buffer for a line has no room for its newline.
ChunkWithoutNewline == SubSeq(list, pos + 1, ChunkEnd(ShaLength))

\* fgets(whCheck, SHA_LENGTH + 1, wh)
Chunk == SubSeq(list, pos + 1, ChunkEnd(ShaLength + 1))

\* strncmp(a, b, COMPLENGTH) == 0, for strings that may be shorter.
SameHash(a, b) ==
  /\ \A k \in 1 .. CompLength : (k <= Len(a)) = (k <= Len(b))
  /\ \A k \in 1 .. CompLength : k <= Len(a) => a[k] = b[k]

\* Faulty variant: strcmp, which also compares the newline.
SameLine(a, b) == a = b

\* Faulty variant: the stream is rewound before every entry.
NextEntryRewinds ==
  /\ pc = "search"
  /\ pos < Len(list)
  /\ IF SameHash(Chunk, check)
       THEN out' = 1 /\ pc' = "return"
       ELSE UNCHANGED <<out, pc>>
  /\ pos' = 0
  /\ UNCHANGED <<list, path, check>>

NextEntry ==
  /\ pc = "search"
  /\ pos < Len(list)
  /\ IF SameHash(Chunk, check)
       THEN out' = 1 /\ pc' = "return"
       ELSE UNCHANGED <<out, pc>>
  /\ pos' = pos + Len(Chunk)
  /\ UNCHANGED <<list, path, check>>

EndOfList ==
  /\ pc = "search"
  /\ pos = Len(list)
  /\ out' = 0
  /\ pc' = "return"
  /\ UNCHANGED <<list, path, check, pos>>

Next == (\E p \in Paths : Call(p)) \/ HashFile \/ NextEntry \/ EndOfList

Spec == Init /\ [][Next]_vars

\* The check runs on: each step is one library call that returns.
FairSpec == Spec /\ WF_vars(HashFile \/ NextEntry \/ EndOfList)

-----------------------------------------------------------------------------
\* The reference definition: a line of the list begins with the hash.
LineStart(k) == k = 1 \/ list[k - 1] = Newline
OnList(h) ==
  \E k \in 1 .. Len(list) - CompLength + 1 :
    LineStart(k) /\ SubSeq(list, k, k + CompLength - 1) = h

\* No line of the list has a second hash's room behind the first chunk.
LinesFit ==
  \A k \in 1 .. Len(list) - 2 * CompLength :
    \E j \in k .. k + 2 * CompLength : list[j] = Newline

\* The file named by the path is the one that sha1sum reads.
Plain(p) == Len(p) = 1 /\ Content[p] # <<>>

\* With lines of at most twice the length of a hash, short, empty or without a
\* last newline, the search in chunks finds a hash exactly when a line begins
\* with it, on every call (whitelist.c:40-49).
SearchIsExact ==
  pc = "return" /\ pos > 0 /\ LinesFit /\ Plain(path) =>
    (out = 1 <=> OnList(check) /\ check = Content[path])

\* Every check returns, however the list is laid out (whitelist.c:43).
CheckReturns == pc = "hash" ~> pc = "return"

\* whitelist.h:22-24: "This method will take a file path, i.e. "/bin/bash" and
\* check said file." "0 if it 'is not' on the whitelist, 1 if it 'is' on the
\* whitelist."
AnswerIsOfFile ==
  pc = "return" /\ pos > 0 /\ Content[path] # <<>> =>
    (out = 1 <=> OnList(Content[path]))
=============================================================================
