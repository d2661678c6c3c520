----------------------------- MODULE MCSigScan -----------------------------
(* Model checking of SigScan on all short files over three byte values. *)
EXTENDS SigScan, SequencesExt

CONSTANT MaxFile  \* bound: length of the files

MCFiles == SeqOf(Byte, MaxFile)

\* No line, every single signature, and ordered pairs with two names.
Single == {<<[name |-> <<1>>, sig |-> s]>> : s \in [1 .. SigSize -> Byte]}
Lines == {[name |-> <<1>>, sig |-> <<1, 2>>], [name |-> <<1, 1>>, sig |-> <<1, 1>>],
          [name |-> <<2>>, sig |-> <<1, 0>>]}
MCDatabases == {<<>>} \union Single \union {<<a, b>> : a \in Lines, b \in Lines}
=============================================================================
