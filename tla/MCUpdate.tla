------------------------------ MODULE MCUpdate ------------------------------
EXTENDS Update

CONSTANTS u1, u2, r1

MCTwo == {u1, u2}
MCOne == {u1}
MCReaders == {r1}

\* The old file is longer than the new one, the page of an error shorter.
MCSize == [v \in Versions |-> CASE v = "old" -> 3 [] v = "new" -> 2 [] OTHER -> 1]
=============================================================================
