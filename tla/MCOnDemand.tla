----------------------------- MODULE MCOnDemand -----------------------------
(* Model checking of OnDemand on small directories. *)
EXTENDS OnDemand, TLC

CONSTANTS s1, s2, virus, clean, listed, sub, copy, fifo

\* Each file has a base name of its own, except copy: a clean file is called
\* "virus.infected" from the start.
MCFirst == [f \in Files |-> IF f = copy THEN <<virus, 1>> ELSE <<f, 0>>]

\* The two scanners may be exchanged.
ScannerSymmetry == Permutations(Scanners)
=============================================================================
