----------------------------- MODULE MCOnAccess -----------------------------
(* Model checking of the hook and the scanner together. *)
EXTENDS OnAccess, TLC

CONSTANTS t1, t2, virus, fifo

\* The FIFO is called "virus.infected" from the start.
MCFirst == [f \in Files |-> <<virus, IF f = fifo THEN 1 ELSE 0>>]

\* A relative name of the openers may be the infected file for antv.
MCElsewhere == {<<virus, 0>>}
=============================================================================
