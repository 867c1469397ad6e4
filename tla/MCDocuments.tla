---------------------------- MODULE MCDocuments ----------------------------
(* Constants of the TLC runs of Documents. *)
EXTENDS Documents, TLC

CONSTANTS PageCount

\* Every document has the same number of pages.
MCNumPages == [d \in DocIds |-> PageCount]

Symmetric == Permutations(Runs)
=============================================================================
