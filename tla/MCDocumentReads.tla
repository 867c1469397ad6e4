-------------------------- MODULE MCDocumentReads --------------------------
(* Constants of the TLC runs of DocumentReads. *)
EXTENDS DocumentReads

CONSTANTS PageCount

\* Every document has the same number of pages.
MCNumPages == [d \in DocIds |-> PageCount]
=============================================================================
