---------------------------- MODULE MCFileStore ----------------------------
(* Constants of the TLC runs of FileStore. *)
EXTENDS FileStore

\* Every content has the same size.
MCSize == [h \in Hashes |-> 1]
=============================================================================
