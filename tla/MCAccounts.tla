---------------------------- MODULE MCAccounts ----------------------------
(* Constants of the TLC run of Accounts. *)
EXTENDS Accounts

\* A key without an expiry, and one that expires while the clock runs.
MCExpiries == {None, 1}
=============================================================================
