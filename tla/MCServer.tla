----------------------------- MODULE MCServer -----------------------------
(* Constants of the TLC run of Server. *)
EXTENDS Server

\* No setting, settings for which there is no ticker, and an even and an odd
\* number of minutes.
MCSettings == {None, -1, 0, 1, 2, 3, 5}
=============================================================================
