--------------------------- MODULE MCRateLimiter ---------------------------
(* Constants of the TLC runs of RateLimiter. *)
EXTENDS RateLimiter, TLC

Symmetric == Permutations(Requests)
=============================================================================
