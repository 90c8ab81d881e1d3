--------------------------- MODULE MCRateLimiter ---------------------------
(* A small bucket: two tokens of two units, one unit per tick.             *)
EXTENDS RateLimiter, TLC

CONSTANTS r1, r2, r3, r4, r5

MCSymmetry == Permutations(Requests)
=============================================================================
