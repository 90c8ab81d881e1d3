-------------------------- MODULE MCRefreshTokens --------------------------
(* Small instances of the session store.                                   *)
EXTENDS RefreshTokens, TLC

CONSTANTS r1, r2, r3, r4, r5, t1, t2, t3, t4, t5

MCSymmetry == Permutations(Requests) \cup Permutations(Tokens)
=============================================================================
