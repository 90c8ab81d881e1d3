--------------------------- MODULE MCKeyDirectory ---------------------------
(* A small instance of registrations and PUTs of keys.                     *)
EXTENDS KeyDirectory

CONSTANTS r1, r2, r3
=============================================================================
