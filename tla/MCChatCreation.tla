--------------------------- MODULE MCChatCreation ---------------------------
(* Small instances of chat creation.                                       *)
EXTENDS ChatCreation, TLC

CONSTANTS u1, u2, u3, r1, r2, r3, nobody

\* Nobody else, one id (of a user or of none), two ids, one twice.
MCLists == { << >>, << u1 >>, << u2 >>, << u3 >>, << nobody >>, << u1, u2 >>,
             << u2, u3 >>, << u2, u2 >>, << u3, nobody >> }

MCSymmetry == Permutations(Requests)
=============================================================================
