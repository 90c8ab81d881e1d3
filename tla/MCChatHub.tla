----------------------------- MODULE MCChatHub -----------------------------
(* Small instances of the hub.                                             *)
EXTENDS ChatHub, TLC

CONSTANTS u1, u2, c1, c2, c3, ch1, ch2

\* ch1 is shared by all users; in ch2 there is only u1.
MCMembers == [ch \in Chats |-> IF ch = ch1 THEN Users ELSE {u1}]

\* Users are interchangeable only where ch2 is left out.
MCSymmetry == Permutations(Conns)
MCFullSymmetry == Permutations(Users) \cup Permutations(Conns)
=============================================================================
