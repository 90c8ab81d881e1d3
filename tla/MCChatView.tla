----------------------------- MODULE MCChatView -----------------------------
(* A small instance of an open chat and its history.                       *)
EXTENDS ChatView, TLC

CONSTANTS m1, m2, m3, k1, k2

\* Neither reader looks at what the other has: following one at a time is
\* enough for properties that each speak of one of them.
MCOneReader == cursor = 0 \/ load = "off"

MCSymmetry == Permutations({m1, m2}) \cup Permutations({k1, k2})
=============================================================================
