--------------------------- MODULE MessageFanout ---------------------------
(***************************************************************************)
(* What the hub promises about messages, without goroutines, buffers, maps *)
(* or Redis: a message is stored once, and from then on it may be written, *)
(* at most once per connection, to connections of members of its chat; the *)
(* messages that came in over one connection go out in the order they came *)
(* in.  Nothing promises that a message is written at all: a connection    *)
(* that is slow, unhooked or gone misses it and finds it in the history.   *)
(***************************************************************************)
EXTENDS Naturals, Sequences

CONSTANTS Users, Nobody, Chats, Members, Conns

VARIABLES
  user,   \* the user a connection was authenticated as, Nobody before
  log,    \* the stored messages, in the order of their ids
  wire    \* connection -> ids of the messages written to it, in order

fanoutVars == << user, log, wire >>

Init ==
  /\ user = [c \in Conns |-> Nobody]
  /\ log = << >>
  /\ wire = [c \in Conns |-> << >>]

\* A connection is authenticated once, before anything is written to it.
Attach(c, u) ==
  /\ user[c] = Nobody
  /\ wire[c] = << >>
  /\ user' = [user EXCEPT ![c] = u]
  /\ UNCHANGED << log, wire >>

Post(c, ch) ==
  /\ user[c] \in Members[ch]
  /\ log' = Append(log, [chat |-> ch, by |-> c])
  /\ UNCHANGED << user, wire >>

\* The message m goes to d after all that d got from the same connection.
Deliver(m, d) ==
  /\ user[d] \in Members[log[m].chat]
  /\ \A k \in DOMAIN wire[d] : log[wire[d][k]].by = log[m].by => wire[d][k] < m
  /\ wire' = [wire EXCEPT ![d] = Append(@, m)]
  /\ UNCHANGED << user, log >>

Next ==
  \/ \E c \in Conns, u \in Users : Attach(c, u)
  \/ \E c \in Conns, ch \in Chats : Post(c, ch)
  \/ \E m \in DOMAIN log, d \in Conns : Deliver(m, d)

Spec == Init /\ [][Next]_fanoutVars
=============================================================================
