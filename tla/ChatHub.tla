------------------------------ MODULE ChatHub ------------------------------
(***************************************************************************)
(* The chat hub of the backend: internal/chat/hub.go with the connection   *)
(* goroutines of internal/chat/client.go, ServeWS of internal/chat/        *)
(* handler.go and ValidateWSAuth of internal/security/wsauth.go.           *)
(*                                                                         *)
(* Every WebSocket connection c is served by one goroutine at a time: the  *)
(* HTTP handler ServeWS until Register has returned, ReadPump from then    *)
(* on.  pc[c] is where that goroutine is.  A second goroutine, WritePump,  *)
(* drains the buffered channel c.Send.  All goroutines share the hub's map *)
(* (one *Client per user id), the channels and the online flags in Redis.  *)
(*                                                                         *)
(* A step is one access to shared state, so every interleaving of the      *)
(* lock-protected sections, of the channel operations and of the database  *)
(* and Redis calls is explored.  The map is read in one step and the       *)
(* channel used in a later one, as in SendToUser.                          *)
(***************************************************************************)
EXTENDS Naturals, Sequences

CONSTANTS
  Users,        \* ids of the rows of table users
  Nobody,       \* user id 0, which no row of users has
  Chats,        \* ids of the rows of table chats
  Members,      \* chat -> its members; chat_members rows never change once committed
  Conns,        \* the connections (*Client values) the server ever accepts
  None,         \* no *Client
  BufferSize,   \* capacity of Client.Send (256 in the code)
  MaxMessages,  \* bound on the rows of table messages
  Typists,      \* the users whose clients send typing frames
  Faults        \* what may go wrong: the process dies, a query or a Redis call
                \* fails, a first frame is not an auth frame

Ids == Users \cup {Nobody}

ASSUME HubAssumption ==
  /\ Nobody \notin Users
  /\ None \notin Conns
  /\ Members \in [Chats -> SUBSET Users]
  /\ BufferSize \in Nat \ {0}
  /\ MaxMessages \in Nat
  /\ Typists \subseteq Ids
  /\ Faults \subseteq {"crash", "query", "redis", "frame"}

(* A frame is the id of a stored message, or Notice for an "online" or     *)
(* "typing" frame: it takes a slot of the buffer and nothing tells one     *)
(* such frame from another.                                                *)
Notice == 0
Frames == 0 .. MaxMessages

Labels == { "new", "auth",                        \* before ValidateWSAuth returns
            "store", "flag",                      \* Register
            "lookup", "offer", "evict", "close",  \* SendToUser, once per recipient
            "read",                               \* ReadPump waits for a frame
            "remove", "unflag",                   \* Unregister
            "leaked",                             \* ServeWS recovered from a panic
            "done" }

(* A broadcast in progress: the frame, the user ids not yet served, and    *)
(* the caller that resumes when it is over.                                *)
Jobs == [ frame : Frames, to : SUBSET Users,
          after : {"none", "serve", "read", "exit"} ]
NoJob == [ frame |-> Notice, to |-> {}, after |-> "none" ]

VARIABLES
  clients,    \* Hub.clients: user id -> registered connection or None
  online,     \* user ids whose Redis key online:<id> is "1"
  pc, job, target, panicking,         \* the goroutine serving the connection
  user,       \* Client.UserID
  send,       \* Client.Send: the buffered frames
  closed,     \* has Client.Send been closed?
  writer,     \* WritePump: not started, running or returned
  sock,       \* the WebSocket: "open", "closing" (close frame sent) or "closed"
  wire,       \* ids of the messages written to the socket, in order (history)
  log,        \* table messages: log[i] is the row with id i
  flagLost    \* a clearing of an online flag was lost (history)

goroutine == << pc, job, target, panicking >>
channels  == << send, closed >>
vars == << clients, online, goroutine, user, channels, writer, sock, wire, log, flagLost >>

Row == [ chat : Chats, by : Conns ]

TypeOK ==
  /\ clients \in [Ids -> Conns \cup {None}]
  /\ online \in SUBSET Ids
  /\ pc \in [Conns -> Labels]
  /\ job \in [Conns -> Jobs]
  /\ target \in [Conns -> Conns \cup {None}]
  /\ panicking \in SUBSET Conns
  /\ user \in [Conns -> Ids]
  /\ send \in [Conns -> Seq(Frames)]
  /\ \A c \in Conns : Len(send[c]) <= BufferSize
  /\ closed \in [Conns -> BOOLEAN]
  /\ writer \in [Conns -> {"off", "run", "stop"}]
  /\ sock \in [Conns -> {"open", "closing", "closed"}]
  /\ wire \in [Conns -> Seq(Frames)]
  /\ log \in Seq(Row)
  /\ Len(log) <= MaxMessages
  /\ flagLost \in BOOLEAN

Init ==
  /\ clients = [u \in Ids |-> None]
  /\ online = {}
  /\ pc = [c \in Conns |-> "new"]
  /\ job = [c \in Conns |-> NoJob]
  /\ target = [c \in Conns |-> None]
  /\ panicking = {}
  /\ user = [c \in Conns |-> Nobody]
  /\ send = [c \in Conns |-> << >>]
  /\ closed = [c \in Conns |-> FALSE]
  /\ writer = [c \in Conns |-> "off"]
  /\ sock = [c \in Conns |-> "closed"]
  /\ wire = [c \in Conns |-> << >>]
  /\ log = << >>
  /\ flagLost = FALSE

Goto(c, label) == pc' = [pc EXCEPT ![c] = label]

(***************************************************************************)
(* Crash: the process dies, of a panic nobody recovers or of anything      *)
(* else, and the container is restarted (restart: unless-stopped).  The    *)
(* memory is lost; the database, Redis and what was written stay.          *)
(***************************************************************************)
Crash ==
  /\ clients' = [u \in Ids |-> None]
  /\ pc' = [c \in Conns |-> IF pc[c] = "new" THEN "new" ELSE "done"]
  /\ job' = [c \in Conns |-> NoJob]
  /\ target' = [c \in Conns |-> None]
  /\ panicking' = {}
  /\ send' = [c \in Conns |-> << >>]
  /\ closed' = [c \in Conns |-> FALSE]
  /\ writer' = [c \in Conns |-> IF pc[c] = "new" THEN "off" ELSE "stop"]
  /\ sock' = [c \in Conns |-> "closed"]
  /\ flagLost' = TRUE
  /\ UNCHANGED << online, user, wire, log >>

ProcessDies ==
  /\ "crash" \in Faults
  /\ \E c \in Conns : pc[c] \notin {"new", "done"}
  /\ Crash

(***************************************************************************)
(* ServeWS up to Register: the upgrade and the first frame.                *)
(***************************************************************************)
Upgrade(c) ==
  /\ pc[c] = "new"
  /\ Goto(c, "auth")
  /\ sock' = [sock EXCEPT ![c] = "open"]
  /\ UNCHANGED << clients, online, job, target, panicking, user, channels, writer,
                  wire, log, flagLost >>

\* The first frame carries a valid access token of user u.
Authenticated(c, u) ==
  /\ pc[c] = "auth"
  /\ sock[c] = "open"
  /\ user' = [user EXCEPT ![c] = u]
  /\ Goto(c, "store")
  /\ UNCHANGED << clients, online, job, target, panicking, channels, writer, sock,
                  wire, log, flagLost >>

\* No frame within 10 seconds, no JSON, a token that does not verify or has
\* no numeric user_id: ValidateWSAuth returns an error, ServeWS hangs up.
AuthRefused(c) ==
  /\ pc[c] = "auth"
  /\ Goto(c, "done")
  /\ sock' = [sock EXCEPT ![c] = "closed"]
  /\ UNCHANGED << clients, online, job, target, panicking, user, channels, writer,
                  wire, log, flagLost >>

\* The first frame is JSON of another type: the close frame 4001 is written,
\* then ValidateWSAuth returns (0, err) where err is the nil of Unmarshal, so
\* ServeWS goes on with user id 0.
AuthWrongType(c) ==
  /\ "frame" \in Faults
  /\ pc[c] = "auth"
  /\ sock[c] = "open"
  /\ sock' = [sock EXCEPT ![c] = "closing"]
  /\ user' = [user EXCEPT ![c] = Nobody]
  /\ Goto(c, "store")
  /\ UNCHANGED << clients, online, job, target, panicking, channels, writer, wire,
                  log, flagLost >>

(***************************************************************************)
(* Broadcasting.  The recipients are read from the database first; a query *)
(* that fails, at once or between two rows, leaves some of them out.       *)
(***************************************************************************)
Peers(u) == { v \in Users \ {u} : \E ch \in Chats : {u, v} \subseteq Members[ch] }

Broadcast(c, frame, to, after) ==
  /\ \E found \in IF "query" \in Faults THEN SUBSET to ELSE {to} :
       job' = [job EXCEPT ![c] = [frame |-> frame, to |-> found, after |-> after]]
  /\ Goto(c, "lookup")

\* Faulty Lookup: the recipient is not taken off the list.
LookupRepeats(c) ==
  /\ pc[c] = "lookup"
  /\ \E u \in job[c].to :
       /\ \/ /\ clients[u] = None
             /\ job' = [job EXCEPT ![c].to = @ \ {u}]
             /\ UNCHANGED << pc, target >>
          \/ /\ clients[u] # None
             /\ target' = [target EXCEPT ![c] = clients[u]]
             /\ Goto(c, "offer")
             /\ UNCHANGED job
  /\ UNCHANGED << clients, online, panicking, user, channels, writer, sock, wire,
                  log, flagLost >>

\* SendToUser reads the map under the read lock: nobody there, or a *Client.
Lookup(c) ==
  /\ pc[c] = "lookup"
  /\ \E u \in job[c].to :
       /\ job' = [job EXCEPT ![c].to = @ \ {u}]
       /\ \/ /\ clients[u] = None
             /\ UNCHANGED << pc, target >>
          \/ /\ clients[u] # None
             /\ target' = [target EXCEPT ![c] = clients[u]]
             /\ Goto(c, "offer")
  /\ UNCHANGED << clients, online, panicking, user, channels, writer, sock, wire,
                  log, flagLost >>

\* A panic in ServeWS is recovered by gin and leaves the connection without
\* its pumps; in ReadPump it runs the deferred Unregister and then kills the
\* process; in that deferred call it kills the process at once.
Panic(c) ==
  \/ /\ job[c].after = "serve"
     /\ Goto(c, "leaked")
     /\ job' = [job EXCEPT ![c] = NoJob]
     /\ target' = [target EXCEPT ![c] = None]
     /\ UNCHANGED << clients, online, panicking, user, channels, writer, sock, wire,
                     log, flagLost >>
  \/ /\ job[c].after = "read"
     /\ Goto(c, "remove")
     /\ job' = [job EXCEPT ![c] = NoJob]
     /\ target' = [target EXCEPT ![c] = None]
     /\ panicking' = panicking \cup {c}
     /\ UNCHANGED << clients, online, user, channels, writer, sock, wire, log,
                     flagLost >>
  \/ /\ job[c].after = "exit"
     /\ Crash

\* Faulty Offer: the buffer has no capacity.
OfferUnbounded(c) ==
  LET d == target[c] IN
  /\ pc[c] = "offer"
  /\ \/ /\ closed[d]
        /\ Panic(c)
     \/ /\ ~ closed[d]
        /\ send' = [send EXCEPT ![d] = Append(@, job[c].frame)]
        /\ target' = [target EXCEPT ![c] = None]
        /\ Goto(c, "lookup")
        /\ UNCHANGED << clients, online, job, panicking, user, closed, writer, sock,
                        wire, log, flagLost >>

\* Faulty Offer: a send without the default branch waits for room.
OfferBlocks(c) ==
  LET d == target[c] IN
  /\ pc[c] = "offer"
  /\ Len(send[d]) < BufferSize
  /\ OfferUnbounded(c)

\* select { case client.Send <- data: default: } after the lock was released:
\* a send on a closed channel panics, a full buffer takes the default branch.
Offer(c) ==
  LET d == target[c] IN
  /\ pc[c] = "offer"
  /\ \/ /\ closed[d]
        /\ Panic(c)
     \/ /\ ~ closed[d]
        /\ Len(send[d]) < BufferSize
        /\ send' = [send EXCEPT ![d] = Append(@, job[c].frame)]
        /\ target' = [target EXCEPT ![c] = None]
        /\ Goto(c, "lookup")
        /\ UNCHANGED << clients, online, job, panicking, user, closed, writer, sock,
                        wire, log, flagLost >>
     \/ /\ ~ closed[d]
        /\ Len(send[d]) >= BufferSize
        /\ Goto(c, "evict")
        /\ UNCHANGED << clients, online, job, target, panicking, user, channels,
                        writer, sock, wire, log, flagLost >>

\* Faulty Evict: the entry stays.
EvictKeepsEntry(c) ==
  /\ pc[c] = "evict"
  /\ Goto(c, "close")
  /\ UNCHANGED << clients, online, job, target, panicking, user, channels, writer,
                  sock, wire, log, flagLost >>

\* The default branch: delete the user's entry, whichever connection it holds
\* by now, ...
Evict(c) ==
  /\ pc[c] = "evict"
  /\ clients' = [clients EXCEPT ![user[target[c]]] = None]
  /\ Goto(c, "close")
  /\ UNCHANGED << online, job, target, panicking, user, channels, writer, sock, wire,
                  log, flagLost >>

\* ... and close the channel; closing a closed channel panics.
CloseSend(c) ==
  LET d == target[c] IN
  /\ pc[c] = "close"
  /\ \/ /\ closed[d]
        /\ Panic(c)
     \/ /\ ~ closed[d]
        /\ closed' = [closed EXCEPT ![d] = TRUE]
        /\ target' = [target EXCEPT ![c] = None]
        /\ Goto(c, "lookup")
        /\ UNCHANGED << clients, online, job, panicking, user, send, writer, sock,
                        wire, log, flagLost >>

\* The broadcast returns to its caller: ServeWS starts the pumps, ReadPump
\* reads on, Unregister ends and the connection is closed.  When Unregister
\* ran because of a panic, the process dies of it now.
BroadcastDone(c) ==
  /\ pc[c] = "lookup"
  /\ job[c].to = {}
  /\ \/ /\ job[c].after = "serve"
        /\ writer' = [writer EXCEPT ![c] = "run"]
        /\ Goto(c, "read")
        /\ job' = [job EXCEPT ![c] = NoJob]
        /\ UNCHANGED << clients, online, target, panicking, user, channels, sock, wire,
                        log, flagLost >>
     \/ /\ job[c].after = "read"
        /\ Goto(c, "read")
        /\ job' = [job EXCEPT ![c] = NoJob]
        /\ UNCHANGED << clients, online, target, panicking, user, channels, writer,
                        sock, wire, log, flagLost >>
     \/ /\ job[c].after = "exit"
        /\ c \notin panicking
        /\ sock' = [sock EXCEPT ![c] = "closed"]
        /\ Goto(c, "done")
        /\ job' = [job EXCEPT ![c] = NoJob]
        /\ UNCHANGED << clients, online, target, panicking, user, channels, writer,
                        wire, log, flagLost >>
     \/ /\ job[c].after = "exit"
        /\ c \in panicking
        /\ Crash

(***************************************************************************)
(* Register: the map entry, the Redis flag (an error is ignored), and the  *)
(* "online" broadcast.                                                     *)
(***************************************************************************)
RegisterStore(c) ==
  /\ pc[c] = "store"
  /\ clients' = [clients EXCEPT ![user[c]] = c]
  /\ Goto(c, "flag")
  /\ UNCHANGED << online, job, target, panicking, user, channels, writer, sock, wire,
                  log, flagLost >>

RegisterFlag(c) ==
  /\ pc[c] = "flag"
  /\ \/ online' = online \cup {user[c]}
     \/ "redis" \in Faults /\ UNCHANGED online
  /\ Broadcast(c, Notice, Peers(user[c]), "serve")
  /\ UNCHANGED << clients, target, panicking, user, channels, writer, sock, wire, log,
                  flagLost >>

(***************************************************************************)
(* ReadPump: one frame at a time, handled to the end before the next.      *)
(***************************************************************************)

\* Faulty HandleMessage: everybody gets the message.
HandleMessageToAll(c, ch) ==
  /\ pc[c] = "read"
  /\ sock[c] # "closed"
  /\ user[c] \in Members[ch]
  /\ Len(log) < MaxMessages
  /\ log' = Append(log, [chat |-> ch, by |-> c])
  /\ Broadcast(c, Len(log) + 1, Users, "read")
  /\ UNCHANGED << clients, online, target, panicking, user, channels, writer, sock,
                  wire, flagLost >>

\* handleMessage: the sender must be a member; the row is inserted, and only
\* then is the message broadcast to every member, the sender included.
HandleMessage(c, ch) ==
  /\ pc[c] = "read"
  /\ sock[c] # "closed"
  /\ user[c] \in Members[ch]
  /\ Len(log) < MaxMessages
  /\ log' = Append(log, [chat |-> ch, by |-> c])
  /\ Broadcast(c, Len(log) + 1, Members[ch], "read")
  /\ UNCHANGED << clients, online, target, panicking, user, channels, writer, sock,
                  wire, flagLost >>

\* handleTyping: nothing is stored, the sender is left out.
HandleTyping(c, ch) ==
  /\ pc[c] = "read"
  /\ user[c] \in Typists
  /\ sock[c] # "closed"
  /\ Broadcast(c, Notice, Members[ch] \ {user[c]}, "read")
  /\ UNCHANGED << clients, online, target, panicking, user, channels, writer, sock,
                  wire, log, flagLost >>

\* ReadMessage fails because the peer left or WritePump closed the connection:
\* the deferred Unregister begins.
ReadFails(c) ==
  /\ pc[c] = "read"
  /\ sock[c] = "closed"
  /\ Goto(c, "remove")
  /\ UNCHANGED << clients, online, job, target, panicking, user, channels, writer,
                  sock, wire, log, flagLost >>

\* ReadMessage fails on a connection that can still be written to: no pong
\* within 60 seconds, or a frame above the read limit.
ReadGivesUp(c) ==
  /\ pc[c] = "read"
  /\ sock[c] # "closed"
  /\ Goto(c, "remove")
  /\ UNCHANGED << clients, online, job, target, panicking, user, channels, writer,
                  sock, wire, log, flagLost >>

(***************************************************************************)
(* Unregister: deletes the user's map entry and flag without looking whose *)
(* they are, and broadcasts "offline".                                     *)
(***************************************************************************)
\* Faulty UnregisterRemove: only the connection in the map clears the flag.
UnregisterOwnOnly(c) ==
  /\ pc[c] = "remove"
  /\ \/ /\ clients[user[c]] = c
        /\ clients' = [clients EXCEPT ![user[c]] = None]
        /\ Goto(c, "unflag")
        /\ UNCHANGED job
     \/ /\ clients[user[c]] # c
        /\ Broadcast(c, Notice, {}, "exit")
        /\ UNCHANGED clients
  /\ UNCHANGED << online, target, panicking, user, channels, writer, sock, wire, log,
                  flagLost >>

UnregisterRemove(c) ==
  /\ pc[c] = "remove"
  /\ clients' = [clients EXCEPT ![user[c]] = None]
  /\ Goto(c, "unflag")
  /\ UNCHANGED << online, job, target, panicking, user, channels, writer, sock, wire,
                  log, flagLost >>

UnregisterFlag(c) ==
  /\ pc[c] = "unflag"
  /\ \/ /\ online' = online \ {user[c]}
        /\ UNCHANGED flagLost
     \/ /\ "redis" \in Faults
        /\ flagLost' = TRUE
        /\ UNCHANGED online
  /\ Broadcast(c, Notice, Peers(user[c]), "exit")
  /\ UNCHANGED << clients, target, panicking, user, channels, writer, sock, wire, log >>

(***************************************************************************)
(* WritePump.                                                              *)
(***************************************************************************)
\* Faulty WriteFrame: the frame stays in the buffer.
WriteFrameTwice(c) ==
  /\ writer[c] = "run"
  /\ send[c] # << >>
  /\ \/ /\ sock[c] = "open"
        /\ Head(send[c]) # Notice
        /\ Len(wire[c]) < BufferSize + MaxMessages
        /\ wire' = [wire EXCEPT ![c] = Append(@, Head(send[c]))]
        /\ UNCHANGED << send, writer, sock >>
     \/ /\ send' = [send EXCEPT ![c] = Tail(@)]
        /\ UNCHANGED << wire, writer, sock >>
  /\ UNCHANGED << clients, online, goroutine, user, closed, log, flagLost >>

\* Faulty WriteFrame: nothing is taken from a closed channel.
WriteFrameStopsAtClose(c) ==
  /\ writer[c] = "run"
  /\ send[c] # << >>
  /\ ~ closed[c]
  /\ send' = [send EXCEPT ![c] = Tail(@)]
  /\ UNCHANGED << clients, online, goroutine, user, closed, writer, sock, wire, log,
                  flagLost >>

WriteFrame(c) ==
  /\ writer[c] = "run"
  /\ send[c] # << >>
  /\ send' = [send EXCEPT ![c] = Tail(@)]
  /\ \/ /\ sock[c] = "open"
        /\ wire' = IF Head(send[c]) = Notice THEN wire
                   ELSE [wire EXCEPT ![c] = Append(@, Head(send[c]))]
        /\ UNCHANGED << writer, sock >>
     \/ /\ sock[c] # "open"
        /\ writer' = [writer EXCEPT ![c] = "stop"]
        /\ sock' = [sock EXCEPT ![c] = "closed"]
        /\ UNCHANGED wire
  /\ UNCHANGED << clients, online, goroutine, user, closed, log, flagLost >>

\* Faulty WriterExits: the connection is not closed.
WriterExitsQuietly(c) ==
  /\ writer[c] = "run"
  /\ \/ send[c] = << >> /\ closed[c]
     \/ sock[c] # "open"
  /\ writer' = [writer EXCEPT ![c] = "stop"]
  /\ UNCHANGED << clients, online, goroutine, user, channels, sock, wire, log, flagLost >>

\* The channel is closed and drained, or the ping of the ticker cannot be
\* written: WritePump returns and closes the connection.
WriterExits(c) ==
  /\ writer[c] = "run"
  /\ \/ send[c] = << >> /\ closed[c]
     \/ sock[c] # "open"
  /\ writer' = [writer EXCEPT ![c] = "stop"]
  /\ sock' = [sock EXCEPT ![c] = "closed"]
  /\ UNCHANGED << clients, online, goroutine, user, channels, wire, log, flagLost >>

\* The peer hangs up, or the network or a deadline ends the connection.
Disconnect(c) ==
  /\ pc[c] \notin {"new", "done"}
  /\ sock[c] # "closed"
  /\ sock' = [sock EXCEPT ![c] = "closed"]
  /\ UNCHANGED << clients, online, goroutine, user, channels, writer, wire, log,
                  flagLost >>

----------------------------------------------------------------------------
\* The steps of the goroutine that serves c, once c is authenticated.
Step(c) ==
  \/ RegisterStore(c)
  \/ RegisterFlag(c)
  \/ Lookup(c)
  \/ Offer(c)
  \/ Evict(c)
  \/ CloseSend(c)
  \/ BroadcastDone(c)
  \/ ReadFails(c)
  \/ UnregisterRemove(c)
  \/ UnregisterFlag(c)

Write(c) == WriteFrame(c) \/ WriterExits(c)

Peer(c) ==
  \/ Upgrade(c)
  \/ \E u \in Users : Authenticated(c, u)
  \/ AuthRefused(c)
  \/ AuthWrongType(c)
  \/ \E ch \in Chats : HandleMessage(c, ch) \/ HandleTyping(c, ch)
  \/ ReadGivesUp(c)
  \/ Disconnect(c)

Next == ProcessDies \/ \E c \in Conns : Peer(c) \/ Step(c) \/ Write(c)

Spec == Init /\ [][Next]_vars

\* The Go scheduler runs every goroutine that can run, Lock and the database
\* calls return, and a write ends at its deadline.  Nothing is assumed of the
\* peers, of the network or of crashes.
FairSpec ==
  /\ Spec
  /\ \A c \in Conns : WF_vars(Step(c)) /\ WF_vars(Write(c)) /\ WF_vars(AuthRefused(c))

----------------------------------------------------------------------------
(***************************************************************************)
(* Properties.                                                             *)
(***************************************************************************)

\* Everything on its way to the peer of connection d, oldest first.
Stream(d) == wire[d] \o send[d]

InBroadcast == {"lookup", "offer", "evict", "close"}

\* The serving goroutine of c has set the online flag and not yet cleared it.
HoldsFlag(c) ==
  \/ pc[c] \in {"read", "remove", "unflag"}
  \/ pc[c] \in InBroadcast /\ job[c].after \in {"serve", "read"}

\* The broadcast of Register panicked and gin recovered it: the pumps of c were
\* never started, so nobody will ever unregister c.
Leaked(c) == pc[c] = "leaked"

\* The map never leads to a closed channel: whoever evicts a connection has
\* unhooked it before closing its channel, and nobody hooks it again.  So a
\* sender that finds a closed channel looked it up before the eviction.
MapNeverClosed ==
  \A u \in Ids : clients[u] # None =>
    /\ user[clients[u]] = u
    /\ ~ closed[clients[u]]

\* A message reaches a buffer or a socket only once it is stored, and only on
\* connections of members of its chat; its author was a member, too.
\* (handleMessage checks, inserts and only then broadcasts.)
OnlyMembersReceive ==
  /\ \A i \in DOMAIN log : user[log[i].by] \in Members[log[i].chat]
  /\ \A d \in Conns : \A k \in DOMAIN Stream(d) :
       LET m == Stream(d)[k] IN
       m # Notice => /\ m <= Len(log)
                     /\ user[d] \in Members[log[m].chat]

\* No message goes to the same connection twice, and the messages one
\* connection posted arrive everywhere in the order it posted them, whatever
\* the other connections, evictions and reconnections do meanwhile.
SenderOrder ==
  \A d \in Conns : \A i, j \in DOMAIN Stream(d) :
    LET a == Stream(d)[i]
        b == Stream(d)[j]
    IN  (i < j /\ a # Notice /\ b # Notice /\ log[a].by = log[b].by) => a < b

\* The hub implements MessageFanout: buffers, evictions, reconnections and
\* restarts drop messages but never repeat, invent or reorder them.
Fanout == INSTANCE MessageFanout
            WITH Users <- Users, Nobody <- Nobody, Chats <- Chats, Members <- Members,
                 Conns <- Conns, user <- user, log <- log, wire <- wire
FanoutSpec == Fanout!Spec

\* Unless the process died or Redis refused a Del, a user shown as online has
\* a connection whose Unregister is still to come: no order of the calls of an
\* old and a new connection leaves the flag behind.  The exception is a
\* connection of the user that leaked: its flag is stale, and stays until
\* another connection of the user ends.
NoStaleFlag ==
  ~ flagLost => \A u \in online : \E c \in Conns :
                  user[c] = u /\ (HoldsFlag(c) \/ Leaked(c))

\* A broadcast ends however slow or dead its recipients are: a full buffer
\* never blocks the goroutine that sends to it.
BroadcastEnds ==
  \A c \in Conns : pc[c] \in InBroadcast ~> pc[c] \notin InBroadcast

\* A frame in the buffer of a running WritePump leaves it: it is written, or
\* the connection is over.
BufferDrains ==
  \A c \in Conns : (writer[c] = "run" /\ send[c] # << >>) ~>
                   (send[c] = << >> \/ writer[c] = "stop")

\* A connection that was evicted, or lost its peer, is cleaned up: its map
\* entry and its goroutine are gone in the end.  (ServeWS, ReadPump and
\* WritePump hand the end of the connection to each other through the channel
\* and the socket.)  A connection whose Register panicked has no pumps and is
\* left out.
CleanUp ==
  \A c \in Conns :
    (writer[c] = "run" /\ (closed[c] \/ sock[c] # "open")) ~>
    (pc[c] = "done" /\ writer[c] = "stop" /\ clients[user[c]] # c)

\* hub.go:63 says of the full buffer: "disconnect".  Evicting one connection
\* ends that connection, not the goroutine that was sending to it.
EvictionEndsOnlyTheEvicted ==
  \A c \in Conns : ~ Leaked(c) /\ c \notin panicking

\* hub.go:46 says "user %d disconnected": an entry is removed when its user
\* has no connection that is still being served.
DisconnectedMeansGone ==
  \A c \in Conns :
    pc[c] = "read" /\ sock[c] = "open" /\ ~ closed[c] => clients[user[c]] # None
=============================================================================
