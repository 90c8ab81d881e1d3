--------------------------- MODULE ChatHubProofs ---------------------------
(***************************************************************************)
(* Theorems about ChatHub for every set of users, chats and connections,   *)
(* every buffer capacity, every bound and every choice of faults.          *)
(***************************************************************************)
EXTENDS ChatHub, TLAPS

----------------------------------------------------------------------------
(***************************************************************************)
(* The state is well-formed.  Crash, Panic and Broadcast are parts of      *)
(* several actions, so each has a lemma of its own.                        *)
(***************************************************************************)
LEMMA CrashTypeOK == ASSUME TypeOK, Crash PROVE TypeOK'
  BY HubAssumption DEF TypeOK, Crash, NoJob, Jobs, Notice, Frames, Labels, Ids

LEMMA PanicTypeOK ==
  ASSUME TypeOK, NEW c \in Conns, Panic(c) PROVE TypeOK'
<1>1. NoJob \in Jobs /\ {"leaked", "remove"} \subseteq Labels
  BY HubAssumption DEF NoJob, Jobs, Notice, Frames, Labels
<1>2. CASE Crash
  BY <1>2, CrashTypeOK
<1>3. CASE ~ Crash
  <2>. UNCHANGED << clients, online, user, send, closed, writer, sock, wire, log, flagLost >>
    BY <1>3 DEF Panic, channels
  <2>1. job' \in [Conns -> Jobs] /\ target' \in [Conns -> Conns \cup {None}]
    BY <1>1, <1>3 DEF TypeOK, Panic
  <2>2. pc' \in [Conns -> Labels]
    BY <1>1, <1>3 DEF TypeOK, Panic, Goto
  <2>3. panicking' \subseteq Conns
    BY <1>3 DEF TypeOK, Panic
  <2>. QED BY <2>1, <2>2, <2>3 DEF TypeOK
<1>. QED BY <1>2, <1>3

LEMMA BroadcastTypeOK ==
  ASSUME TypeOK, NEW c \in Conns, NEW frame \in Frames, NEW to \in SUBSET Users,
         NEW after \in {"serve", "read", "exit"}, Broadcast(c, frame, to, after)
  PROVE  job' \in [Conns -> Jobs] /\ pc' \in [Conns -> Labels]
<1>1. PICK found \in SUBSET Users :
        job' = [job EXCEPT ![c] = [frame |-> frame, to |-> found, after |-> after]]
  BY DEF Broadcast
<1>2. [frame |-> frame, to |-> found, after |-> after] \in Jobs
  BY DEF Jobs
<1>3. pc' = [pc EXCEPT ![c] = "lookup"]
  BY DEF Broadcast, Goto
<1>. QED BY <1>1, <1>2, <1>3 DEF TypeOK, Labels

LEMMA InitTypeOK == Init => TypeOK
<1>. SUFFICES ASSUME Init PROVE TypeOK
  OBVIOUS
<1>1. NoJob \in Jobs /\ Nobody \in Ids /\ {"new"} \subseteq Labels
  BY HubAssumption DEF NoJob, Jobs, Notice, Frames, Labels, Ids
<1>2. send \in [Conns -> Seq(Frames)] /\ wire \in [Conns -> Seq(Frames)]
  BY DEF Init
<1>3. \A c \in Conns : Len(send[c]) <= BufferSize
  BY HubAssumption DEF Init
<1>4. log \in Seq(Row) /\ Len(log) <= MaxMessages
  BY HubAssumption DEF Init
<1>. QED BY <1>1, <1>2, <1>3, <1>4 DEF Init, TypeOK

LEMMA NextTypeOK == ASSUME TypeOK, [Next]_vars PROVE TypeOK'
<1>. USE HubAssumption
<1>1. CASE UNCHANGED vars
  BY <1>1 DEF TypeOK, vars, goroutine, channels
<1>2. CASE ProcessDies
  BY <1>2, CrashTypeOK DEF ProcessDies
<1>3. ASSUME NEW c \in Conns, Peer(c) PROVE TypeOK'
  <2>1. CASE Upgrade(c)
    BY <2>1 DEF TypeOK, Upgrade, Goto, Labels, channels
  <2>2. ASSUME NEW u \in Users, Authenticated(c, u) PROVE TypeOK'
    BY <2>2 DEF TypeOK, Authenticated, Goto, Labels, Ids, channels
  <2>3. CASE AuthRefused(c)
    BY <2>3 DEF TypeOK, AuthRefused, Goto, Labels, channels
  <2>4. CASE AuthWrongType(c)
    BY <2>4 DEF TypeOK, AuthWrongType, Goto, Labels, Ids, channels
  <2>5. ASSUME NEW ch \in Chats, HandleMessage(c, ch) PROVE TypeOK'
    <3>1. Len(log) + 1 \in Frames /\ Members[ch] \subseteq Users
      BY <2>5 DEF TypeOK, HandleMessage, Frames
    <3>2. job' \in [Conns -> Jobs] /\ pc' \in [Conns -> Labels]
      BY <2>5, <3>1, BroadcastTypeOK DEF HandleMessage
    <3>3. log' \in Seq(Row) /\ Len(log') <= MaxMessages
      BY <2>5 DEF TypeOK, HandleMessage, Row
    <3>. QED BY <2>5, <3>2, <3>3 DEF TypeOK, HandleMessage, channels
  <2>6. ASSUME NEW ch \in Chats, HandleTyping(c, ch) PROVE TypeOK'
    <3>1. Notice \in Frames /\ Members[ch] \ {user[c]} \subseteq Users
      BY DEF Notice, Frames
    <3>2. job' \in [Conns -> Jobs] /\ pc' \in [Conns -> Labels]
      BY <2>6, <3>1, BroadcastTypeOK DEF HandleTyping
    <3>. QED BY <2>6, <3>2 DEF TypeOK, HandleTyping, channels
  <2>7. CASE ReadGivesUp(c)
    BY <2>7 DEF TypeOK, ReadGivesUp, Goto, Labels, channels
  <2>8. CASE Disconnect(c)
    BY <2>8 DEF TypeOK, Disconnect, goroutine, channels
  <2>. QED BY <1>3, <2>1, <2>2, <2>3, <2>4, <2>5, <2>6, <2>7, <2>8 DEF Peer
<1>4. ASSUME NEW c \in Conns, Step(c) PROVE TypeOK'
  <2>1. CASE RegisterStore(c)
    BY <2>1 DEF TypeOK, RegisterStore, Goto, Labels, channels
  <2>2. CASE RegisterFlag(c)
    <3>1. Notice \in Frames /\ Peers(user[c]) \subseteq Users
      BY DEF Notice, Frames, Peers
    <3>2. job' \in [Conns -> Jobs] /\ pc' \in [Conns -> Labels]
      BY <2>2, <3>1, BroadcastTypeOK DEF RegisterFlag
    <3>. QED BY <2>2, <3>2 DEF TypeOK, RegisterFlag, channels
  <2>3. CASE Lookup(c)
    <3>1. PICK u \in job[c].to : job' = [job EXCEPT ![c].to = @ \ {u}]
      BY <2>3 DEF Lookup
    <3>2. job' \in [Conns -> Jobs]
      <4>1. job[c] \in Jobs
        BY DEF TypeOK
      <4>2. [job[c] EXCEPT !.to = job[c].to \ {u}] \in Jobs
        BY <4>1 DEF Jobs
      <4>3. job' = [job EXCEPT ![c] = [job[c] EXCEPT !.to = job[c].to \ {u}]]
        BY <3>1 DEF TypeOK
      <4>. QED BY <4>2, <4>3 DEF TypeOK
    <3>3. pc' \in [Conns -> Labels]
      BY <2>3 DEF TypeOK, Lookup, Goto, Labels
    <3>4. target' \in [Conns -> Conns \cup {None}]
      BY <2>3 DEF TypeOK, Lookup, Jobs, Ids
    <3>. QED BY <2>3, <3>2, <3>3, <3>4 DEF TypeOK, Lookup, channels
  <2>4. CASE Offer(c)
    <3>1. CASE Panic(c)
      BY <3>1, PanicTypeOK
    <3>2. CASE ~ Panic(c)
      <4>1. job[c].frame \in Frames
        BY DEF TypeOK, Jobs
      <4>2. send' = send \/ /\ Len(send[target[c]]) < BufferSize
                            /\ send' = [send EXCEPT ![target[c]] = Append(@, job[c].frame)]
        BY <2>4, <3>2 DEF Offer, channels
      <4>3. /\ send' \in [Conns -> Seq(Frames)]
            /\ \A d \in Conns : Len(send'[d]) <= BufferSize
        <5>1. CASE send' = send \/ target[c] \notin Conns
          BY <4>2, <5>1 DEF TypeOK
        <5>2. CASE send' # send /\ target[c] \in Conns
          <6>1. /\ Append(send[target[c]], job[c].frame) \in Seq(Frames)
                /\ Len(Append(send[target[c]], job[c].frame)) <= BufferSize
            BY <4>1, <4>2, <5>2 DEF TypeOK
          <6>2. PICK q \in Seq(Frames) : Len(q) <= BufferSize /\ send' = [send EXCEPT ![target[c]] = q]
            BY <4>2, <5>2, <6>1
          <6>. QED BY <5>2, <6>2 DEF TypeOK
        <5>. QED BY <5>1, <5>2
      <4>4. pc' \in [Conns -> Labels] /\ target' \in [Conns -> Conns \cup {None}]
        BY <2>4, <3>2 DEF TypeOK, Offer, Goto, Labels
      <4>. QED BY <2>4, <3>2, <4>3, <4>4 DEF TypeOK, Offer, channels
    <3>. QED BY <3>1, <3>2
  <2>5. CASE Evict(c)
    BY <2>5 DEF TypeOK, Evict, Goto, Labels, channels
  <2>6. CASE CloseSend(c)
    <3>1. CASE Panic(c)
      BY <3>1, PanicTypeOK
    <3>2. CASE ~ Panic(c)
      <4>1. pc' \in [Conns -> Labels] /\ target' \in [Conns -> Conns \cup {None}]
        BY <2>6, <3>2 DEF TypeOK, CloseSend, Goto, Labels
      <4>2. closed' \in [Conns -> BOOLEAN]
        BY <2>6, <3>2 DEF TypeOK, CloseSend
      <4>. QED BY <2>6, <3>2, <4>1, <4>2 DEF TypeOK, CloseSend
    <3>. QED BY <3>1, <3>2
  <2>7. CASE BroadcastDone(c)
    <3>1. NoJob \in Jobs
      BY DEF NoJob, Jobs, Notice, Frames
    <3>2. CASE Crash
      BY <3>2, CrashTypeOK
    <3>3. CASE ~ Crash
      <4>1. job' \in [Conns -> Jobs]
        <5>1. job' = [job EXCEPT ![c] = NoJob]
          BY <2>7, <3>3 DEF BroadcastDone
        <5>. QED BY <3>1, <5>1 DEF TypeOK
      <4>4. pc' \in [Conns -> Labels]
        <5>1. pc' = [pc EXCEPT ![c] = "read"] \/ pc' = [pc EXCEPT ![c] = "done"]
          BY <2>7, <3>3 DEF BroadcastDone, Goto
        <5>. QED BY <5>1 DEF TypeOK, Labels
      <4>2. /\ writer' \in [Conns -> {"off", "run", "stop"}]
            /\ sock' \in [Conns -> {"open", "closing", "closed"}]
        BY <2>7, <3>3 DEF TypeOK, BroadcastDone
      <4>3. UNCHANGED << clients, online, target, panicking, user, send, closed, wire,
                         log, flagLost >>
        BY <2>7, <3>3 DEF BroadcastDone, channels
      <4>. QED BY <4>1, <4>2, <4>3, <4>4 DEF TypeOK
    <3>. QED BY <3>2, <3>3
  <2>8. CASE ReadFails(c)
    BY <2>8 DEF TypeOK, ReadFails, Goto, Labels, channels
  <2>9. CASE UnregisterRemove(c)
    BY <2>9 DEF TypeOK, UnregisterRemove, Goto, Labels, channels
  <2>10. CASE UnregisterFlag(c)
    <3>1. Notice \in Frames /\ Peers(user[c]) \subseteq Users
      BY DEF Notice, Frames, Peers
    <3>2. job' \in [Conns -> Jobs] /\ pc' \in [Conns -> Labels]
      BY <2>10, <3>1, BroadcastTypeOK DEF UnregisterFlag
    <3>. QED BY <2>10, <3>2 DEF TypeOK, UnregisterFlag, channels
  <2>. QED BY <1>4, <2>1, <2>2, <2>3, <2>4, <2>5, <2>6, <2>7, <2>8, <2>9, <2>10 DEF Step
<1>5. ASSUME NEW c \in Conns, Write(c) PROVE TypeOK'
  <2>1. CASE WriteFrame(c)
    <3>1. Head(send[c]) \in Frames /\ Tail(send[c]) \in Seq(Frames)
          /\ Len(Tail(send[c])) <= BufferSize
      BY <2>1 DEF TypeOK, WriteFrame
    <3>2. send' \in [Conns -> Seq(Frames)] /\ \A d \in Conns : Len(send'[d]) <= BufferSize
      BY <2>1, <3>1 DEF TypeOK, WriteFrame
    <3>3. wire' \in [Conns -> Seq(Frames)]
      <4>1. wire' = wire \/ wire' = [wire EXCEPT ![c] = Append(@, Head(send[c]))]
        BY <2>1 DEF WriteFrame
      <4>2. Append(wire[c], Head(send[c])) \in Seq(Frames)
        BY <3>1 DEF TypeOK
      <4>. QED BY <4>1, <4>2 DEF TypeOK
    <3>4. writer' = writer \/ writer' = [writer EXCEPT ![c] = "stop"]
      BY <2>1 DEF WriteFrame
    <3>5. sock' = sock \/ sock' = [sock EXCEPT ![c] = "closed"]
      BY <2>1 DEF WriteFrame
    <3>6. UNCHANGED << clients, online, pc, job, target, panicking, user, closed, log, flagLost >>
      BY <2>1 DEF WriteFrame, goroutine
    <3>. QED BY <3>2, <3>3, <3>4, <3>5, <3>6 DEF TypeOK
  <2>2. CASE WriterExits(c)
    BY <2>2 DEF TypeOK, WriterExits, goroutine, channels
  <2>. QED BY <1>5, <2>1, <2>2 DEF Write
<1>. QED BY <1>1, <1>2, <1>3, <1>4, <1>5 DEF Next

(* TypeOK holds in every reachable state; in particular no buffer ever     *)
(* holds more than its capacity, whatever the faults.                      *)
THEOREM TypeCorrect == Spec => []TypeOK
<1>1. Init => TypeOK
  BY InitTypeOK
<1>2. TypeOK /\ [Next]_vars => TypeOK'
  BY NextTypeOK
<1>. QED BY <1>1, <1>2, PTL DEF Spec

----------------------------------------------------------------------------
(***************************************************************************)
(* MapNeverClosed.  It is not inductive: CloseSend closes a channel several *)
(* steps after the look-up, so the invariant also says that the connection *)
(* to be closed is unhooked already and can not be hooked again, because   *)
(* only a fresh connection is ever hooked.                                 *)
(***************************************************************************)
Fresh == {"new", "auth", "store"}

HookInv ==
  /\ \A u \in Ids : clients[u] # None =>
       /\ user[clients[u]] = u
       /\ ~ closed[clients[u]]
       /\ pc[clients[u]] \notin Fresh
  /\ \A c \in Conns : closed[c] => pc[c] \notin Fresh
  /\ \A c \in Conns : target[c] # None => pc[target[c]] \notin Fresh
  /\ \A c \in Conns : pc[c] \in {"offer", "evict", "close"} => target[c] # None
  /\ \A c \in Conns : pc[c] = "close" => clients[user[target[c]]] # target[c]

LEMMA CrashHookInv == ASSUME TypeOK, HookInv, Crash PROVE HookInv'
  BY HubAssumption DEF TypeOK, HookInv, Crash, Fresh

LEMMA PanicHookInv ==
  ASSUME TypeOK, HookInv, NEW c \in Conns, pc[c] \in InBroadcast, Panic(c)
  PROVE  HookInv'
<1>1. CASE Crash
  BY <1>1, CrashHookInv
<1>2. CASE ~ Crash
  <2>1. /\ target' = [target EXCEPT ![c] = None]
        /\ UNCHANGED << clients, user, closed >>
    BY <1>2 DEF Panic, channels
  <2>2. pc' = [pc EXCEPT ![c] = "leaked"] \/ pc' = [pc EXCEPT ![c] = "remove"]
    BY <1>2 DEF Panic, Goto
  <2>. QED BY HubAssumption, <2>1, <2>2 DEF TypeOK, HookInv, Fresh, InBroadcast
<1>. QED BY <1>1, <1>2

\* Steps that touch neither map, channels, users nor targets, and leave or
\* stay out of the fresh labels.
LEMMA QuietHookInv ==
  ASSUME TypeOK, HookInv, NEW c \in Conns, NEW label \in Labels,
         pc' = [pc EXCEPT ![c] = label],
         label \notin {"offer", "evict", "close"},
         label \in Fresh => pc[c] \in Fresh,
         UNCHANGED << clients, user, closed, target >>
  PROVE  HookInv'
  BY HubAssumption DEF TypeOK, HookInv, Fresh

LEMMA NextHookInv == ASSUME TypeOK, HookInv, [Next]_vars PROVE HookInv'
<1>. USE HubAssumption
<1>1. CASE UNCHANGED vars
  BY <1>1 DEF HookInv, vars, goroutine, channels
<1>2. CASE ProcessDies
  BY <1>2, CrashHookInv DEF ProcessDies
<1>3. ASSUME NEW c \in Conns, Peer(c) PROVE HookInv'
  <2>1. CASE Upgrade(c)
    BY <2>1, QuietHookInv DEF Upgrade, Goto, Labels, Fresh, channels
  <2>2. ASSUME NEW u \in Users, Authenticated(c, u) PROVE HookInv'
    BY <2>2 DEF TypeOK, HookInv, Authenticated, Goto, Fresh, channels
  <2>3. CASE AuthRefused(c)
    BY <2>3, QuietHookInv DEF AuthRefused, Goto, Labels, Fresh, channels
  <2>4. CASE AuthWrongType(c)
    BY <2>4 DEF TypeOK, HookInv, AuthWrongType, Goto, Fresh, channels
  <2>5. ASSUME NEW ch \in Chats, HandleMessage(c, ch) PROVE HookInv'
    BY <2>5, QuietHookInv DEF HandleMessage, Broadcast, Goto, Labels, Fresh, channels
  <2>6. ASSUME NEW ch \in Chats, HandleTyping(c, ch) PROVE HookInv'
    BY <2>6, QuietHookInv DEF HandleTyping, Broadcast, Goto, Labels, Fresh, channels
  <2>7. CASE ReadGivesUp(c)
    BY <2>7, QuietHookInv DEF ReadGivesUp, Goto, Labels, Fresh, channels
  <2>8. CASE Disconnect(c)
    BY <2>8 DEF HookInv, Disconnect, goroutine, channels
  <2>. QED BY <1>3, <2>1, <2>2, <2>3, <2>4, <2>5, <2>6, <2>7, <2>8 DEF Peer
<1>4. ASSUME NEW c \in Conns, Step(c) PROVE HookInv'
  <2>1. CASE RegisterStore(c)
    BY <2>1 DEF TypeOK, HookInv, RegisterStore, Goto, Fresh, channels
  <2>2. CASE RegisterFlag(c)
    BY <2>2, QuietHookInv DEF RegisterFlag, Broadcast, Goto, Labels, Fresh, channels
  <2>3. CASE Lookup(c)
    <3>1. PICK u \in job[c].to :
            \/ UNCHANGED << pc, target >>
            \/ /\ clients[u] # None
               /\ target' = [target EXCEPT ![c] = clients[u]]
               /\ pc' = [pc EXCEPT ![c] = "offer"]
      BY <2>3 DEF Lookup, Goto
    <3>2. u \in Ids /\ pc[c] = "lookup" /\ UNCHANGED << clients, user, closed >>
      BY <2>3, <3>1 DEF TypeOK, Jobs, Ids, Lookup, channels
    <3>3. CASE UNCHANGED << pc, target >>
      BY <3>2, <3>3 DEF HookInv
    <3>4. CASE /\ clients[u] # None
               /\ target' = [target EXCEPT ![c] = clients[u]]
               /\ pc' = [pc EXCEPT ![c] = "offer"]
      <4>1. clients[u] \in Conns /\ pc[clients[u]] \notin Fresh
        BY <3>2, <3>4 DEF TypeOK, HookInv
      <4>2. \A d \in Conns : pc'[d] \in Fresh <=> pc[d] \in Fresh
        BY <3>2, <3>4 DEF TypeOK, Fresh
      <4>. QED BY <3>2, <3>4, <4>1, <4>2 DEF TypeOK, HookInv
    <3>. QED BY <3>1, <3>3, <3>4
  <2>4. CASE Offer(c)
    <3>1. CASE Panic(c)
      BY <2>4, <3>1, PanicHookInv DEF Offer, InBroadcast
    <3>2. CASE ~ Panic(c)
      <4>1. pc[c] = "offer" /\ UNCHANGED << clients, user, closed >>
        BY <2>4, <3>2 DEF Offer, channels
      <4>2. \/ /\ target' = [target EXCEPT ![c] = None]
               /\ pc' = [pc EXCEPT ![c] = "lookup"]
            \/ /\ target' = target
               /\ pc' = [pc EXCEPT ![c] = "evict"]
        BY <2>4, <3>2 DEF Offer, Goto
      <4>3. \A d \in Conns : pc'[d] \in Fresh <=> pc[d] \in Fresh
        BY <4>1, <4>2 DEF TypeOK, Fresh
      <4>4. \A d \in Conns : target'[d] # None => target'[d] = target[d]
        BY <4>2 DEF TypeOK
      <4>5. \A d \in Conns : pc'[d] \in {"offer", "evict", "close"} =>
              target'[d] # None /\ (pc'[d] = "close" => pc[d] = "close")
        BY <4>1, <4>2 DEF TypeOK, HookInv
      <4>. QED BY <4>1, <4>3, <4>4, <4>5 DEF TypeOK, HookInv
    <3>. QED BY <3>1, <3>2
  <2>5. CASE Evict(c)
    BY <2>5 DEF TypeOK, HookInv, Evict, Goto, Fresh, channels
  <2>6. CASE CloseSend(c)
    <3>1. CASE Panic(c)
      BY <2>6, <3>1, PanicHookInv DEF CloseSend, InBroadcast
    <3>2. CASE ~ Panic(c)
      <4>1. /\ pc[c] = "close"
            /\ closed' = [closed EXCEPT ![target[c]] = TRUE]
            /\ target' = [target EXCEPT ![c] = None]
            /\ pc' = [pc EXCEPT ![c] = "lookup"]
            /\ UNCHANGED << clients, user >>
        BY <2>6, <3>2 DEF CloseSend, Goto
      <4>. QED BY <4>1 DEF TypeOK, HookInv, Fresh
    <3>. QED BY <3>1, <3>2
  <2>7. CASE BroadcastDone(c)
    <3>1. CASE Crash
      BY <3>1, CrashHookInv
    <3>2. CASE ~ Crash
      <4>1. pc' = [pc EXCEPT ![c] = "read"] \/ pc' = [pc EXCEPT ![c] = "done"]
        BY <2>7, <3>2 DEF BroadcastDone, Goto
      <4>2. UNCHANGED << clients, user, closed, target >>
        BY <2>7, <3>2 DEF BroadcastDone, channels
      <4>. QED BY <4>1, <4>2, QuietHookInv DEF Labels, Fresh
    <3>. QED BY <3>1, <3>2
  <2>8. CASE ReadFails(c)
    BY <2>8, QuietHookInv DEF ReadFails, Goto, Labels, Fresh, channels
  <2>9. CASE UnregisterRemove(c)
    BY <2>9 DEF TypeOK, HookInv, UnregisterRemove, Goto, Fresh, channels
  <2>10. CASE UnregisterFlag(c)
    BY <2>10, QuietHookInv DEF UnregisterFlag, Broadcast, Goto, Labels, Fresh, channels
  <2>. QED BY <1>4, <2>1, <2>2, <2>3, <2>4, <2>5, <2>6, <2>7, <2>8, <2>9, <2>10 DEF Step
<1>5. ASSUME NEW c \in Conns, Write(c) PROVE HookInv'
  BY <1>5 DEF HookInv, Write, WriteFrame, WriterExits, goroutine, channels
<1>. QED BY <1>1, <1>2, <1>3, <1>4, <1>5 DEF Next

(* The map never leads to a closed channel, and an entry always leads to a *)
(* connection of the user it belongs to: Evict before CloseSend is the     *)
(* right order, and no interleaving hooks an evicted connection again.     *)
THEOREM MapNeverClosedHolds == Spec => []MapNeverClosed
<1>1. Init => TypeOK /\ HookInv
  <2>1. Init => HookInv
    BY HubAssumption DEF Init, HookInv, Ids, Fresh
  <2>. QED BY <2>1, InitTypeOK
<1>2. TypeOK /\ HookInv /\ [Next]_vars => (TypeOK /\ HookInv)'
  BY NextTypeOK, NextHookInv
<1>3. TypeOK /\ HookInv => MapNeverClosed
  BY DEF HookInv, MapNeverClosed
<1>. QED BY <1>1, <1>2, <1>3, PTL DEF Spec
----------------------------------------------------------------------------
(***************************************************************************)
(* NoStaleFlag.  It is inductive given TypeOK: only UnregisterFlag gives up *)
(* the flag of a user, and it clears the flag when it does; whatever else  *)
(* happens to a connection that holds the flag leads to its UnregisterFlag *)
(* or to a crash, but for the panic of Register's broadcast, after which   *)
(* the connection has leaked and stays so.                                 *)
(***************************************************************************)
\* The flag of c's user may be up on account of c.
Raises(c) == HoldsFlag(c) \/ Leaked(c)

LEMMA BroadcastAfter ==
  ASSUME NEW c, NEW frame, NEW to, NEW after, Broadcast(c, frame, to, after)
  PROVE  \E j : job' = [job EXCEPT ![c] = j] /\ j.after = after
<1>1. PICK found :
        job' = [job EXCEPT ![c] = [frame |-> frame, to |-> found, after |-> after]]
  BY DEF Broadcast
<1>. DEFINE j == [frame |-> frame, to |-> found, after |-> after]
<1>2. j.after = after
  OBVIOUS
<1>3. job' = [job EXCEPT ![c] = j]
  BY <1>1
<1>. HIDE DEF j
<1>. QED BY <1>2, <1>3

LEMMA FlagKept ==
  ASSUME TypeOK, NEW c \in Conns, NEW d \in Conns, Raises(d),
         Peer(c) \/ Step(c) \/ Write(c), ~ Crash,
         ~ (c = d /\ UnregisterFlag(c))
  PROVE  user'[d] = user[d] /\ Raises(d)'
<1>. USE DEF TypeOK, Raises, HoldsFlag, Leaked, InBroadcast, Goto
<1>1. ASSUME Panic(c), pc[c] \in InBroadcast PROVE user'[d] = user[d] /\ Raises(d)'
  BY <1>1 DEF Panic, NoJob
<1>2. CASE Upgrade(c)
  BY <1>2 DEF Upgrade
<1>3. ASSUME NEW u \in Users, Authenticated(c, u)
      PROVE  user'[d] = user[d] /\ Raises(d)'
  BY <1>3 DEF Authenticated
<1>4. CASE AuthRefused(c)
  BY <1>4 DEF AuthRefused
<1>5. CASE AuthWrongType(c)
  BY <1>5 DEF AuthWrongType
<1>6. ASSUME NEW ch \in Chats, HandleMessage(c, ch) \/ HandleTyping(c, ch)
      PROVE  user'[d] = user[d] /\ Raises(d)'
  <2>1. user' = user /\ pc' = [pc EXCEPT ![c] = "lookup"] /\ pc[c] = "read"
    BY <1>6 DEF HandleMessage, HandleTyping, Broadcast
  <2>2. PICK j : job' = [job EXCEPT ![c] = j] /\ j.after = "read"
    BY <1>6, BroadcastAfter DEF HandleMessage, HandleTyping
  <2>. QED BY <2>1, <2>2
<1>7. CASE ReadGivesUp(c) \/ ReadFails(c)
  BY <1>7 DEF ReadGivesUp, ReadFails
<1>8. CASE Disconnect(c) \/ Write(c)
  BY <1>8 DEF Disconnect, Write, WriteFrame, WriterExits, goroutine
<1>9. CASE RegisterStore(c)
  BY <1>9 DEF RegisterStore
<1>10. CASE RegisterFlag(c)
  <2>1. user' = user /\ pc' = [pc EXCEPT ![c] = "lookup"] /\ pc[c] = "flag"
    BY <1>10 DEF RegisterFlag, Broadcast
  <2>2. PICK j : job' = [job EXCEPT ![c] = j] /\ j.after = "serve"
    BY <1>10, BroadcastAfter DEF RegisterFlag
  <2>. QED BY <2>1, <2>2
<1>11. CASE Lookup(c)
  <2>1. user' = user /\ pc[c] = "lookup"
        /\ (pc' = pc \/ pc' = [pc EXCEPT ![c] = "offer"])
    BY <1>11 DEF Lookup
  <2>2. \A e \in Conns : job'[e].after = job[e].after
    BY <1>11 DEF Lookup, Jobs
  <2>. QED BY <2>1, <2>2
<1>12. CASE Offer(c)
  BY <1>1, <1>12 DEF Offer
<1>13. CASE Evict(c)
  BY <1>13 DEF Evict
<1>14. CASE CloseSend(c)
  BY <1>1, <1>14 DEF CloseSend
<1>15. CASE BroadcastDone(c)
  BY <1>15 DEF BroadcastDone, NoJob
<1>16. CASE UnregisterRemove(c)
  BY <1>16 DEF UnregisterRemove
<1>17. CASE UnregisterFlag(c)
  <2>1. c # d /\ user' = user /\ pc' = [pc EXCEPT ![c] = "lookup"]
    BY <1>17 DEF UnregisterFlag, Broadcast
  <2>2. PICK j : job' = [job EXCEPT ![c] = j]
    BY <1>17, BroadcastAfter DEF UnregisterFlag
  <2>. QED BY <2>1, <2>2
<1>. QED BY <1>2, <1>3, <1>4, <1>5, <1>6, <1>7, <1>8, <1>9, <1>10, <1>11, <1>12, <1>13,
            <1>14, <1>15, <1>16, <1>17 DEF Peer, Step

\* Only RegisterFlag sets a flag.
LEMMA FlagsSet ==
  ASSUME NEW c \in Conns, Peer(c) \/ Step(c) \/ Write(c), ~ Crash, ~ RegisterFlag(c)
  PROVE  online' \subseteq online /\ (flagLost => flagLost')
<1>1. CASE Peer(c)
  <2>1. ASSUME NEW u \in Users, Authenticated(c, u) PROVE UNCHANGED << online, flagLost >>
    BY <2>1 DEF Authenticated
  <2>2. ASSUME NEW ch \in Chats, HandleMessage(c, ch) \/ HandleTyping(c, ch)
        PROVE  UNCHANGED << online, flagLost >>
    BY <2>2 DEF HandleMessage, HandleTyping
  <2>3. CASE Upgrade(c) \/ AuthRefused(c) \/ AuthWrongType(c) \/ ReadGivesUp(c) \/ Disconnect(c)
    BY <2>3 DEF Upgrade, AuthRefused, AuthWrongType, ReadGivesUp, Disconnect
  <2>. QED BY <1>1, <2>1, <2>2, <2>3 DEF Peer
<1>2. CASE Step(c)
  BY <1>2 DEF Step, RegisterStore, Lookup, Offer, Evict, CloseSend, BroadcastDone,
              ReadFails, UnregisterRemove, UnregisterFlag, Panic
<1>3. CASE Write(c)
  BY <1>3 DEF Write, WriteFrame, WriterExits
<1>. QED BY <1>1, <1>2, <1>3

LEMMA NextNoStaleFlag == ASSUME TypeOK, NoStaleFlag, [Next]_vars PROVE NoStaleFlag'
<1>1. CASE UNCHANGED vars
  BY <1>1 DEF NoStaleFlag, HoldsFlag, Leaked, InBroadcast, vars, goroutine, channels
<1>2. CASE Crash
  BY <1>2 DEF NoStaleFlag, Crash
<1>3. ASSUME NEW c \in Conns, Peer(c) \/ Step(c) \/ Write(c), ~ Crash,
             ~ flagLost', NEW u \in online'
      PROVE  \E d \in Conns : user'[d] = u /\ Raises(d)'
  <2>1. CASE RegisterFlag(c) /\ u = user[c]
    <3>1. user' = user /\ pc' = [pc EXCEPT ![c] = "lookup"]
      BY <2>1 DEF RegisterFlag, Broadcast, Goto
    <3>2. PICK j : job' = [job EXCEPT ![c] = j] /\ j.after = "serve"
      BY <2>1, BroadcastAfter DEF RegisterFlag
    <3>. QED BY <2>1, <3>1, <3>2 DEF TypeOK, Raises, HoldsFlag, Leaked, InBroadcast
  <2>2. CASE ~ (RegisterFlag(c) /\ u = user[c])
    <3>1. u \in online /\ ~ flagLost
      <4>1. CASE RegisterFlag(c)
        BY <1>3, <2>2, <4>1 DEF RegisterFlag
      <4>2. CASE ~ RegisterFlag(c)
        BY <1>3, <4>2, FlagsSet
      <4>. QED BY <4>1, <4>2
    <3>2. PICK d \in Conns : user[d] = u /\ Raises(d)
      BY <3>1 DEF NoStaleFlag, Raises
    <3>3. ~ (c = d /\ UnregisterFlag(c))
      BY <1>3, <3>2 DEF UnregisterFlag
    <3>. QED BY <1>3, <3>2, <3>3, FlagKept
  <2>. QED BY <2>1, <2>2
<1>4. ASSUME ~ Crash, Next PROVE \E c \in Conns : Peer(c) \/ Step(c) \/ Write(c)
  BY <1>4 DEF Next, ProcessDies
<1>5. CASE ~ Crash /\ Next
  BY <1>3, <1>4, <1>5 DEF NoStaleFlag, Raises
<1>. QED BY <1>1, <1>2, <1>5

(* No order of Register and Unregister calls leaves a user online for ever: *)
(* unless the process dies or Redis refuses a Del, every flag belongs to a *)
(* connection that is still to clear it or to one that has leaked.         *)
THEOREM NoStaleFlagHolds == Spec => []NoStaleFlag
<1>1. Init => TypeOK /\ NoStaleFlag
  BY InitTypeOK DEF Init, NoStaleFlag
<1>2. TypeOK /\ NoStaleFlag /\ [Next]_vars => (TypeOK /\ NoStaleFlag)'
  BY NextTypeOK, NextNoStaleFlag
<1>. QED BY <1>1, <1>2, PTL DEF Spec
=============================================================================
