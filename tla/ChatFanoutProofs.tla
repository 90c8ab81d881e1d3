-------------------------- MODULE ChatFanoutProofs --------------------------
(***************************************************************************)
(* What ChatHub does with messages, for every set of users, chats and      *)
(* connections, every buffer capacity and every choice of faults: only     *)
(* members receive them, in the order of the sender, and the hub           *)
(* implements MessageFanout.                                               *)
(***************************************************************************)
EXTENDS ChatHubProofs, SequenceTheorems

----------------------------------------------------------------------------
(***************************************************************************)
(* The invariant.  A message is followed from its row through the job of   *)
(* its sender to buffers and sockets.                                      *)
(***************************************************************************)

\* A connection has a user, and anything to write, only once authenticated.
AttachInv ==
  \A c \in Conns :
    /\ pc[c] \in {"new", "auth"} => user[c] = Nobody
    /\ pc[c] \in Fresh => wire[c] = << >> /\ send[c] = << >>

\* A row was inserted for a member, by a connection that is authenticated and
\* so keeps its user.
RowInv ==
  \A i \in DOMAIN log :
    /\ user[log[i].by] \in Members[log[i].chat]
    /\ pc[log[i].by] \notin Fresh

\* The message a goroutine broadcasts is the last one it inserted; whoever is
\* still to get it, or is just offered it, is a member.
JobInv ==
  \A c \in Conns : job[c].frame # Notice =>
    /\ job[c].frame \in DOMAIN log
    /\ log[job[c].frame].by = c
    /\ job[c].to \subseteq Members[log[job[c].frame].chat]
    /\ \A i \in DOMAIN log : log[i].by = c => i <= job[c].frame
    /\ pc[c] = "offer" =>
         user[target[c]] \in Members[log[job[c].frame].chat] \ job[c].to

\* The goroutine that broadcasts m will not offer it to the user of d again.
Passed(m, d) ==
  job[log[m].by].frame = m =>
    /\ user[d] \notin job[log[m].by].to
    /\ pc[log[m].by] = "offer" => user[target[log[m].by]] # user[d]

\* m may be on its way to d.
Fits(m, d) ==
  /\ m \in DOMAIN log
  /\ user[d] \in Members[log[m].chat]
  /\ Passed(m, d)

Underway(d) ==
  { wire[d][k] : k \in DOMAIN wire[d] } \cup ({ send[d][k] : k \in DOMAIN send[d] } \ {Notice})

StreamInv == \A d \in Conns : \A m \in Underway(d) : Fits(m, d)

\* a may go out before b.
Before(a, b) ==
  (a # Notice /\ b # Notice /\ log[a].by = log[b].by) => a < b

OrderInv ==
  \A d \in Conns :
    /\ \A i, j \in DOMAIN wire[d] : i < j => Before(wire[d][i], wire[d][j])
    /\ \A i, j \in DOMAIN send[d] : i < j => Before(send[d][i], send[d][j])
    /\ \A i \in DOMAIN wire[d], j \in DOMAIN send[d] : Before(wire[d][i], send[d][j])

FanInv == AttachInv /\ RowInv /\ JobInv /\ StreamInv /\ OrderInv

(* A row of table messages has a chat and an author, and an id other than 0. *)
LEMMA Rows ==
  ASSUME TypeOK
  PROVE  /\ log \in Seq(Row) /\ DOMAIN log = 1 .. Len(log) /\ Notice \notin DOMAIN log
         /\ \A i \in DOMAIN log : log[i].by \in Conns /\ log[i].chat \in Chats
<1>1. log \in Seq(Row)
  BY DEF TypeOK
<1>2. \A i \in DOMAIN log : log[i] \in Row
  BY <1>1
<1>. QED BY <1>1, <1>2 DEF Row, Notice

LEMMA InitFanInv == Init => FanInv
<1>. SUFFICES ASSUME Init PROVE FanInv
  OBVIOUS
<1>1. \A c \in Conns : user[c] = Nobody /\ wire[c] = << >> /\ send[c] = << >>
                      /\ job[c].frame = Notice
  BY DEF Init, NoJob
<1>2. DOMAIN log = {}
  BY DEF Init
<1>. QED BY <1>1, <1>2 DEF FanInv, AttachInv, RowInv, JobInv, StreamInv, OrderInv, Underway

----------------------------------------------------------------------------
(* A step that inserts nothing, sends nothing and writes nothing keeps the *)
(* invariant, whatever it drops: buffers may be lost, jobs may shrink or   *)
(* end, and offers may be given up.                                        *)
Quiet ==
  /\ UNCHANGED << user, log, wire >>
  /\ \A d \in Conns : send'[d] \in {send[d], << >>}
  /\ \A c \in Conns : \/ job'[c].frame = Notice
                      \/ job'[c].frame = job[c].frame /\ job'[c].to \subseteq job[c].to
  /\ \A c \in Conns : pc'[c] = "offer" => pc[c] = "offer" /\ target'[c] = target[c]
  /\ \A c \in Conns : pc'[c] \in Fresh => pc[c] \in Fresh
  /\ \A c \in Conns : pc'[c] \in {"new", "auth"} => pc[c] \in {"new", "auth"}

(* A quiet step keeps the invariant: FanInv asks nothing of a frame, a job *)
(* or an offer that is gone.                                               *)
LEMMA QuietFanInv == ASSUME TypeOK, FanInv, Quiet PROVE FanInv'
<1>. USE DEF Quiet
<1>1. \A i \in DOMAIN log : log[i].by \in Conns
  BY Rows
<1>2. AttachInv'
  BY DEF FanInv, AttachInv
<1>3. RowInv'
  BY <1>1 DEF FanInv, RowInv
<1>4. JobInv'
  BY DEF FanInv, JobInv
<1>5. ASSUME NEW d \in Conns, NEW m \in Underway(d)' PROVE Fits(m, d)'
  <2>1. m \in Underway(d)
    BY DEF Underway
  <2>2. Fits(m, d) /\ m # Notice
    BY <2>1 DEF FanInv, StreamInv, TypeOK, Fits, Notice
  <2>. QED BY <1>1, <2>2 DEF Fits, Passed
<1>6. StreamInv'
  BY <1>5 DEF StreamInv
<1>7. OrderInv'
  BY DEF FanInv, OrderInv, Before
<1>. QED BY <1>2, <1>3, <1>4, <1>6, <1>7 DEF FanInv

(* A connection without rows, frames or senders gets its user. *)
LEMMA AttachFanInv ==
  ASSUME TypeOK, HookInv, FanInv, NEW c \in Conns, NEW u \in Users, Authenticated(c, u)
  PROVE  FanInv'
<1>1. /\ pc[c] = "auth" /\ pc' = [pc EXCEPT ![c] = "store"]
      /\ user' = [user EXCEPT ![c] = u]
      /\ UNCHANGED << job, target, send, wire, log >>
  BY DEF Authenticated, Goto, channels
<1>2. \A i \in DOMAIN log : log[i].by \in Conns /\ log[i].by # c /\ user'[log[i].by] = user[log[i].by]
  <2>1. \A i \in DOMAIN log : log[i].by \in Conns /\ log[i].by # c
    BY <1>1, Rows DEF FanInv, RowInv, Fresh
  <2>. QED BY <1>1, <2>1 DEF TypeOK
<1>3. \A e \in Conns : /\ pc'[e] = "offer" <=> pc[e] = "offer"
                       /\ pc[e] = "offer" => user'[target[e]] = user[target[e]]
  BY <1>1 DEF TypeOK, HookInv, Fresh
<1>4. AttachInv'
  BY <1>1 DEF TypeOK, FanInv, AttachInv, Fresh
<1>5. RowInv'
  BY <1>1, <1>2 DEF TypeOK, FanInv, RowInv, Fresh
<1>6. JobInv'
  BY <1>1, <1>3 DEF FanInv, JobInv
<1>7. StreamInv'
  <2>1. Underway(c) = {}
    BY <1>1 DEF FanInv, AttachInv, Fresh, Underway
  <2>2. \A d \in Conns : Underway(d)' = Underway(d)
    BY <1>1 DEF Underway
  <2>3. ASSUME NEW d \in Conns \ {c}, NEW m \in Underway(d) PROVE Fits(m, d)'
    <3>1. Fits(m, d) /\ user'[d] = user[d]
      BY <1>1 DEF TypeOK, FanInv, StreamInv
    <3>. QED BY <1>1, <1>2, <1>3, <3>1 DEF Fits, Passed
  <2>. QED BY <2>1, <2>2, <2>3 DEF StreamInv
<1>8. OrderInv'
  BY <1>1 DEF FanInv, OrderInv, Before
<1>. QED BY <1>4, <1>5, <1>6, <1>7, <1>8 DEF FanInv

(* A message gets the next id: what is underway is older. *)
LEMMA PostFanInv ==
  ASSUME TypeOK, FanInv, NEW c \in Conns, NEW ch \in Chats, HandleMessage(c, ch)
  PROVE  FanInv'
<1>. DEFINE n == Len(log) + 1
<1>1. /\ pc[c] = "read" /\ pc' = [pc EXCEPT ![c] = "lookup"]
      /\ user[c] \in Members[ch]
      /\ UNCHANGED << user, target, send, wire >>
  BY DEF HandleMessage, Broadcast, Goto, channels
<1>2. PICK found \in SUBSET Members[ch] :
        job' = [job EXCEPT ![c] = [frame |-> n, to |-> found, after |-> "read"]]
  BY DEF HandleMessage, Broadcast
<1>3. /\ n \in Nat \ {0} /\ DOMAIN log' = DOMAIN log \cup {n} /\ n \notin DOMAIN log
      /\ log'[n] = [chat |-> ch, by |-> c]
      /\ \A i \in DOMAIN log : log'[i] = log[i] /\ log[i].by \in Conns /\ i < n
  <2>1. log' = Append(log, [chat |-> ch, by |-> c])
    BY DEF HandleMessage
  <2>2. Len(log) \in Nat /\ [chat |-> ch, by |-> c] \in Row
    BY Rows DEF Row
  <2>. QED BY <2>1, <2>2, Rows
<1>. HIDE DEF n
<1>4. /\ job'[c].frame = n /\ job'[c].to = found
      /\ \A e \in Conns \ {c} : job'[e] = job[e] /\ pc'[e] = pc[e]
      /\ pc'[c] = "lookup"
  BY <1>1, <1>2 DEF TypeOK
<1>5. AttachInv'
  BY <1>1, <1>4 DEF FanInv, AttachInv, Fresh
<1>6. RowInv'
  BY <1>1, <1>3, <1>4 DEF FanInv, RowInv, Fresh
<1>7. JobInv'
  <2>1. CASE Notice = n
    BY <1>3, <2>1 DEF Notice
  <2>2. ASSUME NEW e \in Conns \ {c}, job'[e].frame # Notice
        PROVE  /\ job'[e].frame \in DOMAIN log'
               /\ log'[job'[e].frame].by = e
               /\ job'[e].to \subseteq Members[log'[job'[e].frame].chat]
               /\ \A i \in DOMAIN log' : log'[i].by = e => i <= job'[e].frame
               /\ pc'[e] = "offer" =>
                    user'[target'[e]] \in Members[log'[job'[e].frame].chat] \ job'[e].to
    BY <1>1, <1>3, <1>4, <2>2 DEF FanInv, JobInv
  <2>3. /\ \A i \in DOMAIN log' : i <= n
        /\ n \in DOMAIN log' /\ log'[n].by = c /\ log'[n].chat = ch
    BY <1>3, Rows
  <2>. QED BY <1>4, <2>2, <2>3 DEF JobInv
<1>8. StreamInv'
  <2>1. ASSUME NEW d \in Conns, NEW m \in Underway(d)' PROVE Fits(m, d)'
    <3>1. m \in Underway(d)
      BY <1>1 DEF Underway
    <3>2. Fits(m, d)
      BY <3>1 DEF FanInv, StreamInv
    <3>. QED BY <1>1, <1>3, <1>4, <3>2 DEF Fits, Passed
  <2>. QED BY <2>1 DEF StreamInv
<1>9. OrderInv'
  <2>1. \A d \in Conns : \A k \in DOMAIN wire[d] : wire[d][k] \in DOMAIN log
    BY DEF FanInv, StreamInv, Underway, Fits, TypeOK, Notice
  <2>2. \A d \in Conns : \A k \in DOMAIN send[d] :
          send[d][k] # Notice => send[d][k] \in DOMAIN log
    BY DEF FanInv, StreamInv, Underway, Fits
  <2>3. \A a, b : (/\ a = Notice \/ a \in DOMAIN log
                   /\ b = Notice \/ b \in DOMAIN log
                   /\ Before(a, b)) => Before(a, b)'
    BY <1>3 DEF Before
  <2>4. ASSUME NEW d \in Conns
        PROVE  /\ \A i, j \in DOMAIN wire[d] : i < j => Before(wire[d][i], wire[d][j])'
               /\ \A i, j \in DOMAIN send[d] : i < j => Before(send[d][i], send[d][j])'
               /\ \A i \in DOMAIN wire[d], j \in DOMAIN send[d] :
                     Before(wire[d][i], send[d][j])'
    BY <1>1, <2>1, <2>2, <2>3 DEF FanInv, OrderInv
  <2>. QED BY <1>1, <2>4 DEF OrderInv
<1>. QED BY <1>5, <1>6, <1>7, <1>8, <1>9 DEF FanInv

(* SendToUser finds a connection of a user who is still to get the message: *)
(* the user is off the list, and every connection the message has gone to is *)
(* of another user.                                                        *)
LEMMA LookupFanInv ==
  ASSUME TypeOK, HookInv, FanInv, NEW c \in Conns, pc[c] = "lookup", NEW u \in job[c].to,
         clients[u] # None,
         job' = [job EXCEPT ![c].to = @ \ {u}],
         target' = [target EXCEPT ![c] = clients[u]],
         pc' = [pc EXCEPT ![c] = "offer"],
         UNCHANGED << user, send, wire, log >>
  PROVE  FanInv'
<1>1. u \in Ids /\ user[clients[u]] = u
  BY DEF TypeOK, Jobs, Ids, HookInv
<1>2. /\ target'[c] = clients[u] /\ job'[c].frame = job[c].frame
      /\ job'[c].to = job[c].to \ {u} /\ pc'[c] = "offer"
      /\ \A e \in Conns \ {c} : job'[e] = job[e] /\ pc'[e] = pc[e] /\ target'[e] = target[e]
  BY DEF TypeOK, Jobs
<1>3. AttachInv'
  BY <1>2 DEF FanInv, AttachInv, Fresh
<1>4. RowInv'
  BY <1>2, Rows DEF FanInv, RowInv, Fresh
<1>5. JobInv'
  BY <1>1, <1>2 DEF FanInv, JobInv
<1>6. StreamInv'
  <2>1. ASSUME NEW d \in Conns, NEW m \in Underway(d) PROVE Fits(m, d)'
    <3>1. Fits(m, d)
      BY DEF FanInv, StreamInv
    <3>2. log[m].by \in Conns
      BY <3>1, Rows DEF Fits
    <3>3. CASE log[m].by = c
      BY <1>1, <1>2, <3>1, <3>3 DEF Fits, Passed
    <3>4. CASE log[m].by # c
      BY <1>2, <3>1, <3>2, <3>4 DEF Fits, Passed
    <3>. QED BY <3>3, <3>4
  <2>2. \A d \in Conns : Underway(d)' = Underway(d)
    BY DEF Underway
  <2>. QED BY <2>1, <2>2 DEF StreamInv
<1>7. OrderInv'
  BY DEF FanInv, OrderInv, Before
<1>. QED BY <1>3, <1>4, <1>5, <1>6, <1>7 DEF FanInv

(* The frame goes into the buffer: it is the last its sender inserted, and *)
(* this connection has not got it yet.                                     *)
LEMMA OfferFanInv ==
  ASSUME TypeOK, HookInv, FanInv, NEW c \in Conns, NEW d \in Conns,
         pc[c] = "offer", target[c] = d,
         send' = [send EXCEPT ![d] = Append(@, job[c].frame)],
         target' = [target EXCEPT ![c] = None],
         pc' = [pc EXCEPT ![c] = "lookup"],
         UNCHANGED << job, user, wire, log >>
  PROVE  FanInv'
<1>. DEFINE n == job[c].frame
            k == Len(send[d]) + 1
<1>1. /\ pc'[c] = "lookup"
      /\ \A e \in Conns \ {c} : pc'[e] = pc[e] /\ target'[e] = target[e]
  BY DEF TypeOK
<1>2. /\ DOMAIN send'[d] = DOMAIN send[d] \cup {k} /\ send'[d][k] = n
      /\ \A i \in DOMAIN send[d] : i < k /\ send'[d][i] = send[d][i]
      /\ \A e \in Conns \ {d} : send'[e] = send[e]
      /\ k \in Nat /\ DOMAIN send[d] \subseteq Nat
  <2>1. send[d] \in Seq(Frames) /\ n \in Frames
    BY DEF TypeOK, Jobs
  <2>2. send'[d] = Append(send[d], n) /\ \A e \in Conns \ {d} : send'[e] = send[e]
    BY DEF TypeOK
  <2>. QED BY <2>1, <2>2
<1>. HIDE DEF k
<1>3. pc[d] \notin Fresh
  BY HubAssumption DEF HookInv
<1>4. AttachInv'
  BY <1>1, <1>2, <1>3 DEF FanInv, AttachInv, Fresh
<1>5. RowInv'
  BY <1>1, Rows DEF FanInv, RowInv, Fresh
<1>6. JobInv'
  BY <1>1 DEF FanInv, JobInv
<1>7. ASSUME NEW e \in Conns, NEW m, Fits(m, e) PROVE Fits(m, e)'
  <2>1. log[m].by \in Conns
    BY <1>7, Rows DEF Fits
  <2>. QED BY <1>1, <1>7, <2>1 DEF Fits, Passed
<1>8. ASSUME n # Notice PROVE Fits(n, d)'
  BY <1>1, <1>8 DEF FanInv, JobInv, Fits, Passed
<1>9. StreamInv'
  <2>1. Underway(d)' \subseteq Underway(d) \cup ({n} \ {Notice})
    BY <1>2 DEF Underway
  <2>2. \A e \in Conns \ {d} : Underway(e)' = Underway(e)
    BY <1>2 DEF Underway
  <2>. QED BY <1>7, <1>8, <2>1, <2>2 DEF FanInv, StreamInv
<1>10. ASSUME n # Notice, NEW m \in Underway(d), log[m].by = log[n].by PROVE m < n
  <2>1. Fits(m, d)
    BY <1>10 DEF FanInv, StreamInv
  <2>2. n \in DOMAIN log /\ log[n].by = c /\ \A i \in DOMAIN log : log[i].by = c => i <= n
    BY <1>10 DEF FanInv, JobInv
  <2>3. m # n
    BY <2>1, <2>2 DEF Fits, Passed
  <2>4. m \in Nat /\ n \in Nat
    BY <2>1, <2>2, Rows DEF Fits
  <2>. QED BY <1>10, <2>1, <2>2, <2>3, <2>4 DEF Fits
<1>11. OrderInv'
  <2>1. \A m \in Underway(d) \cup {Notice} : Before(m, n)
    BY <1>10 DEF Before
  <2>2. /\ \A i \in DOMAIN wire[d] : wire[d][i] \in Underway(d)
        /\ \A i \in DOMAIN send[d] : send[d][i] \in Underway(d) \cup {Notice}
    BY DEF Underway
  <2>3. \A i \in DOMAIN send[d] : ~ k < i
    BY <1>2
  <2>4. ASSUME NEW i \in DOMAIN send'[d], NEW j \in DOMAIN send'[d], i < j
        PROVE  Before(send'[d][i], send'[d][j])
    <3>1. i # k
      BY <1>2, <2>3, <2>4
    <3>2. CASE j = k
      BY <1>2, <2>1, <2>2, <3>1, <3>2
    <3>3. CASE j # k
      BY <1>2, <2>4, <3>1, <3>3 DEF FanInv, OrderInv
    <3>. QED BY <3>2, <3>3
  <2>5. ASSUME NEW i \in DOMAIN wire[d], NEW j \in DOMAIN send'[d]
        PROVE  Before(wire[d][i], send'[d][j])
    BY <1>2, <2>1, <2>2 DEF FanInv, OrderInv
  <2>6. ASSUME NEW e \in Conns \ {d}
        PROVE  /\ \A i, j \in DOMAIN send'[e] : i < j => Before(send'[e][i], send'[e][j])
               /\ \A i \in DOMAIN wire[e], j \in DOMAIN send'[e] :
                     Before(wire[e][i], send'[e][j])
    BY <1>2 DEF FanInv, OrderInv
  <2>7. \A e \in Conns : \A i, j \in DOMAIN wire[e] : i < j => Before(wire[e][i], wire[e][j])
    BY DEF FanInv, OrderInv
  <2>8. \A a, b : Before(a, b)' <=> Before(a, b)
    BY DEF Before
  <2>9. \A e \in Conns : \A i, j \in DOMAIN send'[e] : i < j => Before(send'[e][i], send'[e][j])
    BY <2>4, <2>6
  <2>10. \A e \in Conns : \A i \in DOMAIN wire[e], j \in DOMAIN send'[e] :
            Before(wire[e][i], send'[e][j])
    BY <2>5, <2>6
  <2>. QED BY <2>7, <2>8, <2>9, <2>10 DEF OrderInv, Before
<1>. QED BY <1>4, <1>5, <1>6, <1>9, <1>11 DEF FanInv

(* WritePump takes the oldest frame out of the buffer and writes it, or, on *)
(* a notice or a dead socket, nothing.                                     *)
LEMMA WriteFanInv ==
  ASSUME TypeOK, FanInv, NEW c \in Conns, send[c] # << >>,
         send' = [send EXCEPT ![c] = Tail(@)],
         \/ wire' = wire
         \/ /\ Head(send[c]) # Notice
            /\ wire' = [wire EXCEPT ![c] = Append(@, Head(send[c]))],
         UNCHANGED << pc, job, target, user, log >>
  PROVE  FanInv'
<1>. DEFINE h == send[c][1]
            l == Len(wire[c]) + 1
<1>1. /\ 1 \in DOMAIN send[c] /\ DOMAIN send[c] \subseteq Nat
      /\ \A i \in DOMAIN send'[c] :
            i \in Nat /\ i + 1 \in DOMAIN send[c] /\ send'[c][i] = send[c][i + 1] /\ 1 < i + 1
      /\ \A e \in Conns \ {c} : send'[e] = send[e]
  <2>1. send[c] \in Seq(Frames)
    BY DEF TypeOK
  <2>2. send'[c] = Tail(send[c]) /\ \A e \in Conns \ {c} : send'[e] = send[e]
    BY DEF TypeOK
  <2>3. Len(send[c]) \in Nat \ {0} /\ DOMAIN send[c] = 1 .. Len(send[c])
    BY <2>1
  <2>4. /\ DOMAIN Tail(send[c]) = 1 .. (Len(send[c]) - 1)
        /\ \A i \in 1 .. (Len(send[c]) - 1) : Tail(send[c])[i] = send[c][i + 1]
    BY <2>1, <2>3
  <2>5. PICK n \in Nat \ {0} : Len(send[c]) = n
    BY <2>3
  <2>6. DOMAIN send[c] = 1 .. n /\ DOMAIN send'[c] = 1 .. (n - 1)
    BY <2>2, <2>3, <2>4, <2>5
  <2>7. \A i \in 1 .. (n - 1) : i \in Nat /\ i + 1 \in 1 .. n /\ 1 < i + 1
    OBVIOUS
  <2>8. \A i \in 1 .. (n - 1) : send'[c][i] = send[c][i + 1]
    BY <2>2, <2>4, <2>5
  <2>9. 1 \in 1 .. n /\ 1 .. n \subseteq Nat
    OBVIOUS
  <2>. QED BY <2>2, <2>6, <2>7, <2>8, <2>9
<1>2. /\ \A e \in Conns \ {c} : wire'[e] = wire[e]
      /\ DOMAIN wire[c] \subseteq Nat
      /\ \/ wire'[c] = wire[c]
         \/ /\ h # Notice
            /\ l \in Nat /\ \A i \in DOMAIN wire[c] : i < l /\ wire'[c][i] = wire[c][i]
            /\ DOMAIN wire'[c] = DOMAIN wire[c] \cup {l} /\ wire'[c][l] = h
  <2>1. wire[c] \in Seq(Frames) /\ send[c] \in Seq(Frames)
    BY DEF TypeOK
  <2>2. Head(send[c]) = h /\ h \in Frames
    BY <2>1
  <2>3. CASE wire' = wire
    BY <2>1, <2>3
  <2>4. CASE h # Notice /\ wire' = [wire EXCEPT ![c] = Append(@, h)]
    <3>1. wire'[c] = Append(wire[c], h) /\ \A e \in Conns \ {c} : wire'[e] = wire[e]
      BY <2>4 DEF TypeOK
    <3>. QED BY <2>1, <2>2, <2>4, <3>1
  <2>. QED BY <2>2, <2>3, <2>4
<1>. HIDE DEF h, l
<1>3. h = send[c][1]
  BY DEF h
<1>4. AttachInv'
  <2>1. pc[c] \notin Fresh
    BY DEF FanInv, AttachInv
  <2>. QED BY <1>1, <1>2, <2>1 DEF FanInv, AttachInv
<1>5. RowInv' /\ JobInv'
  BY DEF FanInv, RowInv, JobInv
<1>6. StreamInv'
  <2>1. Underway(c)' \subseteq Underway(c)
    BY <1>1, <1>2, <1>3 DEF Underway
  <2>2. \A e \in Conns \ {c} : Underway(e)' = Underway(e)
    BY <1>1, <1>2 DEF Underway
  <2>3. \A e \in Conns : \A m : Fits(m, e) => Fits(m, e)'
    BY DEF Fits, Passed
  <2>. QED BY <2>1, <2>2, <2>3 DEF FanInv, StreamInv
<1>7. OrderInv'
  <2>1. /\ \A i, j \in DOMAIN wire[c] : i < j => Before(wire[c][i], wire[c][j])
        /\ \A i, j \in DOMAIN send[c] : i < j => Before(send[c][i], send[c][j])
        /\ \A i \in DOMAIN wire[c], j \in DOMAIN send[c] : Before(wire[c][i], send[c][j])
    BY DEF FanInv, OrderInv
  <2>2. ASSUME NEW i \in DOMAIN wire'[c], NEW j \in DOMAIN wire'[c], i < j
        PROVE  Before(wire'[c][i], wire'[c][j])
    <3>1. CASE wire'[c] = wire[c]
      BY <2>1, <2>2, <3>1
    <3>2. CASE wire'[c] # wire[c]
      <4>1. i # l /\ i \in DOMAIN wire[c]
        BY <1>2, <2>2, <3>2
      <4>2. CASE j = l
        BY <1>1, <1>2, <1>3, <2>1, <3>2, <4>1, <4>2
      <4>3. CASE j # l
        BY <1>2, <2>1, <2>2, <3>2, <4>1, <4>3
      <4>. QED BY <4>2, <4>3
    <3>. QED BY <3>1, <3>2
  <2>3. ASSUME NEW i \in DOMAIN send'[c], NEW j \in DOMAIN send'[c], i < j
        PROVE  Before(send'[c][i], send'[c][j])
    <3>1. i + 1 < j + 1
      BY <1>1, <2>3
    <3>. QED BY <1>1, <2>1, <3>1
  <2>4. ASSUME NEW i \in DOMAIN wire'[c], NEW j \in DOMAIN send'[c]
        PROVE  Before(wire'[c][i], send'[c][j])
    <3>1. CASE i \in DOMAIN wire[c] /\ wire'[c][i] = wire[c][i]
      BY <1>1, <2>1, <3>1
    <3>2. CASE wire'[c][i] = h
      BY <1>1, <1>3, <2>1, <3>2
    <3>. QED BY <1>2, <3>1, <3>2
  <2>5. ASSUME NEW e \in Conns \ {c}
        PROVE  /\ \A i, j \in DOMAIN wire'[e] : i < j => Before(wire'[e][i], wire'[e][j])
               /\ \A i, j \in DOMAIN send'[e] : i < j => Before(send'[e][i], send'[e][j])
               /\ \A i \in DOMAIN wire'[e], j \in DOMAIN send'[e] :
                     Before(wire'[e][i], send'[e][j])
    BY <1>1, <1>2 DEF FanInv, OrderInv
  <2>6. \A a, b : Before(a, b)' <=> Before(a, b)
    BY DEF Before
  <2>7. \A e \in Conns : /\ \A i, j \in DOMAIN wire'[e] : i < j => Before(wire'[e][i], wire'[e][j])
                         /\ \A i, j \in DOMAIN send'[e] : i < j => Before(send'[e][i], send'[e][j])
    BY <2>2, <2>3, <2>5
  <2>8. \A e \in Conns : \A i \in DOMAIN wire'[e], j \in DOMAIN send'[e] :
           Before(wire'[e][i], send'[e][j])
    BY <2>4, <2>5
  <2>. QED BY <2>6, <2>7, <2>8 DEF OrderInv, Before
<1>. QED BY <1>4, <1>5, <1>6, <1>7 DEF FanInv

----------------------------------------------------------------------------
(* A crash, a panic, and a step that only moves its goroutine on or starts *)
(* to broadcast a notice are quiet.                                        *)
LEMMA CrashQuiet == ASSUME TypeOK, Crash PROVE Quiet
<1>1. UNCHANGED << user, log, wire >> /\ \A d \in Conns : send'[d] = << >>
  BY DEF Crash
<1>2. \A c \in Conns : job'[c].frame = Notice
  <2>1. NoJob.frame = Notice
    BY DEF NoJob
  <2>. QED BY <2>1 DEF Crash
<1>3. ASSUME NEW c \in Conns
      PROVE  /\ pc'[c] # "offer"
             /\ pc'[c] \in Fresh => pc[c] \in Fresh
             /\ pc'[c] \in {"new", "auth"} => pc[c] \in {"new", "auth"}
  BY DEF Crash, Fresh
<1>. QED BY <1>1, <1>2, <1>3 DEF Quiet

LEMMA GotoQuiet ==
  ASSUME TypeOK, NEW c \in Conns, NEW label,
         pc' = [pc EXCEPT ![c] = label],
         label # "offer",
         label \in Fresh => pc[c] \in Fresh,
         label \in {"new", "auth"} => pc[c] \in {"new", "auth"},
         UNCHANGED << user, log, wire, send >>,
         target' = target \/ target' = [target EXCEPT ![c] = None],
         job' = job \/ \E j : job' = [job EXCEPT ![c] = j] /\ j.frame = Notice
  PROVE  Quiet
  BY DEF TypeOK, Quiet

LEMMA PanicQuiet == ASSUME TypeOK, NEW c \in Conns, pc[c] \notin Fresh, Panic(c) PROVE Quiet
<1>1. CASE Crash
  BY <1>1, CrashQuiet
<1>2. CASE ~ Crash
  <2>1. job' = [job EXCEPT ![c] = NoJob] /\ NoJob.frame = Notice
    BY <1>2 DEF Panic, NoJob
  <2>2. /\ pc' = [pc EXCEPT ![c] = "leaked"] \/ pc' = [pc EXCEPT ![c] = "remove"]
        /\ target' = [target EXCEPT ![c] = None]
        /\ UNCHANGED << user, log, wire, send >>
    BY <1>2 DEF Panic, Goto, channels
  <2>. QED BY <2>1, <2>2, GotoQuiet DEF Fresh
<1>. QED BY <1>1, <1>2

(* A broadcast replaces the job of its goroutine by one with its frame.    *)
LEMMA BroadcastFrame ==
  ASSUME NEW c, NEW frame, NEW to, NEW after, Broadcast(c, frame, to, after)
  PROVE  \E j : job' = [job EXCEPT ![c] = j] /\ j.frame = frame
<1>1. PICK found :
        job' = [job EXCEPT ![c] = [frame |-> frame, to |-> found, after |-> after]]
  BY DEF Broadcast
<1>. DEFINE j == [frame |-> frame, to |-> found, after |-> after]
<1>2. job' = [job EXCEPT ![c] = j] /\ j.frame = frame
  BY <1>1
<1>. HIDE DEF j
<1>. QED BY <1>2

(* Every step keeps the invariant: only Authenticated, HandleMessage,      *)
(* Lookup, Offer and WriteFrame do anything with messages.                 *)
LEMMA NextFanInv == ASSUME TypeOK, HookInv, FanInv, [Next]_vars PROVE FanInv'
<1>. USE QuietFanInv, HubAssumption
<1>1. CASE UNCHANGED vars
  BY <1>1 DEF Quiet, vars, goroutine, channels
<1>2. CASE ProcessDies
  BY <1>2, CrashQuiet DEF ProcessDies
<1>3. ASSUME NEW c \in Conns, Peer(c) PROVE FanInv'
  <2>1. CASE Upgrade(c)
    BY <2>1, GotoQuiet DEF Upgrade, Goto, Fresh, channels
  <2>2. ASSUME NEW u \in Users, Authenticated(c, u) PROVE FanInv'
    BY <2>2, AttachFanInv
  <2>3. CASE AuthRefused(c)
    BY <2>3, GotoQuiet DEF AuthRefused, Goto, Fresh, channels
  <2>4. CASE AuthWrongType(c)
    <3>1. user' = user
      BY <2>4 DEF TypeOK, FanInv, AttachInv, AuthWrongType
    <3>. QED BY <2>4, <3>1, GotoQuiet DEF AuthWrongType, Goto, Fresh, channels
  <2>5. ASSUME NEW ch \in Chats, HandleMessage(c, ch) PROVE FanInv'
    BY <2>5, PostFanInv
  <2>6. ASSUME NEW ch \in Chats, HandleTyping(c, ch) PROVE FanInv'
    <3>1. \E j : job' = [job EXCEPT ![c] = j] /\ j.frame = Notice
      BY <2>6, BroadcastFrame DEF HandleTyping
    <3>. QED BY <2>6, <3>1, GotoQuiet DEF HandleTyping, Broadcast, Goto, Fresh, channels
  <2>7. CASE ReadGivesUp(c)
    BY <2>7, GotoQuiet DEF ReadGivesUp, Goto, Fresh, channels
  <2>8. CASE Disconnect(c)
    BY <2>8 DEF Quiet, Disconnect, goroutine, channels
  <2>. QED BY <1>3, <2>1, <2>2, <2>3, <2>4, <2>5, <2>6, <2>7, <2>8 DEF Peer
<1>4. ASSUME NEW c \in Conns, Step(c) PROVE FanInv'
  <2>1. CASE RegisterStore(c)
    BY <2>1, GotoQuiet DEF RegisterStore, Goto, Fresh, channels
  <2>2. CASE RegisterFlag(c)
    <3>1. \E j : job' = [job EXCEPT ![c] = j] /\ j.frame = Notice
      BY <2>2, BroadcastFrame DEF RegisterFlag
    <3>. QED BY <2>2, <3>1, GotoQuiet DEF RegisterFlag, Broadcast, Goto, Fresh, channels
  <2>3. CASE Lookup(c)
    <3>1. PICK u \in job[c].to :
            /\ job' = [job EXCEPT ![c].to = @ \ {u}]
            /\ \/ /\ clients[u] = None
                  /\ UNCHANGED << pc, target >>
               \/ /\ clients[u] # None
                  /\ target' = [target EXCEPT ![c] = clients[u]]
                  /\ pc' = [pc EXCEPT ![c] = "offer"]
      BY <2>3 DEF Lookup, Goto
    <3>2. pc[c] = "lookup" /\ UNCHANGED << user, send, wire, log >>
      BY <2>3 DEF Lookup, channels
    <3>3. CASE clients[u] = None
      BY <3>1, <3>2, <3>3 DEF Quiet, TypeOK, Jobs
    <3>4. CASE clients[u] # None
      BY <3>1, <3>2, <3>4, LookupFanInv
    <3>. QED BY <3>3, <3>4
  <2>4. CASE Offer(c)
    <3>1. CASE Panic(c)
      BY <2>4, <3>1, PanicQuiet DEF Offer, Fresh
    <3>2. CASE Len(send[target[c]]) < BufferSize /\ ~ Panic(c)
      <4>1. target[c] \in Conns
        BY <2>4 DEF Offer, TypeOK, HookInv
      <4>. QED BY <2>4, <3>2, <4>1, OfferFanInv DEF Offer, Goto
    <3>3. CASE ~ (Len(send[target[c]]) < BufferSize) /\ ~ Panic(c)
      BY <2>4, <3>3, GotoQuiet DEF Offer, Goto, Fresh, channels
    <3>. QED BY <3>1, <3>2, <3>3
  <2>5. CASE Evict(c)
    BY <2>5, GotoQuiet DEF Evict, Goto, Fresh, channels
  <2>6. CASE CloseSend(c)
    <3>1. CASE Panic(c)
      BY <2>6, <3>1, PanicQuiet DEF CloseSend, Fresh
    <3>2. CASE ~ Panic(c)
      BY <2>6, <3>2 DEF CloseSend, Goto, Quiet, TypeOK, Fresh
    <3>. QED BY <3>1, <3>2
  <2>7. CASE BroadcastDone(c)
    <3>1. CASE Crash
      BY <3>1, CrashQuiet
    <3>2. CASE ~ Crash
      <4>1. \E j : job' = [job EXCEPT ![c] = j] /\ j.frame = Notice
        <5>1. job' = [job EXCEPT ![c] = NoJob]
          BY <2>7, <3>2 DEF BroadcastDone
        <5>2. NoJob.frame = Notice
          BY DEF NoJob
        <5>. QED BY <5>1, <5>2
      <4>. QED BY <2>7, <3>2, <4>1, GotoQuiet DEF BroadcastDone, Goto, Fresh, channels
    <3>. QED BY <3>1, <3>2
  <2>8. CASE ReadFails(c)
    BY <2>8, GotoQuiet DEF ReadFails, Goto, Fresh, channels
  <2>9. CASE UnregisterRemove(c)
    BY <2>9, GotoQuiet DEF UnregisterRemove, Goto, Fresh, channels
  <2>10. CASE UnregisterFlag(c)
    <3>1. \E j : job' = [job EXCEPT ![c] = j] /\ j.frame = Notice
      BY <2>10, BroadcastFrame DEF UnregisterFlag
    <3>. QED BY <2>10, <3>1, GotoQuiet DEF UnregisterFlag, Broadcast, Goto, Fresh, channels
  <2>. QED BY <1>4, <2>1, <2>2, <2>3, <2>4, <2>5, <2>6, <2>7, <2>8, <2>9, <2>10 DEF Step
<1>5. ASSUME NEW c \in Conns, Write(c) PROVE FanInv'
  <2>1. CASE WriteFrame(c)
    BY <2>1, WriteFanInv DEF WriteFrame, goroutine
  <2>2. CASE WriterExits(c)
    BY <2>2 DEF Quiet, WriterExits, goroutine, channels
  <2>. QED BY <1>5, <2>1, <2>2 DEF Write
<1>. QED BY <1>1, <1>2, <1>3, <1>4, <1>5 DEF Next

----------------------------------------------------------------------------
(* FanInv, with what it rests on, holds in every reachable state.          *)
LEMMA FanInvHolds == Spec => [](TypeOK /\ HookInv /\ FanInv)
<1>1. Init => TypeOK /\ HookInv /\ FanInv
  <2>1. Init => HookInv
    BY HubAssumption DEF Init, HookInv, Ids, Fresh
  <2>. QED BY <2>1, InitTypeOK, InitFanInv
<1>2. TypeOK /\ HookInv /\ FanInv /\ [Next]_vars => (TypeOK /\ HookInv /\ FanInv)'
  BY NextTypeOK, NextHookInv, NextFanInv
<1>. QED BY <1>1, <1>2, PTL DEF Spec

(* An entry of a stream is an entry of its wire part or of its send part,  *)
(* and the wire part comes first.                                          *)
LEMMA StreamParts ==
  ASSUME TypeOK, NEW d \in Conns
  PROVE  /\ DOMAIN Stream(d) \subseteq Nat
         /\ \A k \in DOMAIN Stream(d) :
              \/ k \in DOMAIN wire[d] /\ Stream(d)[k] = wire[d][k]
              \/ /\ k > Len(wire[d]) /\ k - Len(wire[d]) \in DOMAIN send[d]
                 /\ Stream(d)[k] = send[d][k - Len(wire[d])]
         /\ Len(wire[d]) \in Nat /\ DOMAIN wire[d] = 1 .. Len(wire[d])
<1>. DEFINE n == Len(wire[d])
            m == Len(send[d])
<1>1. wire[d] \in Seq(Frames) /\ send[d] \in Seq(Frames)
  BY DEF TypeOK
<1>2. /\ n \in Nat /\ DOMAIN wire[d] = 1 .. n
      /\ m \in Nat /\ DOMAIN send[d] = 1 .. m
  BY <1>1
<1>3. /\ wire[d] \o send[d] \in Seq(Frames)
      /\ Len(wire[d] \o send[d]) = n + m
      /\ \A k \in 1 .. n + m :
           (wire[d] \o send[d])[k] = IF k <= n THEN wire[d][k] ELSE send[d][k - n]
  BY <1>1, ConcatProperties
<1>4. DOMAIN Stream(d) = 1 .. n + m
  BY <1>3 DEF Stream
<1>. HIDE DEF n, m
<1>5. \A k \in 1 .. n + m : Stream(d)[k] = IF k <= n THEN wire[d][k] ELSE send[d][k - n]
  BY <1>3 DEF Stream
<1>6. \A k \in 1 .. n + m :
        /\ k \in Nat
        /\ k <= n => k \in 1 .. n
        /\ ~ (k <= n) => k > n /\ k - n \in 1 .. m
  BY <1>2
<1>. QED BY <1>2, <1>4, <1>5, <1>6 DEF n

(* A message reaches a buffer or a socket only once it is stored, and only *)
(* on connections of members of its chat; its author was a member, too.    *)
THEOREM OnlyMembersReceiveHolds == Spec => []OnlyMembersReceive
<1>1. TypeOK /\ FanInv => OnlyMembersReceive
  <2>. SUFFICES ASSUME TypeOK, FanInv PROVE OnlyMembersReceive
    OBVIOUS
  <2>1. ASSUME NEW d \in Conns, NEW k \in DOMAIN Stream(d), Stream(d)[k] # Notice
        PROVE  Fits(Stream(d)[k], d)
    <3>1. Stream(d)[k] \in Underway(d)
      BY <2>1, StreamParts DEF Underway
    <3>. QED BY <3>1 DEF FanInv, StreamInv
  <2>2. \A m \in DOMAIN log : m <= Len(log)
    BY Rows
  <2>. QED BY <2>1, <2>2 DEF OnlyMembersReceive, FanInv, RowInv, Fits
<1>. QED BY <1>1, FanInvHolds, PTL

(* No message goes to the same connection twice, and the messages one      *)
(* connection posted arrive everywhere in the order it posted them.        *)
THEOREM SenderOrderHolds == Spec => []SenderOrder
<1>1. TypeOK /\ FanInv => SenderOrder
  <2>. SUFFICES ASSUME TypeOK, FanInv,
                       NEW d \in Conns, NEW i \in DOMAIN Stream(d), NEW j \in DOMAIN Stream(d),
                       i < j
                PROVE  Before(Stream(d)[i], Stream(d)[j])
    BY DEF SenderOrder, Before
  <2>. DEFINE n == Len(wire[d])
  <2>1. /\ i \in Nat /\ j \in Nat /\ n \in Nat /\ DOMAIN wire[d] = 1 .. n
        /\ \/ i \in DOMAIN wire[d] /\ Stream(d)[i] = wire[d][i]
           \/ i > n /\ i - n \in DOMAIN send[d] /\ Stream(d)[i] = send[d][i - n]
        /\ \/ j \in DOMAIN wire[d] /\ Stream(d)[j] = wire[d][j]
           \/ j > n /\ j - n \in DOMAIN send[d] /\ Stream(d)[j] = send[d][j - n]
    BY StreamParts
  <2>. HIDE DEF n
  <2>2. /\ \A x, y \in DOMAIN wire[d] : x < y => Before(wire[d][x], wire[d][y])
        /\ \A x, y \in DOMAIN send[d] : x < y => Before(send[d][x], send[d][y])
        /\ \A x \in DOMAIN wire[d], y \in DOMAIN send[d] : Before(wire[d][x], send[d][y])
    BY DEF FanInv, OrderInv
  <2>3. i - n < j - n /\ (i > n => j > n)
    BY <2>1
  <2>4. j > n => j \notin DOMAIN wire[d]
    BY <2>1
  <2>. QED BY <2>1, <2>2, <2>3, <2>4
<1>. QED BY <1>1, FanInvHolds, PTL

----------------------------------------------------------------------------
(* What a step does to users, rows and sockets is nothing, or a step of    *)
(* MessageFanout.                                                          *)
LEMMA StepFanout ==
  ASSUME TypeOK, FanInv, Next
  PROVE  Fanout!Next \/ UNCHANGED Fanout!fanoutVars
<1>. USE DEF Fanout!fanoutVars
<1>1. CASE ProcessDies
  BY <1>1 DEF ProcessDies, Crash
<1>2. ASSUME NEW c \in Conns, NEW u \in Users, Authenticated(c, u) PROVE Fanout!Next
  <2>1. user[c] = Nobody /\ wire[c] = << >>
    BY <1>2 DEF Authenticated, FanInv, AttachInv, Fresh
  <2>2. Fanout!Attach(c, u)
    BY <1>2, <2>1 DEF Authenticated, Fanout!Attach
  <2>. QED BY <2>2 DEF Fanout!Next
<1>3. ASSUME NEW c \in Conns, AuthWrongType(c) PROVE UNCHANGED Fanout!fanoutVars
  <2>1. user' = user
    BY <1>3 DEF TypeOK, FanInv, AttachInv, AuthWrongType
  <2>. QED BY <1>3, <2>1 DEF AuthWrongType
<1>4. ASSUME NEW c \in Conns, NEW ch \in Chats, HandleMessage(c, ch) PROVE Fanout!Next
  <2>1. Fanout!Post(c, ch)
    BY <1>4 DEF HandleMessage, Fanout!Post
  <2>. QED BY <2>1 DEF Fanout!Next
<1>5. ASSUME NEW c \in Conns,
             \/ Upgrade(c) \/ AuthRefused(c) \/ ReadGivesUp(c) \/ Disconnect(c)
             \/ \E ch \in Chats : HandleTyping(c, ch)
      PROVE  UNCHANGED Fanout!fanoutVars
  BY <1>5 DEF Upgrade, AuthRefused, ReadGivesUp, Disconnect, HandleTyping
<1>6. ASSUME NEW c \in Conns, Step(c) PROVE UNCHANGED Fanout!fanoutVars
  <2>1. Panic(c) => UNCHANGED << user, log, wire >>
    BY DEF Panic, Crash
  <2>2. CASE Offer(c) \/ CloseSend(c)
    BY <2>1, <2>2 DEF Offer, CloseSend
  <2>3. CASE BroadcastDone(c)
    BY <2>3 DEF BroadcastDone, Crash
  <2>. QED BY <1>6, <2>2, <2>3 DEF Step, RegisterStore, RegisterFlag, Lookup, Evict, ReadFails,
                                   UnregisterRemove, UnregisterFlag
<1>7. ASSUME NEW c \in Conns, WriteFrame(c)
      PROVE  Fanout!Next \/ UNCHANGED Fanout!fanoutVars
  <2>. DEFINE m == Head(send[c])
  <2>1. CASE wire' = wire
    BY <1>7, <2>1 DEF WriteFrame
  <2>2. CASE wire' # wire
    <3>1. /\ m # Notice /\ wire' = [wire EXCEPT ![c] = Append(@, m)]
          /\ UNCHANGED << user, log >>
      BY <1>7, <2>2 DEF WriteFrame
    <3>2. 1 \in DOMAIN send[c] /\ send[c][1] = m
      <4>1. send[c] \in Seq(Frames) /\ send[c] # << >>
        BY <1>7 DEF WriteFrame, TypeOK
      <4>. QED BY <4>1
    <3>. HIDE DEF m
    <3>3. Fits(m, c)
      BY <3>1, <3>2 DEF FanInv, StreamInv, Underway
    <3>4. ASSUME NEW k \in DOMAIN wire[c], log[wire[c][k]].by = log[m].by
          PROVE  wire[c][k] < m
      <4>1. wire[c][k] # Notice
        BY Rows DEF FanInv, StreamInv, Underway, Fits
      <4>2. Before(wire[c][k], m)
        BY <3>2 DEF FanInv, OrderInv
      <4>. QED BY <3>1, <3>4, <4>1, <4>2 DEF Before
    <3>5. Fanout!Deliver(m, c)
      BY <3>1, <3>3, <3>4 DEF Fits, Fanout!Deliver
    <3>. QED BY <3>3, <3>5 DEF Fits, Fanout!Next
  <2>. QED BY <2>1, <2>2
<1>8. ASSUME NEW c \in Conns, WriterExits(c) PROVE UNCHANGED Fanout!fanoutVars
  BY <1>8 DEF WriterExits
<1>. QED BY <1>1, <1>2, <1>3, <1>4, <1>5, <1>6, <1>7, <1>8 DEF Next, Peer, Write

(* The hub implements MessageFanout: buffers, evictions, reconnections and *)
(* restarts drop messages but never repeat, invent or reorder them.        *)
THEOREM FanoutImplemented == Spec => FanoutSpec
<1>1. Init => Fanout!Init
  BY DEF Init, Fanout!Init
<1>2. TypeOK /\ FanInv /\ [Next]_vars => [Fanout!Next]_Fanout!fanoutVars
  <2>1. UNCHANGED vars => UNCHANGED Fanout!fanoutVars
    BY DEF vars, Fanout!fanoutVars
  <2>. QED BY <2>1, StepFanout
<1>. QED BY <1>1, <1>2, FanInvHolds, PTL DEF Spec, FanoutSpec, Fanout!Spec
=============================================================================
