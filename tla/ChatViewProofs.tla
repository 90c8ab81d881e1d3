--------------------------- MODULE ChatViewProofs ---------------------------
(***************************************************************************)
(* Theorems about the history of a chat and about an open chat of the      *)
(* client.                                                                 *)
(*                                                                         *)
(* Two facts carry them all.  A row never changes once it is stored, so    *)
(* what was true of the rows a page, an answer or a frame was made of      *)
(* stays true.  And id orders the rows totally, created_at up to rows of   *)
(* one microsecond, so the page a cut leaves is known by the cut but for   *)
(* those.                                                                  *)
(***************************************************************************)
EXTENDS ChatView, FiniteSetTheorems, SequenceTheorems, TLAPS

(***************************************************************************)
(* The inductive invariant.                                                *)
(***************************************************************************)

\* How many values of the sequence have been given out.
Given(f) == Cardinality({ m \in Messages : f[m] # 0 })

\* Next1 gives every value once, in the order the statements come to it.
Serial(f) ==
  /\ \A m \in Messages : f[m] <= Given(f)
  /\ \A m, n \in Messages : f[m] = f[n] /\ f[m] # 0 => m = n

TableInv ==
  /\ Serial(id)
  /\ \A m \in Messages : /\ stage[m] = "draft" <=> at[m] = 0
                         /\ stage[m] \in {"draft", "begun"} => id[m] = 0
                         /\ stage[m] \in {"numbered", "stored", "sent"} => id[m] # 0

\* What is stored opens with the key of the process, unless that was replaced after
\* the message was sealed.
ContentInv ==
  \A m \in Messages : stage[m] # "draft" =>
    IF m \in Secret THEN content[m] = Payload(m)
    ELSE \E k \in Keys : content[m] = Encrypt(Payload(m), k) /\ (m \in outdated \/ k = key)

\* The reader goes down in id: what it has is newer than some cut, and all the
\* cuts are behind it.
PagerInv ==
  /\ cursor = 0 => got = {} /\ cuts = {} /\ base = {}
  /\ \A c \in cuts : cursor <= id[c]
  /\ \A m \in got : \E c \in cuts : at[c] <= at[m]
  /\ PagingIsExactButForDisorder

\* The entry shows a row the way ShownAsPosted says.
Faithful(e) ==
  /\ e.of \in Rows
  /\ \/ e.text = Payload(e.of)
     \/ e.of \in outdated \ Secret /\ e.text = content[e.of]

AllFaithful(s) == \A e \in Range(s) : Faithful(e)

TextInv == AllFaithful(answer) /\ AllFaithful(frames) /\ AllFaithful(view)

\* Until the answer lands every message sent is accounted for, and a frame
\* that is shown came before the answer.
LostInv ==
  /\ load = "off" => frames = << >> /\ view = << >>
  /\ \A m \in Messages :
       (stage[m] = "sent" /\ m \notin missed \cup Of(frames) \cup Of(view)) =>
         load = "done" /\ m \in early /\ (m \notin seen \/ PushedOut(m))
  /\ load \in {"asked", "answered"} => Of(view) \subseteq early
  /\ load = "answered" => \A m \in seen \ Of(answer) : PushedOut(m)

Distinct(s) == \A i, j \in DOMAIN s : s[i].of = s[j].of => i = j

\* The frame of m is still to come.
Pending(m) == stage[m] = "stored" \/ m \in Of(frames)

\* A message whose frame is still to come is on the screen at most once, and
\* only because the answer had it.
TwiceInv ==
  /\ Distinct(answer) /\ Distinct(frames)
  /\ load = "answered" => Of(answer) \subseteq seen
  /\ \A m \in early \cup Of(frames) : stage[m] = "sent"
  /\ early \cap Of(frames) = {}
  /\ \A i \in DOMAIN view : Pending(view[i].of) =>
       /\ load = "done"
       /\ view[i].of \in seen \ early
       /\ \A j \in DOMAIN view : view[j].of = view[i].of => j = i
  /\ NothingTwice

IInv == /\ TypeOK /\ TableInv /\ ContentInv /\ PagerInv
        /\ TextInv /\ LostInv /\ TwiceInv

----------------------------------------------------------------------------
(***************************************************************************)
(* The table.                                                              *)
(***************************************************************************)

LEMMA GivenIsNat == ASSUME NEW f PROVE Given(f) \in Nat
<1>1. { m \in Messages : f[m] # 0 } \in SUBSET Messages
  OBVIOUS
<1>2. IsFiniteSet({ m \in Messages : f[m] # 0 })
  BY <1>1, FS_Subset, HistoryAssumption
<1>. QED BY <1>2, FS_CardinalityType DEF Given

(* The value Next1 gives to m is new and the largest. *)
LEMMA NextIsSerial ==
  ASSUME NEW f \in [Messages -> Nat], Serial(f), NEW m \in Messages, f[m] = 0,
         NEW g, g = [f EXCEPT ![m] = Next1(f)]
  PROVE  g \in [Messages -> Nat] /\ Serial(g) /\ g[m] # 0
<1>. DEFINE F == { n \in Messages : f[n] # 0 }
            G == { n \in Messages : g[n] # 0 }
<1>1. Next1(f) = Given(f) + 1 /\ Given(f) \in Nat
  BY GivenIsNat DEF Next1, Given
<1>2. g \in [Messages -> Nat] /\ g[m] = Given(f) + 1 /\ g[m] # 0
  BY <1>1
<1>3. \A n \in Messages : n # m => g[n] = f[n]
  OBVIOUS
<1>4. Given(g) = Given(f) + 1
  <2>1. G = F \cup {m} /\ m \notin F
    BY <1>2, <1>3
  <2>2. IsFiniteSet(F)
    <3>1. F \in SUBSET Messages
      OBVIOUS
    <3>. QED BY <3>1, FS_Subset, HistoryAssumption
  <2>3. Cardinality(G) = Cardinality(F) + 1
    BY <2>1, <2>2, FS_AddElement
  <2>. QED BY <2>3 DEF Given
<1>5. \A n \in Messages : f[n] <= Given(f)
  BY DEF Serial
<1>6. \A n \in Messages : g[n] <= Given(g)
  BY <1>1, <1>2, <1>3, <1>4, <1>5
<1>7. ASSUME NEW n \in Messages, NEW o \in Messages, g[n] = g[o], g[n] # 0
      PROVE  n = o
  <2>1. CASE n # m /\ o # m
    BY <1>3, <1>7, <2>1 DEF Serial
  <2>2. CASE n = m \/ o = m
    BY <1>1, <1>2, <1>3, <1>5, <1>7, <2>2
  <2>. QED BY <2>1, <2>2
<1>. QED BY <1>2, <1>6, <1>7 DEF Serial

LEMMA InitIInv == Init => IInv
<1>. SUFFICES ASSUME Init PROVE IInv
  OBVIOUS
<1>. USE DEF Init, HistoryInit
<1>1. Rows = {}
  BY DEF Rows
<1>2. << >> \in Seq(Entries)
  BY EmptySeq
<1>3. TypeOK
  <2>1. HistoryTypeOK
    BY <1>1 DEF HistoryTypeOK, Stages
  <2>. QED BY <1>1, <1>2, <2>1 DEF TypeOK
<1>4. TableInv
  <2>1. Given(id) \in Nat
    BY GivenIsNat
  <2>2. Serial(id)
    BY <2>1 DEF Serial
  <2>. QED BY <2>2 DEF TableInv
<1>5. ContentInv
  BY DEF ContentInv
<1>6. PagerInv
  BY DEF PagerInv, PagingIsExactButForDisorder
<1>7. DOMAIN answer = {} /\ DOMAIN frames = {} /\ DOMAIN view = {}
  OBVIOUS
<1>8. TextInv /\ LostInv /\ TwiceInv
  BY <1>7 DEF TextInv, AllFaithful, Range, LostInv, TwiceInv, Distinct, Of, NothingTwice
<1>. QED BY <1>3, <1>4, <1>5, <1>6, <1>8 DEF IInv

(* A row stays, and stays as it is. *)
LEMMA RowsStay ==
  ASSUME TypeOK, [Next]_vars
  PROVE  /\ Rows \subseteq Rows'
         /\ \A m \in Rows : id'[m] = id[m] /\ at'[m] = at[m] /\ content'[m] = content[m]
         /\ \A m \in Messages : stage[m] = "sent" => stage'[m] = "sent"
         /\ outdated \subseteq outdated'
<1>. USE DEF TypeOK, HistoryTypeOK, Rows
<1>1. ASSUME NEW m \in Messages, Store(m) /\ UNCHANGED screen
      PROVE  /\ \A n \in Messages : stage[n] \in {"stored", "sent"} => stage'[n] = stage[n]
             /\ \A n \in Rows : id'[n] = id[n] /\ at'[n] = at[n] /\ content'[n] = content[n]
             /\ outdated' = outdated
  BY <1>1 DEF Store, HandleMessage, NextVal, Commit, Move, server
<1>2. ASSUME NEW m \in Messages, Broadcast(m)
      PROVE  /\ \A n \in Messages : stage[n] \in {"stored", "sent"} => stage'[n] \in {stage[n], "sent"}
             /\ UNCHANGED << id, at, content, outdated >>
  BY <1>2 DEF Broadcast, Move, server
<1>3. CASE Restart
  <2>1. \A n \in Messages : stage[n] \in {"stored", "sent"} => stage'[n] = "sent"
    BY <1>3 DEF Restart
  <2>2. UNCHANGED << id, at, content >> /\ outdated \subseteq outdated'
    BY <1>3 DEF Restart
  <2>. QED BY <2>1, <2>2
<1>4. CASE \/ \E n \in Limits : ReadPage(n) /\ UNCHANGED screen
           \/ OpenChat \/ Select \/ LoadLands \/ LoadFails \/ FrameArrives
           \/ UNCHANGED vars
  <2>1. UNCHANGED << table, outdated >>
    BY <1>4 DEF ReadPage, OpenChat, Select, LoadLands, LoadFails, FrameArrives, vars, server
  <2>. QED BY <2>1 DEF table
<1>. QED BY <1>1, <1>2, <1>3, <1>4 DEF Next

LEMMA TableNext == ASSUME TypeOK, TableInv, [Next]_vars PROVE TableInv'
<1>. USE DEF TypeOK, HistoryTypeOK
<1>1. ASSUME NEW m \in Messages, HandleMessage(m) PROVE TableInv'
  <2>1. /\ stage[m] = "draft" /\ stage' = [stage EXCEPT ![m] = "begun"]
        /\ id' = id
        /\ \E t \in Now : at' = [at EXCEPT ![m] = t]
    BY <1>1 DEF HandleMessage, Move
  <2>2. PICK t \in Now : at' = [at EXCEPT ![m] = t]
    BY <2>1
  <2>3. t # 0
    BY DEF Now
  <2>4. at'[m] # 0 /\ \A n \in Messages \ {m} : at'[n] = at[n]
    BY <2>2, <2>3
  <2>5. Serial(id)'
    BY <2>1 DEF TableInv, Serial, Given
  <2>. QED BY <2>1, <2>4, <2>5 DEF TableInv
<1>2. ASSUME NEW m \in Messages, NextVal(m) PROVE TableInv'
  <2>1. /\ stage[m] = "begun" /\ stage' = [stage EXCEPT ![m] = "numbered"]
        /\ id' = [id EXCEPT ![m] = Next1(id)] /\ at' = at
    BY <1>2 DEF NextVal, Move
  <2>2. id[m] = 0 /\ Serial(id)
    BY <2>1 DEF TableInv
  <2>3. id' \in [Messages -> Nat] /\ Serial(id') /\ id'[m] # 0
    BY <2>1, <2>2, NextIsSerial
  <2>. QED BY <2>1, <2>2, <2>3 DEF TableInv
<1>3. ASSUME NEW m \in Messages, Commit(m) \/ Broadcast(m) PROVE TableInv'
  BY <1>3 DEF Commit, Broadcast, Move, TableInv
<1>4. CASE Restart
  <2>1. \A m \in Messages :
          /\ stage'[m] \in {stage[m], "gone", "sent"}
          /\ stage'[m] = "gone" => stage[m] # "draft"
          /\ stage'[m] = "sent" => stage[m] \in {"stored", "sent"}
    BY <1>4 DEF Restart
  <2>2. id' = id /\ at' = at
    BY <1>4 DEF Restart
  <2>3. Serial(id)'
    BY <2>2 DEF TableInv, Serial, Given
  <2>. QED BY <2>1, <2>2, <2>3 DEF TableInv
<1>5. CASE \/ \E n \in Limits : ReadPage(n) /\ UNCHANGED screen
           \/ OpenChat \/ Select \/ LoadLands \/ LoadFails \/ FrameArrives
           \/ UNCHANGED vars
  <2>1. UNCHANGED table
    BY <1>5 DEF ReadPage, OpenChat, Select, LoadLands, LoadFails, FrameArrives, vars
  <2>. QED BY <2>1 DEF table, TableInv
<1>. QED BY <1>1, <1>2, <1>3, <1>4, <1>5 DEF Next, Store

LEMMA ContentNext == ASSUME TypeOK, ContentInv, [Next]_vars PROVE ContentInv'
<1>. USE DEF TypeOK, HistoryTypeOK
<1>1. ASSUME NEW m \in Messages, HandleMessage(m) PROVE ContentInv'
  <2>1. /\ stage' = [stage EXCEPT ![m] = "begun"] /\ stage[m] = "draft"
        /\ content' = [content EXCEPT ![m] = Stored(m)]
        /\ key' = key /\ outdated' = outdated
    BY <1>1 DEF HandleMessage, Move, server
  <2>2. content'[m] = Stored(m) /\ \A n \in Messages \ {m} : content'[n] = content[n]
    BY <2>1
  <2>3. \A n \in Messages \ {m} : stage'[n] = stage[n]
    BY <2>1
  <2>4. IF m \in Secret THEN content'[m] = Payload(m)
        ELSE \E k \in Keys : content'[m] = Encrypt(Payload(m), k) /\ (m \in outdated' \/ k = key')
    BY <2>1, <2>2 DEF Stored
  <2>5. ASSUME NEW n \in Messages \ {m}, stage'[n] # "draft"
        PROVE  IF n \in Secret THEN content'[n] = Payload(n)
               ELSE \E k \in Keys :
                      content'[n] = Encrypt(Payload(n), k) /\ (n \in outdated' \/ k = key')
    BY <2>1, <2>2, <2>3, <2>5 DEF ContentInv
  <2>. QED BY <2>4, <2>5 DEF ContentInv
<1>2. ASSUME NEW m \in Messages, NextVal(m) \/ Commit(m) \/ Broadcast(m)
      PROVE  ContentInv'
  <2>1. UNCHANGED << content, key, outdated >>
    BY <1>2 DEF NextVal, Commit, Broadcast, server
  <2>2. \A n \in Messages : stage'[n] # "draft" => stage[n] # "draft"
    BY <1>2 DEF NextVal, Commit, Broadcast, Move
  <2>. QED BY <2>1, <2>2 DEF ContentInv
<1>3. CASE Restart
  <2>1. /\ content' = content /\ outdated \subseteq outdated' /\ key' \in Keys
        /\ \A n \in Messages : stage[n] # "draft" => key' = key \/ n \in outdated'
    BY <1>3 DEF Restart
  <2>2. \A n \in Messages : stage'[n] # "draft" => stage[n] # "draft"
    BY <1>3 DEF Restart
  <2>. QED BY <2>1, <2>2 DEF ContentInv
<1>4. CASE \/ \E n \in Limits : ReadPage(n) /\ UNCHANGED screen
           \/ OpenChat \/ Select \/ LoadLands \/ LoadFails \/ FrameArrives
           \/ UNCHANGED vars
  <2>1. UNCHANGED << table, server >>
    BY <1>4 DEF ReadPage, OpenChat, Select, LoadLands, LoadFails, FrameArrives, vars
  <2>. QED BY <2>1 DEF table, server, ContentInv
<1>. QED BY <1>1, <1>2, <1>3, <1>4 DEF Next, Store

----------------------------------------------------------------------------
(***************************************************************************)
(* Pages.                                                                  *)
(***************************************************************************)

LEMMA RowsAreOrdered ==
  ASSUME TypeOK, TableInv
  PROVE  /\ Rows \subseteq Messages /\ IsFiniteSet(Rows)
         /\ \A m \in Rows : id[m] \in Nat \ {0} /\ at[m] \in Nat \ {0}
         /\ \A m, n \in Rows : m # n => id[m] # id[n]
<1>1. Rows \in SUBSET Messages
  BY DEF Rows
<1>2. IsFiniteSet(Rows)
  BY <1>1, FS_Subset, HistoryAssumption
<1>3. \A m \in Rows : id[m] # 0 /\ at[m] # 0
  BY DEF Rows, TableInv
<1>. QED BY <1>1, <1>2, <1>3 DEF TableInv, Serial, TypeOK, HistoryTypeOK

LEMMA PagerNext ==
  ASSUME TypeOK, TableInv, PagerInv, [Next]_vars PROVE PagerInv'
<1>. USE DEF TypeOK, HistoryTypeOK
<1>1. ASSUME NEW limit \in Limits, ReadPage(limit) PROVE PagerInv'
  <2>1. PICK P \in Pages(cursor, limit) :
          /\ P # {} /\ got' = got \cup P /\ twice' = twice \cup (got \cap P)
          /\ \E c \in P : /\ \A p \in P : at[c] <= at[p]
                          /\ cursor' = id[c] /\ cuts' = cuts \cup {c}
    BY <1>1 DEF ReadPage
  <2>2. PICK c \in P : /\ \A p \in P : at[c] <= at[p]
                       /\ cursor' = id[c] /\ cuts' = cuts \cup {c}
    BY <2>1
  <2>3. /\ UNCHANGED << id, at, stage >>
        /\ base' = IF cursor = 0 THEN Rows ELSE base
    BY <1>1 DEF ReadPage, table
  <2>4. /\ P \subseteq Older(cursor)
        /\ \A p \in P, q \in Older(cursor) \ P : at[q] <= at[p]
    BY DEF Pages, Newest
  <2>5. Older(cursor) = { m \in Rows : cursor = 0 \/ id[m] < cursor }
    BY DEF Older
  <2>6. P \subseteq Rows /\ c \in Rows /\ id[c] \in Nat \ {0}
    BY <2>2, <2>4, <2>5, RowsAreOrdered
  <2>7. got \subseteq Rows /\ base \subseteq Rows /\ cuts \subseteq Rows /\ twice \subseteq got
    OBVIOUS
  <2>8. \A d \in cuts' : cursor' <= id'[d]
    <3>1. ASSUME NEW d \in cuts PROVE id[c] <= id[d]
      <4>1. cursor # 0 /\ cursor <= id[d]
        BY <3>1 DEF PagerInv
      <4>2. id[c] < cursor
        BY <2>2, <2>4, <2>5, <4>1
      <4>. QED BY <2>6, <2>7, <4>1, <4>2, RowsAreOrdered
    <3>. QED BY <2>2, <2>3, <2>6, <3>1
  <2>9. \A m \in got' : \E d \in cuts' : at'[d] <= at'[m]
    BY <2>1, <2>2, <2>3 DEF PagerInv
  <2>10. ASSUME NEW m \in base' \ got', cursor' <= id'[m]
         PROVE  \E d \in cuts' : Disordered(d, m)'
    <3>1. m \in Rows /\ m \notin P /\ m \notin got
      BY <2>1, <2>3, <2>7, <2>10
    <3>2. CASE m \in Older(cursor)
      <4>1. at[m] <= at[c]
        BY <2>2, <2>4, <3>1, <3>2
      <4>2. id[c] <= id[m] /\ m # c
        BY <2>2, <2>3, <2>10, <3>1
      <4>3. id[c] < id[m]
        BY <2>6, <3>1, <4>2, RowsAreOrdered
      <4>. QED BY <2>2, <2>3, <4>1, <4>3 DEF Disordered
    <3>3. CASE m \notin Older(cursor)
      <4>1. cursor # 0 /\ ~ (id[m] < cursor)
        BY <2>5, <3>1, <3>3
      <4>2. cursor > 0 /\ cursor <= id[m] /\ m \in base \ got
        BY <2>3, <2>10, <3>1, <4>1, RowsAreOrdered
      <4>3. \E d \in cuts : Disordered(d, m)
        BY <4>2 DEF PagerInv, PagingIsExactButForDisorder
      <4>. QED BY <2>2, <2>3, <4>3 DEF Disordered
    <3>. QED BY <3>2, <3>3
  <2>11. ASSUME NEW m \in twice' PROVE \E d \in cuts' : Disordered(m, d)'
    <3>1. CASE m \in twice
      BY <2>2, <2>3, <3>1 DEF PagerInv, PagingIsExactButForDisorder, Disordered
    <3>2. CASE m \in got \cap P
      <4>1. PICK d \in cuts : at[d] <= at[m]
        BY <3>2 DEF PagerInv
      <4>2. cursor # 0 /\ cursor <= id[d]
        BY <3>2 DEF PagerInv
      <4>3. id[m] < cursor
        BY <2>4, <2>5, <3>2, <4>2
      <4>4. m \in Rows /\ d \in Rows
        BY <2>7, <3>2
      <4>5. id[m] < id[d] /\ m # d
        BY <4>2, <4>3, <4>4, RowsAreOrdered
      <4>. QED BY <2>2, <2>3, <4>1, <4>5 DEF Disordered
    <3>. QED BY <2>1, <2>11, <3>1, <3>2
  <2>12. PagingIsExactButForDisorder'
    BY <2>10, <2>11 DEF PagingIsExactButForDisorder
  <2>13. cursor' # 0
    BY <2>2, <2>6
  <2>. QED BY <2>8, <2>9, <2>12, <2>13 DEF PagerInv
<1>2. CASE UNCHANGED pager
  <2>1. UNCHANGED << cursor, got, twice, cuts, base >>
    BY <1>2 DEF pager
  <2>2. \A m \in got \cup cuts \cup base \cup twice : id'[m] = id[m] /\ at'[m] = at[m]
    BY RowsStay
  <2>3. PagingIsExactButForDisorder'
    <3>1. \A m, n \in got \cup cuts \cup base \cup twice :
            Disordered(m, n) => Disordered(m, n)'
      BY <2>2 DEF Disordered
    <3>2. \A m \in base \ got : (cursor' > 0 /\ cursor' <= id'[m]) =>
            \E c \in cuts : Disordered(c, m)
      BY <2>1, <2>2 DEF PagerInv, PagingIsExactButForDisorder
    <3>3. \A m \in twice : \E c \in cuts : Disordered(m, c)
      BY DEF PagerInv, PagingIsExactButForDisorder
    <3>. QED BY <2>1, <3>1, <3>2, <3>3 DEF PagingIsExactButForDisorder
  <2>. QED BY <2>1, <2>2, <2>3 DEF PagerInv
<1>3. (\E n \in Limits : ReadPage(n)) \/ UNCHANGED pager
  BY DEF Next, Store, HandleMessage, NextVal, Commit, Broadcast, OpenChat, Select,
         LoadLands, LoadFails, FrameArrives, Restart, vars
<1>. QED BY <1>1, <1>2, <1>3

(* What a listed page lists: each message of the page once. *)
LEMMA ListedOnce ==
  ASSUME TypeOK, NEW P \in SUBSET Messages, NEW s \in Listed(P)
  PROVE  /\ Cardinality(P) \in Nat /\ s \in [1 .. Cardinality(P) -> P]
         /\ \A i, j \in DOMAIN s : s[i] = s[j] => i = j
         /\ \A m \in P : \E i \in DOMAIN s : s[i] = m
<1>1. IsFiniteSet(P)
  BY FS_Subset, HistoryAssumption
<1>. DEFINE N == Cardinality(P)
<1>2. N \in Nat
  BY <1>1, FS_CardinalityType
<1>3. s \in [1 .. N -> P] /\ \A i, j \in 1 .. N : i < j => s[i] # s[j]
  BY DEF Listed
<1>4. ASSUME NEW i \in 1 .. N, NEW j \in 1 .. N, s[i] = s[j] PROVE i = j
  BY <1>2, <1>3, <1>4
<1>5. s \in Injection(1 .. N, P)
  BY <1>3, <1>4 DEF Injection, IsInjective
<1>6. Cardinality(1 .. N) = N
  BY <1>2, FS_Interval
<1>7. s \in Surjection(1 .. N, P)
  BY <1>1, <1>5, <1>6, FS_Injection
<1>. QED BY <1>2, <1>3, <1>4, <1>7 DEF Surjection

(* GetMessages without a cursor: the page ends with a row GetChats may     *)
(* take for the last message.                                              *)
LEMMA PageEndsWithLast ==
  ASSUME TypeOK, TableInv, NEW n \in Nat \ {0},
         NEW P \in Pages(0, n), P # {}, NEW s \in Listed(P)
  PROVE  s[Len(s)] \in LastMessages
<1>. DEFINE N == Cardinality(P)
<1>1. P \subseteq Rows /\ \A p \in P, q \in Rows \ P : at[q] <= at[p]
  BY DEF Pages, Newest, Older
<1>2. P \in SUBSET Messages
  BY <1>1 DEF Rows
<1>3. /\ N \in Nat /\ s \in [1 .. N -> P]
      /\ \A m \in P : \E i \in 1 .. N : s[i] = m
  <2>1. /\ N \in Nat /\ s \in [1 .. N -> P]
        /\ \A m \in P : \E i \in DOMAIN s : s[i] = m
    BY <1>2, ListedOnce
  <2>. QED BY <2>1
<1>4. N \in Nat \ {0}
  BY <1>3
<1>5. Len(s) = N
  BY <1>3
<1>6. \A i, j \in 1 .. N : i < j => at[s[i]] <= at[s[j]]
  BY <1>3 DEF Listed
<1>. DEFINE last == s[N]
<1>7. last \in P /\ last \in Rows
  BY <1>1, <1>3, <1>4
<1>8. \A m \in P : at[m] <= at[last]
  <2>. SUFFICES ASSUME NEW m \in P PROVE at[m] <= at[last]
    OBVIOUS
  <2>1. PICK i \in 1 .. N : s[i] = m
    BY <1>3
  <2>2. at[m] \in Nat /\ at[last] \in Nat
    BY <1>1, <1>7, RowsAreOrdered
  <2>3. i < N \/ i = N
    BY <1>4
  <2>. QED BY <1>4, <1>6, <2>1, <2>2, <2>3
<1>9. \A m \in Rows : at[m] <= at[last]
  BY <1>1, <1>7, <1>8, RowsAreOrdered
<1>10. last \in LastMessages
  BY <1>7, <1>9 DEF LastMessages
<1>. QED BY <1>5, <1>10

LEMMA PreviewFollows == ASSUME TypeOK, TableInv PROVE PreviewIsLastMessage
<1>. SUFFICES ASSUME NEW n \in Limits \ {0}, NEW P \in Pages(0, n), NEW s \in Listed(P),
                     P # {}
              PROVE  LET last == s[Len(s)] IN
                     /\ last \in LastMessages
                     /\ \A m \in LastMessages : at[m] = at[last]
                     /\ Preview(last) \in {Hidden, Entry(last).text}
  BY DEF PreviewIsLastMessage
<1>1. n \in Nat \ {0}
  BY HistoryAssumption
<1>2. s[Len(s)] \in LastMessages
  BY <1>1, PageEndsWithLast
<1>3. PICK last \in LastMessages : last = s[Len(s)]
  BY <1>2
<1>4. ASSUME NEW m \in LastMessages PROVE at[m] = at[last]
  <2>1. at[m] <= at[last] /\ at[last] <= at[m]
    BY <1>3 DEF LastMessages
  <2>2. m \in Rows /\ last \in Rows
    BY DEF LastMessages
  <2>. QED BY <2>1, <2>2, RowsAreOrdered
<1>5. Preview(last) \in {Hidden, Entry(last).text}
  BY DEF Preview, Entry
<1>. QED BY <1>3, <1>4, <1>5

(* Of a row the answer left out, as many as it has messages are as new.   *)
LEMMA LeftOutIsPushedOut ==
  ASSUME TypeOK, NEW P \in Pages(0, DefaultLimit), NEW m \in Rows \ P
  PROVE  Cardinality({ n \in Rows \ {m} : at[m] <= at[n] }) >= DefaultLimit
<1>. DEFINE Newer == { n \in Rows \ {m} : at[m] <= at[n] }
<1>1. DefaultLimit \in Nat /\ MaxLimit \in Nat /\ DefaultLimit <= MaxLimit
  BY HistoryAssumption, ViewAssumption
<1>2. Capped(DefaultLimit) = DefaultLimit
  BY <1>1 DEF Capped
<1>3. /\ P \subseteq Rows /\ Cardinality(P) = DefaultLimit
      /\ m \notin P /\ \A p \in P : at[m] <= at[p]
  BY <1>2 DEF Pages, Newest, Older
<1>4. P \in SUBSET Newer
  BY <1>3
<1>5. IsFiniteSet(Newer) /\ Cardinality(Newer) \in Nat
  <2>1. Newer \in SUBSET Messages
    BY DEF Rows
  <2>2. IsFiniteSet(Newer)
    BY <2>1, FS_Subset, HistoryAssumption
  <2>. QED BY <2>2, FS_CardinalityType
<1>6. Cardinality(P) <= Cardinality(Newer)
  BY <1>4, <1>5, FS_Subset
<1>. QED BY <1>1, <1>3, <1>5, <1>6

----------------------------------------------------------------------------
(***************************************************************************)
(* Texts.                                                                  *)
(***************************************************************************)

(* What leaves the server of a row is what ShownAsPosted allows. *)
LEMMA EntryIsFaithful ==
  ASSUME TypeOK, ContentInv, NEW m \in Rows
  PROVE  Entry(m) \in Entries /\ Faithful(Entry(m))
<1>1. m \in Messages /\ stage[m] # "draft"
  BY DEF Rows
<1>2. Entry(m) = [of |-> m, text |-> Shown(m)]
  BY DEF Entry
<1>3. CASE m \in Secret
  <2>1. Shown(m) = Payload(m)
    BY <1>1, <1>3 DEF Shown, ContentInv
  <2>. QED BY <1>1, <1>2, <2>1 DEF Entries, Faithful
<1>4. CASE m \notin Secret
  <2>1. PICK k \in Keys : content[m] = Encrypt(Plain(m), k) /\ (m \in outdated \/ k = key)
    BY <1>1, <1>4 DEF ContentInv, Payload
  <2>2. Payload(m) = Plain(m) /\ Plain(m) # Error
    BY <1>1, <1>4, ErrorAssumption DEF Payload
  <2>. DEFINE opened == Decrypt(content[m], key)
  <2>3. Shown(m) = IF opened = Error THEN content[m] ELSE opened
    BY <1>4 DEF Shown
  <2>4. opened = IF deriveKey(k) = deriveKey(key) THEN Plain(m) ELSE Error
    BY <2>1 DEF Decrypt, Encrypt
  <2>5. Shown(m) = Plain(m) \/ (Shown(m) = content[m] /\ m \in outdated)
    BY <2>1, <2>2, <2>3, <2>4
  <2>6. CASE Shown(m) = Plain(m)
    BY <1>1, <1>2, <2>2, <2>6 DEF Entries, Faithful
  <2>7. CASE Shown(m) = content[m] /\ m \in outdated
    BY <1>1, <1>2, <1>4, <2>1, <2>2, <2>7 DEF Entries, Faithful
  <2>. QED BY <2>5, <2>6, <2>7
<1>. QED BY <1>3, <1>4

LEMMA FaithfulStays ==
  ASSUME TypeOK, [Next]_vars, NEW s, AllFaithful(s)
  PROVE  \A e \in Range(s) :
           /\ e.of \in Rows'
           /\ \/ e.text = Payload(e.of)
              \/ e.of \in outdated' \ Secret /\ e.text = content'[e.of]
<1>1. \A e \in Range(s) : /\ e.of \in Rows
                          /\ \/ e.text = Payload(e.of)
                             \/ e.of \in outdated \ Secret /\ e.text = content[e.of]
  BY DEF AllFaithful, Faithful
<1>. QED BY <1>1, RowsStay

LEMMA Appended ==
  ASSUME NEW s \in Seq(Entries), NEW e \in Entries
  PROVE  /\ Append(s, e) \in Seq(Entries)
         /\ Len(s) \in Nat /\ DOMAIN s = 1 .. Len(s)
         /\ DOMAIN Append(s, e) = 1 .. (Len(s) + 1)
         /\ \A i \in 1 .. Len(s) : Append(s, e)[i] = s[i]
         /\ Append(s, e)[Len(s) + 1] = e
         /\ Range(Append(s, e)) = Range(s) \cup {e}
         /\ Of(Append(s, e)) = Of(s) \cup {e.of}
<1>. DEFINE t == Append(s, e)
<1>1. /\ t \in Seq(Entries) /\ Len(t) = Len(s) + 1
      /\ \A i \in 1 .. Len(s) : t[i] = s[i]
      /\ t[Len(s) + 1] = e
  BY AppendProperties
<1>2. Len(s) \in Nat /\ DOMAIN s = 1 .. Len(s)
  BY LenProperties
<1>3. DOMAIN t = 1 .. (Len(s) + 1)
  BY <1>1, LenProperties
<1>. HIDE DEF t
<1>4. Range(t) = Range(s) \cup {e}
  BY <1>1, <1>2, <1>3 DEF Range
<1>5. Of(t) = Of(s) \cup {e.of}
  BY <1>1, <1>2, <1>3 DEF Of
<1>. QED BY <1>1, <1>2, <1>3, <1>4, <1>5 DEF t

LEMMA HeadTaken ==
  ASSUME NEW s \in Seq(Entries), s # << >>
  PROVE  /\ Head(s) \in Entries /\ Tail(s) \in Seq(Entries)
         /\ Len(s) \in Nat \ {0} /\ DOMAIN s = 1 .. Len(s)
         /\ Head(s) = s[1]
         /\ DOMAIN Tail(s) = 1 .. (Len(s) - 1)
         /\ \A i \in 1 .. (Len(s) - 1) : Tail(s)[i] = s[i + 1]
         /\ Range(s) = Range(Tail(s)) \cup {Head(s)}
         /\ Of(s) = Of(Tail(s)) \cup {Head(s).of}
<1>. DEFINE t == Tail(s)
<1>1. /\ Head(s) \in Entries /\ t \in Seq(Entries) /\ Len(t) = Len(s) - 1
      /\ \A i \in 1 .. Len(t) : t[i] = s[i + 1]
  BY HeadTailProperties
<1>2. Len(s) \in Nat \ {0} /\ DOMAIN s = 1 .. Len(s)
  BY LenProperties, EmptySeq
<1>3. DOMAIN t = 1 .. (Len(s) - 1)
  BY <1>1, LenProperties
<1>4. Head(s) = s[1]
  OBVIOUS
<1>. HIDE DEF t
<1>5. \A i \in DOMAIN s : i = 1 \/ (i - 1 \in DOMAIN t /\ t[i - 1] = s[i])
  BY <1>1, <1>2, <1>3
<1>6. \A i \in DOMAIN t : i + 1 \in DOMAIN s /\ t[i] = s[i + 1]
  BY <1>1, <1>2, <1>3
<1>7. 1 \in DOMAIN s
  BY <1>2
<1>8. Range(s) = Range(t) \cup {Head(s)}
  BY <1>4, <1>5, <1>6, <1>7 DEF Range
<1>9. Of(s) = Of(t) \cup {Head(s).of}
  BY <1>4, <1>5, <1>6, <1>7 DEF Of
<1>. QED BY <1>1, <1>2, <1>3, <1>4, <1>8, <1>9 DEF t

LEMMA OfIsOfRange == \A s : Of(s) = { e.of : e \in Range(s) }
BY DEF Of, Range

(* The answer of the SELECT. *)
LEMMA Answered ==
  ASSUME TypeOK, TableInv, ContentInv, Select
  PROVE  /\ answer' \in Seq(Entries) /\ AllFaithful(answer') /\ Distinct(answer')
         /\ Of(answer') \subseteq Rows
         /\ \A m \in Rows \ Of(answer') :
              Cardinality({ n \in Rows \ {m} : at[m] <= at[n] }) >= DefaultLimit
<1>1. PICK P \in Pages(0, DefaultLimit) : \E s \in Listed(P) : answer' = Answer(s)
  BY DEF Select
<1>. PICK s \in Listed(P) : answer' = Answer(s)
  BY <1>1
<1>2. P \subseteq Rows /\ P \in SUBSET Messages
  BY DEF Pages, Older, Rows
<1>. DEFINE N == Cardinality(P)
<1>3. /\ N \in Nat /\ s \in [1 .. N -> P] /\ DOMAIN s = 1 .. N
      /\ \A i, j \in 1 .. N : s[i] = s[j] => i = j
      /\ \A m \in P : \E i \in 1 .. N : s[i] = m
  <2>1. /\ N \in Nat /\ s \in [1 .. N -> P]
        /\ \A i, j \in DOMAIN s : s[i] = s[j] => i = j
        /\ \A m \in P : \E i \in DOMAIN s : s[i] = m
    BY <1>2, ListedOnce
  <2>. QED BY <2>1
<1>. HIDE DEF N
<1>4. /\ answer' = [k \in 1 .. N |-> Entry(s[k])]
      /\ DOMAIN answer' = 1 .. N
  BY <1>3 DEF Answer
<1>5. \A k \in 1 .. N : answer'[k] = Entry(s[k]) /\ s[k] \in P
  BY <1>3, <1>4
<1>6. \A m : Entry(m).of = m
  BY DEF Entry
<1>7. \A m \in P : Entry(m) \in Entries /\ Faithful(Entry(m))
  BY <1>2, EntryIsFaithful
<1>8. answer' \in Seq(Entries)
  <2>1. answer' \in [1 .. N -> Entries]
    BY <1>3, <1>4, <1>7
  <2>. QED BY <1>3, <2>1, SeqDef
<1>9. AllFaithful(answer')
  BY <1>4, <1>5, <1>7 DEF AllFaithful, Range
<1>10. Distinct(answer')
  BY <1>3, <1>4, <1>5, <1>6 DEF Distinct
<1>11. Of(answer') = P
  BY <1>3, <1>4, <1>5, <1>6 DEF Of
<1>12. \A m \in Rows \ P : Cardinality({ n \in Rows \ {m} : at[m] <= at[n] }) >= DefaultLimit
  BY LeftOutIsPushedOut
<1>. QED BY <1>2, <1>8, <1>9, <1>10, <1>11, <1>12

LEMMA NothingInEmpty == Range(<< >>) = {} /\ Of(<< >>) = {} /\ << >> \in Seq(Entries)
<1>1. DOMAIN << >> = {}
  OBVIOUS
<1>. QED BY <1>1, EmptySeq DEF Range, Of

(* No entry comes from anywhere but an answer or a frame. *)
LEMMA EntriesMove ==
  ASSUME TypeOK, TableInv, ContentInv, [Next]_vars
  PROVE  \/ UNCHANGED << answer, frames, view >>
         \/ /\ \E m \in Rows : frames' = Append(frames, Entry(m))
            /\ UNCHANGED << answer, view >>
         \/ Select /\ UNCHANGED << frames, view >>
         \/ LoadLands /\ view' = answer /\ answer' = << >> /\ frames' = frames
         \/ answer' = << >> /\ UNCHANGED << frames, view >>
         \/ /\ frames # << >> /\ frames' = Tail(frames)
            /\ view' = Append(view, Head(frames)) /\ answer' = answer
         \/ frames' = << >> /\ UNCHANGED << answer, view >>
<1>1. ASSUME NEW m \in Messages, Broadcast(m)
      PROVE  \/ UNCHANGED << answer, frames, view >>
             \/ /\ m \in Rows /\ frames' = Append(frames, Entry(m))
                /\ UNCHANGED << answer, view >>
  BY <1>1 DEF Broadcast, Rows
<1>2. CASE \/ \E m \in Messages : Store(m) /\ UNCHANGED screen
           \/ \E n \in Limits : ReadPage(n) /\ UNCHANGED screen
           \/ OpenChat \/ UNCHANGED vars
  BY <1>2 DEF screen, vars, OpenChat
<1>3. CASE Select
  BY <1>3 DEF Select
<1>4. CASE LoadLands
  BY <1>4 DEF LoadLands
<1>5. CASE LoadFails
  BY <1>5 DEF LoadFails
<1>6. CASE FrameArrives
  BY <1>6 DEF FrameArrives
<1>7. CASE Restart
  BY <1>7 DEF Restart
<1>. QED BY <1>1, <1>2, <1>3, <1>4, <1>5, <1>6, <1>7 DEF Next

LEMMA TextNext ==
  ASSUME TypeOK, TableInv, ContentInv, TextInv, [Next]_vars
  PROVE  /\ TextInv'
         /\ answer' \in Seq(Entries) /\ frames' \in Seq(Entries) /\ view' \in Seq(Entries)
<1>. DEFINE Faithful1(e) ==
       /\ e.of \in Rows'
       /\ \/ e.text = Payload(e.of)
          \/ e.of \in outdated' \ Secret /\ e.text = content'[e.of]
            Good(s) == s \in Seq(Entries) /\ \A e \in Range(s) : Faithful1(e)
<1>1. Good(answer) /\ Good(frames) /\ Good(view) /\ Good(<< >>)
  BY FaithfulStays, NothingInEmpty DEF TextInv, TypeOK
<1>2. Good(answer') /\ Good(frames') /\ Good(view')
  <2>1. CASE UNCHANGED << answer, frames, view >>
    BY <1>1, <2>1
  <2>2. ASSUME NEW m \in Rows, frames' = Append(frames, Entry(m)),
               UNCHANGED << answer, view >>
        PROVE  Good(answer') /\ Good(frames') /\ Good(view')
    <3>1. Entry(m) \in Entries /\ Faithful(Entry(m))
      BY EntryIsFaithful
    <3>2. Faithful1(Entry(m))
      BY <3>1, RowsStay DEF Faithful
    <3>3. frames' \in Seq(Entries) /\ Range(frames') = Range(frames) \cup {Entry(m)}
      BY <2>2, <3>1, Appended DEF TypeOK
    <3>. QED BY <1>1, <2>2, <3>2, <3>3
  <2>3. CASE Select /\ UNCHANGED << frames, view >>
    <3>1. answer' \in Seq(Entries) /\ AllFaithful(answer')
      BY <2>3, Answered
    <3>2. Rows' = Rows /\ content' = content /\ outdated' = outdated
      BY <2>3 DEF Select, table, server, Rows
    <3>3. Good(answer')
      BY <3>1, <3>2 DEF AllFaithful, Faithful
    <3>. QED BY <1>1, <2>3, <3>3
  <2>4. CASE view' = answer /\ answer' = << >> /\ frames' = frames
    BY <1>1, <2>4
  <2>5. CASE answer' = << >> /\ UNCHANGED << frames, view >>
    BY <1>1, <2>5
  <2>6. CASE /\ frames # << >> /\ frames' = Tail(frames)
             /\ view' = Append(view, Head(frames)) /\ answer' = answer
    <3>1. /\ Head(frames) \in Entries /\ frames' \in Seq(Entries)
          /\ Range(frames) = Range(frames') \cup {Head(frames)}
      BY <2>6, HeadTaken DEF TypeOK
    <3>2. view' \in Seq(Entries) /\ Range(view') = Range(view) \cup {Head(frames)}
      BY <2>6, <3>1, Appended DEF TypeOK
    <3>. QED BY <1>1, <2>6, <3>1, <3>2
  <2>7. CASE frames' = << >> /\ UNCHANGED << answer, view >>
    BY <1>1, <2>7
  <2>. QED BY <2>1, <2>2, <2>3, <2>4, <2>5, <2>6, <2>7, EntriesMove
<1>. QED BY <1>2 DEF TextInv, AllFaithful, Faithful

LEMMA TypeNext ==
  ASSUME TypeOK, TableInv, ContentInv, TextInv, [Next]_vars PROVE TypeOK'
<1>. USE DEF TypeOK, HistoryTypeOK
<1>1. answer' \in Seq(Entries) /\ frames' \in Seq(Entries) /\ view' \in Seq(Entries)
  BY TextNext
<1>2. Rows \subseteq Rows'
  BY RowsStay
<1>3. ASSUME NEW m \in Messages, Store(m), UNCHANGED screen PROVE TypeOK'
  <2>1. Now \subseteq Nat /\ Next1(id) \in Nat
    <3>1. Given(id) \in Nat
      BY GivenIsNat
    <3>2. Next1(id) = 1 + Given(id)
      BY DEF Next1, Given
    <3>. QED BY <3>1, <3>2 DEF Now
  <2>2. /\ stage' \in [Messages -> Stages] /\ id' \in [Messages -> Nat]
        /\ at' \in [Messages -> Nat] /\ DOMAIN content' = Messages
        /\ UNCHANGED << server, pager >>
    BY <1>3, <2>1 DEF Store, HandleMessage, NextVal, Commit, Move, Stages
  <2>. QED BY <1>1, <1>2, <1>3, <2>2 DEF screen, server, pager
<1>4. ASSUME NEW m \in Messages, Broadcast(m) PROVE TypeOK'
  <2>1. /\ stage' \in [Messages -> Stages] /\ m \in Rows
        /\ UNCHANGED << id, at, content, server, pager, load, seen, early >>
    BY <1>4 DEF Broadcast, Move, Stages, Rows
  <2>2. missed' \subseteq Rows'
    BY <1>2, <1>4, <2>1 DEF Broadcast
  <2>. QED BY <1>1, <1>2, <2>1, <2>2 DEF server, pager
<1>5. ASSUME NEW n \in Limits, ReadPage(n), UNCHANGED screen PROVE TypeOK'
  <2>1. PICK P \in Pages(cursor, n) :
          /\ got' = got \cup P /\ twice' = twice \cup (got \cap P)
          /\ \E c \in P : cursor' = id[c] /\ cuts' = cuts \cup {c}
    BY <1>5 DEF ReadPage
  <2>2. UNCHANGED << table, server >> /\ base' \subseteq Rows
    BY <1>5 DEF ReadPage
  <2>3. P \subseteq Rows /\ P \subseteq Messages
    BY DEF Pages, Older, Rows
  <2>. QED BY <1>1, <1>2, <1>5, <2>1, <2>2, <2>3 DEF table, server, screen
<1>6. CASE OpenChat \/ Select \/ LoadLands \/ LoadFails
  BY <1>1, <1>2, <1>6 DEF OpenChat, Select, LoadLands, LoadFails, table, server, pager
<1>7. CASE FrameArrives
  <2>1. Head(frames) \in Range(frames)
    BY <1>7, HeadTaken DEF FrameArrives
  <2>2. Head(frames).of \in Rows
    BY <2>1 DEF TextInv, AllFaithful, Faithful
  <2>. QED BY <1>1, <1>2, <1>7, <2>2 DEF FrameArrives, table, server, pager
<1>8. CASE Restart
  <2>1. stage' \in [Messages -> Stages]
    BY <1>8 DEF Restart, Stages
  <2>2. Of(frames) \subseteq Rows
    BY OfIsOfRange DEF TextInv, AllFaithful, Faithful
  <2>3. missed' \subseteq Rows'
    BY <1>2, <1>8, <2>2 DEF Restart, Rows
  <2>4. key' \in Keys /\ outdated' \subseteq Messages
    BY <1>8 DEF Restart
  <2>. QED BY <1>1, <1>2, <1>8, <2>1, <2>3, <2>4 DEF Restart, pager
<1>9. CASE UNCHANGED vars
  BY <1>1, <1>2, <1>9 DEF vars, table, server, pager, screen
<1>. QED BY <1>3, <1>4, <1>5, <1>6, <1>7, <1>8, <1>9 DEF Next

----------------------------------------------------------------------------
(***************************************************************************)
(* The window between the SELECT and its answer.                           *)
(***************************************************************************)

LEMMA PushedOutStays ==
  ASSUME TypeOK, [Next]_vars, seen' = seen, NEW m \in Rows, PushedOut(m)
  PROVE  PushedOut(m)'
<1>1. \A n \in seen \cup {m} : at'[n] = at[n]
  BY RowsStay DEF TypeOK
<1>2. { n \in seen' \ {m} : at'[m] <= at'[n] } = { n \in seen \ {m} : at[m] <= at[n] }
  BY <1>1
<1>. QED BY <1>2 DEF PushedOut

LEMMA LostNext ==
  ASSUME TypeOK, TableInv, ContentInv, TextInv, LostInv, [Next]_vars PROVE LostInv'
<1>. DEFINE Covered == missed \cup Of(frames) \cup Of(view)
<1>0. \A m \in Messages : (stage[m] = "sent" /\ m \notin Covered) =>
        load = "done" /\ m \in early /\ (m \notin seen \/ PushedOut(m))
  BY DEF LostInv
<1>1. ASSUME \/ \E m \in Messages : Store(m) /\ UNCHANGED screen
             \/ \E n \in Limits : ReadPage(n) /\ UNCHANGED screen
             \/ UNCHANGED vars
      PROVE  LostInv'
  <2>1. UNCHANGED << load, answer, frames, view, seen, early, missed >>
    BY <1>1 DEF screen, vars
  <2>2. \A m \in Messages : stage'[m] = "sent" => stage[m] = "sent"
    BY <1>1 DEF Store, HandleMessage, NextVal, Commit, Move, ReadPage, vars, table,
                TypeOK, HistoryTypeOK
  <2>3. \A m \in Rows : PushedOut(m) => PushedOut(m)'
    BY <2>1, PushedOutStays
  <2>4. \A m \in Messages : (stage[m] = "sent" => m \in Rows) /\ (m \in seen => m \in Rows)
    BY DEF Rows, TypeOK
  <2>5. ASSUME NEW m \in Messages, stage'[m] = "sent", m \notin Covered
        PROVE  load = "done" /\ m \in early /\ (m \notin seen \/ PushedOut(m)')
    BY <1>0, <2>2, <2>3, <2>4, <2>5
  <2>6. load = "answered" => \A m \in seen \ Of(answer) : PushedOut(m)'
    BY <2>3 DEF LostInv, TypeOK
  <2>. QED BY <2>1, <2>5, <2>6 DEF LostInv, Of
<1>2. ASSUME NEW m \in Messages, Broadcast(m) PROVE LostInv'
  <2>1. /\ UNCHANGED << load, answer, view, seen, early >> /\ m \in Rows
        /\ \A n \in Messages : stage'[n] = "sent" => n = m \/ stage[n] = "sent"
    BY <1>2 DEF Broadcast, Move, TypeOK, HistoryTypeOK, Rows
  <2>2. Covered' = Covered \cup {m}
    <3>1. CASE frames' = Append(frames, Entry(m)) /\ missed' = missed
      <4>1. Entry(m) \in Entries /\ Entry(m).of = m
        BY <2>1, EntryIsFaithful DEF Entry
      <4>2. Of(frames') = Of(frames) \cup {m}
        BY <3>1, <4>1, Appended DEF TypeOK
      <4>. QED BY <2>1, <3>1, <4>2
    <3>2. CASE frames' = frames /\ missed' = missed \cup {m}
      BY <2>1, <3>2
    <3>. QED BY <1>2, <3>1, <3>2 DEF Broadcast
  <2>3. \A n \in Rows : PushedOut(n) => PushedOut(n)'
    BY <2>1, PushedOutStays
  <2>4. \A n \in Messages : (stage[n] = "sent" => n \in Rows) /\ (n \in seen => n \in Rows)
    BY DEF Rows, TypeOK
  <2>5. load = "off" => frames' = << >> /\ view' = << >>
    BY <1>2, <2>1 DEF Broadcast, LostInv
  <2>6. ASSUME NEW n \in Messages, stage'[n] = "sent", n \notin Covered'
        PROVE  load = "done" /\ n \in early /\ (n \notin seen \/ PushedOut(n)')
    BY <1>0, <2>1, <2>2, <2>3, <2>4, <2>6
  <2>7. load = "answered" => \A n \in seen \ Of(answer) : PushedOut(n)'
    BY <2>3 DEF LostInv, TypeOK
  <2>. QED BY <2>1, <2>5, <2>6, <2>7 DEF LostInv, Of
<1>3. ASSUME OpenChat PROVE LostInv'
  <2>1. /\ load = "off" /\ load' = "asked"
        /\ UNCHANGED << stage, frames, view, seen, early, missed >>
    BY <1>3 DEF OpenChat, table
  <2>2. Of(view') = {}
    BY <2>1, NothingInEmpty DEF LostInv
  <2>3. \A m \in Messages : stage'[m] = "sent" => m \in Covered'
    BY <1>0, <2>1
  <2>. QED BY <2>1, <2>2, <2>3 DEF LostInv
<1>4. ASSUME Select PROVE LostInv'
  <2>1. /\ load = "asked" /\ load' = "answered" /\ seen' = Rows
        /\ UNCHANGED << stage, at, frames, view, early, missed >>
    BY <1>4 DEF Select, table
  <2>2. \A m \in Messages : stage'[m] = "sent" => m \in Covered'
    BY <1>0, <2>1
  <2>3. \A m \in Rows \ Of(answer') : Cardinality({ n \in Rows \ {m} : at[m] <= at[n] }) >= DefaultLimit
    BY <1>4, Answered
  <2>4. \A m \in seen' \ Of(answer') : PushedOut(m)'
    BY <2>1, <2>3 DEF PushedOut
  <2>5. Of(view') \subseteq early'
    BY <2>1 DEF LostInv
  <2>. QED BY <2>1, <2>2, <2>4, <2>5 DEF LostInv
<1>5. ASSUME LoadLands PROVE LostInv'
  <2>1. /\ load = "answered" /\ load' = "done" /\ view' = answer
        /\ UNCHANGED << stage, at, frames, seen, early, missed >>
    BY <1>5 DEF LoadLands, table
  <2>2. \A m \in seen : PushedOut(m) => PushedOut(m)'
    BY <2>1 DEF PushedOut
  <2>3. ASSUME NEW m \in Messages, stage'[m] = "sent", m \notin Covered'
        PROVE  m \in early' /\ (m \notin seen' \/ PushedOut(m)')
    <3>1. stage[m] = "sent" /\ m \notin missed \cup Of(frames) \cup Of(answer)
      BY <2>1, <2>3
    <3>2. m \in Of(view)
      BY <1>0, <2>1, <3>1
    <3>3. m \in early /\ (m \in seen => PushedOut(m))
      BY <2>1, <3>1, <3>2 DEF LostInv
    <3>. QED BY <2>1, <2>2, <3>3
  <2>. QED BY <2>1, <2>3 DEF LostInv
<1>6. ASSUME LoadFails PROVE LostInv'
  <2>1. /\ load \in {"asked", "answered"} /\ load' = "failed"
        /\ UNCHANGED << stage, frames, view, missed >>
    BY <1>6 DEF LoadFails, table
  <2>2. \A m \in Messages : stage'[m] = "sent" => m \in Covered'
    BY <1>0, <2>1
  <2>. QED BY <2>1, <2>2 DEF LostInv
<1>7. ASSUME FrameArrives PROVE LostInv'
  <2>1. /\ frames # << >> /\ frames' = Tail(frames) /\ view' = Append(view, Head(frames))
        /\ early' = IF load \in {"asked", "answered"} THEN early \cup {Head(frames).of}
                    ELSE early
        /\ UNCHANGED << stage, at, load, answer, seen, missed >>
    BY <1>7 DEF FrameArrives, table
  <2>2. Head(frames) \in Entries /\ Of(frames) = Of(frames') \cup {Head(frames).of}
    BY <2>1, HeadTaken DEF TypeOK
  <2>3. Of(view') = Of(view) \cup {Head(frames).of}
    BY <2>1, <2>2, Appended DEF TypeOK
  <2>4. load # "off"
    BY <2>1 DEF LostInv
  <2>5. \A m \in Messages : PushedOut(m)' = PushedOut(m)
    BY <2>1 DEF PushedOut
  <2>6. Covered' = Covered
    BY <2>1, <2>2, <2>3
  <2>7. ASSUME NEW m \in Messages, stage'[m] = "sent", m \notin Covered'
        PROVE  load' = "done" /\ m \in early' /\ (m \notin seen' \/ PushedOut(m)')
    BY <1>0, <2>1, <2>5, <2>6, <2>7
  <2>8. load' \in {"asked", "answered"} => Of(view') \subseteq early'
    BY <2>1, <2>3 DEF LostInv
  <2>9. load' = "answered" => \A m \in seen' \ Of(answer') : PushedOut(m)'
    BY <2>1, <2>5 DEF LostInv, TypeOK, HistoryTypeOK, Rows
  <2>. QED BY <2>1, <2>4, <2>7, <2>8, <2>9 DEF LostInv
<1>8. ASSUME Restart PROVE LostInv'
  <2>1. /\ missed' = missed \cup Of(frames) \cup { m \in Messages : stage[m] = "stored" }
        /\ frames' = << >>
        /\ UNCHANGED << at, load, answer, view, seen, early >>
        /\ \A m \in Messages : stage'[m] = "sent" => stage[m] \in {"stored", "sent"}
    BY <1>8 DEF Restart
  <2>2. \A m \in Messages : PushedOut(m)' = PushedOut(m)
    BY <2>1 DEF PushedOut
  <2>3. ASSUME NEW m \in Messages, stage'[m] = "sent", m \notin Covered'
        PROVE  load' = "done" /\ m \in early' /\ (m \notin seen' \/ PushedOut(m)')
    BY <1>0, <2>1, <2>2, <2>3
  <2>4. load' = "answered" => \A m \in seen' \ Of(answer') : PushedOut(m)'
    BY <2>1, <2>2 DEF LostInv, TypeOK, HistoryTypeOK, Rows
  <2>5. load' = "off" => frames' = << >> /\ view' = << >>
    BY <2>1 DEF LostInv
  <2>6. load' \in {"asked", "answered"} => Of(view') \subseteq early'
    BY <2>1 DEF LostInv
  <2>. QED BY <2>3, <2>4, <2>5, <2>6 DEF LostInv
<1>. QED BY <1>1, <1>2, <1>3, <1>4, <1>5, <1>6, <1>7, <1>8 DEF Next

(* Nothing the step does to a screen that stays as it is can hurt. *)
LEMMA TwiceStays ==
  ASSUME TypeOK, TextInv, TwiceInv, [Next]_vars,
         UNCHANGED << load, view, seen, early >>,
         \A m \in Rows : Pending(m)' => Pending(m),
         Distinct(answer'), Distinct(frames'),
         load = "answered" => Of(answer') \subseteq seen,
         \A m \in Of(frames') : stage'[m] = "sent" /\ m \notin early
  PROVE  TwiceInv'
<1>1. \A i \in DOMAIN view : view[i].of \in Rows
  BY DEF TextInv, AllFaithful, Faithful, Range
<1>2. ASSUME NEW i \in DOMAIN view, Pending(view[i].of)'
      PROVE  /\ load = "done" /\ view[i].of \in seen \ early
             /\ \A j \in DOMAIN view : view[j].of = view[i].of => j = i
  <2>1. Pending(view[i].of)
    <3>1. \A m \in Rows : (stage'[m] = "stored" \/ m \in Of(frames')) => Pending(m)
      BY DEF Pending
    <3>. QED BY <1>1, <1>2, <3>1 DEF Pending
  <2>. QED BY <2>1 DEF TwiceInv
<1>3. \A m \in early : stage'[m] = "sent"
  BY RowsStay DEF TwiceInv, TypeOK, Rows
<1>4. NothingTwice'
  BY DEF TwiceInv, NothingTwice
<1>5. \A m \in (early \cup Of(frames))' : stage'[m] = "sent"
  BY <1>3
<1>6. (early \cap Of(frames))' = {}
  OBVIOUS
<1>7. \A i \in DOMAIN view' : Pending(view[i].of)' =>
        /\ load' = "done" /\ view'[i].of \in seen' \ early'
        /\ \A j \in DOMAIN view' : view'[j].of = view'[i].of => j = i
  BY <1>2 DEF Pending
<1>. QED BY <1>4, <1>5, <1>6, <1>7 DEF TwiceInv, Distinct, Of

LEMMA FrameTwice ==
  ASSUME TypeOK, TextInv, LostInv, TwiceInv, FrameArrives PROVE TwiceInv'
<1>. DEFINE e == Head(frames)
            n == Len(view)
<1>1. /\ frames # << >> /\ frames' = Tail(frames) /\ view' = Append(view, e)
      /\ early' = IF load \in {"asked", "answered"} THEN early \cup {e.of} ELSE early
      /\ UNCHANGED << stage, load, answer, seen >>
  BY DEF FrameArrives, table
<1>2. /\ e \in Entries /\ e = frames[1] /\ DOMAIN frames = 1 .. Len(frames)
      /\ DOMAIN frames' = 1 .. (Len(frames) - 1)
      /\ \A i \in 1 .. (Len(frames) - 1) : frames'[i] = frames[i + 1]
      /\ Of(frames) = Of(frames') \cup {e.of} /\ Len(frames) \in Nat \ {0}
  BY <1>1, HeadTaken DEF TypeOK
<1>3. /\ n \in Nat /\ DOMAIN view = 1 .. n /\ DOMAIN view' = 1 .. (n + 1)
      /\ \A i \in 1 .. n : view'[i] = view[i]
      /\ view'[n + 1] = e
  BY <1>1, <1>2, Appended DEF TypeOK
<1>. HIDE DEF e, n
<1>4. e.of \in Of(frames) /\ Pending(e.of) /\ stage[e.of] = "sent" /\ e.of \notin early
  BY <1>2 DEF Pending, TwiceInv
<1>5. Distinct(frames') /\ e.of \notin Of(frames')
  <2>1. \A i, j \in 1 .. Len(frames) : frames[i].of = frames[j].of => i = j
    BY <1>2 DEF TwiceInv, Distinct
  <2>2. ASSUME NEW i \in DOMAIN frames' PROVE i + 1 \in 1 .. Len(frames) /\ i + 1 # 1
    BY <1>2
  <2>3. Distinct(frames')
    BY <1>2, <2>1, <2>2 DEF Distinct
  <2>4. e.of \notin Of(frames')
    BY <1>2, <2>1, <2>2 DEF Of
  <2>. QED BY <2>3, <2>4
\* On the screen the message can only be what the answer brought.
<1>6. ASSUME NEW i \in 1 .. n, view[i].of = e.of
      PROVE  /\ load = "done" /\ e.of \in seen \ early
             /\ \A j \in 1 .. n : view[j].of = e.of => j = i
  BY <1>3, <1>4, <1>6 DEF TwiceInv
<1>7. Distinct(answer') /\ (load' = "answered" => Of(answer') \subseteq seen')
  BY <1>1 DEF TwiceInv
<1>8. \A m \in (early \cup Of(frames))' : stage'[m] = "sent"
  BY <1>1, <1>2, <1>4 DEF TwiceInv
<1>9. (early \cap Of(frames))' = {}
  BY <1>1, <1>2, <1>5 DEF TwiceInv
<1>10. ASSUME NEW i \in DOMAIN view',
              stage'[view'[i].of] = "stored" \/ view'[i].of \in Of(frames')
       PROVE  /\ load' = "done" /\ view'[i].of \in seen' \ early'
              /\ \A j \in DOMAIN view' : view'[j].of = view'[i].of => j = i
  <2>1. view'[i].of # e.of
    BY <1>1, <1>4, <1>5, <1>10
  <2>2. i \in 1 .. n /\ view'[i] = view[i]
    BY <1>3, <2>1
  <2>3. stage[view[i].of] = "stored" \/ view[i].of \in Of(frames)
    BY <1>1, <1>2, <1>10, <2>2
  <2>4. /\ load = "done" /\ view[i].of \in seen \ early
        /\ \A j \in 1 .. n : view[j].of = view[i].of => j = i
    BY <1>3, <2>2, <2>3 DEF TwiceInv, Pending
  <2>5. \A j \in DOMAIN view' : view'[j].of = view'[i].of => j \in 1 .. n
    BY <1>3, <2>1
  <2>. QED BY <1>1, <1>3, <2>2, <2>4, <2>5
<1>11. ASSUME NEW i \in DOMAIN view', NEW j \in DOMAIN view', i < j,
              view'[i].of = view'[j].of
       PROVE  /\ load' = "done" /\ view'[i].of \in seen' \ early'
              /\ \A k \in DOMAIN view' : view'[k].of = view'[i].of => k \in {i, j}
  <2>1. i \in 1 .. n /\ view'[i] = view[i]
    BY <1>3, <1>11
  <2>2. CASE j = n + 1
    <3>1. view[i].of = e.of
      BY <1>3, <1>11, <2>1, <2>2
    <3>2. /\ load = "done" /\ e.of \in seen \ early
          /\ \A k \in 1 .. n : view[k].of = e.of => k = i
      BY <1>6, <2>1, <3>1
    <3>3. \A k \in DOMAIN view' : view'[k].of = e.of => k \in {i, j}
      BY <1>3, <2>2, <3>2
    <3>. QED BY <1>1, <2>1, <3>1, <3>2, <3>3
  <2>3. CASE j \in 1 .. n
    <3>1. view'[j] = view[j]
      BY <1>3, <2>3
    <3>2. view[i].of # e.of
      BY <1>6, <1>11, <2>1, <2>3, <3>1
    <3>3. /\ load = "done" /\ view[i].of \in seen \ early
          /\ \A k \in 1 .. n : view[k].of = view[i].of => k \in {i, j}
      BY <1>3, <1>11, <2>1, <2>3, <3>1 DEF TwiceInv, NothingTwice
    <3>4. \A k \in DOMAIN view' : view'[k].of = view'[i].of => k \in 1 .. n
      BY <1>3, <2>1, <3>2
    <3>. QED BY <1>1, <1>3, <2>1, <3>3, <3>4
  <2>. QED BY <1>3, <1>11, <2>2, <2>3
<1>12. NothingTwice'
  BY <1>11 DEF NothingTwice
<1>13. \A i \in DOMAIN view' : Pending(view[i].of)' =>
         /\ load' = "done" /\ view'[i].of \in seen' \ early'
         /\ \A j \in DOMAIN view' : view'[j].of = view'[i].of => j = i
  BY <1>10 DEF Pending
<1>. QED BY <1>5, <1>7, <1>8, <1>9, <1>12, <1>13 DEF TwiceInv

LEMMA TwiceNext ==
  ASSUME TypeOK, TableInv, ContentInv, TextInv, LostInv, TwiceInv, [Next]_vars
  PROVE  TwiceInv'
<1>1. ASSUME NEW m \in Messages, Store(m), UNCHANGED screen PROVE TwiceInv'
  <2>1. UNCHANGED << load, answer, frames, view, seen, early >>
    BY <1>1 DEF screen
  <2>2. \A n \in Rows : stage'[n] = stage[n]
    BY <1>1 DEF Store, HandleMessage, NextVal, Commit, Move, Rows, TypeOK, HistoryTypeOK
  <2>3. Of(frames) \subseteq Rows
    BY OfIsOfRange DEF TextInv, AllFaithful, Faithful
  <2>4. \A n \in Rows : Pending(n)' => Pending(n)
    BY <2>1, <2>2 DEF Pending, Of
  <2>5. \A n \in Of(frames') : stage'[n] = "sent" /\ n \notin early
    BY <2>1, <2>2, <2>3 DEF TwiceInv
  <2>. QED BY <2>1, <2>4, <2>5, TwiceStays DEF TwiceInv
<1>2. ASSUME NEW m \in Messages, Broadcast(m) PROVE TwiceInv'
  <2>1. /\ UNCHANGED << load, answer, view, seen, early >>
        /\ m \in Rows /\ stage[m] = "stored" /\ stage'[m] = "sent"
        /\ \A n \in Messages : n # m => stage'[n] = stage[n]
    BY <1>2 DEF Broadcast, Move, TypeOK, HistoryTypeOK, Rows
  <2>2. m \notin early \cup Of(frames)
    BY <2>1 DEF TwiceInv
  <2>3. Distinct(frames') /\ Of(frames') \subseteq Of(frames) \cup {m}
    <3>1. CASE frames' = Append(frames, Entry(m))
      <4>1. Entry(m) \in Entries /\ Entry(m).of = m
        BY <2>1, EntryIsFaithful DEF Entry
      <4>2. /\ Len(frames) \in Nat /\ DOMAIN frames = 1 .. Len(frames)
            /\ DOMAIN frames' = 1 .. (Len(frames) + 1)
            /\ \A i \in 1 .. Len(frames) : frames'[i] = frames[i]
            /\ frames'[Len(frames) + 1].of = m
            /\ Of(frames') = Of(frames) \cup {m}
        BY <3>1, <4>1, Appended DEF TypeOK
      <4>3. \A i \in 1 .. Len(frames) : frames[i].of # m
        BY <2>2, <4>2 DEF Of
      <4>4. \A i, j \in 1 .. Len(frames) : frames[i].of = frames[j].of => i = j
        BY <4>2 DEF TwiceInv, Distinct
      <4>5. Distinct(frames')
        BY <4>2, <4>3, <4>4 DEF Distinct
      <4>. QED BY <4>2, <4>5
    <3>2. CASE frames' = frames
      BY <3>2 DEF TwiceInv
    <3>. QED BY <1>2, <3>1, <3>2 DEF Broadcast
  <2>4. \A n \in Rows : (stage'[n] = "stored" \/ n \in Of(frames')) => Pending(n)
    BY <2>1, <2>3 DEF Pending, Rows
  <2>5. \A n \in Of(frames) : n \in Messages /\ stage[n] = "sent" /\ n \notin early
    BY OfIsOfRange DEF TwiceInv, TextInv, AllFaithful, Faithful, Rows
  <2>6. \A n \in Of(frames') : stage'[n] = "sent" /\ n \notin early
    BY <2>1, <2>2, <2>3, <2>5
  <2>7. \A n \in Rows : Pending(n)' => Pending(n)
    BY <2>4 DEF Pending
  <2>8. Distinct(answer') /\ (load = "answered" => Of(answer') \subseteq seen)
    BY <2>1 DEF TwiceInv
  <2>. QED BY <2>1, <2>3, <2>6, <2>7, <2>8, TwiceStays
<1>3. ASSUME OpenChat \/ Select \/ LoadFails PROVE TwiceInv'
  <2>1. /\ load # "done" /\ load' # "done"
        /\ UNCHANGED << stage, frames, view >> /\ early' \subseteq early
    BY <1>3 DEF OpenChat, Select, LoadFails, table
  <2>2. \A i \in DOMAIN view : ~ Pending(view[i].of)
    BY <2>1 DEF TwiceInv
  <2>3. \A i, j \in DOMAIN view : ~ (i < j /\ view[i].of = view[j].of)
    BY <2>1 DEF TwiceInv, NothingTwice
  <2>4. Distinct(answer') /\ (load' = "answered" => Of(answer') \subseteq seen')
    <3>1. CASE Select
      BY <3>1, Answered DEF Select
    <3>2. CASE OpenChat
      BY <3>2 DEF OpenChat, TwiceInv
    <3>3. CASE LoadFails
      BY <3>3 DEF LoadFails, Distinct
    <3>. QED BY <1>3, <3>1, <3>2, <3>3
  <2>5. \A i \in DOMAIN view' : ~ Pending(view[i].of)'
    BY <2>1, <2>2 DEF Pending, Of
  <2>6. NothingTwice'
    BY <2>1, <2>3 DEF NothingTwice
  <2>7. Distinct(frames') /\ \A m \in early' \cup Of(frames') : stage'[m] = "sent"
    BY <2>1 DEF TwiceInv
  <2>8. early' \cap Of(frames') = {}
    BY <2>1 DEF TwiceInv
  <2>. QED BY <2>4, <2>5, <2>6, <2>7, <2>8 DEF TwiceInv
<1>4. ASSUME LoadLands PROVE TwiceInv'
  <2>1. /\ load = "answered" /\ load' = "done" /\ view' = answer /\ answer' = << >>
        /\ UNCHANGED << stage, frames, seen, early >>
    BY <1>4 DEF LoadLands, table
  <2>2. \A i, j \in DOMAIN answer : answer[i].of = answer[j].of => i = j
    BY DEF TwiceInv, Distinct
  <2>3. \A i \in DOMAIN answer : answer[i].of \in seen /\ answer[i].of \in Rows
    BY <2>1 DEF TwiceInv, Of, TypeOK
  <2>4. ASSUME NEW i \in DOMAIN answer,
               stage[answer[i].of] = "stored" \/ answer[i].of \in Of(frames)
        PROVE  answer[i].of \notin early
    BY <2>4 DEF TwiceInv
  <2>5. \A i \in DOMAIN view' : Pending(view[i].of)' =>
          /\ view'[i].of \in seen' \ early'
          /\ \A j \in DOMAIN view' : view'[j].of = view'[i].of => j = i
    BY <2>1, <2>2, <2>3, <2>4 DEF Pending, Of
  <2>6. NothingTwice'
    <3>. SUFFICES ASSUME NEW i \in DOMAIN answer, NEW j \in DOMAIN answer, i < j,
                         answer[i].of = answer[j].of
                  PROVE  FALSE
      BY <2>1 DEF NothingTwice
    <3>1. DOMAIN answer = 1 .. Len(answer) /\ Len(answer) \in Nat
      BY LenProperties DEF TypeOK
    <3>. QED BY <2>2, <3>1
  <2>7. Distinct(answer') /\ Distinct(frames')
    BY <2>1 DEF TwiceInv, Distinct
  <2>8. /\ \A m \in early' \cup Of(frames') : stage'[m] = "sent"
        /\ early' \cap Of(frames') = {}
    BY <2>1 DEF TwiceInv
  <2>. QED BY <2>1, <2>5, <2>6, <2>7, <2>8 DEF TwiceInv
<1>5. CASE FrameArrives
  BY <1>5, FrameTwice
<1>6. ASSUME Restart PROVE TwiceInv'
  <2>1. /\ frames' = << >> /\ UNCHANGED << load, answer, view, seen, early >>
        /\ \A m \in Rows : stage'[m] = "sent"
    BY <1>6 DEF Restart, Rows
  <2>2. Of(frames') = {}
    BY <2>1, NothingInEmpty
  <2>3. \A m \in Rows : ~ Pending(m)'
    BY <2>1, <2>2 DEF Pending
  <2>4. Distinct(frames')
    BY <2>1 DEF Distinct
  <2>. QED BY <2>1, <2>2, <2>3, <2>4, TwiceStays DEF TwiceInv
<1>7. ASSUME UNCHANGED vars \/ \E n \in Limits : ReadPage(n) /\ UNCHANGED screen
      PROVE  TwiceInv'
  <2>1. UNCHANGED << stage, load, answer, frames, view, seen, early >>
    BY <1>7 DEF vars, screen, table, ReadPage
  <2>. QED BY <2>1 DEF TwiceInv, Distinct, Of, Pending, NothingTwice
<1>. QED BY <1>1, <1>2, <1>3, <1>4, <1>5, <1>6, <1>7 DEF Next

----------------------------------------------------------------------------
(***************************************************************************)
(* The theorems.                                                           *)
(***************************************************************************)

LEMMA NextIInv == ASSUME IInv, [Next]_vars PROVE IInv'
<1>1. TypeOK'
  BY TypeNext DEF IInv
<1>2. TableInv'
  BY TableNext DEF IInv
<1>3. ContentInv'
  BY ContentNext DEF IInv
<1>4. PagerInv'
  BY PagerNext DEF IInv
<1>5. TextInv'
  BY TextNext DEF IInv
<1>6. LostInv'
  BY LostNext DEF IInv
<1>7. TwiceInv'
  BY TwiceNext DEF IInv
<1>. QED BY <1>1, <1>2, <1>3, <1>4, <1>5, <1>6, <1>7 DEF IInv

LEMMA SpecIInv == Spec => []IInv
<1>1. IInv /\ [Next]_vars => IInv'
  BY NextIInv
<1>. QED BY InitIInv, <1>1, PTL DEF Spec

\* The table, the reader's pages and the open chat stay well-formed; every page
\* that was read, every row the answer was made of and every message counted as
\* early or missed is a row that was stored.
THEOREM ViewTypeCorrect == Spec => []TypeOK
<1>1. IInv => TypeOK
  BY DEF IInv
<1>. QED BY <1>1, SpecIInv, PTL

\* Paging by id through a history ordered by created_at (GetMessages) misses a
\* message or repeats one only at a cut between two inserts that overtook each
\* other or began in the same microsecond.
THEOREM PagingIsExactHolds == Spec => []PagingIsExactButForDisorder
<1>1. IInv => PagingIsExactButForDisorder
  BY DEF IInv, PagerInv
<1>. QED BY <1>1, SpecIInv, PTL

\* No insert overtakes another and no two share a microsecond: id and created_at
\* order the rows alike.
NoneDisordered == \A m, n \in Rows : ~ Disordered(m, n)

\* Of the messages there were when the first page was read, a reader has all
\* from its cursor on; and it has none of them twice.
PagingIsExact ==
  /\ twice = {}
  /\ \A m \in base : (cursor > 0 /\ cursor <= id[m]) => m \in got

\* Where id and created_at order the rows alike, GetMessages pages exactly.
THEOREM PagingIsExactInOrder == Spec => [](NoneDisordered => PagingIsExact)
<1>1. ASSUME IInv, NoneDisordered PROVE PagingIsExact
  <2>1. cuts \subseteq Rows /\ base \subseteq Rows /\ twice \subseteq Rows
    BY <1>1 DEF IInv, TypeOK, HistoryTypeOK
  <2>2. PagingIsExactButForDisorder
    BY <1>1 DEF IInv, PagerInv
  <2>. QED BY <1>1, <2>1, <2>2 DEF PagingIsExactButForDisorder, PagingIsExact, NoneDisordered
<1>2. IInv => (NoneDisordered => PagingIsExact)
  BY <1>1
<1>. QED BY <1>2, SpecIInv, PTL

\* The message the page without a cursor ends with, whatever the limit, is one of
\* those GetChats may make its preview of, and all of those are of one microsecond.
THEOREM PreviewIsLastMessageHolds == Spec => []PreviewIsLastMessage
<1>1. IInv => PreviewIsLastMessage
  BY PreviewFollows DEF IInv
<1>. QED BY <1>1, SpecIInv, PTL

\* What the screen shows is a stored message as its author's client posted it (the
\* ciphertext, for an E2E message), unless the key was replaced after the server
\* sealed it.
THEOREM ShownAsPostedHolds == Spec => []ShownAsPosted
<1>1. ASSUME IInv PROVE ShownAsPosted
  <2>1. \A e \in Range(view) : Faithful(e)
    BY <1>1 DEF IInv, TextInv, AllFaithful
  <2>2. \A k \in DOMAIN view : Faithful(view[k])
    BY <2>1 DEF Range
  <2>. QED BY <2>2 DEF ShownAsPosted, Faithful
<1>2. IInv => ShownAsPosted
  BY <1>1
<1>. QED BY <1>2, SpecIInv, PTL

\* The list on the screen (_loadMessages, _subscribeWs) loses a message or has
\* it twice only where the GET and the frames overlap.
THEOREM ViewIsExactHolds == Spec => []ViewIsExactButForTheWindow
<1>1. IInv => NothingLost
  BY DEF IInv, LostInv, NothingLost
<1>2. IInv => NothingTwice
  BY DEF IInv, TwiceInv
<1>3. IInv => ViewIsExactButForTheWindow
  BY <1>1, <1>2 DEF ViewIsExactButForTheWindow
<1>. QED BY <1>3, SpecIInv, PTL
=============================================================================
