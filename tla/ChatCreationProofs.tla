------------------------- MODULE ChatCreationProofs -------------------------
(***************************************************************************)
(* Theorems about chat creation.                                           *)
(***************************************************************************)
EXTENDS ChatCreation, TLAPS

\* A request that has been looked up and not yet answered has no chat, and
\* one that has been answered never changes again.
RequestInv ==
  /\ \A r \in chats : pc[r] = "done" /\ group[r] = wantsGroup[r]
  /\ \A r \in Requests :
       /\ pc[r] # "done" => answer[r] = None
       /\ pc[r] # "idle" => by[r] \in Users /\ list[r] \in Lists
       /\ pc[r] = "idle" => known[r] = {}
       /\ known[r] \subseteq chats

\* What the look-up of a direct chat has seen is no direct chat of the pair.
LookupInv ==
  \A r \in Requests : \A i \in known[r] :
    (/\ WantsDirect(list[r], wantsGroup[r])
     /\ pc[r] = "insert" \/ r \in chats)
    => group[i] \/ ~ {by[r], list[r][1]} \subseteq members[i]

\* AnswerIsUsable but for the lists, which follow from it.
AnswerInv ==
  \A r \in Requests : answer[r] # None =>
    /\ answer[r] \in chats
    /\ {by[r]} \cup Range(list[r]) \subseteq members[answer[r]]
    /\ group[answer[r]] = wantsGroup[r]

Inv == TypeOK /\ RequestInv /\ LookupInv /\ AllMembersOrNoChat /\ AnswerInv

(* The members of a direct chat are the creator and the one named. *)
LEMMA DirectRange ==
  ASSUME NEW l \in Lists, NEW g, WantsDirect(l, g)
  PROVE  Range(l) = {l[1]}
<1>1. DOMAIN l = 1 .. 1
  BY ChatAssumption DEF WantsDirect
<1>2. DOMAIN l = {1}
  BY <1>1
<1>. QED BY <1>2 DEF Range

LEMMA InitInv == Init => Inv
<1>. SUFFICES ASSUME Init PROVE Inv
  OBVIOUS
<1>. USE ChatAssumption DEF Init
<1>1. TypeOK
  BY DEF TypeOK
<1>2. RequestInv /\ LookupInv
  BY DEF RequestInv, LookupInv
<1>3. AllMembersOrNoChat /\ AnswerInv
  BY DEF AllMembersOrNoChat, AnswerInv
<1>. QED BY <1>1, <1>2, <1>3 DEF Inv

LEMMA LookupKeepsInv ==
  ASSUME Inv, NEW r \in Requests, NEW u \in Users, NEW l \in Lists, NEW g \in BOOLEAN,
         Lookup(r, u, l, g)
  PROVE  Inv'
<1>. USE ChatAssumption DEF Inv
<1>1. /\ pc[r] = "idle" /\ r \notin chats
      /\ by' = [by EXCEPT ![r] = u] /\ list' = [list EXCEPT ![r] = l]
      /\ wantsGroup' = [wantsGroup EXCEPT ![r] = g]
      /\ UNCHANGED << chats, members, group >>
  BY DEF Lookup, tables, RequestInv
<1>2. CASE /\ \E i \in Found(u, l, g) : Answer(r, "existing", i)
           /\ Goto(r, "done")
           /\ known' = [known EXCEPT ![r] = chats]
  <2>1. PICK i \in Found(u, l, g) :
          /\ reply' = [reply EXCEPT ![r] = "existing"]
          /\ answer' = [answer EXCEPT ![r] = i]
    BY <1>2 DEF Answer
  <2>2. WantsDirect(l, g) /\ i \in chats /\ {u, l[1]} \subseteq members[i] /\ ~ group[i]
    BY <2>1 DEF Found, Existing
  <2>3. TypeOK'
    BY <1>1, <1>2, <2>1, <2>2 DEF TypeOK, Goto
  <2>4. RequestInv'
    BY <1>1, <1>2, <2>1 DEF RequestInv, TypeOK, Goto
  <2>5. LookupInv'
    BY <1>1, <1>2 DEF LookupInv, TypeOK, Goto, WantsDirect
  <2>6. AllMembersOrNoChat'
    BY <1>1 DEF AllMembersOrNoChat, TypeOK
  <2>7. {u} \cup Range(l) \subseteq members[i] /\ group[i] = g
    BY <2>2, DirectRange DEF WantsDirect, TypeOK
  <2>8. AnswerInv'
    BY <1>1, <2>1, <2>2, <2>7 DEF AnswerInv, TypeOK
  <2>. QED BY <2>3, <2>4, <2>5, <2>6, <2>8
<1>3. CASE /\ Goto(r, "insert")
           /\ \/ Found(u, l, g) = {} /\ known' = [known EXCEPT ![r] = chats]
              \/ known' = known
           /\ UNCHANGED << reply, answer >>
  <2>1. TypeOK'
    BY <1>1, <1>3 DEF TypeOK, Goto
  <2>2. RequestInv'
    BY <1>1, <1>3 DEF RequestInv, TypeOK, Goto
  <2>3. ASSUME NEW i \in known'[r], WantsDirect(l, g)
        PROVE  group[i] \/ ~ {u, l[1]} \subseteq members[i]
    BY <1>1, <1>3, <2>3 DEF Found, Existing, RequestInv, TypeOK
  <2>4. LookupInv'
    BY <1>1, <1>3, <2>3 DEF LookupInv, TypeOK, Goto, WantsDirect
  <2>5. AllMembersOrNoChat'
    BY <1>1 DEF AllMembersOrNoChat, TypeOK
  <2>6. AnswerInv'
    BY <1>1, <1>3 DEF AnswerInv, RequestInv, TypeOK
  <2>. QED BY <2>1, <2>2, <2>4, <2>5, <2>6
<1>. QED BY <1>2, <1>3 DEF Lookup

LEMMA CommitInv == ASSUME Inv, NEW r \in Requests, Commit(r) PROVE Inv'
<1>. USE ChatAssumption DEF Inv
<1>. DEFINE M == {by[r]} \cup { list[r][k] : k \in Others(r) }
<1>1. /\ pc[r] = "insert" /\ r \notin chats
      /\ chats' = chats \cup {r} /\ members' = [members EXCEPT ![r] = M]
      /\ group' = [group EXCEPT ![r] = wantsGroup[r]]
      /\ pc' = [pc EXCEPT ![r] = "done"]
      /\ reply' = [reply EXCEPT ![r] = "created"] /\ answer' = [answer EXCEPT ![r] = r]
      /\ UNCHANGED << by, list, wantsGroup, known >>
  BY DEF Commit, Goto, Answer, request, RequestInv
<1>2. by[r] \in Users /\ M \subseteq Users
  BY <1>1 DEF Commit, InsertsSucceed, RequestInv
<1>3. M = {by[r]} \cup Range(list[r])
  BY DEF Others, Range
<1>. HIDE DEF M
<1>4. TypeOK'
  BY <1>1, <1>2, <1>3 DEF TypeOK
<1>5. RequestInv'
  BY <1>1 DEF RequestInv, TypeOK
<1>6. LookupInv'
  BY <1>1 DEF LookupInv, RequestInv, TypeOK
<1>7. AllMembersOrNoChat'
  BY <1>1, <1>3 DEF AllMembersOrNoChat, TypeOK
<1>8. AnswerInv'
  BY <1>1, <1>3 DEF AnswerInv, TypeOK
<1>. QED BY <1>4, <1>5, <1>6, <1>7, <1>8

LEMMA CommitFailsInv == ASSUME Inv, NEW r \in Requests, CommitFails(r) PROVE Inv'
<1>. USE ChatAssumption DEF Inv
<1>1. /\ pc[r] = "insert" /\ r \notin chats
      /\ pc' = [pc EXCEPT ![r] = "done"]
      /\ reply' = [reply EXCEPT ![r] = "error"] /\ answer' = [answer EXCEPT ![r] = None]
      /\ UNCHANGED << chats, members, group, by, list, wantsGroup, known >>
  BY DEF CommitFails, Goto, Answer, tables, request, RequestInv
<1>2. TypeOK'
  BY <1>1 DEF TypeOK
<1>3. RequestInv'
  BY <1>1 DEF RequestInv, TypeOK
<1>4. LookupInv'
  BY <1>1 DEF LookupInv, TypeOK
<1>5. AllMembersOrNoChat'
  BY <1>1 DEF AllMembersOrNoChat
<1>6. AnswerInv'
  BY <1>1 DEF AnswerInv, TypeOK
<1>. QED BY <1>2, <1>3, <1>4, <1>5, <1>6

LEMMA NextInv == ASSUME Inv, [Next]_vars PROVE Inv'
<1>1. CASE UNCHANGED vars
  BY <1>1 DEF Inv, TypeOK, RequestInv, LookupInv, AllMembersOrNoChat, AnswerInv,
              vars, tables, request
<1>. QED BY <1>1, LookupKeepsInv, CommitInv, CommitFailsInv DEF Next

(* The tables and requests stay well-formed; a creator is always a member. *)
THEOREM CreationTypeCorrect == Spec => []TypeOK
<1>1. Inv => TypeOK
  BY DEF Inv
<1>2. Inv /\ [Next]_vars => Inv'
  BY NextInv
<1>. QED BY InitInv, <1>1, <1>2, PTL DEF Spec

(* CreateChat commits all the members of a request or no chat. *)
THEOREM AllMembersOrNoChatHolds == Spec => []AllMembersOrNoChat
<1>1. Inv => AllMembersOrNoChat
  BY DEF Inv
<1>2. Inv /\ [Next]_vars => Inv'
  BY NextInv
<1>. QED BY InitInv, <1>1, <1>2, PTL DEF Spec

(* A chat without a name in the list of u is one u asked for himself. *)
LEMMA NamelessIsOwn ==
  ASSUME Inv, NEW u, NEW i \in ChatsOf(u), ~ Named(u, i)
  PROVE  SelfChat(u)
<1>1. i \in chats /\ i \in Requests /\ ~ group[i] /\ members[i] = {u}
  BY DEF ChatsOf, Named, Inv, TypeOK
<1>2. {by[i]} \cup Range(list[i]) = {u} /\ ~ wantsGroup[i]
  BY <1>1 DEF Inv, AllMembersOrNoChat, RequestInv
<1>3. by[i] = u /\ Range(list[i]) \subseteq {u}
  BY <1>2
<1>. QED BY <1>1, <1>2, <1>3 DEF SelfChat

(* Who has no such chat is answered with all his chats. *)
LEMMA AllAreListed ==
  ASSUME Inv, NEW u, ~ SelfChat(u), NEW s \in Orders(u), NEW i \in ChatsOf(u)
  PROVE  i \in GetChats(u, s)
<1>1. /\ Range(s) = ChatsOf(u)
      /\ \A n \in DOMAIN s : s[n] \in ChatsOf(u)
  BY DEF Orders
<1>2. PICK k \in DOMAIN s : s[k] = i
  BY <1>1 DEF Range
<1>3. \A j \in DOMAIN s : Named(u, s[j])
  BY <1>1, NamelessIsOwn
<1>. QED BY <1>2, <1>3 DEF GetChats

(* The chat in the answer of CreateChat exists, has everybody the user     *)
(* named as a member, is of the kind that was asked for and is in the list *)
(* of each of them who has no chat with himself, in every order of it.     *)
THEOREM AnswerIsUsableHolds == Spec => []AnswerIsUsable
<1>1. Inv => AnswerIsUsable
  <2>. SUFFICES ASSUME Inv, NEW r \in Requests, answer[r] # None,
                       NEW u \in {by[r]} \cup Range(list[r]), ~ SelfChat(u),
                       NEW s \in Orders(u)
                PROVE  answer[r] \in GetChats(u, s)
    BY DEF Inv, AnswerInv, AnswerIsUsable
  <2>1. answer[r] \in ChatsOf(u)
    BY DEF Inv, AnswerInv, ChatsOf
  <2>. QED BY <2>1, AllAreListed
<1>2. Inv /\ [Next]_vars => Inv'
  BY NextInv
<1>. QED BY InitInv, <1>1, <1>2, PTL DEF Spec

(* Two direct chats of one pair can only come from look-ups that failed or *)
(* ran before the other chat was committed.                                *)
THEOREM DuplicatesOnlyFromOverlapHolds == Spec => []DuplicatesOnlyFromOverlap
<1>1. Inv => DuplicatesOnlyFromOverlap
  <2>. SUFFICES ASSUME Inv, NEW i \in chats, NEW j \in chats,
                       WantsDirect(list[i], wantsGroup[i]),
                       WantsDirect(list[j], wantsGroup[j]),
                       DirectPair(i) = DirectPair(j), i \in known[j]
                PROVE  FALSE
    BY DEF DuplicatesOnlyFromOverlap
  <2>1. i \in Requests /\ j \in Requests /\ list[j] \in Lists
    BY DEF Inv, TypeOK, RequestInv
  <2>2. Range(list[j]) = {list[j][1]}
    BY <2>1, DirectRange
  <2>3. {by[j], list[j][1]} \subseteq members[i]
    BY <2>2 DEF Inv, AllMembersOrNoChat, DirectPair
  <2>4. ~ group[i]
    BY DEF Inv, RequestInv, WantsDirect
  <2>. QED BY <2>1, <2>3, <2>4 DEF Inv, LookupInv
<1>2. Inv /\ [Next]_vars => Inv'
  BY NextInv
<1>. QED BY InitInv, <1>1, <1>2, PTL DEF Spec
=============================================================================
