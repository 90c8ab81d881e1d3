---------------------------- MODULE ChatCreation ----------------------------
(***************************************************************************)
(* CreateChat of internal/chat/handler.go on the tables chats and          *)
(* chat_members of internal/database/db.go.                                *)
(*                                                                         *)
(* Every request has a goroutine of its own.  The look-up of an existing   *)
(* direct chat is a statement of its own; the inserts are one transaction, *)
(* which nobody sees before it commits.  A request creates at most one     *)
(* chat, so the id of a chat is the request that created it.               *)
(***************************************************************************)
EXTENDS Naturals, FiniteSets, Sequences, Functions

CONSTANTS
  Users,     \* ids of the rows of table users
  Requests,  \* the POST /chats requests the server ever gets
  Lists,     \* the member_ids clients send; not all are ids of users
  None,      \* no user, no chat
  Faults     \* what may go wrong: the database refuses a statement ("db")

ASSUME ChatAssumption ==
  /\ None \notin Users \cup Requests
  /\ \A l \in Lists : DOMAIN l = 1 .. Len(l)
  /\ Faults \subseteq {"db"}

VARIABLES
  chats,    \* committed rows of table chats
  members,  \* chat -> users with a committed row in chat_members
  group,    \* chat -> chats.is_group
  pc,       \* "idle", "insert" (the look-up found nothing) or "done"
  by, list, wantsGroup,   \* the request: user id, member_ids, is_group
  reply,    \* "none" yet, "existing", "created" or "error"
  answer,   \* the chat id in the answer
  known     \* the chats committed when the look-up ran, if it did not fail (history)

request == << by, list, wantsGroup >>
tables  == << chats, members, group >>
vars    == << tables, pc, request, reply, answer, known >>

TypeOK ==
  /\ chats \subseteq Requests
  /\ members \in [Requests -> SUBSET Users]
  /\ group \in [Requests -> BOOLEAN]
  /\ pc \in [Requests -> {"idle", "insert", "done"}]
  /\ by \in [Requests -> Users \cup {None}]
  /\ list \in [Requests -> Lists \cup {<< >>}]
  /\ wantsGroup \in [Requests -> BOOLEAN]
  /\ reply \in [Requests -> {"none", "existing", "created", "error"}]
  /\ answer \in [Requests -> Requests \cup {None}]
  /\ known \in [Requests -> SUBSET Requests]
  /\ \A r \in chats : by[r] \in members[r]

Init ==
  /\ chats = {}
  /\ members = [r \in Requests |-> {}]
  /\ group = [r \in Requests |-> FALSE]
  /\ pc = [r \in Requests |-> "idle"]
  /\ by = [r \in Requests |-> None]
  /\ list = [r \in Requests |-> << >>]
  /\ wantsGroup = [r \in Requests |-> FALSE]
  /\ reply = [r \in Requests |-> "none"]
  /\ answer = [r \in Requests |-> None]
  /\ known = [r \in Requests |-> {}]

Goto(r, label)  == pc' = [pc EXCEPT ![r] = label]
Answer(r, a, i) == /\ reply' = [reply EXCEPT ![r] = a]
                   /\ answer' = [answer EXCEPT ![r] = i]

\* A request that asks for a direct chat: not a group and one other member.
WantsDirect(l, g) == ~ g /\ Len(l) = 1

\* Faulty Existing: groups count, too.
ExistingWithGroups(u, v) == { i \in chats : {u, v} \subseteq members[i] }

\* Faulty Existing: only chats the asking user created.
ExistingOwn(u, v) ==
  { i \in chats : {u, v} \subseteq members[i] /\ ~ group[i] /\ by[i] = u }

\* The join of chat_members with itself: both users are members and the chat
\* is no group.  Nothing else is asked of it, not even that the users differ.
Existing(u, v) == { i \in chats : {u, v} \subseteq members[i] /\ ~ group[i] }

Found(u, l, g) == IF WantsDirect(l, g) THEN Existing(u, l[1]) ELSE {}

\* The request arrives and the existing chat is looked up.  A look-up that
\* fails is taken for one that found nothing.
Lookup(r, u, l, g) ==
  /\ pc[r] = "idle"
  /\ by' = [by EXCEPT ![r] = u]
  /\ list' = [list EXCEPT ![r] = l]
  /\ wantsGroup' = [wantsGroup EXCEPT ![r] = g]
  /\ \/ /\ \E i \in Found(u, l, g) : Answer(r, "existing", i)
        /\ Goto(r, "done")
        /\ known' = [known EXCEPT ![r] = chats]
     \/ /\ Found(u, l, g) = {}
        /\ Goto(r, "insert")
        /\ known' = [known EXCEPT ![r] = chats]
        /\ UNCHANGED << reply, answer >>
     \/ /\ "db" \in Faults /\ WantsDirect(l, g)
        /\ Goto(r, "insert")
        /\ UNCHANGED << reply, answer, known >>
  /\ UNCHANGED tables

\* The members to insert besides the creator: one row per element of the list.
Others(r) == { k \in DOMAIN list[r] : list[r][k] # by[r] }

\* One failed INSERT, for an id of no user or one inserted already, aborts
\* the transaction; its error is ignored and the commit reports it.
InsertsSucceed(r) ==
  \A k \in Others(r) :
    /\ list[r][k] \in Users
    /\ \A n \in Others(r) : list[r][n] = list[r][k] => n = k

\* Faulty Commit: an insert that fails is left out.
CommitWhatFits(r) ==
  /\ pc[r] = "insert"
  /\ chats' = chats \cup {r}
  /\ members' = [members EXCEPT ![r] =
                    {by[r]} \cup { list[r][k] : k \in { n \in Others(r) : list[r][n] \in Users } }]
  /\ group' = [group EXCEPT ![r] = wantsGroup[r]]
  /\ Goto(r, "done")
  /\ Answer(r, "created", r)
  /\ UNCHANGED << request, known >>

\* Faulty Commit: the creator is not inserted.
CommitWithoutCreator(r) ==
  /\ pc[r] = "insert"
  /\ InsertsSucceed(r)
  /\ chats' = chats \cup {r}
  /\ members' = [members EXCEPT ![r] = { list[r][k] : k \in Others(r) }]
  /\ group' = [group EXCEPT ![r] = wantsGroup[r]]
  /\ Goto(r, "done")
  /\ Answer(r, "created", r)
  /\ UNCHANGED << request, known >>

Commit(r) ==
  /\ pc[r] = "insert"
  /\ InsertsSucceed(r)
  /\ chats' = chats \cup {r}
  /\ members' = [members EXCEPT ![r] = {by[r]} \cup { list[r][k] : k \in Others(r) }]
  /\ group' = [group EXCEPT ![r] = wantsGroup[r]]
  /\ Goto(r, "done")
  /\ Answer(r, "created", r)
  /\ UNCHANGED << request, known >>

CommitFails(r) ==
  /\ pc[r] = "insert"
  /\ ~ InsertsSucceed(r) \/ "db" \in Faults
  /\ Goto(r, "done")
  /\ Answer(r, "error", None)
  /\ UNCHANGED << tables, request, known >>

(***************************************************************************)
(* GetChats.                                                               *)
(***************************************************************************)
ChatsOf(u) == { i \in chats : u \in members[i] }

\* Faulty Named: the name is that of the creator, NULL if it is u.
NamedByCreator(u, i) == group[i] \/ by[i] # u

\* A chat that is no group has the name of a member other than u, NULL if there
\* is none.
Named(u, i) == group[i] \/ members[i] # {u}

\* The orders the chats of u may be in: by last activity, which any message in
\* any of them changes.
Orders(u) ==
  { s \in [1 .. Cardinality(ChatsOf(u)) -> ChatsOf(u)] : Range(s) = ChatsOf(u) }

\* The answer when the rows come in the order s.  A name that is NULL does not
\* scan, and a Scan that fails closes the rows: the loop goes on to a Next that
\* says there are no more, and nothing asks for the error.
GetChats(u, s) ==
  { s[k] : k \in { n \in DOMAIN s : \A j \in DOMAIN s : j <= n => Named(u, s[j]) } }

Next ==
  \E r \in Requests :
    \/ \E u \in Users, l \in Lists, g \in BOOLEAN : Lookup(r, u, l, g)
    \/ Commit(r)
    \/ CommitFails(r)

Spec == Init /\ [][Next]_vars

----------------------------------------------------------------------------
(***************************************************************************)
(* Properties.                                                             *)
(***************************************************************************)

\* A chat has the members that were asked for, all of them, or does not
\* exist: an id that cannot be inserted leaves no chat behind.
AllMembersOrNoChat ==
  \A r \in chats : members[r] = {by[r]} \cup Range(list[r])

\* u has asked for a direct chat with nobody but himself.
SelfChat(u) ==
  \E i \in chats : by[i] = u /\ ~ wantsGroup[i] /\ Range(list[i]) \subseteq {u}

\* The id in an answer is that of a committed chat of the asking user and of
\* everybody the user named, and a direct chat is never answered with a group.
\* Each of them finds it in his list of chats, in whatever order that is, unless
\* he has a chat with himself: no request of anybody else hides a chat.
AnswerIsUsable ==
  \A r \in Requests : answer[r] # None =>
    /\ answer[r] \in chats
    /\ {by[r]} \cup Range(list[r]) \subseteq members[answer[r]]
    /\ group[answer[r]] = wantsGroup[r]
    /\ \A u \in {by[r]} \cup Range(list[r]) :
         SelfChat(u) \/ \A s \in Orders(u) : answer[r] \in GetChats(u, s)

DirectPair(i) == {by[i]} \cup Range(list[i])

\* Two direct chats for one pair of users exist only if neither request could
\* see the other's chat: whichever of the two users asks, a chat that was
\* committed before a look-up that does not fail is found.
DuplicatesOnlyFromOverlap ==
  \A i, j \in chats :
    (/\ i # j
     /\ WantsDirect(list[i], wantsGroup[i]) /\ WantsDirect(list[j], wantsGroup[j])
     /\ DirectPair(i) = DirectPair(j))
    => i \notin known[j] /\ j \notin known[i]
=============================================================================
