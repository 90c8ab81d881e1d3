--------------------------- MODULE MessageHistory ---------------------------
(***************************************************************************)
(* The table messages of one chat: written by handleMessage of internal/   *)
(* chat/client.go, read by GetMessages and GetChats of internal/chat/      *)
(* handler.go, for a reader who is a member of the chat.                   *)
(*                                                                         *)
(* Every INSERT is a transaction of its own.  Its created_at is NOW() in   *)
(* microseconds, taken when the statement begins and nowhere asked to be   *)
(* unique; its id is taken when it runs, and the row is seen when it       *)
(* commits: three steps that those of other senders come between.          *)
(***************************************************************************)
EXTENDS Naturals, FiniteSets, Sequences, Crypto

CONSTANTS
  Messages,   \* the messages the chat ever gets, each handled once
  Secret,     \* those whose is_e2e is true
  Keys,       \* the values MESSAGE_ENC_KEY may have
  MaxLimit,   \* the largest page, 100 in the code
  Limits,     \* the limits readers ask for
  Faults      \* a restart with a new key, a lost frame, a failing statement

ASSUME HistoryAssumption ==
  /\ IsFiniteSet(Messages)
  /\ Secret \subseteq Messages
  /\ MaxLimit \in Nat \ {0}
  /\ Limits \subseteq Nat
  /\ Faults \subseteq {"rekey", "offline", "db"}

VARIABLES
  stage,    \* how far handleMessage is with a message
  id,       \* messages.id, 0 before nextval
  at,       \* messages.created_at, 0 before the statement begins
  content,  \* messages.content_encrypted
  key,      \* msgEncKey of the running process
  outdated, \* the messages sealed before a restart changed the key (history)
  cursor,   \* "before" of the next page a reader pages through, 0 at first
  got,      \* the messages on the pages so far
  twice,    \* those that were on two pages (history)
  cuts,     \* the last message of every page (history)
  base      \* the rows there were when the first page was read (history)

table  == << stage, id, at, content >>
server == << key, outdated >>
pager  == << cursor, got, twice, cuts, base >>

Stages == {"draft", "begun", "numbered", "stored", "sent", "gone"}

\* The plaintext of a message.
Plain(m) == [said |-> m]

\* What Decrypt returns with an err is no plaintext.
ASSUME ErrorAssumption == \A m \in Messages : Plain(m) # Error

\* What the client puts into the frame: plaintext, or a ciphertext under a key
\* the server does not have.
Payload(m) == IF m \in Secret THEN [sealed |-> Plain(m)] ELSE Plain(m)

Rows == { m \in Messages : stage[m] \in {"stored", "sent"} }

HistoryInit ==
  /\ stage = [m \in Messages |-> "draft"]
  /\ id = [m \in Messages |-> 0]
  /\ at = [m \in Messages |-> 0]
  /\ content = [m \in Messages |-> Plain(m)]
  /\ key \in Keys
  /\ outdated = {}
  /\ cursor = 0 /\ got = {} /\ twice = {} /\ cuts = {} /\ base = {}

Move(m, s) == stage' = [stage EXCEPT ![m] = s]

\* One more than any of the values given out so far.
Next1(f) == 1 + Cardinality({ m \in Messages : f[m] # 0 })

(***************************************************************************)
(* handleMessage.                                                          *)
(***************************************************************************)

\* Faulty Stored: the server seals what is sealed already.
StoredSealedTwice(m) == Encrypt(Payload(m), key)

\* What goes into the column: the content is sealed unless the client did so.
Stored(m) == IF m \in Secret THEN Payload(m) ELSE Encrypt(Payload(m), key)

\* What the clock of the database says when a statement begins: the microsecond of
\* the last one that began or a later one, counted without gaps.
Now == { t \in 1 .. Next1(at) : /\ \A m \in Messages : at[m] <= t
                                /\ t > 1 => \E m \in Messages : at[m] + 1 >= t }

\* The frame is read and the INSERT begins.  A frame _sendRaw of the client
\* drops, having no channel, never gets here: its message stays a draft, and
\* nothing tells its author.
HandleMessage(m) ==
  /\ stage[m] = "draft"
  /\ Move(m, "begun")
  /\ \E t \in Now : at' = [at EXCEPT ![m] = t]
  /\ content' = [content EXCEPT ![m] = Stored(m)]
  /\ UNCHANGED << id, server, pager >>

NextVal(m) ==
  /\ stage[m] = "begun"
  /\ Move(m, "numbered")
  /\ id' = [id EXCEPT ![m] = Next1(id)]
  /\ UNCHANGED << at, content, server, pager >>

\* The INSERT commits, or fails and leaves a hole in the ids.
Commit(m) ==
  /\ stage[m] = "numbered"
  /\ Move(m, "stored") \/ ("db" \in Faults /\ Move(m, "gone"))
  /\ UNCHANGED << id, at, content, server, pager >>

(***************************************************************************)
(* GetMessages.                                                            *)
(***************************************************************************)
Capped(limit) == IF limit > MaxLimit THEN MaxLimit ELSE limit

\* Faulty Older: the message the reader has is on the next page again.
OlderOrSame(before) == IF before > 0 THEN { m \in Rows : id[m] <= before } ELSE Rows

Older(before) == IF before > 0 THEN { m \in Rows : id[m] < before } ELSE Rows

\* P is what ORDER BY created_at DESC LIMIT n may leave of R: rows of the same
\* microsecond come in any order.
Newest(P, R, n) ==
  /\ P \subseteq R
  /\ Cardinality(P) <= n
  /\ P # R => Cardinality(P) = n
  /\ \A p \in P, q \in R \ P : at[q] <= at[p]

\* The pages that may be the answer (one, but for rows of the same microsecond).
Pages(before, limit) ==
  { P \in SUBSET Older(before) : Newest(P, Older(before), Capped(limit)) }

\* Faulty Shown: the error of Decrypt is not looked at.
ShownUnchecked(m) == IF m \in Secret THEN content[m] ELSE Decrypt(content[m], key)

\* What a reader is shown: E2E content as it is, the rest opened with the key;
\* what does not open stays sealed.
Shown(m) ==
  LET opened == Decrypt(content[m], key) IN
  IF m \in Secret \/ opened = Error THEN content[m] ELSE opened

\* The answer lists the page from old to new.
Listed(P) == { s \in [1 .. Cardinality(P) -> P] :
                 \A i, j \in DOMAIN s : i < j => s[i] # s[j] /\ at[s[i]] <= at[s[j]] }

Entry(m)  == [of |-> m, text |-> Shown(m)]
Answer(s) == [k \in DOMAIN s |-> Entry(s[k])]

\* A reader pages through the history: the next page is asked for before the
\* first message of the one before, which is any of its oldest, until a page is
\* empty.
ReadPage(limit) ==
  /\ \E P \in Pages(cursor, limit) :
       /\ P # {}
       /\ got' = got \cup P
       /\ twice' = twice \cup (got \cap P)
       /\ \E c \in P : /\ \A p \in P : at[c] <= at[p]
                       /\ cursor' = id[c]
                       /\ cuts' = cuts \cup {c}
  /\ base' = IF cursor = 0 THEN Rows ELSE base
  /\ UNCHANGED << table, server >>

(***************************************************************************)
(* GetChats: the preview of the last message.                              *)
(***************************************************************************)

\* Faulty LastMessages: the row with the largest id.
LastById == { m \in Rows : \A n \in Rows : id[n] <= id[m] }

\* ORDER BY created_at DESC LIMIT 1: any of the rows of the last microsecond.
LastMessages == { m \in Rows : \A n \in Rows : at[n] <= at[m] }

Hidden == [said |-> "hidden"]

Preview(m) == IF m \in Secret THEN Hidden ELSE Shown(m)

----------------------------------------------------------------------------
(***************************************************************************)
(* Properties.                                                             *)
(***************************************************************************)
HistoryTypeOK ==
  /\ stage \in [Messages -> Stages]
  /\ id \in [Messages -> Nat]
  /\ at \in [Messages -> Nat]
  /\ DOMAIN content = Messages
  /\ key \in Keys
  /\ outdated \subseteq Messages
  /\ cursor \in Nat
  /\ got \subseteq Rows /\ base \subseteq Rows
  /\ twice \subseteq got /\ cuts \subseteq got

\* created_at and id do not order m and n alike: one of the INSERTs overtook the
\* other between NOW() and nextval, or both began in the same microsecond.
Disordered(m, n) == id[m] < id[n] /\ at[n] <= at[m]

\* Paging misses a message that was there from the beginning, or shows one
\* twice, only where a page was cut between two messages that are disordered:
\* pages are cut by id and ordered by created_at alone.
PagingIsExactButForDisorder ==
  /\ \A m \in base \ got :
       (cursor > 0 /\ cursor <= id[m]) => \E c \in cuts : Disordered(c, m)
  /\ \A m \in twice : \E c \in cuts : Disordered(m, c)

\* The preview of the chat list is of the last message GetMessages lists, shown
\* alike but for E2E messages; or of one of the same microsecond, since neither
\* query says which of those comes last.
PreviewIsLastMessage ==
  \A n \in Limits \ {0} : \A P \in Pages(0, n) : \A s \in Listed(P) : P # {} =>
    LET last == s[Len(s)] IN
    /\ last \in LastMessages
    /\ \A m \in LastMessages : at[m] = at[last]
    /\ Preview(last) \in {Hidden, Entry(last).text}
=============================================================================
