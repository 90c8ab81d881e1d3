------------------------------ MODULE Accounts ------------------------------
(***************************************************************************)
(* The tables users and user_keys of internal/database/db.go and the       *)
(* handlers of internal/auth/handler.go that write them: Register, and     *)
(* UpdatePublicKey, which replaces the key GetPublicKey hands out.         *)
(*                                                                         *)
(* A registration is a transaction.  Its INSERT into users enters the row  *)
(* in two unique indexes, username first, and waits at either for a        *)
(* transaction that entered the same value and has not ended.              *)
(***************************************************************************)
EXTENDS Naturals, FiniteSets

CONSTANTS
  Attempts,  \* registration requests, and the user each of them creates
  Names,     \* usernames
  Emails,    \* email addresses
  NoKey,     \* no public key: a form without one, a user without a row
  Faults     \* {"db"}: statements may fail, commits fail or lose their answer

ASSUME AccountsAssumption == Faults \subseteq {"db"}

VARIABLES
  form,      \* the body of each request
  pc,        \* how far Register is with it
  reply,     \* the status it was answered
  claims,    \* << r, column >>: index entries of open transactions
  users,     \* the committed rows of users
  directory  \* the rows of user_keys: key and key_version

accounts == << form, pc, reply, claims, users, directory >>

Columns == {"username", "email"}
Working == {"begun", "named", "mailed", "keyed", "committed"}

AccountsInit ==
  /\ form \in [Attempts -> {[username |-> "", email |-> "", key |-> NoKey]}]
  /\ pc = [r \in Attempts |-> "idle"]
  /\ reply = [r \in Attempts |-> 0]
  /\ claims = {}
  /\ users = {}
  /\ directory = [r \in Attempts |-> [key |-> NoKey, version |-> 0]]

Goto(r, step)      == pc' = [pc EXCEPT ![r] = step]
Answer(r, status)  == reply' = [reply EXCEPT ![r] = status]
EndTransaction(r)  == claims' = claims \ ({r} \X Columns)

\* Faulty Rollback: no deferred tx.Rollback, the connection keeps its claims.
NoRollback(r) == UNCHANGED claims

Rollback(r) == EndTransaction(r)

\* The handler gives up: "answered" because of a conflict, "broken" because
\* something fails.
GiveUp(r, status, end) ==
  /\ Goto(r, end)
  /\ Answer(r, status)
  /\ Rollback(r)
  /\ UNCHANGED << form, users, directory >>

(***************************************************************************)
(* Register.                                                               *)
(***************************************************************************)

\* Every field is required: without a key the answer is 400.
Register(r, f) ==
  /\ pc[r] = "idle"
  /\ form' = [form EXCEPT ![r] = f]
  /\ IF f.key = NoKey THEN Goto(r, "answered") /\ Answer(r, 400)
                      ELSE Goto(r, "begun") /\ UNCHANGED reply
  /\ UNCHANGED << claims, users, directory >>

\* bcrypt refuses the password (it takes 72 bytes, the form any number), or the
\* transaction does not begin.
BeginFails(r) == pc[r] = "begun" /\ GiveUp(r, 500, "broken")

Same(r, column) == { q \in Attempts \ {r} : form[q][column] = form[r][column] }

Taken(r, column)   == Same(r, column) \cap users # {}
Blocked(r, column) == \E q \in Same(r, column) : << q, column >> \in claims

\* Faulty Claim: the entry of an open transaction counts as taken.
ClaimWithoutWaiting(r, column, from, to) ==
  /\ pc[r] = from
  /\ IF Taken(r, column) \/ Blocked(r, column) THEN GiveUp(r, 409, "answered")
     ELSE /\ Goto(r, to)
          /\ claims' = claims \cup {<< r, column >>}
          /\ UNCHANGED << form, reply, users, directory >>

\* One index of the INSERT into users.
Claim(r, column, from, to) ==
  /\ pc[r] = from
  /\ ~Blocked(r, column)
  /\ IF Taken(r, column) THEN GiveUp(r, 409, "answered")
     ELSE /\ Goto(r, to)
          /\ claims' = claims \cup {<< r, column >>}
          /\ UNCHANGED << form, reply, users, directory >>

ClaimName(r) == Claim(r, "username", "begun", "named")

\* Faulty ClaimEmail: the column has no unique index.
ClaimNoEmail(r) ==
  /\ pc[r] = "named"
  /\ Goto(r, "mailed")
  /\ UNCHANGED << form, reply, claims, users, directory >>

ClaimEmail(r) == Claim(r, "email", "named", "mailed")

\* The INSERT into users fails for any other reason: answered 409 all the same.
InsertUserFails(r) ==
  /\ "db" \in Faults /\ pc[r] \in {"begun", "named"}
  /\ GiveUp(r, 409, "broken")

\* Faulty InsertKey: the two INSERTs are no transaction, and the first stays
\* when the second fails.
InsertKeyAlone(r) ==
  /\ pc[r] = "mailed"
  /\ \/ /\ Goto(r, "keyed")
        /\ UNCHANGED << form, reply, claims, users, directory >>
     \/ /\ "db" \in Faults
        /\ Goto(r, "broken") /\ Answer(r, 500) /\ EndTransaction(r)
        /\ users' = users \cup {r}
        /\ UNCHANGED << form, directory >>

\* The INSERT into user_keys, seen by others once committed; answered 500 if
\* it fails.
InsertKey(r) ==
  /\ pc[r] = "mailed"
  /\ \/ /\ Goto(r, "keyed")
        /\ UNCHANGED << form, reply, claims, users, directory >>
     \/ "db" \in Faults /\ GiveUp(r, 500, "broken")

\* The commit takes effect; its answer may be lost.
Commit(r) ==
  /\ pc[r] = "keyed"
  /\ users' = users \cup {r}
  /\ directory' = [directory EXCEPT ![r] = [key |-> form[r].key, version |-> 1]]
  /\ EndTransaction(r)
  /\ \/ Goto(r, "committed") /\ UNCHANGED reply
     \/ "db" \in Faults /\ Goto(r, "broken") /\ Answer(r, 500)
  /\ UNCHANGED form

CommitFails(r) == "db" \in Faults /\ pc[r] = "keyed" /\ GiveUp(r, 500, "broken")

\* Faulty Created: another status.
CreatedAsOk(r) ==
  /\ pc[r] = "committed"
  /\ Goto(r, "answered")
  /\ Answer(r, 200)
  /\ UNCHANGED << form, claims, users, directory >>

\* issueTokens, SaveRefreshToken (its error ignored) and the answer.
Created(r) ==
  /\ pc[r] = "committed"
  /\ Goto(r, "answered")
  /\ Answer(r, 201)
  /\ UNCHANGED << form, claims, users, directory >>

Serving(r) ==
  ClaimName(r) \/ ClaimEmail(r) \/ InsertKey(r) \/ Commit(r) \/ Created(r)

Registering(r) ==
  Serving(r) \/ BeginFails(r) \/ InsertUserFails(r) \/ CommitFails(r)

(***************************************************************************)
(* Login's look-up, GetPublicKey and UpdatePublicKey.                      *)
(***************************************************************************)

\* SELECT ... FROM users WHERE email: whom a login as r's may find.
Login(r) == { u \in users : form[u].email = form[r].email }

\* NoKey is the 404.
GetPublicKey(u) == directory[u].key

\* Faulty UpdatePublicKey: ON CONFLICT DO NOTHING.
UpdateKeepsOld(u, k) == UNCHANGED accounts

\* The upsert: one statement, whatever key is given.
UpdatePublicKey(u, k) ==
  /\ directory' = [directory EXCEPT ![u] = [key |-> k, version |-> @.version + 1]]
  /\ UNCHANGED << form, pc, reply, claims, users >>

----------------------------------------------------------------------------
(***************************************************************************)
(* Properties.                                                             *)
(***************************************************************************)

\* The two unique constraints: no two accounts share a username or an email,
\* so a login finds one account.
UniqueUsers ==
  /\ \A u, v \in users : u # v => \A c \in Columns : form[u][c] # form[v][c]
  /\ \A u \in users : Login(u) = {u}

\* "username or email already taken" is said only when an account has one of
\* them, never because of a registration that fails itself; but for a failing
\* database, of which the handler says the same.
ConflictIsReal ==
  \A r \in Attempts : (pc[r] = "answered" /\ reply[r] = 409) =>
    Taken(r, "username") \/ Taken(r, "email")

\* The user and the key stand or fall together, and with the answer: 201 means
\* both are there, 400 and 409 that neither is; 500 leaves it open.  Nothing
\* of a finished transaction is left behind.
AtomicRegistration ==
  \A r \in Attempts :
    /\ r \in users <=> directory[r].key # NoKey
    /\ reply[r] = 201 => r \in users
    /\ reply[r] \in {400, 409} => r \notin users
    /\ pc[r] \notin {"named", "mailed", "keyed"} =>
         \A c \in Columns : << r, c >> \notin claims

\* The handlers implement Registry.  The statements of racing transactions,
\* which wait for one another and may fail, cannot be told from registrations
\* that are decided in a single step: what a claim has found free is still free
\* when its transaction commits, and a refusal is true when it is given.
Registered == INSTANCE Registry
                WITH asked <- { r \in Attempts : pc[r] # "idle" },
                     failed <- { r \in Attempts : pc[r] = "broken" }
RegistrySpec == Registered!Spec
=============================================================================
