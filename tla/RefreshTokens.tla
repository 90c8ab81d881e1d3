--------------------------- MODULE RefreshTokens ---------------------------
(***************************************************************************)
(* Sessions of the backend: Login, Refresh and Logout of internal/auth/    *)
(* handler.go on the table refresh_tokens (internal/security/refresh.go).  *)
(*                                                                         *)
(* A request is served by a goroutine of its own; a step is one statement  *)
(* or one commit.  PostgreSQL runs at READ COMMITTED: a statement sees the *)
(* rows committed before it began, a DELETE waits for the transaction that *)
(* has deleted the row already and then looks at the row again.            *)
(*                                                                         *)
(* A session is a login; the tokens of a session are the one Login issued  *)
(* and its successors by rotation.                                         *)
(***************************************************************************)
EXTENDS Naturals, FiniteSets

CONSTANTS
  Requests,  \* the requests the server ever gets; each is served once
  Tokens,    \* the refresh tokens it may issue (random UUIDs)
  None,      \* no token, no request
  Faults     \* what may go wrong: the database refuses a statement, the
             \* answer of a commit is lost, a token passes its expires_at

ASSUME TokenAssumption ==
  /\ None \notin Tokens \cup Requests
  /\ Faults \subseteq {"db", "lost", "expiry"}

(* One user: Refresh reads the user id from the row it then deletes, and   *)
(* Logout only touches rows of its own user, so users never interact.      *)

VARIABLES
  row,      \* table refresh_tokens: "none", "stored" or "deleted", as committed
  expired,  \* tokens whose expires_at has passed
  lock,     \* the transaction that has deleted the row and not yet ended
  pc,       \* where the goroutine of a request is
  old,      \* the token presented to Refresh
  new,      \* the token issued by the request
  seen,     \* the rows the DELETE of Logout saw when it began
  reply,    \* the answer: "none" yet, "ok", "unauthorized" or "error"
  session   \* token -> the Login it descends from (history)

vars == << row, expired, lock, pc, old, new, seen, reply, session >>

Labels == {"idle", "save", "rotate", "commit", "logout", "login_done",
           "refresh_done", "logout_done"}

TypeOK ==
  /\ row \in [Tokens -> {"none", "stored", "deleted"}]
  /\ expired \subseteq Tokens
  /\ lock \in [Tokens -> Requests \cup {None}]
  /\ \A t \in Tokens : lock[t] # None => pc[lock[t]] = "commit" /\ old[lock[t]] = t
  /\ pc \in [Requests -> Labels]
  /\ old \in [Requests -> Tokens \cup {None}]
  /\ new \in [Requests -> Tokens \cup {None}]
  /\ seen \in [Requests -> SUBSET Tokens]
  /\ reply \in [Requests -> {"none", "ok", "unauthorized", "error"}]
  /\ session \in [Tokens -> Requests \cup {None}]

Init ==
  /\ row = [t \in Tokens |-> "none"]
  /\ expired = {}
  /\ lock = [t \in Tokens |-> None]
  /\ pc = [r \in Requests |-> "idle"]
  /\ old = [r \in Requests |-> None]
  /\ new = [r \in Requests |-> None]
  /\ seen = [r \in Requests |-> {}]
  /\ reply = [r \in Requests |-> "none"]
  /\ session = [t \in Tokens |-> None]

Goto(r, label) == pc' = [pc EXCEPT ![r] = label]
Answer(r, a)   == reply' = [reply EXCEPT ![r] = a]

Stored == { t \in Tokens : row[t] = "stored" }
Issued == { t \in Tokens : \E r \in Requests : new[r] = t }

\* issueTokens: a UUID nobody else has.
IssueTokens(r) == \E t \in Tokens \ Issued : new' = [new EXCEPT ![r] = t]

\* Tokens a client can present: those some answer has carried.
Known == { t \in Tokens : \E r \in Requests : new[r] = t /\ reply[r] = "ok" }

(***************************************************************************)
(* Login: the credentials are right.  (Wrong ones are answered 401 and     *)
(* change nothing.)  The error of SaveRefreshToken is ignored.             *)
(***************************************************************************)
Login(r) ==
  /\ pc[r] = "idle"
  /\ IssueTokens(r)
  /\ session' = [session EXCEPT ![new'[r]] = r]
  /\ Goto(r, "save")
  /\ UNCHANGED << row, expired, lock, old, seen, reply >>

LoginSave(r) ==
  /\ pc[r] = "save"
  /\ \/ row' = [row EXCEPT ![new[r]] = "stored"]
     \/ "db" \in Faults /\ UNCHANGED row
  /\ Goto(r, "login_done")
  /\ Answer(r, "ok")
  /\ UNCHANGED << expired, lock, old, new, seen, session >>

(***************************************************************************)
(* Refresh: SELECT outside any transaction, then RotateRefreshToken.       *)
(***************************************************************************)

\* Faulty RefreshSelect: no rows is no error.
RefreshSelectAny(r, t) ==
  /\ pc[r] = "idle"
  /\ old' = [old EXCEPT ![r] = t]
  /\ IssueTokens(r)
  /\ session' = [session EXCEPT ![new'[r]] = session[t]]
  /\ Goto(r, "rotate")
  /\ UNCHANGED << row, expired, lock, seen, reply >>

RefreshSelect(r, t) ==
  /\ pc[r] = "idle"
  /\ old' = [old EXCEPT ![r] = t]
  /\ \/ /\ row[t] = "stored" /\ t \notin expired
        /\ IssueTokens(r)
        /\ session' = [session EXCEPT ![new'[r]] = session[t]]
        /\ Goto(r, "rotate")
        /\ UNCHANGED reply
     \/ /\ row[t] # "stored" \/ t \in expired \/ "db" \in Faults
        /\ Goto(r, "refresh_done")
        /\ Answer(r, "unauthorized")
        /\ UNCHANGED << new, session >>
  /\ UNCHANGED << row, expired, lock, seen >>

\* Faulty RotateDelete: the row is not deleted under a lock.
RotateDeleteUnlocked(r) ==
  LET t == old[r] IN
  /\ pc[r] = "rotate"
  /\ row[t] = "stored" /\ t \notin expired
  /\ Goto(r, "commit")
  /\ UNCHANGED << row, expired, lock, old, new, seen, reply, session >>

\* The DELETE of the transaction.  It waits while another transaction has
\* deleted the row; when no row is left, RotateRefreshToken returns a nil
\* error, and Refresh answers with the new token, which is not stored.
RotateDelete(r) ==
  LET t == old[r] IN
  /\ pc[r] = "rotate"
  /\ lock[t] = None
  /\ \/ /\ row[t] = "stored" /\ t \notin expired
        /\ lock' = [lock EXCEPT ![t] = r]
        /\ Goto(r, "commit")
        /\ UNCHANGED reply
     \/ /\ row[t] # "stored" \/ t \in expired
        /\ Goto(r, "refresh_done")
        /\ Answer(r, "ok")
        /\ UNCHANGED lock
  /\ UNCHANGED << row, expired, old, new, seen, session >>

\* Faulty RotateCommit: two transactions, of which the second may fail.
RotateCommitTorn(r) ==
  /\ pc[r] = "commit"
  /\ row' = [row EXCEPT ![old[r]] = "deleted"]
  /\ lock' = [lock EXCEPT ![old[r]] = None]
  /\ Goto(r, "refresh_done")
  /\ Answer(r, "error")
  /\ UNCHANGED << expired, old, new, seen, session >>

\* The INSERT and the commit.  The answer of the commit may be lost.
RotateCommit(r) ==
  /\ pc[r] = "commit"
  /\ row' = [row EXCEPT ![old[r]] = "deleted", ![new[r]] = "stored"]
  /\ lock' = [lock EXCEPT ![old[r]] = None]
  /\ Goto(r, "refresh_done")
  /\ \/ Answer(r, "ok")
     \/ "lost" \in Faults /\ Answer(r, "error")
  /\ UNCHANGED << expired, old, new, seen, session >>

\* Faulty RotateFails: no Rollback.
RotateFailsOpen(r) ==
  /\ "db" \in Faults
  /\ pc[r] \in {"rotate", "commit"}
  /\ Goto(r, "refresh_done")
  /\ Answer(r, "error")
  /\ UNCHANGED << row, expired, lock, old, new, seen, session >>

\* Begin, a statement or the commit fails: the deferred Rollback.
RotateFails(r) ==
  /\ "db" \in Faults
  /\ pc[r] \in {"rotate", "commit"}
  /\ lock' = [t \in Tokens |-> IF lock[t] = r THEN None ELSE lock[t]]
  /\ Goto(r, "refresh_done")
  /\ Answer(r, "error")
  /\ UNCHANGED << row, expired, old, new, seen, session >>

(***************************************************************************)
(* Logout: one DELETE of all rows of the user.  The error is ignored.      *)
(***************************************************************************)
LogoutBegin(r) ==
  /\ pc[r] = "idle"
  /\ seen' = [seen EXCEPT ![r] = Stored]
  /\ Goto(r, "logout")
  /\ UNCHANGED << row, expired, lock, old, new, reply, session >>

\* Faulty LogoutDelete: locked rows are skipped.
LogoutSkipsLocked(r) ==
  /\ pc[r] = "logout"
  /\ row' = [t \in Tokens |->
               IF t \in seen[r] /\ row[t] = "stored" /\ lock[t] = None
               THEN "deleted" ELSE row[t]]
  /\ Goto(r, "logout_done")
  /\ Answer(r, "ok")
  /\ UNCHANGED << expired, lock, old, new, seen, session >>

\* It waits for the rotations of the rows it saw; those still there are
\* deleted, rows stored meanwhile are not.  (PostgreSQL waits row by row; a
\* rotation that then waits for Logout is here one that runs after it.)
LogoutDelete(r) ==
  /\ pc[r] = "logout"
  /\ \A t \in seen[r] : lock[t] = None
  /\ row' = [t \in Tokens |->
               IF t \in seen[r] /\ row[t] = "stored" THEN "deleted" ELSE row[t]]
  /\ Goto(r, "logout_done")
  /\ Answer(r, "ok")
  /\ UNCHANGED << expired, lock, old, new, seen, session >>

LogoutFails(r) ==
  /\ "db" \in Faults
  /\ pc[r] = "logout"
  /\ seen' = [seen EXCEPT ![r] = {}]
  /\ Goto(r, "logout_done")
  /\ Answer(r, "ok")
  /\ UNCHANGED << row, expired, lock, old, new, session >>

Expire(t) ==
  /\ "expiry" \in Faults
  /\ row[t] = "stored"
  /\ expired' = expired \cup {t}
  /\ UNCHANGED << row, lock, pc, old, new, seen, reply, session >>

----------------------------------------------------------------------------
Arrives(r) == Login(r) \/ LogoutBegin(r) \/ \E t \in Known : RefreshSelect(r, t)

Serve(r) == LoginSave(r) \/ RotateDelete(r) \/ RotateCommit(r) \/ LogoutDelete(r)
Fails(r) == RotateFails(r) \/ LogoutFails(r)

Next == \/ \E r \in Requests : Arrives(r) \/ Serve(r) \/ Fails(r)
        \/ \E t \in Tokens : Expire(t)

Spec == Init /\ [][Next]_vars

\* Every statement returns once the row it waits for is free; none has to fail.
FairSpec == Spec /\ \A r \in Requests : WF_vars(Serve(r))

----------------------------------------------------------------------------
(***************************************************************************)
(* Properties.                                                             *)
(***************************************************************************)

\* Whatever requests race, a session never has two valid refresh tokens: of
\* all rotations of a token at most one stores a successor.
OneTokenPerSession ==
  \A s, t \in Stored : session[s] = session[t] => s = t

\* Rotation never loses a session: the old row disappears and the new one
\* appears in one transaction, so until some Logout has run every session
\* whose login stored its token has a stored token.
SessionSurvives ==
  (\A q \in Requests : pc[q] # "logout_done") =>
    \A r \in Requests :
      (pc[r] = "login_done" /\ row[new[r]] # "none") =>
        \E t \in Stored : session[t] = r

\* A Logout whose statement succeeded has deleted every row that was
\* committed when it began, those in the hands of a rotation included.
LogoutDeletesAllSeen ==
  \A r \in Requests : pc[r] = "logout_done" => seen[r] \cap Stored = {}

\* A login whose token could not be stored looks like any other, but its token
\* is good for nothing: new tokens are only given for one that was stored.
OnlyStoredTokensRefresh ==
  \A r \in Requests :
    (pc[r] = "refresh_done" /\ reply[r] = "ok") => row[old[r]] # "none"

\* Every request is answered: no transaction keeps a row locked for ever.
RequestsAnswered ==
  \A r \in Requests :
    pc[r] \in {"save", "rotate", "commit", "logout"} ~> reply[r] # "none"

\* refresh.go:23 says that a refresh token can be used once only: at most one
\* Refresh with the same token is answered with new tokens.
SingleUse ==
  \A r, q \in Requests :
    (old[r] = old[q] /\ old[r] # None /\ reply[r] = "ok" /\ reply[q] = "ok") => r = q

\* The table implements Sessions: SELECT, DELETE, INSERT, COMMIT and their
\* failures, spread over racing requests, cannot be told from a token that is
\* exchanged in one step.  No rotation revives a session a logout has ended.
Valid(s) == { t \in Stored : session[t] = s }
Ever(s)  == { t \in Tokens : row[t] # "none" /\ session[t] = s }

Sess == INSTANCE Sessions
          WITH Requests <- Requests, Tokens <- Tokens,
               valid <- [s \in Requests |-> Valid(s)],
               issued <- [s \in Requests |-> Ever(s)],
               logouts <- { r \in Requests : pc[r] = "logout_done" }
SessionSpec == Sess!Spec
=============================================================================
