------------------------------ MODULE Registry ------------------------------
(***************************************************************************)
(* What the backend promises of accounts: a registration is decided in a   *)
(* single step.  It is created with its key, if nobody has its username or *)
(* its email at that moment, or refused, if somebody has; otherwise        *)
(* something has failed.  A key is replaced in a single step, too.         *)
(***************************************************************************)
EXTENDS Naturals

CONSTANTS Attempts, NoKey

VARIABLES
  asked,     \* the requests that have come in
  failed,    \* those that something has failed
  form,      \* what they ask for
  reply,     \* 0, or the status of the answer
  users,     \* the accounts
  directory  \* their keys, with versions

registryVars == << asked, failed, form, reply, users, directory >>

Init ==
  /\ asked = {} /\ failed = {} /\ users = {}
  /\ reply = [r \in Attempts |-> 0]
  /\ directory = [r \in Attempts |-> [key |-> NoKey, version |-> 0]]

Answer(r, status) == reply' = [reply EXCEPT ![r] = status]
Fail(r, status)   == failed' = failed \cup {r} /\ Answer(r, status)

Conflict(r) ==
  \E u \in users : form[u].username = form[r].username \/ form[u].email = form[r].email

Pending(r) == r \in asked /\ r \notin users /\ reply[r] = 0

\* Without a key the form is refused at once.
Ask(r) ==
  /\ r \notin asked
  /\ asked' = asked \cup {r}
  /\ form' = [form EXCEPT ![r] = form'[r]]
  /\ IF form'[r].key = NoKey THEN Answer(r, 400) ELSE UNCHANGED reply
  /\ UNCHANGED << failed, users, directory >>

\* The account and its key; the answer may get lost.
Create(r) ==
  /\ Pending(r) /\ ~ Conflict(r)
  /\ users' = users \cup {r}
  /\ directory' = [directory EXCEPT ![r] = [key |-> form[r].key, version |-> 1]]
  /\ Fail(r, 500) \/ UNCHANGED << failed, reply >>
  /\ UNCHANGED << asked, form >>

Refuse(r) ==
  /\ Pending(r)
  /\ \/ Conflict(r) /\ Answer(r, 409) /\ UNCHANGED failed
     \/ \E status \in {409, 500} : Fail(r, status)
  /\ UNCHANGED << asked, form, users, directory >>

Confirm(r) ==
  /\ r \in users /\ reply[r] = 0
  /\ Answer(r, 201)
  /\ UNCHANGED << asked, failed, form, users, directory >>

Replace(u) ==
  /\ u \in users
  /\ directory' = [directory EXCEPT ![u] = [key |-> directory'[u].key,
                                            version |-> directory[u].version + 1]]
  /\ UNCHANGED << asked, failed, form, reply, users >>

Next == \E r \in Attempts : Ask(r) \/ Create(r) \/ Refuse(r) \/ Confirm(r) \/ Replace(r)

Spec == Init /\ [][Next]_registryVars
=============================================================================
