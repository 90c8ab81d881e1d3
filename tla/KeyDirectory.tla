---------------------------- MODULE KeyDirectory ----------------------------
(***************************************************************************)
(* The key directory of the server: Accounts composed with the clients     *)
(* that register and that replace their key by PUT.  The server neither    *)
(* orders the PUTs of a user nor tells anybody of them.                    *)
(*                                                                         *)
(* No client of the repository sends these PUTs, and the app registers     *)
(* without a key: the clients are whatever the two handlers are there for. *)
(***************************************************************************)
EXTENDS Accounts

CONSTANTS
  Devices,  \* the users who replace their key
  MaxKeys   \* bound: keys a user ever has

VARIABLES
  newest,   \* the number of the newest key of a user's client
  uploads,  \* its PUTs on their way, by the number of the key
  blame     \* users with a PUT that failed or was overtaken (history)

clients == << newest, uploads, blame >>
vars    == << accounts, clients >>

Key(u, n) == << u, n >>
Newest(u) == Key(u, newest[u])
Published == { Key(u, n) : u \in Attempts, n \in 1 .. MaxKeys }
Forms     == [username : Names, email : Emails, key : {NoKey} \cup Published]

\* A key is told from the absence of one.
ASSUME DirectoryAssumption ==
  /\ Devices \subseteq Attempts
  /\ MaxKeys \in Nat \ {0}
  /\ NoKey \notin Published

Init ==
  /\ AccountsInit
  /\ newest = [u \in Attempts |-> 1]
  /\ uploads = [u \in Attempts |-> {}]
  /\ blame = {}

\* The form with the first key of the client, or (as the app's own) without.
SubmitForm(r) ==
  /\ \E n \in Names, e \in Emails, k \in {NoKey, Newest(r)} :
       Register(r, [username |-> n, email |-> e, key |-> k])
  /\ UNCHANGED clients

\* A client of u's makes a new key and sends it off.
SendKey(u) ==
  /\ u \in users /\ newest[u] < MaxKeys
  /\ newest' = [newest EXCEPT ![u] = @ + 1]
  /\ uploads' = [uploads EXCEPT ![u] = @ \cup {newest[u] + 1}]
  /\ UNCHANGED << accounts, blame >>

\* A PUT is executed; that of a newer key may have been before it.
PutKey(u, n) ==
  /\ n \in uploads[u]
  /\ UpdatePublicKey(u, Key(u, n))
  /\ uploads' = [uploads EXCEPT ![u] = @ \ {n}]
  /\ blame' = IF \E m \in (n + 1) .. newest[u] : m \notin uploads[u]
              THEN blame \cup {u} ELSE blame
  /\ UNCHANGED newest

\* A PUT is lost or answered 500.
PutFails(u, n) ==
  /\ "db" \in Faults /\ n \in uploads[u]
  /\ uploads' = [uploads EXCEPT ![u] = @ \ {n}]
  /\ blame' = blame \cup {u}
  /\ UNCHANGED << accounts, newest >>

Replacing ==
  \E u \in Devices : SendKey(u) \/ \E n \in uploads[u] : PutKey(u, n) \/ PutFails(u, n)

Next ==
  \/ \E r \in Attempts : SubmitForm(r) \/ (Registering(r) /\ UNCHANGED clients)
  \/ Replacing

\* The server goes on with every request it has: net/http gives each a
\* goroutine, and PostgreSQL wakes whoever waits for an index entry.
Fairness == \A r \in Attempts : WF_vars(Serving(r) /\ UNCHANGED clients)

Spec == Init /\ [][Next]_vars /\ Fairness

----------------------------------------------------------------------------
(***************************************************************************)
(* Properties.                                                             *)
(***************************************************************************)
TypeOK ==
  /\ form \in [Attempts -> Forms \cup {[username |-> "", email |-> "", key |-> NoKey]}]
  /\ pc \in [Attempts -> {"idle", "answered", "broken"} \cup Working]
  /\ reply \in [Attempts -> {0, 201, 400, 409, 500}]
  /\ claims \subseteq Attempts \X Columns
  /\ users \subseteq Attempts
  /\ directory \in [Attempts -> [key : {NoKey} \cup Published, version : Nat]]
  /\ newest \in [Attempts -> 1 .. MaxKeys]
  /\ uploads \in [Attempts -> SUBSET (1 .. MaxKeys)]
  /\ blame \subseteq Devices

\* The directory has the newest key a client of the user has, unless a PUT is
\* still on its way, failed, or was overtaken by that of a newer key: the server
\* takes the PUTs as they come, and key_version counts them, not the keys.
DirectoryFollowsDevice ==
  \A u \in users :
    \/ GetPublicKey(u) = Newest(u) /\ directory[u].version = newest[u]
    \/ uploads[u] # {} \/ u \in blame

\* Every registration is answered: waiting for each other's index entries is
\* no deadlock, since all transactions take the indexes in one order, and one
\* that fails gives up what others wait for.
RequestsAnswered ==
  \A r \in Attempts : pc[r] \in Working ~> reply[r] # 0
=============================================================================
