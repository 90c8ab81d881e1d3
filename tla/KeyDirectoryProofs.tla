------------------------- MODULE KeyDirectoryProofs -------------------------
(***************************************************************************)
(* Theorems about registrations and the key directory, for every number of *)
(* requests, users and keys.                                               *)
(***************************************************************************)
EXTENDS KeyDirectory, FiniteSetTheorems, TLAPS

----------------------------------------------------------------------------
(***************************************************************************)
(* Registration.  Who has an index entry, as a row or in a transaction,    *)
(* has the value for himself.                                              *)
(***************************************************************************)
Having(c) == users \cup { r \in Attempts : << r, c >> \in claims }

EmptyForm == [username |-> "", email |-> "", key |-> NoKey]

AccountTypes ==
  /\ form \in [Attempts -> Forms \cup {EmptyForm}]
  /\ pc \in [Attempts -> {"idle", "answered", "broken"} \cup Working]
  /\ reply \in [Attempts -> {0, 201, 400, 409, 500}]
  /\ claims \subseteq Attempts \X Columns
  /\ users \subseteq Attempts

(* What the state of a request says of its index entries, its row and its  *)
(* answer.                                                                 *)
RequestInv(r) ==
  /\ \A c \in Columns : << r, c >> \in claims <=>
       \/ pc[r] \in {"mailed", "keyed"}
       \/ pc[r] = "named" /\ c = "username"
  /\ r \in users => pc[r] \in {"committed", "answered", "broken"}
  /\ pc[r] = "committed" => r \in users
  /\ reply[r] = 0 <=> pc[r] \in {"idle"} \cup Working
  /\ reply[r] = 201 => r \in users
  /\ reply[r] \in {400, 409} => r \notin users

AccountInv ==
  /\ AccountTypes
  /\ \A r \in Attempts : RequestInv(r)
  /\ \A c \in Columns : \A r, q \in Having(c) : r # q => form[r][c] # form[q][c]
  /\ ConflictIsReal

LEMMA InitAccountInv == Init => AccountInv
<1>. SUFFICES ASSUME Init PROVE AccountInv
  OBVIOUS
<1>. USE DEF Init, AccountsInit
<1>1. AccountTypes
  BY DEF AccountTypes, EmptyForm, Working
<1>2. \A c \in Columns : Having(c) = {}
  BY DEF Having
<1>3. \A r \in Attempts :
        pc[r] = "idle" /\ reply[r] = 0 /\ r \notin users /\ \A c \in Columns : << r, c >> \notin claims
  OBVIOUS
<1>4. ConflictIsReal
  BY <1>3 DEF ConflictIsReal
<1>5. \A c \in Columns : \A r, q \in Having(c) : r # q => form[r][c] # form[q][c]
  BY <1>2
<1>. HIDE DEF Init, AccountsInit
<1>. QED BY <1>1, <1>3, <1>4, <1>5 DEF AccountInv, RequestInv, Working

(* Steps that leave the forms, the claims and the rows alone disturb only  *)
(* what is said of the request itself.                                     *)
LEMMA MoveInv ==
  ASSUME AccountInv, form' = form, claims' = claims, users' = users, AccountTypes',
         \A r \in Attempts : RequestInv(r)',
         \A r \in Attempts : reply'[r] = 409 => reply[r] = 409 /\ pc'[r] = pc[r]
  PROVE  AccountInv'
<1>1. \A c \in Columns : Having(c)' = Having(c)
  BY DEF Having
<1>2. \A c \in Columns : \A r, q \in Having(c)' : r # q => form'[r][c] # form'[q][c]
  BY <1>1 DEF AccountInv
<1>3. ConflictIsReal'
  <2>1. \A q \in Attempts, c \in Columns : Taken(q, c)' <=> Taken(q, c)
    BY DEF Taken, Same
  <2>. QED BY <2>1 DEF AccountInv, ConflictIsReal, Columns
<1>. QED BY <1>2, <1>3 DEF AccountInv

\* A request that gives up leaves nothing behind.
LEMMA GiveUpInv ==
  ASSUME AccountInv, NEW r \in Attempts, NEW status \in {409, 500},
         NEW end \in {"answered", "broken"}, GiveUp(r, status, end),
         pc[r] \in {"begun", "named", "mailed", "keyed"},
         (status = 409 /\ end = "answered") => Taken(r, "username") \/ Taken(r, "email")
  PROVE  AccountInv'
<1>. USE DEF AccountInv, RequestInv
<1>1. /\ pc' = [pc EXCEPT ![r] = end] /\ reply' = [reply EXCEPT ![r] = status]
      /\ claims' = claims \ ({r} \X Columns)
      /\ UNCHANGED << form, users, directory >>
  BY DEF GiveUp, Goto, Answer, Rollback, EndTransaction
<1>2. AccountTypes'
  BY <1>1 DEF AccountTypes
<1>3. \A c \in Columns : Having(c)' \subseteq Having(c)
  BY <1>1 DEF Having
<1>4. \A c \in Columns : \A p, q \in Having(c)' : p # q => form'[p][c] # form'[q][c]
  BY <1>1, <1>3
<1>5. ConflictIsReal'
  <2>1. \A q \in Attempts, c \in Columns : Taken(q, c)' <=> Taken(q, c)
    BY <1>1 DEF Taken, Same
  <2>. QED BY <1>1, <2>1 DEF ConflictIsReal, AccountTypes, Columns
<1>6. r \notin users
  OBVIOUS
<1>7. \A q \in Attempts :
        /\ \A c \in Columns : << q, c >> \in claims' <=>
             \/ pc'[q] \in {"mailed", "keyed"}
             \/ pc'[q] = "named" /\ c = "username"
        /\ q \in users' => pc'[q] \in {"committed", "answered", "broken"}
        /\ pc'[q] = "committed" => q \in users'
        /\ reply'[q] = 0 <=> pc'[q] \in {"idle"} \cup Working
        /\ reply'[q] = 201 => q \in users'
        /\ reply'[q] \in {400, 409} => q \notin users'
  BY <1>1, <1>6 DEF AccountTypes, Working
<1>. QED BY <1>2, <1>4, <1>5, <1>7

\* The index entry r waits for is nobody's when r gets it.
LEMMA ClaimInv ==
  ASSUME AccountInv, NEW r \in Attempts, NEW c \in Columns,
         NEW from \in {"begun", "named"}, NEW to \in {"named", "mailed"},
         \/ c = "username" /\ from = "begun" /\ to = "named"
         \/ c = "email" /\ from = "named" /\ to = "mailed",
         Claim(r, c, from, to)
  PROVE  AccountInv'
<1>1. CASE GiveUp(r, 409, "answered") /\ Taken(r, c)
  BY <1>1, GiveUpInv DEF Claim, Columns
<1>2. CASE ~ Taken(r, c)
  <2>. USE DEF AccountInv, RequestInv
  <2>1. /\ pc[r] = from /\ ~ Blocked(r, c) /\ pc' = [pc EXCEPT ![r] = to]
        /\ claims' = claims \cup {<< r, c >>}
        /\ UNCHANGED << form, reply, users, directory >>
    BY <1>2 DEF Claim, Goto
  <2>2. AccountTypes'
    BY <2>1 DEF AccountTypes, Working
  <2>3. \A d \in Columns : Having(d)' = IF d = c THEN Having(d) \cup {r} ELSE Having(d)
    BY <2>1 DEF Having
  <2>4. \A q \in Having(c) \ {r} : form[q][c] # form[r][c]
    BY <1>2, <2>1 DEF Having, Taken, Blocked, Same, AccountTypes
  <2>5. \A d \in Columns : \A p, q \in Having(d)' : p # q => form'[p][d] # form'[q][d]
    BY <2>1, <2>3, <2>4
  <2>6. ConflictIsReal'
    <3>1. \A q \in Attempts, d \in Columns : Taken(q, d)' <=> Taken(q, d)
      BY <2>1 DEF Taken, Same
    <3>. QED BY <2>1, <3>1 DEF ConflictIsReal, AccountTypes, Columns
  <2>7. \A q \in Attempts :
          /\ \A d \in Columns : << q, d >> \in claims' <=>
               \/ pc'[q] \in {"mailed", "keyed"}
               \/ pc'[q] = "named" /\ d = "username"
          /\ q \in users' => pc'[q] \in {"committed", "answered", "broken"}
          /\ pc'[q] = "committed" => q \in users'
          /\ reply'[q] = 0 <=> pc'[q] \in {"idle"} \cup Working
    <3>1. ASSUME NEW q \in Attempts, q # r PROVE pc'[q] = pc[q] /\ \A d : << q, d >> \in claims' <=> << q, d >> \in claims
      BY <2>1, <3>1 DEF AccountTypes
    <3>2. pc'[r] = to /\ r \notin users /\ reply[r] = 0
      BY <2>1 DEF AccountTypes, Working
    <3>3. \A d \in Columns : << r, d >> \in claims' <=>
            \/ to \in {"mailed", "keyed"}
            \/ to = "named" /\ d = "username"
      <4>. HIDE DEF AccountInv, RequestInv
      <4>1. RequestInv(r)
        BY DEF AccountInv
      <4>2. << r, c >> \in claims' /\ \A d : d # c => (<< r, d >> \in claims' <=> << r, d >> \in claims)
        BY <2>1
      <4>3. \A d \in Columns : << r, d >> \in claims <=>
              (from \in {"mailed", "keyed"} \/ (from = "named" /\ d = "username"))
        BY <2>1, <4>1 DEF RequestInv
      <4>4. CASE from = "begun"
        BY <4>2, <4>3, <4>4 DEF Columns
      <4>5. CASE from = "named"
        BY <4>2, <4>3, <4>5 DEF Columns
      <4>. QED BY <4>4, <4>5
    <3>. QED BY <2>1, <3>1, <3>2, <3>3 DEF Working
  <2>. QED BY <2>1, <2>2, <2>5, <2>6, <2>7
<1>. QED BY <1>1, <1>2 DEF Claim

LEMMA RegisterInv ==
  ASSUME AccountInv, NEW r \in Attempts, NEW f \in Forms, Register(r, f) PROVE AccountInv'
<1>. USE DEF AccountInv, RequestInv
<1>1. /\ pc[r] = "idle" /\ form' = [form EXCEPT ![r] = f]
      /\ \/ /\ pc' = [pc EXCEPT ![r] = "answered"]
            /\ reply' = [reply EXCEPT ![r] = 400]
         \/ pc' = [pc EXCEPT ![r] = "begun"] /\ reply' = reply
      /\ UNCHANGED << claims, users, directory >>
  BY DEF Register, Goto, Answer
<1>2. AccountTypes'
  BY <1>1 DEF AccountTypes, Working
<1>3. r \notin users /\ \A c \in Columns : << r, c >> \notin claims
  BY <1>1
<1>4. \A c \in Columns : Having(c)' = Having(c) /\ r \notin Having(c)
  BY <1>1, <1>3 DEF Having
<1>5. \A c \in Columns : \A q \in Having(c) : form'[q] = form[q]
  BY <1>1, <1>4 DEF AccountTypes, Having
<1>6. \A c \in Columns : \A p, q \in Having(c)' : p # q => form'[p][c] # form'[q][c]
  BY <1>1, <1>4, <1>5
<1>7. ConflictIsReal'
  <2>1. \A q \in Attempts, c \in Columns : (q # r /\ Taken(q, c)) => Taken(q, c)'
    BY <1>1, <1>3 DEF Taken, Same, AccountTypes
  <2>. QED BY <1>1, <2>1 DEF ConflictIsReal, AccountTypes, Columns
<1>. QED BY <1>1, <1>2, <1>3, <1>6, <1>7 DEF AccountTypes, Working

LEMMA CommitInv == ASSUME AccountInv, NEW r \in Attempts, Commit(r) PROVE AccountInv'
<1>. USE DEF AccountInv, RequestInv
<1>1. /\ pc[r] = "keyed" /\ users' = users \cup {r} /\ claims' = claims \ ({r} \X Columns)
      /\ \/ pc' = [pc EXCEPT ![r] = "committed"] /\ reply' = reply
         \/ pc' = [pc EXCEPT ![r] = "broken"] /\ reply' = [reply EXCEPT ![r] = 500]
      /\ form' = form
  BY DEF Commit, Goto, Answer, EndTransaction
<1>2. AccountTypes'
  BY <1>1 DEF AccountTypes, Working
<1>3. \A c \in Columns : Having(c)' = Having(c)
  BY <1>1 DEF Having
<1>4. \A c \in Columns : \A p, q \in Having(c)' : p # q => form'[p][c] # form'[q][c]
  BY <1>1, <1>3
<1>5. ConflictIsReal'
  <2>1. \A q \in Attempts, c \in Columns : Taken(q, c) => Taken(q, c)'
    BY <1>1 DEF Taken, Same
  <2>. QED BY <1>1, <2>1 DEF ConflictIsReal, AccountTypes, Columns
<1>6. reply[r] = 0
  BY <1>1 DEF Working
<1>. QED BY <1>1, <1>2, <1>4, <1>5, <1>6 DEF AccountTypes, Working

LEMMA RegisteringInv ==
  ASSUME AccountInv, NEW r \in Attempts, Registering(r) PROVE AccountInv'
<1>1. CASE ClaimName(r)
  BY <1>1, ClaimInv DEF ClaimName, Columns
<1>2. CASE ClaimEmail(r)
  BY <1>2, ClaimInv DEF ClaimEmail, Columns
<1>3. CASE BeginFails(r) \/ InsertUserFails(r)
  BY <1>3, GiveUpInv DEF BeginFails, InsertUserFails
<1>4. CASE InsertKey(r)
  <2>1. CASE GiveUp(r, 500, "broken")
    BY <1>4, <2>1, GiveUpInv DEF InsertKey
  <2>2. CASE ~ GiveUp(r, 500, "broken")
    <3>1. /\ pc[r] = "mailed" /\ pc' = [pc EXCEPT ![r] = "keyed"]
          /\ UNCHANGED << form, reply, claims, users, directory >>
      BY <1>4, <2>2 DEF InsertKey, Goto
    <3>2. AccountTypes' /\ RequestInv(r)' /\ reply'[r] # 409
      BY <3>1 DEF AccountInv, RequestInv, AccountTypes, Working
    <3>3. \A q \in Attempts : RequestInv(q)'
      BY <3>1, <3>2 DEF AccountInv, AccountTypes, RequestInv
    <3>4. \A q \in Attempts : reply'[q] = 409 => reply[q] = 409 /\ pc'[q] = pc[q]
      BY <3>1, <3>2 DEF AccountInv, AccountTypes
    <3>. QED BY <3>1, <3>2, <3>3, <3>4, MoveInv
  <2>. QED BY <2>1, <2>2
<1>5. CASE CommitFails(r)
  BY <1>5, GiveUpInv DEF CommitFails
<1>6. CASE Created(r)
  <2>1. /\ pc[r] = "committed" /\ pc' = [pc EXCEPT ![r] = "answered"]
        /\ reply' = [reply EXCEPT ![r] = 201]
        /\ UNCHANGED << form, claims, users, directory >>
    BY <1>6 DEF Created, Goto, Answer
  <2>2. AccountTypes' /\ RequestInv(r)' /\ reply'[r] # 409
    BY <2>1 DEF AccountInv, RequestInv, AccountTypes, Working
  <2>3. \A q \in Attempts : RequestInv(q)'
    BY <2>1, <2>2 DEF AccountInv, AccountTypes, RequestInv
  <2>4. \A q \in Attempts : reply'[q] = 409 => reply[q] = 409 /\ pc'[q] = pc[q]
    BY <2>1, <2>2 DEF AccountInv, AccountTypes
  <2>. QED BY <2>1, <2>2, <2>3, <2>4, MoveInv
<1>. QED BY <1>1, <1>2, <1>3, <1>4, <1>5, <1>6, CommitInv DEF Registering, Serving

\* Nothing but a registration touches the accounts.
LEMMA ReplacingKeepsAccounts ==
  ASSUME Replacing PROVE UNCHANGED << form, pc, reply, claims, users >>
  BY DEF Replacing, SendKey, PutKey, PutFails, UpdatePublicKey, accounts

LEMMA NextAccountInv ==
  ASSUME AccountInv, newest \in [Attempts -> 1 .. MaxKeys], [Next]_vars PROVE AccountInv'
<1>1. CASE UNCHANGED vars \/ Replacing
  <2>1. UNCHANGED << form, pc, reply, claims, users >>
    BY <1>1, ReplacingKeepsAccounts DEF vars, accounts
  <2>2. AccountTypes'
    BY <2>1 DEF AccountInv, AccountTypes
  <2>3. \A q \in Attempts : RequestInv(q)'
    BY <2>1 DEF AccountInv, RequestInv
  <2>. QED BY <2>1, <2>2, <2>3, MoveInv
<1>2. ASSUME NEW r \in Attempts, SubmitForm(r) PROVE AccountInv'
  <2>1. {NoKey, Newest(r)} \subseteq {NoKey} \cup Published
    BY DEF Published, Newest
  <2>2. PICK n \in Names, e \in Emails, k \in {NoKey} \cup Published :
          Register(r, [username |-> n, email |-> e, key |-> k])
    BY <1>2, <2>1 DEF SubmitForm
  <2>3. [username |-> n, email |-> e, key |-> k] \in Forms
    BY DEF Forms
  <2>. QED BY <2>2, <2>3, RegisterInv
<1>. QED BY <1>1, <1>2, RegisteringInv DEF Next

----------------------------------------------------------------------------
(***************************************************************************)
(* The key directory.  As long as no PUT of u failed or was overtaken, the *)
(* keys newer than the one in the directory are those on their way.       *)
(***************************************************************************)
Follows(u) ==
  \E k \in 1 .. newest[u] :
    /\ GetPublicKey(u) = Key(u, k)
    /\ k \notin uploads[u] /\ (k + 1) .. newest[u] \subseteq uploads[u]
    /\ directory[u].version + Cardinality(uploads[u]) = newest[u]

DeviceTypes ==
  /\ directory \in [Attempts -> [key : {NoKey} \cup Published, version : Nat]]
  /\ newest \in [Attempts -> 1 .. MaxKeys]
  /\ uploads \in [Attempts -> SUBSET (1 .. MaxKeys)]
  /\ blame \subseteq Devices

OwnerInv(u) ==
  /\ uploads[u] \subseteq 1 .. newest[u]
  /\ pc[u] \in Working => form[u].key = Key(u, 1)
  /\ IF u \in users THEN GetPublicKey(u) # NoKey /\ (u \in blame \/ Follows(u))
     ELSE newest[u] = 1 /\ uploads[u] = {} /\ GetPublicKey(u) = NoKey

Inv == AccountInv /\ DeviceTypes /\ \A u \in Attempts : OwnerInv(u)

LEMMA InitInv == Init => Inv
<1>. SUFFICES ASSUME Init PROVE Inv
  OBVIOUS
<1>1. AccountInv
  BY InitAccountInv
<1>2. DeviceTypes
  <2>1. directory \in [Attempts -> [key : {NoKey} \cup Published, version : Nat]]
    <3>1. [key |-> NoKey, version |-> 0] \in [key : {NoKey} \cup Published, version : Nat]
      OBVIOUS
    <3>. QED BY <3>1 DEF Init, AccountsInit
  <2>2. 1 \in 1 .. MaxKeys
    BY DirectoryAssumption
  <2>. QED BY <2>1, <2>2 DEF Init, DeviceTypes
<1>3. \A u \in Attempts : OwnerInv(u)
  BY DEF Init, AccountsInit, OwnerInv, GetPublicKey, Working
<1>. QED BY <1>1, <1>2, <1>3 DEF Inv

LEMMA PublishedKey ==
  ASSUME NEW u \in Attempts, NEW n \in 1 .. MaxKeys
  PROVE  Key(u, n) \in Published \ {NoKey}
  BY DirectoryAssumption DEF Published

(* A request changes the directory only when it commits. *)
LEMMA RequestOwnerInv ==
  ASSUME Inv, NEW r \in Attempts, (Registering(r) /\ UNCHANGED clients) \/ SubmitForm(r),
         AccountInv'
  PROVE  Inv'
<1>. USE DirectoryAssumption
<1>1. UNCHANGED << newest, uploads, blame >>
  BY DEF clients, SubmitForm
<1>2. CASE Commit(r)
  <2>1. /\ pc[r] = "keyed" /\ form' = form /\ users' = users \cup {r} /\ r \notin users
        /\ directory' = [directory EXCEPT ![r] = [key |-> form[r].key, version |-> 1]]
        /\ \E p \in {"committed", "broken"} : pc' = [pc EXCEPT ![r] = p]
    BY <1>2 DEF Commit, Goto, Inv, AccountInv, RequestInv
  <2>2. form[r].key = Key(r, 1) /\ newest[r] = 1 /\ uploads[r] = {}
    BY <2>1 DEF Inv, OwnerInv, Working
  <2>3. form[r].key \in Published \ {NoKey}
    BY <2>2, PublishedKey
  <2>4. DeviceTypes'
    BY <1>1, <2>1, <2>3 DEF Inv, DeviceTypes
  <2>5. OwnerInv(r)'
    <3>1. Cardinality(uploads[r]) = 0
      BY <2>2, FS_EmptySet
    <3>2. directory'[r] = [key |-> form[r].key, version |-> 1]
      BY <2>1 DEF Inv, DeviceTypes
    <3>3. GetPublicKey(r)' = Key(r, 1) /\ directory'[r].version = 1
      BY <2>2, <3>2 DEF GetPublicKey
    <3>4. Follows(r)'
      BY <1>1, <2>2, <3>1, <3>3 DEF Follows
    <3>. QED BY <1>1, <2>1, <2>2, <2>3, <3>3, <3>4 DEF OwnerInv, Inv, AccountInv, AccountTypes
  <2>6. ASSUME NEW u \in Attempts, u # r PROVE OwnerInv(u)'
    <3>1. directory'[u] = directory[u] /\ pc'[u] = pc[u] /\ (u \in users' <=> u \in users)
      BY <2>1, <2>6 DEF Inv, DeviceTypes, AccountInv, AccountTypes
    <3>2. GetPublicKey(u)' = GetPublicKey(u) /\ (Follows(u)' <=> Follows(u))
      BY <1>1, <3>1 DEF GetPublicKey, Follows
    <3>. QED BY <1>1, <2>1, <3>1, <3>2 DEF OwnerInv, Inv
  <2>. QED BY <2>4, <2>5, <2>6 DEF Inv
<1>3. CASE ~ Commit(r)
  <2>1. directory' = directory /\ users' = users
    BY <1>3 DEF Registering, Serving, ClaimName, ClaimEmail, Claim, BeginFails, InsertUserFails,
               InsertKey, CommitFails, Created, GiveUp, SubmitForm, Register
  <2>2. DeviceTypes'
    BY <1>1, <2>1 DEF Inv, DeviceTypes
  <2>3. ASSUME NEW u \in Attempts, pc'[u] \in Working
        PROVE  form'[u].key = Key(u, 1)
    <3>1. CASE SubmitForm(r) /\ u = r
      <4>1. PICK n \in Names, e \in Emails, k \in {NoKey, Newest(r)} :
              Register(r, [username |-> n, email |-> e, key |-> k])
        BY <3>1 DEF SubmitForm
      <4>2. k # NoKey /\ form'[r].key = k /\ pc[r] = "idle"
        BY <2>3, <3>1, <4>1 DEF Register, Goto, Working, Inv, AccountInv, AccountTypes
      <4>3. r \notin users
        BY <4>2 DEF Inv, AccountInv, RequestInv
      <4>4. newest[r] = 1
        BY <4>3 DEF Inv, OwnerInv
      <4>. QED BY <3>1, <4>2, <4>4 DEF Newest
    <3>2. CASE ~ (SubmitForm(r) /\ u = r)
      <4>1. form'[u] = form[u] /\ pc[u] \in Working
        BY <2>3, <3>2
           DEF Registering, Serving, ClaimName, ClaimEmail, Claim, BeginFails, InsertUserFails,
               InsertKey, Commit, CommitFails, Created, GiveUp, SubmitForm, Register, Goto, Working, Inv,
               AccountInv, AccountTypes
      <4>. QED BY <4>1 DEF Inv, OwnerInv
    <3>. QED BY <3>1, <3>2
  <2>4. ASSUME NEW u \in Attempts PROVE OwnerInv(u)'
    <3>1. GetPublicKey(u)' = GetPublicKey(u) /\ (Follows(u)' <=> Follows(u))
      BY <1>1, <2>1 DEF GetPublicKey, Follows
    <3>. QED BY <1>1, <2>1, <2>3, <3>1 DEF OwnerInv, Inv
  <2>. QED BY <2>2, <2>4 DEF Inv
<1>. QED BY <1>2, <1>3

LEMMA CountOf ==
  ASSUME Inv, NEW u \in Attempts
  PROVE  IsFiniteSet(uploads[u]) /\ Cardinality(uploads[u]) \in Nat
<1>1. uploads[u] \in SUBSET (1 .. MaxKeys) /\ IsFiniteSet(1 .. MaxKeys)
  BY DirectoryAssumption, FS_Interval DEF Inv, DeviceTypes
<1>. QED BY <1>1, FS_Subset, FS_CardinalityType

LEMMA SendKeyInv == ASSUME Inv, NEW u \in Devices, SendKey(u), AccountInv' PROVE Inv'
<1>. USE DirectoryAssumption
<1>1. /\ u \in Attempts /\ u \in users /\ newest[u] < MaxKeys /\ newest[u] \in 1 .. MaxKeys
      /\ newest' = [newest EXCEPT ![u] = newest[u] + 1]
      /\ uploads' = [uploads EXCEPT ![u] = uploads[u] \cup {newest[u] + 1}]
      /\ UNCHANGED << form, pc, users, directory, blame >>
  BY DEF SendKey, Inv, DeviceTypes, accounts
<1>2. newest'[u] = newest[u] + 1 /\ uploads'[u] = uploads[u] \cup {newest[u] + 1}
  BY <1>1 DEF Inv, DeviceTypes
<1>3. DeviceTypes'
  BY <1>1 DEF Inv, DeviceTypes
<1>4. OwnerInv(u)'
  <2>1. uploads[u] \subseteq 1 .. newest[u]
    BY <1>1 DEF Inv, OwnerInv
  <2>2. Cardinality(uploads[u] \cup {newest[u] + 1}) = Cardinality(uploads[u]) + 1
    <3>1. newest[u] + 1 \notin uploads[u]
      BY <1>1, <2>1
    <3>2. IsFiniteSet(uploads[u])
      BY <1>1, CountOf
    <3>. QED BY <3>1, <3>2, FS_AddElement
  <2>3. uploads'[u] \subseteq 1 .. newest'[u]
    BY <1>1, <1>2, <2>1
  <2>4. ASSUME u \notin blame PROVE Follows(u)'
    <3>1. PICK k \in 1 .. newest[u] :
            /\ GetPublicKey(u) = Key(u, k)
            /\ k \notin uploads[u] /\ (k + 1) .. newest[u] \subseteq uploads[u]
            /\ directory[u].version + Cardinality(uploads[u]) = newest[u]
      BY <1>1, <2>4 DEF Inv, OwnerInv, Follows
    <3>2. k \in 1 .. newest'[u] /\ k \notin uploads'[u] /\ (k + 1) .. newest'[u] \subseteq uploads'[u]
      BY <1>1, <1>2, <3>1
    <3>3. directory'[u].version + Cardinality(uploads'[u]) = newest'[u]
      BY <1>1, <1>2, <2>2, <3>1, CountOf DEF Inv, DeviceTypes
    <3>4. GetPublicKey(u)' = Key(u, k)
      BY <1>1, <3>1 DEF GetPublicKey
    <3>. QED BY <3>2, <3>3, <3>4 DEF Follows
  <2>. QED BY <1>1, <2>3, <2>4 DEF Inv, OwnerInv, GetPublicKey
<1>5. ASSUME NEW v \in Attempts, v # u PROVE OwnerInv(v)'
  <2>1. newest'[v] = newest[v] /\ uploads'[v] = uploads[v]
    BY <1>1, <1>5 DEF Inv, DeviceTypes
  <2>. QED BY <1>1, <2>1 DEF Inv, OwnerInv, Follows, GetPublicKey
<1>. QED BY <1>3, <1>4, <1>5 DEF Inv

LEMMA PutKeyInv ==
  ASSUME Inv, NEW u \in Devices, NEW n \in uploads[u], PutKey(u, n), AccountInv' PROVE Inv'
<1>. USE DirectoryAssumption
<1>1. /\ u \in Attempts /\ n \in 1 .. newest[u] /\ n \in 1 .. MaxKeys
      /\ u \in users /\ newest[u] \in 1 .. MaxKeys
  BY DEF Inv, DeviceTypes, OwnerInv
<1>2. /\ directory' = [directory EXCEPT ![u] = [key |-> Key(u, n),
                                                version |-> directory[u].version + 1]]
      /\ uploads' = [uploads EXCEPT ![u] = uploads[u] \ {n}]
      /\ blame' = IF \E m \in (n + 1) .. newest[u] : m \notin uploads[u]
                  THEN blame \cup {u} ELSE blame
      /\ UNCHANGED << form, pc, users, newest >>
  BY <1>1 DEF PutKey, UpdatePublicKey, Inv, DeviceTypes
<1>3. /\ directory'[u].key = Key(u, n)
      /\ directory'[u].version = directory[u].version + 1
      /\ uploads'[u] = uploads[u] \ {n}
  BY <1>1, <1>2 DEF Inv, DeviceTypes
<1>4. DeviceTypes'
  <2>1. Key(u, n) \in Published
    BY <1>1, PublishedKey
  <2>2. [key |-> Key(u, n), version |-> directory[u].version + 1]
          \in [key : {NoKey} \cup Published, version : Nat]
    BY <1>1, <2>1 DEF Inv, DeviceTypes
  <2>. QED BY <1>1, <1>2, <2>2 DEF Inv, DeviceTypes
<1>5. OwnerInv(u)'
  <2>1. ASSUME u \notin blame' PROVE Follows(u)'
    <3>1. u \notin blame /\ (n + 1) .. newest[u] \subseteq uploads[u]
      BY <1>1, <1>2, <2>1
    <3>2. PICK k \in 1 .. newest[u] : directory[u].version + Cardinality(uploads[u]) = newest[u]
      BY <1>1, <3>1 DEF Inv, OwnerInv, Follows
    <3>3. Cardinality(uploads[u] \ {n}) = Cardinality(uploads[u]) - 1
      BY <1>1, CountOf, FS_RemoveElement
    <3>4. directory'[u].version + Cardinality(uploads'[u]) = newest[u]
      BY <1>1, <1>3, <3>2, <3>3, CountOf DEF Inv, DeviceTypes
    <3>5. n \notin uploads'[u] /\ (n + 1) .. newest[u] \subseteq uploads'[u]
      BY <1>1, <1>3, <3>1
    <3>. QED BY <1>1, <1>2, <1>3, <3>4, <3>5 DEF Follows, GetPublicKey
  <2>2. GetPublicKey(u)' # NoKey
    BY <1>1, <1>3, PublishedKey DEF GetPublicKey
  <2>. QED BY <1>1, <1>2, <1>3, <2>1, <2>2 DEF Inv, OwnerInv
<1>6. ASSUME NEW v \in Attempts, v # u PROVE OwnerInv(v)'
  <2>1. directory'[v] = directory[v] /\ uploads'[v] = uploads[v] /\ (v \in blame' <=> v \in blame)
    BY <1>1, <1>2, <1>6 DEF Inv, DeviceTypes
  <2>. QED BY <1>2, <2>1 DEF Inv, OwnerInv, Follows, GetPublicKey
<1>. QED BY <1>4, <1>5, <1>6 DEF Inv

LEMMA PutFailsInv ==
  ASSUME Inv, NEW u \in Devices, NEW n \in uploads[u], PutFails(u, n), AccountInv' PROVE Inv'
<1>. USE DirectoryAssumption
<1>1. /\ u \in Attempts /\ u \in users
      /\ uploads' = [uploads EXCEPT ![u] = uploads[u] \ {n}] /\ blame' = blame \cup {u}
      /\ UNCHANGED << form, pc, users, directory, newest >>
  BY DEF PutFails, accounts, Inv, DeviceTypes, OwnerInv
<1>2. DeviceTypes'
  BY <1>1 DEF Inv, DeviceTypes
<1>3. OwnerInv(u)'
  BY <1>1 DEF Inv, DeviceTypes, OwnerInv, GetPublicKey
<1>4. ASSUME NEW v \in Attempts, v # u PROVE OwnerInv(v)'
  <2>1. uploads'[v] = uploads[v] /\ (v \in blame' <=> v \in blame)
    BY <1>1, <1>4 DEF Inv, DeviceTypes
  <2>. QED BY <1>1, <2>1 DEF Inv, OwnerInv, Follows, GetPublicKey
<1>. QED BY <1>2, <1>3, <1>4 DEF Inv

LEMMA NextInv == ASSUME Inv, [Next]_vars PROVE Inv'
<1>0. AccountInv'
  BY NextAccountInv DEF Inv, DeviceTypes
<1>1. CASE UNCHANGED vars
  <2>1. UNCHANGED << form, pc, users, directory, newest, uploads, blame >>
    BY <1>1 DEF vars, accounts, clients
  <2>2. DeviceTypes'
    BY <2>1 DEF Inv, DeviceTypes
  <2>3. ASSUME NEW u \in Attempts PROVE OwnerInv(u)'
    BY <2>1 DEF Inv, OwnerInv, Follows, GetPublicKey
  <2>. QED BY <1>0, <2>2, <2>3 DEF Inv
<1>2. CASE Replacing
  BY <1>0, <1>2, SendKeyInv, PutKeyInv, PutFailsInv DEF Replacing
<1>. QED BY <1>0, <1>1, <1>2, RequestOwnerInv DEF Next

----------------------------------------------------------------------------
\* Accounts, requests, keys and PUTs stay well-formed.
THEOREM DirectoryTypeCorrect == Spec => []TypeOK
<1>1. Inv => TypeOK
  BY DEF Inv, AccountInv, AccountTypes, DeviceTypes, TypeOK, EmptyForm
<1>2. Inv /\ [Next]_vars => Inv'
  BY NextInv
<1>. QED BY InitInv, <1>1, <1>2, PTL DEF Spec

\* However many registrations race for however many names and addresses, no
\* two accounts share one, and a login finds at most one account.
THEOREM UniqueUsersHolds == Spec => []UniqueUsers
<1>1. Inv => UniqueUsers
  <2>. SUFFICES ASSUME AccountInv PROVE UniqueUsers
    BY DEF Inv
  <2>1. \A u, v \in users : u # v => \A c \in Columns : form[u][c] # form[v][c]
    BY DEF AccountInv, Having
  <2>2. ASSUME NEW u \in users PROVE Login(u) = {u}
    <3>1. \A v \in users : v # u => form[v].email # form[u].email
      BY <2>1 DEF Columns
    <3>. QED BY <3>1 DEF Login
  <2>. QED BY <2>1, <2>2 DEF UniqueUsers
<1>2. Inv /\ [Next]_vars => Inv'
  BY NextInv
<1>. QED BY InitInv, <1>1, <1>2, PTL DEF Spec

\* A conflict is answered only because of a row, never because of another
\* registration on its way that fails after all.
THEOREM ConflictIsRealHolds == Spec => []ConflictIsReal
<1>1. Inv => ConflictIsReal
  BY DEF Inv, AccountInv
<1>2. Inv /\ [Next]_vars => Inv'
  BY NextInv
<1>. QED BY InitInv, <1>1, <1>2, PTL DEF Spec

\* User, key and answer stand or fall together, whatever statement fails and
\* whatever answer of a commit is lost.
THEOREM AtomicRegistrationHolds == Spec => []AtomicRegistration
<1>1. Inv => AtomicRegistration
  BY DEF Inv, AccountInv, AccountTypes, RequestInv, OwnerInv, GetPublicKey, AtomicRegistration
<1>2. Inv /\ [Next]_vars => Inv'
  BY NextInv
<1>. QED BY InitInv, <1>1, <1>2, PTL DEF Spec

LEMMA InvFollows == Inv => DirectoryFollowsDevice
<1>. SUFFICES ASSUME Inv, NEW u \in users, uploads[u] = {}, u \notin blame
              PROVE  GetPublicKey(u) = Newest(u) /\ directory[u].version = newest[u]
  BY DEF DirectoryFollowsDevice
<1>1. u \in Attempts /\ newest[u] \in Nat /\ directory[u].version \in Nat
  BY DirectoryAssumption DEF Inv, AccountInv, AccountTypes, DeviceTypes
<1>2. PICK k \in 1 .. newest[u] :
        /\ GetPublicKey(u) = Key(u, k)
        /\ (k + 1) .. newest[u] \subseteq uploads[u]
        /\ directory[u].version + Cardinality(uploads[u]) = newest[u]
  BY <1>1 DEF Inv, OwnerInv, Follows
<1>3. k = newest[u]
  BY <1>1, <1>2
<1>4. Cardinality(uploads[u]) = 0
  BY FS_EmptySet
<1>. QED BY <1>1, <1>2, <1>3, <1>4 DEF Newest

\* In whatever order the PUTs of however many new keys arrive, the directory
\* has the newest key once all are through, or one failed or was overtaken.
THEOREM DirectoryFollowsDeviceHolds == Spec => []DirectoryFollowsDevice
<1>1. Inv /\ [Next]_vars => Inv'
  BY NextInv
<1>. QED BY InitInv, InvFollows, <1>1, PTL DEF Spec

----------------------------------------------------------------------------
(***************************************************************************)
(* The handlers implement Registry: a registration is decided when its     *)
(* transaction ends.                                                       *)
(***************************************************************************)
Asked  == { r \in Attempts : pc[r] # "idle" }
Broken == { r \in Attempts : pc[r] = "broken" }

\* A request that goes on stays asked; it is broken only if it ends like that.
LEMMA RequestMoves ==
  ASSUME AccountInv, NEW r \in Attempts, NEW step, step # "idle",
         pc[r] \in Working, pc' = [pc EXCEPT ![r] = step]
  PROVE  /\ r \in Asked /\ Asked' = Asked
         /\ step = "broken" => Broken' = Broken \cup {r}
         /\ step # "broken" => Broken' = Broken
  BY DEF Asked, Broken, AccountInv, AccountTypes, Working

\* What is taken is a conflict, ...
LEMMA TakenIsConflict ==
  ASSUME AccountInv, NEW r \in Attempts, NEW c \in Columns, Taken(r, c)
  PROVE  Registered!Conflict(r)
  BY DEF Taken, Same, Columns, Registered!Conflict

\* ... and whoever holds both index entries has none.
LEMMA HolderHasNoConflict ==
  ASSUME AccountInv, NEW r \in Attempts, pc[r] = "keyed"
  PROVE  ~ Registered!Conflict(r)
<1>1. \A c \in Columns : r \in Having(c)
  BY DEF AccountInv, RequestInv, Having
<1>2. r \notin users
  BY DEF AccountInv, RequestInv
<1>3. \A c \in Columns : \A u \in users : form[u][c] # form[r][c]
  BY <1>1, <1>2 DEF AccountInv, Having
<1>4. \A u \in users : form[u].username # form[r].username /\ form[u].email # form[r].email
  BY <1>3 DEF Columns
<1>. QED BY <1>4 DEF Registered!Conflict

LEMMA GiveUpRefuses ==
  ASSUME AccountInv, NEW r \in Attempts, NEW status \in {409, 500},
         NEW end \in {"answered", "broken"}, GiveUp(r, status, end),
         pc[r] \in {"begun", "named", "mailed", "keyed"},
         end = "answered" => status = 409 /\ Registered!Conflict(r)
  PROVE  Registered!Refuse(r)
<1>1. /\ pc' = [pc EXCEPT ![r] = end] /\ reply' = [reply EXCEPT ![r] = status]
      /\ UNCHANGED << form, users, directory >>
  BY DEF GiveUp, Goto, Answer
<1>2. r \notin users /\ reply[r] = 0
  BY DEF AccountInv, RequestInv, Working
<1>3. pc[r] \in Working /\ end # "idle"
  BY DEF Working
<1>4. /\ r \in Asked /\ Asked' = Asked
      /\ end = "broken" => Broken' = Broken \cup {r}
      /\ end # "broken" => Broken' = Broken
  BY <1>1, <1>3, RequestMoves
<1>5. Registered!Pending(r)
  BY <1>2, <1>4 DEF Registered!Pending, Asked
<1>6. CASE end = "broken"
  BY <1>1, <1>4, <1>5, <1>6
     DEF Registered!Refuse, Registered!Fail, Registered!Answer, Asked, Broken
<1>7. CASE end = "answered"
  BY <1>1, <1>4, <1>5, <1>7
     DEF Registered!Refuse, Registered!Answer, Asked, Broken
<1>. QED BY <1>6, <1>7

LEMMA CommitCreates ==
  ASSUME AccountInv, NEW r \in Attempts, Commit(r) PROVE Registered!Create(r)
<1>1. /\ pc[r] = "keyed" /\ users' = users \cup {r} /\ form' = form
      /\ directory' = [directory EXCEPT ![r] = [key |-> form[r].key, version |-> 1]]
      /\ \/ pc' = [pc EXCEPT ![r] = "committed"] /\ reply' = reply
         \/ pc' = [pc EXCEPT ![r] = "broken"] /\ reply' = [reply EXCEPT ![r] = 500]
  BY DEF Commit, Goto, Answer
<1>2. r \notin users /\ reply[r] = 0
  BY <1>1 DEF AccountInv, RequestInv, Working
<1>3. /\ r \in Asked /\ Asked' = Asked
      /\ \/ Broken' = Broken /\ reply' = reply
         \/ Broken' = Broken \cup {r} /\ reply' = [reply EXCEPT ![r] = 500]
  BY <1>1, RequestMoves DEF Working
<1>4. Registered!Pending(r) /\ ~ Registered!Conflict(r)
  BY <1>1, <1>2, <1>3, HolderHasNoConflict DEF Registered!Pending, Asked
<1>. QED BY <1>1, <1>3, <1>4
         DEF Registered!Create, Registered!Fail, Registered!Answer, Asked, Broken

LEMMA SubmitAsks ==
  ASSUME AccountInv, NEW r \in Attempts, SubmitForm(r) PROVE Registered!Ask(r)
<1>1. PICK n \in Names, e \in Emails, k \in {NoKey, Newest(r)} :
        Register(r, [username |-> n, email |-> e, key |-> k])
  BY DEF SubmitForm
<1>. DEFINE f == [username |-> n, email |-> e, key |-> k]
<1>2. /\ pc[r] = "idle" /\ form' = [form EXCEPT ![r] = f]
      /\ IF f.key = NoKey
         THEN pc' = [pc EXCEPT ![r] = "answered"] /\ reply' = [reply EXCEPT ![r] = 400]
         ELSE pc' = [pc EXCEPT ![r] = "begun"] /\ reply' = reply
      /\ UNCHANGED << users, directory >>
  BY <1>1 DEF Register, Goto, Answer
<1>. HIDE DEF f
<1>3. form'[r] = f /\ form' = [form EXCEPT ![r] = form'[r]]
  BY <1>2 DEF AccountInv, AccountTypes
<1>4. r \notin Asked /\ Asked' = Asked \cup {r} /\ Broken' = Broken
  BY <1>2 DEF Asked, Broken, AccountInv, AccountTypes
<1>. QED BY <1>2, <1>3, <1>4 DEF Registered!Ask, Registered!Answer, Asked, Broken

LEMMA ClaimRegisters ==
  ASSUME AccountInv, NEW r \in Attempts, NEW c \in Columns,
         NEW from \in {"begun", "named"}, NEW to \in {"named", "mailed"},
         Claim(r, c, from, to)
  PROVE  Registered!Refuse(r) \/ UNCHANGED Registered!registryVars
<1>1. CASE GiveUp(r, 409, "answered") /\ Taken(r, c)
  BY <1>1, GiveUpRefuses, TakenIsConflict DEF Claim
<1>2. CASE ~ Taken(r, c)
  <2>1. /\ pc[r] \in Working /\ pc' = [pc EXCEPT ![r] = to]
        /\ UNCHANGED << form, reply, users, directory >>
    BY <1>2 DEF Claim, Goto, Working
  <2>2. Asked' = Asked /\ Broken' = Broken
    BY <2>1, RequestMoves
  <2>. QED BY <2>1, <2>2 DEF Registered!registryVars, Asked, Broken
<1>. QED BY <1>1, <1>2 DEF Claim

LEMMA RegisteringRegisters ==
  ASSUME AccountInv, NEW r \in Attempts, Registering(r)
  PROVE  [Registered!Next]_(Registered!registryVars)
<1>1. CASE ClaimName(r) \/ ClaimEmail(r)
  BY <1>1, ClaimRegisters DEF ClaimName, ClaimEmail, Columns, Registered!Next
<1>2. CASE BeginFails(r) \/ InsertUserFails(r) \/ CommitFails(r)
  BY <1>2, GiveUpRefuses DEF BeginFails, InsertUserFails, CommitFails, Registered!Next
<1>3. CASE InsertKey(r)
  <2>1. CASE GiveUp(r, 500, "broken")
    BY <1>3, <2>1, GiveUpRefuses DEF InsertKey, Registered!Next
  <2>2. CASE ~ GiveUp(r, 500, "broken")
    <3>1. /\ pc[r] \in Working /\ pc' = [pc EXCEPT ![r] = "keyed"]
          /\ UNCHANGED << form, reply, users, directory >>
      BY <1>3, <2>2 DEF InsertKey, Goto, Working
    <3>2. Asked' = Asked /\ Broken' = Broken
      BY <3>1 DEF Asked, Broken, AccountInv, AccountTypes, Working
    <3>. QED BY <3>1, <3>2 DEF Registered!registryVars, Asked, Broken
  <2>. QED BY <2>1, <2>2
<1>4. CASE Commit(r)
  BY <1>4, CommitCreates DEF Registered!Next
<1>5. CASE Created(r)
  <2>1. /\ pc[r] = "committed" /\ pc' = [pc EXCEPT ![r] = "answered"]
        /\ reply' = [reply EXCEPT ![r] = 201]
        /\ UNCHANGED << form, users, directory >>
    BY <1>5 DEF Created, Goto, Answer
  <2>2. r \in users /\ reply[r] = 0
    BY <2>1 DEF AccountInv, RequestInv, Working
  <2>3. Asked' = Asked /\ Broken' = Broken
    BY <2>1, RequestMoves DEF Working
  <2>4. Registered!Confirm(r)
    BY <2>1, <2>2, <2>3 DEF Registered!Confirm, Registered!Answer, Asked, Broken
  <2>. QED BY <2>4 DEF Registered!Next
<1>. QED BY <1>1, <1>2, <1>3, <1>4, <1>5 DEF Registering, Serving

LEMMA PutReplaces ==
  ASSUME Inv, NEW u \in Devices, NEW n \in uploads[u], PutKey(u, n)
  PROVE  u \in Attempts /\ Registered!Replace(u)
<1>1. u \in Attempts /\ u \in users
  BY DirectoryAssumption DEF Inv, OwnerInv
<1>2. /\ directory' = [directory EXCEPT ![u] = [key |-> Key(u, n),
                                                version |-> directory[u].version + 1]]
      /\ UNCHANGED << form, pc, reply, users >>
  BY <1>1 DEF PutKey, UpdatePublicKey, Inv, DeviceTypes
<1>3. directory'[u].key = Key(u, n)
  BY <1>1, <1>2 DEF Inv, DeviceTypes
<1>. QED BY <1>1, <1>2, <1>3 DEF Registered!Replace

\* Racing registrations, each of several statements that wait for the index
\* entries of others and may fail, are decided in one step each: username and
\* email are free when the account appears, and taken when they are said to be.
THEOREM RegistryImplemented == Spec => RegistrySpec
<1>1. Init => Registered!Init
  BY DEF Init, AccountsInit, Registered!Init
<1>2. ASSUME Inv, [Next]_vars PROVE [Registered!Next]_(Registered!registryVars)
  <2>1. CASE UNCHANGED accounts
    BY <2>1 DEF accounts, Registered!registryVars
  <2>2. ASSUME NEW r \in Attempts, SubmitForm(r) PROVE Registered!Next
    BY <1>2, <2>2, SubmitAsks DEF Inv, Registered!Next
  <2>3. ASSUME NEW r \in Attempts, Registering(r)
        PROVE  [Registered!Next]_(Registered!registryVars)
    BY <1>2, <2>3, RegisteringRegisters DEF Inv
  <2>4. ASSUME NEW u \in Devices, NEW n \in uploads[u], PutKey(u, n) PROVE Registered!Next
    BY <1>2, <2>4, PutReplaces DEF Registered!Next
  <2>5. CASE Replacing
    BY <2>1, <2>4, <2>5 DEF Replacing, SendKey, PutFails
  <2>6. CASE UNCHANGED vars
    BY <2>1, <2>6 DEF vars
  <2>. QED BY <1>2, <2>2, <2>3, <2>5, <2>6 DEF Next
<1>3. Inv /\ [Next]_vars => Inv'
  BY NextInv
<1>. QED BY InitInv, <1>1, <1>2, <1>3, PTL DEF Spec, RegistrySpec, Registered!Spec

----------------------------------------------------------------------------
\* r waits at an index for the transaction of q.
Waits(r, q) ==
  \/ pc[r] = "begun" /\ q \in Same(r, "username") /\ << q, "username" >> \in claims
  \/ pc[r] = "named" /\ q \in Same(r, "email") /\ << q, "email" >> \in claims

\* No registration waits for itself in a circle, however many race and however
\* their names and addresses cross: who waits for one that waits itself waits,
\* at two removes, for a transaction that waits for nobody.  (All take the
\* indexes in one order.)  RequestsAnswered rests on it.
THEOREM WaitingEnds ==
  Spec => [](\A r, q, p, o \in Attempts : Waits(r, q) /\ Waits(q, p) => ~ Waits(p, o))
<1>. DEFINE Short == \A r, q, p, o \in Attempts : Waits(r, q) /\ Waits(q, p) => ~ Waits(p, o)
<1>1. Inv => Short
  <2>. SUFFICES ASSUME Inv, NEW r \in Attempts, NEW q \in Attempts, NEW p \in Attempts,
                       NEW o \in Attempts, Waits(r, q), Waits(q, p)
                PROVE  ~ Waits(p, o)
    OBVIOUS
  <2>1. \A a \in Attempts : RequestInv(a)
    BY DEF Inv, AccountInv
  <2>2. pc[q] \in {"named", "mailed", "keyed"}
    BY <2>1 DEF Waits, RequestInv, Columns
  <2>3. pc[q] = "named" /\ << p, "email" >> \in claims
    BY <2>2 DEF Waits
  <2>4. pc[p] \in {"mailed", "keyed"}
    BY <2>1, <2>3 DEF RequestInv, Columns
  <2>. QED BY <2>4 DEF Waits
<1>2. Inv /\ [Next]_vars => Inv'
  BY NextInv
<1>. QED BY InitInv, <1>1, <1>2, PTL DEF Spec
=============================================================================
