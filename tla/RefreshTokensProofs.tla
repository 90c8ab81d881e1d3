------------------------ MODULE RefreshTokensProofs ------------------------
(***************************************************************************)
(* Theorems about RefreshTokens for every set of requests and tokens and   *)
(* every choice of faults.                                                 *)
(***************************************************************************)
EXTENDS RefreshTokens, TLAPS

(* A session's token is replaced by its holder only: the request that has  *)
(* locked the row.  The invariant follows each issued token from the       *)
(* moment it is drawn (its row does not exist yet, and nobody else drew    *)
(* it) to its insertion.                                                   *)
Holding == {"save", "rotate", "commit"}

SessionInv ==
  /\ \A t \in Tokens : row[t] # "none" => t \in Issued
  /\ \A r, q \in Requests : new[r] = new[q] /\ new[r] # None => r = q
  /\ \A r \in Requests : pc[r] = "idle" =>
       new[r] = None /\ \A t \in Tokens : session[t] # r
  /\ \A r \in Requests : pc[r] \in Holding =>
       new[r] \in Tokens /\ row[new[r]] = "none"
  /\ \A r \in Requests : pc[r] = "login_done" => new[r] \in Tokens
  /\ \A r \in Requests : pc[r] = "save" =>
       session[new[r]] = r /\ \A t \in Tokens : session[t] = r => t = new[r]
  /\ \A r \in Requests : pc[r] \in {"rotate", "commit"} =>
       old[r] \in Tokens /\ row[old[r]] # "none" /\ session[new[r]] = session[old[r]]
  /\ \A r \in Requests : pc[r] = "commit" =>
       row[old[r]] = "stored" /\ lock[old[r]] = r
  /\ OneTokenPerSession

Inv == TypeOK /\ SessionInv

LEMMA InitInv == Init => Inv
  BY TokenAssumption
     DEF Init, Inv, TypeOK, SessionInv, OneTokenPerSession, Stored, Labels, Holding

LEMMA LoginInv == ASSUME Inv, NEW r \in Requests, Login(r) PROVE Inv'
<1>. USE TokenAssumption DEF Inv
<1>1. PICK t \in Tokens \ Issued :
        new' = [new EXCEPT ![r] = t] /\ session' = [session EXCEPT ![t] = r]
  <2>1. PICK t \in Tokens \ Issued : new' = [new EXCEPT ![r] = t]
    BY DEF Login, IssueTokens
  <2>2. new'[r] = t
    BY <2>1 DEF TypeOK
  <2>3. session' = [session EXCEPT ![t] = r]
    BY <2>2 DEF Login
  <2>. QED BY <2>1, <2>3
<1>2. TypeOK'
  BY <1>1 DEF Login, Goto, TypeOK, Labels
<1>3. row[t] = "none"
  BY <1>1 DEF SessionInv, TypeOK
<1>4. \A q \in Requests : new[q] # t
  BY <1>1 DEF Issued
<1>5. \A s \in Tokens : s \in Issued => s \in Issued'
  BY <1>1, <1>4, r \in Requests DEF Issued, Login, SessionInv, TypeOK
<1>6. pc[r] = "idle" /\ pc' = [pc EXCEPT ![r] = "save"] /\ UNCHANGED << row, lock, old >>
  BY DEF Login, Goto
<1>7. OneTokenPerSession'
  BY <1>1, <1>3, <1>6 DEF SessionInv, OneTokenPerSession, Stored, TypeOK
<1>8. SessionInv'
  BY <1>1, <1>3, <1>4, <1>5, <1>6, <1>7 DEF SessionInv, TypeOK, Holding
<1>. QED BY <1>2, <1>8

LEMMA LoginSaveInv == ASSUME Inv, NEW r \in Requests, LoginSave(r) PROVE Inv'
<1>. USE TokenAssumption DEF Inv
<1>1. TypeOK'
  BY DEF LoginSave, Goto, Answer, TypeOK, Labels
<1>2. /\ pc[r] = "save" /\ pc' = [pc EXCEPT ![r] = "login_done"]
      /\ row' = [row EXCEPT ![new[r]] = "stored"] \/ row' = row
      /\ UNCHANGED << lock, old, new, session >>
  BY DEF LoginSave, Goto
<1>3. new[r] \in Tokens /\ new[r] \in Issued /\ Issued' = Issued
  BY <1>2 DEF SessionInv, Holding, Issued
<1>4. OneTokenPerSession'
  BY <1>2, <1>3 DEF SessionInv, OneTokenPerSession, Stored, TypeOK
<1>5. SessionInv'
  BY <1>2, <1>3, <1>4 DEF SessionInv, TypeOK, Holding
<1>. QED BY <1>1, <1>5

LEMMA RefreshSelectInv ==
  ASSUME Inv, NEW r \in Requests, NEW t \in Known, RefreshSelect(r, t) PROVE Inv'
<1>. USE TokenAssumption DEF Inv
<1>. t \in Tokens
  BY DEF Known
<1>1. CASE pc'[r] = "rotate"
  <2>1. PICK n \in Tokens \ Issued :
          new' = [new EXCEPT ![r] = n] /\ session' = [session EXCEPT ![n] = session[t]]
    BY <1>1 DEF RefreshSelect, Goto, IssueTokens, TypeOK
  <2>2. /\ pc[r] = "idle" /\ pc' = [pc EXCEPT ![r] = "rotate"]
        /\ row[t] = "stored" /\ old' = [old EXCEPT ![r] = t]
        /\ UNCHANGED << row, expired, lock, seen, reply >>
    BY <1>1 DEF RefreshSelect, Goto, TypeOK
  <2>3. TypeOK'
    BY <2>1, <2>2 DEF TypeOK, Labels
  <2>4. row[n] = "none" /\ n # t /\ \A q \in Requests : new[q] # n
    BY <2>1, <2>2 DEF SessionInv, TypeOK, Issued
  <2>5. \A s \in Tokens : s \in Issued => s \in Issued'
    BY <2>1, <2>2, <2>4 DEF Issued, SessionInv, TypeOK
  <2>6. \A q \in Requests : pc[q] \in {"idle", "save"} => session[t] # q
    BY <2>2 DEF SessionInv, Holding
  <2>7. OneTokenPerSession'
    BY <2>1, <2>2, <2>4 DEF SessionInv, OneTokenPerSession, Stored, TypeOK
  <2>8. SessionInv'
    BY <2>1, <2>2, <2>4, <2>5, <2>6, <2>7 DEF SessionInv, TypeOK, Holding
  <2>. QED BY <2>3, <2>8
<1>2. CASE pc'[r] # "rotate"
  <2>1. /\ pc[r] = "idle" /\ pc' = [pc EXCEPT ![r] = "refresh_done"]
        /\ old' = [old EXCEPT ![r] = t]
        /\ reply' = [reply EXCEPT ![r] = "unauthorized"]
        /\ UNCHANGED << row, expired, lock, new, seen, session >>
    BY <1>2 DEF RefreshSelect, Goto, Answer, TypeOK
  <2>2. TypeOK'
    BY <2>1 DEF TypeOK, Labels
  <2>3. SessionInv'
    BY <2>1 DEF SessionInv, TypeOK, Holding, OneTokenPerSession, Stored, Issued
  <2>. QED BY <2>2, <2>3
<1>. QED BY <1>1, <1>2

LEMMA RotateDeleteInv == ASSUME Inv, NEW r \in Requests, RotateDelete(r) PROVE Inv'
<1>. USE TokenAssumption DEF Inv
<1>1. old[r] \in Tokens /\ pc[r] = "rotate" /\ lock[old[r]] = None
  BY DEF RotateDelete, SessionInv
<1>2. UNCHANGED << row, expired, old, new, seen, session >>
  BY DEF RotateDelete
<1>3. CASE /\ row[old[r]] = "stored" /\ lock' = [lock EXCEPT ![old[r]] = r]
           /\ pc' = [pc EXCEPT ![r] = "commit"] /\ reply' = reply
  <2>1. TypeOK'
    BY <1>1, <1>2, <1>3 DEF TypeOK, Labels
  <2>2. SessionInv'
    BY <1>1, <1>2, <1>3 DEF SessionInv, TypeOK, Holding, OneTokenPerSession, Stored, Issued
  <2>. QED BY <2>1, <2>2
<1>4. CASE /\ lock' = lock /\ pc' = [pc EXCEPT ![r] = "refresh_done"]
           /\ reply' = [reply EXCEPT ![r] = "ok"]
  <2>1. TypeOK'
    BY <1>1, <1>2, <1>4 DEF TypeOK, Labels
  <2>2. SessionInv'
    BY <1>1, <1>2, <1>4 DEF SessionInv, TypeOK, Holding, OneTokenPerSession, Stored, Issued
  <2>. QED BY <2>1, <2>2
<1>. QED BY <1>3, <1>4 DEF RotateDelete, Goto, Answer

LEMMA RotateCommitInv == ASSUME Inv, NEW r \in Requests, RotateCommit(r) PROVE Inv'
<1>. USE TokenAssumption DEF Inv
<1>1. /\ pc[r] = "commit" /\ pc' = [pc EXCEPT ![r] = "refresh_done"]
      /\ row' = [row EXCEPT ![old[r]] = "deleted", ![new[r]] = "stored"]
      /\ lock' = [lock EXCEPT ![old[r]] = None]
      /\ reply' \in [Requests -> {"none", "ok", "unauthorized", "error"}]
      /\ UNCHANGED << expired, old, new, seen, session >>
  BY DEF RotateCommit, Goto, Answer, TypeOK
<1>2. /\ old[r] \in Tokens /\ new[r] \in Tokens /\ old[r] # new[r]
      /\ row[old[r]] = "stored" /\ row[new[r]] = "none"
      /\ session[new[r]] = session[old[r]] /\ lock[old[r]] = r
  BY <1>1 DEF SessionInv, Holding
<1>3. TypeOK'
  BY <1>1, <1>2 DEF TypeOK, Labels
<1>4. Stored' = (Stored \ {old[r]}) \cup {new[r]} /\ Issued' = Issued /\ new[r] \in Issued
  BY <1>1, <1>2 DEF Stored, Issued, TypeOK
<1>5. OneTokenPerSession'
  BY <1>1, <1>2, <1>4 DEF SessionInv, OneTokenPerSession, Stored
<1>6. \A q \in Requests \ {r} : pc[q] = "commit" => old[q] # old[r]
  BY <1>1, <1>2 DEF SessionInv
<1>7. \A q \in Requests \ {r} : pc[q] \in Holding => new[q] # new[r] /\ new[q] # old[r]
  BY <1>1, <1>2, <1>4 DEF SessionInv, TypeOK
<1>8. SessionInv'
  BY <1>1, <1>2, <1>4, <1>5, <1>6, <1>7 DEF SessionInv, TypeOK, Holding
<1>. QED BY <1>3, <1>8

LEMMA RotateFailsInv == ASSUME Inv, NEW r \in Requests, RotateFails(r) PROVE Inv'
<1>. USE TokenAssumption DEF Inv
<1>1. /\ pc[r] \in {"rotate", "commit"} /\ pc' = [pc EXCEPT ![r] = "refresh_done"]
      /\ lock' = [t \in Tokens |-> IF lock[t] = r THEN None ELSE lock[t]]
      /\ reply' = [reply EXCEPT ![r] = "error"]
      /\ UNCHANGED << row, expired, old, new, seen, session >>
  BY DEF RotateFails, Goto, Answer
<1>2. TypeOK'
  BY <1>1 DEF TypeOK, Labels
<1>3. SessionInv'
  BY <1>1 DEF SessionInv, TypeOK, Holding, OneTokenPerSession, Stored, Issued
<1>. QED BY <1>2, <1>3

LEMMA LogoutDeleteInv == ASSUME Inv, NEW r \in Requests, LogoutDelete(r) PROVE Inv'
<1>. USE TokenAssumption DEF Inv
<1>1. /\ pc[r] = "logout" /\ pc' = [pc EXCEPT ![r] = "logout_done"]
      /\ \A t \in seen[r] : lock[t] = None
      /\ row' = [t \in Tokens |->
                   IF t \in seen[r] /\ row[t] = "stored" THEN "deleted" ELSE row[t]]
      /\ reply' = [reply EXCEPT ![r] = "ok"]
      /\ UNCHANGED << expired, lock, old, new, seen, session >>
  BY DEF LogoutDelete, Goto, Answer
<1>2. TypeOK'
  BY <1>1 DEF TypeOK, Labels
<1>3. /\ \A t \in Tokens : row'[t] = "none" <=> row[t] = "none"
      /\ \A t \in Tokens : lock[t] # None => row'[t] = row[t]
      /\ Stored' \subseteq Stored /\ Issued' = Issued
  BY <1>1 DEF TypeOK, Stored, Issued
<1>4. SessionInv'
  BY <1>1, <1>3 DEF SessionInv, TypeOK, Holding, OneTokenPerSession
<1>. QED BY <1>2, <1>4

LEMMA NextInv == ASSUME Inv, [Next]_vars PROVE Inv'
<1>. USE TokenAssumption
<1>1. CASE UNCHANGED vars
  BY <1>1 DEF Inv, TypeOK, SessionInv, OneTokenPerSession, Stored, Issued, vars
<1>2. ASSUME NEW r \in Requests, Arrives(r) PROVE Inv'
  <2>1. CASE LogoutBegin(r)
    BY <2>1 DEF LogoutBegin, Goto, Inv, TypeOK, SessionInv, OneTokenPerSession, Stored,
                Issued, Labels, Holding
  <2>. QED BY <1>2, <2>1, LoginInv, RefreshSelectInv DEF Arrives
<1>3. ASSUME NEW r \in Requests, Serve(r) PROVE Inv'
  BY <1>3, LoginSaveInv, RotateDeleteInv, RotateCommitInv, LogoutDeleteInv DEF Serve
<1>4. ASSUME NEW r \in Requests, Fails(r) PROVE Inv'
  <2>1. CASE LogoutFails(r)
    BY <2>1 DEF LogoutFails, Goto, Answer, Inv, TypeOK, SessionInv, OneTokenPerSession,
                Stored, Issued, Labels, Holding
  <2>. QED BY <1>4, <2>1, RotateFailsInv DEF Fails
<1>5. ASSUME NEW t \in Tokens, Expire(t) PROVE Inv'
  BY <1>5 DEF Expire, Inv, TypeOK, SessionInv, OneTokenPerSession, Stored, Issued
<1>. QED BY <1>1, <1>2, <1>3, <1>4, <1>5 DEF Next

(* The tables and the goroutines stay well-formed; a deleted, uncommitted  *)
(* row always belongs to a rotation that is about to commit it.            *)
THEOREM TokensTypeCorrect == Spec => []TypeOK
<1>1. Inv => TypeOK
  BY DEF Inv
<1>2. Inv /\ [Next]_vars => Inv'
  BY NextInv
<1>. QED BY InitInv, <1>1, <1>2, PTL DEF Spec

(* However many requests race and whatever fails, a session never has two  *)
(* valid refresh tokens: RotateRefreshToken's DELETE is a lock on the row. *)
THEOREM OneTokenPerSessionHolds == Spec => []OneTokenPerSession
<1>1. Inv => OneTokenPerSession
  BY DEF Inv, SessionInv
<1>2. Inv /\ [Next]_vars => Inv'
  BY NextInv
<1>. QED BY InitInv, <1>1, <1>2, PTL DEF Spec

(* A row is stored once, when its token was drawn and not yet used, and     *)
(* deleted for good: nothing stores a token again.                         *)
LEMMA RowsOnlyAge ==
  ASSUME Inv, [Next]_vars, NEW t \in Tokens
  PROVE  /\ row[t] # "none" => row'[t] # "none"
         /\ row[t] = "deleted" => row'[t] = "deleted"
<1>. USE TokenAssumption DEF Inv
<1>1. CASE row' = row
  BY <1>1
<1>2. ASSUME NEW r \in Requests, LoginSave(r) \/ RotateCommit(r)
      PROVE  /\ row[t] # "none" => row'[t] # "none"
             /\ row[t] = "deleted" => row'[t] = "deleted"
  <2>1. new[r] \in Tokens /\ row[new[r]] = "none" /\ pc[r] \in {"save", "commit"}
    BY <1>2 DEF LoginSave, RotateCommit, SessionInv, Holding
  <2>2. pc[r] = "commit" => old[r] \in Tokens /\ row[old[r]] = "stored"
    BY <2>1 DEF SessionInv
  <2>. QED BY <1>2, <2>1, <2>2 DEF LoginSave, RotateCommit, TypeOK
<1>3. ASSUME NEW r \in Requests, LogoutDelete(r)
      PROVE  /\ row[t] # "none" => row'[t] # "none"
             /\ row[t] = "deleted" => row'[t] = "deleted"
  BY <1>3 DEF LogoutDelete
<1>4. CASE UNCHANGED vars
  BY <1>4 DEF vars
<1>. QED BY <1>1, <1>2, <1>3, <1>4
         DEF Next, Arrives, Serve, Fails, Login, LogoutBegin, RefreshSelect, RotateDelete,
             RotateFails, LogoutFails, Expire

(* Only an idle request is given a token to refresh or rows to delete. *)
LEMMA RequestsKeepInput ==
  ASSUME Inv, [Next]_vars, NEW r \in Requests, pc[r] # "idle"
  PROVE  old'[r] = old[r] /\ seen'[r] \subseteq seen[r] /\ pc'[r] # "idle"
<1>1. CASE UNCHANGED vars
  BY <1>1 DEF vars
<1>2. ASSUME NEW q \in Requests, Arrives(q) PROVE old'[r] = old[r] /\ seen'[r] = seen[r]
                                                 /\ pc'[r] # "idle"
  BY <1>2 DEF Arrives, Login, LogoutBegin, RefreshSelect, Goto, Inv, TypeOK
<1>3. ASSUME NEW q \in Requests, Serve(q) \/ Fails(q)
      PROVE  old'[r] = old[r] /\ seen'[r] \subseteq seen[r] /\ pc'[r] # "idle"
  BY <1>3 DEF Serve, Fails, LoginSave, RotateDelete, RotateCommit, LogoutDelete, RotateFails,
              LogoutFails, Goto, Inv, TypeOK
<1>4. ASSUME NEW t \in Tokens, Expire(t) PROVE old' = old /\ seen' = seen /\ pc' = pc
  BY <1>4 DEF Expire
<1>. QED BY <1>1, <1>2, <1>3, <1>4 DEF Next

(* New tokens are given only for a token that was stored once: a login     *)
(* whose SaveRefreshToken failed cannot be continued.                      *)
THEOREM OnlyStoredTokensRefreshHolds == Spec => []OnlyStoredTokensRefresh
<1>. DEFINE Good(r) == (pc[r] = "refresh_done" /\ reply[r] = "ok") =>
                          old[r] \in Tokens /\ row[old[r]] # "none"
            P == Inv /\ \A r \in Requests : Good(r)
<1>1. Init => P
  BY InitInv DEF Init
<1>2. P /\ [Next]_vars => P'
  <2>. SUFFICES ASSUME P, [Next]_vars, NEW r \in Requests,
                       pc'[r] = "refresh_done", reply'[r] = "ok"
                PROVE  old'[r] \in Tokens /\ row'[old'[r]] # "none"
    BY NextInv
  <2>1. pc[r] # "idle"
    <3>. SUFFICES ASSUME pc[r] = "idle" PROVE FALSE
      OBVIOUS
    <3>1. PICK t \in Known : RefreshSelect(r, t)
      BY DEF Next, vars, Arrives, Serve, Fails, Login, LogoutBegin, RefreshSelect, LoginSave,
             RotateDelete, RotateCommit, LogoutDelete, RotateFails, LogoutFails, Expire, Goto,
             Inv, TypeOK
    <3>. QED BY <3>1 DEF RefreshSelect, Goto, Answer, Inv, TypeOK
  <2>2. old[r] \in Tokens /\ row[old[r]] # "none"
    <3>1. CASE pc[r] \in {"rotate", "commit"}
      BY <3>1 DEF Inv, SessionInv
    <3>2. CASE pc[r] \notin {"rotate", "commit"}
      <4>1. pc[r] = "refresh_done" /\ reply[r] = "ok"
        BY <2>1, <3>2
           DEF Next, vars, Arrives, Serve, Fails, Login, LogoutBegin, RefreshSelect, LoginSave,
               RotateDelete, RotateCommit, LogoutDelete, RotateFails, LogoutFails, Expire,
               Goto, Answer, Inv, TypeOK
      <4>. QED BY <4>1
    <3>. QED BY <3>1, <3>2
  <2>. QED BY <2>1, <2>2, RequestsKeepInput, RowsOnlyAge
<1>3. P => OnlyStoredTokensRefresh
  BY DEF OnlyStoredTokensRefresh
<1>. QED BY <1>1, <1>2, <1>3, PTL DEF Spec

(* A Logout whose statement succeeded has deleted every row it saw, those  *)
(* in the hands of a rotation included: no later statement brings one back. *)
THEOREM LogoutDeletesAllSeenHolds == Spec => []LogoutDeletesAllSeen
<1>. DEFINE P == Inv /\ \A r \in Requests : \A t \in seen[r] :
                          /\ row[t] # "none"
                          /\ pc[r] = "logout_done" => row[t] = "deleted"
<1>1. Init => P
  BY InitInv DEF Init
<1>2. P /\ [Next]_vars => P'
  <2>. SUFFICES ASSUME P, [Next]_vars, NEW r \in Requests, NEW t \in seen'[r]
                PROVE  /\ row'[t] # "none"
                       /\ pc'[r] = "logout_done" => row'[t] = "deleted"
    BY NextInv
  <2>. USE DEF Inv
  <2>1. CASE pc[r] = "idle"
    <3>1. CASE LogoutBegin(r)
      BY <2>1, <3>1 DEF LogoutBegin, Goto, Stored, TypeOK
    <3>2. CASE ~ LogoutBegin(r)
      <4>1. seen'[r] = seen[r] /\ pc'[r] # "logout_done"
        BY <2>1, <3>2
           DEF Next, vars, Arrives, Serve, Fails, Login, LogoutBegin, RefreshSelect,
               LoginSave, RotateDelete, RotateCommit, LogoutDelete, RotateFails,
               LogoutFails, Expire, Goto, TypeOK
      <4>2. t \in Tokens
        BY <4>1 DEF TypeOK
      <4>. QED BY <4>1, <4>2, RowsOnlyAge
    <3>. QED BY <3>1, <3>2
  <2>2. CASE pc[r] # "idle"
    <3>1. t \in seen[r] /\ t \in Tokens
      BY <2>2, RequestsKeepInput DEF TypeOK
    <3>2. row[t] # "none" /\ row'[t] # "none"
      BY <3>1, RowsOnlyAge
    <3>3. ASSUME pc'[r] = "logout_done" PROVE row'[t] = "deleted"
      <4>1. CASE pc[r] = "logout_done"
        BY <3>1, <4>1, RowsOnlyAge
      <4>2. CASE pc[r] # "logout_done"
        <5>1. LogoutDelete(r) \/ LogoutFails(r)
          BY <2>2, <3>3, <4>2
             DEF Next, vars, Arrives, Serve, Fails, Login, LogoutBegin, RefreshSelect,
                 LoginSave, RotateDelete, RotateCommit, LogoutDelete, RotateFails,
                 LogoutFails, Expire, Goto, TypeOK
        <5>2. CASE LogoutFails(r)
          BY <5>2, t \in seen'[r] DEF LogoutFails, TypeOK
        <5>3. CASE LogoutDelete(r)
          BY <3>1, <3>2, <5>3 DEF LogoutDelete, TypeOK
        <5>. QED BY <5>1, <5>2, <5>3
      <4>. QED BY <4>1, <4>2
    <3>. QED BY <3>2, <3>3
  <2>. QED BY <2>1, <2>2
<1>3. P => LogoutDeletesAllSeen
  BY DEF LogoutDeletesAllSeen, Stored
<1>. QED BY <1>1, <1>2, <1>3, PTL DEF Spec

(* What is over stays over, ... *)
LEMMA RequestsStayDone ==
  ASSUME Inv, [Next]_vars, NEW r \in Requests, pc[r] = "logout_done"
  PROVE  pc'[r] = "logout_done"
  BY DEF Next, vars, Arrives, Serve, Fails, Login, LogoutBegin, RefreshSelect, LoginSave,
         RotateDelete, RotateCommit, LogoutDelete, RotateFails, LogoutFails, Expire, Goto,
         Inv, TypeOK

(* ... a login is over only once its token was stored or refused, ... *)
LEMMA LoginsStayDone ==
  ASSUME Inv, [Next]_vars, NEW r \in Requests, pc'[r] = "login_done", ~ LoginSave(r),
         row'[new'[r]] # "none"
  PROVE  pc[r] = "login_done" /\ new'[r] = new[r] /\ row[new[r]] # "none"
<1>. USE TokenAssumption DEF Inv
<1>1. pc[r] = "login_done" /\ new'[r] = new[r] /\ new[r] \in Tokens
  BY DEF Next, vars, Arrives, Serve, Fails, Login, LogoutBegin, IssueTokens, RefreshSelect,
         LoginSave, RotateDelete, RotateCommit, LogoutDelete, RotateFails, LogoutFails,
         Expire, Goto, TypeOK, SessionInv
<1>2. row[new[r]] # "none"
  <2>1. ASSUME NEW q \in Requests, LoginSave(q) \/ RotateCommit(q), row[new[r]] = "none"
        PROVE  FALSE
    <3>1. q # r /\ pc[q] \in Holding /\ new[q] \in Tokens
      BY <1>1, <2>1 DEF LoginSave, RotateCommit, SessionInv, Holding
    <3>2. new[q] # new[r]
      BY <1>1, <3>1, TokenAssumption DEF SessionInv
    <3>3. pc[q] = "commit" => old[q] # new[r]
      BY <2>1, <3>1 DEF SessionInv
    <3>4. row'[new[r]] = row[new[r]]
      BY <1>1, <2>1, <3>1, <3>2, <3>3 DEF LoginSave, RotateCommit, TypeOK
    <3>. QED BY <1>1, <2>1, <3>4
  <2>2. ASSUME NEW q \in Requests, LogoutDelete(q), row[new[r]] = "none"
        PROVE  FALSE
    BY <1>1, <2>2 DEF LogoutDelete, TypeOK
  <2>. QED BY <1>1, <2>1, <2>2
           DEF Next, vars, Arrives, Serve, Fails, Login, LogoutBegin, RefreshSelect,
               RotateDelete, RotateFails, LogoutFails, Expire
<1>. QED BY <1>1, <1>2

(* ... and a token stays in the session it was issued for. *)
LEMMA SessionsStay ==
  ASSUME Inv, [Next]_vars, NEW t \in Issued PROVE session'[t] = session[t]
<1>1. CASE session' = session
  BY <1>1
<1>2. ASSUME NEW r \in Requests, IssueTokens(r) PROVE new'[r] # t
  BY <1>2 DEF IssueTokens, Inv, TypeOK, Issued
<1>3. ASSUME NEW r \in Requests, Login(r) PROVE session'[t] = session[t]
  BY <1>2, <1>3 DEF Login, Inv, TypeOK, Issued
<1>4. ASSUME NEW r \in Requests, NEW s \in Known, RefreshSelect(r, s)
      PROVE  session'[t] = session[t]
  BY <1>1, <1>2, <1>4 DEF RefreshSelect, Inv, TypeOK, Issued
<1>. QED BY <1>1, <1>3, <1>4
         DEF Next, vars, Arrives, Serve, Fails, LogoutBegin, LoginSave, RotateDelete,
             RotateCommit, LogoutDelete, RotateFails, LogoutFails, Expire

(* Before any Logout is over, rows disappear by rotation only. *)
LEMMA OnlyCommitsDelete ==
  ASSUME Inv, [Next]_vars, \A q \in Requests : pc'[q] # "logout_done",
         NEW t \in Tokens, row[t] = "stored", row'[t] # "stored"
  PROVE  \E q \in Requests : RotateCommit(q) /\ t = old[q]
<1>. USE TokenAssumption DEF Inv
<1>1. \A q \in Requests : ~ LogoutDelete(q)
  BY DEF LogoutDelete, Goto, TypeOK
<1>2. \A q \in Requests : ~ LoginSave(q)
  BY DEF LoginSave, TypeOK
<1>3. PICK q \in Requests : RotateCommit(q)
  BY <1>1, <1>2 DEF Next, vars, Arrives, Serve, Fails, Login, LogoutBegin, RefreshSelect,
                    RotateDelete, RotateFails, LogoutFails, Expire
<1>4. new[q] \in Tokens /\ old[q] \in Tokens
  BY <1>3 DEF RotateCommit, SessionInv, Holding
<1>5. t = old[q]
  BY <1>3, <1>4 DEF RotateCommit, TypeOK
<1>. QED BY <1>3, <1>5

(* Until some Logout has run, a session whose first token was stored has a *)
(* stored token: a rotation that fails, loses a race or loses its answer   *)
(* never takes the old token without giving the next.                      *)
THEOREM SessionSurvivesHolds == Spec => []SessionSurvives
<1>1. Init => Inv /\ SessionSurvives
  BY InitInv DEF Init, SessionSurvives
<1>2. Inv /\ SessionSurvives /\ [Next]_vars => (Inv /\ SessionSurvives)'
  <2>. SUFFICES ASSUME Inv, SessionSurvives, [Next]_vars,
                       \A q \in Requests : pc'[q] # "logout_done",
                       NEW r \in Requests, pc'[r] = "login_done", row'[new'[r]] # "none"
                PROVE  \E t \in Stored' : session'[t] = r
    BY NextInv DEF SessionSurvives
  <2>. USE TokenAssumption DEF Inv
  <2>1. \A q \in Requests : pc[q] # "logout_done"
    BY RequestsStayDone
  <2>2. CASE LoginSave(r)
    <3>1. /\ new[r] \in Tokens /\ row[new[r]] = "none" /\ session[new[r]] = r
      BY <2>2 DEF LoginSave, SessionInv, Holding
    <3>2. row'[new[r]] = "stored" /\ session' = session
      BY <2>2, <3>1 DEF LoginSave, TypeOK
    <3>. QED BY <3>1, <3>2 DEF Stored
  <2>3. CASE ~ LoginSave(r)
    <3>1. pc[r] = "login_done" /\ new'[r] = new[r] /\ row[new[r]] # "none"
      BY <2>3, LoginsStayDone
    <3>2. PICK t \in Stored : session[t] = r
      BY <2>1, <3>1 DEF SessionSurvives
    <3>3. t \in Tokens /\ row[t] = "stored" /\ t \in Issued
      BY <3>2 DEF Stored, SessionInv
    <3>4. session'[t] = session[t]
      BY <3>3, SessionsStay
    <3>5. CASE row'[t] = "stored"
      BY <3>2, <3>3, <3>4, <3>5 DEF Stored
    <3>6. CASE row'[t] # "stored"
      <4>1. PICK q \in Requests : RotateCommit(q) /\ t = old[q]
        BY <3>3, <3>6, OnlyCommitsDelete
      <4>2. new[q] \in Tokens /\ row'[new[q]] = "stored" /\ session'[new[q]] = session[t]
        BY <4>1 DEF RotateCommit, SessionInv, Holding, TypeOK
      <4>. QED BY <3>2, <4>2 DEF Stored
    <3>. QED BY <3>5, <3>6
  <2>. QED BY <2>2, <2>3
<1>. QED BY <1>1, <1>2, PTL DEF Spec

(***************************************************************************)
(* The table implements Sessions.                                          *)
(***************************************************************************)

(* Every token drawn was drawn for a session. *)
Owned == \A t \in Issued : session[t] \in Requests

LEMMA InitOwned == Init => Owned
  BY TokenAssumption DEF Init, Owned, Issued

LEMMA NextOwned == ASSUME Inv, Owned, [Next]_vars PROVE Owned'
<1>. USE TokenAssumption DEF Inv
<1>1. CASE new' = new
  BY <1>1, SessionsStay DEF Owned, Issued
<1>2. ASSUME NEW r \in Requests, NEW s \in Requests, NEW n \in Tokens \ Issued,
             new' = [new EXCEPT ![r] = n], session' = [session EXCEPT ![n] = s]
      PROVE  Owned'
  BY <1>2 DEF Owned, Issued, TypeOK
<1>3. ASSUME NEW r \in Requests, Login(r) PROVE Owned'
  <2>1. PICK n \in Tokens \ Issued : new' = [new EXCEPT ![r] = n]
    BY <1>3 DEF Login, IssueTokens
  <2>2. session' = [session EXCEPT ![n] = r]
    BY <1>3, <2>1 DEF Login, TypeOK
  <2>. QED BY <1>2, <2>1, <2>2
<1>4. ASSUME NEW r \in Requests, NEW t \in Known, RefreshSelect(r, t), new' # new
      PROVE  Owned'
  <2>1. PICK n \in Tokens \ Issued : new' = [new EXCEPT ![r] = n]
    BY <1>4 DEF RefreshSelect, IssueTokens
  <2>2. session' = [session EXCEPT ![n] = session[t]]
    BY <1>4, <2>1 DEF RefreshSelect, TypeOK
  <2>3. session[t] \in Requests
    BY DEF Owned, Known, Issued
  <2>. QED BY <1>2, <2>1, <2>2, <2>3
<1>. QED BY <1>1, <1>3, <1>4
         DEF Next, vars, Arrives, Serve, Fails, LogoutBegin, LoginSave, RotateDelete,
             RotateCommit, LogoutDelete, RotateFails, LogoutFails, Expire

(* A token whose row exists stays where it is, so a step that leaves the   *)
(* rows alone and ends no logout is not seen from outside.                 *)
LEMMA RowsSilent ==
  ASSUME Inv, [Next]_vars, row' = row,
         \A r \in Requests : pc'[r] = "logout_done" <=> pc[r] = "logout_done"
  PROVE  UNCHANGED Sess!sessionVars
<1>1. \A t \in Tokens : row[t] # "none" => session'[t] = session[t]
  BY SessionsStay DEF Inv, SessionInv
<1>2. ASSUME NEW s \in Requests PROVE Valid(s)' = Valid(s) /\ Ever(s)' = Ever(s)
  BY <1>1 DEF Valid, Ever, Stored
<1>3. [s \in Requests |-> Valid(s)]' = [s \in Requests |-> Valid(s)]
  BY <1>2
<1>4. [s \in Requests |-> Ever(s)]' = [s \in Requests |-> Ever(s)]
  BY <1>2
<1>. QED BY <1>3, <1>4 DEF Sess!sessionVars

(* The insertion of a login's token opens the session, ... *)
LEMMA SaveOpens ==
  ASSUME Inv, NEW r \in Requests, LoginSave(r), row' # row
  PROVE  Sess!Open(r, new[r])
<1>. USE TokenAssumption DEF Inv
<1>1. /\ row' = [row EXCEPT ![new[r]] = "stored"]
      /\ pc[r] = "save" /\ pc' = [pc EXCEPT ![r] = "login_done"] /\ session' = session
  BY DEF LoginSave, Goto
<1>2. /\ new[r] \in Tokens /\ row[new[r]] = "none" /\ session[new[r]] = r
      /\ \A t \in Tokens : session[t] = r => t = new[r]
  BY <1>1 DEF SessionInv, Holding
<1>3. Ever(r) = {} /\ \A s \in Requests : new[r] \notin Ever(s)
  BY <1>2 DEF Ever
<1>4. ASSUME NEW s \in Requests
      PROVE  /\ Valid(s)' = IF s = r THEN {new[r]} ELSE Valid(s)
             /\ Ever(s)' = IF s = r THEN {new[r]} ELSE Ever(s)
  BY <1>1, <1>2 DEF Valid, Ever, Stored, TypeOK
<1>5. { q \in Requests : pc'[q] = "logout_done" } = { q \in Requests : pc[q] = "logout_done" }
  BY <1>1 DEF TypeOK
<1>. QED BY <1>3, <1>4, <1>5 DEF Sess!Open, Sess!Fresh

(* ... the commit of a rotation exchanges the token of one that is open,   *)
(* whatever ran since its SELECT, ...                                      *)
LEMMA CommitExchanges ==
  ASSUME Inv, Owned, NEW r \in Requests, RotateCommit(r)
  PROVE  session[old[r]] \in Requests /\ Sess!Exchange(session[old[r]], new[r])
<1>. USE TokenAssumption DEF Inv
<1>1. /\ row' = [row EXCEPT ![old[r]] = "deleted", ![new[r]] = "stored"]
      /\ pc[r] = "commit" /\ pc' = [pc EXCEPT ![r] = "refresh_done"] /\ session' = session
  BY DEF RotateCommit, Goto
<1>2. /\ new[r] \in Tokens /\ row[new[r]] = "none" /\ old[r] \in Tokens
      /\ row[old[r]] = "stored" /\ session[new[r]] = session[old[r]]
  BY <1>1 DEF SessionInv, Holding
<1>. DEFINE s0 == session[old[r]]
<1>3. s0 \in Requests
  BY <1>2 DEF Owned, SessionInv
<1>4. \A t \in Tokens : row[t] = "stored" /\ session[t] = s0 => t = old[r]
  BY <1>2 DEF SessionInv, OneTokenPerSession, Stored
<1>5. old[r] \in Valid(s0) /\ \A s \in Requests : new[r] \notin Ever(s)
  BY <1>2 DEF Valid, Ever, Stored
<1>6. \A t \in Tokens : row'[t] = IF t = new[r] THEN "stored"
                                  ELSE IF t = old[r] THEN "deleted" ELSE row[t]
  BY <1>1, <1>2 DEF TypeOK
<1>7. ASSUME NEW s \in Requests
      PROVE  /\ Valid(s)' = IF s = s0 THEN {new[r]} ELSE Valid(s)
             /\ Ever(s)' = IF s = s0 THEN Ever(s0) \cup {new[r]} ELSE Ever(s)
  <2>1. session' = session /\ session[new[r]] = s0 /\ session[old[r]] = s0
    BY <1>1, <1>2
  <2>. HIDE DEF s0
  <2>2. Valid(s)' = { t \in Tokens : row'[t] = "stored" /\ session[t] = s }
    BY <2>1 DEF Valid, Stored
  <2>3. Ever(s)' = { t \in Tokens : row'[t] # "none" /\ session[t] = s }
    BY <2>1 DEF Ever
  <2>4. CASE s = s0
    <3>1. Valid(s)' = {new[r]}
      BY <1>2, <1>4, <1>6, <2>1, <2>2, <2>4
    <3>2. Ever(s)' = Ever(s0) \cup {new[r]}
      BY <1>2, <1>6, <2>1, <2>3, <2>4 DEF Ever
    <3>. QED BY <2>4, <3>1, <3>2
  <2>5. CASE s # s0
    <3>1. \A t \in Tokens : session[t] = s => row'[t] = row[t]
      BY <1>6, <2>1, <2>5
    <3>2. Valid(s)' = Valid(s) /\ Ever(s)' = Ever(s)
      BY <2>2, <2>3, <3>1 DEF Valid, Ever, Stored
    <3>. QED BY <2>5, <3>2
  <2>. QED BY <2>4, <2>5
<1>8. { q \in Requests : pc'[q] = "logout_done" } = { q \in Requests : pc[q] = "logout_done" }
  BY <1>1 DEF TypeOK
<1>. QED BY <1>3, <1>5, <1>7, <1>8 DEF Sess!Exchange, Sess!Fresh

(* ... and the DELETE of a logout ends the sessions whose rows it saw. *)
LEMMA DeleteLogsOut ==
  ASSUME Inv, NEW r \in Requests, LogoutDelete(r)
  PROVE  \E ended \in SUBSET Requests : Sess!Logout(r, ended)
<1>. USE TokenAssumption DEF Inv
<1>. DEFINE ended == { s \in Requests : \E t \in seen[r] : row[t] = "stored" /\ session[t] = s }
<1>1. /\ row' = [t \in Tokens |->
                   IF t \in seen[r] /\ row[t] = "stored" THEN "deleted" ELSE row[t]]
      /\ pc[r] = "logout" /\ pc' = [pc EXCEPT ![r] = "logout_done"] /\ session' = session
  BY DEF LogoutDelete, Goto
<1>2. seen[r] \subseteq Tokens
  BY DEF TypeOK
<1>3. ASSUME NEW s \in Requests
      PROVE  /\ Valid(s)' = IF s \in ended THEN {} ELSE Valid(s)
             /\ Ever(s)' = Ever(s)
  <2>1. CASE s \in ended
    <3>1. PICK t \in seen[r] : row[t] = "stored" /\ session[t] = s
      BY <2>1
    <3>2. \A u \in Tokens : row[u] = "stored" /\ session[u] = s => u = t
      BY <1>2, <3>1 DEF SessionInv, OneTokenPerSession, Stored
    <3>. QED BY <1>1, <2>1, <3>1, <3>2 DEF Valid, Ever, Stored
  <2>2. CASE s \notin ended
    BY <1>1, <2>2 DEF Valid, Ever, Stored
  <2>. QED BY <2>1, <2>2
<1>4. { q \in Requests : pc'[q] = "logout_done" }
        = { q \in Requests : pc[q] = "logout_done" } \cup {r}
  BY <1>1 DEF TypeOK
<1>5. r \notin { q \in Requests : pc[q] = "logout_done" }
  BY <1>1
<1>6. PICK gone \in SUBSET Requests : gone = ended
  OBVIOUS
<1>. HIDE DEF ended
<1>7. Sess!Logout(r, gone)
  BY <1>3, <1>4, <1>5, <1>6 DEF Sess!Logout
<1>. QED BY <1>7

(* A logout whose statement failed ends nothing. *)
LEMMA FailedLogout ==
  ASSUME Inv, NEW r \in Requests, LogoutFails(r)
  PROVE  Sess!Logout(r, {})
<1>1. /\ pc[r] = "logout" /\ pc' = [pc EXCEPT ![r] = "logout_done"]
      /\ session' = session /\ row' = row
  BY DEF LogoutFails, Goto
<1>2. \A s \in Requests : Valid(s)' = Valid(s) /\ Ever(s)' = Ever(s)
  BY <1>1 DEF Valid, Ever, Stored
<1>3. { q \in Requests : pc'[q] = "logout_done" }
        = { q \in Requests : pc[q] = "logout_done" } \cup {r}
  BY <1>1 DEF Inv, TypeOK
<1>4. r \notin { q \in Requests : pc[q] = "logout_done" }
  BY <1>1
<1>. QED BY <1>2, <1>3, <1>4 DEF Sess!Logout

LEMMA StepImplements ==
  ASSUME Inv, Owned, [Next]_vars PROVE [Sess!Next]_(Sess!sessionVars)
<1>. USE DEF Inv
<1>1. ASSUME NEW r \in Requests, LoginSave(r) PROVE [Sess!Next]_(Sess!sessionVars)
  <2>1. CASE row' = row
    BY <1>1, <2>1, RowsSilent DEF LoginSave, Goto, TypeOK
  <2>2. CASE row' # row
    <3>1. Sess!Open(r, new[r]) /\ new[r] \in Tokens
      BY <1>1, <2>2, SaveOpens DEF LoginSave, SessionInv, Holding
    <3>. QED BY <3>1 DEF Sess!Next
  <2>. QED BY <2>1, <2>2
<1>2. ASSUME NEW r \in Requests, RotateCommit(r) PROVE Sess!Next
  <2>1. new[r] \in Tokens
    BY <1>2 DEF RotateCommit, SessionInv, Holding
  <2>. QED BY <1>2, <2>1, CommitExchanges DEF Sess!Next
<1>3. ASSUME NEW r \in Requests, LogoutDelete(r) \/ LogoutFails(r) PROVE Sess!Next
  BY <1>3, DeleteLogsOut, FailedLogout DEF Sess!Next
<1>4. ASSUME \A r \in Requests : ~ (LoginSave(r) \/ RotateCommit(r) \/ LogoutDelete(r)
                                      \/ LogoutFails(r))
      PROVE  UNCHANGED Sess!sessionVars
  <2>1. row' = row
    BY <1>4 DEF Next, vars, Arrives, Serve, Fails, Login, LogoutBegin, RefreshSelect,
                RotateDelete, RotateFails, Expire
  <2>2. \A q \in Requests : pc'[q] = "logout_done" <=> pc[q] = "logout_done"
    BY <1>4 DEF Next, vars, Arrives, Serve, Fails, Login, LogoutBegin, RefreshSelect,
                RotateDelete, RotateFails, Expire, Goto, TypeOK
  <2>. QED BY <2>1, <2>2, RowsSilent
<1>. QED BY <1>1, <1>2, <1>3, <1>4

(* Racing logins, refreshes and logouts on the table, each of several      *)
(* statements that wait for one another or fail, are sessions whose tokens *)
(* are exchanged in one step and which only a logout ends, for good.       *)
THEOREM SessionsImplemented == Spec => SessionSpec
<1>1. Init => Sess!Init
  <2>. SUFFICES ASSUME Init PROVE Sess!Init
    OBVIOUS
  <2>1. \A s \in Requests : Valid(s) = {} /\ Ever(s) = {}
    BY DEF Init, Valid, Ever, Stored
  <2>2. { r \in Requests : pc[r] = "logout_done" } = {}
    BY DEF Init
  <2>. QED BY <2>1, <2>2 DEF Sess!Init
<1>2. Inv /\ Owned /\ [Next]_vars => Inv' /\ Owned'
  BY NextInv, NextOwned
<1>3. Inv /\ Owned /\ [Next]_vars => [Sess!Next]_(Sess!sessionVars)
  BY StepImplements
<1>. QED BY InitInv, InitOwned, <1>1, <1>2, <1>3, PTL DEF Spec, SessionSpec, Sess!Spec

(* r waits for the transaction q that has deleted a row r is to delete. *)
Waits(r, q) ==
  \/ pc[r] = "rotate" /\ lock[old[r]] = q
  \/ pc[r] = "logout" /\ \E t \in seen[r] : lock[t] = q

(* No refresh and no logout waits for one that waits itself: who has rows  *)
(* locked is about to commit or to roll back, and holds only the row it    *)
(* was asked to rotate.  RequestsAnswered rests on it.                     *)
THEOREM WaitingEnds ==
  Spec => [](\A r, q \in Requests : Waits(r, q) =>
               /\ pc[q] = "commit" /\ \A p \in Requests : ~ Waits(q, p)
               /\ \A t \in Tokens : lock[t] = q => t = old[q])
<1>1. Inv => \A r, q \in Requests : Waits(r, q) =>
               /\ pc[q] = "commit" /\ \A p \in Requests : ~ Waits(q, p)
               /\ \A t \in Tokens : lock[t] = q => t = old[q]
  <2>. SUFFICES ASSUME Inv, NEW r \in Requests, NEW q \in Requests, Waits(r, q)
                PROVE  /\ pc[q] = "commit" /\ \A p \in Requests : ~ Waits(q, p)
                       /\ \A t \in Tokens : lock[t] = q => t = old[q]
    OBVIOUS
  <2>1. PICK t \in Tokens : lock[t] = q
    BY DEF Waits, Inv, TypeOK, SessionInv
  <2>2. \A u \in Tokens : lock[u] = q => pc[q] = "commit" /\ u = old[q]
    BY TokenAssumption DEF Inv, TypeOK
  <2>. QED BY <2>1, <2>2 DEF Waits
<1>2. Inv /\ [Next]_vars => Inv'
  BY NextInv
<1>. QED BY InitInv, <1>1, <1>2, PTL DEF Spec
=============================================================================
