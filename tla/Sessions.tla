------------------------------ MODULE Sessions ------------------------------
(***************************************************************************)
(* What the backend promises about logins: a login is a session with one   *)
(* refresh token at a time.  A token is exchanged for a fresh one in a     *)
(* single step, so the session has neither two tokens nor none; only a     *)
(* logout ends sessions, all it ends in a single step, and a session that  *)
(* was ended stays ended.                                                  *)
(***************************************************************************)

CONSTANTS Requests, Tokens

VARIABLES
  valid,   \* session -> the tokens that can be exchanged
  issued,  \* session -> the tokens it ever had
  logouts  \* the logouts that have run

sessionVars == << valid, issued, logouts >>

Init ==
  /\ valid = [s \in Requests |-> {}]
  /\ issued = [s \in Requests |-> {}]
  /\ logouts = {}

Fresh(t) == \A s \in Requests : t \notin issued[s]

Open(s, t) ==
  /\ issued[s] = {}
  /\ Fresh(t)
  /\ valid' = [valid EXCEPT ![s] = {t}]
  /\ issued' = [issued EXCEPT ![s] = {t}]
  /\ UNCHANGED logouts

Exchange(s, t) ==
  /\ valid[s] # {}
  /\ Fresh(t)
  /\ valid' = [valid EXCEPT ![s] = {t}]
  /\ issued' = [issued EXCEPT ![s] = issued[s] \cup {t}]
  /\ UNCHANGED logouts

Logout(r, ended) ==
  /\ r \notin logouts
  /\ logouts' = logouts \cup {r}
  /\ valid' = [s \in Requests |-> IF s \in ended THEN {} ELSE valid[s]]
  /\ UNCHANGED issued

Next ==
  \/ \E s \in Requests, t \in Tokens : Open(s, t) \/ Exchange(s, t)
  \/ \E r \in Requests, ended \in SUBSET Requests : Logout(r, ended)

Spec == Init /\ [][Next]_sessionVars
=============================================================================
