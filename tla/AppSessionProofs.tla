-------------------------- MODULE AppSessionProofs --------------------------
(***************************************************************************)
(* Theorems about the WebSocket client, and about a run of the app that    *)
(* uses it.  Every step of the app is a step of its WsClient or leaves it  *)
(* alone, so what is proved of the client alone holds in the app; what the *)
(* app adds rests on where the stored token can come from.                 *)
(***************************************************************************)
EXTENDS AppSession, FiniteSetTheorems, TLAPS

(***************************************************************************)
(* The client.                                                             *)
(***************************************************************************)

\* The channels whose end _handleDisconnect has not seen yet.
Unreported == { ch \in Channels : link[ch] \in {"up", "served", "closing"} }

\* A channel that ends gives way to the timer: that is why the channels still
\* to end count, and why the second call for a failed channel finds the timer
\* pending already.
StormInv ==
  /\ Cardinality(Unreported) + timers <= connects
  /\ (\E ch \in Channels : link[ch] = "failed") => timers = 1 \/ disposed
  /\ (\E ch \in Channels : link[ch] # "free") => lastToken # None
  /\ timers > 0 => lastToken # None /\ ~ disposed

Inv == TypeOK /\ StormInv /\ NeverStranded

LEMMA UnreportedFinite ==
  IsFiniteSet(Unreported) /\ Cardinality(Unreported) \in Nat
<1>1. Unreported \in SUBSET Channels
  BY DEF Unreported
<1>2. IsFiniteSet(Unreported)
  BY <1>1, FS_Subset, ClientAssumption
<1>. QED BY <1>2, FS_CardinalityType

LEMMA InitInv == Init => Inv
<1>. SUFFICES ASSUME Init PROVE Inv
  OBVIOUS
<1>. USE ClientAssumption DEF Init
<1>1. Unreported = {}
  BY DEF Unreported
<1>2. Cardinality(Unreported) = 0
  BY <1>1, FS_EmptySet
<1>3. TypeOK
  <2>1. connects \in 0 .. MaxConnects /\ losses \in 0 .. MaxLosses /\ timers \in {0, 1}
    OBVIOUS
  <2>2. link \in [Channels -> Links] /\ token \in [Channels -> Tokens \cup {None}]
    BY DEF Links
  <2>3. disposed \in BOOLEAN /\ expired \subseteq Tokens
    OBVIOUS
  <2>. QED BY <2>1, <2>2, <2>3 DEF TypeOK
<1>4. StormInv
  BY <1>2 DEF StormInv
<1>. QED BY <1>3, <1>4 DEF Inv, NeverStranded

(* Opening a channel spends a call of connect or the pending timer. *)
LEMMA OpenCounts ==
  ASSUME NEW t, NEW rest, Open(t, rest), TypeOK
  PROVE  \E ch \in Channels :
           /\ link[ch] = "free" /\ channel' = ch /\ timers' = rest
           /\ link' = [link EXCEPT ![ch] = "up"]
           /\ token' = [token EXCEPT ![ch] = t]
           /\ Cardinality(Unreported') = Cardinality(Unreported) + 1
<1>1. PICK ch \in Channels :
        /\ link[ch] = "free" /\ channel' = ch /\ timers' = rest
        /\ link' = [link EXCEPT ![ch] = "up"]
        /\ token' = [token EXCEPT ![ch] = t]
  BY DEF Open
<1>2. Unreported' = Unreported \cup {ch} /\ ch \notin Unreported
  BY <1>1 DEF Unreported, TypeOK
<1>3. Cardinality(Unreported') = Cardinality(Unreported) + 1
  BY <1>2, UnreportedFinite, FS_AddElement
<1>. QED BY <1>1, <1>3

LEMMA ConnectInv == ASSUME Inv, NEW t \in Tokens, Connect(t) PROVE Inv'
<1>. USE ClientAssumption, UnreportedFinite DEF Inv
<1>1. /\ ~ disposed /\ connects < MaxConnects /\ connects' = connects + 1
      /\ lastToken' = t /\ UNCHANGED << disposed, expired >>
  BY DEF Connect
<1>2. CASE Open(t, timers) /\ UNCHANGED losses
  <2>1. PICK ch \in Channels :
          /\ link[ch] = "free" /\ channel' = ch /\ timers' = timers
          /\ link' = [link EXCEPT ![ch] = "up"]
          /\ token' = [token EXCEPT ![ch] = t]
          /\ Cardinality(Unreported') = Cardinality(Unreported) + 1
    BY <1>2, OpenCounts
  <2>2. TypeOK'
    BY <1>1, <1>2, <2>1 DEF TypeOK, Links
  <2>3. StormInv'
    BY <1>1, <2>1 DEF StormInv, TypeOK
  <2>4. NeverStranded'
    BY <2>1 DEF NeverStranded, TypeOK
  <2>. QED BY <2>2, <2>3, <2>4
<1>3. CASE OpenThrows(t)
  <2>1. /\ losses < MaxLosses /\ losses' = losses + 1 /\ UNCHANGED << link, token >>
        /\ channel' = None /\ timers' = 1
    BY <1>1, <1>3 DEF OpenThrows, HandleDisconnect
  <2>2. TypeOK'
    BY <1>1, <2>1 DEF TypeOK
  <2>3. Unreported' = Unreported
    BY <2>1 DEF Unreported
  <2>4. StormInv'
    BY <1>1, <2>1, <2>3 DEF StormInv, TypeOK
  <2>5. NeverStranded'
    BY <2>1 DEF NeverStranded
  <2>. QED BY <2>2, <2>4, <2>5
<1>. QED BY <1>2, <1>3 DEF Connect

LEMMA TimerFiresInv == ASSUME Inv, TimerFires PROVE Inv'
<1>. USE ClientAssumption, UnreportedFinite DEF Inv
<1>1. /\ timers = 1 /\ lastToken # None /\ ~ disposed
      /\ \A ch \in Channels : link[ch] # "failed"
      /\ UNCHANGED << lastToken, disposed, expired, connects >>
  BY DEF TimerFires, StormInv, TypeOK
<1>2. CASE Open(lastToken, timers - 1) /\ UNCHANGED losses
  <2>1. PICK ch \in Channels :
          /\ link[ch] = "free" /\ channel' = ch /\ timers' = 0
          /\ link' = [link EXCEPT ![ch] = "up"]
          /\ token' = [token EXCEPT ![ch] = lastToken]
          /\ Cardinality(Unreported') = Cardinality(Unreported) + 1
    BY <1>1, <1>2, OpenCounts
  <2>2. TypeOK'
    BY <1>1, <1>2, <2>1 DEF TypeOK, Links
  <2>3. StormInv'
    BY <1>1, <2>1 DEF StormInv, TypeOK
  <2>4. NeverStranded'
    BY <2>1 DEF NeverStranded, TypeOK
  <2>. QED BY <2>2, <2>3, <2>4
<1>3. CASE OpenThrows(lastToken)
  <2>1. /\ losses < MaxLosses /\ losses' = losses + 1 /\ UNCHANGED << link, token >>
        /\ channel' = None /\ timers' = 1
    BY <1>1, <1>3 DEF OpenThrows, HandleDisconnect
  <2>2. TypeOK'
    BY <1>1, <2>1 DEF TypeOK
  <2>3. Unreported' = Unreported
    BY <2>1 DEF Unreported
  <2>4. StormInv'
    BY <1>1, <2>1, <2>3 DEF StormInv, TypeOK
  <2>5. NeverStranded'
    BY <2>1 DEF NeverStranded
  <2>. QED BY <2>2, <2>4, <2>5
<1>. QED BY <1>2, <1>3 DEF TimerFires

(* The server's answers and the end of a connection leave the client alone *)
(* until the event is delivered.                                           *)
LEMMA LinkChangesInv ==
  ASSUME Inv, NEW ch \in Channels, Accepted(ch) \/ Refused(ch) \/ Closed(ch)
  PROVE  Inv'
<1>. USE ClientAssumption DEF Inv, Accepted, Refused, Closed
<1>1. /\ link[ch] \in {"up", "served"}
      /\ \E l \in {"served", "closing"} : link' = [link EXCEPT ![ch] = l]
      /\ UNCHANGED << channel, timers, lastToken, disposed, token, expired, connects >>
  BY DEF Live
<1>2. TypeOK'
  BY <1>1 DEF TypeOK, Links
<1>3. Unreported' = Unreported
  BY <1>1 DEF Unreported, TypeOK
<1>4. StormInv'
  BY <1>1, <1>3 DEF StormInv, TypeOK
<1>5. NeverStranded'
  BY <1>1 DEF NeverStranded, TypeOK
<1>. QED BY <1>2, <1>4, <1>5

LEMMA OnErrorInv == ASSUME Inv, NEW ch \in Channels, OnError(ch) PROVE Inv'
<1>. USE ClientAssumption, UnreportedFinite DEF Inv
<1>1. /\ link[ch] \in {"up", "served"} /\ link' = [link EXCEPT ![ch] = "failed"]
      /\ losses < MaxLosses /\ losses' = losses + 1 /\ channel' = None
      /\ UNCHANGED << lastToken, disposed, token, expired, connects >>
      /\ timers' = IF ~ disposed THEN 1 ELSE timers
  BY DEF OnError, Live, HandleDisconnect, StormInv
<1>2. TypeOK'
  BY <1>1 DEF TypeOK, Links
<1>3. Unreported' = Unreported \ {ch} /\ ch \in Unreported
  BY <1>1 DEF Unreported, TypeOK
<1>4. Cardinality(Unreported') = Cardinality(Unreported) - 1
  BY <1>3, FS_RemoveElement
<1>5. StormInv'
  BY <1>1, <1>4 DEF StormInv, TypeOK
<1>6. NeverStranded'
  BY <1>1 DEF NeverStranded
<1>. QED BY <1>2, <1>5, <1>6

LEMMA OnDoneInv == ASSUME Inv, NEW ch \in Channels, OnDone(ch) PROVE Inv'
<1>. USE ClientAssumption, UnreportedFinite DEF Inv
<1>1. /\ link[ch] \in {"failed", "closing"} /\ link' = [link EXCEPT ![ch] = "free"]
      /\ token' = [token EXCEPT ![ch] = None] /\ channel' = None
      /\ UNCHANGED << lastToken, disposed, expired, connects, losses >>
      /\ timers' = IF ~ disposed THEN 1 ELSE timers
  BY DEF OnDone, HandleDisconnect, StormInv
<1>2. TypeOK'
  BY <1>1 DEF TypeOK, Links
<1>3. Unreported' = Unreported \ {ch}
  BY <1>1 DEF Unreported, TypeOK
<1>4. Cardinality(Unreported') =
        IF ch \in Unreported THEN Cardinality(Unreported) - 1 ELSE Cardinality(Unreported)
  BY <1>3, FS_RemoveElement
<1>5. Cardinality(Unreported') + timers' <= connects'
  <2>1. CASE link[ch] = "failed"
    BY <1>1, <1>4, <2>1 DEF StormInv, TypeOK, Unreported
  <2>2. CASE link[ch] = "closing"
    BY <1>1, <1>4, <2>2 DEF StormInv, TypeOK, Unreported
  <2>. QED BY <1>1, <2>1, <2>2
<1>6. StormInv'
  BY <1>1, <1>5 DEF StormInv, TypeOK
<1>7. NeverStranded'
  BY <1>1 DEF NeverStranded
<1>. QED BY <1>2, <1>6, <1>7

LEMMA DisposeInv == ASSUME Inv, Dispose PROVE Inv'
<1>. USE ClientAssumption, UnreportedFinite DEF Inv
<1>1. /\ disposed' = TRUE /\ timers' = 0
      /\ link' = [ch \in Channels |->
                    IF ch = channel /\ ch \in Live THEN "closing" ELSE link[ch]]
      /\ UNCHANGED << channel, lastToken, token, expired, connects, losses >>
  BY DEF Dispose
<1>2. TypeOK'
  BY <1>1 DEF TypeOK, Links
<1>3. Unreported' = Unreported
  BY <1>1 DEF Unreported, Live, TypeOK
<1>4. StormInv'
  BY <1>1, <1>3 DEF StormInv, TypeOK, Live
<1>5. NeverStranded'
  BY <1>1 DEF NeverStranded
<1>. QED BY <1>2, <1>4, <1>5

LEMMA NextInv == ASSUME Inv, [Next]_vars PROVE Inv'
<1>1. CASE UNCHANGED vars
  BY <1>1 DEF Inv, TypeOK, StormInv, NeverStranded, Unreported, vars
<1>2. ASSUME NEW t \in Tokens, Expire(t) PROVE Inv'
  BY <1>2 DEF Expire, Inv, TypeOK, StormInv, NeverStranded, Unreported
<1>. QED BY <1>1, <1>2, ConnectInv, TimerFiresInv, LinkChangesInv, OnErrorInv,
            OnDoneInv, DisposeInv DEF Next

(* The fields of WsClient stay well-formed; in particular there is never a *)
(* second reconnect timer.                                                 *)
THEOREM ClientTypeCorrect == Spec => []TypeOK
<1>1. Inv => TypeOK
  BY DEF Inv
<1>2. Inv /\ [Next]_vars => Inv'
  BY NextInv
<1>. QED BY InitInv, <1>1, <1>2, PTL DEF Spec

(* After connect the client is never without a channel and without a timer *)
(* that will open one, whichever of its channels have ended.               *)
THEOREM NeverStrandedHolds == Spec => []NeverStranded
<1>1. Inv => NeverStranded
  BY DEF Inv
<1>2. Inv /\ [Next]_vars => Inv'
  BY NextInv
<1>. QED BY InitInv, <1>1, <1>2, PTL DEF Spec

(* However often channels fail, _handleDisconnect never leaves the client  *)
(* with more connections than screens asked for.                           *)
THEOREM NoConnectionStormHolds == Spec => []NoConnectionStorm
<1>1. Inv => NoConnectionStorm
  <2>. SUFFICES ASSUME Inv PROVE NoConnectionStorm
    OBVIOUS
  <2>1. Live \in SUBSET Unreported
    BY DEF Live, Unreported
  <2>2. IsFiniteSet(Live) /\ Cardinality(Live) <= Cardinality(Unreported)
    BY <2>1, FS_Subset, UnreportedFinite
  <2>3. Cardinality(Live) \in Nat /\ Cardinality(Unreported) \in Nat
    BY <2>2, UnreportedFinite, FS_CardinalityType
  <2>. QED BY <2>2, <2>3 DEF Inv, StormInv, TypeOK, NoConnectionStorm
<1>2. Inv /\ [Next]_vars => Inv'
  BY NextInv
<1>. QED BY InitInv, <1>1, <1>2, PTL DEF Spec

(* After dispose no channel is opened and no timer starts. *)
THEOREM DisposedStaysDownHolds == Spec => DisposedStaysDown
<1>1. Inv /\ [Next]_vars => [disposed => Live' \subseteq Live /\ timers' = 0]_vars
  <2>. SUFFICES ASSUME Inv, Next, disposed PROVE Live' \subseteq Live /\ timers' = 0
    OBVIOUS
  <2>1. timers = 0
    BY DEF Inv, StormInv, TypeOK
  <2>2. ~ TimerFires /\ ~ Dispose /\ \A t \in Tokens : ~ Connect(t)
    BY <2>1 DEF TimerFires, Dispose, Connect
  <2>3. ASSUME NEW t \in Tokens, Expire(t) PROVE Live' \subseteq Live /\ timers' = 0
    BY <2>1, <2>3 DEF Expire, Live
  <2>4. ASSUME NEW ch \in Channels,
               Accepted(ch) \/ Refused(ch) \/ Closed(ch) \/ OnError(ch) \/ OnDone(ch)
        PROVE  Live' \subseteq Live /\ timers' = 0
    <3>. USE DEF Inv, TypeOK
    <3>1. timers' = 0
      BY <2>1, <2>4 DEF Accepted, Refused, Closed, OnError, OnDone, HandleDisconnect
    <3>2. Live' \subseteq Live
      BY <2>4 DEF Accepted, Refused, Closed, OnError, OnDone, Live
    <3>. QED BY <3>1, <3>2
  <2>. QED BY <2>2, <2>3, <2>4 DEF Next
<1>2. Inv /\ [Next]_vars => Inv'
  BY NextInv
<1>. QED BY InitInv, <1>1, <1>2, PTL DEF Spec, DisposedStaysDown

----------------------------------------------------------------------------
(***************************************************************************)
(* The app.                                                                *)
(***************************************************************************)

\* A login that is alone starts without a token and stores the one it was
\* answered; any other token in the storage is the one the client was given
\* last, or was there when the app started, or came from a login that was not
\* alone.
TokenInv ==
  /\ \A t, u \in UnderWay : t # u => t \in crossed
  /\ \A t \in Tokens : step[t] = "asked" => t \notin issued \cup {Old}
  /\ \A t \in Tokens : step[t] \in {"got", "saved"} => t \in issued
  /\ access \in issued \cup {Old, None}
  /\ screen = "auth" =>
       access \in crossed \cup {None} \/ \E t \in Tokens : access = t /\ step[t] = "saved"
  /\ \A t \in Tokens : step[t] \in {"asked", "got"} => access \in crossed \cup {None}
  /\ \A t \in Tokens : step[t] = "saved" => access \in crossed \cup {None, t}
  /\ \/ access \in crossed \cup {None, lastToken}
     \/ access = Old /\ lastToken = None
     \/ \E t \in Tokens : access = t /\ step[t] = "saved"

AppInv == Inv /\ AppTypeOK /\ TokenInv

LEMMA AppInitInv == AppInit => AppInv
<1>. SUFFICES ASSUME AppInit PROVE AppInv
  OBVIOUS
<1>1. Inv
  BY InitInv DEF AppInit
<1>2. UnderWay = {}
  BY DEF UnderWay, AppInit
<1>3. AppTypeOK
  BY <1>1, <1>2, AppAssumption DEF Inv, AppTypeOK, AppInit, Redirected, Init
<1>4. TokenInv
  BY <1>2, AppAssumption, ClientAssumption DEF TokenInv, AppInit, Redirected, Init
<1>. QED BY <1>1, <1>3, <1>4 DEF AppInv

\* No step of the client changes its token, except connect.
LEMMA ClientStepsKeepToken ==
  ASSUME ClientSteps PROVE Next /\ lastToken' = lastToken
<1>1. Next
  BY DEF ClientSteps, Next
<1>2. lastToken' = lastToken
  BY DEF ClientSteps, Expire, TimerFires, Accepted, Refused, Closed, OnError,
         OnDone, Dispose
<1>. QED BY <1>1, <1>2

LEMMA AppStepIsClientStep == ASSUME [AppNext]_appVars PROVE [Next]_vars
<1>1. CASE UNCHANGED appVars
  BY <1>1 DEF appVars
<1>2. ASSUME NEW t \in Tokens, LoginConnects(t) PROVE Next
  BY <1>2 DEF LoginConnects, Next
<1>3. CASE ClientSteps
  BY <1>3, ClientStepsKeepToken
<1>4. ASSUME NEW t \in Tokens,
             SubmitLogin(t) \/ LoginAnswered(t) \/ LoginRefused(t) \/ SaveTokens(t) \/ LoginThrows(t)
      PROVE  UNCHANGED vars
  BY <1>4 DEF SubmitLogin, LoginAnswered, LoginRefused, SaveTokens, LoginThrows
<1>5. CASE Navigate \/ Logout \/ Send \/ \E t \in calls : Answered(t)
  BY <1>5 DEF Navigate, Logout, Send, Answered
<1>. QED BY <1>1, <1>2, <1>3, <1>4, <1>5 DEF AppNext, LoginSteps

\* A step of one login leaves the others as they are.
LEMMA LoginMoves ==
  ASSUME AppTypeOK, NEW t \in Tokens, NEW from,
         NEW to \in {"no", "asked", "got", "saved"}, MoveLogin(t, from, to)
  PROVE  /\ step' \in [Tokens -> {"no", "asked", "got", "saved"}]
         /\ step[t] = from /\ step'[t] = to
         /\ \A u \in Tokens : u # t => step'[u] = step[u]
         /\ UnderWay' = IF to = "no" THEN UnderWay \ {t} ELSE UnderWay \cup {t}
  BY DEF AppTypeOK, MoveLogin, UnderWay

LEMMA LoginInv ==
  ASSUME AppInv, NEW t \in Tokens, Inv',
         \/ SubmitLogin(t) \/ LoginAnswered(t) \/ LoginRefused(t)
         \/ SaveTokens(t) \/ LoginConnects(t) \/ LoginThrows(t)
  PROVE  AppInv'
<1>. USE AppAssumption, ClientAssumption DEF AppInv
<1>1. TypeOK'
  BY DEF Inv
<1>2. CASE SubmitLogin(t)
  <2>1. /\ step[t] = "no" /\ step'[t] = "asked" /\ UnderWay' = UnderWay \cup {t}
        /\ step' \in [Tokens -> {"no", "asked", "got", "saved"}]
        /\ \A u \in Tokens : u # t => step'[u] = step[u]
    BY <1>2, LoginMoves DEF SubmitLogin
  <2>2. /\ t \notin issued \cup {Old} /\ screen = "auth"
        /\ crossed' = IF UnderWay = {} THEN crossed ELSE crossed \cup UnderWay \cup {t}
        /\ UNCHANGED << lastToken, access, screen, left, calls, issued >>
    BY <1>2 DEF SubmitLogin, Unused, vars
  <2>3. crossed \subseteq crossed' /\ crossed' \subseteq Tokens
    BY <2>2 DEF AppTypeOK, UnderWay
  <2>4. left' \subseteq UnderWay' \cap crossed'
    BY <2>1, <2>2, <2>3 DEF AppTypeOK
  <2>5. AppTypeOK'
    BY <1>1, <2>1, <2>2, <2>3, <2>4 DEF AppTypeOK
  <2>6. access \in crossed' \cup {None}
    BY <2>2, <2>3 DEF TokenInv, UnderWay
  <2>7. TokenInv'
    BY <2>1, <2>2, <2>3, <2>6 DEF TokenInv
  <2>. QED BY <1>1, <2>5, <2>7
<1>3. CASE LoginAnswered(t)
  <2>1. /\ step[t] = "asked" /\ step'[t] = "got" /\ UnderWay' = UnderWay \cup {t}
        /\ step' \in [Tokens -> {"no", "asked", "got", "saved"}]
        /\ \A u \in Tokens : u # t => step'[u] = step[u]
    BY <1>3, LoginMoves DEF LoginAnswered
  <2>2. /\ issued' = issued \cup {t} /\ t \in UnderWay
        /\ UNCHANGED << lastToken, access, screen, left, calls, crossed >>
    BY <1>3, <2>1 DEF LoginAnswered, vars, UnderWay
  <2>3. AppTypeOK'
    BY <1>1, <2>1, <2>2 DEF AppTypeOK
  <2>4. TokenInv'
    BY <2>1, <2>2 DEF TokenInv
  <2>. QED BY <1>1, <2>3, <2>4
<1>4. CASE LoginRefused(t)
  <2>1. /\ step[t] = "asked" /\ step'[t] = "no" /\ UnderWay' = UnderWay \ {t}
        /\ step' \in [Tokens -> {"no", "asked", "got", "saved"}]
        /\ \A u \in Tokens : u # t => step'[u] = step[u]
    BY <1>4, LoginMoves DEF LoginRefused
  <2>2. /\ access' \in {access, None} /\ left' = left \ {t} /\ crossed' = crossed \ {t}
        /\ UNCHANGED << lastToken, screen, calls, issued >>
    BY <1>4 DEF LoginRefused, DeleteAll, vars
  <2>3. AppTypeOK'
    BY <1>1, <2>1, <2>2 DEF AppTypeOK
  <2>4. access # t
    BY <2>1 DEF TokenInv
  <2>5. TokenInv'
    BY <2>1, <2>2, <2>4 DEF TokenInv
  <2>. QED BY <1>1, <2>3, <2>5
<1>5. CASE SaveTokens(t)
  <2>1. /\ step[t] = "got" /\ step'[t] = "saved" /\ UnderWay' = UnderWay \cup {t}
        /\ step' \in [Tokens -> {"no", "asked", "got", "saved"}]
        /\ \A u \in Tokens : u # t => step'[u] = step[u]
    BY <1>5, LoginMoves DEF SaveTokens
  <2>2. /\ access' = t /\ t \in UnderWay
        /\ UNCHANGED << lastToken, screen, left, calls, issued, crossed >>
    BY <1>5, <2>1 DEF SaveTokens, vars, UnderWay
  <2>3. AppTypeOK'
    BY <1>1, <2>1, <2>2 DEF AppTypeOK
  <2>4. \A u \in Tokens : u # t /\ step'[u] # "no" => t \in crossed
    BY <2>1, <2>2 DEF TokenInv, UnderWay
  <2>5. TokenInv'
    BY <2>1, <2>2, <2>4 DEF TokenInv
  <2>. QED BY <1>1, <2>3, <2>5
<1>6. CASE LoginConnects(t)
  <2>1. /\ step[t] = "saved" /\ step'[t] = "no" /\ UnderWay' = UnderWay \ {t}
        /\ step' \in [Tokens -> {"no", "asked", "got", "saved"}]
        /\ \A u \in Tokens : u # t => step'[u] = step[u]
    BY <1>6, LoginMoves DEF LoginConnects
  <2>2. /\ lastToken' = t /\ left' = UnderWay \ {t} /\ t \in UnderWay
        /\ screen' \in {"auth", "app"} /\ (screen' = "auth" => access = None)
        /\ UNCHANGED << access, calls, issued, crossed >>
    BY <1>6, <2>1 DEF LoginConnects, Connect, Redirected, UnderWay
  <2>3. t \in issued /\ access \in crossed \cup {None, t}
    BY <2>1 DEF TokenInv
  <2>4. UnderWay' \subseteq crossed
    BY <2>1, <2>2 DEF TokenInv
  <2>5. AppTypeOK'
    BY <1>1, <2>1, <2>2, <2>3, <2>4 DEF AppTypeOK
  <2>6. TokenInv'
    BY <2>1, <2>2, <2>3 DEF TokenInv
  <2>. QED BY <1>1, <2>5, <2>6
<1>7. CASE LoginThrows(t)
  <2>1. /\ step[t] = "saved" /\ step'[t] = "no" /\ UnderWay' = UnderWay \ {t}
        /\ step' \in [Tokens -> {"no", "asked", "got", "saved"}]
        /\ \A u \in Tokens : u # t => step'[u] = step[u]
    BY <1>7, LoginMoves DEF LoginThrows
  <2>2. /\ left' = left \ {t} /\ t \in crossed
        /\ UNCHANGED << lastToken, access, screen, calls, issued, crossed >>
    BY <1>7 DEF LoginThrows, AppTypeOK, vars
  <2>3. AppTypeOK'
    BY <1>1, <2>1, <2>2 DEF AppTypeOK
  <2>4. TokenInv'
    BY <2>1, <2>2 DEF TokenInv
  <2>. QED BY <1>1, <2>3, <2>4
<1>. QED BY <1>2, <1>3, <1>4, <1>5, <1>6, <1>7

LEMMA AppNextInv == ASSUME AppInv, [AppNext]_appVars PROVE AppInv'
<1>. USE AppAssumption, ClientAssumption DEF AppInv
<1>1. Inv' /\ TypeOK'
  BY AppStepIsClientStep, NextInv DEF Inv
<1>2. ASSUME UNCHANGED << lastToken, step, left, issued, crossed >>, screen' \in {"auth", "app"},
             calls' \subseteq Tokens \cup {None},
             access' \in {access, None}, screen' = "auth" => screen = "auth" \/ access' = None
      PROVE  AppInv'
  <2>1. UnderWay' = UnderWay
    BY <1>2 DEF UnderWay
  <2>2. AppTypeOK'
    BY <1>1, <1>2, <2>1 DEF AppTypeOK
  <2>3. TokenInv'
    BY <1>2, <2>1 DEF TokenInv
  <2>. QED BY <1>1, <2>2, <2>3
<1>3. CASE UNCHANGED appVars
  BY <1>2, <1>3 DEF AppTypeOK, appVars, app, vars
<1>4. CASE ClientSteps /\ UNCHANGED app
  BY <1>2, <1>4, ClientStepsKeepToken DEF AppTypeOK, app
<1>5. CASE Navigate
  BY <1>2, <1>5 DEF AppTypeOK, Navigate, Redirected, vars
<1>6. CASE Send
  BY <1>2, <1>6 DEF AppTypeOK, Send, vars
<1>7. ASSUME NEW t \in calls, Answered(t) PROVE AppInv'
  BY <1>2, <1>7 DEF AppTypeOK, Answered, DeleteAll, vars
<1>8. CASE Logout
  <2>1. /\ access' = None /\ screen' = "auth" /\ left' = UnderWay
        /\ crossed' = crossed \cup UnderWay
        /\ UNCHANGED << lastToken, step, calls, issued >>
    BY <1>8 DEF Logout, DeleteAll, vars
  <2>2. UnderWay' = UnderWay
    BY <2>1 DEF UnderWay
  <2>3. AppTypeOK'
    BY <1>1, <2>1, <2>2 DEF AppTypeOK, UnderWay
  <2>4. TokenInv'
    BY <2>1, <2>2 DEF TokenInv
  <2>. QED BY <1>1, <2>3, <2>4
<1>. QED BY <1>1, <1>3, <1>4, <1>5, <1>6, <1>7, <1>8, LoginInv DEF AppNext, LoginSteps

\* The app uses its WsClient as WsClient is specified: it connects only with
\* tokens, only while the client is in use, and does nothing else to it.
THEOREM AppImplementsClient == AppSpec => Spec
<1>1. AppInit => Init
  BY DEF AppInit
<1>2. [AppNext]_appVars => [Next]_vars
  BY AppStepIsClientStep
<1>. QED BY <1>1, <1>2, PTL DEF AppSpec, Spec

\* The fields of the app and of its client stay well-formed; the client only
\* ever has a token that a login was answered.
THEOREM AppTypeCorrect == AppSpec => []AppTypeOK
<1>1. AppInv => AppTypeOK
  BY DEF AppInv
<1>2. AppInv /\ [AppNext]_appVars => AppInv'
  BY AppNextInv
<1>. QED BY AppInitInv, <1>1, <1>2, PTL DEF AppSpec

\* In the app, too, the client is never without a channel and without a timer
\* once a login has connected it, opens no more connections than logins asked
\* for, and stays down after dispose.
THEOREM ClientPropertiesInApp ==
  AppSpec => []NeverStranded /\ []NoConnectionStorm /\ DisposedStaysDown
BY AppImplementsClient, NeverStrandedHolds, NoConnectionStormHolds,
   DisposedStaysDownHolds, PTL

\* Whatever logins, logouts, refused requests and reconnections overlap, the
\* client presents the token of the session that is stored, or was never
\* connected in a session left by an earlier run, or the session is of a login
\* that was not alone.
THEOREM ClientHasTheSessionHolds == AppSpec => []ClientHasTheSession
<1>1. AppInv => ClientHasTheSession
  BY DEF AppInv, TokenInv, UnderWay, ClientHasTheSession
<1>2. AppInv /\ [AppNext]_appVars => AppInv'
  BY AppNextInv
<1>. QED BY AppInitInv, <1>1, <1>2, PTL DEF AppSpec

\* A session whose token is good is lost only by logout, or by a 401 that
\* answers a request of an earlier session, or a login that overlapped with its
\* own.
THEOREM GoodSessionEndsByItselfHolds == AppSpec => GoodSessionEndsByItself
<1>. DEFINE Ends == (access \notin expired \cup {None} /\ access' = None) =>
                       \/ screen = "app" /\ screen' = "auth"
                       \/ \E t \in calls \ {access} : ~ Authorized(t)
                       \/ access \in crossed
                            /\ \E t \in Tokens : step[t] = "asked" /\ step'[t] = "no"
<1>1. AppInv /\ [AppNext]_appVars => [Ends]_appVars
  <2>. SUFFICES ASSUME AppInv, AppNext, access \notin expired \cup {None}, access' = None
                PROVE  Ends
    OBVIOUS
  <2>1. CASE Logout
    BY <2>1 DEF Logout
  <2>2. ASSUME NEW t \in Tokens, LoginRefused(t) PROVE Ends
    <3>1. step[t] = "asked" /\ step'[t] = "no"
      BY <2>2, LoginMoves DEF LoginRefused, AppInv
    <3>2. access \in crossed
      BY <3>1 DEF AppInv, TokenInv
    <3>. QED BY <3>1, <3>2
  <2>3. CASE \E t \in calls : Answered(t)
    BY <2>3 DEF Answered, Authorized
  <2>4. ASSUME NEW t \in Tokens, SaveTokens(t) PROVE FALSE
    BY <2>4, ClientAssumption DEF SaveTokens
  <2>5. ASSUME NEW t \in Tokens,
               SubmitLogin(t) \/ LoginAnswered(t) \/ LoginConnects(t) \/ LoginThrows(t)
        PROVE  FALSE
    BY <2>5 DEF SubmitLogin, LoginAnswered, LoginConnects, LoginThrows
  <2>6. CASE Navigate \/ Send \/ (ClientSteps /\ UNCHANGED app)
    BY <2>6 DEF Navigate, Send, app
  <2>. QED BY <2>1, <2>2, <2>3, <2>4, <2>5, <2>6 DEF AppNext, LoginSteps
<1>2. AppInv /\ [AppNext]_appVars => AppInv'
  BY AppNextInv
<1>. QED BY AppInitInv, <1>1, <1>2, PTL DEF AppSpec, GoodSessionEndsByItself
=============================================================================
