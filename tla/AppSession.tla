----------------------------- MODULE AppSession -----------------------------
(***************************************************************************)
(* One run of the Flutter app: who is signed in.  The stored tokens and    *)
(* the interceptor of ApiClient (lib/core/network/api_client.dart), the    *)
(* redirect of the router, the login of LoginScreen, the logout of         *)
(* ProfileScreen, AuthRequired of the server (internal/middleware/auth.go) *)
(* and the WsClient of WsClient.tla, which the login connects.             *)
(*                                                                         *)
(* Nothing tells the parts of each other: the WsClient never looks at the  *)
(* storage, a 401 deletes the tokens whichever token it was about, and the *)
(* screen is chosen when somebody navigates.                               *)
(***************************************************************************)
EXTENDS WsClient

CONSTANTS
  Old,      \* the token of an earlier run of the app
  MaxCalls  \* bound: different headers of requests on their way

ASSUME AppAssumption == Old \in Tokens /\ MaxCalls \in Nat

VARIABLES
  access,   \* the stored access_token
  screen,   \* "auth" or "app"
  step,     \* how far each _login is, by the token a 200 answers it with
  left,     \* the logins under way whose screen was left
  calls,    \* the tokens in the headers of requests on their way, None if none
  issued,   \* the tokens logins were answered (history)
  crossed   \* logins that were under way beside another, or left (history)

app     == << access, screen, step, left, calls, issued, crossed >>
appVars == << vars, app >>

UnderWay == { t \in Tokens : step[t] # "no" }

AppTypeOK ==
  /\ TypeOK
  /\ access \in Tokens \cup {None}
  /\ screen \in {"auth", "app"}
  /\ step \in [Tokens -> {"no", "asked", "got", "saved"}]
  /\ calls \subseteq Tokens \cup {None}
  /\ issued \subseteq Tokens /\ crossed \subseteq Tokens
  /\ left \subseteq UnderWay \cap crossed
  /\ lastToken \in issued \cup {None}

\* redirect: the target depends on the token alone, whatever was asked for.
Redirected(stored) == IF stored = None THEN "auth" ELSE "app"

\* The app starts with what the last run has left in the storage; the client
\* is not connected even if that is a session.
AppInit ==
  /\ Init
  /\ access \in {None, Old}
  /\ screen = Redirected(access)
  /\ step = [t \in Tokens |-> "no"]
  /\ left = {} /\ calls = {} /\ issued = {} /\ crossed = {}

\* _storage.deleteAll().
DeleteAll == access' = None

\* context.go or push, by the user or at the end of a login.
Navigate ==
  /\ ~ disposed
  /\ screen' = Redirected(access)
  /\ UNCHANGED << vars, access, step, left, calls, issued, crossed >>

\* ProfileScreen: clearTokens and go('/auth/login').  The server is not told,
\* the WsClient is not told, nor is a login that is still under way.
Logout ==
  /\ ~ disposed /\ screen = "app"
  /\ DeleteAll
  /\ screen' = "auth"
  /\ left' = UnderWay /\ crossed' = crossed \cup UnderWay
  /\ UNCHANGED << vars, step, calls, issued >>

(***************************************************************************)
(* LoginScreen._login.  (_register of the register screen goes the same    *)
(* way, but sends no public_key and is always answered 400.)               *)
(***************************************************************************)
MoveLogin(t, from, to) == step[t] = from /\ step' = [step EXCEPT ![t] = to]

\* The tokens the server may still answer a login with (the next is any of them).
Unused == Tokens \ (issued \cup UnderWay \cup {Old})

\* onSubmitted of a field calls _login also while one is under way; only the
\* button looks at _loading.
SubmitLogin(t) ==
  /\ ~ disposed /\ screen = "auth"
  /\ connects + Cardinality(UnderWay) < MaxConnects
  /\ Unused # {} /\ t = CHOOSE u \in Unused : TRUE
  /\ MoveLogin(t, "no", "asked")
  /\ crossed' = IF UnderWay = {} THEN crossed ELSE crossed \cup UnderWay \cup {t}
  /\ UNCHANGED << vars, access, screen, left, calls, issued >>

\* 200 with a new token.
LoginAnswered(t) ==
  /\ ~ disposed
  /\ MoveLogin(t, "asked", "got")
  /\ issued' = issued \cup {t}
  /\ UNCHANGED << vars, access, screen, left, calls, crossed >>

\* No answer, or one the interceptor deletes the tokens for: 401.
LoginRefused(t) ==
  /\ ~ disposed
  /\ MoveLogin(t, "asked", "no")
  /\ DeleteAll \/ UNCHANGED access
  /\ left' = left \ {t} /\ crossed' = crossed \ {t}
  /\ UNCHANGED << vars, screen, calls, issued >>

\* saveTokens.  The refresh token is left out: the app never reads it.
SaveTokens(t) ==
  /\ ~ disposed
  /\ MoveLogin(t, "got", "saved")
  /\ access' = t
  /\ UNCHANGED << vars, screen, left, calls, issued, crossed >>

\* Faulty LoginConnects: with the token that was stored before.
LoginConnectsOld(t) ==
  /\ MoveLogin(t, "saved", "no")
  /\ Connect(Old)
  /\ screen' = Redirected(access)
  /\ left' = UnderWay \ {t}
  /\ UNCHANGED << access, calls, issued, crossed >>

\* ws.connect(access_token), go('/chats'): the screen is left.
LoginConnects(t) ==
  /\ MoveLogin(t, "saved", "no")
  /\ Connect(t)
  /\ screen' = Redirected(access)
  /\ left' = UnderWay \ {t}
  /\ UNCHANGED << access, calls, issued, crossed >>

\* ref.read throws once the screen that was left is unmounted: its tokens are
\* stored, but nobody connects with them.
LoginThrows(t) ==
  /\ ~ disposed /\ t \in left
  /\ MoveLogin(t, "saved", "no")
  /\ left' = left \ {t}
  /\ UNCHANGED << vars, access, screen, calls, issued, crossed >>

(***************************************************************************)
(* Requests of the screens, through the interceptor and AuthRequired.      *)
(***************************************************************************)

\* onRequest: the header is the token stored at this moment.
Send ==
  /\ ~ disposed /\ screen = "app"
  /\ calls' = calls \cup {access} /\ Cardinality(calls') <= MaxCalls
  /\ UNCHANGED << vars, access, screen, step, left, issued, crossed >>

\* AuthRequired lets a request pass whose token is good.
Authorized(t) == t \notin expired \cup {None}

\* Faulty Answered: any error deletes the tokens.
AnsweredAnyError(t) ==
  /\ ~ disposed /\ t \in calls
  /\ calls' \in {calls, calls \ {t}}
  /\ (Authorized(t) /\ UNCHANGED access) \/ DeleteAll
  /\ UNCHANGED << vars, screen, step, left, issued, crossed >>

\* A request is answered (others with the same header may still be on their
\* way); onError deletes the tokens at a 401, also when the token that was
\* refused is no longer the stored one.
Answered(t) ==
  /\ ~ disposed /\ t \in calls
  /\ calls' \in {calls, calls \ {t}}
  /\ IF Authorized(t) THEN UNCHANGED access ELSE DeleteAll
  /\ UNCHANGED << vars, screen, step, left, issued, crossed >>

LoginSteps ==
  \E t \in Tokens :
    \/ SubmitLogin(t) \/ LoginAnswered(t) \/ LoginRefused(t)
    \/ SaveTokens(t) \/ LoginConnects(t) \/ LoginThrows(t)

ClientSteps ==
  \/ \E t \in Tokens : Expire(t)
  \/ TimerFires
  \/ \E ch \in Channels :
       Accepted(ch) \/ Refused(ch) \/ Closed(ch) \/ OnError(ch) \/ OnDone(ch)
  \/ Dispose

AppNext ==
  \/ Navigate \/ Logout \/ LoginSteps
  \/ Send \/ \E t \in calls : Answered(t)
  \/ ClientSteps /\ UNCHANGED app

AppSpec == AppInit /\ [][AppNext]_appVars

AppFairSpec == AppSpec /\ Fairness

----------------------------------------------------------------------------
(***************************************************************************)
(* Properties.                                                             *)
(***************************************************************************)

\* The client presents the token of the session, whichever tokens were deleted
\* and replaced meanwhile; but a session found in the storage at the start
\* of the app has no client connected, and stays without one until a login; and
\* a login that was under way beside another, or whose screen was left, may store
\* its tokens and find nobody to connect with them, or the client of the other.
ClientHasTheSession ==
  (UnderWay = {} /\ access # None) =>
    \/ lastToken = access
    \/ lastToken = None /\ access = Old
    \/ access \in crossed

\* A session whose token is good is lost only by logout, or by the 401 to a
\* request that carries another token, stored before it, or none; or, if its
\* login was not alone, by the refusal of another login.
GoodSessionEndsByItself ==
  [][ (access \notin expired \cup {None} /\ access' = None) =>
        \/ screen = "app" /\ screen' = "auth"
        \/ \E t \in calls \ {access} : ~ Authorized(t)
        \/ access \in crossed /\ \E t \in Tokens : step[t] = "asked" /\ step'[t] = "no"
    ]_appVars
=============================================================================
