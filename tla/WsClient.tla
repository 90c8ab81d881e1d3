------------------------------ MODULE WsClient ------------------------------
(***************************************************************************)
(* WsClient of the Flutter client (lib/core/network/ws_client.dart): one   *)
(* object per app, called by the login and register screens.               *)
(*                                                                         *)
(* Dart runs one event at a time, so every call, timer and stream event is *)
(* one step.  The field _channel holds the newest channel only; older ones *)
(* keep their listeners, and each of them ends in _handleDisconnect.       *)
(***************************************************************************)
EXTENDS Naturals, FiniteSets

CONSTANTS
  Channels,     \* the WebSocketChannel values; one that has ended is used again
  Tokens,       \* access tokens
  None,         \* null
  MaxConnects,  \* bound on the calls of connect
  MaxLosses,    \* bound on the connections the network breaks
  Faults        \* what else may go wrong: opening throws, tokens expire

ASSUME ClientAssumption ==
  /\ None \notin Channels \cup Tokens
  /\ MaxConnects \in Nat /\ MaxLosses \in Nat
  /\ IsFiniteSet(Channels)
  /\ Cardinality(Channels) > MaxConnects
  /\ Faults \subseteq {"throw", "expiry"}

VARIABLES
  channel,    \* _channel
  timers,     \* pending reconnect timers
  lastToken,  \* _lastToken
  disposed,   \* _disposed
  link,       \* channel -> what has happened to it
  token,      \* channel -> the token in its auth frame
  expired,    \* tokens the server refuses by now
  connects,   \* calls of connect so far
  losses      \* connections lost so far

vars == << channel, timers, lastToken, disposed, link, token, expired, connects, losses >>

\* "free": not in use; "up": opened, the auth frame sent; "served": the server
\* has accepted the token; "failed", "closing": the done event is still to come.
Links == {"free", "up", "served", "failed", "closing"}

Live == { ch \in Channels : link[ch] \in {"up", "served"} }

TypeOK ==
  /\ channel \in Channels \cup {None}
  /\ timers \in {0, 1}
  /\ lastToken \in Tokens \cup {None}
  /\ disposed \in BOOLEAN
  /\ link \in [Channels -> Links]
  /\ token \in [Channels -> Tokens \cup {None}]
  /\ expired \subseteq Tokens
  /\ connects \in 0 .. MaxConnects
  /\ losses \in 0 .. MaxLosses

Init ==
  /\ channel = None
  /\ timers = 0
  /\ lastToken = None
  /\ disposed = FALSE
  /\ link = [ch \in Channels |-> "free"]
  /\ token = [ch \in Channels |-> None]
  /\ expired = {}
  /\ connects = 0
  /\ losses = 0

\* Faulty _handleDisconnect: a repeated call is skipped.
HandleDisconnectOnce(last) ==
  /\ channel' = None
  /\ timers' = IF ~ disposed /\ last # None /\ channel # None THEN 1 ELSE timers

\* Faulty _handleDisconnect: it does not look at _disposed.
HandleDisconnectAlways(last) ==
  /\ channel' = None
  /\ timers' = IF last # None THEN 1 ELSE timers

\* _handleDisconnect: whichever channel ended, _channel becomes null and the
\* reconnect timer starts anew, if connect has given it a token.
HandleDisconnect(last) ==
  /\ channel' = None
  /\ timers' = IF ~ disposed /\ last # None THEN 1 ELSE timers

\* _doConnect: open a channel, keep it in _channel, send the auth frame, listen.
Open(t, rest) ==
  \E ch \in Channels :
    /\ link[ch] = "free"
    /\ channel' = ch
    /\ link' = [link EXCEPT ![ch] = "up"]
    /\ token' = [token EXCEPT ![ch] = t]
    /\ timers' = rest

\* _doConnect when the channel cannot be opened: the catch clause.
OpenThrows(last) ==
  /\ "throw" \in Faults
  /\ losses < MaxLosses
  /\ losses' = losses + 1
  /\ HandleDisconnect(last)
  /\ UNCHANGED << link, token >>

\* connect, called after a login or a registration with its token.  It
\* neither closes the channel there is nor cancels the timer.  Screens are gone
\* when the provider disposes of the client, with the app.
Connect(t) ==
  /\ ~ disposed
  /\ connects < MaxConnects
  /\ connects' = connects + 1
  /\ lastToken' = t
  /\ \/ Open(t, timers) /\ UNCHANGED losses
     \/ OpenThrows(t)
  /\ UNCHANGED << disposed, expired >>

\* Faulty timer: it is periodic.
TimerFiresAgain ==
  /\ timers > 0
  /\ \A ch \in Channels : link[ch] # "failed"
  /\ Open(lastToken, timers)
  /\ UNCHANGED << lastToken, disposed, expired, connects, losses >>

\* Faulty timer callback: nothing is done about an exception.
TimerFiresUncaught ==
  /\ timers > 0
  /\ \A ch \in Channels : link[ch] # "failed"
  /\ \/ /\ Open(lastToken, timers - 1)
        /\ UNCHANGED losses
     \/ /\ "throw" \in Faults
        /\ losses < MaxLosses
        /\ losses' = losses + 1
        /\ timers' = timers - 1
        /\ UNCHANGED << channel, link, token >>
  /\ UNCHANGED << lastToken, disposed, expired, connects >>

\* The reconnect timer fires.  The done event of a channel that reported an
\* error follows at once, long before the three seconds are over.
TimerFires ==
  /\ timers > 0
  /\ \A ch \in Channels : link[ch] # "failed"
  /\ \/ Open(lastToken, timers - 1) /\ UNCHANGED losses
     \/ OpenThrows(lastToken)
  /\ UNCHANGED << lastToken, disposed, expired, connects >>

\* The server accepts the auth frame.
Accepted(ch) ==
  /\ link[ch] = "up"
  /\ token[ch] \notin expired
  /\ link' = [link EXCEPT ![ch] = "served"]
  /\ UNCHANGED << channel, timers, lastToken, disposed, token, expired, connects, losses >>

\* The server refuses the auth frame and hangs up.
Refused(ch) ==
  /\ link[ch] = "up"
  /\ token[ch] \in expired
  /\ link' = [link EXCEPT ![ch] = "closing"]
  /\ UNCHANGED << channel, timers, lastToken, disposed, token, expired, connects, losses >>

\* The connection is closed by the server or breaks, without an error event.
Closed(ch) ==
  /\ ch \in Live
  /\ losses < MaxLosses
  /\ losses' = losses + 1
  /\ link' = [link EXCEPT ![ch] = "closing"]
  /\ UNCHANGED << channel, timers, lastToken, disposed, token, expired, connects >>

\* onError: the connection cannot be made or breaks.
OnError(ch) ==
  /\ ch \in Live
  /\ losses < MaxLosses
  /\ losses' = losses + 1
  /\ link' = [link EXCEPT ![ch] = "failed"]
  /\ UNCHANGED << lastToken, disposed, token, expired, connects >>
  /\ HandleDisconnect(lastToken)

\* onDone, after an error, too.
OnDone(ch) ==
  /\ link[ch] \in {"failed", "closing"}
  /\ link' = [link EXCEPT ![ch] = "free"]
  /\ token' = [token EXCEPT ![ch] = None]
  /\ UNCHANGED << lastToken, disposed, expired, connects, losses >>
  /\ HandleDisconnect(lastToken)

Dispose ==
  /\ ~ disposed
  /\ disposed' = TRUE
  /\ timers' = 0
  /\ link' = [ch \in Channels |->
                IF ch = channel /\ ch \in Live THEN "closing" ELSE link[ch]]
  /\ UNCHANGED << channel, lastToken, token, expired, connects, losses >>

Expire(t) ==
  /\ "expiry" \in Faults
  /\ expired' = expired \cup {t}
  /\ UNCHANGED << channel, timers, lastToken, disposed, link, token, connects, losses >>

Next ==
  \/ \E t \in Tokens : Connect(t) \/ Expire(t)
  \/ TimerFires
  \/ \E ch \in Channels : Accepted(ch) \/ Refused(ch) \/ Closed(ch) \/ OnError(ch) \/ OnDone(ch)
  \/ Dispose

Spec == Init /\ [][Next]_vars

\* Timers fire, stream events are delivered and the server answers every auth
\* frame (within its ten seconds).  That the network breaks only MaxLosses
\* connections is part of Next.
Fairness ==
  /\ WF_vars(TimerFires)
  /\ \A ch \in Channels : WF_vars(Accepted(ch) \/ Refused(ch)) /\ WF_vars(OnDone(ch))

----------------------------------------------------------------------------
(***************************************************************************)
(* Properties.                                                             *)
(***************************************************************************)

\* Once a screen has called connect, the client holds a channel that has not
\* ended or a timer that will open one, whatever channels ended meanwhile.
NeverStranded ==
  (lastToken # None /\ ~ disposed) =>
    timers > 0 \/ (channel # None /\ link[channel] # "free")

\* Reconnecting never multiplies connections: those alive and the pending
\* timer are together no more than the calls of connect, although an error
\* ends in _handleDisconnect twice and an overwritten channel reconnects, too.
NoConnectionStorm == Cardinality(Live) + timers <= connects

\* After dispose nothing is opened and no timer starts, whichever events of
\* old channels are still delivered.
DisposedStaysDown ==
  [][disposed => Live' \subseteq Live /\ timers' = 0]_vars

\* While the last token is good, a lost connection is replaced by one that
\* the server accepts.
Reconnects ==
  (lastToken # None /\ ~ disposed) ~>
    (disposed \/ lastToken \in expired \/ \E ch \in Channels : link[ch] = "served")
=============================================================================
