------------------------------ MODULE ChatView ------------------------------
(***************************************************************************)
(* An open chat of the Flutter client (MessagesNotifier of lib/features/   *)
(* chats/screens/chat_screen.dart) composed with the history of the chat   *)
(* on the server (MessageHistory) and the frames handleMessage broadcasts. *)
(*                                                                         *)
(* The notifier asks for the history and listens to the WebSocket at once. *)
(* The answer replaces the list; a frame is appended to it.  The provider  *)
(* keeps the notifier for ever, so the history is asked for only once.     *)
(***************************************************************************)
EXTENDS MessageHistory

CONSTANT DefaultLimit  \* the limit when the request names none, 50 in the code

ASSUME ViewAssumption == DefaultLimit \in Limits \ {0} /\ DefaultLimit <= MaxLimit

VARIABLES
  load,    \* the GET: "off", "asked", "answered", "done" or "failed"
  answer,  \* its answer, on the way
  frames,  \* the frames on their way to the client, oldest first
  view,    \* the list on the screen
  seen,    \* the rows there were when the server ran the SELECT (history)
  early,   \* messages whose frame came before the answer did (history)
  missed   \* messages whose frame never reached the client (history)

screen == << load, answer, frames, view, seen, early, missed >>
vars   == << table, server, pager, screen >>

Entries == [of : Messages, text : { Plain(m) : m \in Messages }
              \cup { Payload(m) : m \in Messages }
              \cup { Encrypt(Payload(m), k) : m \in Messages, k \in Keys }]

Of(s) == { s[k].of : k \in DOMAIN s }

TypeOK ==
  /\ HistoryTypeOK
  /\ load \in {"off", "asked", "answered", "done", "failed"}
  /\ answer \in Seq(Entries)
  /\ frames \in Seq(Entries)
  /\ view \in Seq(Entries)
  /\ seen \subseteq Rows /\ early \subseteq Rows /\ missed \subseteq Rows

Init ==
  /\ HistoryInit
  /\ load = "off"
  /\ answer = << >> /\ frames = << >> /\ view = << >>
  /\ seen = {} /\ early = {} /\ missed = {}

\* handleMessage after the commit: the row goes out opened.  The client may
\* have no connection, or one the hub does not know.
Broadcast(m) ==
  /\ stage[m] = "stored"
  /\ Move(m, "sent")
  /\ \/ /\ load # "off"
        /\ frames' = Append(frames, Entry(m))
        /\ UNCHANGED missed
     \/ /\ load = "off" \/ "offline" \in Faults
        /\ missed' = missed \cup {m}
        /\ UNCHANGED frames
  /\ UNCHANGED << id, at, content, server, pager, load, answer, view, seen, early >>

\* The chat is opened: MessagesNotifier(chatId, ref).
OpenChat ==
  /\ load = "off"
  /\ load' = "asked"
  /\ UNCHANGED << table, server, pager, answer, frames, view, seen, early, missed >>

\* The server runs the SELECT of GetMessages.
Select ==
  /\ load = "asked"
  /\ load' = "answered"
  /\ \E P \in Pages(0, DefaultLimit) : \E s \in Listed(P) : answer' = Answer(s)
  /\ seen' = Rows
  /\ UNCHANGED << table, server, pager, frames, view, early, missed >>

\* _loadMessages: state = list.
LoadLands ==
  /\ load = "answered"
  /\ load' = "done"
  /\ view' = answer
  /\ answer' = << >>
  /\ UNCHANGED << table, server, pager, frames, seen, early, missed >>

\* The GET is refused or lost: catch (_) {}.
LoadFails ==
  /\ load \in {"asked", "answered"}
  /\ "db" \in Faults
  /\ load' = "failed"
  /\ answer' = << >> /\ seen' = {} /\ early' = {}
  /\ UNCHANGED << table, server, pager, frames, view, missed >>

\* Faulty FrameArrives: no frame is taken before the history is there.
FrameWaits ==
  /\ frames # << >>
  /\ frames' = Tail(frames)
  /\ view' = IF load \in {"done", "failed"} THEN Append(view, Head(frames)) ELSE view
  /\ UNCHANGED << table, server, pager, load, answer, seen, early, missed >>

\* _subscribeWs: state = [...state, msg].
FrameArrives ==
  /\ frames # << >>
  /\ frames' = Tail(frames)
  /\ view' = Append(view, Head(frames))
  /\ early' = IF load \in {"asked", "answered"} THEN early \cup {Head(frames).of}
              ELSE early
  /\ UNCHANGED << table, server, pager, load, answer, seen, missed >>

\* The process of the server dies and is started again, perhaps with another
\* MESSAGE_ENC_KEY: open transactions are rolled back, frames are lost.
Restart ==
  /\ "rekey" \in Faults
  /\ key' \in Keys
  /\ outdated' = IF key' = key THEN outdated
                 ELSE outdated \cup { m \in Messages : stage[m] # "draft" }
  /\ stage' = [m \in Messages |->
                 CASE stage[m] \in {"begun", "numbered"} -> "gone"
                   [] stage[m] = "stored" -> "sent"
                   [] OTHER -> stage[m]]
  /\ missed' = missed \cup Of(frames) \cup { m \in Messages : stage[m] = "stored" }
  /\ frames' = << >>
  /\ UNCHANGED << id, at, content, pager, load, answer, view, seen, early >>

Store(m) == HandleMessage(m) \/ NextVal(m) \/ Commit(m)

Next ==
  \/ \E m \in Messages : (Store(m) /\ UNCHANGED screen) \/ Broadcast(m)
  \/ \E n \in Limits : ReadPage(n) /\ UNCHANGED screen
  \/ OpenChat \/ Select \/ LoadLands \/ LoadFails \/ FrameArrives \/ Restart

Spec == Init /\ [][Next]_vars

----------------------------------------------------------------------------
(***************************************************************************)
(* Properties.                                                             *)
(***************************************************************************)

\* What the screen shows is a stored message, never one the server has not
\* echoed, and it shows what the client of its author put into the frame,
\* whichever of the two ways it came: the text, unless the key was replaced after
\* the server sealed it, when it may show as it is stored; the ciphertext of an
\* E2E message, which nobody opens (client.go:160 and handler.go:127 leave that to
\* the client, and no code of the client does it).
ShownAsPosted ==
  \A k \in DOMAIN view :
    LET e == view[k] IN
    /\ e.of \in Rows
    /\ \/ e.text = Payload(e.of)
       \/ e.of \in outdated \ Secret /\ e.text = content[e.of]

\* The page of the SELECT may have had no room for m.
PushedOut(m) == Cardinality({ n \in seen \ {m} : at[m] <= at[n] }) >= DefaultLimit

\* Once the GET has ended, a message whose frame came in is on the screen,
\* unless its frame came before the answer of a SELECT that ran before its
\* INSERT committed, or the page had no room for it.
NothingLost ==
  load \in {"done", "failed"} =>
    \A m \in Messages :
      (stage[m] = "sent" /\ m \notin missed \cup Of(frames) \cup Of(view)) =>
        m \in early /\ (m \notin seen \/ PushedOut(m))

\* A message is on the screen at most twice, and twice only if the SELECT saw
\* its row and its frame came after the answer.
NothingTwice ==
  \A i, j \in DOMAIN view : (i < j /\ view[i].of = view[j].of) =>
    /\ load = "done"
    /\ view[i].of \in seen \ early
    /\ \A k \in DOMAIN view : view[k].of = view[i].of => k \in {i, j}

\* The two ways the list on the screen differs from the history, both of them
\* overlaps of the GET and the WebSocket and neither ever repaired.
ViewIsExactButForTheWindow == NothingLost /\ NothingTwice
=============================================================================
