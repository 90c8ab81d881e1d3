# A TLA+ verification of messenger-app

The repository is a messenger: a Go backend (`src/backend`) with PostgreSQL and
Redis, and a Flutter client (`src/frontend`). This directory holds TLA+ models
of its concurrent, transactional and asynchronous parts, TLC runs that check
them on small instances, and proofs that TLAPS checks for instances of every
size.

## 1. Inventory

| Part | State | Operations | Talks to |
|---|---|---|---|
| Chat hub (`internal/chat/hub.go`) | `clients`: one `*Client` per user id; `online:<id>` keys in Redis | `Register`, `Unregister`, `SendToUser`, `BroadcastToChat`, `broadcastOnlineStatus`, `IsOnline` (no caller) | connection goroutines, PostgreSQL (members), Redis |
| Connection (`internal/chat/client.go`, `ServeWS`, `security/wsauth.go`) | `Send` channel (256), socket, user id | `ServeWS`, `ValidateWSAuth`, `ReadPump`, `WritePump`, `handleMessage`, `handleTyping` | hub, peer, table `messages` |
| Sessions (`internal/auth/handler.go`, `security/refresh.go`) | table `refresh_tokens` | `Login`, `Refresh`, `Logout`, `RotateRefreshToken`, `SaveRefreshToken`, `InvalidateAllTokens` | PostgreSQL |
| Accounts and keys (`internal/auth/handler.go`) | tables `users`, `user_keys` | `Register`, `UpdatePublicKey`, `GetPublicKey`, `Login`'s look-up, `Me` | PostgreSQL, clients |
| Chat creation (`internal/chat/handler.go`) | tables `chats`, `chat_members` | `CreateChat`, the listing of `GetChats` | PostgreSQL; the hub reads the members |
| Message history (`internal/chat/client.go`, `handler.go`) | table `messages`, the server's key | the INSERT of `handleMessage`, `GetMessages`, the preview of `GetChats` | PostgreSQL, cryptography |
| Cryptography (`security/crypto.go`) | none | `Encrypt`, `Decrypt`; `GenerateX25519KeyPair`, `DeriveSharedSecret`, `E2EEncrypt`, `E2EDecrypt` (no caller) | history |
| Key store of the client (`key_store.dart`, `crypto_service.dart`) | key pair, contacts' keys | `rotateKeys`, `clearKeys`, sealing and opening (no caller) | the storage of the tokens |
| Rate limiter (`security/ratelimit.go`) | bucket per IP | `Allow`, `Middleware`, `cleanup` | every HTTP request |
| WebSocket client (`core/network/ws_client.dart`) | channel, last token, reconnect timer | `connect`, `_doConnect`, `_handleDisconnect`, `sendMessage`, `sendTyping`, `dispose` | `ServeWS` |
| API client and navigation (`api_client.dart`, router, login, profile) | stored tokens, the screen | requests, the 401 interceptor, `saveTokens`, redirects, logout | REST API, WebSocket client |
| Chat screen (`chat_screen.dart`) | the list of messages | history load, WebSocket events | history, WebSocket client |
| Chat list state, middleware, configuration, widgets | single fields, or none that changes | | |

What is hard in this system:

* **Concurrency in the hub.** Every connection has two goroutines, and the
  lock covers the map only: channels, Redis flags, the database and evictions
  are used outside it. `SendToUser` uses a `*Client` it read earlier;
  `Unregister` and eviction delete by user id, not by connection.
* **Races between requests in the database.** Refresh, logout, registration,
  chat creation and message inserts read or number in one statement and write
  or commit in another, at READ COMMITTED.
* **Two ways to the same message.** A client gets a message by the history and
  by the WebSocket, and nothing orders the two.
* **Parts that do not tell each other.** The WebSocket client never looks at the
  stored tokens, a 401 deletes tokens it was not about, nobody is told of a
  replaced key, logout on the client is unknown to the server.
* **Failure.** The process restarts (`restart: unless-stopped`) and loses its
  memory but not Redis; errors of Redis, of `SaveRefreshToken`, of member
  inserts and of `InvalidateAllTokens` are ignored; sockets die silently.
* **Time.** Deadlines, the reconnect timer, token expiry, the token bucket.

What makes each part correct: the hub must deliver a stored message to members
only, once, in sender order, must not block or fail because of a slow peer, and
must leave no flag, goroutine or map entry behind; a session must have exactly
one usable refresh token until logout; an account has a unique name and address
and stands or falls with its key; a chat must have all its members or not
exist; the pages of the history must make up the history; what a screen shows
is what was posted; the limiter must grant no more than its bucket; the client
must come back by itself, once, with the token of the session. Where the code
keeps such a promise only up to some overlap, the property names the overlap
and says that nothing else breaks it. `PROJECT.json` lists under "hazards" where
each of these could go wrong, with the properties that would catch it.

## 2. Modules

| Module | Models | Kind |
|---|---|---|
| `ChatHub` | hub, connection goroutines, `ServeWS`, `ValidateWSAuth` | detailed |
| `MessageFanout` | what the hub promises about messages | abstract; `ChatHub` implements it |
| `RefreshTokens` | `Login`, `Refresh`, `Logout`, `refresh.go` | detailed |
| `Sessions` | what the backend promises about logins | abstract; `RefreshTokens` implements it |
| `ChatCreation` | `CreateChat`, what `GetChats` lists | detailed |
| `RateLimiter` | `ratelimit.go` | detailed |
| `TokenBucket` | what the limiter promises an IP | abstract; `RateLimiter` implements it |
| `Crypto` | `Encrypt` and `Decrypt` of `crypto.go` by what they do to data | operators |
| `MessageHistory` | the table `messages` of a chat: inserts, pages, preview | component, uses `Crypto` |
| `ChatView` | an open chat of the client | composes the client with `MessageHistory` |
| `Accounts` | the tables `users` and `user_keys` | component |
| `Registry` | what the backend promises of accounts | abstract; `Accounts` in `KeyDirectory` implements it |
| `KeyDirectory` | clients that register and replace their keys | composes them with `Accounts` |
| `WsClient` | `ws_client.dart` | detailed |
| `AppSession` | stored tokens, interceptor, login, logout, navigation | composes them with `WsClient` |
| `ChatHubProofs`, `ChatFanoutProofs` | theorems about `ChatHub` | proofs |
| `RefreshTokensProofs`, `ChatCreationProofs`, `RateLimiterProofs`, `ChatViewProofs`, `KeyDirectoryProofs`, `AppSessionProofs` | theorems about the module in the name and those it is composed of | proofs |
| `MCChatHub`, `MCRefreshTokens`, `MCChatCreation`, `MCRateLimiter`, `MCChatView`, `MCKeyDirectory`, `MCAppSession` | constants for TLC | instances |

Operators named "Faulty ..." are plausible bugs next to the operation they
replace. Each property of a passing run is violated when one of them takes the
place of the real operation (`PROJECT.json`, "mutants"), so every property can
tell the code from a wrong variant of it.

### ChatHub

`pc[c]` is the program counter of the goroutine that serves connection `c`:
the HTTP handler until `Register` returns, `ReadPump` afterwards. `writer[c]`
is `WritePump`. One step is one access to shared state:

| Code | Actions |
|---|---|
| `ServeWS`, `ValidateWSAuth` | `Upgrade`, `Authenticated`, `AuthRefused`, `AuthWrongType` |
| `Hub.Register` | `RegisterStore`, `RegisterFlag`, then a broadcast |
| `Hub.SendToUser` | `Lookup` (read lock), `Offer` (the `select`), `Evict` (delete), `CloseSend` |
| the broadcasts | `Broadcast` puts the recipients into `job`, `Lookup` takes one, `BroadcastDone` returns to the caller |
| `handleMessage`, `handleTyping` | `HandleMessage`, `HandleTyping` |
| `ReadPump` ends | `ReadFails`, `ReadGivesUp`, then `UnregisterRemove`, `UnregisterFlag`, a broadcast, close |
| `WritePump` | `WriteFrame`, `WriterExits` |
| environment | `Disconnect`, `ProcessDies` |

A send on a closed channel and a second close panic. In `ServeWS` gin recovers
and the connection stays without pumps (`"leaked"`); in `ReadPump` the deferred
`Unregister` runs and the process then dies; inside that `Unregister` it dies at
once (`Panic`, `Crash`). A crash loses memory and keeps the database, Redis and
what was written. `Faults` selects what the environment may do in a run:
restarts, failing queries (which drop any subset of the recipients), failing
Redis calls, a first frame of the wrong type. Message contents, encryption and
JSON are data and left out here; an "online" or "typing" frame is `Notice`, since
nothing tells one from another but the slot it takes. The unlocked `len(h.clients)`
in the log line of `Register` is a data race whose result is only logged.

`MessageFanout` says the same without goroutines: a message is posted by a
member, and may be delivered to connections of members, at most once each, after
the earlier messages of the same source. It promises no delivery: an evicted or
unhooked connection misses messages and reads them from the history.

### RefreshTokens

A request is a goroutine; a step is one statement or commit. `lock[t]` is the
transaction that has deleted the row of `t` and not ended; a second `DELETE` of
the row waits for it and then looks again, as PostgreSQL does. `seen[r]` is the
snapshot of Logout's `DELETE`. The history variable `session` maps a token to
the login it descends from. `Faults` adds refused statements, a commit whose
answer is lost, and expiry. A token whose `SaveRefreshToken` failed is answered
all the same and can be presented like any other. One user suffices: every
statement is restricted to rows of one user and Refresh reads the user id from
the row it deletes. `Register` issues and saves a token exactly as `Login` does.

`Sessions` has a session, its valid tokens and all it ever had: a token is
exchanged for a fresh one in one step, only a logout ends sessions, and one that
was ended stays ended. Under the mapping (`SessionSpec`) the insert of a login
opens the session, the commit of a rotation is the exchange, Logout's `DELETE`
the end of the sessions whose rows it saw, and all the rest is invisible. Expiry
is not part of the promise: an expired row is deleted like any other.

### ChatCreation

`Lookup` is the query for an existing direct chat, `Commit` and `CommitFails`
the transaction: it is invisible until it commits, and one failed insert (an id
that is no user's, or one given twice) aborts it. The id of a chat is the request
that created it. `GetChats` is the list of a user when his chats come in a given
order (by the last message, so any order is possible). A chat with oneself has a
NULL name, which does not scan; pgx closes the rows when a `Scan` fails, so the
`continue` after it ends the loop and every chat behind that one is missing, too.

### RateLimiter

`Find` and `Take` are the two critical sections of `Allow`, `Cleanup` one round
of `cleanup` (at any time, which includes every fifth minute), `Tick` the clock.
`LimiterAssumption` says that a bucket is full again before it may be dropped
(10 minutes times rps is at least the burst for all limiters in `main.go`).

`TokenBucket` is one bucket that is never thrown away. Under the mapping
(`BucketSpec`) its level is what the entry would be refilled to, or a full bucket
when there is no entry; `Cleanup` and `Find` are invisible, `Take` is the grant or
the refusal. It promises more than `SpanBound`: a request is refused only if the
bucket holds no token for it.

### Crypto, MessageHistory, ChatView

`Crypto` takes SHA-256 and AES-GCM as ideal: a ciphertext opens under the key that
sealed it and under no other. Only what is called is modelled: `Encrypt` and
`Decrypt`, with which the server seals what it stores. What the client puts into a
frame is `Payload`: the text, or for an E2E message a ciphertext the server cannot
open.

A row of `messages` comes into being in three steps that those of other senders come
between: `HandleMessage` (the frame is read, the content sealed unless it is E2E, the
statement begins: `created_at`), `NextVal` (its id), `Commit` (it is seen, or a hole
in the ids). `created_at` is `NOW()` in microseconds and nowhere unique, so `Now` lets
a statement begin in the microsecond of the one before it. `Pages` is `GetMessages`
from the membership check on: rows older than the cursor **by id**, the newest **by
created_at**, at most `MaxLimit`, any choice and any order among rows of one
microsecond; the answer is turned round and what opens with the key is opened
(`Shown`). `ReadPage` is a reader who pages back to the beginning. `Preview` is one of
the last messages (`LastMessages`) as `GetChats` shows it; an empty chat counts as one
whose last message is E2E.

`ChatView` is `MessagesNotifier` on top of it: `OpenChat` asks for the history and
listens at once, `Select` runs the query, `LoadLands` replaces the list by the
answer, `LoadFails` is the empty `catch`, `FrameArrives` appends. `Broadcast` is
what `handleMessage` does after its INSERT, reduced to the one client that looks:
its frame is on the way, in order, or lost (no channel, no map entry, evicted:
`ChatHub` has the ways). `Restart` ends the server process, perhaps with another
`MESSAGE_ENC_KEY`. The provider keeps the notifier for ever, so the history is
asked for once.

### Accounts, KeyDirectory

`Accounts` follows the transaction of `Register` through the two unique indexes of
`users` (username first, in the order db.go creates them), waiting at either for an
open transaction with the same value (`Blocked`), the INSERT into `user_keys`, the
commit and the answer. Every error of the first INSERT is answered 409
(`InsertUserFails`); a password bcrypt refuses or a transaction that does not begin is
answered 500 (`BeginFails`). `UpdatePublicKey` is the upsert that counts
`key_version`.

`Registry` decides a registration in one step: created with its key while nobody
has its name or address, refused while somebody has, or failed by the database.
Under the mapping (`RegistrySpec`) that step is the end of the transaction; the
claims, the waiting and the INSERTs before it are invisible.

`KeyDirectory` adds the clients: `SendKey` makes a new key and sends it off, `PutKey`
and `PutFails` are what becomes of its PUT (several may be on their way; nothing
orders them). No client of the repository sends these PUTs: `UpdatePublicKey` and
`GetPublicKey` are modelled for whoever does. The form of the app sends no
`public_key`, which `SubmitForm` includes (`NoKey`): it is answered 400.

### WsClient, AppSession

Dart runs one event at a time, so a call, a timer or a stream event is one
step. `channel` is the field `_channel`; `link` follows every channel the object
ever opened, because an overwritten channel keeps its listeners and its end
reaches `_handleDisconnect`, too. `Open` and `OpenThrows` are `_doConnect` with
and without an exception, used by `Connect` and `TimerFires`. A stream that
reports an error reports its end at once, within the three seconds of the timer
(guard of `TimerFires`). The server is two actions here, `Accepted` and `Refused`,
which `ChatHub` models in detail. What follows from the overwritten field, and no
property denies: when an older channel ends, `_channel` becomes null although
the newer channel delivers, messages sent until the timer fires are dropped, and
the newer channel is never closed by `dispose`.

`AppSession` is one run of the app: the token an earlier run left (`Old`), logins in
their awaits (`SubmitLogin`, `LoginAnswered` or `LoginRefused`, `SaveTokens`,
`LoginConnects` or `LoginThrows`), requests with the header of the moment they were
sent (`Send`, `Answered`, with `AuthRequired` of the server as `Authorized`),
`Logout`, and `Navigate`, the only thing that runs the redirect. Every step of it is a
step of `WsClient` or leaves it alone (proved, `AppImplementsClient`), so `WsClient`
has no run of its own. Logins may overlap: the button is off while one is under way,
but `onSubmitted` of the two fields is not. `step` follows each of them by the token a
200 answers it with, `left` are those whose screen is gone (then `ref.read` throws and
nobody connects, `LoginThrows`), and the history `crossed` those that were not alone.
A pushed register screen leaves the login screen mounted, so `Navigate` does not
change `left`. The refresh token is stored and never read: the client calls neither
`/auth/refresh` nor `/auth/logout`.

## 3. Runs

| Run | Instance | Shows |
|---|---|---|
| `ChatHubFaults` | 2 users, 2 connections, buffer 1, 1 message, typing, all faults | `TypeOK`; `NoStaleFlag`: no online flag without a connection that will clear it, unless the process died, a `Del` failed or a connection of the user leaked in a panic of `Register`'s broadcast; `MapNeverClosed`: whoever looks a user up after an eviction finds no closed channel |
| `ChatHubOrder` | 2 users, 2 connections, a shared and a private chat, buffer 2, 2 messages | `SenderOrder`, `OnlyMembersReceive`, and `FanoutSpec`: `ChatHub` implements `MessageFanout` |
| `ChatHubLive` | 2 users, 2 connections, buffer 1, 1 message, fairness | `BroadcastEnds`, `BufferDrains`, `CleanUp` |
| `RefreshRace` | 4 requests, 3 tokens, all faults, fairness | `TypeOK`, `OneTokenPerSession`, `LogoutDeletesAllSeen`, `OnlyStoredTokensRefresh` (a token that was answered but never stored gets nothing), `RequestsAnswered`, and `SessionSpec`: the table implements `Sessions` |
| `ChatCreationFaults` | 3 users, 3 requests, 9 member lists, failing statements | `TypeOK`, `AllMembersOrNoChat`, `AnswerIsUsable`, `DuplicatesOnlyFromOverlap` |
| `RateLimiterSpan` | 5 requests, 2 tokens of 2 units, 8 ticks | `SpanBound`, and `BucketSpec`: the limiter implements `TokenBucket` |
| `ChatViewHistory` | 3 messages, one of them E2E, 2 keys, pages of 1 and 2, all faults | `TypeOK`; `PagingIsExactButForDisorder`: pages miss or repeat a message only at a cut between two inserts that overtook each other or began in the same microsecond; `PreviewIsLastMessage`: the chat list previews the message the last page ends with, or one of the same microsecond; `ShownAsPosted`: the screen shows stored messages only, as the client of the author put them into the frame (ciphertext for E2E), unless the key was replaced after they were sealed; `ViewIsExactButForTheWindow`: a message is lost from the screen, or on it twice, only by the named overlaps of the GET and the WebSocket |
| `AccountsKeys` | 3 registrations over 2 names and 2 addresses, 2 clients with 3 keys each, faults, fairness | `TypeOK`, `UniqueUsers`, `AtomicRegistration`, `RequestsAnswered`; `RegistrySpec`: the handlers implement `Registry`; `DirectoryFollowsDevice`: the directory lags only while a PUT is on its way, failed or was overtaken |
| `AppSession` | 2 logins that may overlap, 3 channels, 3 tokens (one of an earlier run), 2 lost connections, 2 headers, faults, fairness | `AppTypeOK`, `NeverStranded`, `NoConnectionStorm`, `DisposedStaysDown`, `Reconnects`; `ClientHasTheSession`: the token the client presents is the stored one, except after a start with a stored session or a login that was not alone; `GoodSessionEndsByItself`: a good token is deleted only by logout, by the 401 of another token or of none, or by the refusal of a login beside its own |

Bounds. An eviction needs a full buffer and one more frame, so capacity 1 (2
where the order inside a buffer matters) shows what 256 does; the capacity is a
parameter of the proofs. A stale unregistration needs an old and a new
connection of a user, the races of senders two connections of different users:
two connections show each, and the properties are proved for any number. A second
message is needed for order. Two refreshes and a login, or a login, a rotation and
a logout, are the shortest races of sessions; four requests leave room for one
more. Eight ticks let a drained bucket become stale (more than 4 ticks), be
dropped and be drained again. Two messages overtake each other and a third makes
the page of one (`DefaultLimit`) too small; `MaxLimit` 2 lies between the limits 1
and 5 that are asked for, so the cap matters. `MCOneReader` follows either the
reader who pages or the screen, never both: neither looks at what the other has,
and each property speaks of one of them. Three registrations over two values a
column wait for each other in every order, one of them behind two; three keys
(`MaxKeys`) are two PUTs of a user on their way at once, so one overtakes the other.
A second login while the
first channel is open is the shortest way to two channels, and two logins overlap
in every order; two lost connections (an open that throws is one) and three
channels let both be lost and both reconnect (`MaxConnects`, `MaxLosses`); `MaxCalls` 2 puts an old and a new header on their way at once.
`MaxMessages`, `MaxTime` and the finite sets of connections, requests, messages
and tokens are the only other bounds; `Typists` narrows who sends typing frames and
`Faults` what fails, so that the larger instances stay within reach. Deadlock
checking is off in all runs: every connection may end, every request may be
served, the app may be closed.

Fairness. `FairSpec` of `ChatHub` assumes weak fairness of each connection's
goroutines and of the authentication deadline: the Go scheduler runs what can
run, mutexes are held for a map access only, database and Redis calls return, and
reads and writes of a socket have deadlines. `FairSpec` of `RefreshTokens` and
`Fairness` of `KeyDirectory` assume that a statement returns once the row or index
entry it waits for is free; that a statement fails is never assumed.
`AppFairSpec` takes `Fairness` of `WsClient`: timers fire, the end of a stream is
delivered and the server answers an auth frame (it waits ten seconds for it); the
network breaks `MaxLosses` connections at most, since a network that breaks every
connection admits no other end. Nothing else is assumed of users, peers, of the
network or of faults.

### Disagreements between the code and what it says

Each has a run of its own in which TLC finds the counterexample.

| Run | The code | What is said |
|---|---|---|
| `ChatHubEvict` | two senders that hold the same `*Client`: one evicts it, the other panics on the closed channel | hub.go:63 "Client buffer full — disconnect" |
| `ChatHubStale` | `Unregister` of an old connection unhooks the user's new one | hub.go:46 "user %d disconnected" |
| `RefreshSingleUse` | a second Refresh whose `DELETE` finds no row is answered 200, with a token that was never stored | refresh.go:23 "can be used once only" |

Stated by a property that names the exception:

* the row of a rotation that commits while Logout waits survives it, although
  refresh.go:69 says "logout everywhere": `LogoutDeletesAllSeen` says what is deleted;
* overlapping requests of a pair create two direct chats, where handler.go:253 asks
  whether one exists: `DuplicatesOnlyFromOverlap`;
* pages are cut by `id` and ordered by `created_at`, which is not unique:
  `PagingIsExactButForDisorder`, and `PreviewIsLastMessage` for the preview;
* a connection whose `Register` panics leaves its flag and its map entry behind, since
  its pumps never start and nobody calls `Unregister` for it: `NoStaleFlag` (`Leaked`);
* an E2E message is shown as ciphertext (chat_screen.dart:206), where handler.go:127
  and client.go:160 say that the client decrypts it: `ShownAsPosted`;
* a chat with oneself hides every older chat of its user from his list:
  `AnswerIsUsable` (`SelfChat`);
* the history replaces the frames that came before it, and a frame that comes after
  it is shown a second time: `ViewIsExactButForTheWindow`;
* a 401 to an old request deletes the tokens of a new login: `GoodSessionEndsByItself`;
* a start with a stored session connects no WebSocket: `ClientHasTheSession`;
* of two overlapping logins one may store its tokens last and the other connect
  last, or one is refused and deletes the tokens of the other:
  `ClientHasTheSession` and `GoodSessionEndsByItself` (`crossed`);
* PUTs of keys are taken in the order they arrive: `DirectoryFollowsDevice`;
* any error of the INSERT into `users` is reported as a conflict: `RegistrySpec`
  (`Refuse`; a failed database is told from a conflict by `failed` only).

Seen while modelling and outside the properties:

* `ValidateWSAuth` returns `0, err` with a nil `err` after a first frame of another
  type (`AuthWrongType`; the hub then serves user 0, who is member of no chat);
* the look-up of `CreateChat` also finds a chat with further members, and for a
  user that names itself any of its direct chats (`Existing`);
* a full bucket and a minute's refill pass the limiter within one minute, where
  README.md:70 and SECURITY.md:48 say five attempts;
* the timer of `WsClient` waits three seconds each time, where ws_client.dart:72
  speaks of 3, 6 and 12, and it presents the token of the last `connect` for ever;
* after a logout the former user's WebSocket stays open and feeds the streams;
* the registration form sends no `public_key` and is always answered 400;
* an empty chat shows the preview of an E2E message;
* `crypto.go` hashes the shared secret before it is used as a key, `CryptoService`
  (crypto_service.dart:98) does not: what one seals the other does not open.

## 4. Proofs

All theorems hold for every value of the constants that satisfies the modules'
named assumptions; TLC evaluates the assumptions in the runs. What the
assumptions say beyond types: a bucket is full again before it may be dropped
(`LimiterAssumption`), an error of decryption is told from what a message says (`ErrorAssumption`), and a
key from the absence of one (`DirectoryAssumption`).

* `TypeCorrect` (`ChatHubProofs`): `Spec => []TypeOK`. `TypeOK` is inductive as it
  stands. `Crash`, `Panic` and `Broadcast`, which several actions share, have
  lemmas; `NextTypeOK` has one step per action.
* `MapNeverClosedHolds`. Not inductive: `CloseSend` closes a channel several steps
  after the look-up. `HookInv` adds that a connection about to be closed is not in
  the map, and that what is in the map, closed or somebody's target has left the
  states before `Register`; as only `RegisterStore` hooks a connection, and only
  one in such a state, an evicted connection never comes back. This is why deleting
  before closing is safe for whoever looks up later, and that the failure of
  `ChatHubEvict` needs a look-up before the eviction.
* `NoStaleFlagHolds`, inductive given `TypeOK`. `FlagKept` follows a connection that
  holds the flag through every step, panics included: it keeps it until its own
  `UnregisterFlag`, or leaks in `Register`, which the property names; `FlagsSet` says that nothing but `RegisterFlag` sets a flag.
* `OnlyMembersReceiveHolds`, `SenderOrderHolds` and the refinement
  `FanoutImplemented` (`ChatFanoutProofs`): `Spec => FanoutSpec`. `FanInv` follows a
  message from its row to the sockets. The message a goroutine broadcasts is the
  last one it inserted, and its recipients are members (`JobInv`); a message that
  is in a buffer or on a socket of some user will not be offered to that user again
  by its sender (`Passed`, `StreamInv`), which needs `HookInv`: an entry of the map
  leads to a connection of that user. So what `Offer` appends is newer than anything
  of the same sender on that connection (`OrderInv`), and `WriteFrame` keeps the
  order. Steps that send nothing are dealt with at once (`QuietFanInv`).
* `TokensTypeCorrect`, `OneTokenPerSessionHolds` (`RefreshTokensProofs`).
  `SessionInv` follows a token from the moment it is drawn: its row does not exist
  and no other request has drawn it; while a rotation is between `DELETE` and
  commit, the row it replaces is stored and locked by it, and both tokens belong
  to one session. `OnlyStoredTokensRefreshHolds`, `LogoutDeletesAllSeenHolds` and
  `SessionSurvivesHolds` add what never comes back: a row only ages (`RowsOnlyAge`), a
  finished request stays finished, and only a commit deletes (`OnlyCommitsDelete`).
* `SessionsImplemented`: `Spec => SessionSpec`. A token whose row exists stays in its
  session (`SessionsStay`), so steps that leave the rows alone are stutters
  (`RowsSilent`); `SaveOpens`, `CommitExchanges` and `DeleteLogsOut` are the others. The
  exchange finds its session open, whatever ran since the SELECT, because the row
  of the old token is stored and locked; it leaves exactly one valid token, because
  there was one. `SessionSurvives` and `OneTokenPerSession` follow from it.
* `WaitingEnds` (`RefreshTokensProofs` and `KeyDirectoryProofs`) is the safety half of
  `RequestsAnswered`: who waits for a deleted row waits for a transaction that waits
  for nobody, and chains of registrations that wait for index entries have at most
  two links, since all take the indexes in one order.
* `CreationTypeCorrect`, `AllMembersOrNoChatHolds`, `AnswerIsUsableHolds`,
  `DuplicatesOnlyFromOverlapHolds` (`ChatCreationProofs`). The invariant adds that
  a request with a chat has been answered and never changes again, and that no
  chat the look-up of a direct chat has seen is one of its pair (`LookupInv`);
  chats never change once committed, so this stays true until the insert.
* `LimiterTypeCorrect`, `SpanBoundHolds` (`RateLimiterProofs`). `Credit` bounds what
  the entry still has together with what it has given away since any moment by a
  full bucket and the refill since; when `cleanup` drops the entry the credit is
  gone, because the bucket would be full (`LimiterAssumption`), so the next one may
  start full. Requests caught between the two locks are the exception the property
  names. `BucketImplemented`: `Spec => BucketSpec`, with one lemma per step
  (`FindIsSilent`, `CleanupIsSilent`, `TickIsDrip`, `TakeIsJudgement`): the entry
  dropped would be full, so full is what the bucket without an entry is.
* `ViewTypeCorrect`, `PagingIsExactHolds`, `PagingIsExactInOrder`,
  `PreviewIsLastMessageHolds`, `ShownAsPostedHolds`, `ViewIsExactHolds`
  (`ChatViewProofs`). The invariant `IInv` has the ids drawn so far without gaps, each
  given once (`TableInv`: `Serial`), and that a committed row stays as it is. A page
  by `created_at` of the rows below an id leaves out or repeats a row only if another
  row has a smaller id and a time no earlier (`LeftOutIsPushedOut`), which is the
  disorder the property names (`PagerInv` says of a reader half-way what the property
  says at the end); where no two rows are disordered paging is exact
  (`PagingIsExactInOrder`). `EntryIsFaithful` opens a row with the key it was sealed
  with, so answers, frames and the screen stay faithful but for the messages that were
  sealed before the key was replaced (`TextInv`, `EntriesMove`). `LostInv` and
  `TwiceInv` name, for every committed row the screen lacks or has twice, the overlap
  that did it, before the answer has landed as well as after (`LostNext`,
  `FrameTwice`, `TwiceNext`).
* `DirectoryTypeCorrect`, `UniqueUsersHolds`, `ConflictIsRealHolds`,
  `AtomicRegistrationHolds`, `DirectoryFollowsDeviceHolds` (`KeyDirectoryProofs`).
  `AccountInv` says that open transactions and committed rows together have every
  value once, and which entries a request has where (`RequestInv`); `OwnerInv` that, as
  long as no PUT failed or was overtaken, the keys newer than the one in the directory
  are exactly those on their way (`Follows`).
* `RegistryImplemented` (`KeyDirectoryProofs`): `Spec => RegistrySpec`. Whoever holds both
  index entries has no conflict at its commit (`HolderHasNoConflict`, from the
  uniqueness of claims and rows together), and what is taken when a request gives up
  is a row (`TakenIsConflict`): the check is made at the claim and still true at the end.
* `ClientTypeCorrect`, `NeverStrandedHolds`, `NoConnectionStormHolds`,
  `DisposedStaysDownHolds` (`AppSessionProofs`, first half). `StormInv` counts the channels
  whose end has not been reported, closing ones included, since each will arm the
  timer; a failed channel has armed it already, which is why its second report
  must cancel before it arms.
* `AppImplementsClient` (`AppSessionProofs`): `AppSpec => Spec`, so the app inherits
  the theorems above (`ClientPropertiesInApp`). `AppTypeCorrect`,
  `ClientHasTheSessionHolds` and `GoodSessionEndsByItselfHolds` rest on `TokenInv`:
  a login that is alone begins without a token and stores the one it was answered, and
  any other token in the storage is the one the client was given last, was there when
  the app started, or came from a login that was not alone.

Only model-checked: the liveness properties (`BroadcastEnds`, `BufferDrains`,
`CleanUp`, the two `RequestsAnswered`, `Reconnects`), since fairness and `ENABLED` are
outside the prover's reach. Every invariant, action property and refinement of the
passing runs is proved.

## 5. Not modelled

* Chat list: `_searchUsers` of the list screen, whose answers may land out of order,
  and the presence and typing flags of the chat screen, one of which an earlier
  timer clears too soon. They are single fields of widgets that nothing else
  reads.
* `SearchUsers`, `Me` and `IsOnline` only read, and the last has no caller;
  `NoTokenInURL` has none either. Headers, CORS, environment variables, the route
  table and data types keep no state. What does matter of the wiring is an
  assumption or an action: the limiters' parameters, `AuthRequired`, the server's key.
* E2E on the device. `KeyStore` and `CryptoService` are called by no screen, and the
  X25519 half of `crypto.go` has no caller: nothing seals or opens an E2E message, so
  there is no behaviour to model. Whoever wires them up should know that the storage
  of the private key shares `deleteAll()` with the tokens: a logout or a 401 takes it,
  as `clearKeys` does, and no letter sealed for it opens again.
* MinIO is configured and unused; widgets and theme only render.

## 6. What could come next

1. An abstract history of a chat that `ChatView` implements up to the named overlaps,
   with the refinement proved from `LostInv` and `TwiceInv`.
2. The safety halves of the other liveness properties as theorems: a goroutine in a
   broadcast always has a step (`BroadcastEnds`), and a connection that is over has
   somebody left to clean it up (`CleanUp`).
3. `ChatHub` with `AppSession` in the place of its peers, so that a reconnecting
   client meets its own stale unregistration.
