# Max Bridge: TLA+ models and proofs

Max Bridge shows a user's MAX account inside a Telegram Mini App. Two Node processes do the
work on the server: the **API** (`apps/api`: HTTP and WebSocket routes, the users database, the
Telegram bot) and the **worker** (`apps/worker`: a pool of Chromium browsers in which the MAX
web client runs, one browser context per user). They talk over a Unix socket with
length-prefixed JSON frames. The third party is the Mini App in the browser (`apps/web`).

Nothing here is about the layout of MAX's pages or the wording of messages. The models are about
what the three parties believe of each other while calls overlap, processes restart, browsers
crash, answers come late, and users log in and out.

## 1. Inventory

| Component | State it keeps | Operations | Hard because |
|---|---|---|---|
| Browser pool (`worker/src/pool`) | slots (browser, load, flags), registry handle -> context, recovery queue | openSession, closeSession, restartSlot, crash recovery, health restart, close | every operation awaits Playwright in its middle; browsers die at any time |
| Worker request handler (`worker/src/runtime`) | sessions and one promise queue per handle | session.open, session.close, login.*, every chat and message operation, close | a session outlives the browser it ran in |
| MAX page session (`worker/src/max`) | the chat shown, the one pending send, the adapter, the open history | some twenty operations, each a sequence of awaits on the page | a step finds what the one before, or an older operation, left behind |
| MAX wire client (`worker/src/max/max-wire-client.ts`) | pending calls, a band of sequence numbers | request, transmit, ingest, reset | late answers, lost sockets, numbers that go round |
| Live events (`max-adapter/src/adapters`, `max-session.ts`) | seen identities, sequence, messages of the open chat | adapt, ingestLive, replaceOpenHistory | repeated, batched and unreadable frames; a history older than the news |
| Send controller (`max-adapter/src/send`) | results by request id | sendText, sendMedia, retryText | ambiguous results, overlapping calls, a bounded memory |
| API session gateway (`api/src/runtime`) | `opened`, `opening`, listeners, background timers | every user-facing operation, through ensureSession | beliefs about another process; callers share an opening |
| Users repository (`api/src/db`) | a row per user: state, encrypted session, preferences | transitions, save, load and clear of the MAX session | asynchronous encryption around synchronous SQL |
| Worker link (`api/src/worker`, `worker/src/server.ts`, `protocol`) | socket, attempt, reconnect timer, pending requests, frame decoder; chunks on the server side | connect, request, response, disconnect, close | reconnection races with requests, timers and late close events |
| API routes (`api/src/routes`), media store (`worker/src/media`) | directories and files of attachments; media files, their timers | some thirty routes; putStream, expire, close | files shared by two processes, timeouts, shutdown |
| Login (`web/src/features/login`, `api/src/routes/max-login.ts`, `login-rate-limiter.ts`, `max-adapter/src/login`) | forms and tabs; failures and lock; MAX's login page | phone, code, QR, captcha, status, logout | calls of one user overlap; locks end; pages change by themselves |
| Captcha (`CaptchaLogin.tsx`, `sendCaptchaPointer`) | queue of pointer calls; MAX's mouse | press, move, release | a call fails or the captcha goes in the middle of a stroke |
| Accounts (`api/src/bot`, `auth`, `db/approval-repository.ts`, `AuthGate.tsx`) | users, approvals, browser sessions, the gate | /start, approve and reject, authenticate, me, sign out | old letters, double presses, sessions of a process that restarts |
| Notifications (`api/src/notifications`) | cursor, recent ids, muted chats, preferences | start, handle, accept, mute | order and restarts of two processes |
| Mini App live connection (`web/src/api/socket.ts`) | socket, timer, attempts, lifecycle version, resume promise | start, pause, resume, stop, reconnect, reauthenticate | pauses and resumes overlap authentications |
| Mini App messenger and store (`web/src/features/messenger`) | chats, messages by chat, selection, thread, forward picker, upload | select, send, edit, delete, react, forward, subscribe, live events | answers come late, to a screen that has changed |
| Gestures, media viewer | recognisers that follow one pointer; object URLs, Telegram's full screen | press, swipe, pinch, drag, open, close | several recognisers per finger; what is acquired after the viewer has closed |
| Resilience helpers, parsers, views, crypto, entry points, ops | - | - | see "Not modelled" |

How they interact. A route of the API calls the gateway; the gateway makes sure that the worker
has a session of the user (`ensureSession`), which loads and decrypts the stored state and sends
`session.open` over the link; the worker's handler creates a context in the pool from it. The
handler runs the operations of a session one after the other; each operates MAX's page and its
socket. Logins run in the worker's page and end with the storage state being read back and
stored by the API. Frames that MAX pushes become numbered events, are broadcast to every API
connection, fanned out by the gateway to the WebSockets of that user, merged into the Mini
App's store, and turned into messages of the bot by the notification service.

What makes the components correct:

* pool: a slot never holds more contexts than its capacity, its load is exact, no session stays
  registered on a dead browser, no context and no browser is left behind, a dead browser is
  replaced;
* sessions: one opening at a time, every call is answered, state and stored session agree, a
  logout is final, a stored session comes back;
* page: a message is typed in the chat it was asked for and confirmed by its own answer (unless
  that of an older one is outstanding), one send does not touch another's slot, a call gets the
  answer to its own frame, every request ends;
* live events: what the API was told last is what MAX has, and so is the open chat;
* link: one connection, no frame crosses connections, requests always settle, the API reconnects;
* live connection: one live socket, exactly one thing that drives it, no lost or overtaking
  resume, and it connects;
* Mini App: what the screen shows belongs together, news is never lost behind an older history,
  an answer, a change of pane and a click exclude each other, what a viewer takes it gives back;
* API: no file without an owner, nobody is let in without approval, guesses are bounded, one
  notification per message.

## 2. Plan

Done in this order, the behaviour the others rest on first:

1. `SessionAllocator` (abstract), `BrowserPool` (detailed, implements it), `BrowserPoolProofs`,
   `BrowserPoolRecoveryProofs` (recovery, and the refinement);
2. `MaxSessions`: gateway, users table and request handler composed; `MaxSessionsProofs`;
3. `WorkerLink`: client and server of the Unix socket composed;
4. `AuthenticatedSocket`;
5. `PageSession` (request queue, page and wire client composed), `PageSessionProofs`,
   `LiveEvents`, `SendController`, run together with 3 and 4 by `MCBridge`; `BridgeProofs` has the
   theorems of 3, 4, LiveEvents and SendController, and those of MCBridge as a whole;
6. `Messenger`, `Gestures`, `MediaViewer`, `Login`, `Captcha`, `Requests`, `Accounts`,
   `Notifications`, run by `MCMiniApp`;
7. `AccountsProofs` (Accounts and Login), `RequestsProofs`, `MiniAppProofs` (Messenger, Gestures,
   MediaViewer, Captcha, Notifications, and MCMiniApp as a whole).

Every invariant and action property that a passing run checks is a theorem now. Next, more code: the
fan-out of BridgeRuntimeGateway to WebSockets with its 250 ms background timer.

## 3. Modules and how they correspond to the code

`PROJECT.json` ("map") gives the source lines of every definition. An action is a stretch of
code between two awaits, with every synchronous call it makes. Definitions commented
"(mutant: ...)" or "A defect: ..." are plausible bugs that the properties are tested against; no
specification uses them. Variables commented "(history)" exist only for properties.

**SessionAllocator** - what the pool promises: a handle occupies at most one slot, a slot at most
`Capacity` handles, and a loss takes away whole slots only.

**BrowserPool** - `browser`, `load`, `suppress` are the fields of BrowserSlot; `registry` is
SessionRegistry; `call[h]` is the openSession or closeSession of a handle that awaits Playwright;
`queue` is the chain of promises behind recoveryQueue; `restart[r]` is a restartSlot in progress,
of the crash recovery or of a HealthMonitor; `alive` and `live` are the browser processes and
contexts that really exist. Contexts carry the launch number of their browser, so a stale object
is told from a current one. `Monitored` is the set of slots that a HealthMonitor restarts: the
worker's entry point starts none, so `{}` is the program as deployed, and the properties about
load are stated for the unmonitored slots. (With a HealthMonitor they fail: a context whose
newContext was pending when restartSlot began survives in the registry, and its later close
decrements the load of the next browser.)

**MaxSessions** - `opened`, `opening`, `waiters` and `captured` are the gateway's maps and the
promise shared by callers of ensureSession; `task` are HTTP requests being served; `stored` and
`ustate` are columns of the users row; `queue`, `answers` and `session` are the worker's side. The
operations of a session other than open and close are one kind each of: use (any chat or message
operation), phone, code, status. `Effects` says what they do to the page.

**WorkerLink** - `current`, `attempt`, `reconnectTimer`, `clientStopped`, `partial`, `retrying` are
WorkerClient's socket, connecting promise, timer, stopped flag, decoder and the callers in
connect(); `client` and `served` are the two ends of each connection; `chunks` are the handleChunk
calls in progress in the server. A request is executed by whichever chunk reaches it first. A
response that cannot be framed ends its chunk and destroys the socket (`ResponseFails`).

**AuthenticatedSocket** - one variable per field; `net` are the WebSocket objects; `resuming` and
`reauth` are operations awaiting authenticate(), current or made stale by lifecycleVersion.

**PageSession** - an operation of MaxWebPageSession is the sequence of its steps (`Script`, with
one operator per method): a stretch between two awaits, a call to MAX, a step of the page's
interface. `todo` is what the running operation has left, `rescue` what its catch block does,
`queue` the promise chain of the handle. `calls` and `sequence` are MaxWireClient's; `slot` is
pendingSend, `page` what the page shows, `atMax` and `typed` what MAX still owes. Every request is
also made with each of its fields unreadable, because what handleNow parses before the first
await decides what has happened when it throws.

**LiveEvents** - `seen`, `number` are LiveEventAdapter's; `held`, `selected` are MaxSession's;
`stream` the frames of one socket, in order; `truth` the messages as MAX has them. A message has
edits and reactions, because its identity for the adapter is made of both. Up to `MaxBatch` new or
changed messages come in one frame; deletions come alone. `missed` (history) are the messages
whose present state the adapter has passed over: as NewsComplete excepts them, it says which.

**SendController** - the map of operations and the calls whose transport has not answered. The
transport confirms, says when it failed (before or after the write), or throws something else,
after which the call fails at once and nobody knows what was written (`Unclassified`). `since`
(history) counts the results from the first of an id on, so that WrittenOnce can say which results
the map may have forgotten; `excused` (history) holds the ids of which the code lets a second
message through: their calls overlapped, their result was older than the newest `MaxOperations`,
or an unclassified error had written. Nothing else excuses a second message: a controller that
forgets sooner, or remembers nothing, violates WrittenOnce. The worker does not construct this
class (the page session sends by itself): it is modelled as the library it is, with the calls its
interface allows.

**Messenger** - `view` is the store and ConnectedMessenger's state in one record, `work` the
operations that await the API, each with what it captured when it began (the chat, the request
number, the epoch). `Rendered` is what an effect does after each change. `news` are live events on
their way, lost while `linked` is false. A message is a value with a chat: order and text are left
out, so "shows" means "contains".

**Gestures**, **MediaViewer** - one contact at a time and its distance from where it went down, in
units of 4 pixels and in pixels, on both sides of each threshold. `press`, `reply`, `swipe`, `drag`,
`dismiss` are the refs of the recognisers; `acted` is what the contact has done. In the viewer
`urls`, `lease`, `pending` are what must be given back.

**Login** - `page` is what MAX shows, `screen` MaxLogin and its form per device, `calls1` HTTP calls
under way, each with the tick in which it was made, `failures` and `lockedUntil` the limiter's
record. The source keeps the times of the failures in an array; two failures of one tick are told
apart by a number (`n`). An operation of the worker is one step, because its queue runs them one
after the other. **Captcha** - `queue` is CaptchaLogin's
promise chain, `line` what the worker has received, `mouseDown` MAX's mouse.

**Requests** - a route is a record: which refusals it can give, the operation it asks for, what it
makes of the answer. `served` is a request in the API, `inLine` the worker's queue, the other
variables are files and directories. The worker is stopped (SIGTERM: `ShutDown`, `Exit`) or killed
(`WorkerKilled`), the API is killed (`ApiKilled`; its orderly stop waits for the requests it serves
and so for their `finally`). `left` (history) is what was in hand then and that
nobody will remove: FilesHeld says that nothing else stays. **Accounts** - `account` and `approval` are the two rows,
`letters` the bot's messages being sent, `signedIn` MemorySessionStore, `gate` AuthGate.
**Notifications** - `nextNumber` is the sequence of the session that is open, `cursor` and
`recentIds` the deduplicator, `mutedChats` the service's map, `preferences` the user's row.

The `MC...` modules are the instances that TLC runs, with the bounds of their `.cfg`. `MCBridge`
and `MCMiniApp` each hold several components that share no variable; a behaviour moves one of
them, chosen at first (`Parts`), which shows exactly what runs of their own would show.

## 4. Runs

| Run | Instance | Shows |
|---|---|---|
| `browser_pool` | 2 handles, 2 slots of capacity 1, slot 1 monitored, 2 faults | capacity, load accounting, zombies, leaks, orphans, refinement of SessionAllocator, recovery |
| `browser_pool_unhealthy` | 1 fault, no monitor | **violated** HealthySlotChosen: openSession picks the slot under relaunch although another has room |
| `max_sessions` | 1 user, 2 tasks, every kind of fault, 1 fault | one opening, active users are stored, every call ends |
| `max_sessions_sequential` | 2 users, 1 task, 2 faults | logouts are final, stored means active, sessions return |
| `max_sessions_logout` | 1 user, 2 tasks, restart of the API | **violated** LogoutFinal: a logout is undone by an opening in flight, or blind after a restart |
| `max_sessions_restore` | 1 user, 1 task | **violated** RestoredFromStorage: a lost session that the API or the worker still believes in is never restored |
| `max_sessions_qr` | 1 user, no fault | **violated** LoginStored: a login by QR code is never stored |
| `bridge` | 2 chats, every operation alone and in the pairs that leave something behind, each field unreadable, a band of 5 numbers, 1 lost socket; 2 messages of a chat, frames of up to 3, 3 changes, 1 repetition, 1 unreadable; 3 request ids, 4 sends, memory of 2; 2 requests, 3 sockets, 3 faults; 3 WebSockets, 6 failures | pending sends, confirmations, chats typed in, answers, settling; complete news; one message per id but for the excused; the link's connection; the live connection |
| `max_page_failure` | the page alone | **violated** WorkerSurvives: a rejection nobody handles ends the worker |
| `live_reactions` | live events alone, nothing forgotten | **violated** ReactionsAnnounced: reactions that return to an earlier state are dropped |
| `mini_app` | 2 chats, 2 messages, 2 acts; 2 contacts, 7 x 2 distances, 2 folders; 2 items, 2 openings, 2 touches; 1 device, 2 parallel calls, limit 2, 4 attempts; 3 presses, 1 failed call; 2 requests, 1 stop or kill; 1 newcomer, 2 starts, 2 presses, 1 bot fault, 2 sign-ins; 2 messages, memory of 1, 2 revisions, 1 reopening, 2 API starts, 1 refusal | the screen belongs together, news arrives, gestures act once, the viewer releases, guesses are bounded, strokes end, files have owners, approval, one notification |
| `notifications_silent` | notifications alone | **violated** Announced: a new session counts from 0 and its messages are dropped |

The violated properties quote the repository's own documents and tests; `PROJECT.json`
("findings") has the lines. They are stated as what the documents promise, and their
counterexamples are short runs of the code as it is.

Why the bounds are enough. Two handles compete for the last place of a slot, and with two slots a
crash of one meets work in the other; a third handle or slot repeats these roles. Two tasks are
what a race of one user takes; two users are there to check that nothing of one touches the other
(they share only the worker and its restart), sequentially, because two users with two tasks each
exceed what TLC can explore. Two requests make order matter; three sockets are the one in use, the
one being replaced and the one being tried, and a number returns only when both ends have
forgotten it. Two or three faults let a second fault hit the recovery from the first one; six
failures reach the fifth reconnection attempt, from which on the page is told "disconnected".
A band of five numbers goes round within one operation of several calls. A memory of one (notified messages) is full after the first entry; one of two results and three ids
tell a memory that forgets the oldest at its limit from one that forgets sooner. Two acts of the user with one act of others are
what an answer that comes late takes: the one asked for, the one that changed the screen, and the
news between them. The distances of a contact are on both sides of every threshold and in every
direction. A frame of three items is the shortest that tells the same state of a message twice
(new, with a reaction, without it), and the three changes fit in it. The clock of Accounts is as
long as a session and one tick more, that of Login as long as a lock, which is one tick longer
than what the limiter looks back.
Faults are bounded because an environment that fails for ever makes every liveness property false.

### Fairness

Weak fairness stands for: the event loops run, promises settle (Playwright, Node streams and
fetch answer or reject), timers fire, systemd starts the worker again (`Restart=` in its unit), a
page that is being closed closes. In `bridge` the steps of an event loop together are one weakly
fair action: as long as one of them can be taken, one is. The specifications of WorkerLink and
AuthenticatedSocket alone (`LinkSpec`, `Spec`) state it action by action. Nobody is obliged to
open, log in, log out, send, pause, resume, fail or time out. The one strong assumption is in
MaxSessions, that the user keeps using the Mini App, which SessionReturns needs because only a
call opens a session. `CallsSettle` and `RequestsSettle` hold without the timeout of a request,
which is a fault in those models, not a help; in PageSession the timeouts of calls and sends are
timers of the code and must fire, because MAX need not answer. What is unhurried in reality stays
so: `[]<>` says that each request of the bounded scenarios ends, whatever MAX does. `mini_app` has
safety properties only: a person and three networks owe nothing.

### Assumptions about the environment

* The worker stops its server and handler before it closes the pool (its entry point), so no
  session is opened during `close`; the operations of one handle are in sequence (the handler's
  queue).
* Playwright rejects the calls to a dead browser before the relaunch of that slot completes;
  `context.close` is rejected only when its browser is dead.
* A launch that fails in the crash recovery is a rejection nobody handles: Node ends, systemd
  starts the worker anew.
* Node reports the close of a destroyed socket before a connection started later is up.
* A SQL statement and the code around it up to the next await are one step. Decryption and
  encryption are synchronous after `sodium.ready`, which takes microtasks only: where MaxSessions
  lets other calls come between, it allows more than happens.
* A tick of Login's limiter is long beside a call: a call is over before the second tick after it
  was made (the API gives up a request after 30 s, `worker-client.ts`:128; the window is 15 min).
* The QR login is confirmed on another device at any time while the code is shown.
* MAX sends the frames of a socket in order; what it pushes during a reconnection it sends again.

## 5. Proofs

TLC checks the instances above; tlapm proves the following for every value of the constants.

`BrowserPoolProofs` and `BrowserPoolRecoveryProofs` (assumptions: finitely many handles, at least
one slot, capacity at least 1, the value NoPlacement is no pair; `Monitored` is any set of slots):

* *PoolTypeCorrect*, *AlwaysLoadExact*, *AlwaysCapacityRespected*, *AlwaysNoContextLeak*,
  *AlwaysNoZombieSession*, *AlwaysNoOrphanBrowser*: all the invariants of `browser_pool`.
* The argument. LoadExact compares a counter with a set of contexts, and every late answer of
  Playwright threatens it: a close that returns after its browser died, a context created while
  a restart begins. `SlotInv` (*PoolInvariant*) says why none does in a slot without a
  HealthMonitor. A browser of the slot that runs is the one the slot uses (`RunningInv`);
  recoveries are queued once and only for a browser that is gone (`QueueInv`); from the start of
  a recovery until its relaunch nothing is registered in the slot, and after resetLoad nothing is
  counted (`RestartInv`); a call or a registration in a usable slot is about a context of its
  browser (`CallInv`, `RegisteredInv`), and every context is somebody's (`KnownInv`). With
  DeadCallsSettled a relaunched browser starts with no calls and a load of 0.
  CapacityRespected follows from LoadExact, `LoadBound` (openSession only takes a slot with room)
  and the injection of contexts into handles.
* `RecoveryInv` adds that while the worker runs an unmonitored slot is usable, queued or under
  recovery, and that `suppressDisconnect` is set only while its own browser is being stopped, so
  that no crash is missed; NoZombieSession follows. `LostInv` (a restart that is past its
  contexts holds none) makes NoContextLeak inductive.
* LoadExact and the others really need "unmonitored": a HealthMonitor begins restarts of browsers
  that live, beside the crash recovery. The code has one, but the worker does not start it.

* *PoolImplementsAllocator*: every behaviour of the pool is one of SessionAllocator. A handle is
  placed where it holds, or waits for, a context in the running browser of an unmonitored slot
  (`Holds`); that it does so in one slot (`OnePlace`) makes the refinement mapping `Placed` a
  function without choice, and its capacity is CapacityRespected. Then each action is, under the
  mapping, an Acquire (openSession takes a slot), a Release (a context is closed, or its opening
  fails), a Lose (a browser dies) or a stutter.

`MaxSessionsProofs` (any users and tasks, every kind of fault, any number of them):

* *SessionsInvariant*, *AlwaysSessionsTypeOK*, *AlwaysOneOpening*, *AlwaysActiveImpliesStored*.
* The argument. OneOpening counts: callers waiting for, requesting and answered by the worker are
  spread over five variables of two processes. `CallsInv` says who is addressed by what: every
  request under way has the address of the one who awaits it, once, either in the queue of its
  user or among his answers, and a task that waits for an opening is in the line of its user
  once. Each action moves one address from one place to another (lemmas Sent, Replied, Taken,
  Executed, AnswerTaken). ActiveImpliesStored needs the table alone (`TableInv`), because every
  transition of the row is a statement of its own.
* *AloneStoredImpliesActive* and *AloneLogoutFinal* assume that the clients wait for each answer
  (`Alone`: one task), the second also that no call is given up by a timeout or a restart of the
  API (`NothingGivenUp`). They are the instances of `max_sessions_sequential`, for any users and
  faults. Neither hypothesis can be dropped: with two overlapping calls, or an opening that goes
  on after its caller is gone, the properties are false, which is what `max_sessions_logout`
  shows. Crashes of browsers, contexts and the worker may come at any time. `BoundInv` says in
  which state of the user a code can be under way; `FinalInv` that a session of the worker is
  known to the API or about to be (`KnownInv`), which is what makes a logout close it, that a
  logout whose request is answered has found it (`ClosedInv`), and that what is in the queue is
  what its caller asked for (`MeantInv`).

`PageSessionProofs` (any chats, any scenario of requests one after the other, any number of lost
sockets; assumptions: requests are well formed, the band has at least 3 numbers, since one step
makes up to 3 calls, and None is neither a chat nor a number):

* *PageInvariant*, *AlwaysSendSlotOwned*, *AlwaysConfirmedOwn*, *AlwaysTypedInOwnChat*.
* The argument. An operation is a sequence of steps of which some are replaced while it runs, so
  what a send relies on is a fact about the rest of that sequence (`Ordered`, `Shown`): the steps
  of a send follow each other, the operation does not leave the page, and its chat has been shown
  or will be shown before. Every script begins that way (`Whole`, one lemma per method) and every
  step keeps it (`RunInv`). `SlotInv` says that outside those steps nothing is pending, and that
  the confirmations on their way are of this send unless an earlier one timed out (`late`). In that
  case ConfirmedOwn promises nothing, and rightly: the older answer may confirm it (section 6).
* *WireInvariant*, *AlwaysAnswersOwn*: numbers of the band return, so `WireInv` compares the
  frames' ages: what MAX still owes is less than a band old, and what awaits an answer is of the
  last step. That MAX owes nothing older is an assumption of the model (see PageSession).

`BridgeProofs`:

* *LinkInvariant*, *AlwaysOneConnection* (any number of requests, at least one socket, any faults).
  A close event sets the client's socket aside whichever socket it is of. `InUse` says that a
  socket which was destroyed is the one in use while there is one, so that its close event cannot
  set another aside; `DecoderReset` that nothing is in the decoder during an attempt.
* *AlwaysWrittenOnce*, *AlwaysRemembered* (any ids, calls, and a memory of at least one).
  WrittenOnce excuses an id in three cases only (see SendController). `OneCall`: of an id that is
  not excused at most one call is under way, and none after it was written or has a result.
  `Queued` says that the map holds its results in the order in which they came, and that `since` is
  at least the number of those behind an id, from which *Remembered* follows: a result is kept
  until `MaxOperations` newer ones have come. Without it "its result is older" would excuse ids
  that a controller had forgotten too soon.
* *ConnectionTypeCorrect*, *AlwaysOneDriver*, *AlwaysQuiet*, *AlwaysDriven*, *AlwaysOneLiveSocket*,
  *AlwaysStatusTrue*, *AlwaysResumeKept* (at least one WebSocket object, any number of failures).
  OneDriver is not inductive by itself: that a resume connects a *paused* object depends on what
  the flags say while its authentication is under way. `ConnectionInv` adds to the types
  `FlagsInv` (a paused object is started; a current resume belongs to a paused object the page
  wants; whatever runs is wanted), `DriverInv` (the three ways a running object is driven, without
  arithmetic) and `SocketInv` (the socket in use is the only live one). StatusTrue and ResumeKept
  are inductive relative to it. The run checks OneDriver and Quiet as their conjunction Driven.
* *LiveInvariant*, *AlwaysNewsComplete* (any finite set of messages, frames of any length, a memory
  of at least one identity, any size of the open chat). NewsComplete speaks of the moment when
  nothing is under way. Until then `StreamInv` says that the last item under way about a message
  tells what MAX has of it, `Announced` that what is neither under way nor passed over was
  announced, and `HeldInv` that the open chat holds what was announced. The adapter drops an item
  whose identity it has seen: `SeenCame` says that it saw each in an item that came, and
  `DeletedOnce` makes up for the one identity all deletions of a message share.
* Both the adapter and the session take the items of a frame one by one (FoldLeft), so what a frame
  does is proved from item to item. The library's induction theorems cannot be used (they take an
  operator), therefore *SetInduction* is proved first: a set with 0 and with every successor of its
  numbers contains all of them, since < is well-founded on Nat. *SetFold* and *FoldStages* give the
  stages of a FoldLeft over a sequence, one item apart. `AdaptFact` (what the adapter lets pass, and
  how it ends), `MergeFact` (the open chat afterwards) and `NewsFact` (what is announced last)
  are inductions over these stages. MergeFact needs a counting argument, `Filled`: a chat that has
  no more messages than MaxSession keeps never pushes one out.
* *BridgeInvariant*, *AlwaysBridgeTypeOK*, *AlwaysBridgeSafe*, *AlwaysBridgeSteps*: the same for
  the specification that the run checks. A step of it is a step of one part and leaves the
  variables of the others alone (`BridgeMoves`), so that the invariants of the parts hold together,
  and with them every invariant and action property of `bridge` at once.

`MiniAppProofs`:

* *MessengerInvariant*, *AlwaysViewConsistent* (any chats, messages and operations under way). The
  screen is put together from answers that come late, so `MessengerInv` says what each of them
  will do: what is remembered of a chat is of that chat (`CacheInv`), the operation behind an
  answer still carries the chat it was asked for (`TaskInv`), an upload counts only for the chat
  on screen (`UploadInv`), and what is shown as under way is under way (`Sending`, `Threading`,
  `Forwarding`). The store's operations break `StoreInv` in their middle, which the effects
  (`Rendered`) repair: lemmas state what each operation of the store keeps, then one lemma per
  action.
* *CaughtInvariant*, *AlwaysCaughtUp* (the same). CaughtUp speaks of the moment when nothing is
  under way, so `CaughtInv` says how each message gets there: every message MAX has of the selected
  chat is shown, is noted as missed (`behind`), is in an event on its way (`Heard`), or will be in
  an answer that will be shown (`Covers`). An answer will be shown if it is a history of the
  selected chat and, for the operations that compare it, has the latest number (`Fetches`); it
  brings what MAX has if it has not been read yet, and what it holds afterwards (`Brings`). A
  delete reaches the screen before or after the histories that cross it, so whatever is shown,
  remembered, answered or told was with MAX at some time, and what is taken from the screen is gone
  there for good (`Seen`, `SeenTask`, `SeenNews`): removing it hides nothing. Each action covers
  what it uncovers: a chat that is opened asks for its history, a new message is told in an event
  while the page is linked and noted otherwise, and an answer that fails or comes too late is
  noted or was not the one waited for.
* *GestureInvariant*, *AlwaysGesturesActOnce* (any distances of the kinds the assumption names, any
  contacts; not that a press's menu and a swipe of the pane exclude each other, see section 6): `PressInv` bounds how far a finger whose press waits has moved, which is why a menu
  and a reply exclude each other, `ActedInv` says which recogniser is out after each act.
  *AlwaysViewerReleases* (any items and openings): `ReleaseInv` relates the cache, the URLs and
  the opening they were made for; what is resolved for an older opening is given back at once.
* *AlwaysStrokeReleased* (any presses and failures): `Returned` follows the last release from the
  queue of the page over the line of the worker to the mouse.
* *DeduplicatorInvariant*, *AlwaysNotifiedOnce* (any memory, revisions and restarts).
* *AlwaysMiniAppTypeOK*, *AlwaysMiniAppSafe*: a behaviour of `mini_app` is one of each part
  (`MiniAppMoves`, `MiniAppParts`), also of those of AccountsProofs and RequestsProofs, and has their
  invariants. The types of gestures, captcha and notifications need more than the invariants above:
  `FolderInv` (a swipe that ends looks at its direction again, so the folder it goes to exists),
  `FingersInv`, `SettingsInv` (the limit of muted chats).

`AccountsProofs` (any number of users, starts, presses, faults and sessions):

* *AccountsInvariant*, *AlwaysApprovedOnly*.
* The argument. A user has two rows, his account and the request for approval, and letters with
  the decision are under way while other presses come. `RowsInv` says the rows tell the same,
  which the transaction of `decide` gives, `LettersInv` that a letter tells what the rows tell:
  a decision is made once, so no later press overtakes it.

* *LimiterInvariant*, *AlwaysGuessesBounded* (Login, any devices, calls, attempts and limits, a
  lock longer than what the limiter looks back and one tick more, which its defaults of 15 and 30
  minutes give). The bound is a count of events in a moving window, of which the limiter drops the
  ones it thinks too old and all of them on a success. `LogInv`: what it remembers is exactly what
  happened since the last success or expired lock. `CountInv`: without a lock there is room for one
  more, with it the failures and the calls that may still fail are at most the limit and the calls
  that were under way. `LockInv`: a lock outlasts the failures and the calls it was set upon, so
  that both have gone when it ends.

`RequestsProofs` (any number of requests under way, of stops of the worker and of kills of either
process):

* *RequestsInvariant*, *AlwaysFilesHeld*.
* The argument. FilesHeld forgets too much: whose directory it is, and what the worker does with
  its media. `ServedInv` says a request has a number of its own and only attachments make a
  directory; `AttachmentsInv` that the directory is there from its creation to its removal and the
  file never without it, and that no other request could end while it owns one; `LineInv` that
  only the head of the worker's queue has begun, so that the end of an operation ends all
  writing; `MediaInv` that after SIGTERM nothing is kept or written but what `left` recorded. A kill
  takes the owners away and records in `left` what they owned.
  One lemma per action; the steps that answer a request share AnswerEnds and FinishKeeps, those
  that change the queue AdvancedLine and ShorterLine.

Only model-checked:

* all liveness (SlotRecovers, CallsSettle, SessionReturns, RequestsAnswered, RequestsSettle,
  Reconnects, Connects): it rests on fairness and ENABLED, which the prover cannot reason about.

## 6. Not modelled

The list in `PROJECT.json` ("components") has a reason for each part. In short: the parsing of
frames and payloads, what the page session's scripts read from MAX's DOM, encryption, what React
draws, scripts and unit files are I/O or pure conversions without state of their own. Circuit
breaker and safe read recovery are constructed by nobody. In modelled components these are left
out: the gateway's listeners and the 250 ms timer after which a user without a WebSocket sends
his page to the background; `markChatRead`, which nobody waits for; settings, profiles and search
of the Mini App; the second limiter, of captcha traffic; the media store's leases and concurrency
limits, which the worker's queue does not let anybody reach; deletion of users.

Seen while modelling, without a run of its own:

* `BrowserPool.close` neither waits for a recovery that is launching nor stops it, so a browser
  can be started after all were closed (it ends with the process); `WorkerClient.close` while a
  connection is being made leaves that connection to come up; a logout that overlaps the
  encryption of `submitCode` is followed by the save; the captcha route, like the status route,
  reports `authenticated` without storing.
* A mute made in MAX after the API has started is never learned, because the worker sends no
  event for it; the README of the repository (line 19) says the bot leaves such chats alone.
* `send` of the Mini App treats an ambiguous result like a failure and offers a retry; a message
  deleted while its chat's history was being read comes back with it (mergeHistory is a union);
  the loading state stays when refreshCurrentData has outdated the request that set it; a
  reaction in a thread that was closed meanwhile opens it again; forwardMessage takes the chat
  that is selected when the forward is confirmed; a joined chat can leave the list when an opened
  forward source fails.
* A press that has opened a menu can become a swipe of the pane (the design of the interactions,
  2026-07-27, line 95, wants the two to "remain independent"); a pane left in the middle of a
  swipe lets a swipe to the left both answer and change the folder; a pinch that ends at scale 1
  counts as half a double tap.
* A press on the captcha before the last release was answered loses its own release, and so does
  a screen that goes in the middle of a stroke, until the next press.
* Parallel attempts overshoot the login limiter by their number; attempts that time out are not
  counted; an alert left from an earlier code makes submitCode report `invalid_code` before MAX
  has answered; a poll of the QR tab sets the state of another.
* If the message that tells a user to wait or the administrator's letter cannot be sent, the
  administrator never gets the buttons: a later /start finds the request and creates no other.
* One message of an unknown shape makes a whole history fail, and takes the messages before it in
  its live frame with it: their identities are already remembered. A history answered before the
  comment counts are asked for overwrites the live news of the meantime. NewsComplete excepts both.
* Media being written while the worker is stopped stays in the shared directory. So does all media
  of a worker that is killed, because the timers that would remove it end with the process and the
  next one starts with an empty map and never looks at the directory (the plan of the bridge,
  2026-07-26, line 741: "TTL and disconnect remove temporary data"), and so do the upload directories
  of an API that is killed in the middle of a request.
* The answer to a send that timed out confirms the next one, with the older message's id, if it
  comes while that waits for its own: observeSocket compares nothing (`max-web-page-session.ts`:3175).
* Calls of SendController that overlap under one request id each write a message: the map has a
  result only after the transport has answered.
* A transport error of SendController that does not say whether it wrote leaves no result behind, so
  the next attempt under its id may write the message again.
