----------------------------- MODULE PageSession -----------------------------
(***************************************************************************)
(* The MAX page of one user in the worker: the queue of request-handler.ts *)
(* that runs the operations of a session one after the other, the          *)
(* operations of max-web-page-session.ts, the requests they make over the  *)
(* page's own socket (max-wire-client.ts) and the frames that come back.   *)
(*                                                                         *)
(* An operation is the sequence of its steps: what happens between two     *)
(* awaits, a call to MAX, a step of the page's interface.  What the steps  *)
(* read and show (texts, menus, attachments, selectors) is left out; where *)
(* they lead, how they fail and what they leave behind is kept.            *)
(***************************************************************************)
EXTENDS Integers, Sequences, FiniteSets

CONSTANTS
    Chat,         \* chats MAX knows
    Channel,      \* chats that are channels
    Direct,       \* chats with one other person
    Scenarios,    \* bound: requests the API makes, in order, and the viewer's chats at first
    MaxLosses,    \* bound: times MAX's socket is lost by itself
    Band,         \* sequence numbers of the bridge's frames
    None

ASSUME PageAssumption ==
    /\ Channel \subseteq Chat /\ Direct \subseteq Chat /\ None \notin Chat \cup Nat
    /\ MaxLosses \in Nat /\ Band \in Nat /\ Band >= 3

VARIABLES
    coming,    \* requests the API has yet to make
    queue,     \* operationQueues: the requests of the session, the first one running
    todo,      \* steps the running operation has left
    rescue,    \* what its catch block does with an error
    snapshot,  \* chats it has read from the page's store
    calls,     \* MaxWireClient.pending: calls of the running step
    called,    \* the running step has made its calls
    failure,   \* how the last failed call of the step ended
    sequence,  \* MaxWireClient.sequence
    made,      \* frames it has made so far
    adapter,   \* MaxSession, once the viewer is known
    page,      \* the chat the page shows and whether MAX's application is up
    maxSocket,    \* MAX's socket in the page
    atMax,     \* frames of the bridge MAX has not answered
    typed,     \* messages sent through the page that MAX has not confirmed
    sends,     \* messages given to the page so far
    slot,      \* pendingSend
    got,       \* what pendingSend was last resolved with
    late,      \* an older confirmation was outstanding when it was set
    outcome,   \* the last send that was answered
    joined,    \* the viewer's chats, as MAX has them
    losses,
    life       \* of the session: "open", "closing", "closed"; "crashed": the worker

running == <<queue, todo, rescue, snapshot>>
wire    == <<calls, called, failure, sequence, made>>
max     == <<maxSocket, atMax, typed, joined, losses>>
sending == <<sends, slot, got, late, outcome>>
pageVars == <<running, coming, wire, adapter, page, max, sending, life>>

NoAdapter == [chats |-> {}, selected |-> None, known |-> FALSE]
Home      == [at |-> None, app |-> TRUE]

-----------------------------------------------------------------------------
(* The operations, as the steps they are made of. *)

Do(what)      == [do |-> what, opcodes |-> <<>>, must |-> FALSE]
Ask(opcodes)  == [do |-> "call", opcodes |-> opcodes, must |-> FALSE]  \* failures are caught
Must(opcode)  == [do |-> "call", opcodes |-> <<opcode>>, must |-> TRUE]

DescribeRecipients == <<Ask(<<32, 35>>)>>
ListChats     == <<Do("viewer"), Do("readChats"), Do("describe"), Do("replaceChats")>>
KnownChat     == ListChats \o <<Do("known")>>
ReachableChat == ListChats \o <<Do("reachable")>>
ResolveChat   == <<Do("viewer"), Ask(<<48>>), Do("resolved")>> \o ListChats
SearchChats   == <<Do("viewer")>> \o ListChats \o <<Ask(<<60>>)>>
ReadSettings  == <<Do("viewer"), Ask(<<32, 96, 36>>)>>
SubscribeToChat     == <<Do("viewer"), Ask(<<57>>)>>
UnsubscribeFromChat == KnownChat \o <<Ask(<<58>>)>>
DescribeContact == <<Ask(<<32>>)>>
MarkRead      == ReachableChat \o <<Ask(<<50>>)>>
Comments      == <<Do("viewer")>> \o ReachableChat \o <<Must(49), Do("openHistory")>>

ReadChatWireContext == <<Do("evaluate")>>
ReadCommentCounts   == ListChats \o <<Do("countComments")>>
WireHistory   == ReadChatWireContext \o <<Must(49)>> \o ReadCommentCounts \o <<Do("openHistory")>>
RestartMaxApp == <<Do("reload"), Do("ready")>>
History       == <<Do("viewer")>> \o ReachableChat \o <<Do("try")>> \o WireHistory

ReadMessages       == <<Do("readMessages")>>
OpenChatForActions == KnownChat \o ReadMessages \o <<Do("activate")>> \o ReadMessages
RenderedHistory    == <<Do("viewer")>> \o OpenChatForActions \o ReadMessages \o <<Do("openHistory")>>
OpenMessageMenu    == ReadMessages \o <<Do("menu")>>
OpenChatMenu       == <<Do("evaluate"), Do("menu")>>
ClickMenuItem      == <<Do("click")>>
ConfirmDestructiveAction == <<Do("click")>>

SendText       == OpenChatForActions \o <<Do("arm"), Do("enter"), Do("confirm")>>
SendReply      == OpenChatForActions \o OpenMessageMenu \o ClickMenuItem
                  \o <<Do("arm"), Do("enter"), Do("confirm")>>
OpenAttachmentInput == <<Do("attach")>>
SendAttachment == OpenChatForActions \o <<Do("arm")>> \o OpenAttachmentInput
                  \o <<Do("enter"), Do("confirm")>>
EditMessage    == KnownChat \o <<Must(67)>>
DeleteMessage  == KnownChat \o <<Must(66)>>
SetReaction    == KnownChat \o <<Must(178)>>
ForwardMessage == OpenChatForActions \o ListChats \o OpenMessageMenu \o ClickMenuItem
                  \o <<Do("click"), Do("click")>>
ChatAction     == KnownChat \o OpenChatMenu \o ClickMenuItem \o ConfirmDestructiveAction
ListStickers   == KnownChat \o <<Must(27), Do("found"), Must(28), Do("found"), Must(28)>>
SendSticker    == KnownChat \o <<Must(64)>>
ResolveUrl     == {<<>>, <<Must(83)>>, <<Must(88)>>}   \* a photo, a video, a file
OpenMedia      == <<Do("viewer"), Do("media"), Do("fetch")>>
Status         == <<Do("viewer")>>

(* The dispatch of request-handler.ts. *)
Script(op) ==
    CASE op = "chats.list"             -> ListChats
      [] op = "chats.search"           -> SearchChats
      [] op = "chats.subscribe"        -> SubscribeToChat
      [] op = "chats.unsubscribe"      -> UnsubscribeFromChat
      [] op = "chats.resolve"          -> ResolveChat
      [] op = "settings.read"          -> ReadSettings
      [] op = "contacts.describe"      -> DescribeContact
      [] op = "messages.history"       -> History
      [] op = "messages.read"          -> MarkRead
      [] op = "messages.comments"      -> Comments
      [] op = "message.send"           -> SendText
      [] op = "message.reply"          -> SendReply   \* message.send with replyToId
      [] op = "message.sendAttachment" -> SendAttachment
      [] op = "message.edit"           -> EditMessage
      [] op = "message.delete"         -> DeleteMessage
      [] op = "message.forward"        -> ForwardMessage
      [] op = "message.reaction.set"   -> SetReaction
      [] op = "chat.action"            -> ChatAction
      [] op = "stickers.list"          -> ListStickers
      [] op = "sticker.send"           -> SendSticker
      [] op = "media.open"             -> OpenMedia
      [] op = "login.status"           -> Status
      [] op = "session.background"     -> <<Do("background")>>

(* What the payload of a request must have. *)
Message == {"chatId", "messageId"}

SendFields(op) ==
    CASE op \in {"message.send", "message.reply"} -> {"chatId", "clientRequestId", "text", "replyToId"}
      [] op = "message.sendAttachment" -> {"chatId", "clientRequestId", "filePath", "kind"}
      [] op = "message.edit"   -> Message \cup {"clientRequestId", "text"}
      [] op = "message.delete" -> Message \cup {"clientRequestId", "forEveryone"}
      [] OTHER -> {}

ActionFields(op) ==
    CASE op = "message.forward" ->
            {"sourceChatId", "sourceMessageId", "clientRequestId", "destinationIds"}
      [] op = "message.reaction.set" -> Message \cup {"clientRequestId", "reaction"}
      [] op = "chat.action"   -> {"chatId", "clientRequestId", "action"}
      [] op = "sticker.send"  -> {"chatId", "clientRequestId", "stickerId"}
      [] OTHER -> {}

ReadFields(op) ==
    CASE op = "messages.read"     -> Message
      [] op = "messages.comments" -> {"chatId", "postId"}
      [] op = "chats.subscribe"   -> {"link"}
      [] op = "contacts.describe" -> {"contactId"}
      [] op = "chats.search"      -> {"query"}
      [] op = "media.open"        -> {"handle"}
      [] op \in {"chats.unsubscribe", "chats.resolve", "messages.history", "stickers.list"} -> {"chatId"}
      [] OTHER -> {}

Fields(op) == SendFields(op) \cup ActionFields(op) \cup ReadFields(op)

Operations ==
    {"chats.list", "chats.search", "chats.subscribe", "chats.unsubscribe", "chats.resolve",
     "settings.read", "contacts.describe", "messages.history", "messages.read",
     "messages.comments", "message.send", "message.reply", "message.sendAttachment",
     "message.edit", "message.delete", "message.forward", "message.reaction.set", "chat.action",
     "stickers.list", "sticker.send", "media.open", "login.status", "session.background"}

\* A request names an operation, and the field of its payload that is missing, if one is.
Request == [op : Operations, chat : Chat \cup {None},
            wrong : {None} \cup UNION {Fields(op) : op \in Operations}]

ASSUME ScenarioAssumption ==
    \A s \in Scenarios : s.requests \in Seq(Request) /\ s.joined \subseteq Chat

\* Reading a payload throws before the session is asked anything.
Readable(request) == request.wrong \notin Fields(request.op)

-----------------------------------------------------------------------------
PageInit ==
    /\ \E s \in Scenarios : coming = s.requests /\ joined = s.joined
    /\ queue = <<>> /\ todo = <<>> /\ rescue = "none" /\ snapshot = {}
    /\ calls = {} /\ called = FALSE /\ failure = "none" /\ sequence = 0 /\ made = 0
    /\ adapter = NoAdapter /\ page = Home
    /\ maxSocket = [open |-> TRUE, closing |-> FALSE]
    /\ atMax = {} /\ typed = {} /\ losses = 0
    /\ sends = 0 /\ slot = None /\ got = None /\ late = FALSE
    /\ outcome = [of |-> None, got |-> None, late |-> FALSE]
    /\ life = "open"

\* The first request of a queue starts running; a request of a closed session
\* is answered session_not_found, an unreadable one worker_failure.
Begin(q) ==
    /\ queue' = q
    /\ todo' = IF q # <<>> /\ life = "open" /\ Readable(Head(q)) THEN Script(Head(q).op) ELSE <<>>
    /\ rescue' = "none" /\ snapshot' = {}

Go       == todo' = Tail(todo) /\ UNCHANGED <<queue, rescue, snapshot>>
Then(s)  == todo' = s \o Tail(todo) /\ UNCHANGED <<queue, rescue, snapshot>>
Answered == Begin(Tail(queue))

(* An exception: history falls back to a restarted application and then to *)
(* what the page shows, every other operation fails.                       *)
Throw(reason) ==
    IF rescue = "restart" /\ reason = "unavailable"
    THEN /\ todo' = RestartMaxApp \o WireHistory /\ rescue' = "render"
         /\ UNCHANGED <<queue, snapshot>>
    ELSE IF rescue # "none"
    THEN todo' = RenderedHistory /\ rescue' = "none" /\ UNCHANGED <<queue, snapshot>>
    ELSE Answered

At(what) == queue # <<>> /\ todo # <<>> /\ Head(todo).do = what /\ life \in {"open", "closing"}
chat     == Head(queue).chat

\* handle: a request is chained behind the earlier ones of its session.
Accept ==
    /\ life = "open" /\ coming # <<>>
    /\ coming' = Tail(coming)
    /\ LET q == Append(queue, Head(coming)) IN
          IF queue = <<>> THEN Begin(q) ELSE queue' = q /\ UNCHANGED <<todo, rescue, snapshot>>
    /\ UNCHANGED <<wire, adapter, page, max, sending, life>>

\* ensureAdapter: without a viewer until its deadline, or without a page, it throws.
EnsureAdapter ==
    /\ At("viewer")
    /\ \/ adapter.known /\ Go /\ UNCHANGED adapter
       \/ ~adapter.known /\ page.app /\ adapter' = [adapter EXCEPT !.known = TRUE] /\ Go
       \/ ~adapter.known /\ ~page.app /\ Throw("error") /\ UNCHANGED adapter
    /\ UNCHANGED <<coming, wire, page, max, sending, life>>

\* listChats reads the chats of the page's store; without an application there is none.
ReadChats ==
    /\ At("readChats")
    /\ IF page.app
       THEN snapshot' = joined /\ todo' = Tail(todo) /\ UNCHANGED <<queue, rescue>>
       ELSE Throw("error")
    /\ UNCHANGED <<coming, wire, adapter, page, max, sending, life>>

ReplaceChats ==
    /\ At("replaceChats")
    /\ adapter' = [adapter EXCEPT !.chats = IF adapter.known THEN snapshot ELSE {}]
    /\ Go
    /\ UNCHANGED <<coming, wire, page, max, sending, life>>

(* What an operation decides from what it has read. *)
Decide ==
    /\ \/ At("known") /\ (IF chat \in snapshot THEN Go ELSE Answered)
       \/ At("reachable")
          /\ (IF chat \in snapshot THEN Go ELSE Then(ResolveChat))
       \/ At("resolved") /\ failure = "none" /\ Go
       \/ At("resolved") /\ Answered      \* refused, or not the chat asked for
       \/ At("found") /\ (Go \/ Answered)   \* no sets, or no stickers in them
       \/ At("describe")
          /\ (IF snapshot \cap Direct = {} THEN Go ELSE Then(DescribeRecipients))
       \/ At("countComments") /\ chat \in snapshot \cap Channel /\ Then(<<Ask(<<91>>)>>)
       \/ At("countComments") /\ Go       \* no channel, or no posts
       \/ At("media") /\ (Answered \/ \E steps \in ResolveUrl : Then(steps))
    /\ UNCHANGED <<coming, wire, adapter, page, max, sending, life>>

Try ==
    /\ At("try")
    /\ rescue' = "restart" /\ todo' = Tail(todo) /\ UNCHANGED <<queue, snapshot>>
    /\ UNCHANGED <<coming, wire, adapter, page, max, sending, life>>

\* A step of the interface, or a read of the page: it succeeds or throws.
UseInterface ==
    /\ \E what \in {"evaluate", "fetch", "readMessages", "menu", "click"} : At(what)
    /\ \/ (page.app \/ At("evaluate") \/ At("fetch")) /\ Go
       \/ Throw("error")
    /\ UNCHANGED <<coming, wire, adapter, page, max, sending, life>>

OpenHistory ==
    /\ At("openHistory")
    /\ adapter' = [adapter EXCEPT !.selected = chat]
    /\ Go
    /\ UNCHANGED <<coming, wire, page, max, sending, life>>

Finish ==
    /\ queue # <<>> /\ todo = <<>> /\ life # "crashed"
    /\ Answered
    /\ UNCHANGED <<coming, wire, adapter, page, max, sending, life>>

-----------------------------------------------------------------------------
(* Requests over MAX's socket. *)

\* A defect: the numbers start anew for every step.
AfterAnew(number, k) == k % Band

\* nextSequence goes round in the bridge's band.
After(number, k) == (number + k) % Band

\* The calls of a step are made together, each with the next number.
MakeCalls ==
    /\ At("call") /\ ~called
    /\ LET ops == Head(todo).opcodes IN
         /\ calls' = {[seq |-> After(sequence, i), opcode |-> ops[i], made |-> made + i,
                       chat |-> chat, sent |-> FALSE] : i \in DOMAIN ops}
         /\ sequence' = After(sequence, Len(ops)) /\ made' = made + Len(ops)
    \* MAX does not answer a frame any more that is a band of frames old
    /\ atMax' = {f \in atMax : made' - f.made < Band}
    /\ called' = TRUE /\ failure' = "none"
    /\ UNCHANGED <<running, coming, adapter, page, maxSocket, typed, joined, losses, sending, life>>

\* transmit hands the frame to the page's socket as soon as there is an open one.
Transmit(c) ==
    /\ ~c.sent /\ maxSocket.open /\ life \in {"open", "closing"}
    /\ calls' = (calls \ {c}) \cup {[c EXCEPT !.sent = TRUE]}
    /\ atMax' = atMax \cup {[seq |-> c.seq, opcode |-> c.opcode, made |-> c.made, chat |-> c.chat]}
    /\ UNCHANGED <<running, coming, called, failure, sequence, made, adapter, page, maxSocket, typed,
                   joined, losses, sending, life>>

(* The response of a call is rejected.  Nothing handles its promise while  *)
(* transmit is still waiting for the socket: node ends the process.        *)
Reject(some, reason) ==
    IF \E c \in some : ~c.sent
    THEN life' = "crashed" /\ UNCHANGED <<calls, failure>>
    ELSE /\ calls' = calls \ some
         /\ failure' = IF some = {} THEN failure ELSE reason
         /\ UNCHANGED life

\* A defect: close clears the timers and leaves the calls.
CallTimesOutWhenOpen(c) ==
    /\ life = "open"
    /\ Reject({c}, "timeout")
    /\ UNCHANGED <<running, coming, called, sequence, made, adapter, page, max, sending>>

CallTimesOut(c) ==
    /\ life # "crashed"
    /\ Reject({c}, "timeout")
    /\ UNCHANGED <<running, coming, called, sequence, made, adapter, page, max, sending>>

\* The call is taken back: evaluating in the page throws, which is gone or was navigated, or
\* the page had no open socket until the deadline.
TransmitFails(c) ==
    /\ ~c.sent /\ life # "crashed" /\ calls' = calls \ {c}
    /\ \/ failure' = "error"
       \/ life # "closed" /\ ~maxSocket.open /\ failure' = "unavailable"
    /\ UNCHANGED <<running, coming, called, sequence, made, adapter, page, max, sending, life>>

CallsReturn ==
    /\ queue # <<>> /\ called /\ calls = {} /\ life # "crashed"
    /\ called' = FALSE
    /\ IF Head(todo).must /\ failure # "none" THEN Throw(failure) ELSE Go
    /\ UNCHANGED <<coming, calls, failure, sequence, made, adapter, page, max, sending, life>>

\* resolvePendingSend, with the id MAX gave the message.
ResolvePendingSend(id) ==
    IF slot = None THEN UNCHANGED <<slot, got>> ELSE slot' = None /\ got' = id

\* A defect: whatever MAX answers confirms the message.
AnyAnswerConfirms(f) == TRUE

\* The answer to a sent message has its opcode.
ConfirmsSend(f) == f.opcode = 64

(* MAX answers a frame of the bridge: it resolves the call that waits for  *)
(* its number; without one, the answer to a sent message (64) is taken for *)
(* the confirmation of the message the page is sending.                    *)
Answer(f) ==
    /\ maxSocket.open /\ life # "crashed"
    /\ atMax' = atMax \ {f}
    /\ joined' = CASE f.opcode = 57 -> joined \cup ({f.chat} \cap Chat)
                   [] f.opcode = 58 -> joined \ {f.chat}
                   [] OTHER -> joined
    /\ LET asked == {c \in calls : c.seq = f.seq} IN
         IF life # "open" THEN UNCHANGED <<calls, slot, got>>        \* stopped
         ELSE IF asked # {} THEN calls' = calls \ asked /\ UNCHANGED <<slot, got>>
         ELSE /\ IF ConfirmsSend(f) THEN ResolvePendingSend(0) ELSE UNCHANGED <<slot, got>>
              /\ UNCHANGED calls
    /\ UNCHANGED <<running, coming, called, failure, sequence, made, adapter, page, maxSocket, typed,
                   losses, sends, late, outcome, life>>

-----------------------------------------------------------------------------
(* Messages sent through the page. *)

\* pendingSend is set before the message is typed, and its timer with it.
Arm ==
    /\ At("arm")
    /\ sends' = sends + 1 /\ slot' = sends'
    /\ late' = (typed # {} \/ \E f \in atMax : f.opcode = 64)
    /\ Go
    /\ UNCHANGED <<coming, wire, adapter, page, max, got, outcome, life>>

\* A defect: the catch block forgets it.
AbandonNothing == UNCHANGED <<slot, got>>

\* clearPendingSend
Abandon == slot' = None /\ got' = IF slot = None THEN got ELSE None

Attach ==
    /\ At("attach")
    /\ \/ page.app /\ Go /\ UNCHANGED <<slot, got>>
       \/ Throw("error") /\ Abandon
    /\ UNCHANGED <<coming, wire, adapter, page, max, sends, late, outcome, life>>

\* The message is entered in the composer of the chat the page shows.
Enter ==
    /\ At("enter")
    /\ \/ page.app /\ typed' = typed \cup {sends} /\ Go /\ UNCHANGED <<slot, got>>
       \/ Throw("error") /\ Abandon /\ UNCHANGED typed
    /\ UNCHANGED <<coming, wire, adapter, page, maxSocket, atMax, joined, losses, sends, late,
                   outcome, life>>

\* MAX confirms a message to its own client.
Confirm(n) ==
    /\ maxSocket.open /\ life # "crashed"
    /\ typed' = typed \ {n}
    /\ IF life = "open" THEN ResolvePendingSend(n) ELSE UNCHANGED <<slot, got>>
    /\ UNCHANGED <<running, coming, wire, adapter, page, maxSocket, atMax, joined, losses, sends,
                   late, outcome, life>>

SendTimesOut ==
    /\ slot # None /\ life # "crashed"
    /\ slot' = None /\ got' = None
    /\ UNCHANGED <<running, coming, wire, adapter, page, max, sends, late, outcome, life>>

\* confirmed with the message's id, or ambiguous.
SendReturns ==
    /\ queue # <<>> /\ todo # <<>> /\ Head(todo).do = "confirm" /\ slot = None
    /\ life # "crashed"
    /\ outcome' = [of |-> sends, got |-> got, late |-> late]
    /\ Answered
    /\ UNCHANGED <<coming, wire, adapter, page, max, sends, slot, got, late, life>>

-----------------------------------------------------------------------------
(* The page, its socket and its end. *)

\* A navigation ends the socket of the old document and what it had under way.
NewDocument(where, up) ==
    /\ page' = [at |-> where, app |-> up]
    /\ maxSocket' = [open |-> FALSE, closing |-> FALSE]
    /\ atMax' = {} /\ typed' = {}

\* A defect: the router's answer is taken for the route.
RoutedUnawaited == page.app /\ UNCHANGED page

\* MAX's router opens the chat, and its route and its composer are waited for.
Routed == page.app /\ page' = [page EXCEPT !.at = chat]

(* activateChat: MAX's router opens the chat; when it does not commit the  *)
(* route a navigation does; openChatForActions first shows another chat    *)
(* when this one is on screen with next to no messages.                    *)
Activate ==
    /\ At("activate")
    /\ \/ /\ page.app /\ page.at = chat
          /\ \E other \in snapshot \ {chat} : page' = [page EXCEPT !.at = other]
          /\ UNCHANGED <<running, maxSocket, atMax, typed>>
       \/ Routed /\ Go /\ UNCHANGED <<maxSocket, atMax, typed>>
       \/ NewDocument(chat, TRUE) /\ Go
       \/ Throw("error") /\ UNCHANGED <<page, maxSocket, atMax, typed>>
       \/ \E up \in BOOLEAN : NewDocument(chat, up) /\ Throw("error")
    /\ UNCHANGED <<coming, wire, adapter, joined, losses, sending, life>>

\* restartMaxApp
Reload ==
    /\ At("reload")
    /\ \/ \E up \in BOOLEAN : NewDocument(None, up) /\ Go
       \/ Throw("error") /\ UNCHANGED <<page, maxSocket, atMax, typed>>
    /\ UNCHANGED <<coming, wire, adapter, joined, losses, sending, life>>

Ready ==
    /\ At("ready")
    /\ IF page.app THEN Go ELSE Throw("error")
    /\ UNCHANGED <<coming, wire, adapter, page, max, sending, life>>

\* background: the open chat is left, and the page with it.
Background ==
    /\ At("background")
    /\ adapter' = [adapter EXCEPT !.selected = None]
    /\ \/ page.at = None /\ Go /\ UNCHANGED <<page, maxSocket, atMax, typed>>
       \/ page.at # None /\ \E up \in BOOLEAN : NewDocument(None, up) /\ (Go \/ Throw("error"))
    /\ UNCHANGED <<coming, wire, joined, losses, sending, life>>

AppStarts ==
    /\ ~page.app /\ life \in {"open", "closing"}
    /\ page' = [page EXCEPT !.app = TRUE]
    /\ UNCHANGED <<running, coming, wire, adapter, max, sending, life>>

SocketOpens ==
    /\ ~maxSocket.open /\ page.app /\ life \in {"open", "closing"}
    /\ maxSocket' = [maxSocket EXCEPT !.open = TRUE]
    /\ UNCHANGED <<running, coming, wire, adapter, page, atMax, typed, joined, losses, sending, life>>

\* MAX's socket breaks; what was on its way over it is lost.
SocketLost ==
    /\ maxSocket.open /\ losses < MaxLosses /\ life \in {"open", "closing"}
    /\ losses' = losses + 1
    /\ maxSocket' = [open |-> FALSE, closing |-> TRUE] /\ atMax' = {} /\ typed' = {}
    /\ UNCHANGED <<running, coming, wire, adapter, page, joined, sending, life>>

\* Its close event, perhaps after the next socket is open, rejects every call.
SocketClosed ==
    /\ maxSocket.closing /\ life # "crashed"
    /\ maxSocket' = [maxSocket EXCEPT !.closing = FALSE]
    /\ Reject(calls, "unavailable")
    /\ UNCHANGED <<running, coming, called, sequence, made, adapter, page, atMax, typed, joined, losses,
                   sending>>

\* close, not queued behind the operations: up to the end of the media store,
CloseStarts ==
    /\ life = "open"
    /\ IF \E c \in calls : ~c.sent THEN life' = "crashed" /\ UNCHANGED <<calls, failure>>
       ELSE /\ life' = "closing" /\ calls' = {}
            /\ failure' = IF calls = {} THEN failure ELSE "unavailable"
    /\ UNCHANGED <<running, coming, called, sequence, made, adapter, page, max, sending>>

\* and then to the end of the page.
CloseEnds ==
    /\ life = "closing" /\ life' = "closed"
    /\ Abandon /\ adapter' = NoAdapter
    /\ maxSocket' = [open |-> FALSE, closing |-> maxSocket.open \/ maxSocket.closing]
    /\ atMax' = {} /\ typed' = {}
    /\ UNCHANGED <<running, coming, wire, page, joined, losses, sends, late, outcome>>

\* A step on the closed page throws.
PageGone ==
    /\ life = "closed" /\ queue # <<>> /\ todo # <<>> /\ ~called /\ Head(todo).do # "confirm"
    /\ Throw("error") /\ Abandon
    /\ UNCHANGED <<coming, wire, adapter, page, max, sends, late, outcome, life>>

-----------------------------------------------------------------------------
\* Everything the session does by itself: its own steps and its timers.
Operate == \/ EnsureAdapter \/ ReadChats \/ ReplaceChats \/ Decide \/ Try \/ UseInterface
           \/ OpenHistory \/ Finish \/ MakeCalls \/ CallsReturn \/ Arm \/ Attach \/ Enter
           \/ SendReturns \/ Activate \/ Reload \/ Ready \/ Background \/ PageGone

Timers == SendTimesOut \/ (\E c \in calls : CallTimesOut(c) \/ TransmitFails(c))

Around == \/ \E c \in calls : Transmit(c)
          \/ \E f \in atMax : Answer(f)
          \/ \E n \in typed : Confirm(n)
          \/ AppStarts \/ SocketOpens \/ SocketLost \/ SocketClosed

PageNext ==
    \/ Accept \/ Operate \/ Timers \/ Around \/ CloseStarts \/ CloseEnds

(* node runs the callbacks and timers it has; nothing is asked of MAX.     *)
PageFairness ==
    /\ WF_pageVars(Operate) /\ WF_pageVars(Timers) /\ WF_pageVars(CloseEnds)

PageSpec == PageInit /\ [][PageNext]_pageVars /\ PageFairness

-----------------------------------------------------------------------------


\* What the variables of the session range over.
PageTypeOK ==
    /\ queue \in Seq(Request)
    /\ sequence \in 0..(Band - 1) /\ losses \in 0..MaxLosses
    /\ todo # <<>> => queue # <<>>
    /\ rescue \in {"none", "restart", "render"} /\ snapshot \subseteq Chat /\ joined \subseteq Chat
    /\ called \in BOOLEAN /\ (called => todo # <<>> /\ Head(todo).do = "call")
    /\ calls # {} => called
    /\ failure \in {"none", "timeout", "unavailable", "error"}
    /\ adapter \in [chats : SUBSET Chat, selected : Chat \cup {None}, known : BOOLEAN]
    /\ page \in [at : Chat \cup {None}, app : BOOLEAN]
    /\ sends \in Nat /\ typed \subseteq 1..sends
    /\ slot \in {None} \cup 1..sends /\ got \in {None} \cup 0..sends
    /\ life \in {"open", "closing", "closed", "crashed"}

(* pendingSend belongs to the send that is running: its timer, MAX's       *)
(* answers and close touch no other, and nothing is left for the next one. *)
SendSlotOwned ==
    slot # None => /\ slot = sends
                   /\ todo # <<>> /\ Head(todo).do \in {"attach", "enter", "confirm"}

(* A message is typed in the chat it was asked for, whatever the page was  *)
(* showing, the router did or the operations before it left behind.        *)
TypedInOwnChat == [][typed' \ typed # {} => page.at = chat]_pageVars

(* A send is reported confirmed with another message's id only when MAX    *)
(* still owed the answer to an older send when it began.  Then it may be:  *)
(* observeSocket compares no answer with the send it is given to.          *)
ConfirmedOwn == outcome.got \in {None, outcome.of} \/ outcome.late

(* A call returns what MAX answered to its own frame: numbers go round,    *)
(* sockets are replaced and late answers come to calls that have ended.    *)
AnswersOwn ==
    [][\A f \in atMax, c \in calls :
         f \notin atMax' /\ c.made \notin {d.made : d \in calls'} /\ maxSocket' = maxSocket
           => f.made = c.made]_pageVars

(* Every request handed to a worker that stays up is answered, whatever    *)
(* MAX, its socket and its page do, and also when the session is closed.   *)
RequestsAnswered == []<>(queue = <<>> \/ life = "crashed")

(* One session's trouble with its socket leaves the worker process, and    *)
(* with it the sessions of the other users, alone.                         *)
WorkerSurvives == life # "crashed"
=============================================================================
