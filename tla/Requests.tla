------------------------------- MODULE Requests -------------------------------
(***************************************************************************)
(* A request of the Mini App on its way through both processes: the route  *)
(* (apps/api/src/routes) refuses it or asks the gateway                    *)
(* (apps/api/src/runtime/bridge-runtime-gateway.ts), the worker runs the   *)
(* operations of a session one at a time, and the route answers.           *)
(*                                                                         *)
(* Two kinds of request leave files in the directory the processes share:  *)
(* an attachment is written by the API for the worker to upload, and media *)
(* of MAX is written by the worker (RuntimeMediaStore) for the API to      *)
(* stream.  How sessions are opened belongs to MaxSessions, what the       *)
(* operations do to MAX's page to PageSession.                             *)
(***************************************************************************)
EXTENDS Naturals, Sequences, FiniteSets

CONSTANTS
    Serving,      \* requests the API serves at a time
    MaxServed,    \* bound: requests
    MaxShutdowns  \* bound: times a process is stopped or killed

ASSUME RequestsBounds == {MaxServed, MaxShutdowns} \subseteq Nat

VARIABLES
    served,      \* what the API does for each request under way
    requests,    \* requests so far: the number of a request names its files
    inLine,      \* the worker's queue of the session; its head runs
    directories, \* upload directories that exist
    uploads,     \* attachments that exist
    onDisk,      \* media files that exist
    kept,        \* media registered in the store, each with its timer
    removing,    \* media files whose removal is under way
    worker,      \* "up", "closing" (the sessions are being closed) or "down"
    left,        \* (history) files whose process was stopped or killed before it removed them
    shutdowns

requestVars == <<served, requests, inLine, directories, uploads, onDisk, kept, removing,
                 worker, left, shutdowns>>
atApi == <<served, requests, directories, uploads>>
media == <<onDisk, kept, removing>>

Over(code) == [pc |-> "idle", route |-> "none", number |-> 0, code |-> code]

RequestsInit ==
    /\ served = [t \in Serving |-> Over(0)] /\ requests = 0 /\ inLine = <<>>
    /\ directories = {} /\ uploads = {} /\ onDisk = {} /\ kept = {} /\ removing = {}
    /\ worker = "up" /\ left = {} /\ shutdowns = 0

-----------------------------------------------------------------------------
(* The routes: the operation, what can be wrong with a request, and what   *)
(* the gateway makes of the answer: a "list", a "flag", a "result", or     *)
(* something that "may" be missing.                                        *)

Route(operation, refused, answer) ==
    [operation |-> operation, refused |-> refused, answer |-> answer]

\* authorizeRead, authorizeMutation; the schema is checked before either.
Plain     == {"principal"}
Read      == Plain \cup {"schema"}
Mutation  == Read \cup {"origin"}
Confirmable == Mutation \cup {"confirmation"}

TextRoute       == Route("message.send", Mutation, "result")
RetryRoute      == Route("message.send", Confirmable, "result")
AttachmentRoute == Route("message.sendAttachment", Mutation \cup {"body"}, "result")
EditRoute       == Route("message.edit", Mutation, "result")
DeleteRoute     == Route("message.delete", Confirmable, "result")
ForwardRoute    == Route("message.forward", Mutation, "result")
ReactionRoute   == Route("message.reaction.set", Mutation, "result")
ActionRoute     == Route("chat.action", Confirmable, "result")
StickersRoute   == Route("stickers.list", Read, "list")
StickerRoute    == Route("sticker.send", Mutation, "result")
ChatsRoute      == Route("chats.list", Plain, "list")
SearchRoute     == Route("chats.search", Read, "list")
HistoryRoute    == Route("messages.history", Read, "may")
MarkReadRoute   == Route("messages.read", Read, "flag")
InfoRoute       == Route("chats.resolve", Read, "may")
CommentsRoute   == Route("messages.comments", Read, "may")
SubscribeRoute  == Route("chats.subscribe", Read, "may")
LeaveRoute      == Route("chats.unsubscribe", Read, "may")
SettingsRoute   == Route("settings.read", Plain, "list")
ContactRoute    == Route("contacts.describe", Read, "may")
MediaRoute      == Route("media.open", Read, "may")
LogoutRoute     == Route("session.close", Plain \cup {"origin"}, "flag")

Routes == [text |-> TextRoute, retry |-> RetryRoute, attachment |-> AttachmentRoute,
    edit |-> EditRoute, delete |-> DeleteRoute, forward |-> ForwardRoute,
    reaction |-> ReactionRoute, action |-> ActionRoute, stickers |-> StickersRoute,
    sticker |-> StickerRoute, chats |-> ChatsRoute, search |-> SearchRoute,
    history |-> HistoryRoute, read |-> MarkReadRoute, info |-> InfoRoute,
    comments |-> CommentsRoute, subscribe |-> SubscribeRoute, leave |-> LeaveRoute,
    settings |-> SettingsRoute, contact |-> ContactRoute, media |-> MediaRoute,
    logout |-> LogoutRoute]

Refusal == [schema |-> 400, principal |-> 401, origin |-> 403, confirmation |-> 400, body |-> 400]

\* What the route makes of the worker's answer.  Media the worker fails to fetch is missing
\* too, and so is media whose time has passed.
Code(route, outcome) ==
    CASE outcome = "ok" \/ (outcome = "nothing" /\ route.answer = "flag") -> 200
      [] outcome = "nothing" /\ route.answer = "may" -> 404
      [] outcome = "failed" /\ route.operation = "media.open" -> 404
      [] OTHER -> 500

-----------------------------------------------------------------------------
(* The API.                                                                *)

RouteOf(t) == Routes[served[t].route]

Step(t, pc) == served' = [served EXCEPT ![t].pc = pc]

\* A defect: only a request that ends well removes its file.
AnswerAndKeep(t, outcome) ==
    served' = [served EXCEPT ![t] =
        IF served[t].route = "attachment" /\ outcome = "ok"
        THEN [@ EXCEPT !.code = Code(RouteOf(t), outcome), !.pc = "unlink"]
        ELSE Over(Code(RouteOf(t), outcome))]

\* The answer, and what the route's `finally` has to do yet.
Answer(t, outcome) ==
    served' = [served EXCEPT ![t] =
        IF served[t].route = "attachment"
        THEN [@ EXCEPT !.code = Code(RouteOf(t), outcome), !.pc = "unlink"]
        ELSE Over(Code(RouteOf(t), outcome))]

Receive(t, name) ==
    /\ served[t].pc = "idle" /\ requests < MaxServed /\ requests' = requests + 1
    /\ \/ \E wrong \in Routes[name].refused :
            served' = [served EXCEPT ![t] = Over(Refusal[wrong])]
       \/ served' = [served EXCEPT ![t] =
            [pc |-> IF name = "attachment" THEN "directory" ELSE "session", route |-> name,
             number |-> requests', code |-> 0]]
    /\ UNCHANGED <<inLine, directories, uploads, media, worker, left, shutdowns>>

\* mkdir and mkdtemp; what fails here is before the `try`.
MakeDirectory(t) ==
    /\ served[t].pc = "directory"
    /\ \/ directories' = directories \cup {served[t].number} /\ Step(t, "write")
       \/ served' = [served EXCEPT ![t] = Over(500)] /\ UNCHANGED directories
    /\ UNCHANGED <<requests, inLine, uploads, media, worker, left, shutdowns>>

\* A file that cannot be written may be there in part.
WriteFile(t) ==
    /\ served[t].pc = "write"
    /\ \/ uploads' = uploads \cup {served[t].number} /\ Step(t, "session")
       \/ uploads' \in {uploads, uploads \cup {served[t].number}} /\ Answer(t, "failed")
    /\ UNCHANGED <<requests, inLine, directories, media, worker, left, shutdowns>>

\* ensureSession, which may fail, and the request to the worker.
Request(t) ==
    /\ served[t].pc = "session"
    /\ \/ /\ worker = "up" /\ Step(t, "asked")
          /\ inLine' = Append(inLine, [number |-> served[t].number,
                                       operation |-> RouteOf(t).operation, step |-> "waiting"])
       \/ Answer(t, "refused") /\ UNCHANGED inLine
    /\ UNCHANGED <<requests, directories, uploads, media, worker, left, shutdowns>>

\* The worker is too slow or gone; it may carry the operation out all the same.
GivenUp(t) ==
    /\ served[t].pc = "asked" /\ Answer(t, "failed")
    /\ UNCHANGED <<requests, inLine, directories, uploads, media, worker, left, shutdowns>>

RemoveUpload(t) ==
    /\ served[t].pc = "unlink" /\ Step(t, "rmdir")
    /\ uploads' = uploads \ {served[t].number}
    /\ UNCHANGED <<requests, inLine, directories, media, worker, left, shutdowns>>

RemoveDirectory(t) ==
    /\ served[t].pc = "rmdir" /\ served' = [served EXCEPT ![t] = Over(@.code)]
    /\ directories' = directories \ {served[t].number}
    /\ UNCHANGED <<requests, inLine, uploads, media, worker, left, shutdowns>>

-----------------------------------------------------------------------------
(* The worker.                                                             *)

Running == Head(inLine)
Advance(step) == inLine' = <<[Running EXCEPT !.step = step]>> \o Tail(inLine)

\* The operation is over: whoever still waits for it is answered.
Finish(outcome) ==
    /\ inLine' = Tail(inLine)
    /\ IF \E t \in Serving : served[t].pc = "asked" /\ served[t].number = Running.number
       THEN \E t \in Serving :
              served[t].pc = "asked" /\ served[t].number = Running.number /\ Answer(t, outcome)
       ELSE UNCHANGED served
    /\ UNCHANGED <<requests, directories, uploads, left, worker, shutdowns>>

\* Any other operation: what was looked for is there, is not, or the page throws.
Operation ==
    /\ inLine # <<>> /\ Running.operation \notin {"message.sendAttachment", "media.open", "session.close"}
    /\ \E outcome \in {"ok", "nothing", "failed"} : Finish(outcome)
    /\ UNCHANGED media

\* sendAttachment looks at the file, and MAX's page reads it some steps later.
Attachment ==
    /\ inLine # <<>> /\ Running.operation = "message.sendAttachment"
    /\ \/ /\ Running.step = "waiting" /\ Running.number \in uploads
          /\ Advance("attaching") /\ UNCHANGED <<atApi, worker, left, shutdowns>>
       \/ Running.step = "attaching" /\ Running.number \in uploads /\ Finish("ok")
       \/ Finish("failed")
    /\ UNCHANGED media

\* openMedia: MAX is asked for the address and the bytes, which may fail, then the store
\* for a place, which a closed store refuses.
FetchMedia ==
    /\ inLine # <<>> /\ Running.operation = "media.open" /\ Running.step = "waiting"
    /\ \/ /\ worker = "up" /\ Advance("writing") /\ onDisk' = onDisk \cup {Running.number}
          /\ UNCHANGED <<atApi, worker, left, shutdowns, kept, removing>>
       \/ Finish("failed") /\ UNCHANGED media

\* A defect: a file that could not be written to its end stays.
StoreMediaAnyway ==
    /\ inLine # <<>> /\ Running.step = "writing" /\ UNCHANGED <<onDisk, removing>>
    /\ \/ kept' = kept \cup {Running.number} /\ Finish("ok")
       \/ UNCHANGED kept /\ Finish("failed")

\* putStream: the file is registered with its timer, or removed.
StoreMedia ==
    /\ inLine # <<>> /\ Running.step = "writing" /\ UNCHANGED removing
    /\ \/ kept' = kept \cup {Running.number} /\ UNCHANGED onDisk /\ Finish("ok")
       \/ onDisk' = onDisk \ {Running.number} /\ UNCHANGED kept /\ Finish("failed")

\* expire, of one file by its timer, of all by close.
Expire(files) == kept' = kept \ files /\ removing' = removing \cup files /\ UNCHANGED onDisk

TimerExpires(n) ==
    /\ n \in kept /\ Expire({n})
    /\ UNCHANGED <<atApi, inLine, worker, left, shutdowns>>

Unlinked(n) ==
    /\ n \in removing /\ removing' = removing \ {n} /\ onDisk' = onDisk \ {n}
    /\ UNCHANGED <<atApi, inLine, kept, worker, left, shutdowns>>

CloseSession ==
    /\ inLine # <<>> /\ Running.operation = "session.close"
    /\ Expire(kept) /\ Finish("ok")

\* SIGTERM: the connection is closed first, then every session, without waiting for what
\* runs; the process lives on until what it writes is written.
Writing == IF inLine # <<>> /\ Running.step = "writing" THEN {Running.number} ELSE {}

ShutDown ==
    /\ worker = "up" /\ shutdowns < MaxShutdowns /\ shutdowns' = shutdowns + 1
    /\ worker' = "closing" /\ left' = left \cup Writing /\ Expire(kept)
    /\ UNCHANGED <<atApi, inLine>>

Exit ==
    /\ worker = "closing" /\ removing = {} /\ Writing = {}
    /\ worker' = "down" /\ inLine' = <<>> /\ kept' = {}
    /\ UNCHANGED <<atApi, onDisk, removing, left, shutdowns>>

\* A crash, a lack of memory (MemoryMax) or a stop that takes too long (TimeoutStopSec) ends the
\* worker at once: the timers and what the store knows of its files are gone, the files are not,
\* and a store made anew does not look for them.
WorkerKilled ==
    /\ worker # "down" /\ shutdowns < MaxShutdowns /\ shutdowns' = shutdowns + 1
    /\ worker' = "down" /\ inLine' = <<>> /\ kept' = {} /\ removing' = {}
    /\ left' = left \cup onDisk
    /\ UNCHANGED <<atApi, onDisk>>

\* The same of the API, whose `finally` is all that removes a directory.  The worker goes on.
ApiKilled ==
    /\ shutdowns < MaxShutdowns /\ shutdowns' = shutdowns + 1
    /\ served' = [t \in Serving |-> Over(0)] /\ left' = left \cup directories
    /\ UNCHANGED <<requests, directories, uploads, inLine, media, worker>>

Restart ==
    /\ worker = "down" /\ worker' = "up"
    /\ UNCHANGED <<atApi, inLine, media, left, shutdowns>>

RequestsNext ==
    \/ \E t \in Serving, name \in DOMAIN Routes : Receive(t, name)
    \/ \E t \in Serving :
         \/ MakeDirectory(t) \/ WriteFile(t) \/ Request(t) \/ GivenUp(t)
         \/ RemoveUpload(t) \/ RemoveDirectory(t)
    \/ Operation \/ Attachment \/ FetchMedia \/ StoreMedia \/ CloseSession
    \/ \E n \in kept : TimerExpires(n)
    \/ \E n \in removing : Unlinked(n)
    \/ ShutDown \/ Exit \/ WorkerKilled \/ ApiKilled \/ Restart

RequestsSpec == RequestsInit /\ [][RequestsNext]_requestVars

-----------------------------------------------------------------------------

Numbers == 1 .. MaxServed
Codes   == {0, 200, 400, 401, 403, 404, 500}

RequestsTypeOK ==
    /\ served \in [Serving -> [pc : {"idle", "directory", "write", "session", "asked", "unlink", "rmdir"},
                               route : DOMAIN Routes \cup {"none"}, number : 0 .. MaxServed, code : Codes]]
    /\ requests \in 0 .. MaxServed /\ shutdowns \in 0 .. MaxShutdowns
    /\ inLine \in Seq([number : Numbers, operation : {Routes[r].operation : r \in DOMAIN Routes},
                       step : {"waiting", "attaching", "writing"}])
    /\ directories \cup uploads \cup onDisk \cup kept \cup removing \cup left \subseteq Numbers
    /\ worker \in {"up", "closing", "down"}

\* What somebody will remove: media that is written, whose timer runs, or that is being removed.
MediaHeld == kept \cup removing \cup Writing

\* Nothing private stays in the shared directory: an attachment exists only while its
\* request is served, whatever fails, times out or is carried out late, and media exists
\* only while it is written, while its timer runs or while it is being removed.  What stays
\* is what a process had in hand when it was ended without its clean-up: the directories of
\* the requests the API was serving when it was killed, and the media that was on disk when the
\* worker was killed or was being written when it was stopped; nothing that came later.
FilesHeld ==
    /\ \A n \in directories \ left : \E t \in Serving :
         served[t].number = n /\ served[t].pc \in {"write", "session", "asked", "unlink", "rmdir"}
    /\ uploads \subseteq directories
    /\ onDisk \subseteq MediaHeld \cup left
=============================================================================
