------------------------------ MODULE Messenger ------------------------------
(***************************************************************************)
(* The messenger of the Mini App: the client's store (messenger-store.ts), *)
(* the screen that fills it (ConnectedMessenger.tsx), its conversation and *)
(* its composer.  Every operation of the screen asks the API, some of them *)
(* several times, and goes on when the answer is there: meanwhile the user *)
(* does something else, other answers come and live events change the     *)
(* store.                                                                  *)
(*                                                                         *)
(* A message is a value with its room; texts, avatars, counters and the    *)
(* order of the messages are left out.                                     *)
(***************************************************************************)
EXTENDS Integers, Sequences, FiniteSets

CONSTANTS
    Room,        \* chats
    Post,        \* messages, and
    RoomOf,      \* the room of each
    FirstRooms,  \* rooms of the viewer's list at first
    FirstPosts,  \* messages that are there at first
    MaxActs,     \* bound: what the user asks for
    MaxNews,     \* bound: what others do
    NoRoom, NoPost, NoReply

ASSUME MessengerAssumption ==
    /\ FirstRooms \subseteq Room /\ FirstPosts \subseteq Post /\ RoomOf \in [Post -> Room]
    /\ NoRoom \notin Room /\ NoPost \notin Post /\ {MaxActs, MaxNews} \subseteq Nat

VARIABLES
    mine,    \* rooms the viewer has joined, as MAX has them
    there,   \* messages MAX has
    gone,    \* messages that were deleted
    news,    \* live events on their way
    linked,  \* the live connection is up
    view,    \* the store and the state of the screen
    work,    \* operations under way
    acts, others

messengerVars == <<mine, there, gone, news, linked, view, work, acts, others>>

PostsIn(room) == {p \in Post : RoomOf[p] = room}
Unsent        == Post \ (there \cup gone)

NoThread  == [post |-> NoPost, loading |-> FALSE]
NoForward == [post |-> NoPost, state |-> "idle"]

-----------------------------------------------------------------------------
(* The store. *)

\* A defect: a refreshed list forgets the chats that are only visited.
ReplaceChatsAnew(v, rooms) == [v EXCEPT !.listed = rooms]

\* replaceChats keeps the chats that are only visited.
ReplaceChats(v, rooms) == [v EXCEPT !.listed = rooms \cup v.transient]

AddTransientChat(v, room) ==
    IF room \in v.listed THEN v
    ELSE [v EXCEPT !.listed = @ \cup {room}, !.transient = @ \cup {room}]

RemoveTransientChat(v, room) ==
    IF room \notin v.transient THEN v
    ELSE [v EXCEPT !.transient = @ \ {room}, !.listed = @ \ {room},
                   !.shown = IF v.selected = room THEN {} ELSE @]

(* What rendering another chat resets: an upload of the chat before, and   *)
(* what its composer answers or edits.                                     *)
OpenChat(v) == IF v.selected \in v.listed THEN v.selected ELSE NoRoom

Rendered(old, new) ==
    LET v == IF new.selected = old.selected THEN new
             ELSE [new EXCEPT !.uploads = @ + 1, !.uploading = FALSE, !.upload = "idle"]
    IN  IF OpenChat(new) = OpenChat(old) THEN v ELSE [v EXCEPT !.context = NoPost]

\* Another chat is selected, or none: those only visited are forgotten.
Select(v, room) ==
    LET dropped == v.transient \ {room} IN
        [v EXCEPT !.selected = room, !.shown = {}, !.transient = @ \ dropped,
                  !.listed = @ \ dropped]

\* clearSelection
ClearSelection(v) == Select(v, NoRoom)

\* A defect: an answer takes the place of what live events have brought.
MergeHistoryReplacing(v, posts) == [v EXCEPT !.shown = posts, !.behind = @ \ posts]

MergeHistory(v, posts) == [v EXCEPT !.shown = @ \cup posts, !.behind = @ \ posts]

\* replaceCurrentMessages
ReplaceMessages(v, posts) ==
    [v EXCEPT !.shown = posts, !.behind = (@ \cup v.shown) \ posts]

Cached(v, room) == IF v.cache[room] = NoReply THEN {} ELSE v.cache[room]
Remember(v, room, posts) == [v EXCEPT !.cache = [@ EXCEPT ![room] = posts]]

\* applyEvent
ApplyEvent(v, event) ==
    IF RoomOf[event.post] # v.selected THEN v
    ELSE IF event.deleted THEN [v EXCEPT !.shown = @ \ {event.post}]
    ELSE MergeHistory(v, {event.post})

-----------------------------------------------------------------------------
(* Operations: what each asks the API for, in order. *)

Task(kind, room, post) ==
    [kind |-> kind, room |-> room, post |-> post, from |-> NoRoom, n |-> 0, at |-> "mutate",
     reply |-> NoReply]

\* An operation is awaited until its answer or its failure.
Asking(t, at) == [t EXCEPT !.at = at, !.reply = NoReply]

\* selectChat up to its await: what is remembered of the chat is shown at once.
SelectChat(v, room) ==
    [MergeHistory(Select(v, room), Cached(v, room)) EXCEPT
        !.latest = @ + 1, !.loading = v.cache[room] = NoReply]

Selecting(t, v, room) ==
    [Asking(t, "history") EXCEPT !.kind = "select", !.room = room, !.n = v.latest]

\* The task t is over, or goes on as one of next; the screen is rendered.
Goes(t, next, v) ==
    /\ work' = (work \ {t}) \cup next
    /\ view' = Rendered(view, v)

MessengerInit ==
    /\ mine = FirstRooms /\ there = FirstPosts /\ gone = {} /\ news = <<>> /\ linked = TRUE
    /\ view = [loaded |-> FALSE, failed |-> FALSE, over |-> FALSE,
               listed |-> {}, transient |-> {}, selected |-> NoRoom, shown |-> {},
               cache |-> [room \in Room |-> NoReply], latest |-> 0, loading |-> FALSE,
               uploads |-> 0, uploading |-> FALSE, upload |-> "idle",
               threads |-> 0, thread |-> NoThread, forward |-> NoForward, context |-> NoPost, behind |-> {}]
    /\ work = {[Task("initial", NoRoom, NoPost) EXCEPT !.at = "list"]}
    /\ acts = 0 /\ others = 0

-----------------------------------------------------------------------------
(* The user. *)

Usable == view.loaded /\ ~view.failed /\ ~view.over

Act ==
    /\ Usable /\ acts < MaxActs
    /\ acts' = acts + 1
    /\ UNCHANGED <<mine, there, gone, news, linked, others>>

\* What asks for nothing.
Touch == Usable /\ UNCHANGED <<mine, there, gone, news, linked, acts, others, work>>

Starts(t, v) == work' = work \cup {t} /\ view' = Rendered(view, v)

Choose(room) ==
    /\ Act /\ room \in view.listed
    /\ LET v == SelectChat(view, room) IN Starts(Selecting(Task("select", room, NoPost), v, room), v)

\* openForwardedSource visits a chat the viewer may not have.
OpenForwardedSource(room) ==
    /\ Act /\ view.selected # NoRoom
    /\ LET v == SelectChat(AddTransientChat(view, room), room)
           t == Selecting(Task("source", room, NoPost), v, room)
       IN Starts([t EXCEPT !.kind = "source", !.from = view.selected,
                           !.post = IF room \in view.listed THEN NoPost ELSE "added"], v)

\* send, sendSticker, and the answer to a message: an answer or an edit ends its context.
SendMessage_(post, kind) ==
    /\ Act /\ view.selected # NoRoom /\ post \in Unsent /\ RoomOf[post] = view.selected
    /\ kind \in {"send", "sticker"}
    /\ Starts(Task(kind, view.selected, post),
              IF kind = "send" THEN [view EXCEPT !.context = NoPost] ELSE view)

Context(post) ==
    /\ Touch /\ post \in view.shown /\ OpenChat(view) # NoRoom
    /\ view' = [view EXCEPT !.context = post]

\* editMessage of the composer's context.
SubmitEdit ==
    /\ Act /\ view.context # NoPost
    /\ Starts(Task("edit", view.selected, view.context), [view EXCEPT !.context = NoPost])

DeleteMessage_(post) ==
    /\ Act /\ post \in view.shown
    /\ Starts(Task("delete", view.selected, post), view)

ReactMessage(post) ==
    /\ Act /\ post \in view.shown
    /\ Starts(Task("react", view.selected, post), view)

\* sendAttachment, also as a retry: one at a time.
SendAttachment_(post) ==
    /\ Act /\ view.selected # NoRoom /\ ~view.uploading
    /\ post \in Unsent /\ RoomOf[post] = view.selected
    /\ LET v == [view EXCEPT !.uploads = @ + 1, !.uploading = TRUE, !.upload = "sending"]
       IN Starts([Task("attach", view.selected, post) EXCEPT !.n = v.uploads], v)

CancelAttachment ==
    /\ Touch /\ view.upload = "failed"
    /\ view' = [view EXCEPT !.upload = "idle"]

ApplyChatAction(room, kind) ==
    /\ Act /\ room \in view.listed /\ kind \in {"mute", "clear", "remove"}
    /\ Starts(Task(kind, room, NoPost), view)

\* subscribe, from a search result or in a chat that is only visited.
Subscribe(room) ==
    /\ Act /\ (room \notin view.listed \/ room \in view.transient)
    /\ Starts(Task("join", room, NoPost), view)

Unsubscribe(room) ==
    /\ Act /\ room \in view.listed
    /\ Starts(Task("leave", room, NoPost), view)

OpenComments(post) ==
    /\ Act /\ post \in view.shown
    /\ LET v == [view EXCEPT !.threads = @ + 1, !.thread = [post |-> post, loading |-> TRUE]]
       IN Starts([Asking(Task("comments", view.selected, post), "comments") EXCEPT !.n = v.threads], v)

CloseComments ==
    /\ Touch /\ view.thread # NoThread
    /\ view' = [view EXCEPT !.threads = @ + 1, !.thread = NoThread]

ReactToComment ==
    /\ Act /\ view.thread # NoThread /\ view.selected # NoRoom
    /\ Starts(Task("reactToComment", view.selected, view.thread.post), view)

\* The picker of a forwarded message's destinations stays when another chat is selected.
OpenForward(post) ==
    /\ Touch /\ post \in view.shown /\ view.forward = NoForward
    /\ view' = [view EXCEPT !.forward = [@ EXCEPT !.post = post]]

\* toggle, and the picker's buttons.
ToggleDestination ==
    /\ Touch /\ view.forward.state \in {"confirmed", "ambiguous", "failed"}
    /\ view' = [view EXCEPT !.forward = [@ EXCEPT !.state = "idle"]]

CloseForward ==
    /\ Touch /\ view.forward # NoForward /\ view.forward.state # "sending"
    /\ view' = [view EXCEPT !.forward = NoForward]

\* confirm: the message is forwarded from the chat that is selected by now.
ConfirmForward ==
    /\ Act /\ view.forward # NoForward /\ view.forward.state \notin {"sending", "confirmed"}
    /\ IF view.selected = NoRoom
       THEN view' = [view EXCEPT !.forward = [@ EXCEPT !.state = "failed"]] /\ UNCHANGED work
       ELSE Starts(Task("forward", view.selected, view.forward.post),
                   [view EXCEPT !.forward = [@ EXCEPT !.state = "sending"]])

\* refreshCurrentData: the Mini App is in the foreground again and its link came back.
RefreshCurrentData ==
    /\ Act /\ linked
    /\ Starts(Asking(Task("refresh", NoRoom, NoPost), "list"), view)

Logout_ == Act /\ Starts(Task("logout", NoRoom, NoPost), view)

-----------------------------------------------------------------------------
(* MAX, behind the API. *)

\* A live event reaches the page while its connection is up.
Tell(posts, deleted) ==
    IF ~linked \/ posts = {} THEN UNCHANGED news
    ELSE news' = Append(news, [post |-> CHOOSE p \in posts : TRUE, deleted |-> deleted])

Unheard(posts) == IF linked THEN {} ELSE posts

Handle(t) ==
    /\ t.reply = NoReply
    /\ LET sent    == IF t.at = "mutate" /\ t.kind \in {"send", "sticker", "attach"}
                      THEN {t.post} \cap Unsent ELSE {}
           deleted == CASE t.at = "mutate" /\ t.kind = "delete" -> {t.post} \cap there
                        [] t.at = "mutate" /\ t.kind = "clear"  -> there \cap PostsIn(t.room)
                        [] OTHER -> {}
           answer  == CASE t.at = "list"    -> mine
                        [] t.at = "history" -> there \cap PostsIn(t.room)
                        [] OTHER -> {}
       IN /\ there' = (there \cup sent) \ deleted /\ gone' = gone \cup deleted
          /\ mine' = CASE t.at = "mutate" /\ t.kind = "join" -> mine \cup {t.room}
                       [] t.at = "mutate" /\ t.kind \in {"leave", "remove"} -> mine \ {t.room}
                       [] OTHER -> mine
          /\ Tell(IF t.kind = "delete" THEN deleted ELSE sent, t.kind = "delete")
          /\ work' = (work \ {t}) \cup {[t EXCEPT !.reply = answer]}
          /\ view' = [view EXCEPT !.behind = @ \cup Unheard(sent)]
    /\ UNCHANGED <<linked, acts, others>>

\* Somebody else, or the user on another device.
Elsewhere ==
    /\ others < MaxNews /\ others' = others + 1
    /\ \/ \E p \in Unsent : /\ \A t \in work : t.post # p
                            /\ there' = there \cup {p} /\ Tell({p}, FALSE) /\ UNCHANGED gone
                            /\ view' = [view EXCEPT !.behind = @ \cup Unheard({p})]
       \/ \E p \in there : /\ there' = there \ {p} /\ gone' = gone \cup {p} /\ Tell({p}, TRUE)
                           /\ UNCHANGED view
    /\ UNCHANGED <<mine, linked, work, acts>>

LiveEvent ==
    /\ news # <<>>
    /\ news' = Tail(news) /\ view' = ApplyEvent(view, Head(news))
    /\ UNCHANGED <<mine, there, gone, linked, work, acts, others>>

\* connection.state: what was on its way is lost, and so is what happens meanwhile.
Linked ==
    /\ linked' = ~linked /\ others < MaxNews /\ others' = others + 1
    /\ news' = <<>>
    /\ view' = [view EXCEPT !.behind = @ \cup {news[i].post : i \in DOMAIN news}]
    /\ UNCHANGED <<mine, there, gone, work, acts>>

-----------------------------------------------------------------------------
(* The operations go on. *)

ListReturned(t) ==
    LET v == ReplaceChats(view, t.reply) IN
    /\ t.at = "list" /\ t.reply # NoReply
    /\ \/ /\ t.kind = "initial"
          /\ IF t.reply = {} THEN Goes(t, {}, [v EXCEPT !.loaded = TRUE])
             ELSE \E room \in t.reply :
                    LET w == [Select(v, room) EXCEPT
                                !.latest = @ + 1, !.loading = TRUE, !.loaded = TRUE]
                    IN Goes(t, {[Asking(t, "history") EXCEPT !.room = room, !.n = w.latest]}, w)
       \/ /\ t.kind = "refresh"
          /\ IF view.selected = NoRoom THEN Goes(t, {}, v)
             ELSE LET w == [v EXCEPT !.latest = @ + 1]
                  IN Goes(t, {[Asking(t, "history") EXCEPT !.room = v.selected, !.n = w.latest]}, w)
       \/ /\ t.kind = "join"
          /\ LET w == SelectChat(v, t.room) IN Goes(t, {Selecting(t, w, t.room)}, w)
       \/ /\ t.kind = "mute" /\ Goes(t, {}, v)
       \/ /\ t.kind = "clear"
          /\ Goes(t, IF v.selected = t.room THEN {Asking(t, "history")} ELSE {}, v)
       \/ /\ t.kind \in {"leave", "remove"}
          /\ LET w == [v EXCEPT !.cache = [@ EXCEPT ![t.room] = NoReply]] IN
               IF t.kind = "remove" /\ v.selected # t.room THEN Goes(t, {}, w)
               ELSE IF t.reply = {}
               THEN Goes(t, {}, IF t.kind = "remove" THEN ClearSelection(w) ELSE w)
               ELSE \E room \in t.reply :
                      LET x == SelectChat(w, room) IN Goes(t, {Selecting(t, x, room)}, x)
    /\ UNCHANGED <<mine, there, gone, news, linked, acts, others>>

\* The end of the operations that load a selected chat.
Loaded(v, t) == IF t.n = v.latest THEN [v EXCEPT !.loading = FALSE] ELSE v

(* Defects a change of the screen could bring in. *)
Anywhere(t) == TRUE

\* An answer is for the messages of the chat that is selected when it comes.
StillSelected(t) == view.selected = t.room

HistoryReturned(t) ==
    LET v == Remember(view, t.room, t.reply) IN
    /\ t.at = "history" /\ t.reply # NoReply
    /\ \/ /\ t.kind \in {"initial", "select", "source"}
          /\ Goes(t, {}, Loaded(IF t.n = view.latest /\ StillSelected(t)
                                THEN MergeHistory(v, t.reply) ELSE v, t))
       \/ /\ t.kind = "refresh"
          /\ Goes(t, {}, IF t.n = view.latest /\ StillSelected(t)
                         THEN ReplaceMessages(v, t.reply) ELSE v)
       \/ /\ t.kind \in {"send", "sticker", "edit", "react", "delete", "clear", "attach"}
          /\ LET w == IF ~StillSelected(t) THEN v
                      ELSE IF t.kind \in {"delete", "clear"} THEN ReplaceMessages(v, t.reply)
                      ELSE MergeHistory(v, t.reply)
             IN Goes(t, {}, IF t.kind = "attach" /\ t.n = w.uploads
                            THEN [w EXCEPT !.uploading = FALSE] ELSE w)
    /\ UNCHANGED <<mine, there, gone, news, linked, acts, others>>

MutationReturned(t) ==
    /\ t.at = "mutate" /\ t.reply # NoReply
    /\ \/ /\ t.kind \in {"send", "sticker", "edit", "react"}
          /\ Goes(t, {Asking(t, "history")}, view)
       \/ /\ t.kind = "delete"
          /\ Goes(t, {Asking(t, "history")},
                  ApplyEvent(view, [post |-> t.post, deleted |-> TRUE]))
       \/ /\ t.kind \in {"mute", "clear", "remove", "join", "leave"}
          /\ Goes(t, {Asking(t, "list")}, view)
       \/ /\ t.kind = "forward"
          /\ \E state \in {"confirmed", "ambiguous"} :
               Goes(t, {}, [view EXCEPT !.forward = [@ EXCEPT !.state = state]])
       \/ /\ t.kind = "reactToComment"
          /\ Goes(t, {[Asking(t, "comments") EXCEPT !.n = view.threads]}, view)
       \/ /\ t.kind = "logout"
          /\ Goes(t, {}, [view EXCEPT !.over = TRUE, !.cache = [room \in Room |-> NoReply]])
       \/ /\ t.kind = "attach"
          /\ LET current == t.n = view.uploads
                 v == IF current THEN [view EXCEPT !.uploading = FALSE] ELSE view
             IN IF ~current \/ ~StillSelected(t) THEN Goes(t, {}, v)
                ELSE \/ Goes(t, {}, [v EXCEPT !.upload = "failed"])       \* ambiguous
                     \/ Goes(t, {Asking(t, "history")}, [view EXCEPT !.upload = "idle"])
    /\ UNCHANGED <<mine, there, gone, news, linked, acts, others>>

CommentsReturned(t) ==
    /\ t.at = "comments" /\ t.reply # NoReply
    /\ Goes(t, {}, IF t.n = view.threads
                   THEN [view EXCEPT !.thread = [post |-> t.post, loading |-> FALSE]] ELSE view)
    /\ UNCHANGED <<mine, there, gone, news, linked, acts, others>>

(* A request fails, or its answer is lost. *)
Fail(t) ==
    LET lost == [view EXCEPT !.behind = @ \cup (there \cap PostsIn(t.room))]
        v    == IF t.at = "history" THEN lost ELSE view
    IN
    /\ \/ /\ t.kind = "initial"
          /\ Goes(t, {}, IF t.at = "list" THEN [v EXCEPT !.loaded = TRUE, !.failed = TRUE]
                         ELSE Loaded(v, t))
       \/ /\ t.kind = "select" /\ Goes(t, {}, Loaded(v, t))
       \/ /\ t.kind = "source"
          /\ LET w == Loaded(v, t)
                 x == IF t.post = "added" THEN RemoveTransientChat(w, t.room) ELSE w
                 y == Select(x, t.from)
                 z == IF x.cache[t.from] = NoReply THEN y ELSE ReplaceMessages(y, x.cache[t.from])
             IN IF view.selected # t.room THEN Goes(t, {}, w)
                ELSE Goes(t, {}, [z EXCEPT !.loading = FALSE,
                                           !.behind = @ \cup (there \cap PostsIn(t.from))])
       \/ /\ t.kind = "attach"
          /\ IF t.n # view.uploads THEN Goes(t, {}, v)
             ELSE Goes(t, {}, [v EXCEPT !.uploading = FALSE,
                        !.upload = IF t.at = "mutate" /\ StillSelected(t) THEN "failed" ELSE @])
       \/ /\ t.kind = "comments"
          /\ Goes(t, {}, IF t.n = view.threads THEN [v EXCEPT !.thread = [@ EXCEPT !.loading = FALSE]] ELSE v)
       \/ /\ t.kind = "forward" /\ Goes(t, {}, [v EXCEPT !.forward = [@ EXCEPT !.state = "failed"]])
       \/ /\ t.kind \notin {"initial", "select", "source", "attach", "comments", "forward"}
          /\ Goes(t, {}, v)
    /\ UNCHANGED <<mine, there, gone, news, linked, acts, others>>

-----------------------------------------------------------------------------
UserActs ==
    \/ \E room \in Room : Choose(room) \/ OpenForwardedSource(room) \/ Subscribe(room)
                          \/ Unsubscribe(room)
    \/ \E room \in Room, kind \in {"mute", "clear", "remove"} : ApplyChatAction(room, kind)
    \/ \E post \in Post : \/ Context(post) \/ DeleteMessage_(post) \/ ReactMessage(post)
                          \/ SendAttachment_(post) \/ OpenComments(post)
                          \/ OpenForward(post)
    \/ \E post \in Post, kind \in {"send", "sticker"} : SendMessage_(post, kind)
    \/ SubmitEdit \/ CancelAttachment \/ CloseComments \/ ReactToComment
    \/ ToggleDestination \/ CloseForward \/ ConfirmForward \/ RefreshCurrentData \/ Logout_

Goes_on == \E t \in work : \/ ListReturned(t) \/ HistoryReturned(t) \/ MutationReturned(t)
                           \/ CommentsReturned(t) \/ Fail(t)

MessengerNext ==
    \/ UserActs \/ Goes_on \/ LiveEvent \/ Linked \/ Elsewhere
    \/ \E t \in work : Handle(t)

MessengerSpec == MessengerInit /\ [][MessengerNext]_messengerVars

-----------------------------------------------------------------------------
MessengerTypeOK ==
    /\ view.selected \in Room \cup {NoRoom} /\ view.shown \subseteq Post
    /\ view.listed \subseteq Room /\ view.transient \subseteq view.listed
    /\ view.context \in Post \cup {NoPost} /\ view.upload \in {"idle", "sending", "failed"}
    /\ \A room \in Room : view.cache[room] # NoReply => view.cache[room] \subseteq PostsIn(room)
    /\ there \cap gone = {} /\ mine \subseteq Room

(* What the screen shows belongs together, whatever is answered late: the  *)
(* messages and the composer's context are of the selected chat, a chat    *)
(* that is only visited is the selected one, and what is shown as being    *)
(* sent or loaded is under way.                                            *)
ViewConsistent ==
    /\ view.shown \subseteq PostsIn(view.selected)
    /\ view.context # NoPost => RoomOf[view.context] = view.selected
    /\ view.transient \subseteq {view.selected}
    /\ view.upload = "sending" =>
         \E t \in work : t.kind = "attach" /\ t.n = view.uploads /\ t.room = view.selected
    /\ view.thread.loading =>
         \E t \in work : t.kind = "comments" /\ t.n = view.threads /\ t.post = view.thread.post
    /\ view.forward.state = "sending" =>
         \E t \in work : t.kind = "forward" /\ t.post = view.forward.post

(* When nothing is under way the selected chat shows every message MAX has *)
(* of it: except messages whose event was lost, whose history could not be *)
(* read, or that an answer from before them has taken the place of.        *)
CaughtUp ==
    work = {} /\ news = <<>> /\ view.selected # NoRoom =>
        (there \cap PostsIn(view.selected)) \ view.behind \subseteq view.shown
=============================================================================
