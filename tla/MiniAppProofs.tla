---------------------------- MODULE MiniAppProofs ----------------------------
(***************************************************************************)
(* Safety of what the user has before them and of what the API does for    *)
(* it, each part by itself and for every value of its constants: the       *)
(* messenger, the gestures, the media viewer, the captcha and the          *)
(* notifications; and, with the sign-in, the accounts and the requests of  *)
(* AccountsProofs and RequestsProofs, all parts together.                  *)
(***************************************************************************)
EXTENDS MCMiniApp, AccountsProofs, RequestsProofs, SequenceTheorems, FiniteSetTheorems, TLAPS

-----------------------------------------------------------------------------
(* The messenger.  ViewConsistent is not inductive: it rests on what is    *)
(* remembered of each chat, on what each operation under way will do, and  *)
(* on a composer's context being of the chat that is open.                 *)

Kinds == {"initial", "select", "source", "send", "sticker", "edit", "delete", "react", "attach",
          "mute", "clear", "remove", "join", "leave", "comments", "reactToComment", "forward",
          "refresh", "logout"}
Rooms == Room \cup {NoRoom}
PostNames == Post \cup {NoPost, "added"}

Views ==
  [loaded : BOOLEAN, failed : BOOLEAN, over : BOOLEAN, listed : SUBSET Room,
   transient : SUBSET Room, selected : Rooms, shown : SUBSET Post,
   cache : [Room -> (SUBSET Post) \cup {NoReply}], latest : Nat, loading : BOOLEAN,
   uploads : Nat, uploading : BOOLEAN, upload : {"idle", "sending", "failed"}, threads : Nat,
   thread : [post : PostNames, loading : BOOLEAN],
   forward : [post : PostNames, state : {"idle", "sending", "confirmed", "ambiguous", "failed"}],
   context : Post \cup {NoPost}, behind : SUBSET Post]

Tasks == [kind : Kinds, room : Rooms, post : PostNames, from : Rooms, n : Nat,
          at : {"mutate", "list", "history", "comments"},
          reply : (SUBSET Post) \cup (SUBSET Room) \cup {NoReply}]

News_ == [post : Post, deleted : BOOLEAN]

\* The store's part: also between the steps of an operation that selects another chat.
CacheInv(v) ==
  /\ v \in Views /\ v.transient \subseteq v.listed
  /\ \A room \in Room : v.cache[room] # NoReply => v.cache[room] \subseteq PostsIn(room)

StoreInv(v) ==
  CacheInv(v) /\ v.shown \subseteq PostsIn(v.selected) /\ v.transient \subseteq {v.selected}

ContextInv(v) ==
  v.context # NoPost => OpenChat(v) # NoRoom /\ RoomOf[v.context] = v.selected

\* An operation's own part, and an upload's: the one that counts is of the selected chat.
TaskInv(t) ==
  /\ t \in Tasks
  /\ t.at = "list" /\ t.reply # NoReply => t.reply \subseteq Room
  /\ t.at = "history" /\ t.reply # NoReply => t.reply \subseteq PostsIn(t.room)
  /\ t.kind = "source" => t.from \in Room
  /\ t.kind = "join" => t.room \in Room
  /\ t.at = "comments" => t.kind \in {"comments", "reactToComment"}

UploadInv(t, v) ==
  t.kind = "attach" => t.n <= v.uploads /\ (t.n = v.uploads => t.room = v.selected)

\* What is shown as under way is under way.
Sends(t, v)    == t.kind = "attach" /\ t.n = v.uploads /\ t.room = v.selected /\ t.at = "mutate"
Sending(v, w)  == v.upload = "sending" => \E t \in w : Sends(t, v)
Loads(t, v)    == t.kind = "comments" /\ t.n = v.threads /\ t.post = v.thread.post
Threading(v, w) == v.thread.loading => \E t \in w : Loads(t, v)
Forwards(t, v) == t.kind = "forward" /\ t.post = v.forward.post
Forwarding(v, w) == v.forward.state = "sending" => \E t \in w : Forwards(t, v)

MaxInv == /\ mine \subseteq Room /\ there \subseteq Post /\ gone \subseteq Post /\ there \cap gone = {}
          /\ news \in Seq(News_)

MessengerInv ==
  /\ MaxInv /\ StoreInv(view) /\ ContextInv(view)
  /\ \A t \in work : TaskInv(t) /\ UploadInv(t, view)
  /\ Sending(view, work) /\ Threading(view, work) /\ Forwarding(view, work)

LEMMA MessengerInvImplies == MessengerInv => ViewConsistent
BY DEF MessengerInv, ViewConsistent, StoreInv, ContextInv, Sending, Sends, Threading, Loads,
       Forwarding, Forwards

(* The operations of the store keep its part. *)

\* What the store's operations leave alone.
SameScreen(u, v) ==
  /\ u.uploads = v.uploads /\ u.upload = v.upload /\ u.threads = v.threads /\ u.thread = v.thread
  /\ u.forward = v.forward /\ u.context = v.context

LEMMA PostsInRooms == PostsIn(NoRoom) = {} /\ \A room : PostsIn(room) \subseteq Post
BY MessengerAssumption DEF PostsIn

LEMMA ReplaceChatsFact ==
  ASSUME NEW v, StoreInv(v), NEW rooms \in SUBSET Room
  PROVE  /\ StoreInv(ReplaceChats(v, rooms)) /\ SameScreen(ReplaceChats(v, rooms), v)
         /\ ReplaceChats(v, rooms).selected = v.selected
BY DEF ReplaceChats, StoreInv, CacheInv, Views, SameScreen

LEMMA SelectFact ==
  ASSUME NEW v, CacheInv(v), NEW room \in Rooms
  PROVE  /\ StoreInv(Select(v, room)) /\ SameScreen(Select(v, room), v)
         /\ Select(v, room).selected = room /\ Select(v, room).cache = v.cache
         /\ Select(v, room).latest = v.latest
BY DEF Select, StoreInv, CacheInv, Views, SameScreen

LEMMA MergeHistoryFact ==
  ASSUME NEW v, StoreInv(v), NEW posts \in SUBSET PostsIn(v.selected)
  PROVE  /\ StoreInv(MergeHistory(v, posts)) /\ SameScreen(MergeHistory(v, posts), v)
         /\ MergeHistory(v, posts).selected = v.selected
<1>1. posts \subseteq Post
  BY DEF PostsIn
<1>2. QED
  BY <1>1 DEF MergeHistory, StoreInv, CacheInv, Views, SameScreen

LEMMA ReplaceMessagesFact ==
  ASSUME NEW v, StoreInv(v), NEW posts \in SUBSET PostsIn(v.selected)
  PROVE  /\ StoreInv(ReplaceMessages(v, posts)) /\ SameScreen(ReplaceMessages(v, posts), v)
         /\ ReplaceMessages(v, posts).selected = v.selected
<1>1. posts \subseteq Post
  BY DEF PostsIn
<1>2. QED
  BY <1>1 DEF ReplaceMessages, StoreInv, CacheInv, Views, SameScreen

LEMMA RememberFact ==
  ASSUME NEW v, StoreInv(v), NEW room \in Rooms, NEW posts,
         posts # NoReply => posts \subseteq PostsIn(room)
  PROVE  /\ StoreInv(Remember(v, room, posts)) /\ SameScreen(Remember(v, room, posts), v)
         /\ Remember(v, room, posts).selected = v.selected
         /\ Remember(v, room, posts).latest = v.latest
<1>1. posts \in (SUBSET Post) \cup {NoReply}
  BY DEF PostsIn
<1> DEFINE filled == [v.cache EXCEPT ![room] = posts]
<1>2. v.cache \in [Room -> (SUBSET Post) \cup {NoReply}] /\ v \in Views
  BY DEF StoreInv, CacheInv, Views
<1>3. filled \in [Room -> (SUBSET Post) \cup {NoReply}]
  BY <1>1, <1>2
<1>4. \A r \in Room : filled[r] # NoReply => filled[r] \subseteq PostsIn(r)
  <2> TAKE r \in Room
  <2>1. filled[r] = IF r = room THEN posts ELSE v.cache[r]
    BY <1>2
  <2>2. v.cache[r] # NoReply => v.cache[r] \subseteq PostsIn(r)
    BY DEF StoreInv, CacheInv
  <2>3. QED
    BY <2>1, <2>2
<1>5. Remember(v, room, posts) = [v EXCEPT !.cache = filled]
  BY DEF Remember
<1> HIDE DEF filled
<1>6. QED
  BY <1>2, <1>3, <1>4, <1>5 DEF StoreInv, CacheInv, Views, SameScreen

LEMMA SelectChatFact ==
  ASSUME NEW v, CacheInv(v), NEW room \in Room
  PROVE  /\ StoreInv(SelectChat(v, room)) /\ SameScreen(SelectChat(v, room), v)
         /\ SelectChat(v, room).selected = room /\ SelectChat(v, room).latest \in Nat
<1> DEFINE u == Select(v, room)
           w == MergeHistory(u, Cached(v, room))
<1>1. StoreInv(u) /\ SameScreen(u, v) /\ u.selected = room
  BY SelectFact DEF Rooms
<1>2. Cached(v, room) \subseteq PostsIn(room)
  BY DEF Cached, CacheInv
<1>3. StoreInv(w) /\ SameScreen(w, u) /\ w.selected = room
  BY <1>1, <1>2, MergeHistoryFact
<1>4. SelectChat(v, room) = [w EXCEPT !.latest = @ + 1, !.loading = v.cache[room] = NoReply]
  BY DEF SelectChat
<1> HIDE DEF u, w
<1>5. (v.cache[room] = NoReply) \in BOOLEAN
  OBVIOUS
<1>6. w \in Views /\ w.latest + 1 \in Nat
  BY <1>3 DEF StoreInv, CacheInv, Views
<1> DEFINE l == w.latest + 1
           b1 == v.cache[room] = NoReply
<1>7. SelectChat(v, room) = [w EXCEPT !.latest = l, !.loading = b1] /\ l \in Nat /\ b1 \in BOOLEAN
  BY <1>4, <1>6
<1> HIDE DEF l, b1
<1> DEFINE r == SelectChat(v, room)
<1>8. r = [w EXCEPT !.latest = l, !.loading = b1]
  BY <1>7
<1> HIDE DEF r
<1>9. r \in Views
  BY <1>6, <1>7, <1>8 DEF Views
<1>10. /\ r.selected = w.selected /\ r.shown = w.shown /\ r.transient = w.transient
       /\ r.listed = w.listed /\ r.cache = w.cache /\ r.latest = l
  BY <1>6, <1>8 DEF Views
<1>11. SameScreen(r, w)
  BY <1>6, <1>8 DEF Views, SameScreen
<1>12. StoreInv(r)
  BY <1>3, <1>9, <1>10 DEF StoreInv, CacheInv
<1>13. SameScreen(r, v)
  BY <1>1, <1>3, <1>11 DEF SameScreen
<1>14. QED
  BY <1>3, <1>7, <1>10, <1>12, <1>13 DEF r

LEMMA TransientFact ==
  ASSUME NEW v, CacheInv(v), NEW room
  PROVE  /\ room \in Room =>
              CacheInv(AddTransientChat(v, room)) /\ SameScreen(AddTransientChat(v, room), v)
         /\ CacheInv(RemoveTransientChat(v, room)) /\ SameScreen(RemoveTransientChat(v, room), v)
         /\ RemoveTransientChat(v, room).cache = v.cache
<1>1. ASSUME room \in Room
      PROVE  CacheInv(AddTransientChat(v, room)) /\ SameScreen(AddTransientChat(v, room), v)
  <2> DEFINE r == [v EXCEPT !.listed = @ \cup {room}, !.transient = @ \cup {room}]
  <2>1. CacheInv(r) /\ SameScreen(r, v)
    BY <1>1 DEF CacheInv, Views, SameScreen
  <2>2. AddTransientChat(v, room) \in {v, r}
    BY DEF AddTransientChat
  <2> HIDE DEF r
  <2>3. QED
    BY <2>1, <2>2 DEF SameScreen
<1>2. /\ CacheInv(RemoveTransientChat(v, room)) /\ SameScreen(RemoveTransientChat(v, room), v)
      /\ RemoveTransientChat(v, room).cache = v.cache
  <2> DEFINE shown == IF v.selected = room THEN {} ELSE v.shown
             r == [v EXCEPT !.transient = @ \ {room}, !.listed = @ \ {room}, !.shown = shown]
  <2>1. shown \in SUBSET Post
    BY DEF CacheInv, Views
  <2>2. RemoveTransientChat(v, room) \in {v, r}
    BY DEF RemoveTransientChat
  <2> HIDE DEF shown
  <2>3. CacheInv(r) /\ SameScreen(r, v) /\ r.cache = v.cache
    BY <2>1 DEF CacheInv, Views, SameScreen
  <2> HIDE DEF r
  <2>4. QED
    BY <2>2, <2>3 DEF SameScreen
<1>3. QED
  BY <1>1, <1>2

LEMMA LoadedFact ==
  ASSUME NEW v, StoreInv(v), NEW t
  PROVE  /\ StoreInv(Loaded(v, t)) /\ SameScreen(Loaded(v, t), v)
         /\ Loaded(v, t).selected = v.selected /\ Loaded(v, t).cache = v.cache
<1> DEFINE r == [v EXCEPT !.loading = FALSE]
<1>1. StoreInv(r) /\ SameScreen(r, v) /\ r.selected = v.selected /\ r.cache = v.cache
  BY DEF StoreInv, CacheInv, Views, SameScreen
<1>2. Loaded(v, t) \in {v, r}
  BY DEF Loaded
<1> HIDE DEF r
<1>3. QED
  BY <1>1, <1>2 DEF SameScreen

LEMMA UnloadedFact ==
  ASSUME NEW v, StoreInv(v), NEW posts \in SUBSET Post
  PROVE  LET r == [v EXCEPT !.loading = FALSE, !.behind = @ \cup posts]
         IN  StoreInv(r) /\ SameScreen(r, v)
BY DEF StoreInv, CacheInv, Views, SameScreen

\* The event of a message of another chat is not for the screen.
LEMMA ApplyEventFact ==
  ASSUME NEW v, StoreInv(v), NEW event, event.deleted \/ event.post \in Post
  PROVE  /\ StoreInv(ApplyEvent(v, event)) /\ SameScreen(ApplyEvent(v, event), v)
         /\ ApplyEvent(v, event).selected = v.selected /\ ApplyEvent(v, event).listed = v.listed
<1>1. CASE RoomOf[event.post] # v.selected
  BY <1>1 DEF ApplyEvent, SameScreen
<1>2. CASE RoomOf[event.post] = v.selected /\ event.deleted
  BY <1>2 DEF ApplyEvent, StoreInv, CacheInv, Views, SameScreen
<1>3. CASE RoomOf[event.post] = v.selected /\ ~event.deleted
  <2>1. {event.post} \subseteq PostsIn(v.selected)
    BY <1>3 DEF PostsIn
  <2>2. ApplyEvent(v, event) = MergeHistory(v, {event.post})
    BY <1>3 DEF ApplyEvent
  <2>3. ApplyEvent(v, event).listed = v.listed
    BY <2>2 DEF MergeHistory, StoreInv, CacheInv, Views
  <2>4. QED
    BY <2>1, <2>2, <2>3, MergeHistoryFact
<1>4. QED
  BY <1>1, <1>2, <1>3

(* What rendering keeps: it ends what belongs to the chat that is left. *)
LEMMA RenderedFact ==
  ASSUME view \in Views, ContextInv(view), NEW v, StoreInv(v), v.context \in {view.context, NoPost},
         NEW w, \A t \in w : TaskInv(t) /\ (t.kind = "attach" => t.n <= v.uploads),
         v.selected = view.selected => (\A t \in w : UploadInv(t, v)) /\ Sending(v, w),
         Threading(v, w), Forwarding(v, w)
  PROVE  LET r == Rendered(view, v) IN
           /\ StoreInv(r) /\ ContextInv(r) /\ \A t \in w : UploadInv(t, r)
           /\ Sending(r, w) /\ Threading(r, w) /\ Forwarding(r, w)
<1> DEFINE r == Rendered(view, v)
           u == IF v.selected = view.selected THEN v
                ELSE [v EXCEPT !.uploads = @ + 1, !.uploading = FALSE, !.upload = "idle"]
           l == v.uploads + 1
<1>1. r = IF OpenChat(v) = OpenChat(view) THEN u ELSE [u EXCEPT !.context = NoPost]
  BY DEF Rendered
<1>2. v \in Views /\ l \in Nat /\ v.uploads \in Nat
  BY DEF StoreInv, CacheInv, Views
<1>3. v.selected # view.selected => u = [v EXCEPT !.uploads = l, !.uploading = FALSE, !.upload = "idle"]
  BY <1>2
<1>4. v.selected = view.selected => u = v
  OBVIOUS
<1>5. l = v.uploads + 1
  OBVIOUS
<1> HIDE DEF u, l
<1>6. /\ u \in Views /\ u.selected = v.selected /\ u.listed = v.listed /\ u.shown = v.shown
      /\ u.transient = v.transient /\ u.cache = v.cache /\ u.thread = v.thread
      /\ u.threads = v.threads /\ u.forward = v.forward /\ u.context = v.context
  <2>1. CASE v.selected = view.selected
    BY <2>1, <1>2, <1>4
  <2>2. CASE v.selected # view.selected
    <3>1. u = [v EXCEPT !.uploads = l, !.uploading = FALSE, !.upload = "idle"]
      BY <1>3, <2>2
    <3>2. u \in Views
      BY <1>2, <3>1 DEF Views
    <3>3. QED
      BY <1>2, <3>1, <3>2 DEF Views
  <2>3. QED
    BY <2>1, <2>2
<1>7. /\ v.selected # view.selected => u.uploads = l /\ u.upload = "idle"
  BY <1>2, <1>3 DEF Views
<1> HIDE DEF r
<1>8. /\ r \in Views /\ r.selected = v.selected /\ r.listed = v.listed /\ r.shown = v.shown
      /\ r.transient = v.transient /\ r.cache = v.cache /\ r.thread = v.thread
      /\ r.threads = v.threads /\ r.forward = v.forward
      /\ r.uploads = u.uploads /\ r.upload = u.upload
      /\ r.context \in {v.context, NoPost}
      /\ OpenChat(v) # OpenChat(view) => r.context = NoPost
  BY <1>1, <1>2, <1>6 DEF Views
<1>9. StoreInv(r)
  BY <1>8 DEF StoreInv, CacheInv
<1>10. ContextInv(r)
  <2>1. SUFFICES ASSUME r.context # NoPost
                 PROVE  OpenChat(r) # NoRoom /\ RoomOf[r.context] = r.selected
    BY DEF ContextInv
  <2>2. OpenChat(v) = OpenChat(view) /\ r.context = view.context
    BY <1>8, <2>1
  <2>3. OpenChat(view) # NoRoom /\ RoomOf[view.context] = view.selected
    BY <2>1, <2>2 DEF ContextInv
  <2>4. OpenChat(r) = OpenChat(v)
    BY <1>8 DEF OpenChat
  <2>5. view.selected = v.selected
    BY <2>2, <2>3 DEF OpenChat
  <2>6. QED
    BY <1>8, <2>2, <2>3, <2>4, <2>5
<1>11. (\A t \in w : UploadInv(t, r)) /\ Sending(r, w)
  <2>1. CASE v.selected = view.selected
    <3>1. r.uploads = v.uploads /\ r.upload = v.upload /\ r.selected = v.selected
      BY <2>1, <1>4, <1>8
    <3>2. QED
      BY <2>1, <3>1 DEF UploadInv, Sending, Sends
  <2>2. CASE v.selected # view.selected
    <3>1. r.uploads = v.uploads + 1 /\ r.upload = "idle"
      BY <2>2, <1>5, <1>7, <1>8
    <3>2. \A t \in w : UploadInv(t, r)
      <4> SUFFICES ASSUME NEW t \in w, t.kind = "attach"
                   PROVE  t.n <= r.uploads /\ t.n # r.uploads
        BY DEF UploadInv
      <4>1. t.n \in Nat /\ t.n <= v.uploads
        BY DEF TaskInv, Tasks
      <4>2. QED
        BY <1>2, <3>1, <4>1
    <3>3. QED
      BY <3>1, <3>2 DEF Sending
  <2>3. QED
    BY <2>1, <2>2
<1>12. Threading(r, w) /\ Forwarding(r, w)
  BY <1>8 DEF Threading, Loads, Forwarding, Forwards
<1>13. QED
  BY <1>9, <1>10, <1>11, <1>12 DEF r

\* The screen after an operation's step: what counts as under way still is.
LEMMA RenderedWork ==
  ASSUME MessengerInv, MaxInv', NEW v, StoreInv(v), v.context \in {view.context, NoPost},
         view' = Rendered(view, v), \A t \in work' : TaskInv(t) /\ UploadInv(t, view),
         v.uploads = view.uploads,
         v.selected = view.selected => Sending(v, work'), Threading(v, work'), Forwarding(v, work')
  PROVE  MessengerInv'
<1>1. /\ view \in Views /\ ContextInv(view) /\ v.uploads = view.uploads
      /\ \A t \in work' : TaskInv(t) /\ (t.kind = "attach" => t.n <= v.uploads)
      /\ v.selected = view.selected => (\A t \in work' : UploadInv(t, v)) /\ Sending(v, work')
  BY DEF MessengerInv, StoreInv, CacheInv, UploadInv
<1>2. /\ StoreInv(view') /\ ContextInv(view') /\ \A t \in work' : UploadInv(t, view')
      /\ Sending(view', work') /\ Threading(view', work') /\ Forwarding(view', work')
  BY <1>1, RenderedFact
<1>3. \A t \in work' : TaskInv(t)
  OBVIOUS
<1>4. StoreInv(view)'
  BY <1>2 DEF StoreInv, CacheInv
<1>5. ContextInv(view)'
  BY <1>2 DEF ContextInv, OpenChat
<1>6. \A t \in work' : TaskInv(t)' /\ UploadInv(t, view)'
  BY <1>2, <1>3 DEF TaskInv, UploadInv
<1>7. Sending(view, work)' /\ Threading(view, work)' /\ Forwarding(view, work)'
  BY <1>2 DEF Sending, Sends, Threading, Loads, Forwarding, Forwards
<1>8. QED
  BY <1>4, <1>5, <1>6, <1>7 DEF MessengerInv

\* An operation starts that is not an upload.
LEMMA StartsFact ==
  ASSUME MessengerInv, UNCHANGED <<mine, there, gone, news>>, NEW t, NEW v, Starts(t, v),
         TaskInv(t), t.kind # "attach", StoreInv(v), v.context \in {view.context, NoPost},
         v.uploads = view.uploads, v.upload = view.upload,
         \/ v.thread = view.thread /\ v.threads = view.threads
         \/ Loads(t, v),
         v.forward = view.forward \/ Forwards(t, v)
  PROVE  MessengerInv'
<1>1. work' = work \cup {t} /\ view' = Rendered(view, v)
  BY DEF Starts
<1>2. MaxInv'
  BY DEF MessengerInv, MaxInv
<1>3. \A u \in work' : TaskInv(u) /\ UploadInv(u, view)
  BY <1>1 DEF MessengerInv, UploadInv
<1>4. v.selected = view.selected => Sending(v, work')
  BY <1>1 DEF MessengerInv, Sending, Sends
<1>5. Threading(v, work')
  BY <1>1 DEF MessengerInv, Threading, Loads
<1>6. Forwarding(v, work')
  BY <1>1 DEF MessengerInv, Forwarding, Forwards
<1>7. QED
  BY <1>1, <1>2, <1>3, <1>4, <1>5, <1>6, RenderedWork

\* An operation goes on.
LEMMA GoesFact ==
  ASSUME MessengerInv, UNCHANGED <<mine, there, gone, news>>, NEW t \in work, NEW next, NEW v,
         Goes(t, next, v), StoreInv(v), v.context \in {view.context, NoPost},
         v.uploads = view.uploads,
         \A u \in next : /\ TaskInv(u)
                         /\ u.kind = "attach" => t.kind = "attach" /\ u.n = t.n /\ u.room = t.room,
         v.upload = "sending" => view.upload = "sending" /\ ~Sends(t, view),
         v.thread.loading => v.thread = view.thread /\ v.threads = view.threads /\ ~Loads(t, view),
         v.forward.state = "sending" => v.forward = view.forward /\ ~Forwards(t, view)
  PROVE  MessengerInv'
<1>1. work' = (work \ {t}) \cup next /\ view' = Rendered(view, v)
  BY DEF Goes
<1>2. MaxInv'
  BY DEF MessengerInv, MaxInv
<1>3. \A u \in work' : TaskInv(u) /\ UploadInv(u, view)
  BY <1>1 DEF MessengerInv, UploadInv
<1>4. v.selected = view.selected => Sending(v, work')
  <2> SUFFICES ASSUME v.selected = view.selected, v.upload = "sending"
               PROVE  \E u \in work' : Sends(u, v)
    BY DEF Sending
  <2>1. PICK u \in work : Sends(u, view)
    BY DEF MessengerInv, Sending
  <2>2. u \in work' /\ Sends(u, v)
    BY <1>1, <2>1 DEF Sends
  <2>3. QED
    BY <2>2
<1>5. Threading(v, work')
  <2> SUFFICES ASSUME v.thread.loading
               PROVE  \E u \in work' : Loads(u, v)
    BY DEF Threading
  <2>1. PICK u \in work : Loads(u, view)
    BY DEF MessengerInv, Threading
  <2>2. u \in work' /\ Loads(u, v)
    BY <1>1, <2>1 DEF Loads
  <2>3. QED
    BY <2>2
<1>6. Forwarding(v, work')
  <2> SUFFICES ASSUME v.forward.state = "sending"
               PROVE  \E u \in work' : Forwards(u, v)
    BY DEF Forwarding
  <2>1. PICK u \in work : Forwards(u, view)
    BY DEF MessengerInv, Forwarding
  <2>2. u \in work' /\ Forwards(u, v)
    BY <1>1, <2>1 DEF Forwards
  <2>3. QED
    BY <2>2
<1>7. QED
  BY <1>1, <1>2, <1>3, <1>4, <1>5, <1>6, RenderedWork

\* An operation that shows nothing as under way goes on.
LEMMA QuietGoesFact ==
  ASSUME MessengerInv, UNCHANGED <<mine, there, gone, news>>, NEW t \in work, NEW next, NEW v,
         Goes(t, next, v), StoreInv(v), SameScreen(v, view),
         t.kind \notin {"comments", "forward"}, ~Sends(t, view),
         \A u \in next : /\ TaskInv(u)
                         /\ u.kind = "attach" => t.kind = "attach" /\ u.n = t.n /\ u.room = t.room
  PROVE  MessengerInv'
<1>1. /\ v.context = view.context /\ v.uploads = view.uploads /\ v.upload = view.upload
      /\ v.thread = view.thread /\ v.threads = view.threads /\ v.forward = view.forward
  BY DEF SameScreen
<1>2. ~Loads(t, view) /\ ~Forwards(t, view)
  BY DEF Loads, Forwards
<1>3. QED
  BY <1>1, <1>2, GoesFact

\* A step that changes the view alone, and not which chat is shown.
LEMMA ViewFact ==
  ASSUME MessengerInv, MaxInv', work' = work, StoreInv(view'), view'.selected = view.selected,
         ContextInv(view'), view'.uploads = view.uploads,
         view'.upload \in {view.upload, "idle"},
         (view'.thread = view.thread /\ view'.threads = view.threads) \/ ~view'.thread.loading,
         view'.forward = view.forward \/ view'.forward.state # "sending"
  PROVE  MessengerInv'
<1>1. StoreInv(view)' /\ ContextInv(view)'
  BY DEF StoreInv, CacheInv, ContextInv, OpenChat
<1>2. \A t \in work' : TaskInv(t)' /\ UploadInv(t, view)'
  BY DEF MessengerInv, TaskInv, UploadInv
<1>3. Sending(view, work)'
  BY DEF MessengerInv, Sending, Sends
<1>4. Threading(view, work)'
  BY DEF MessengerInv, Threading, Loads
<1>5. Forwarding(view, work)'
  BY DEF MessengerInv, Forwarding, Forwards
<1>6. QED
  BY <1>1, <1>2, <1>3, <1>4, <1>5 DEF MessengerInv

(* Operations. *)

LEMMA TaskFact ==
  ASSUME NEW kind \in Kinds, NEW room \in Rooms, NEW post \in PostNames
  PROVE  LET t == Task(kind, room, post) IN
           /\ t \in Tasks /\ t.kind = kind /\ t.room = room /\ t.post = post
           /\ t.reply = NoReply /\ t.at = "mutate"
           /\ kind # "source" /\ (kind = "join" => room \in Room) => TaskInv(t)
<1> DEFINE t == Task(kind, room, post)
<1>1. /\ t \in Tasks /\ t.kind = kind /\ t.room = room /\ t.post = post /\ t.reply = NoReply
      /\ t.at = "mutate"
  BY DEF Task, Tasks, Rooms
<1> HIDE DEF t
<1>2. kind # "source" /\ (kind = "join" => room \in Room) => TaskInv(t)
  BY <1>1 DEF TaskInv
<1>3. QED
  BY <1>1, <1>2 DEF t

LEMMA AskingFact ==
  ASSUME NEW t, TaskInv(t), NEW at \in {"list", "history", "comments"},
         at = "comments" => t.kind \in {"comments", "reactToComment"}
  PROVE  LET u == Asking(t, at) IN
           /\ TaskInv(u) /\ u.kind = t.kind /\ u.room = t.room /\ u.post = t.post /\ u.n = t.n
           /\ u.at = at /\ u.reply = NoReply
<1> DEFINE u == Asking(t, at)
<1>1. /\ u \in Tasks /\ u.kind = t.kind /\ u.room = t.room /\ u.post = t.post /\ u.n = t.n
      /\ u.at = at /\ u.reply = NoReply /\ u.from = t.from
  BY DEF Asking, TaskInv, Tasks
<1> HIDE DEF u
<1>2. TaskInv(u)
  BY <1>1 DEF TaskInv
<1>3. QED
  BY <1>1, <1>2 DEF u

\* An operation that waits for the history of a chat.
AskingHistory(t, room, n) == [Asking(t, "history") EXCEPT !.room = room, !.n = n]

LEMMA HistoryTaskFact ==
  ASSUME NEW t \in Tasks, NEW room \in Rooms, NEW n \in Nat, NEW u, u = AskingHistory(t, room, n)
  PROVE  /\ u \in Tasks /\ u.kind = t.kind /\ u.reply = NoReply /\ u.room = room
         /\ u.at = "history" /\ u.from = t.from
BY DEF AskingHistory, Asking, Tasks

LEMMA SelectingFact ==
  ASSUME NEW t \in Tasks, NEW room \in Rooms, NEW v, v.latest \in Nat
  PROVE  LET u == Selecting(t, v, room) IN
           /\ TaskInv(u) /\ u.kind = "select" /\ u \in Tasks /\ u.at = "history"
           /\ u.reply = NoReply
<1> DEFINE u == Selecting(t, v, room)
<1>1. u \in Tasks /\ u.kind = "select" /\ u.reply = NoReply /\ u.at = "history"
  BY DEF Selecting, Asking, Tasks, Kinds
<1> HIDE DEF u
<1>2. TaskInv(u)
  BY <1>1 DEF TaskInv
<1>3. QED
  BY <1>1, <1>2 DEF u

LEMMA ViewTypes ==
  ASSUME MessengerInv
  PROVE  /\ view \in Views /\ StoreInv(view) /\ CacheInv(view) /\ ContextInv(view)
         /\ view.listed \subseteq Room /\ view.transient \subseteq Room
         /\ view.selected \in Rooms /\ (view.selected # NoRoom => view.selected \in Room)
         /\ view.shown \subseteq Post /\ view.context \in Post \cup {NoPost}
         /\ view.latest \in Nat /\ view.uploads \in Nat /\ view.threads \in Nat
         /\ view.thread.post \in PostNames /\ view.forward.post \in PostNames
<1>1. view \in Views /\ StoreInv(view) /\ CacheInv(view) /\ ContextInv(view)
  BY DEF MessengerInv, StoreInv, CacheInv
<1>2. QED
  BY <1>1 DEF Views, Rooms

LEMMA SameScreenRefl == \A v : SameScreen(v, v)
BY DEF SameScreen

LEMMA SameScreenTrans == \A u, v, w : SameScreen(u, v) /\ SameScreen(v, w) => SameScreen(u, w)
BY DEF SameScreen

\* An operation starts without changing the view.
LEMMA PlainStart ==
  ASSUME MessengerInv, UNCHANGED <<mine, there, gone, news>>, NEW kind \in Kinds,
         kind \notin {"source", "attach"}, NEW room \in Rooms, kind = "join" => room \in Room,
         NEW post \in PostNames, Starts(Task(kind, room, post), view)
  PROVE  MessengerInv'
<1> DEFINE t == Task(kind, room, post)
<1>1. TaskInv(t) /\ t.kind # "attach"
  BY TaskFact
<1>2. Starts(t, view)
  OBVIOUS
<1> HIDE DEF t
<1>3. QED
  BY <1>1, <1>2, ViewTypes, StartsFact

LEMMA ChooseKeeps ==
  ASSUME MessengerInv, NEW room \in Room, Choose(room)
  PROVE  MessengerInv'
<1> DEFINE v == SelectChat(view, room)
           t == Task("select", room, NoPost)
           u == Selecting(t, v, room)
<1>1. UNCHANGED <<mine, there, gone, news>> /\ Starts(u, v)
  BY DEF Choose, Act
<1>2. StoreInv(v) /\ SameScreen(v, view) /\ v.latest \in Nat
  BY ViewTypes, SelectChatFact
<1>3. t \in Tasks
  BY TaskFact DEF Kinds, Rooms, PostNames
<1> HIDE DEF v, t
<1>4. TaskInv(u) /\ u.kind = "select"
  BY <1>2, <1>3, SelectingFact DEF Rooms
<1> HIDE DEF u
<1>5. QED
  BY <1>1, <1>2, <1>4, StartsFact DEF SameScreen

LEMMA OpenForwardedSourceKeeps ==
  ASSUME MessengerInv, NEW room \in Room, OpenForwardedSource(room)
  PROVE  MessengerInv'
<1> DEFINE a0 == AddTransientChat(view, room)
           v == SelectChat(a0, room)
           t0 == Task("source", room, NoPost)
           t == Selecting(t0, v, room)
           post == IF room \in view.listed THEN NoPost ELSE "added"
           from == view.selected
           u == [t EXCEPT !.kind = "source", !.from = from, !.post = post]
<1>1. UNCHANGED <<mine, there, gone, news>> /\ Starts(u, v) /\ from # NoRoom
  BY DEF OpenForwardedSource, Act
<1>2. CacheInv(a0) /\ SameScreen(a0, view)
  BY ViewTypes, TransientFact
<1>3. t0 \in Tasks /\ post \in PostNames /\ from \in Room
  BY <1>1, TaskFact, ViewTypes DEF Kinds, Rooms, PostNames
<1> HIDE DEF a0, t0, post, from
<1>4. StoreInv(v) /\ SameScreen(v, a0) /\ v.latest \in Nat
  BY <1>2, SelectChatFact
<1> HIDE DEF v
<1>5. t \in Tasks /\ t.at = "history" /\ t.reply = NoReply
  BY <1>3, <1>4, SelectingFact DEF Rooms
<1> HIDE DEF t
<1>6. u \in Tasks /\ u.kind = "source" /\ u.from = from /\ u.reply = NoReply /\ u.at = "history"
  BY <1>3, <1>5 DEF Tasks, Rooms, Kinds
<1> HIDE DEF u
<1>7. TaskInv(u)
  BY <1>3, <1>6 DEF TaskInv
<1>8. SameScreen(v, view)
  BY <1>2, <1>4 DEF SameScreen
<1>9. QED
  BY <1>1, <1>4, <1>6, <1>7, <1>8, StartsFact DEF SameScreen

LEMMA SendMessageKeeps ==
  ASSUME MessengerInv, NEW post \in Post, NEW kind \in {"send", "sticker"}, SendMessage_(post, kind)
  PROVE  MessengerInv'
<1> DEFINE t == Task(kind, view.selected, post)
           v == IF kind = "send" THEN [view EXCEPT !.context = NoPost] ELSE view
<1>1. UNCHANGED <<mine, there, gone, news>> /\ Starts(t, v)
  BY DEF SendMessage_, Act
<1>2. TaskInv(t) /\ t.kind # "attach"
  BY TaskFact, ViewTypes DEF Kinds, PostNames
<1>3. StoreInv(v) /\ v.context \in {view.context, NoPost} /\ v.uploads = view.uploads
      /\ v.upload = view.upload /\ v.thread = view.thread /\ v.threads = view.threads
      /\ v.forward = view.forward
  BY ViewTypes DEF StoreInv, CacheInv, Views
<1> HIDE DEF t, v
<1>4. QED
  BY <1>1, <1>2, <1>3, StartsFact

LEMMA SubmitEditKeeps ==
  ASSUME MessengerInv, SubmitEdit
  PROVE  MessengerInv'
<1> DEFINE t == Task("edit", view.selected, view.context)
           v == [view EXCEPT !.context = NoPost]
<1>1. UNCHANGED <<mine, there, gone, news>> /\ Starts(t, v)
  BY DEF SubmitEdit, Act
<1>2. TaskInv(t) /\ t.kind # "attach"
  BY TaskFact, ViewTypes DEF Kinds, PostNames
<1>3. StoreInv(v) /\ v.context = NoPost /\ v.uploads = view.uploads
      /\ v.upload = view.upload /\ v.thread = view.thread /\ v.threads = view.threads
      /\ v.forward = view.forward
  BY ViewTypes DEF StoreInv, CacheInv, Views
<1> HIDE DEF t, v
<1>4. QED
  BY <1>1, <1>2, <1>3, StartsFact

LEMMA OpenCommentsKeeps ==
  ASSUME MessengerInv, NEW post \in Post, OpenComments(post)
  PROVE  MessengerInv'
<1> DEFINE k == view.threads + 1
           th == [post |-> post, loading |-> TRUE]
           v == [view EXCEPT !.threads = k, !.thread = th]
           t0 == Task("comments", view.selected, post)
           t == Asking(t0, "comments")
           u == [t EXCEPT !.n = k]
<1>1. /\ UNCHANGED <<mine, there, gone, news>>
      /\ Starts([t EXCEPT !.n = [view EXCEPT !.threads = @ + 1, !.thread = th].threads],
                [view EXCEPT !.threads = @ + 1, !.thread = th])
  BY DEF OpenComments, Act
<1>2. k \in Nat /\ th \in [post : PostNames, loading : BOOLEAN] /\ th.post = post
  BY ViewTypes DEF PostNames
<1>3. v = [view EXCEPT !.threads = @ + 1, !.thread = th]
  BY ViewTypes
<1> HIDE DEF k, th
<1>4. v.threads = k /\ v.thread = th
  BY ViewTypes DEF Views
<1>5. Starts(u, v)
  BY <1>1, <1>3, <1>4
<1>6. TaskInv(t0) /\ t0.kind = "comments" /\ t0.post = post
  BY TaskFact, ViewTypes DEF Kinds, PostNames
<1> HIDE DEF t0
<1>7. TaskInv(t) /\ t.kind = "comments" /\ t.post = post /\ t.at = "comments"
  BY <1>6, AskingFact
<1> HIDE DEF t
<1>8. u \in Tasks /\ u.kind = "comments" /\ u.n = k /\ u.post = post /\ u.at = "comments"
  BY <1>2, <1>7 DEF TaskInv, Tasks
<1>9. TaskInv(u)
  BY <1>8 DEF TaskInv
<1>10. /\ StoreInv(v) /\ v.context = view.context /\ v.uploads = view.uploads
       /\ v.upload = view.upload /\ v.forward = view.forward
  BY <1>2, ViewTypes DEF StoreInv, CacheInv, Views
<1>11. Loads(u, v)
  BY <1>2, <1>4, <1>8 DEF Loads
<1> HIDE DEF u, v
<1>12. QED
  BY <1>1, <1>5, <1>8, <1>9, <1>10, <1>11, StartsFact

LEMMA ConfirmForwardKeeps ==
  ASSUME MessengerInv, ConfirmForward
  PROVE  MessengerInv'
<1> DEFINE t == Task("forward", view.selected, view.forward.post)
           f == [view.forward EXCEPT !.state = "sending"]
           g == [view.forward EXCEPT !.state = "failed"]
           v == [view EXCEPT !.forward = f]
<1>1. UNCHANGED <<mine, there, gone, news>>
  BY DEF ConfirmForward, Act
<1>2. /\ view.forward \in [post : PostNames, state : {"idle", "sending", "confirmed", "ambiguous", "failed"}]
  BY ViewTypes DEF Views
<1>3. /\ f \in [post : PostNames, state : {"idle", "sending", "confirmed", "ambiguous", "failed"}]
      /\ g \in [post : PostNames, state : {"idle", "sending", "confirmed", "ambiguous", "failed"}]
      /\ f.post = view.forward.post /\ g.state = "failed"
  BY <1>2
<1> HIDE DEF f, g
<1>4. CASE view.selected = NoRoom
  <2>1. view' = [view EXCEPT !.forward = g] /\ work' = work
    BY <1>4 DEF ConfirmForward, g
  <2>2. /\ StoreInv(view') /\ view'.selected = view.selected /\ view'.listed = view.listed
        /\ view'.context = view.context
        /\ view'.uploads = view.uploads /\ view'.upload = view.upload /\ view'.forward = g
        /\ view'.thread = view.thread /\ view'.threads = view.threads
    BY <1>3, <2>1, ViewTypes DEF StoreInv, CacheInv, Views
  <2>3. ContextInv(view')
    BY <2>2, ViewTypes DEF ContextInv, OpenChat
  <2>4. MaxInv'
    BY <1>1 DEF MessengerInv, MaxInv
  <2>5. QED
    BY <1>3, <2>1, <2>2, <2>3, <2>4, ViewFact
<1>5. CASE view.selected # NoRoom
  <2>1. Starts(t, v)
    BY <1>5 DEF ConfirmForward, f
  <2>2. TaskInv(t) /\ t.kind = "forward" /\ t.post = view.forward.post
    BY TaskFact, ViewTypes DEF Kinds
  <2>3. StoreInv(v) /\ v.context = view.context /\ v.uploads = view.uploads
        /\ v.upload = view.upload /\ v.thread = view.thread /\ v.threads = view.threads
        /\ v.forward = f
    BY <1>3, ViewTypes DEF StoreInv, CacheInv, Views
  <2>4. Forwards(t, v)
    BY <1>3, <2>2, <2>3 DEF Forwards
  <2> HIDE DEF t, v
  <2>5. QED
    BY <1>1, <2>1, <2>2, <2>3, <2>4, StartsFact
<1>6. QED
  BY <1>4, <1>5

LEMMA RefreshKeeps ==
  ASSUME MessengerInv, RefreshCurrentData
  PROVE  MessengerInv'
<1> DEFINE t0 == Task("refresh", NoRoom, NoPost)
           t == Asking(t0, "list")
<1>1. UNCHANGED <<mine, there, gone, news>> /\ Starts(t, view)
  BY DEF RefreshCurrentData, Act
<1>2. TaskInv(t0) /\ t0.kind = "refresh"
  BY TaskFact DEF Kinds, Rooms, PostNames
<1> HIDE DEF t0
<1>3. TaskInv(t) /\ t.kind = "refresh"
  BY <1>2, AskingFact
<1> HIDE DEF t
<1>4. QED
  BY <1>1, <1>3, ViewTypes, StartsFact

LEMMA SendAttachmentKeeps ==
  ASSUME MessengerInv, NEW post \in Post, SendAttachment_(post)
  PROVE  MessengerInv'
<1> DEFINE k == view.uploads + 1
           v == [view EXCEPT !.uploads = k, !.uploading = TRUE, !.upload = "sending"]
           t == Task("attach", view.selected, post)
           u == [t EXCEPT !.n = k]
<1>1. /\ UNCHANGED <<mine, there, gone, news>>
      /\ LET w == [view EXCEPT !.uploads = @ + 1, !.uploading = TRUE, !.upload = "sending"]
         IN Starts([t EXCEPT !.n = w.uploads], w)
  BY DEF SendAttachment_, Act
<1>2. k \in Nat /\ view.uploads \in Nat /\ k = view.uploads + 1
  BY ViewTypes
<1>3. v = [view EXCEPT !.uploads = @ + 1, !.uploading = TRUE, !.upload = "sending"]
  BY ViewTypes
<1> HIDE DEF k
<1>4. /\ v \in Views /\ v.uploads = k /\ v.selected = view.selected /\ v.context = view.context
      /\ v.thread = view.thread /\ v.threads = view.threads /\ v.forward = view.forward
      /\ StoreInv(v)
  BY <1>2, ViewTypes DEF StoreInv, CacheInv, Views
<1>5. work' = work \cup {u} /\ view' = Rendered(view, v)
  BY <1>1, <1>3, <1>4 DEF Starts
<1>6. t \in Tasks /\ t.kind = "attach" /\ t.room = view.selected /\ t.reply = NoReply /\ t.at = "mutate"
  <2>1. t.at = "mutate"
    BY DEF Task
  <2>2. QED
    BY <2>1, TaskFact, ViewTypes DEF Kinds, PostNames
<1> HIDE DEF t
<1>7. /\ u \in Tasks /\ u.kind = "attach" /\ u.room = view.selected /\ u.at = "mutate" /\ u.n = k
  BY <1>2, <1>6 DEF Tasks
<1> HIDE DEF u, v
<1>8. TaskInv(u)
  BY <1>7 DEF TaskInv
<1>9. \A x \in work : TaskInv(x) /\ UploadInv(x, view)
  BY DEF MessengerInv
<1>10. \A x \in work : x.kind = "attach" => x.n <= v.uploads /\ x.n # v.uploads
  <2> SUFFICES ASSUME NEW x \in work, x.kind = "attach"
               PROVE  x.n <= v.uploads /\ x.n # v.uploads
    OBVIOUS
  <2>1. x.n \in Nat /\ x.n <= view.uploads
    BY <1>9 DEF UploadInv, TaskInv, Tasks
  <2>2. QED
    BY <1>2, <1>4, <2>1
<1>11. u.n <= v.uploads
  BY <1>2, <1>4, <1>7
<1>12. \A x \in work' : TaskInv(x) /\ (x.kind = "attach" => x.n <= v.uploads) /\ UploadInv(x, v)
  BY <1>4, <1>5, <1>7, <1>8, <1>9, <1>10, <1>11 DEF UploadInv
<1>13. Sending(v, work')
  BY <1>4, <1>5, <1>7 DEF Sending, Sends
<1>14. Threading(v, work')
  BY <1>4, <1>5 DEF MessengerInv, Threading, Loads
<1>15. Forwarding(v, work')
  BY <1>4, <1>5 DEF MessengerInv, Forwarding, Forwards
<1>16. /\ StoreInv(view') /\ ContextInv(view') /\ \A x \in work' : UploadInv(x, view')
       /\ Sending(view', work') /\ Threading(view', work') /\ Forwarding(view', work')
  BY <1>4, <1>5, <1>12, <1>13, <1>14, <1>15, ViewTypes, RenderedFact
<1>17. MaxInv'
  BY <1>1 DEF MessengerInv, MaxInv
<1>18. StoreInv(view)' /\ ContextInv(view)'
  BY <1>16 DEF StoreInv, CacheInv, ContextInv, OpenChat
<1>19. \A x \in work' : TaskInv(x)' /\ UploadInv(x, view)'
  BY <1>12, <1>16 DEF TaskInv, UploadInv
<1>20. Sending(view, work)' /\ Threading(view, work)' /\ Forwarding(view, work)'
  BY <1>16 DEF Sending, Sends, Threading, Loads, Forwarding, Forwards
<1>21. QED
  BY <1>17, <1>18, <1>19, <1>20 DEF MessengerInv

\* What the user touches that asks for nothing.
LEMMA TouchKeeps ==
  ASSUME MessengerInv, NEW post,
         \/ Context(post) \/ CancelAttachment \/ CloseComments
         \/ OpenForward(post) \/ ToggleDestination \/ CloseForward
  PROVE  MessengerInv'
<1> DEFINE Pickers == [post : PostNames, state : {"idle", "sending", "confirmed", "ambiguous", "failed"}]
           Threads == [post : PostNames, loading : BOOLEAN]
<1>1. work' = work /\ UNCHANGED <<mine, there, gone, news>>
  BY DEF Context, CancelAttachment, CloseComments, OpenForward, ToggleDestination, CloseForward, Touch
<1>2. MaxInv'
  BY <1>1 DEF MessengerInv, MaxInv
<1>3. view \in Views /\ StoreInv(view) /\ ContextInv(view) /\ view.forward \in Pickers
  BY ViewTypes DEF Views
<1>4. CASE Context(post)
  <2>1. /\ view' = [view EXCEPT !.context = post] /\ post \in view.shown /\ OpenChat(view) # NoRoom
        /\ post \in Post
    BY <1>4, ViewTypes DEF Context
  <2>2. /\ StoreInv(view') /\ view'.selected = view.selected /\ view'.listed = view.listed
        /\ view'.uploads = view.uploads /\ view'.upload = view.upload
        /\ view'.thread = view.thread /\ view'.threads = view.threads
        /\ view'.forward = view.forward /\ view'.context = post
    BY <1>3, <2>1 DEF StoreInv, CacheInv, Views
  <2>3. RoomOf[post] = view.selected
    BY <1>3, <2>1 DEF StoreInv, PostsIn
  <2>4. ContextInv(view')
    BY <2>1, <2>2, <2>3 DEF ContextInv, OpenChat
  <2>5. QED
    BY <1>1, <1>2, <2>2, <2>4, ViewFact
<1>5. CASE CancelAttachment
  <2>1. view' = [view EXCEPT !.upload = "idle"]
    BY <1>5 DEF CancelAttachment
  <2>2. /\ StoreInv(view') /\ view'.selected = view.selected /\ view'.listed = view.listed
        /\ view'.uploads = view.uploads /\ view'.upload = "idle"
        /\ view'.thread = view.thread /\ view'.threads = view.threads
        /\ view'.forward = view.forward /\ view'.context = view.context
    BY <1>3, <2>1 DEF StoreInv, CacheInv, Views
  <2>3. ContextInv(view')
    BY <1>3, <2>2 DEF ContextInv, OpenChat
  <2>4. QED
    BY <1>1, <1>2, <2>2, <2>3, ViewFact
<1>6. CASE CloseComments
  <2> DEFINE k == view.threads + 1
  <2>1. view' = [view EXCEPT !.threads = @ + 1, !.thread = NoThread]
    BY <1>6 DEF CloseComments
  <2>2. k \in Nat /\ NoThread \in Threads /\ NoThread.loading = FALSE
    BY ViewTypes DEF NoThread, PostNames
  <2>3. view' = [view EXCEPT !.threads = k, !.thread = NoThread]
    BY <1>3, <2>1
  <2> HIDE DEF k
  <2>4. /\ StoreInv(view') /\ view'.selected = view.selected /\ view'.listed = view.listed
        /\ view'.uploads = view.uploads /\ view'.upload = view.upload
        /\ view'.thread = NoThread
        /\ view'.forward = view.forward /\ view'.context = view.context
    BY <1>3, <2>2, <2>3 DEF StoreInv, CacheInv, Views
  <2>5. ContextInv(view')
    BY <1>3, <2>4 DEF ContextInv, OpenChat
  <2>6. QED
    BY <1>1, <1>2, <2>2, <2>4, <2>5, ViewFact
<1>7. ASSUME NEW f \in Pickers, view' = [view EXCEPT !.forward = f], f.state # "sending"
      PROVE  MessengerInv'
  <2>1. /\ StoreInv(view') /\ view'.selected = view.selected /\ view'.listed = view.listed
        /\ view'.uploads = view.uploads /\ view'.upload = view.upload
        /\ view'.thread = view.thread /\ view'.threads = view.threads
        /\ view'.forward = f /\ view'.context = view.context
    BY <1>3, <1>7 DEF StoreInv, CacheInv, Views
  <2>2. ContextInv(view')
    BY <1>3, <2>1 DEF ContextInv, OpenChat
  <2>3. QED
    BY <1>1, <1>2, <1>7, <2>1, <2>2, ViewFact
<1>8. CASE OpenForward(post)
  <2> DEFINE f == [view.forward EXCEPT !.post = post]
  <2>1. view.forward = NoForward /\ view' = [view EXCEPT !.forward = f] /\ post \in Post
    BY <1>8, ViewTypes DEF OpenForward
  <2>2. f \in Pickers /\ f.state = "idle"
    BY <1>3, <2>1 DEF NoForward, PostNames
  <2> HIDE DEF f
  <2>3. QED
    BY <1>7, <2>1, <2>2
<1>9. CASE ToggleDestination
  <2> DEFINE f == [view.forward EXCEPT !.state = "idle"]
  <2>1. view' = [view EXCEPT !.forward = f]
    BY <1>9 DEF ToggleDestination
  <2>2. f \in Pickers /\ f.state = "idle"
    BY <1>3
  <2> HIDE DEF f
  <2>3. QED
    BY <1>7, <2>1, <2>2
<1>10. CASE CloseForward
  <2>1. view' = [view EXCEPT !.forward = NoForward] /\ NoForward \in Pickers /\ NoForward.state = "idle"
    BY <1>10 DEF CloseForward, NoForward, PostNames
  <2>2. QED
    BY <1>7, <2>1
<1>11. QED
  BY <1>4, <1>5, <1>6, <1>8, <1>9, <1>10

-----------------------------------------------------------------------------
(* What MAX does. *)

LEMMA TellFact ==
  ASSUME news \in Seq(News_), NEW posts \in SUBSET Post, NEW deleted \in BOOLEAN,
         Tell(posts, deleted)
  PROVE  news' \in Seq(News_)
<1>1. CASE ~linked \/ posts = {}
  BY <1>1 DEF Tell
<1>2. CASE ~(~linked \/ posts = {})
  <2> DEFINE p == CHOOSE p \in posts : TRUE
             e == [post |-> p, deleted |-> deleted]
  <2>1. p \in Post
    BY <1>2
  <2>2. news' = Append(news, e)
    BY <1>2 DEF Tell
  <2> HIDE DEF p
  <2>3. e \in News_
    BY <2>1 DEF News_
  <2> HIDE DEF e
  <2>4. QED
    BY <2>2, <2>3, AppendProperties
<1>3. QED
  BY <1>1, <1>2

\* Nothing but what the screen has not heard of changes in the view.
LEMMA BehindFact ==
  ASSUME MessengerInv, MaxInv', NEW posts \in SUBSET Post,
         view' = [view EXCEPT !.behind = @ \cup posts], work' = work
  PROVE  MessengerInv'
<1>1. /\ StoreInv(view') /\ view'.selected = view.selected /\ view'.listed = view.listed
      /\ view'.uploads = view.uploads /\ view'.upload = view.upload
      /\ view'.thread = view.thread /\ view'.threads = view.threads
      /\ view'.forward = view.forward /\ view'.context = view.context
  BY ViewTypes DEF StoreInv, CacheInv, Views
<1>2. ContextInv(view')
  BY <1>1, ViewTypes DEF ContextInv, OpenChat
<1>3. QED
  BY <1>1, <1>2, ViewFact

LEMMA ElsewhereKeeps ==
  ASSUME MessengerInv, Elsewhere
  PROVE  MessengerInv'
<1>1. work' = work /\ mine' = mine /\ MaxInv
  BY DEF Elsewhere, MessengerInv
<1>2. ASSUME NEW p \in Unsent, there' = there \cup {p}, Tell({p}, FALSE), gone' = gone,
             view' = [view EXCEPT !.behind = @ \cup Unheard({p})]
      PROVE  MessengerInv'
  <2>1. p \in Post /\ p \notin gone /\ Unheard({p}) \subseteq Post
    BY <1>2 DEF Unsent, Unheard
  <2>2. news' \in Seq(News_)
    BY <1>1, <1>2, <2>1, TellFact DEF MaxInv
  <2>3. MaxInv'
    BY <1>1, <1>2, <2>1, <2>2 DEF MaxInv
  <2>4. QED
    BY <1>1, <1>2, <2>1, <2>3, BehindFact
<1>3. ASSUME NEW p \in there, there' = there \ {p}, Tell({p}, TRUE), gone' = gone \cup {p},
             view' = view
      PROVE  MessengerInv'
  <2>1. p \in Post /\ {} \subseteq Post
    BY <1>1, <1>3 DEF MaxInv
  <2>2. news' \in Seq(News_)
    BY <1>1, <1>3, <2>1, TellFact DEF MaxInv
  <2>3. MaxInv'
    BY <1>1, <1>3, <2>1, <2>2 DEF MaxInv
  <2>4. QED
    BY <1>1, <1>3, <2>3, ViewTypes, ViewFact
<1>4. QED
  BY <1>2, <1>3 DEF Elsewhere

LEMMA LinkedKeeps ==
  ASSUME MessengerInv, Linked
  PROVE  MessengerInv'
<1> DEFINE lost == {news[i].post : i \in DOMAIN news}
<1>1. /\ work' = work /\ mine' = mine /\ there' = there /\ gone' = gone /\ news' = <<>>
      /\ view' = [view EXCEPT !.behind = @ \cup lost] /\ MaxInv
  BY DEF Linked, MessengerInv
<1>2. lost \subseteq Post
  <2> SUFFICES ASSUME NEW i \in DOMAIN news PROVE news[i].post \in Post
    OBVIOUS
  <2>1. news[i] \in News_
    BY <1>1, ElementOfSeq, LenProperties DEF MaxInv
  <2>2. QED
    BY <2>1 DEF News_
<1> HIDE DEF lost
<1>3. MaxInv'
  BY <1>1 DEF MaxInv
<1>4. QED
  BY <1>1, <1>2, <1>3, BehindFact

LEMMA LiveEventKeeps ==
  ASSUME MessengerInv, LiveEvent
  PROVE  MessengerInv'
<1> DEFINE e == Head(news)
<1>1. /\ news # <<>> /\ news' = Tail(news) /\ view' = ApplyEvent(view, e)
      /\ UNCHANGED <<mine, there, gone, work>> /\ MaxInv
  BY DEF LiveEvent, MessengerInv
<1>2. e \in News_ /\ news' \in Seq(News_)
  BY <1>1, HeadTailProperties DEF MaxInv
<1>3. MaxInv'
  BY <1>1, <1>2 DEF MaxInv
<1>4. e.post \in Post
  BY <1>2 DEF News_
<1> HIDE DEF e
<1>5. StoreInv(view') /\ SameScreen(view', view) /\ view'.selected = view.selected
      /\ view'.listed = view.listed
  BY <1>1, <1>4, ViewTypes, ApplyEventFact
<1>6. ContextInv(view')
  BY <1>5, ViewTypes DEF ContextInv, OpenChat, SameScreen
<1>7. QED
  BY <1>1, <1>3, <1>5, <1>6, ViewFact DEF SameScreen

\* A request is answered: the operation is what it was, with an answer.
LEMMA HandleKeeps ==
  ASSUME MessengerInv, NEW t \in work, Handle(t)
  PROVE  MessengerInv'
<1> DEFINE sent == IF t.at = "mutate" /\ t.kind \in {"send", "sticker", "attach"}
                   THEN {t.post} \cap Unsent ELSE {}
           deleted == CASE t.at = "mutate" /\ t.kind = "delete" -> {t.post} \cap there
                        [] t.at = "mutate" /\ t.kind = "clear"  -> there \cap PostsIn(t.room)
                        [] OTHER -> {}
           answer == CASE t.at = "list"    -> mine
                       [] t.at = "history" -> there \cap PostsIn(t.room)
                       [] OTHER -> {}
           u == [t EXCEPT !.reply = answer]
<1>1. /\ there' = (there \cup sent) \ deleted /\ gone' = gone \cup deleted
      /\ mine' = CASE t.at = "mutate" /\ t.kind = "join" -> mine \cup {t.room}
                   [] t.at = "mutate" /\ t.kind \in {"leave", "remove"} -> mine \ {t.room}
                   [] OTHER -> mine
      /\ Tell(IF t.kind = "delete" THEN deleted ELSE sent, t.kind = "delete")
      /\ work' = (work \ {t}) \cup {u}
      /\ view' = [view EXCEPT !.behind = @ \cup Unheard(sent)]
  BY DEF Handle
<1>2. TaskInv(t) /\ t \in Tasks /\ UploadInv(t, view) /\ MaxInv
  BY DEF MessengerInv, TaskInv
<1>3. sent \subseteq Post /\ deleted \subseteq Post /\ sent \cap gone = {}
  BY <1>2 DEF Unsent, MaxInv
<1>4. /\ answer \subseteq Post \/ answer \subseteq Room
      /\ t.at = "list" => answer \subseteq Room
      /\ t.at = "history" => answer \subseteq PostsIn(t.room)
  BY <1>2 DEF MaxInv, PostsIn
<1>5. mine' \subseteq Room
  <2>1. t.kind = "join" => t.room \in Room
    BY <1>2 DEF TaskInv
  <2>2. QED
    BY <1>1, <1>2, <2>1 DEF MaxInv
<1> HIDE DEF answer, sent, deleted
<1>6. Unheard(sent) \subseteq Post
  BY <1>3 DEF Unheard
<1>7. news' \in Seq(News_)
  <2> DEFINE heard == IF t.kind = "delete" THEN deleted ELSE sent
             d == t.kind = "delete"
  <2>1. heard \in SUBSET Post /\ d \in BOOLEAN /\ Tell(heard, d)
    BY <1>1, <1>3
  <2> HIDE DEF heard, d
  <2>2. QED
    BY <1>2, <2>1, TellFact DEF MaxInv
<1>8. MaxInv'
  BY <1>1, <1>2, <1>3, <1>5, <1>7 DEF MaxInv
<1>9. /\ u \in Tasks /\ u.kind = t.kind /\ u.room = t.room /\ u.post = t.post /\ u.n = t.n
      /\ u.at = t.at /\ u.from = t.from /\ u.reply = answer
  BY <1>2, <1>4 DEF Tasks
<1> HIDE DEF u
<1>10. TaskInv(u) /\ UploadInv(u, view)
  BY <1>2, <1>4, <1>9 DEF TaskInv, UploadInv
<1>11. \A x \in work' : TaskInv(x) /\ UploadInv(x, view)
  BY <1>1, <1>10 DEF MessengerInv
<1>12. Sending(view, work')
  BY <1>1, <1>9 DEF MessengerInv, Sending, Sends
<1>13. Threading(view, work')
  BY <1>1, <1>9 DEF MessengerInv, Threading, Loads
<1>14. Forwarding(view, work')
  BY <1>1, <1>9 DEF MessengerInv, Forwarding, Forwards
<1>15. /\ StoreInv(view') /\ view'.selected = view.selected /\ view'.listed = view.listed
       /\ view'.uploads = view.uploads /\ view'.upload = view.upload
       /\ view'.thread = view.thread /\ view'.threads = view.threads
       /\ view'.forward = view.forward /\ view'.context = view.context
  BY <1>1, <1>6, ViewTypes DEF StoreInv, CacheInv, Views
<1>16. StoreInv(view)' /\ ContextInv(view)'
  BY <1>15, ViewTypes DEF StoreInv, CacheInv, ContextInv, OpenChat
<1>17. \A x \in work' : TaskInv(x)' /\ UploadInv(x, view)'
  BY <1>11, <1>15 DEF TaskInv, UploadInv
<1>18. Sending(view, work)' /\ Threading(view, work)' /\ Forwarding(view, work)'
  BY <1>12, <1>13, <1>14, <1>15 DEF Sending, Sends, Threading, Loads, Forwarding, Forwards
<1>19. QED
  BY <1>8, <1>16, <1>17, <1>18 DEF MessengerInv

-----------------------------------------------------------------------------
(* The operations go on. *)

LEMMA ListReturnedKeeps ==
  ASSUME MessengerInv, NEW t \in work, ListReturned(t)
  PROVE  MessengerInv'
<1> DEFINE v == ReplaceChats(view, t.reply)
<1>1. t.at = "list" /\ t.reply # NoReply /\ UNCHANGED <<mine, there, gone, news>>
  BY DEF ListReturned
<1>2. TaskInv(t) /\ t \in Tasks
  BY DEF MessengerInv, TaskInv
<1>3. t.reply \subseteq Room
  BY <1>1, <1>2 DEF TaskInv
<1>4. StoreInv(v) /\ SameScreen(v, view) /\ v.selected = view.selected
  BY <1>3, ViewTypes, ReplaceChatsFact
<1>5. CacheInv(v) /\ v \in Views /\ v.latest \in Nat
  BY <1>4 DEF StoreInv, CacheInv, Views
<1>6. ~Sends(t, view)
  BY <1>1 DEF Sends
<1>7. CASE t.kind = "initial" /\ t.reply = {}
  <2> DEFINE w == [v EXCEPT !.loaded = TRUE]
  <2>1. Goes(t, {}, w)
    BY <1>7 DEF ListReturned
  <2> HIDE DEF v
  <2>2. StoreInv(w) /\ SameScreen(w, v)
    BY <1>4, <1>5 DEF StoreInv, CacheInv, Views, SameScreen
  <2> HIDE DEF w
  <2>3. SameScreen(w, view)
    BY <1>4, <2>2 DEF SameScreen
  <2>4. QED
    BY <1>1, <1>6, <1>7, <2>1, <2>2, <2>3, QuietGoesFact
<1>8. CASE t.kind = "initial" /\ t.reply # {}
  <2>1. PICK room \in t.reply :
          LET w == [Select(v, room) EXCEPT !.latest = @ + 1, !.loading = TRUE, !.loaded = TRUE]
          IN Goes(t, {[Asking(t, "history") EXCEPT !.room = room, !.n = w.latest]}, w)
    BY <1>8 DEF ListReturned
  <2> DEFINE x == Select(v, room)
             l == x.latest + 1
             w == [x EXCEPT !.latest = l, !.loading = TRUE, !.loaded = TRUE]
             u == [Asking(t, "history") EXCEPT !.room = room, !.n = l]
  <2> HIDE DEF v
  <2>2. room \in Rooms
    BY <1>3 DEF Rooms
  <2>3. StoreInv(x) /\ SameScreen(x, v)
    BY <1>5, <2>2, SelectFact
  <2>4. x \in Views /\ l \in Nat
    BY <2>3 DEF StoreInv, CacheInv, Views
  <2>5. w = [x EXCEPT !.latest = @ + 1, !.loading = TRUE, !.loaded = TRUE]
    BY <2>4
  <2> HIDE DEF x, l
  <2>6. StoreInv(w) /\ SameScreen(w, x) /\ w.latest = l
    BY <2>3, <2>4 DEF StoreInv, CacheInv, Views, SameScreen
  <2>7. Goes(t, {u}, w)
    BY <2>1, <2>5, <2>6 DEF x
  <2>11. u = AskingHistory(t, room, l)
    BY DEF AskingHistory
  <2> HIDE DEF u
  <2>8. u \in Tasks /\ u.kind = "initial" /\ u.reply = NoReply /\ u.at = "history"
    BY <1>2, <1>8, <2>2, <2>4, <2>11, HistoryTaskFact
  <2> HIDE DEF u, w
  <2>9. TaskInv(u) /\ SameScreen(w, view)
    BY <1>4, <2>3, <2>6, <2>8 DEF TaskInv, SameScreen
  <2>10. QED
    BY <1>1, <1>6, <1>8, <2>6, <2>7, <2>8, <2>9, QuietGoesFact
<1>9. CASE t.kind = "refresh"
  <2> DEFINE l == v.latest + 1
             w == [v EXCEPT !.latest = l]
             u == [Asking(t, "history") EXCEPT !.room = v.selected, !.n = l]
  <2>1. \/ Goes(t, {}, v)
        \/ LET y == [v EXCEPT !.latest = @ + 1]
           IN Goes(t, {[Asking(t, "history") EXCEPT !.room = v.selected, !.n = y.latest]}, y)
    BY <1>9 DEF ListReturned
  <2> HIDE DEF v
  <2>2. l \in Nat /\ w = [v EXCEPT !.latest = @ + 1]
    BY <1>5
  <2> HIDE DEF l
  <2>3. StoreInv(w) /\ SameScreen(w, v) /\ w.latest = l
    BY <1>4, <1>5, <2>2 DEF StoreInv, CacheInv, Views, SameScreen
  <2>5. Goes(t, {}, v) \/ Goes(t, {u}, w)
    BY <2>1, <2>2, <2>3
  <2>11. u = AskingHistory(t, v.selected, l)
    BY DEF AskingHistory
  <2> HIDE DEF u
  <2>4. u \in Tasks /\ u.kind = "refresh" /\ u.reply = NoReply /\ u.at = "history"
    BY <1>2, <1>4, <1>9, <2>2, <2>11, ViewTypes, HistoryTaskFact
  <2> HIDE DEF u, w
  <2>6. TaskInv(u) /\ SameScreen(w, view)
    BY <1>4, <2>3, <2>4 DEF TaskInv, SameScreen
  <2>7. CASE Goes(t, {}, v)
    BY <1>1, <1>4, <1>6, <1>9, <2>7, QuietGoesFact
  <2>8. CASE Goes(t, {u}, w)
    BY <1>1, <1>6, <1>9, <2>3, <2>4, <2>6, <2>8, QuietGoesFact
  <2>9. QED
    BY <2>5, <2>7, <2>8
<1>10. ASSUME NEW x, NEW room \in Room, StoreInv(x), SameScreen(x, view),
              t.kind \in {"join", "leave", "remove"},
              Goes(t, {Selecting(t, SelectChat(x, room), room)}, SelectChat(x, room))
       PROVE  MessengerInv'
  <2> DEFINE w == SelectChat(x, room)
             u == Selecting(t, w, room)
  <2>1. StoreInv(w) /\ SameScreen(w, x) /\ w.latest \in Nat
    BY <1>10, SelectChatFact DEF StoreInv
  <2>2. Goes(t, {u}, w)
    BY <1>10
  <2> HIDE DEF w
  <2>3. TaskInv(u) /\ u.kind = "select"
    BY <1>2, <2>1, SelectingFact DEF Rooms
  <2> HIDE DEF u
  <2>4. SameScreen(w, view)
    BY <1>10, <2>1 DEF SameScreen
  <2>5. QED
    BY <1>1, <1>6, <1>10, <2>1, <2>2, <2>3, <2>4, QuietGoesFact
<1>11. CASE t.kind = "join"
  <2>1. Goes(t, {Selecting(t, SelectChat(v, t.room), t.room)}, SelectChat(v, t.room))
    BY <1>11 DEF ListReturned
  <2>2. t.room \in Room
    BY <1>2, <1>11 DEF TaskInv
  <2>3. QED
    BY <1>4, <1>10, <1>11, <2>1, <2>2
<1>12. CASE t.kind = "mute"
  <2>1. Goes(t, {}, v)
    BY <1>12 DEF ListReturned
  <2> HIDE DEF v
  <2>2. QED
    BY <1>1, <1>4, <1>6, <1>12, <2>1, QuietGoesFact
<1>13. CASE t.kind = "clear"
  <2> DEFINE u == Asking(t, "history")
  <2>1. Goes(t, {}, v) \/ Goes(t, {u}, v)
    BY <1>13 DEF ListReturned
  <2>2. TaskInv(u) /\ u.kind = "clear"
    BY <1>2, <1>13, AskingFact
  <2> HIDE DEF v, u
  <2>3. QED
    BY <1>1, <1>4, <1>6, <1>13, <2>1, <2>2, QuietGoesFact
<1>14. CASE t.kind \in {"leave", "remove"}
  <2> DEFINE w == [v EXCEPT !.cache = [@ EXCEPT ![t.room] = NoReply]]
  <2>1. \/ Goes(t, {}, w) \/ Goes(t, {}, ClearSelection(w))
        \/ \E room \in t.reply : Goes(t, {Selecting(t, SelectChat(w, room), room)}, SelectChat(w, room))
    BY <1>14 DEF ListReturned
  <2> HIDE DEF v
  <2>2. w = Remember(v, t.room, NoReply)
    BY DEF Remember
  <2>3. StoreInv(w) /\ SameScreen(w, v)
    BY <1>2, <1>4, <2>2, RememberFact DEF Tasks
  <2> HIDE DEF w
  <2>4. SameScreen(w, view)
    BY <1>4, <2>3 DEF SameScreen
  <2>5. StoreInv(ClearSelection(w)) /\ SameScreen(ClearSelection(w), w)
    BY <2>3, SelectFact DEF StoreInv, ClearSelection, Rooms
  <2>6. SameScreen(ClearSelection(w), view)
    BY <2>4, <2>5 DEF SameScreen
  <2>7. CASE Goes(t, {}, w)
    BY <1>1, <1>6, <1>14, <2>3, <2>4, <2>7, QuietGoesFact
  <2>8. CASE Goes(t, {}, ClearSelection(w))
    BY <1>1, <1>6, <1>14, <2>5, <2>6, <2>8, QuietGoesFact
  <2>9. CASE \E room \in t.reply : Goes(t, {Selecting(t, SelectChat(w, room), room)}, SelectChat(w, room))
    BY <1>3, <1>10, <1>14, <2>3, <2>4, <2>9
  <2>10. QED
    BY <2>1, <2>7, <2>8, <2>9
<1>15. QED
  BY <1>7, <1>8, <1>9, <1>11, <1>12, <1>13, <1>14 DEF ListReturned

LEMMA HistoryReturnedKeeps ==
  ASSUME MessengerInv, NEW t \in work, HistoryReturned(t)
  PROVE  MessengerInv'
<1> DEFINE v == Remember(view, t.room, t.reply)
           w == MergeHistory(v, t.reply)
           x == ReplaceMessages(v, t.reply)
<1>1. t.at = "history" /\ t.reply # NoReply /\ UNCHANGED <<mine, there, gone, news>>
  BY DEF HistoryReturned
<1>2. TaskInv(t) /\ t \in Tasks
  BY DEF MessengerInv, TaskInv
<1>3. t.reply \subseteq PostsIn(t.room) /\ t.room \in Rooms
  BY <1>1, <1>2 DEF TaskInv, Tasks
<1>4. StoreInv(v) /\ SameScreen(v, view) /\ v.selected = view.selected
  BY <1>3, ViewTypes, RememberFact
<1>5. ~Sends(t, view)
  BY <1>1 DEF Sends
<1>6. StillSelected(t) => StoreInv(w) /\ SameScreen(w, v) /\ StoreInv(x) /\ SameScreen(x, v)
  <2> SUFFICES ASSUME StillSelected(t)
               PROVE  StoreInv(w) /\ SameScreen(w, v) /\ StoreInv(x) /\ SameScreen(x, v)
    OBVIOUS
  <2>1. t.reply \in SUBSET PostsIn(v.selected)
    BY <1>3, <1>4 DEF StillSelected
  <2> HIDE DEF v
  <2>2. QED
    BY <1>4, <2>1, MergeHistoryFact, ReplaceMessagesFact
<1>7. ASSUME NEW y, Goes(t, {}, y), StoreInv(y), SameScreen(y, v), t.kind \notin {"comments", "forward"}
      PROVE  MessengerInv'
  <2>1. SameScreen(y, view)
    BY <1>4, <1>7 DEF SameScreen
  <2>2. QED
    BY <1>1, <1>5, <1>7, <2>1, QuietGoesFact
<1>8. CASE t.kind \in {"initial", "select", "source"}
  <2> DEFINE y == IF t.n = view.latest /\ StillSelected(t) THEN w ELSE v
  <2>1. Goes(t, {}, Loaded(y, t))
    BY <1>8 DEF HistoryReturned
  <2>2. StoreInv(y) /\ SameScreen(y, v)
    BY <1>4, <1>6, SameScreenRefl
  <2> HIDE DEF y, v, w, x
  <2>3. StoreInv(Loaded(y, t)) /\ SameScreen(Loaded(y, t), y)
    BY <2>2, LoadedFact
  <2>4. SameScreen(Loaded(y, t), v)
    BY <2>2, <2>3 DEF SameScreen
  <2>5. QED
    BY <1>7, <1>8, <2>1, <2>3, <2>4
<1>9. CASE t.kind = "refresh"
  <2> DEFINE y == IF t.n = view.latest /\ StillSelected(t) THEN x ELSE v
  <2>1. Goes(t, {}, y)
    BY <1>9 DEF HistoryReturned
  <2>2. StoreInv(y) /\ SameScreen(y, v)
    BY <1>4, <1>6, SameScreenRefl
  <2> HIDE DEF y, v, w, x
  <2>3. QED
    BY <1>7, <1>9, <2>1, <2>2
<1>10. CASE t.kind \in {"send", "sticker", "edit", "react", "delete", "clear", "attach"}
  <2> DEFINE y == IF ~StillSelected(t) THEN v
                  ELSE IF t.kind \in {"delete", "clear"} THEN x ELSE w
             z == [y EXCEPT !.uploading = FALSE]
  <2>1. Goes(t, {}, y) \/ Goes(t, {}, z)
    BY <1>10 DEF HistoryReturned
  <2>2. StoreInv(y) /\ SameScreen(y, v)
    BY <1>4, <1>6, SameScreenRefl
  <2> HIDE DEF y, v, w, x
  <2>3. StoreInv(z) /\ SameScreen(z, y)
    BY <2>2 DEF StoreInv, CacheInv, Views, SameScreen
  <2> HIDE DEF z
  <2>4. SameScreen(z, v)
    BY <2>2, <2>3 DEF SameScreen
  <2>5. QED
    BY <1>7, <1>10, <2>1, <2>2, <2>3, <2>4
<1>11. QED
  BY <1>8, <1>9, <1>10 DEF HistoryReturned

\* An upload that is answered or lost: the screen leaves "sending" exactly if it waits for it.
LEMMA UploadGoes ==
  ASSUME MessengerInv, UNCHANGED <<mine, there, gone, news>>, NEW t \in work, t.kind = "attach",
         NEW next, NEW v, Goes(t, next, v), StoreInv(v), v.context = view.context,
         v.uploads = view.uploads, v.thread = view.thread, v.threads = view.threads,
         v.forward = view.forward,
         v.upload \in {"failed", "idle"} \/ (v.upload = view.upload /\ ~Sends(t, view)),
         \A u \in next : TaskInv(u) /\ u.kind = "attach" /\ u.n = t.n /\ u.room = t.room
  PROVE  MessengerInv'
<1>1. ~Loads(t, view) /\ ~Forwards(t, view)
  BY DEF Loads, Forwards
<1>2. v.upload = "sending" => view.upload = "sending" /\ ~Sends(t, view)
  OBVIOUS
<1>3. QED
  BY <1>1, <1>2, GoesFact

LEMMA ForwardGoes ==
  ASSUME MessengerInv, UNCHANGED <<mine, there, gone, news>>, NEW t \in work, t.kind = "forward",
         NEW v, StoreInv(v), SameScreen(v, view), NEW state \in {"confirmed", "ambiguous", "failed"},
         Goes(t, {}, [v EXCEPT !.forward = [@ EXCEPT !.state = state]])
  PROVE  MessengerInv'
<1> DEFINE f == [v.forward EXCEPT !.state = state]
           w == [v EXCEPT !.forward = f]
<1>1. v \in Views
  BY DEF StoreInv, CacheInv
<1>2. v.forward \in [post : PostNames, state : {"idle", "sending", "confirmed", "ambiguous", "failed"}]
  BY <1>1 DEF Views
<1>3. /\ f \in [post : PostNames, state : {"idle", "sending", "confirmed", "ambiguous", "failed"}]
      /\ f.state = state
  BY <1>2
<1>4. Goes(t, {}, w)
  OBVIOUS
<1> HIDE DEF f
<1>5. /\ StoreInv(w) /\ w.forward = f /\ w.context = v.context /\ w.upload = v.upload
      /\ w.uploads = v.uploads /\ w.thread = v.thread /\ w.threads = v.threads
  BY <1>1, <1>3 DEF StoreInv, CacheInv, Views
<1> HIDE DEF w
<1>6. /\ w.context = view.context /\ w.upload = view.upload /\ w.uploads = view.uploads
      /\ w.thread = view.thread /\ w.threads = view.threads /\ w.forward.state # "sending"
  BY <1>3, <1>5 DEF SameScreen
<1>7. ~Sends(t, view) /\ ~Loads(t, view)
  BY DEF Sends, Loads
<1>8. QED
  BY <1>4, <1>5, <1>6, <1>7, GoesFact

LEMMA MutationReturnedKeeps ==
  ASSUME MessengerInv, NEW t \in work, MutationReturned(t)
  PROVE  MessengerInv'
<1>1. t.at = "mutate" /\ t.reply # NoReply /\ UNCHANGED <<mine, there, gone, news>>
  BY DEF MutationReturned
<1>2. TaskInv(t) /\ t \in Tasks /\ UploadInv(t, view)
  BY DEF MessengerInv, TaskInv
<1>3. StoreInv(view) /\ view \in Views /\ SameScreen(view, view)
  BY ViewTypes, SameScreenRefl
<1>4. t.kind # "attach" => ~Sends(t, view)
  BY DEF Sends
<1>5. ASSUME NEW at \in {"list", "history", "comments"}, at = "comments" => t.kind = "reactToComment"
      PROVE  /\ TaskInv(Asking(t, at)) /\ Asking(t, at).kind = t.kind
             /\ Asking(t, at).n = t.n /\ Asking(t, at).room = t.room
             /\ Asking(t, at).at = at /\ Asking(t, at).reply = NoReply
  <2>1. at = "comments" => t.kind \in {"comments", "reactToComment"}
    BY <1>5
  <2>2. QED
    BY <1>2, <2>1, AskingFact
<1>6. CASE t.kind \in {"send", "sticker", "edit", "react"}
  <2> DEFINE u == Asking(t, "history")
  <2>1. Goes(t, {u}, view)
    BY <1>6 DEF MutationReturned
  <2>2. TaskInv(u) /\ u.kind = t.kind
    BY <1>5
  <2> HIDE DEF u
  <2>3. QED
    BY <1>1, <1>3, <1>4, <1>6, <2>1, <2>2, QuietGoesFact
<1>7. CASE t.kind = "delete"
  <2> DEFINE u == Asking(t, "history")
             e == [post |-> t.post, deleted |-> TRUE]
             v == ApplyEvent(view, e)
  <2>1. Goes(t, {u}, v)
    BY <1>7 DEF MutationReturned
  <2>2. TaskInv(u) /\ u.kind = t.kind
    BY <1>5
  <2>3. e.deleted
    OBVIOUS
  <2> HIDE DEF u, e
  <2>4. StoreInv(v) /\ SameScreen(v, view)
    BY <1>3, <2>3, ApplyEventFact
  <2> HIDE DEF v
  <2>5. QED
    BY <1>1, <1>4, <1>7, <2>1, <2>2, <2>4, QuietGoesFact
<1>8. CASE t.kind \in {"mute", "clear", "remove", "join", "leave"}
  <2> DEFINE u == Asking(t, "list")
  <2>1. Goes(t, {u}, view)
    BY <1>8 DEF MutationReturned
  <2>2. TaskInv(u) /\ u.kind = t.kind
    BY <1>5
  <2> HIDE DEF u
  <2>3. QED
    BY <1>1, <1>3, <1>4, <1>8, <2>1, <2>2, QuietGoesFact
<1>9. CASE t.kind = "forward"
  <2>1. PICK state \in {"confirmed", "ambiguous"} :
          Goes(t, {}, [view EXCEPT !.forward = [@ EXCEPT !.state = state]])
    BY <1>9 DEF MutationReturned
  <2>2. QED
    BY <1>1, <1>3, <1>9, <2>1, ForwardGoes
<1>10. CASE t.kind = "reactToComment"
  <2> DEFINE u0 == Asking(t, "comments")
             u == [u0 EXCEPT !.n = view.threads]
  <2>1. Goes(t, {u}, view)
    BY <1>10 DEF MutationReturned
  <2>2. TaskInv(u0) /\ u0.kind = "reactToComment" /\ u0.at = "comments"
    BY <1>5, <1>10
  <2> HIDE DEF u0
  <2>3. u \in Tasks /\ u.kind = "reactToComment" /\ u.at = "comments"
    BY <2>2, ViewTypes DEF TaskInv, Tasks
  <2> HIDE DEF u
  <2>4. TaskInv(u)
    BY <2>3 DEF TaskInv
  <2>5. QED
    BY <1>1, <1>3, <1>4, <1>10, <2>1, <2>3, <2>4, QuietGoesFact
<1>11. CASE t.kind = "logout"
  <2> DEFINE c0 == [room \in Room |-> NoReply]
             v == [view EXCEPT !.over = TRUE, !.cache = c0]
  <2>1. Goes(t, {}, v)
    BY <1>11 DEF MutationReturned
  <2>2. c0 \in [Room -> (SUBSET Post) \cup {NoReply}] /\ \A room \in Room : c0[room] = NoReply
    OBVIOUS
  <2> HIDE DEF c0
  <2>3. StoreInv(v) /\ SameScreen(v, view)
    BY <1>3, <2>2 DEF StoreInv, CacheInv, Views, SameScreen
  <2> HIDE DEF v
  <2>4. QED
    BY <1>1, <1>4, <1>11, <2>1, <2>3, QuietGoesFact
<1>12. CASE t.kind = "attach"
  <2> DEFINE off == [view EXCEPT !.uploading = FALSE]
             failed == [off EXCEPT !.upload = "failed"]
             idle == [view EXCEPT !.upload = "idle"]
             u == Asking(t, "history")
  <2>1. CASE t.n # view.uploads
    <3>1. Goes(t, {}, view) /\ ~Sends(t, view)
      BY <1>12, <2>1 DEF MutationReturned, Sends
    <3>2. QED
      BY <1>1, <1>3, <1>12, <3>1, UploadGoes
  <2>2. CASE t.n = view.uploads
    <3>1. StillSelected(t)
      BY <1>2, <1>12, <2>2 DEF UploadInv, StillSelected
    <3>2. Goes(t, {}, failed) \/ Goes(t, {u}, idle)
      BY <1>12, <2>2, <3>1 DEF MutationReturned
    <3>3. TaskInv(u) /\ u.kind = "attach" /\ u.n = t.n /\ u.room = t.room
      BY <1>5, <1>12
    <3>4. /\ StoreInv(failed) /\ failed.context = view.context /\ failed.uploads = view.uploads
          /\ failed.thread = view.thread /\ failed.threads = view.threads
          /\ failed.forward = view.forward /\ failed.upload = "failed"
      BY <1>3 DEF StoreInv, CacheInv, Views
    <3>5. /\ StoreInv(idle) /\ idle.context = view.context /\ idle.uploads = view.uploads
          /\ idle.thread = view.thread /\ idle.threads = view.threads
          /\ idle.forward = view.forward /\ idle.upload = "idle"
      BY <1>3 DEF StoreInv, CacheInv, Views
    <3> HIDE DEF off, failed, idle, u
    <3>6. CASE Goes(t, {}, failed)
      BY <1>1, <1>12, <3>4, <3>6, UploadGoes
    <3>7. CASE Goes(t, {u}, idle)
      BY <1>1, <1>12, <3>3, <3>5, <3>7, UploadGoes
    <3>8. QED
      BY <3>2, <3>6, <3>7
  <2>3. QED
    BY <2>1, <2>2
<1>13. QED
  BY <1>6, <1>7, <1>8, <1>9, <1>10, <1>11, <1>12 DEF MutationReturned

LEMMA ThreadGoes ==
  ASSUME MessengerInv, UNCHANGED <<mine, there, gone, news>>, NEW t \in work,
         t.kind # "forward", ~Sends(t, view), NEW th \in [post : PostNames, loading : BOOLEAN],
         ~th.loading, NEW v, StoreInv(v), SameScreen(v, view), Goes(t, {}, [v EXCEPT !.thread = th])
  PROVE  MessengerInv'
<1> DEFINE w == [v EXCEPT !.thread = th]
<1>1. /\ StoreInv(w) /\ w.thread = th /\ w.context = v.context /\ w.upload = v.upload
      /\ w.uploads = v.uploads /\ w.forward = v.forward
  BY DEF StoreInv, CacheInv, Views
<1>2. Goes(t, {}, w)
  OBVIOUS
<1> HIDE DEF w
<1>3. /\ w.context = view.context /\ w.upload = view.upload /\ w.uploads = view.uploads
      /\ w.forward = view.forward /\ ~w.thread.loading
  BY <1>1 DEF SameScreen
<1>4. ~Forwards(t, view)
  BY DEF Forwards
<1>5. QED
  BY <1>1, <1>2, <1>3, <1>4, GoesFact

\* An answer that is for a thread that was left changes nothing.
LEMMA StaleThreadGoes ==
  ASSUME MessengerInv, UNCHANGED <<mine, there, gone, news>>, NEW t \in work,
         t.kind # "forward", ~Sends(t, view), t.n # view.threads, NEW v, StoreInv(v), SameScreen(v, view),
         Goes(t, {}, v)
  PROVE  MessengerInv'
<1>1. ~Loads(t, view) /\ ~Forwards(t, view)
  BY DEF Loads, Forwards
<1>2. /\ v.context = view.context /\ v.upload = view.upload /\ v.uploads = view.uploads
      /\ v.forward = view.forward /\ v.thread = view.thread /\ v.threads = view.threads
  BY DEF SameScreen
<1>3. QED
  BY <1>1, <1>2, GoesFact


LEMMA CommentsReturnedKeeps ==
  ASSUME MessengerInv, NEW t \in work, CommentsReturned(t)
  PROVE  MessengerInv'
<1> DEFINE th == [post |-> t.post, loading |-> FALSE]
<1>1. /\ t.at = "comments" /\ UNCHANGED <<mine, there, gone, news>>
      /\ Goes(t, {}, IF t.n = view.threads THEN [view EXCEPT !.thread = th] ELSE view)
  BY DEF CommentsReturned
<1>2. TaskInv(t) /\ t.post \in PostNames
  BY DEF MessengerInv, TaskInv, Tasks
<1>3. th \in [post : PostNames, loading : BOOLEAN] /\ ~th.loading
  BY <1>2
<1> HIDE DEF th
<1>4. t.kind # "forward" /\ ~Sends(t, view)
  BY <1>1, <1>2 DEF TaskInv, Sends
<1>5. StoreInv(view) /\ SameScreen(view, view)
  BY ViewTypes, SameScreenRefl
<1>6. CASE t.n = view.threads
  BY <1>1, <1>3, <1>4, <1>5, <1>6, ThreadGoes
<1>7. CASE t.n # view.threads
  BY <1>1, <1>4, <1>5, <1>7, StaleThreadGoes
<1>8. QED
  BY <1>6, <1>7

\* The visit of a forwarded message's source failed: the chat before is shown again.
LEMMA SourceFails ==
  ASSUME MessengerInv, NEW t \in work, NEW w, StoreInv(w), SameScreen(w, view), t.kind = "source",
         NEW x, x = IF t.post = "added" THEN RemoveTransientChat(w, t.room) ELSE w,
         NEW y, y = Select(x, t.from),
         NEW z, z = IF x.cache[t.from] = NoReply THEN y ELSE ReplaceMessages(y, x.cache[t.from]),
         NEW f, f = [z EXCEPT !.loading = FALSE, !.behind = @ \cup (there \cap PostsIn(t.from))]
  PROVE  StoreInv(f) /\ SameScreen(f, view)
<1>1. TaskInv(t) /\ t.from \in Room
  BY DEF MessengerInv, TaskInv
<1>2. CacheInv(x) /\ SameScreen(x, w)
  BY TransientFact, SameScreenRefl DEF StoreInv
<1>3. StoreInv(y) /\ SameScreen(y, x) /\ y.selected = t.from
  BY <1>1, <1>2, SelectFact DEF Rooms
<1>4. x.cache[t.from] # NoReply => x.cache[t.from] \in SUBSET PostsIn(y.selected)
  BY <1>1, <1>2, <1>3 DEF CacheInv
<1>5. StoreInv(z) /\ SameScreen(z, y)
  BY <1>3, <1>4, ReplaceMessagesFact, SameScreenRefl
<1>6. there \cap PostsIn(t.from) \subseteq Post
  BY DEF PostsIn
<1>7. StoreInv(f) /\ SameScreen(f, z)
  <2> DEFINE posts == there \cap PostsIn(t.from)
             g == [z EXCEPT !.loading = FALSE, !.behind = @ \cup posts]
  <2>1. posts \subseteq Post /\ f = g
    BY <1>6
  <2> HIDE DEF posts
  <2>2. StoreInv(g) /\ SameScreen(g, z)
    BY <1>5, <2>1, UnloadedFact
  <2> HIDE DEF g
  <2>3. QED
    BY <2>1, <2>2
<1>8. SameScreen(z, x)
  BY <1>3, <1>5, SameScreenTrans
<1>9. SameScreen(f, x) /\ SameScreen(x, view)
  BY <1>2, <1>7, <1>8, SameScreenTrans
<1>10. QED
  BY <1>7, <1>9, SameScreenTrans

LEMMA FailKeeps ==
  ASSUME MessengerInv, NEW t \in work, Fail(t)
  PROVE  MessengerInv'
<1> DEFINE missed == there \cap PostsIn(t.room)
           lost == [view EXCEPT !.behind = @ \cup missed]
           v == IF t.at = "history" THEN lost ELSE view
           l == Loaded(v, t)
<1>1. UNCHANGED <<mine, there, gone, news>>
  BY DEF Fail
<1>2. TaskInv(t) /\ t \in Tasks /\ UploadInv(t, view)
  BY DEF MessengerInv, TaskInv
<1>3. StoreInv(view) /\ view \in Views /\ missed \subseteq Post
  BY ViewTypes DEF PostsIn
<1>4. StoreInv(v) /\ SameScreen(v, view) /\ v.selected = view.selected /\ v.cache = view.cache
  BY <1>3 DEF StoreInv, CacheInv, Views, SameScreen
<1>5. \/ t.kind = "initial"
         /\ Goes(t, {}, IF t.at = "list" THEN [v EXCEPT !.loaded = TRUE, !.failed = TRUE] ELSE l)
      \/ t.kind = "select" /\ Goes(t, {}, l)
      \/ /\ t.kind = "source"
         /\ LET x == IF t.post = "added" THEN RemoveTransientChat(l, t.room) ELSE l
                y == Select(x, t.from)
                z == IF x.cache[t.from] = NoReply THEN y ELSE ReplaceMessages(y, x.cache[t.from])
            IN IF view.selected # t.room THEN Goes(t, {}, l)
               ELSE Goes(t, {}, [z EXCEPT !.loading = FALSE,
                                          !.behind = @ \cup (there \cap PostsIn(t.from))])
      \/ /\ t.kind = "attach"
         /\ IF t.n # view.uploads THEN Goes(t, {}, v)
            ELSE Goes(t, {}, [v EXCEPT !.uploading = FALSE,
                        !.upload = IF t.at = "mutate" /\ StillSelected(t) THEN "failed" ELSE @])
      \/ /\ t.kind = "comments"
         /\ Goes(t, {}, IF t.n = view.threads
                        THEN [v EXCEPT !.thread = [@ EXCEPT !.loading = FALSE]] ELSE v)
      \/ t.kind = "forward" /\ Goes(t, {}, [v EXCEPT !.forward = [@ EXCEPT !.state = "failed"]])
      \/ t.kind \notin {"initial", "select", "source", "attach", "comments", "forward"}
         /\ Goes(t, {}, v)
  BY DEF Fail
<1> HIDE DEF v
<1>6. StoreInv(l) /\ SameScreen(l, v)
  BY <1>4, LoadedFact
<1> HIDE DEF l
<1>7. SameScreen(l, view) /\ v \in Views
  BY <1>4, <1>6 DEF SameScreen, StoreInv, CacheInv
<1>8. ASSUME NEW w, Goes(t, {}, w), StoreInv(w), SameScreen(w, view),
             t.kind \notin {"comments", "forward", "attach"}
      PROVE  MessengerInv'
  <2>1. ~Sends(t, view)
    BY <1>8 DEF Sends
  <2>2. QED
    BY <1>1, <1>8, <2>1, QuietGoesFact
<1>9. CASE t.kind = "initial"
  <2> DEFINE w == [v EXCEPT !.loaded = TRUE, !.failed = TRUE]
  <2>1. StoreInv(w) /\ SameScreen(w, v)
    BY <1>4, <1>7 DEF StoreInv, CacheInv, Views, SameScreen
  <2>2. Goes(t, {}, w) \/ Goes(t, {}, l)
    BY <1>5, <1>9
  <2> HIDE DEF w
  <2>3. SameScreen(w, view)
    BY <1>4, <2>1 DEF SameScreen
  <2>4. QED
    BY <1>6, <1>7, <1>8, <1>9, <2>1, <2>2, <2>3
<1>10. CASE t.kind = "select"
  BY <1>5, <1>6, <1>7, <1>8, <1>10
<1>11. CASE t.kind = "source"
  <2> DEFINE x == IF t.post = "added" THEN RemoveTransientChat(l, t.room) ELSE l
             y == Select(x, t.from)
             z == IF x.cache[t.from] = NoReply THEN y ELSE ReplaceMessages(y, x.cache[t.from])
             f == [z EXCEPT !.loading = FALSE, !.behind = @ \cup (there \cap PostsIn(t.from))]
  <2>1. Goes(t, {}, l) \/ Goes(t, {}, f)
    BY <1>5, <1>11
  <2>2. StoreInv(f) /\ SameScreen(f, view)
    BY <1>6, <1>7, <1>11, SourceFails
  <2> HIDE DEF f
  <2>3. QED
    BY <1>6, <1>7, <1>8, <1>11, <2>1, <2>2
<1>12. CASE t.kind = "attach"
  <2>1. CASE t.n # view.uploads
    <3>1. Goes(t, {}, v) /\ ~Sends(t, view)
      BY <1>5, <1>12, <2>1 DEF Sends
    <3>2. QED
      BY <1>1, <1>4, <1>12, <3>1, UploadGoes DEF SameScreen
  <2>2. CASE t.n = view.uploads
    <3> DEFINE up == IF t.at = "mutate" /\ StillSelected(t) THEN "failed" ELSE v.upload
               w == [v EXCEPT !.uploading = FALSE, !.upload = up]
    <3>1. Goes(t, {}, w)
      BY <1>5, <1>7, <1>12, <2>2
    <3>2. StillSelected(t)
      BY <1>2, <1>12, <2>2 DEF UploadInv, StillSelected
    <3>3. up = "failed" \/ (up = v.upload /\ ~Sends(t, view))
      BY <3>2 DEF Sends
    <3>4. up \in {"idle", "sending", "failed"}
      BY <1>7, <3>3 DEF Views
    <3> HIDE DEF up
    <3>5. /\ StoreInv(w) /\ w.context = v.context /\ w.uploads = v.uploads /\ w.thread = v.thread
          /\ w.threads = v.threads /\ w.forward = v.forward /\ w.upload = up
      BY <1>4, <1>7, <3>4 DEF StoreInv, CacheInv, Views
    <3> HIDE DEF w
    <3>6. QED
      BY <1>1, <1>4, <1>12, <3>1, <3>3, <3>5, UploadGoes DEF SameScreen
  <2>3. QED
    BY <2>1, <2>2
<1>13. CASE t.kind = "comments"
  <2> DEFINE th == [v.thread EXCEPT !.loading = FALSE]
  <2>1. Goes(t, {}, IF t.n = view.threads THEN [v EXCEPT !.thread = th] ELSE v)
    BY <1>5, <1>13
  <2>2. v.thread \in [post : PostNames, loading : BOOLEAN]
    BY <1>7 DEF Views
  <2>3. th \in [post : PostNames, loading : BOOLEAN] /\ ~th.loading
    BY <2>2
  <2> HIDE DEF th
  <2>4. t.kind # "forward" /\ ~Sends(t, view)
    BY <1>13 DEF Sends
  <2>5. CASE t.n = view.threads
    BY <1>1, <1>4, <2>1, <2>3, <2>4, <2>5, ThreadGoes
  <2>6. CASE t.n # view.threads
    BY <1>1, <1>4, <2>1, <2>4, <2>6, StaleThreadGoes
  <2>7. QED
    BY <2>5, <2>6
<1>14. CASE t.kind = "forward"
  <2>1. Goes(t, {}, [v EXCEPT !.forward = [@ EXCEPT !.state = "failed"]])
    BY <1>5, <1>14
  <2>2. QED
    BY <1>1, <1>4, <1>14, <2>1, ForwardGoes
<1>15. CASE t.kind \notin {"initial", "select", "source", "attach", "comments", "forward"}
  BY <1>4, <1>5, <1>8, <1>15
<1>16. QED
  BY <1>9, <1>10, <1>11, <1>12, <1>13, <1>14, <1>15

-----------------------------------------------------------------------------
LEMMA MessengerInitially == MessengerInit => MessengerInv
<1> SUFFICES ASSUME MessengerInit PROVE MessengerInv
  OBVIOUS
<1> DEFINE c0 == [room \in Room |-> NoReply]
           t0 == Task("initial", NoRoom, NoPost)
           u == [t0 EXCEPT !.at = "list"]
<1>1. /\ mine = FirstRooms /\ there = FirstPosts /\ gone = {} /\ news = <<>>
      /\ view = [loaded |-> FALSE, failed |-> FALSE, over |-> FALSE,
               listed |-> {}, transient |-> {}, selected |-> NoRoom, shown |-> {},
               cache |-> c0, latest |-> 0, loading |-> FALSE,
               uploads |-> 0, uploading |-> FALSE, upload |-> "idle",
               threads |-> 0, thread |-> NoThread, forward |-> NoForward, context |-> NoPost,
               behind |-> {}]
      /\ work = {u}
  BY DEF MessengerInit
<1>2. c0 \in [Room -> (SUBSET Post) \cup {NoReply}] /\ \A room \in Room : c0[room] = NoReply
  OBVIOUS
<1> HIDE DEF c0
<1>3. /\ NoThread \in [post : PostNames, loading : BOOLEAN]
      /\ NoForward \in [post : PostNames, state : {"idle", "sending", "confirmed", "ambiguous", "failed"}]
      /\ NoThread.loading = FALSE /\ NoForward.state = "idle"
  BY DEF NoThread, NoForward, PostNames
<1> HIDE DEF NoThread, NoForward
<1>4. view \in Views
  BY <1>1, <1>2, <1>3 DEF Views, Rooms
<1>5. StoreInv(view)
  BY <1>1, <1>2, <1>4 DEF StoreInv, CacheInv
<1>6. ContextInv(view) /\ view.upload = "idle" /\ ~view.thread.loading /\ view.forward.state = "idle"
  BY <1>1, <1>3 DEF ContextInv
<1>7. Sending(view, work) /\ Threading(view, work) /\ Forwarding(view, work)
  BY <1>6 DEF Sending, Threading, Forwarding
<1>8. t0 \in Tasks /\ t0.kind = "initial" /\ t0.reply = NoReply
  BY TaskFact DEF Kinds, Rooms, PostNames
<1> HIDE DEF t0
<1>9. u \in Tasks /\ u.kind = "initial" /\ u.reply = NoReply /\ u.at = "list"
  BY <1>8 DEF Tasks
<1> HIDE DEF u
<1>10. TaskInv(u) /\ UploadInv(u, view)
  BY <1>9 DEF TaskInv, UploadInv
<1>11. MaxInv
  BY <1>1, MessengerAssumption DEF MaxInv
<1>12. QED
  BY <1>1, <1>5, <1>6, <1>7, <1>10, <1>11 DEF MessengerInv

LEMMA MessengerInductive == MessengerInv /\ [MessengerNext]_messengerVars => MessengerInv'
<1> SUFFICES ASSUME MessengerInv, [MessengerNext]_messengerVars PROVE MessengerInv'
  OBVIOUS
<1>1. CASE UserActs
  <2>1. ASSUME NEW room \in Room, Choose(room) \/ OpenForwardedSource(room)
        PROVE  MessengerInv'
    BY <2>1, ChooseKeeps, OpenForwardedSourceKeeps
  <2>2. ASSUME NEW room \in Room, NEW kind \in {"mute", "clear", "remove"},
               \/ ApplyChatAction(room, kind) \/ Subscribe(room) \/ Unsubscribe(room)
        PROVE  MessengerInv'
    <3> DEFINE t == Task(kind, room, NoPost)
    <3>1. UNCHANGED <<mine, there, gone, news>> /\ room \in Rooms /\ NoPost \in PostNames
      BY <2>2 DEF ApplyChatAction, Subscribe, Unsubscribe, Act, Rooms, PostNames
    <3>2. PICK k \in {"mute", "clear", "remove", "join", "leave"} : Starts(Task(k, room, NoPost), view)
      BY <2>2 DEF ApplyChatAction, Subscribe, Unsubscribe
    <3>3. k \in Kinds /\ k \notin {"source", "attach"}
      BY DEF Kinds
    <3>4. QED
      BY <3>1, <3>2, <3>3, PlainStart
  <2>3. ASSUME NEW post \in Post, DeleteMessage_(post) \/ ReactMessage(post)
        PROVE  MessengerInv'
    <3>1. UNCHANGED <<mine, there, gone, news>> /\ view.selected \in Rooms /\ post \in PostNames
      BY <2>3, ViewTypes DEF DeleteMessage_, ReactMessage, Act, PostNames
    <3>2. PICK k \in {"delete", "react"} : Starts(Task(k, view.selected, post), view)
      BY <2>3 DEF DeleteMessage_, ReactMessage
    <3>3. k \in Kinds /\ k \notin {"source", "attach", "join"}
      BY DEF Kinds
    <3>4. QED
      BY <3>1, <3>2, <3>3, PlainStart
  <2>4. CASE ReactToComment
    <3>1. UNCHANGED <<mine, there, gone, news>> /\ view.selected \in Rooms /\ view.thread.post \in PostNames
      BY <2>4, ViewTypes DEF ReactToComment, Act
    <3>2. Starts(Task("reactToComment", view.selected, view.thread.post), view)
      BY <2>4 DEF ReactToComment
    <3>3. QED
      BY <3>1, <3>2, PlainStart DEF Kinds
  <2>5. CASE Logout_
    <3>1. UNCHANGED <<mine, there, gone, news>> /\ NoRoom \in Rooms /\ NoPost \in PostNames
      BY <2>5 DEF Logout_, Act, Rooms, PostNames
    <3>2. Starts(Task("logout", NoRoom, NoPost), view)
      BY <2>5 DEF Logout_
    <3>3. QED
      BY <3>1, <3>2, PlainStart DEF Kinds
  <2>6. ASSUME NEW post \in Post, Context(post) \/ OpenForward(post)
        PROVE  MessengerInv'
    BY <2>6, TouchKeeps
  <2>7. CASE CancelAttachment \/ CloseComments \/ ToggleDestination \/ CloseForward
    BY <2>7, TouchKeeps
  <2>8. ASSUME NEW post \in Post, SendAttachment_(post) \/ OpenComments(post)
        PROVE  MessengerInv'
    BY <2>8, SendAttachmentKeeps, OpenCommentsKeeps
  <2>9. ASSUME NEW post \in Post, NEW kind \in {"send", "sticker"}, SendMessage_(post, kind)
        PROVE  MessengerInv'
    BY <2>9, SendMessageKeeps
  <2>10. CASE SubmitEdit \/ ConfirmForward \/ RefreshCurrentData
    BY <2>10, SubmitEditKeeps, ConfirmForwardKeeps, RefreshKeeps
  <2>11. QED
    BY <1>1, <2>1, <2>2, <2>3, <2>4, <2>5, <2>6, <2>7, <2>8, <2>9, <2>10 DEF UserActs
<1>2. CASE Goes_on
  BY <1>2, ListReturnedKeeps, HistoryReturnedKeeps, MutationReturnedKeeps, CommentsReturnedKeeps,
     FailKeeps DEF Goes_on
<1>3. CASE LiveEvent \/ Linked \/ Elsewhere
  BY <1>3, LiveEventKeeps, LinkedKeeps, ElsewhereKeeps
<1>4. CASE \E t \in work : Handle(t)
  BY <1>4, HandleKeeps
<1>5. CASE UNCHANGED messengerVars
  <2>1. MaxInv' /\ work' = work /\ view' = view
    BY <1>5 DEF messengerVars, MessengerInv, MaxInv
  <2>2. QED
    BY <2>1, ViewTypes, ViewFact
<1>6. QED
  BY <1>1, <1>2, <1>3, <1>4, <1>5 DEF MessengerNext

(* The view, what is remembered of the chats and the operations under way  *)
(* agree at every step, for any chats, messages and orders of answers.     *)
THEOREM MessengerInvariant == MessengerSpec => []MessengerInv
<1>1. QED
  BY MessengerInitially, MessengerInductive, PTL DEF MessengerSpec

(* What the screen shows belongs together, whatever is answered late: the  *)
(* messages and the context are of the selected chat, and what is shown as *)
(* being sent or loaded is under way.                                      *)
THEOREM AlwaysViewConsistent == MessengerSpec => []ViewConsistent
<1>1. QED
  BY MessengerInvariant, MessengerInvImplies, PTL

-----------------------------------------------------------------------------
(* CaughtUp.  A message of the selected chat that is not shown yet is on   *)
(* its way, in an event or in the answer to an operation that will show    *)
(* it; and what is shown, remembered or told was with MAX at some time,    *)
(* so that what is taken away is gone for good.                            *)

Store(u, v) ==
  /\ u.selected = v.selected /\ u.shown = v.shown /\ u.behind = v.behind /\ u.latest = v.latest
  /\ u.cache = v.cache

\* The answer that t waits for will be shown in v.
Fetches(t, v) ==
  /\ t.at = "history" /\ t.room = v.selected
  /\ t.kind \in {"initial", "select", "source", "refresh"} => t.n = v.latest

Brings(t, v, p) == Fetches(t, v) /\ (t.reply = NoReply \/ p \in t.reply)
Heard(p)        == \E i \in DOMAIN news : news[i].post = p /\ ~news[i].deleted

Covered(v, w, p) == p \in v.shown \cup v.behind \/ Heard(p) \/ \E t \in w : Brings(t, v, p)

Covers(v, w) ==
  v.selected # NoRoom => \A p \in there \cap PostsIn(v.selected) : Covered(v, w, p)

Was == there \cup gone

Seen(v) ==
  v.shown \subseteq Was /\ \A room \in Room : v.cache[room] # NoReply => v.cache[room] \subseteq Was

SeenTask(t) ==
  /\ t.at = "history" /\ t.reply # NoReply => t.reply \subseteq Was
  /\ t.kind = "delete" => t.post \in IF t.at = "mutate" /\ t.reply = NoReply THEN Was ELSE gone

SeenNews == \A i \in DOMAIN news : news[i].post \in IF news[i].deleted THEN gone ELSE Was

CaughtInv ==
  /\ there \cap gone = {}
  /\ Seen(view) /\ SeenNews /\ \A t \in work : SeenTask(t)
  /\ Covers(view, work)

LEMMA CaughtInvImplies == CaughtInv => CaughtUp
BY DEF CaughtInv, CaughtUp, Covers, Covered, Heard

\* Rendering leaves the messages alone.
LEMMA RenderedStore ==
  ASSUME NEW v \in Views
  PROVE  Store(Rendered(view, v), v)
<1> DEFINE u == IF v.selected = view.selected THEN v
                ELSE [v EXCEPT !.uploads = @ + 1, !.uploading = FALSE, !.upload = "idle"]
           l == v.uploads + 1
<1>1. Rendered(view, v) \in {u, [u EXCEPT !.context = NoPost]}
  BY DEF Rendered
<1>2. l \in Nat
  BY DEF Views
<1>3. u \in {v, [v EXCEPT !.uploads = l, !.uploading = FALSE, !.upload = "idle"]}
  OBVIOUS
<1> HIDE DEF l, u
<1>4. u \in Views /\ Store(u, v)
  <2>1. CASE u = v
    BY <2>1 DEF Store
  <2>2. CASE u = [v EXCEPT !.uploads = l, !.uploading = FALSE, !.upload = "idle"]
    <3>1. u \in Views
      BY <1>2, <2>2 DEF Views
    <3>2. QED
      BY <2>2, <3>1 DEF Views, Store
  <2>3. QED
    BY <1>3, <2>1, <2>2
<1>5. QED
  BY <1>1, <1>4 DEF Views, Store

\* A step of the page: the messages in MAX and the events under way stay.
LEMMA PageStep ==
  ASSUME CaughtInv, UNCHANGED <<there, gone, news>>, NEW v, Store(view', v),
         Seen(v), \A t \in work' : SeenTask(t), Covers(v, work')
  PROVE  CaughtInv'
<1>1. Seen(view)' /\ SeenNews' /\ (\A t \in work : SeenTask(t))'
  BY DEF CaughtInv, Seen, SeenNews, SeenTask, Was, Store
<1>2. Covers(view, work)'
  BY DEF Covers, Covered, Heard, Brings, Fetches, Store
<1>3. QED
  BY <1>1, <1>2 DEF CaughtInv

\* A step that leaves the messages and the operations that wait for some.
LEMMA StillCovers ==
  ASSUME Covers(view, work), NEW w, NEW v, v.selected = view.selected, v.latest = view.latest,
         \A p \in there \cap PostsIn(view.selected) :
           /\ p \in view.shown \cup view.behind => p \in v.shown \cup v.behind
           /\ \A t \in work \ w : Brings(t, view, p) => p \in v.shown \cup v.behind
  PROVE  Covers(v, w)
BY DEF Covers, Covered, Brings, Fetches

\* An operation asks for all there is to show.
LEMMA FreshCovers ==
  ASSUME NEW v, NEW w, NEW t \in w, Fetches(t, v), t.reply = NoReply
  PROVE  Covers(v, w)
BY DEF Covers, Covered, Brings

LEMMA StartsCaught ==
  ASSUME CaughtInv, UNCHANGED <<there, gone, news>>, NEW t, NEW v \in Views, Starts(t, v),
         Seen(v), SeenTask(t),
         Store(v, view) \/ (Fetches(t, v) /\ t.reply = NoReply)
  PROVE  CaughtInv'
<1>1. work' = work \cup {t} /\ Store(view', v)
  BY RenderedStore DEF Starts
<1>2. \A u \in work' : SeenTask(u)
  BY <1>1 DEF CaughtInv
<1>3. CASE Store(v, view)
  <2>1. Covers(v, work')
    BY <1>1, <1>3, StillCovers DEF CaughtInv, Store
  <2>2. QED
    BY <1>1, <1>2, <2>1, PageStep
<1>4. CASE Fetches(t, v) /\ t.reply = NoReply
  <2>1. Covers(v, work')
    BY <1>1, <1>4, FreshCovers
  <2>2. QED
    BY <1>1, <1>2, <2>1, PageStep
<1>5. QED
  BY <1>3, <1>4

LEMMA GoesCaught ==
  ASSUME CaughtInv, UNCHANGED <<there, gone, news>>, NEW t \in work, NEW next, NEW v \in Views,
         Goes(t, next, v), Seen(v), \A u \in next : SeenTask(u),
         \/ v.selected = NoRoom
         \/ \E u \in next : Fetches(u, v) /\ u.reply = NoReply
         \/ /\ v.selected = view.selected /\ v.latest = view.latest
            /\ \A p \in there \cap PostsIn(view.selected) :
                 p \in view.shown \cup view.behind \/ Brings(t, view, p) => p \in v.shown \cup v.behind
         \/ there \cap PostsIn(v.selected) \subseteq v.shown \cup v.behind
  PROVE  CaughtInv'
<1>1. work' = (work \ {t}) \cup next /\ Store(view', v)
  BY RenderedStore DEF Goes
<1>2. \A u \in work' : SeenTask(u)
  BY <1>1 DEF CaughtInv
<1>3. Covers(v, work')
  <2>1. CASE v.selected = NoRoom
    BY <2>1 DEF Covers
  <2>2. CASE \E u \in next : Fetches(u, v) /\ u.reply = NoReply
    BY <1>1, <2>2, FreshCovers
  <2>3. CASE /\ v.selected = view.selected /\ v.latest = view.latest
             /\ \A p \in there \cap PostsIn(view.selected) :
                  p \in view.shown \cup view.behind \/ Brings(t, view, p) => p \in v.shown \cup v.behind
    <3>1. \A u \in work \ work' : u = t
      BY <1>1
    <3>2. QED
      BY <2>3, <3>1, StillCovers DEF CaughtInv
  <2>4. CASE there \cap PostsIn(v.selected) \subseteq v.shown \cup v.behind
    BY <2>4 DEF Covers, Covered
  <2>5. QED
    BY <2>1, <2>2, <2>3, <2>4
<1>4. QED
  BY <1>1, <1>2, <1>3, PageStep

\* An operation goes on that shows no messages and waits for none.
LEMMA QuietGoes ==
  ASSUME CaughtInv, UNCHANGED <<there, gone, news>>, NEW t \in work, NEW next, NEW v \in Views,
         Goes(t, next, v), v.selected = view.selected, v.shown = view.shown, v.behind = view.behind,
         v.latest = view.latest, Seen(v), t.at # "history", \A u \in next : SeenTask(u)
  PROVE  CaughtInv'
<1>1. \A p : ~Brings(t, view, p)
  BY DEF Brings, Fetches
<1>2. QED
  BY <1>1, GoesCaught

(* What the operations of the store do to the messages. *)

LEMMA MergeHistoryStore ==
  ASSUME NEW v \in Views, NEW posts
  PROVE  LET r == MergeHistory(v, posts) IN
           /\ r.selected = v.selected /\ r.latest = v.latest /\ r.cache = v.cache
           /\ r.shown = v.shown \cup posts /\ r.behind = v.behind \ posts
BY DEF MergeHistory, Views

LEMMA ReplaceMessagesStore ==
  ASSUME NEW v \in Views, NEW posts
  PROVE  LET r == ReplaceMessages(v, posts) IN
           /\ r.selected = v.selected /\ r.latest = v.latest /\ r.cache = v.cache
           /\ r.shown = posts /\ r.behind = (v.behind \cup v.shown) \ posts
BY DEF ReplaceMessages, Views

LEMMA RememberStore ==
  ASSUME NEW v \in Views, NEW room, NEW posts, Seen(v), posts # NoReply => posts \subseteq Was
  PROVE  LET r == Remember(v, room, posts) IN
           /\ r.selected = v.selected /\ r.latest = v.latest
           /\ r.shown = v.shown /\ r.behind = v.behind /\ Seen(r)
<1> DEFINE filled == [v.cache EXCEPT ![room] = posts]
           r == [v EXCEPT !.cache = filled]
<1>1. /\ r.selected = v.selected /\ r.latest = v.latest /\ r.cache = filled
      /\ r.shown = v.shown /\ r.behind = v.behind
  BY DEF Views
<1>2. \A x \in Room : filled[x] \in {posts, v.cache[x]}
  BY DEF Views
<1> HIDE DEF filled
<1>3. \A x \in Room : filled[x] # NoReply => filled[x] \subseteq Was
  BY <1>2 DEF Seen
<1>4. Seen(r)
  BY <1>1, <1>3 DEF Seen
<1>5. Remember(v, room, posts) = r
  BY DEF Remember, filled
<1>6. QED
  BY <1>1, <1>4, <1>5

LEMMA SelectStore ==
  ASSUME NEW v \in Views, NEW room
  PROVE  LET r == Select(v, room) IN
           /\ r.selected = room /\ r.latest = v.latest /\ r.cache = v.cache
           /\ r.shown = {} /\ r.behind = v.behind
BY DEF Select, Views

LEMMA LoadedStore ==
  ASSUME NEW v \in Views, NEW t
  PROVE  Store(Loaded(v, t), v) /\ Loaded(v, t) \in Views
<1> DEFINE r == [v EXCEPT !.loading = FALSE]
<1>1. r \in Views /\ Store(r, v) /\ Store(v, v)
  BY DEF Store, Views
<1>2. Loaded(v, t) \in {v, r}
  BY DEF Loaded
<1> HIDE DEF r
<1>3. QED
  BY <1>1, <1>2

LEMMA SelectChatStore ==
  ASSUME NEW v, CacheInv(v), Seen(v), NEW room \in Room
  PROVE  LET r == SelectChat(v, room) IN r \in Views /\ r.selected = room /\ Seen(r)
<1>1. StoreInv(SelectChat(v, room)) /\ SelectChat(v, room).selected = room
  BY SelectChatFact
<1> DEFINE u == Select(v, room)
           w == MergeHistory(u, Cached(v, room))
           l == w.latest + 1
           b1 == v.cache[room] = NoReply
<1>2. SelectChat(v, room) = [w EXCEPT !.latest = l, !.loading = b1]
  BY DEF SelectChat
<1>3. u \in Views /\ u.shown = {} /\ u.cache = v.cache
  BY SelectFact, SelectStore DEF StoreInv, CacheInv, Rooms
<1>4. Cached(v, room) \subseteq Was /\ Cached(v, room) \subseteq Post
  BY PostsInRooms DEF Cached, Seen, CacheInv
<1> HIDE DEF u
<1>5. w \in Views /\ w.shown = Cached(v, room) /\ w.cache = v.cache
  BY <1>3, <1>4 DEF MergeHistory, Views
<1> HIDE DEF w, l, b1
<1>6. SelectChat(v, room).shown = Cached(v, room) /\ SelectChat(v, room).cache = v.cache
  BY <1>2, <1>5 DEF Views
<1>7. QED
  BY <1>1, <1>4, <1>6 DEF StoreInv, CacheInv, Seen

\* What the operations of the store leave of the messages.
LEMMA SameStoreSeen ==
  ASSUME NEW u, NEW v, Store(u, v), Seen(v)
  PROVE  Seen(u)
BY DEF Store, Seen

LEMMA TaskCaught ==
  ASSUME NEW kind, NEW room, NEW post, kind = "delete" => post \in Was
  PROVE  SeenTask(Task(kind, room, post))
BY DEF SeenTask, Task

LEMMA AskingCaught ==
  ASSUME NEW t, TaskInv(t), SeenTask(t), NEW at \in {"list", "history", "comments"},
         t.at # "mutate" \/ t.reply # NoReply
  PROVE  SeenTask(Asking(t, at))
<1>1. /\ Asking(t, at).at = at /\ Asking(t, at).reply = NoReply /\ Asking(t, at).kind = t.kind
      /\ Asking(t, at).post = t.post
  BY DEF Asking, TaskInv, Tasks
<1>2. QED
  BY <1>1 DEF SeenTask

\* An operation that reads the history of the chat that it has just selected.
LEMMA SelectingFetches ==
  ASSUME NEW t \in Tasks, NEW room \in Room, NEW v, v.latest \in Nat, v.selected = room
  PROVE  LET u == Selecting(t, v, room) IN Fetches(u, v) /\ u.reply = NoReply /\ SeenTask(u)
<1> DEFINE u == Selecting(t, v, room)
<1>1. /\ u.kind = "select" /\ u.reply = NoReply /\ u.at = "history" /\ u.room = room
      /\ u.n = v.latest
  BY DEF Selecting, Asking, Tasks, Kinds
<1> HIDE DEF u
<1>2. QED
  BY <1>1 DEF u, Fetches, SeenTask

(* The user. *)

LEMMA SameStoreStarts ==
  ASSUME CaughtInv, UNCHANGED <<there, gone, news>>, NEW t, NEW v \in Views, Starts(t, v),
         Store(v, view), SeenTask(t)
  PROVE  CaughtInv'
<1>1. Seen(v)
  BY SameStoreSeen DEF CaughtInv
<1>2. QED
  BY <1>1, StartsCaught

LEMMA ChooseCaught ==
  ASSUME MessengerInv, CaughtInv, NEW room \in Room, Choose(room)
  PROVE  CaughtInv'
<1> DEFINE v == SelectChat(view, room)
           t == Task("select", room, NoPost)
           u == Selecting(t, v, room)
<1>1. UNCHANGED <<there, gone, news>> /\ Starts(u, v)
  BY DEF Choose, Act
<1>2. v \in Views /\ v.selected = room /\ Seen(v)
  BY ViewTypes, SelectChatStore DEF CaughtInv
<1>3. v.latest \in Nat /\ t \in Tasks
  BY ViewTypes, SelectChatFact, TaskFact DEF Kinds, Rooms, PostNames
<1> HIDE DEF v, t
<1>4. Fetches(u, v) /\ u.reply = NoReply /\ SeenTask(u)
  BY <1>2, <1>3, SelectingFetches
<1> HIDE DEF u
<1>5. QED
  BY <1>1, <1>2, <1>4, StartsCaught

LEMMA OpenForwardedSourceCaught ==
  ASSUME MessengerInv, CaughtInv, NEW room \in Room, OpenForwardedSource(room)
  PROVE  CaughtInv'
<1> DEFINE a0 == AddTransientChat(view, room)
           v == SelectChat(a0, room)
           t0 == Task("source", room, NoPost)
           t == Selecting(t0, v, room)
           post == IF room \in view.listed THEN NoPost ELSE "added"
           from == view.selected
           u == [t EXCEPT !.kind = "source", !.from = from, !.post = post]
<1>1. UNCHANGED <<there, gone, news>> /\ Starts(u, v)
  BY DEF OpenForwardedSource, Act
<1>2. CacheInv(a0)
  BY ViewTypes, TransientFact
<1>3. Seen(a0)
  <2>1. Store(a0, view)
    BY ViewTypes DEF AddTransientChat, Store, Views
  <2>2. QED
    BY <2>1, SameStoreSeen DEF CaughtInv
<1>4. t0 \in Tasks
  BY TaskFact DEF Kinds, Rooms, PostNames
<1> HIDE DEF a0, t0, post, from
<1>5. v \in Views /\ v.selected = room /\ Seen(v) /\ v.latest \in Nat
  BY <1>2, <1>3, SelectChatStore, SelectChatFact
<1> HIDE DEF v
<1>6. /\ t \in Tasks /\ t.at = "history" /\ t.reply = NoReply /\ t.kind = "select"
      /\ t.room = room /\ t.n = v.latest
  BY <1>4, <1>5, SelectingFact, SelectingFetches DEF Rooms, Fetches
<1> HIDE DEF t
<1>7. /\ u.kind = "source" /\ u.at = "history" /\ u.reply = NoReply
      /\ u.room = room /\ u.n = v.latest
  BY <1>6 DEF Tasks
<1> HIDE DEF u
<1>8. Fetches(u, v) /\ SeenTask(u)
  BY <1>5, <1>7 DEF Fetches, SeenTask
<1>9. QED
  BY <1>1, <1>5, <1>7, <1>8, StartsCaught

LEMMA SendCaught ==
  ASSUME MessengerInv, CaughtInv, NEW post \in Post,
         \/ \E kind \in {"send", "sticker"} : SendMessage_(post, kind)
         \/ SendAttachment_(post) \/ OpenComments(post)
  PROVE  CaughtInv'
<1>1. UNCHANGED <<there, gone, news>>
  BY DEF SendMessage_, SendAttachment_, OpenComments, Act
<1>2. view \in Views
  BY ViewTypes
<1>3. ASSUME NEW kind \in {"send", "sticker"}, SendMessage_(post, kind)
      PROVE  CaughtInv'
  <2> DEFINE t == Task(kind, view.selected, post)
             v == IF kind = "send" THEN [view EXCEPT !.context = NoPost] ELSE view
  <2>1. Starts(t, v)
    BY <1>3 DEF SendMessage_
  <2>2. SeenTask(t)
    BY TaskCaught
  <2>3. v \in Views /\ Store(v, view)
    BY <1>2 DEF Views, Store
  <2> HIDE DEF t, v
  <2>4. QED
    BY <1>1, <2>1, <2>2, <2>3, SameStoreStarts
<1>4. CASE SendAttachment_(post)
  <2> DEFINE k == view.uploads + 1
             v == [view EXCEPT !.uploads = k, !.uploading = TRUE, !.upload = "sending"]
             t == Task("attach", view.selected, post)
             u == [t EXCEPT !.n = k]
  <2>1. LET w == [view EXCEPT !.uploads = @ + 1, !.uploading = TRUE, !.upload = "sending"]
        IN Starts([t EXCEPT !.n = w.uploads], w)
    BY <1>4 DEF SendAttachment_
  <2>2. k \in Nat /\ v = [view EXCEPT !.uploads = @ + 1, !.uploading = TRUE, !.upload = "sending"]
    BY ViewTypes
  <2> HIDE DEF k
  <2>3. v \in Views /\ v.uploads = k /\ Store(v, view)
    BY <1>2, <2>2 DEF Views, Store
  <2>4. Starts(u, v)
    BY <2>1, <2>2, <2>3
  <2>5. u.at = "mutate" /\ u.kind = "attach"
    BY DEF Task
  <2> HIDE DEF u, v
  <2>6. SeenTask(u)
    BY <2>5 DEF SeenTask
  <2>7. QED
    BY <1>1, <2>3, <2>4, <2>6, SameStoreStarts
<1>5. CASE OpenComments(post)
  <2> DEFINE k == view.threads + 1
             th == [post |-> post, loading |-> TRUE]
             v == [view EXCEPT !.threads = k, !.thread = th]
             t == Asking(Task("comments", view.selected, post), "comments")
             u == [t EXCEPT !.n = k]
  <2>1. Starts([t EXCEPT !.n = [view EXCEPT !.threads = @ + 1, !.thread = th].threads],
               [view EXCEPT !.threads = @ + 1, !.thread = th])
    BY <1>5 DEF OpenComments
  <2>2. /\ k \in Nat /\ th \in [post : PostNames, loading : BOOLEAN]
        /\ v = [view EXCEPT !.threads = @ + 1, !.thread = th]
    BY ViewTypes DEF PostNames
  <2> HIDE DEF k, th
  <2>3. v \in Views /\ v.threads = k /\ Store(v, view)
    BY <1>2, <2>2 DEF Views, Store
  <2>4. Starts(u, v)
    BY <2>1, <2>2, <2>3
  <2>5. u.at = "comments" /\ u.kind = "comments"
    BY DEF Task, Asking
  <2> HIDE DEF u, v
  <2>6. SeenTask(u)
    BY <2>5 DEF SeenTask
  <2>7. QED
    BY <1>1, <2>3, <2>4, <2>6, SameStoreStarts
<1>6. QED
  BY <1>3, <1>4, <1>5

\* Operations that start with nothing but their request.
LEMMA PlainStartCaught ==
  ASSUME MessengerInv, CaughtInv, UNCHANGED <<there, gone, news>>, NEW kind, NEW room, NEW post,
         kind = "delete" => post \in Was, Starts(Task(kind, room, post), view)
  PROVE  CaughtInv'
<1>1. SeenTask(Task(kind, room, post))
  BY TaskCaught
<1>2. view \in Views /\ Store(view, view)
  BY ViewTypes DEF Store
<1>3. QED
  BY <1>1, <1>2, SameStoreStarts

LEMMA PlainCaught ==
  ASSUME MessengerInv, CaughtInv,
         \/ \E room \in Room, kind \in {"mute", "clear", "remove"} : ApplyChatAction(room, kind)
         \/ \E room \in Room : Subscribe(room) \/ Unsubscribe(room)
         \/ \E post \in Post : DeleteMessage_(post) \/ ReactMessage(post)
         \/ ReactToComment \/ Logout_
  PROVE  CaughtInv'
<1>1. UNCHANGED <<there, gone, news>>
  BY DEF ApplyChatAction, Subscribe, Unsubscribe, DeleteMessage_, ReactMessage, ReactToComment,
         Logout_, Act
<1>2. ASSUME NEW post \in Post, DeleteMessage_(post)
      PROVE  CaughtInv'
  <2>1. Starts(Task("delete", view.selected, post), view) /\ post \in Was
    BY <1>2 DEF DeleteMessage_, CaughtInv, Seen
  <2>2. QED
    BY <1>1, <2>1, PlainStartCaught
<1>3. ASSUME NEW kind, kind # "delete", NEW room, NEW post, Starts(Task(kind, room, post), view)
      PROVE  CaughtInv'
  BY <1>1, <1>3, PlainStartCaught
<1>4. ASSUME NEW room \in Room, NEW kind \in {"mute", "clear", "remove"},
             ApplyChatAction(room, kind) \/ Subscribe(room) \/ Unsubscribe(room)
      PROVE  CaughtInv'
  <2>1. \E k \in {kind, "join", "leave"} : Starts(Task(k, room, NoPost), view)
    BY <1>4 DEF ApplyChatAction, Subscribe, Unsubscribe
  <2>2. QED
    BY <1>3, <2>1
<1>5. ASSUME NEW post \in Post, ReactMessage(post)
      PROVE  CaughtInv'
  <2>1. Starts(Task("react", view.selected, post), view)
    BY <1>5 DEF ReactMessage
  <2>2. QED
    BY <1>3, <2>1
<1>6. CASE ReactToComment \/ Logout_
  <2>1. \/ Starts(Task("reactToComment", view.selected, view.thread.post), view)
        \/ Starts(Task("logout", NoRoom, NoPost), view)
    BY <1>6 DEF ReactToComment, Logout_
  <2>2. QED
    BY <1>3, <2>1
<1>7. QED
  BY <1>2, <1>4, <1>5, <1>6

LEMMA SubmitEditCaught ==
  ASSUME MessengerInv, CaughtInv, SubmitEdit
  PROVE  CaughtInv'
<1> DEFINE t == Task("edit", view.selected, view.context)
           v == [view EXCEPT !.context = NoPost]
<1>1. UNCHANGED <<there, gone, news>> /\ Starts(t, v)
  BY DEF SubmitEdit, Act
<1>2. SeenTask(t) /\ v \in Views /\ Store(v, view)
  BY TaskCaught, ViewTypes DEF Views, Store
<1> HIDE DEF t, v
<1>3. QED
  BY <1>1, <1>2, SameStoreStarts

LEMMA RefreshCaught ==
  ASSUME MessengerInv, CaughtInv, RefreshCurrentData
  PROVE  CaughtInv'
<1> DEFINE t == Asking(Task("refresh", NoRoom, NoPost), "list")
<1>1. UNCHANGED <<there, gone, news>> /\ Starts(t, view)
  BY DEF RefreshCurrentData, Act
<1>2. SeenTask(t)
  BY DEF SeenTask, Asking, Task
<1>3. view \in Views /\ Store(view, view)
  BY ViewTypes DEF Store
<1> HIDE DEF t
<1>4. QED
  BY <1>1, <1>2, <1>3, SameStoreStarts

\* A step of the page that asks for nothing and shows no messages.
LEMMA SameStoreCaught ==
  ASSUME CaughtInv, UNCHANGED <<there, gone, news, work>>, Store(view', view)
  PROVE  CaughtInv'
<1>1. Seen(view) /\ (\A t \in work' : SeenTask(t)) /\ Covers(view, work')
  BY DEF CaughtInv
<1>2. QED
  BY <1>1, PageStep

LEMMA ConfirmForwardCaught ==
  ASSUME MessengerInv, CaughtInv, ConfirmForward
  PROVE  CaughtInv'
<1> DEFINE t == Task("forward", view.selected, view.forward.post)
           f == [view.forward EXCEPT !.state = "sending"]
           v == [view EXCEPT !.forward = f]
<1>1. UNCHANGED <<there, gone, news>>
  BY DEF ConfirmForward, Act
<1>2. CASE view.selected = NoRoom
  <2>1. view' = [view EXCEPT !.forward = [@ EXCEPT !.state = "failed"]] /\ work' = work
    BY <1>2 DEF ConfirmForward
  <2>2. Store(view', view)
    BY <2>1, ViewTypes DEF Store, Views
  <2>3. QED
    BY <1>1, <2>1, <2>2, SameStoreCaught
<1>3. CASE view.selected # NoRoom
  <2>1. Starts(t, v)
    BY <1>3 DEF ConfirmForward
  <2>2. view.forward \in [post : PostNames, state : {"idle", "sending", "confirmed", "ambiguous", "failed"}]
    BY ViewTypes DEF Views
  <2>3. f \in [post : PostNames, state : {"idle", "sending", "confirmed", "ambiguous", "failed"}]
    BY <2>2
  <2> HIDE DEF f
  <2>4. SeenTask(t) /\ v \in Views /\ Store(v, view)
    BY <2>3, TaskCaught, ViewTypes DEF Views, Store
  <2> HIDE DEF t, v
  <2>5. QED
    BY <1>1, <2>1, <2>4, SameStoreStarts
<1>4. QED
  BY <1>2, <1>3

LEMMA TouchCaught ==
  ASSUME MessengerInv, CaughtInv, NEW post,
         \/ Context(post) \/ CancelAttachment \/ CloseComments
         \/ OpenForward(post) \/ ToggleDestination \/ CloseForward
  PROVE  CaughtInv'
<1>1. UNCHANGED <<there, gone, news, work>>
  BY DEF Context, CancelAttachment, CloseComments, OpenForward, ToggleDestination, CloseForward, Touch
<1>2. Store(view', view)
  BY ViewTypes DEF Context, CancelAttachment, CloseComments, OpenForward, ToggleDestination,
     CloseForward, Store, Views
<1>3. QED
  BY <1>1, <1>2, SameStoreCaught

(* What MAX does, and what is told of it. *)

\* What was with MAX stays known.
LEMMA SeenLater ==
  ASSUME Was \subseteq Was', gone \subseteq gone'
  PROVE  /\ \A v : Seen(v) => Seen(v)'
         /\ \A t : SeenTask(t) => SeenTask(t)'
<1>1. ASSUME NEW v, Seen(v) PROVE Seen(v)'
  BY <1>1 DEF Seen
<1>2. ASSUME NEW t, SeenTask(t) PROVE SeenTask(t)'
  BY <1>2 DEF SeenTask
<1>3. QED
  BY <1>1, <1>2

\* Of a message that is sent or deleted the page hears, unless its connection is down.
LEMMA TellCaught ==
  ASSUME news \in Seq(News_), SeenNews, Was \subseteq Was', gone \subseteq gone',
         NEW posts \in SUBSET Post, NEW deleted \in BOOLEAN, Tell(posts, deleted),
         posts \subseteq IF deleted THEN gone' ELSE Was'
  PROVE  /\ SeenNews'
         /\ \A p : Heard(p) => Heard(p)'
         /\ \A p : linked /\ ~deleted /\ posts = {p} => Heard(p)'
<1>1. CASE ~linked \/ posts = {}
  <2>1. news' = news
    BY <1>1 DEF Tell
  <2>2. SeenNews' /\ \A p : Heard(p) => Heard(p)'
    BY <2>1 DEF SeenNews, Heard
  <2>3. QED
    BY <1>1, <2>2
<1>2. CASE linked /\ posts # {}
  <2> DEFINE e == [post |-> CHOOSE p \in posts : TRUE, deleted |-> deleted]
             n == Len(news) + 1
  <2>1. news' = Append(news, e)
    BY <1>2 DEF Tell
  <2>2. e \in News_ /\ e.post \in posts /\ e.deleted = deleted
    BY <1>2 DEF News_
  <2> HIDE DEF e
  <2>3. /\ DOMAIN news' = 1 .. n /\ DOMAIN news = 1 .. Len(news) /\ Len(news) \in Nat
        /\ news'[n] = e /\ \A i \in 1 .. Len(news) : news'[i] = news[i]
    BY <2>1, <2>2, AppendProperties, LenProperties
  <2>4. SeenNews'
    <3>1. ASSUME NEW i \in DOMAIN news'
          PROVE  news'[i].post \in IF news'[i].deleted THEN gone' ELSE Was'
      <4>1. CASE i = n
        BY <2>2, <2>3, <4>1
      <4>2. CASE i \in DOMAIN news
        BY <2>3, <4>2 DEF SeenNews
      <4>3. QED
        BY <2>3, <4>1, <4>2
    <3>2. QED
      BY <3>1 DEF SeenNews
  <2>5. ASSUME NEW p, Heard(p) PROVE Heard(p)'
    <3>1. PICK i \in DOMAIN news : news[i].post = p /\ ~news[i].deleted
      BY <2>5 DEF Heard
    <3>2. i \in DOMAIN news' /\ news'[i] = news[i]
      BY <2>3
    <3>3. QED
      BY <3>1, <3>2 DEF Heard
  <2>6. ASSUME NEW p, ~deleted, posts = {p} PROVE Heard(p)'
    <3>1. n \in DOMAIN news' /\ news'[n].post = p /\ ~news'[n].deleted
      BY <2>2, <2>3, <2>6
    <3>2. QED
      BY <3>1 DEF Heard
  <2>7. QED
    BY <2>4, <2>5, <2>6
<1>3. QED
  BY <1>1, <1>2

\* A step of MAX, of which the page has heard or notes that it has not.
LEMMA MaxStep ==
  ASSUME CaughtInv, NEW sent, there' \subseteq there \cup sent, there' \cap gone' = {},
         Was \subseteq Was', gone \subseteq gone', SeenNews',
         \A p : Heard(p) => Heard(p)', \A p \in sent : linked => Heard(p)',
         view' = [view EXCEPT !.behind = @ \cup Unheard(sent)], view \in Views,
         \A t \in work' : SeenTask(t)',
         \A t \in work, p \in there \cap PostsIn(view.selected) :
           Brings(t, view, p) => \E u \in work' : Brings(u, view, p)
  PROVE  CaughtInv'
<1>1. /\ view'.selected = view.selected /\ view'.shown = view.shown /\ view'.cache = view.cache
      /\ view'.latest = view.latest /\ view'.behind = view.behind \cup Unheard(sent)
  BY DEF Views
<1>2. Seen(view)'
  BY <1>1 DEF CaughtInv, Seen
<1>3. Covers(view, work)'
  <2> SUFFICES ASSUME view.selected # NoRoom, NEW p \in there', p \in PostsIn(view.selected)
               PROVE  Covered(view, work, p)'
    BY <1>1 DEF Covers, PostsIn
  <2>1. CASE p \in there
    <3>1. Covered(view, work, p)
      BY <2>1 DEF CaughtInv, Covers
    <3>2. CASE p \in view.shown \cup view.behind \/ Heard(p)
      BY <1>1, <3>2 DEF Covered
    <3>3. CASE \E t \in work : Brings(t, view, p)
      <4>1. PICK u \in work' : Brings(u, view, p)
        BY <2>1, <3>3
      <4>2. Brings(u, view, p)'
        BY <1>1, <4>1 DEF Brings, Fetches
      <4>3. QED
        BY <4>2 DEF Covered
    <3>4. QED
      BY <3>1, <3>2, <3>3 DEF Covered
  <2>2. CASE p \in sent
    BY <1>1, <2>2 DEF Covered, Unheard
  <2>3. QED
    BY <2>1, <2>2
<1>4. QED
  BY <1>2, <1>3 DEF CaughtInv

LEMMA ElsewhereCaught ==
  ASSUME MessengerInv, CaughtInv, Elsewhere
  PROVE  CaughtInv'
<1>1. work' = work /\ MaxInv /\ view \in Views
  BY ViewTypes DEF Elsewhere, MessengerInv
<1>2. /\ \A t \in work : SeenTask(t)
      /\ \A t \in work, p \in there \cap PostsIn(view.selected) :
           Brings(t, view, p) => \E u \in work' : Brings(u, view, p)
  BY <1>1 DEF CaughtInv
<1>3. ASSUME NEW p \in Unsent, there' = there \cup {p}, Tell({p}, FALSE), gone' = gone,
             view' = [view EXCEPT !.behind = @ \cup Unheard({p})]
      PROVE  CaughtInv'
  <2>1. /\ there' \cap gone' = {} /\ Was \subseteq Was' /\ gone \subseteq gone'
        /\ {p} \subseteq Was' /\ {p} \in SUBSET Post
    BY <1>3 DEF CaughtInv, Unsent, Was
  <2>2. SeenNews' /\ (\A q : Heard(q) => Heard(q)') /\ (linked => Heard(p)')
    BY <1>1, <1>3, <2>1, TellCaught DEF MaxInv, CaughtInv
  <2>3. \A t \in work' : SeenTask(t)'
    BY <1>1, <1>2, <2>1, SeenLater
  <2>4. QED
    BY <1>1, <1>2, <1>3, <2>1, <2>2, <2>3, MaxStep
<1>4. ASSUME NEW p \in there, there' = there \ {p}, Tell({p}, TRUE), gone' = gone \cup {p},
             view' = view
      PROVE  CaughtInv'
  <2>1. /\ there' \cap gone' = {} /\ Was \subseteq Was' /\ gone \subseteq gone'
        /\ {p} \subseteq gone' /\ {p} \in SUBSET Post
    BY <1>1, <1>4 DEF CaughtInv, Was, MaxInv
  <2>2. SeenNews' /\ (\A q : Heard(q) => Heard(q)')
    BY <1>1, <1>4, <2>1, TellCaught DEF MaxInv, CaughtInv
  <2>3. \A t \in work' : SeenTask(t)'
    BY <1>1, <1>2, <2>1, SeenLater
  <2>4. view' = [view EXCEPT !.behind = @ \cup Unheard({})] /\ there' \subseteq there \cup {}
    BY <1>1, <1>4 DEF Unheard, Views
  <2>5. QED
    BY <1>1, <1>2, <2>1, <2>2, <2>3, <2>4, MaxStep
<1>5. QED
  BY <1>3, <1>4 DEF Elsewhere

LEMMA HandleCaught ==
  ASSUME MessengerInv, CaughtInv, NEW t \in work, Handle(t)
  PROVE  CaughtInv'
<1> DEFINE sent == IF t.at = "mutate" /\ t.kind \in {"send", "sticker", "attach"}
                   THEN {t.post} \cap Unsent ELSE {}
           deleted == CASE t.at = "mutate" /\ t.kind = "delete" -> {t.post} \cap there
                        [] t.at = "mutate" /\ t.kind = "clear"  -> there \cap PostsIn(t.room)
                        [] OTHER -> {}
           answer == CASE t.at = "list"    -> mine
                       [] t.at = "history" -> there \cap PostsIn(t.room)
                       [] OTHER -> {}
           d == t.kind = "delete"
           said == IF d THEN deleted ELSE sent
<1>1. PICK u : u = [t EXCEPT !.reply = answer]
  OBVIOUS
<1>2. /\ t.reply = NoReply
      /\ there' = (there \cup sent) \ deleted /\ gone' = gone \cup deleted
      /\ Tell(said, d)
      /\ work' = (work \ {t}) \cup {u}
      /\ view' = [view EXCEPT !.behind = @ \cup Unheard(sent)]
  BY <1>1 DEF Handle
<1>3. /\ TaskInv(t) /\ t \in Tasks /\ MaxInv /\ view \in Views /\ SeenTask(t)
      /\ there \cap gone = {} /\ SeenNews /\ \A x \in work : SeenTask(x)
  BY ViewTypes DEF MessengerInv, TaskInv, CaughtInv
<1>4. /\ sent \subseteq Unsent /\ deleted \subseteq there /\ (d => sent = {})
      /\ \A p \in sent : sent = {p}
      /\ d /\ t.at = "mutate" => deleted = {t.post} \cap there
  OBVIOUS
<1>5. t.at = "history" => answer = there \cap PostsIn(t.room)
  OBVIOUS
<1> DEFINE brought == answer
<1>6. u = [t EXCEPT !.reply = brought]
  BY <1>1
<1> HIDE DEF answer, sent, deleted
<1>7. /\ u.at = t.at /\ u.kind = t.kind /\ u.room = t.room /\ u.post = t.post /\ u.n = t.n
      /\ u.reply = brought
  BY <1>3, <1>6 DEF Tasks
<1>8. there' \cap gone' = {} /\ Was \subseteq Was' /\ gone \subseteq gone' /\ there' \subseteq there \cup sent
  BY <1>2, <1>3, <1>4 DEF Unsent, Was
<1>9. SeenNews' /\ (\A p : Heard(p) => Heard(p)') /\ (\A p \in sent : linked => Heard(p)')
  <2>1. said \in SUBSET Post /\ d \in BOOLEAN
    BY <1>3, <1>4 DEF Unsent, MaxInv
  <2>2. said \subseteq IF d THEN gone' ELSE Was'
    BY <1>2, <1>4 DEF Was
  <2>3. \A p \in sent : ~d /\ said = {p}
    BY <1>4
  <2> HIDE DEF said, d
  <2>4. /\ SeenNews' /\ \A p : Heard(p) => Heard(p)'
        /\ \A p : linked /\ ~d /\ said = {p} => Heard(p)'
    BY <1>2, <1>3, <1>8, <2>1, <2>2, TellCaught DEF MaxInv
  <2>5. QED
    BY <2>3, <2>4
<1>10. SeenTask(u)'
  <2>1. u.at = "history" => u.reply \subseteq Was'
    BY <1>5, <1>7, <1>8 DEF Was
  <2>2. u.kind = "delete" => u.post \in gone'
    BY <1>2, <1>3, <1>4, <1>7 DEF SeenTask, Was
  <2>3. QED
    BY <1>8, <2>1, <2>2 DEF SeenTask, Was
<1>11. \A x \in work' : SeenTask(x)'
  BY <1>2, <1>3, <1>8, <1>10, SeenLater
<1>12. ASSUME NEW x \in work, NEW p \in there \cap PostsIn(view.selected), Brings(x, view, p)
       PROVE  \E y \in work' : Brings(y, view, p)
  <2>1. CASE x # t
    BY <1>2, <1>12, <2>1
  <2>2. CASE x = t
    <3>1. Fetches(u, view)
      BY <1>7, <1>12, <2>2 DEF Brings, Fetches
    <3>2. Fetches(u, view) => Brings(u, view, p)
      BY <1>5, <1>7 DEF Brings, Fetches
    <3>4. QED
      BY <1>2, <3>1, <3>2
  <2>3. QED
    BY <2>1, <2>2
<1>13. QED
  BY <1>2, <1>3, <1>8, <1>9, <1>11, <1>12, MaxStep

LEMMA LinkedCaught ==
  ASSUME MessengerInv, CaughtInv, Linked
  PROVE  CaughtInv'
<1>1. PICK lost : lost = {news[i].post : i \in DOMAIN news}
  OBVIOUS
<1>2. /\ UNCHANGED <<there, gone, work>> /\ news' = <<>>
      /\ view' = [view EXCEPT !.behind = @ \cup lost]
  BY <1>1 DEF Linked
<1>3. /\ view'.selected = view.selected /\ view'.shown = view.shown /\ view'.cache = view.cache
      /\ view'.latest = view.latest /\ view'.behind = view.behind \cup lost
  BY <1>2, ViewTypes DEF Views
<1>4. Seen(view)' /\ SeenNews' /\ (\A t \in work : SeenTask(t))'
  BY <1>2, <1>3 DEF CaughtInv, Seen, SeenNews, SeenTask, Was
<1>5. ASSUME NEW p, Covered(view, work, p) PROVE Covered(view, work, p)'
  <2>1. Heard(p) => p \in lost
    BY <1>1 DEF Heard
  <2>2. \A t : Brings(t, view, p) => Brings(t, view, p)'
    BY <1>3 DEF Brings, Fetches
  <2>3. QED
    BY <1>2, <1>3, <1>5, <2>1, <2>2 DEF Covered
<1>6. Covers(view, work)'
  BY <1>2, <1>3, <1>5 DEF CaughtInv, Covers, PostsIn
<1>7. QED
  BY <1>2, <1>4, <1>6 DEF CaughtInv

\* The first of the events is taken: what it tells is shown.
LEMMA LiveEventCaught ==
  ASSUME MessengerInv, CaughtInv, LiveEvent
  PROVE  CaughtInv'
<1>1. PICK e : e = Head(news)
  OBVIOUS
<1>2. /\ news # <<>> /\ news' = Tail(news) /\ view' = ApplyEvent(view, e)
      /\ UNCHANGED <<there, gone, work>> /\ news \in Seq(News_) /\ view \in Views
  BY <1>1, ViewTypes DEF LiveEvent, MessengerInv, MaxInv
<1>3. /\ Len(news) \in Nat \ {0} /\ DOMAIN news = 1 .. Len(news) /\ e = news[1] /\ e \in News_
      /\ DOMAIN news' = 1 .. Len(news) - 1
      /\ \A i \in 1 .. Len(news) - 1 : news'[i] = news[i + 1]
  BY <1>1, <1>2, HeadTailProperties, LenProperties, EmptySeq
<1>4. SeenNews'
  <2>1. \A i \in DOMAIN news' : news'[i] = news[i + 1] /\ i + 1 \in DOMAIN news
    BY <1>3
  <2>2. QED
    BY <1>2, <2>1 DEF CaughtInv, SeenNews, Was
<1>5. ASSUME NEW p, Heard(p) PROVE Heard(p)' \/ (e.post = p /\ ~e.deleted)
  <2>1. PICK i \in DOMAIN news : news[i].post = p /\ ~news[i].deleted
    BY <1>5 DEF Heard
  <2>2. CASE i = 1
    BY <1>3, <2>1, <2>2
  <2>3. CASE i # 1
    <3>1. i - 1 \in DOMAIN news' /\ news'[i - 1] = news[i]
      BY <1>3, <2>3
    <3>2. QED
      BY <2>1, <3>1 DEF Heard
  <2>4. QED
    BY <2>2, <2>3
<1>6. e.post \in IF e.deleted THEN gone ELSE Was
  BY <1>3 DEF CaughtInv, SeenNews
<1>7. /\ view'.selected = view.selected /\ view'.cache = view.cache /\ view'.latest = view.latest
      /\ view'.shown \subseteq Was
      /\ \A p \in there \cap PostsIn(view.selected) :
           p \in view.shown \cup view.behind \/ (e.post = p /\ ~e.deleted) =>
             p \in view'.shown \cup view'.behind
  <2>1. view.shown \subseteq Was /\ there \cap gone = {}
    BY DEF CaughtInv, Seen
  <2>2. CASE RoomOf[e.post] # view.selected
    BY <1>2, <2>1, <2>2 DEF ApplyEvent, PostsIn
  <2>3. CASE RoomOf[e.post] = view.selected /\ e.deleted
    BY <1>2, <1>6, <2>1, <2>3 DEF ApplyEvent, Views
  <2>4. CASE RoomOf[e.post] = view.selected /\ ~e.deleted
    BY <1>2, <1>6, <2>1, <2>4 DEF ApplyEvent, MergeHistory, Views
  <2>5. QED
    BY <2>2, <2>3, <2>4
<1>8. Seen(view)' /\ (\A t \in work : SeenTask(t))'
  BY <1>2, <1>7 DEF CaughtInv, Seen, SeenTask, Was
<1>9. Covers(view, work)'
  <2> SUFFICES ASSUME view.selected # NoRoom, NEW p \in there, p \in PostsIn(view.selected)
               PROVE  Covered(view, work, p)'
    BY <1>2, <1>7 DEF Covers, PostsIn
  <2>1. Covered(view, work, p)
    BY DEF CaughtInv, Covers
  <2>2. CASE p \in view.shown \cup view.behind \/ Heard(p)
    BY <1>5, <1>7, <2>2 DEF Covered
  <2>3. CASE \E t \in work : Brings(t, view, p)
    BY <1>2, <1>7, <2>3 DEF Covered, Brings, Fetches
  <2>4. QED
    BY <2>1, <2>2, <2>3 DEF Covered
<1>10. QED
  BY <1>2, <1>4, <1>8, <1>9 DEF CaughtInv

(* The operations go on. *)

\* An operation that neither waits for messages nor shows any.
LEMMA SameStoreGoes ==
  ASSUME CaughtInv, UNCHANGED <<there, gone, news>>, NEW t \in work, t.at # "history", NEW next,
         NEW v \in Views, Goes(t, next, v), v.selected = view.selected, v.shown = view.shown,
         v.behind = view.behind, v.latest = view.latest,
         \A room \in Room : v.cache[room] \in {view.cache[room], NoReply},
         \A u \in next : SeenTask(u)
  PROVE  CaughtInv'
<1>1. Seen(v)
  BY DEF CaughtInv, Seen
<1>2. QED
  BY <1>1, QuietGoes

LEMMA CommentsReturnedCaught ==
  ASSUME MessengerInv, CaughtInv, NEW t \in work, CommentsReturned(t)
  PROVE  CaughtInv'
<1> DEFINE th == [post |-> t.post, loading |-> FALSE]
           v == IF t.n = view.threads THEN [view EXCEPT !.thread = th] ELSE view
<1>1. t.at = "comments" /\ UNCHANGED <<there, gone, news>> /\ Goes(t, {}, v)
  BY DEF CommentsReturned
<1>2. view \in Views /\ t.post \in PostNames
  BY ViewTypes DEF MessengerInv, TaskInv, Tasks
<1>3. th \in [post : PostNames, loading : BOOLEAN]
  BY <1>2
<1> HIDE DEF th
<1>4. /\ v \in Views /\ v.selected = view.selected /\ v.shown = view.shown
      /\ v.behind = view.behind /\ v.latest = view.latest /\ v.cache = view.cache
  BY <1>2, <1>3 DEF Views
<1> HIDE DEF v
<1>5. QED
  BY <1>1, <1>4, SameStoreGoes

LEMMA MutationReturnedCaught ==
  ASSUME MessengerInv, CaughtInv, NEW t \in work, MutationReturned(t)
  PROVE  CaughtInv'
<1>1. t.at = "mutate" /\ t.reply # NoReply /\ UNCHANGED <<there, gone, news>>
  BY DEF MutationReturned
<1>2. view \in Views /\ TaskInv(t) /\ t \in Tasks /\ SeenTask(t)
  BY ViewTypes DEF MessengerInv, TaskInv, CaughtInv
<1>3. SeenTask(Asking(t, "history")) /\ SeenTask(Asking(t, "list")) /\ SeenTask(Asking(t, "comments"))
  BY <1>1, <1>2, AskingCaught
<1>4. ASSUME NEW next, NEW v \in Views, Goes(t, next, v), v.selected = view.selected,
             v.shown = view.shown, v.behind = view.behind, v.latest = view.latest,
             v.cache = view.cache, \A u \in next : SeenTask(u)
      PROVE  CaughtInv'
  BY <1>1, <1>4, SameStoreGoes
<1>5. CASE t.kind \in {"send", "sticker", "edit", "react"}
  <2>1. Goes(t, {Asking(t, "history")}, view)
    BY <1>5 DEF MutationReturned
  <2>2. QED
    BY <1>2, <1>3, <1>4, <2>1
<1>6. CASE t.kind = "delete"
  <2> DEFINE e == [post |-> t.post, deleted |-> TRUE]
             v == ApplyEvent(view, e)
             u == Asking(t, "history")
  <2>1. Goes(t, {u}, v)
    BY <1>6 DEF MutationReturned
  <2>2. t.post \in gone /\ there \cap gone = {}
    BY <1>1, <1>2, <1>6 DEF SeenTask, CaughtInv
  <2>3. v \in {view, [view EXCEPT !.shown = @ \ {t.post}]}
    BY DEF ApplyEvent
  <2> HIDE DEF v
  <2>4. /\ v \in Views /\ v.selected = view.selected /\ v.latest = view.latest
        /\ v.cache = view.cache /\ v.behind = view.behind
        /\ v.shown \subseteq view.shown /\ view.shown \ {t.post} \subseteq v.shown
    BY <1>2, <2>3 DEF Views
  <2>5. Seen(v)
    BY <2>4 DEF CaughtInv, Seen
  <2>6. \A p \in there \cap PostsIn(view.selected) :
          p \in view.shown \cup view.behind \/ Brings(t, view, p) => p \in v.shown \cup v.behind
    BY <1>1, <2>2, <2>4 DEF Brings, Fetches
  <2> HIDE DEF u
  <2>7. \A x \in {u} : SeenTask(x)
    BY <1>3 DEF u
  <2>8. QED
    BY <1>1, <2>1, <2>4, <2>5, <2>6, <2>7, GoesCaught
<1>7. CASE t.kind \in {"mute", "clear", "remove", "join", "leave"}
  <2>1. Goes(t, {Asking(t, "list")}, view)
    BY <1>7 DEF MutationReturned
  <2>2. QED
    BY <1>2, <1>3, <1>4, <2>1
<1>8. CASE t.kind = "forward"
  <2>1. PICK state \in {"confirmed", "ambiguous"} :
          Goes(t, {}, [view EXCEPT !.forward = [@ EXCEPT !.state = state]])
    BY <1>8 DEF MutationReturned
  <2> DEFINE f == [view.forward EXCEPT !.state = state]
             v == [view EXCEPT !.forward = f]
  <2>2. view.forward \in [post : PostNames, state : {"idle", "sending", "confirmed", "ambiguous", "failed"}]
    BY <1>2 DEF Views
  <2>3. f \in [post : PostNames, state : {"idle", "sending", "confirmed", "ambiguous", "failed"}]
    BY <2>2
  <2>4. Goes(t, {}, v)
    BY <2>1
  <2> HIDE DEF f
  <2>5. /\ v \in Views /\ v.selected = view.selected /\ v.shown = view.shown
        /\ v.behind = view.behind /\ v.latest = view.latest /\ v.cache = view.cache
    BY <1>2, <2>3 DEF Views
  <2> HIDE DEF v
  <2>6. QED
    BY <1>4, <2>4, <2>5
<1>9. CASE t.kind = "reactToComment"
  <2> DEFINE u == [Asking(t, "comments") EXCEPT !.n = view.threads]
  <2>1. Goes(t, {u}, view)
    BY <1>9 DEF MutationReturned
  <2>2. u.kind = "reactToComment" /\ u.at = "comments"
    BY <1>2, <1>9 DEF Asking, Tasks
  <2> HIDE DEF u
  <2>3. SeenTask(u)
    BY <2>2 DEF SeenTask
  <2>4. QED
    BY <1>2, <1>4, <2>1, <2>3
<1>10. CASE t.kind = "logout"
  <2> DEFINE c0 == [room \in Room |-> NoReply]
             v == [view EXCEPT !.over = TRUE, !.cache = c0]
  <2>1. Goes(t, {}, v)
    BY <1>10 DEF MutationReturned
  <2>2. c0 \in [Room -> (SUBSET Post) \cup {NoReply}] /\ \A room \in Room : c0[room] = NoReply
    OBVIOUS
  <2> HIDE DEF c0
  <2>3. /\ v \in Views /\ v.selected = view.selected /\ v.shown = view.shown
        /\ v.behind = view.behind /\ v.latest = view.latest /\ v.cache = c0
    BY <1>2, <2>2 DEF Views
  <2> HIDE DEF v
  <2>4. QED
    BY <1>1, <2>1, <2>2, <2>3, SameStoreGoes
<1>11. CASE t.kind = "attach"
  <2> DEFINE v == IF t.n = view.uploads THEN [view EXCEPT !.uploading = FALSE] ELSE view
             failed == [v EXCEPT !.upload = "failed"]
             idle == [view EXCEPT !.upload = "idle"]
  <2>1. Goes(t, {}, v) \/ Goes(t, {}, failed) \/ Goes(t, {Asking(t, "history")}, idle)
    BY <1>11 DEF MutationReturned
  <2> DEFINE Same(x) == /\ x \in Views /\ x.selected = view.selected /\ x.shown = view.shown
                         /\ x.behind = view.behind /\ x.latest = view.latest /\ x.cache = view.cache
  <2>2. Same(v) /\ Same(idle)
    <3>1. Same(view) /\ Same([view EXCEPT !.uploading = FALSE]) /\ Same(idle)
      BY <1>2 DEF Views
    <3>2. v \in {view, [view EXCEPT !.uploading = FALSE]}
      OBVIOUS
    <3>3. QED
      BY <3>1, <3>2
  <2> HIDE DEF v, idle
  <2>3. Same(failed)
    BY <2>2 DEF Views
  <2> HIDE DEF failed
  <2>4. CASE Goes(t, {}, v)
    BY <1>4, <2>2, <2>4
  <2>5. CASE Goes(t, {}, failed)
    BY <1>4, <2>3, <2>5
  <2>6. CASE Goes(t, {Asking(t, "history")}, idle)
    BY <1>3, <1>4, <2>2, <2>6
  <2>7. QED
    BY <2>1, <2>4, <2>5, <2>6
<1>12. QED
  BY <1>5, <1>6, <1>7, <1>8, <1>9, <1>10, <1>11 DEF MutationReturned

\* An operation that goes on by selecting a chat.
LEMMA SelectingGoes ==
  ASSUME CaughtInv, UNCHANGED <<there, gone, news>>, NEW t \in work, t \in Tasks,
         NEW x, CacheInv(x), Seen(x), NEW room \in Room,
         Goes(t, {Selecting(t, SelectChat(x, room), room)}, SelectChat(x, room))
  PROVE  CaughtInv'
<1> DEFINE w == SelectChat(x, room)
           u == Selecting(t, w, room)
<1>1. w \in Views /\ w.selected = room /\ Seen(w) /\ w.latest \in Nat
  BY SelectChatStore, SelectChatFact
<1>2. Goes(t, {u}, w)
  OBVIOUS
<1> HIDE DEF w
<1>3. Fetches(u, w) /\ u.reply = NoReply /\ SeenTask(u)
  BY <1>1, SelectingFetches
<1> HIDE DEF u
<1>4. QED
  BY <1>1, <1>2, <1>3, GoesCaught

LEMMA ListReturnedCaught ==
  ASSUME MessengerInv, CaughtInv, NEW t \in work, ListReturned(t)
  PROVE  CaughtInv'
<1> DEFINE v == ReplaceChats(view, t.reply)
<1>1. t.at = "list" /\ t.reply # NoReply /\ UNCHANGED <<there, gone, news>>
  BY DEF ListReturned
<1>2. TaskInv(t) /\ t \in Tasks /\ SeenTask(t) /\ t.reply \subseteq Room
  BY <1>1 DEF MessengerInv, TaskInv, CaughtInv
<1>3. StoreInv(v)
  BY <1>2, ViewTypes, ReplaceChatsFact
<1>4. v \in Views /\ CacheInv(v) /\ Store(v, view)
  <2>1. Store(v, view)
    BY ViewTypes DEF ReplaceChats, Store, Views
  <2>2. QED
    BY <1>3, <2>1 DEF StoreInv, CacheInv
<1>5. Seen(v)
  BY <1>4, SameStoreSeen DEF CaughtInv
<1> HIDE DEF v
<1>6. ASSUME NEW x \in Views, Goes(t, {}, x), Store(x, v) PROVE CaughtInv'
  BY <1>1, <1>4, <1>6, SameStoreGoes DEF Store
<1>7. CASE t.kind = "initial" /\ t.reply = {}
  <2> DEFINE w == [v EXCEPT !.loaded = TRUE]
  <2>1. Goes(t, {}, w)
    BY <1>7 DEF ListReturned, v
  <2>2. w \in Views /\ Store(w, v)
    BY <1>4 DEF Views, Store
  <2> HIDE DEF w
  <2>3. QED
    BY <1>6, <2>1, <2>2
<1>8. CASE t.kind = "initial" /\ t.reply # {}
  <2>1. PICK room \in t.reply :
          LET w == [Select(v, room) EXCEPT !.latest = @ + 1, !.loading = TRUE, !.loaded = TRUE]
          IN Goes(t, {[Asking(t, "history") EXCEPT !.room = room, !.n = w.latest]}, w)
    BY <1>8 DEF ListReturned, v
  <2> DEFINE x == Select(v, room)
             l == x.latest + 1
             w == [x EXCEPT !.latest = l, !.loading = TRUE, !.loaded = TRUE]
             u == [Asking(t, "history") EXCEPT !.room = room, !.n = l]
  <2>2. room \in Rooms
    BY <1>2 DEF Rooms
  <2>3. x \in Views /\ x.selected = room /\ x.cache = v.cache /\ x.shown = {} /\ l \in Nat
    <3>1. StoreInv(x) /\ x.selected = room /\ x.cache = v.cache
      BY <1>4, <2>2, SelectFact
    <3>2. x.shown = {}
      BY <1>4, SelectStore
    <3>3. x \in Views
      BY <3>1 DEF StoreInv, CacheInv
    <3> HIDE DEF x
    <3>4. l \in Nat
      BY <3>3 DEF Views
    <3>5. QED
      BY <3>1, <3>2, <3>3, <3>4
  <2>4. w = [x EXCEPT !.latest = @ + 1, !.loading = TRUE, !.loaded = TRUE]
    BY <2>3
  <2> HIDE DEF x, l
  <2>5. w \in Views /\ w.latest = l /\ w.selected = room /\ w.cache = v.cache /\ w.shown = {}
    BY <2>3 DEF Views
  <2>6. Goes(t, {u}, w)
    BY <2>1, <2>4, <2>5 DEF x
  <2>7. u.kind = "initial" /\ u.reply = NoReply /\ u.at = "history" /\ u.room = room /\ u.n = l
    BY <1>2, <1>8 DEF Asking, Tasks
  <2> HIDE DEF u, w
  <2>8. Fetches(u, w) /\ SeenTask(u) /\ Seen(w)
    BY <1>5, <2>5, <2>7 DEF Fetches, SeenTask, Seen
  <2>9. QED
    BY <1>1, <2>5, <2>6, <2>7, <2>8, GoesCaught
<1>9. CASE t.kind = "refresh"
  <2> DEFINE l == v.latest + 1
             w == [v EXCEPT !.latest = l]
             u == [Asking(t, "history") EXCEPT !.room = v.selected, !.n = l]
  <2>1. \/ Goes(t, {}, v)
        \/ LET y == [v EXCEPT !.latest = @ + 1]
           IN Goes(t, {[Asking(t, "history") EXCEPT !.room = v.selected, !.n = y.latest]}, y)
    BY <1>9 DEF ListReturned, v
  <2>2. l \in Nat /\ w = [v EXCEPT !.latest = @ + 1]
    BY <1>4 DEF Views
  <2> HIDE DEF l
  <2>3. w \in Views /\ w.latest = l /\ w.selected = v.selected /\ w.cache = v.cache
        /\ w.shown = v.shown
    BY <1>4, <2>2 DEF Views
  <2>4. Goes(t, {}, v) \/ Goes(t, {u}, w)
    BY <2>1, <2>2, <2>3
  <2>5. u.kind = "refresh" /\ u.reply = NoReply /\ u.at = "history" /\ u.room = v.selected
        /\ u.n = l
    BY <1>2, <1>9 DEF Asking, Tasks
  <2> HIDE DEF u, w
  <2>6. Fetches(u, w) /\ SeenTask(u) /\ Seen(w)
    BY <1>5, <2>3, <2>5 DEF Fetches, SeenTask, Seen
  <2>7. CASE Goes(t, {}, v)
    BY <1>4, <1>6, <2>7 DEF Store
  <2>8. CASE Goes(t, {u}, w)
    BY <1>1, <2>3, <2>5, <2>6, <2>8, GoesCaught
  <2>9. QED
    BY <2>4, <2>7, <2>8
<1>10. CASE t.kind = "join"
  <2>1. Goes(t, {Selecting(t, SelectChat(v, t.room), t.room)}, SelectChat(v, t.room))
    BY <1>10 DEF ListReturned, v
  <2>2. t.room \in Room
    BY <1>2, <1>10 DEF TaskInv
  <2>3. QED
    BY <1>1, <1>2, <1>4, <1>5, <2>1, <2>2, SelectingGoes
<1>11. CASE t.kind = "mute"
  <2>1. Goes(t, {}, v)
    BY <1>11 DEF ListReturned, v
  <2>2. QED
    BY <1>4, <1>6, <2>1 DEF Store
<1>12. CASE t.kind = "clear"
  <2>1. Goes(t, {}, v) \/ Goes(t, {Asking(t, "history")}, v)
    BY <1>12 DEF ListReturned, v
  <2>2. SeenTask(Asking(t, "history"))
    BY <1>1, <1>2, AskingCaught
  <2>3. QED
    BY <1>1, <1>4, <2>1, <2>2, SameStoreGoes DEF Store
<1>13. CASE t.kind \in {"leave", "remove"}
  <2> DEFINE w == [v EXCEPT !.cache = [@ EXCEPT ![t.room] = NoReply]]
  <2>1. \/ Goes(t, {}, w) \/ Goes(t, {}, ClearSelection(w))
        \/ \E room \in t.reply : Goes(t, {Selecting(t, SelectChat(w, room), room)}, SelectChat(w, room))
    BY <1>13 DEF ListReturned, v
  <2>2. w = Remember(v, t.room, NoReply)
    BY DEF Remember
  <2>3. StoreInv(w)
    BY <1>2, <1>3, <2>2, RememberFact DEF Tasks
  <2>4. /\ w.selected = v.selected /\ w.latest = v.latest
        /\ w.shown = v.shown /\ w.behind = v.behind /\ Seen(w)
    BY <1>4, <1>5, <2>2, RememberStore
  <2> HIDE DEF w
  <2>5. w \in Views /\ CacheInv(w)
    BY <2>3 DEF StoreInv, CacheInv
  <2>6. CASE Goes(t, {}, w)
    BY <1>1, <1>4, <2>4, <2>5, <2>6, QuietGoes DEF Store
  <2>7. CASE Goes(t, {}, ClearSelection(w))
    <3> DEFINE c == ClearSelection(w)
    <3>1. c \in Views /\ c.selected = NoRoom /\ c.cache = w.cache /\ c.shown = {}
      BY <2>5, SelectStore, SelectFact DEF ClearSelection, StoreInv, CacheInv, Rooms
    <3> HIDE DEF c
    <3>2. Seen(c)
      BY <2>4, <3>1 DEF Seen
    <3>3. Goes(t, {}, c)
      BY <2>7 DEF c
    <3>4. QED
      BY <1>1, <3>1, <3>2, <3>3, GoesCaught
  <2>8. CASE \E room \in t.reply :
               Goes(t, {Selecting(t, SelectChat(w, room), room)}, SelectChat(w, room))
    BY <1>1, <1>2, <2>4, <2>5, <2>8, SelectingGoes
  <2>9. QED
    BY <2>1, <2>6, <2>7, <2>8
<1>14. QED
  BY <1>7, <1>8, <1>9, <1>10, <1>11, <1>12, <1>13 DEF ListReturned

LEMMA HistoryReturnedCaught ==
  ASSUME MessengerInv, CaughtInv, NEW t \in work, HistoryReturned(t)
  PROVE  CaughtInv'
<1> DEFINE v == Remember(view, t.room, t.reply)
           w == MergeHistory(v, t.reply)
           x == ReplaceMessages(v, t.reply)
<1>1. t.at = "history" /\ t.reply # NoReply /\ UNCHANGED <<there, gone, news>>
  BY DEF HistoryReturned
<1>2. TaskInv(t) /\ t \in Tasks /\ SeenTask(t)
  BY DEF MessengerInv, TaskInv, CaughtInv
<1>3. /\ t.reply \subseteq PostsIn(t.room) /\ t.room \in Rooms /\ t.reply \subseteq Was
      /\ t.reply \subseteq Post
  BY <1>1, <1>2, PostsInRooms DEF TaskInv, Tasks, SeenTask
<1>4. v \in Views
  BY <1>3, ViewTypes, RememberFact DEF StoreInv, CacheInv
<1>5. /\ v.selected = view.selected /\ v.latest = view.latest /\ v.shown = view.shown
      /\ v.behind = view.behind /\ Seen(v)
  BY <1>3, ViewTypes, RememberStore DEF CaughtInv
<1> HIDE DEF v
<1>6. /\ w \in Views /\ x \in Views
      /\ w.selected = v.selected /\ w.latest = v.latest /\ w.cache = v.cache
      /\ x.selected = v.selected /\ x.latest = v.latest /\ x.cache = v.cache
      /\ w.shown = v.shown \cup t.reply /\ w.behind = v.behind \ t.reply
      /\ x.shown = t.reply /\ x.behind = (v.behind \cup v.shown) \ t.reply
  <2>1. w \in Views /\ x \in Views
    BY <1>3, <1>4 DEF MergeHistory, ReplaceMessages, Views
  <2>2. QED
    BY <1>4, <2>1, MergeHistoryStore, ReplaceMessagesStore
<1> HIDE DEF w, x
<1>7. Seen(w) /\ Seen(x)
  BY <1>3, <1>5, <1>6 DEF Seen
\* What an answer is for is shown; otherwise nothing waits for it.
<1>8. ASSUME NEW y, y \in {w, x} \/ (y = v /\ ~Fetches(t, view)), NEW z \in Views, Store(z, y),
             Goes(t, {}, z)
      PROVE  CaughtInv'
  <2>1. Seen(z)
    BY <1>5, <1>7, <1>8, SameStoreSeen
  <2>2. z.selected = view.selected /\ z.latest = view.latest
    BY <1>5, <1>6, <1>8 DEF Store
  <2>3. \A p : p \in view.shown \cup view.behind \/ Brings(t, view, p) => p \in z.shown \cup z.behind
    <3>1. CASE y \in {w, x}
      BY <1>1, <1>5, <1>6, <1>8, <3>1 DEF Store, Brings
    <3>2. CASE y = v /\ ~Fetches(t, view)
      BY <1>5, <1>8, <3>2 DEF Store, Brings
    <3>3. QED
      BY <1>8, <3>1, <3>2
  <2>4. QED
    BY <1>1, <1>8, <2>1, <2>2, <2>3, GoesCaught
<1>9. Store(v, v) /\ Store(w, w) /\ Store(x, x)
  BY DEF Store
<1>10. CASE t.kind \in {"initial", "select", "source"}
  <2> DEFINE y == IF t.n = view.latest /\ StillSelected(t) THEN w ELSE v
  <2>1. Goes(t, {}, Loaded(y, t))
    BY <1>10 DEF HistoryReturned, v, w
  <2>2. y \in Views
    BY <1>4, <1>6
  <2>3. y \in {w, x} \/ (y = v /\ ~Fetches(t, view))
    BY <1>10 DEF Fetches, StillSelected
  <2> HIDE DEF y
  <2>4. Store(Loaded(y, t), y) /\ Loaded(y, t) \in Views
    BY <2>2, LoadedStore
  <2>5. QED
    BY <1>8, <2>1, <2>3, <2>4
<1>11. CASE t.kind = "refresh"
  <2> DEFINE y == IF t.n = view.latest /\ StillSelected(t) THEN x ELSE v
  <2>1. Goes(t, {}, y)
    BY <1>11 DEF HistoryReturned, v, x
  <2>2. y \in Views /\ Store(y, y)
    BY <1>4, <1>6, <1>9
  <2>3. y \in {w, x} \/ (y = v /\ ~Fetches(t, view))
    BY <1>11 DEF Fetches, StillSelected
  <2> HIDE DEF y
  <2>4. QED
    BY <1>8, <2>1, <2>2, <2>3
<1>12. CASE t.kind \in {"send", "sticker", "edit", "react", "delete", "clear", "attach"}
  <2> DEFINE y == IF ~StillSelected(t) THEN v
                  ELSE IF t.kind \in {"delete", "clear"} THEN x ELSE w
             z == [y EXCEPT !.uploading = FALSE]
  <2>1. Goes(t, {}, y) \/ Goes(t, {}, z)
    BY <1>12 DEF HistoryReturned, v, w, x
  <2>2. y \in Views /\ Store(y, y)
    BY <1>4, <1>6, <1>9
  <2>3. y \in {w, x} \/ (y = v /\ ~Fetches(t, view))
    BY DEF Fetches, StillSelected
  <2> HIDE DEF y
  <2>4. z \in Views /\ Store(z, y)
    BY <2>2 DEF Views, Store
  <2> HIDE DEF z
  <2>5. QED
    BY <1>8, <2>1, <2>2, <2>3, <2>4
<1>13. QED
  BY <1>10, <1>11, <1>12 DEF HistoryReturned

\* Showing other messages keeps the chat and what is remembered.
LEMMA ReplacedFields ==
  ASSUME NEW v \in Views, NEW posts, posts \subseteq Post, NEW z, z = ReplaceMessages(v, posts)
  PROVE  z \in Views /\ z.selected = v.selected /\ z.cache = v.cache /\ z.shown = posts
<1>1. z \in Views
  BY DEF ReplaceMessages, Views
<1>2. z.selected = v.selected /\ z.cache = v.cache /\ z.shown = posts
  BY DEF ReplaceMessages, Views
<1>3. QED
  BY <1>1, <1>2

\* The chat before a visit that failed: what of it is not shown is noted.
LEMMA SourceFailsCaught ==
  ASSUME NEW t, t.from \in Room, NEW w, StoreInv(w), Seen(w),
         NEW x, x = IF t.post = "added" THEN RemoveTransientChat(w, t.room) ELSE w,
         NEW y, y = Select(x, t.from),
         NEW z, z = IF x.cache[t.from] = NoReply THEN y ELSE ReplaceMessages(y, x.cache[t.from])
  PROVE  z \in Views /\ Seen(z) /\ z.selected = t.from
<1>1. CacheInv(x) /\ x.cache = w.cache
  BY TransientFact DEF StoreInv
<1>2. x \in Views
  BY <1>1 DEF CacheInv
<1>3. y \in Views /\ y.selected = t.from /\ y.cache = w.cache /\ y.shown = {}
  BY <1>1, <1>2, SelectFact, SelectStore DEF StoreInv, CacheInv, Rooms
<1>4. x.cache[t.from] # NoReply => x.cache[t.from] \subseteq Was /\ x.cache[t.from] \subseteq Post
  BY <1>1, PostsInRooms DEF Seen, CacheInv
<1>5. z \in Views /\ z.selected = t.from /\ z.cache = w.cache /\ z.shown \subseteq Was
  <2>1. CASE x.cache[t.from] = NoReply
    BY <1>3, <2>1
  <2>2. CASE x.cache[t.from] # NoReply
    <3>1. PICK posts : posts = x.cache[t.from]
      OBVIOUS
    <3>2. z = ReplaceMessages(y, posts) /\ posts \subseteq Was /\ posts \subseteq Post
      BY <1>4, <2>2, <3>1
    <3>3. QED
      BY <1>3, <3>2, ReplacedFields
  <2>3. QED
    BY <2>1, <2>2
<1>6. QED
  BY <1>5 DEF Seen

\* The answer is lost: what it would have brought is noted.
LEMMA FailCaught ==
  ASSUME MessengerInv, CaughtInv, NEW t \in work, Fail(t)
  PROVE  CaughtInv'
<1> DEFINE missed == there \cap PostsIn(t.room)
           lost == [view EXCEPT !.behind = @ \cup missed]
           v == IF t.at = "history" THEN lost ELSE view
           l == Loaded(v, t)
<1>1. UNCHANGED <<there, gone, news>>
  BY DEF Fail
<1>2. TaskInv(t) /\ t \in Tasks
  BY DEF MessengerInv, TaskInv
<1>3. StoreInv(view) /\ view \in Views /\ missed \subseteq Post
  BY ViewTypes DEF PostsIn
<1>4. lost \in Views /\ StoreInv(v) /\ SameScreen(v, view)
  BY <1>3 DEF StoreInv, CacheInv, Views, SameScreen
<1>5. /\ v \in Views /\ v.selected = view.selected /\ v.latest = view.latest
      /\ v.cache = view.cache /\ v.shown = view.shown
      /\ \A p \in there \cap PostsIn(view.selected) :
           p \in view.shown \cup view.behind \/ Brings(t, view, p) => p \in v.shown \cup v.behind
  <2>1. CASE t.at = "history"
    <3>1. v = lost
      BY <2>1
    <3>2. PICK m : m = missed
      OBVIOUS
    <3>3. /\ lost.selected = view.selected /\ lost.latest = view.latest
          /\ lost.cache = view.cache /\ lost.shown = view.shown /\ lost.behind = view.behind \cup m
      BY <1>3, <3>2 DEF Views
    <3>4. \A p \in there \cap PostsIn(view.selected) : Brings(t, view, p) => p \in m
      BY <3>2 DEF Brings, Fetches
    <3> HIDE DEF lost
    <3>5. QED
      BY <1>4, <3>1, <3>3, <3>4
  <2>2. CASE t.at # "history"
    BY <1>3, <2>2 DEF Brings, Fetches
  <2>3. QED
    BY <2>1, <2>2
<1>6. \/ t.kind = "initial"
         /\ Goes(t, {}, IF t.at = "list" THEN [v EXCEPT !.loaded = TRUE, !.failed = TRUE] ELSE l)
      \/ t.kind = "select" /\ Goes(t, {}, l)
      \/ /\ t.kind = "source"
         /\ LET x == IF t.post = "added" THEN RemoveTransientChat(l, t.room) ELSE l
                y == Select(x, t.from)
                z == IF x.cache[t.from] = NoReply THEN y ELSE ReplaceMessages(y, x.cache[t.from])
            IN IF view.selected # t.room THEN Goes(t, {}, l)
               ELSE Goes(t, {}, [z EXCEPT !.loading = FALSE,
                                          !.behind = @ \cup (there \cap PostsIn(t.from))])
      \/ /\ t.kind = "attach"
         /\ IF t.n # view.uploads THEN Goes(t, {}, v)
            ELSE Goes(t, {}, [v EXCEPT !.uploading = FALSE,
                        !.upload = IF t.at = "mutate" /\ StillSelected(t) THEN "failed" ELSE @])
      \/ /\ t.kind = "comments"
         /\ Goes(t, {}, IF t.n = view.threads
                        THEN [v EXCEPT !.thread = [@ EXCEPT !.loading = FALSE]] ELSE v)
      \/ t.kind = "forward" /\ Goes(t, {}, [v EXCEPT !.forward = [@ EXCEPT !.state = "failed"]])
      \/ t.kind \notin {"initial", "select", "source", "attach", "comments", "forward"}
         /\ Goes(t, {}, v)
  BY DEF Fail
<1> HIDE DEF v, lost
<1>7. Store(l, v) /\ l \in Views /\ StoreInv(l) /\ SameScreen(l, view)
  BY <1>4, <1>5, LoadedStore, LoadedFact, SameScreenTrans
<1> HIDE DEF l
<1>8. Seen(v) /\ Seen(l)
  <2>1. Seen(v)
    BY <1>5 DEF CaughtInv, Seen
  <2>2. QED
    BY <1>7, <2>1, SameStoreSeen
<1>9. ASSUME NEW w \in Views, Store(w, v), Goes(t, {}, w)
      PROVE  CaughtInv'
  <2>1. Seen(w)
    BY <1>8, <1>9, SameStoreSeen
  <2>2. /\ w.selected = view.selected /\ w.latest = view.latest
        /\ w.shown = v.shown /\ w.behind = v.behind
    BY <1>5, <1>9 DEF Store
  <2>3. QED
    BY <1>1, <1>5, <1>9, <2>1, <2>2, GoesCaught
<1>10. CASE t.kind = "source"
  <2> DEFINE x == IF t.post = "added" THEN RemoveTransientChat(l, t.room) ELSE l
             y == Select(x, t.from)
             z == IF x.cache[t.from] = NoReply THEN y ELSE ReplaceMessages(y, x.cache[t.from])
             f == [z EXCEPT !.loading = FALSE, !.behind = @ \cup (there \cap PostsIn(t.from))]
  <2>1. Goes(t, {}, l) \/ Goes(t, {}, f)
    BY <1>6, <1>10
  <2>2. t.from \in Room
    BY <1>2, <1>10 DEF TaskInv
  <2>3. StoreInv(f)
    BY <1>7, <1>10, SourceFails
  <2>4. f \in Views
    BY <2>3 DEF StoreInv, CacheInv
  <2>5. CASE Goes(t, {}, l)
    BY <1>7, <1>9, <2>5
  <2>6. CASE Goes(t, {}, f)
    <3>1. PICK X : X = x
      OBVIOUS
    <3>2. PICK Y : Y = y
      OBVIOUS
    <3>3. PICK Z : Z = z
      OBVIOUS
    <3>4. PICK m : m = there \cap PostsIn(t.from)
      OBVIOUS
    <3>5. /\ X = IF t.post = "added" THEN RemoveTransientChat(l, t.room) ELSE l
          /\ Y = Select(X, t.from)
          /\ Z = IF X.cache[t.from] = NoReply THEN Y ELSE ReplaceMessages(Y, X.cache[t.from])
      BY <3>1, <3>2, <3>3
    <3>6. f = [Z EXCEPT !.loading = FALSE, !.behind = @ \cup m]
      BY <3>3, <3>4
    <3> HIDE DEF x, y, z, f
    <3>7. Z \in Views /\ Seen(Z) /\ Z.selected = t.from
      BY <1>7, <1>8, <2>2, <3>5, SourceFailsCaught
    <3>8. Seen(f) /\ f.selected = t.from /\ there \cap PostsIn(t.from) \subseteq f.behind
      <4>1. /\ f.selected = t.from /\ f.cache = Z.cache /\ f.shown = Z.shown
            /\ m \subseteq f.behind
        BY <3>6, <3>7 DEF Views
      <4>2. QED
        BY <3>4, <3>7, <4>1 DEF Seen
    <3>9. there \cap PostsIn(f.selected) \subseteq f.shown \cup f.behind
      BY <3>8
    <3>10. QED
      BY <1>1, <2>4, <2>6, <3>8, <3>9, GoesCaught
  <2>7. QED
    BY <2>1, <2>5, <2>6
<1>11. CASE t.kind # "source"
  <2> DEFINE i == [v EXCEPT !.loaded = TRUE, !.failed = TRUE]
             up == IF t.at = "mutate" /\ StillSelected(t) THEN "failed" ELSE v.upload
             ended == [v EXCEPT !.uploading = FALSE, !.upload = up]
             th == [v.thread EXCEPT !.loading = FALSE]
             c == [v EXCEPT !.thread = th]
             fw == [v.forward EXCEPT !.state = "failed"]
             d == [v EXCEPT !.forward = fw]
  <2>1. \E w \in {v, l, i, ended, c, d} : Goes(t, {}, w)
    <3>1. ended = [v EXCEPT !.uploading = FALSE,
                            !.upload = IF t.at = "mutate" /\ StillSelected(t) THEN "failed" ELSE @]
      BY <1>5 DEF Views
    <3>2. c = [v EXCEPT !.thread = [@ EXCEPT !.loading = FALSE]]
          /\ d = [v EXCEPT !.forward = [@ EXCEPT !.state = "failed"]]
      OBVIOUS
    <3> HIDE DEF ended, c, d
    <3>3. QED
      BY <1>6, <1>11, <3>1, <3>2
  <2>2. /\ v.upload \in {"idle", "sending", "failed"}
        /\ v.thread \in [post : PostNames, loading : BOOLEAN]
        /\ v.forward \in [post : PostNames, state : {"idle", "sending", "confirmed", "ambiguous", "failed"}]
    BY <1>5 DEF Views
  <2>3. /\ up \in {"idle", "sending", "failed"} /\ th \in [post : PostNames, loading : BOOLEAN]
        /\ fw \in [post : PostNames, state : {"idle", "sending", "confirmed", "ambiguous", "failed"}]
    BY <2>2
  <2> HIDE DEF up, th, fw
  <2>4. i \in Views /\ Store(i, v) /\ ended \in Views /\ Store(ended, v)
    BY <1>5, <2>3 DEF Views, Store
  <2>5. c \in Views /\ Store(c, v) /\ d \in Views /\ Store(d, v) /\ Store(v, v)
    BY <1>5, <2>3 DEF Views, Store
  <2> HIDE DEF i, ended, c, d
  <2>6. QED
    BY <1>5, <1>7, <1>9, <2>1, <2>4, <2>5
<1>12. QED
  BY <1>10, <1>11

LEMMA CaughtInitially == MessengerInit => CaughtInv
<1> SUFFICES ASSUME MessengerInit PROVE CaughtInv
  OBVIOUS
<1>1. /\ gone = {} /\ news = <<>> /\ view.selected = NoRoom /\ view.shown = {}
      /\ \A room \in Room : view.cache[room] = NoReply
      /\ \A t \in work : t.at = "list" /\ t.kind = "initial"
  BY DEF MessengerInit, Task
<1>2. QED
  BY <1>1 DEF CaughtInv, Seen, SeenNews, SeenTask, Covers

LEMMA CaughtInductive ==
  MessengerInv /\ CaughtInv /\ [MessengerNext]_messengerVars => CaughtInv'
<1> SUFFICES ASSUME MessengerInv, CaughtInv, [MessengerNext]_messengerVars PROVE CaughtInv'
  OBVIOUS
<1>1. CASE UserActs
  <2>1. ASSUME NEW room \in Room, Choose(room) \/ OpenForwardedSource(room)
        PROVE  CaughtInv'
    BY <2>1, ChooseCaught, OpenForwardedSourceCaught
  <2>2. CASE \/ \E room \in Room, kind \in {"mute", "clear", "remove"} : ApplyChatAction(room, kind)
             \/ \E room \in Room : Subscribe(room) \/ Unsubscribe(room)
             \/ \E post \in Post : DeleteMessage_(post) \/ ReactMessage(post)
             \/ ReactToComment \/ Logout_
    BY <2>2, PlainCaught
  <2>3. ASSUME NEW post \in Post,
               \/ \E kind \in {"send", "sticker"} : SendMessage_(post, kind)
               \/ SendAttachment_(post) \/ OpenComments(post)
        PROVE  CaughtInv'
    BY <2>3, SendCaught
  <2>4. ASSUME NEW post \in Post, Context(post) \/ OpenForward(post)
        PROVE  CaughtInv'
    BY <2>4, TouchCaught
  <2>5. CASE CancelAttachment \/ CloseComments \/ ToggleDestination \/ CloseForward
    BY <2>5, TouchCaught
  <2>6. CASE SubmitEdit \/ ConfirmForward \/ RefreshCurrentData
    BY <2>6, SubmitEditCaught, ConfirmForwardCaught, RefreshCaught
  <2>7. QED
    BY <1>1, <2>1, <2>2, <2>3, <2>4, <2>5, <2>6 DEF UserActs
<1>2. CASE Goes_on
  BY <1>2, ListReturnedCaught, HistoryReturnedCaught, MutationReturnedCaught,
     CommentsReturnedCaught, FailCaught DEF Goes_on
<1>3. CASE LiveEvent \/ Linked \/ Elsewhere
  BY <1>3, LiveEventCaught, LinkedCaught, ElsewhereCaught
<1>4. CASE \E t \in work : Handle(t)
  BY <1>4, HandleCaught
<1>5. CASE UNCHANGED messengerVars
  <2>1. UNCHANGED <<there, gone, news, work>> /\ Store(view', view)
    BY <1>5 DEF messengerVars, Store
  <2>2. QED
    BY <2>1, SameStoreCaught
<1>6. QED
  BY <1>1, <1>2, <1>3, <1>4, <1>5 DEF MessengerNext

(* Every message that MAX has of the selected chat is shown, on its way or *)
(* known to have been missed, and what is shown was with MAX, at every     *)
(* step.                                                                   *)
THEOREM CaughtInvariant == MessengerSpec => []CaughtInv
<1>1. QED
  BY CaughtInitially, CaughtInductive, MessengerInvariant, PTL DEF MessengerSpec

(* When nothing is under way the selected chat shows every message MAX has *)
(* of it, except those whose event or answer was lost: no late answer and  *)
(* no change of the chat in between hides one.                             *)
THEOREM AlwaysCaughtUp == MessengerSpec => []CaughtUp
<1>1. QED
  BY CaughtInvariant, CaughtInvImplies, PTL

-----------------------------------------------------------------------------
(* Gestures.  GestureActsOnce is about what a contact has done; what it    *)
(* may still do is in the recognisers, so RecognisersInv says what each of *)
(* them knows of the contact and of what it has done.                      *)

Axes == {"none", "pending", "horizontal", "vertical", "rejected"}
Swipes == [axis : Axes, x : Int]

Contacts == [kind : {"none", "touch", "mouse", "lifted"}, x : Int, y : Int, fingers : {0, 1, 2},
             cancelled : BOOLEAN, moved : BOOLEAN]

GestureTypes ==
  /\ contact \in Contacts
  /\ press \in {"none", "waiting", "fired"} /\ reply \in Swipes /\ swipe \in Swipes
  /\ suppress \subseteq {"press", "swipe"}
  /\ pane \in {"list", "conversation"}
  /\ acted \subseteq {"menu", "reply", "navigate", "click", "back"}

\* Both swipes follow the same contact, the one to answer only to the left.
SwipesInv ==
  /\ reply.axis = "none" => reply = NoSwipe
  /\ swipe.axis = "none" => swipe = NoSwipe
  /\ reply # NoSwipe => swipe # NoSwipe /\ reply.x = (IF swipe.x > 0 THEN 0 ELSE swipe.x)
  /\ swipe # NoSwipe => InContact
  /\ reply # NoSwipe => pane = "conversation" \/ "back" \in acted
  /\ reply.axis = "horizontal" => contact.moved
  /\ swipe.axis = "horizontal" => "swipe" \in suppress

\* A press that waits is one of a finger that has hardly moved.
PressInv ==
  press = "waiting" => /\ contact.kind = "touch" /\ ~contact.cancelled
                       /\ reply.x <= 0 /\ reply.x >= -LockDistance

ActedInv ==
  /\ "menu" \in acted => reply = NoSwipe /\ (contact.kind # "none" => "press" \in suppress)
  /\ "navigate" \in acted => reply = NoSwipe /\ (contact.kind # "none" => "swipe" \in suppress)
  /\ "reply" \in acted /\ "back" \notin acted =>
       /\ press # "waiting" /\ swipe = NoSwipe
       /\ InContact => contact.moved
  /\ "click" \in acted => contact.kind = "none"

GestureInv == GestureTypes /\ SwipesInv /\ PressInv /\ ActedInv /\ GestureActsOnce

LEMMA SmallSquare ==
  ASSUME NEW x \in Int, NEW y \in Int, ~(x * x + y * y > Distance2)
  PROVE  x <= LockDistance /\ x >= -LockDistance
<1>1. y * y >= 0
  BY SMT
<1>2. x * x <= 4
  BY <1>1 DEF Distance2, LockDistance
<1>3. CASE x > 2
  <2>1. x * x >= 3 * 3
    BY <1>3, SMT
  <2>2. QED
    BY <1>2, <2>1
<1>4. CASE x < -2
  <2>1. x * x >= 3 * 3
    BY <1>4, SMT
  <2>2. QED
    BY <1>2, <2>1
<1>5. QED
  BY <1>3, <1>4 DEF LockDistance

LEMMA NoSwipeFact == NoSwipe \in Swipes /\ Pending \in Swipes /\ NoSwipe.axis = "none"
                     /\ NoSwipe.x = 0 /\ Pending.x = 0 /\ Pending.axis = "pending" /\ Pending # NoSwipe
BY DEF NoSwipe, Pending, Swipes, Axes

LEMMA NoContactFact == NoContact \in Contacts /\ NoContact.kind = "none"
BY DEF NoContact, Contacts

LEMMA GesturesInitially == GesturesInit => GestureInv
<1> SUFFICES ASSUME GesturesInit PROVE GestureInv
  OBVIOUS
<1>1. GestureTypes
  BY NoSwipeFact, NoContactFact DEF GesturesInit, GestureTypes
<1>2. SwipesInv /\ PressInv /\ ActedInv /\ GestureActsOnce
  BY NoSwipeFact, NoContactFact DEF GesturesInit, SwipesInv, PressInv, ActedInv, GestureActsOnce
<1>3. QED
  BY <1>1, <1>2 DEF GestureInv

LEMMA GestureTypesStep ==
  ASSUME GestureTypes, GesturesNext
  PROVE  GestureTypes'
<1>1. CASE \E kind \in {"touch", "mouse"} : Down(kind)
  <2>1. contact' \in Contacts
    <3>1. PICK kind \in {"touch", "mouse"} : contact' = [NoContact EXCEPT !.kind = kind, !.fingers = 1]
      BY <1>1 DEF Down
    <3>2. QED
      BY <3>1, NoContactFact DEF Contacts
  <2>2. QED
    BY <1>1, <2>1, NoSwipeFact DEF Down, GestureTypes
<1>2. ASSUME NEW x \in Xs, NEW y \in Ys, Move(x, y) PROVE GestureTypes'
  <2>1. x \in Int /\ y \in Int
    BY GesturesAssumption
  <2>2. contact' \in Contacts
    <3>1. Locked(x, y) \in BOOLEAN
      BY DEF Locked
    <3>2. QED
      BY <1>2, <2>1, <3>1 DEF Move, GestureTypes, Contacts
  <2>3. reply' \in Swipes
    BY <1>2, <2>1 DEF Move, GestureTypes, Tracked, Swipes, Axes
  <2>4. swipe' \in Swipes
    BY <1>2, <2>1 DEF Move, GestureTypes, Navigated, Swipes, Axes
  <2>5. /\ press' \in {"none", "waiting", "fired"} /\ suppress' \subseteq {"press", "swipe"}
        /\ UNCHANGED <<pane, acted>>
    BY <1>2 DEF Move, GestureTypes
  <2>6. QED
    BY <2>2, <2>3, <2>4, <2>5 DEF GestureTypes
<1>3. ASSUME NEW fast \in BOOLEAN, Up(fast) PROVE GestureTypes'
  <2>1. contact' \in Contacts
    <3>1. contact \in Contacts
      BY DEF GestureTypes
    <3>2. \/ \E m \in BOOLEAN : contact' = [contact EXCEPT !.kind = "lifted", !.fingers = 0, !.moved = m]
          \/ contact' = [contact EXCEPT !.fingers = 1]
      BY <1>3, <3>1 DEF Up, Contacts
    <3>3. QED
      BY <3>1, <3>2 DEF Contacts
  <2>2. reply' \in Swipes /\ swipe' \in Swipes
    BY <1>3, NoSwipeFact DEF Up
  <2>3. /\ press' \in {"none", "waiting", "fired"} /\ UNCHANGED suppress
        /\ pane' \in {"list", "conversation"} /\ acted' \subseteq {"menu", "reply", "navigate", "click", "back"}
    BY <1>3 DEF Up, Navigate, GestureTypes
  <2>4. QED
    BY <2>1, <2>2, <2>3 DEF GestureTypes
<1>4. CASE SecondFinger \/ PointerTaken
  <2>1. contact' \in Contacts
    BY <1>4 DEF SecondFinger, PointerTaken, GestureTypes, Contacts
  <2>2. /\ press' \in {"none", "waiting", "fired"}
        /\ UNCHANGED <<reply, swipe, suppress, pane, acted>>
    BY <1>4 DEF SecondFinger, PointerTaken, GestureTypes
  <2>3. QED
    BY <2>1, <2>2 DEF GestureTypes
<1>5. CASE Scroll \/ ReplyLost \/ PressFires
  BY <1>5, NoSwipeFact DEF Scroll, ReplyLost, PressFires, CancelReply, GestureTypes
<1>6. CASE ContextMenu \/ Cancelled
  BY <1>6, NoSwipeFact, NoContactFact DEF ContextMenu, Cancelled, CancelReply, GestureTypes
<1>7. CASE Click
  BY <1>7, NoContactFact DEF Click, GestureTypes
<1>8. CASE ChooseAction \/ DismissMenu \/ SwallowEnds \/ Back \/ \E x \in {-1, 1} : Wheel(x)
  BY <1>8 DEF ChooseAction, DismissMenu, SwallowEnds, Back, Wheel, GestureTypes
<1>9. QED
  BY <1>1, <1>2, <1>3, <1>4, <1>5, <1>6, <1>7, <1>8 DEF GesturesNext

\* What a contact's next place makes of the two swipes.
LEMMA MoveSwipes ==
  ASSUME GestureTypes, SwipesInv, NEW x \in Int, NEW y \in Int, Move(x, y)
  PROVE  SwipesInv'
<1>1. /\ InContact /\ contact'.kind = contact.kind /\ contact'.moved = (contact.moved \/ Locked(x, y))
      /\ reply' = (IF reply = NoSwipe THEN reply ELSE Tracked(reply, x, y))
      /\ swipe' = (IF swipe = NoSwipe THEN swipe ELSE Navigated(swipe, x, y))
      /\ suppress' = (IF swipe'.axis = "horizontal" THEN suppress \cup {"swipe"} ELSE suppress)
      /\ UNCHANGED <<pane, acted>>
  BY DEF Move, GestureTypes, Contacts
<1>2. InContact'
  BY <1>1 DEF InContact
<1>3. reply = NoSwipe => reply' = NoSwipe
  BY <1>1
<1>4. reply # NoSwipe => /\ reply'.x = (IF x > 0 THEN 0 ELSE x) /\ reply'.axis # "none"
                         /\ swipe # NoSwipe
  BY <1>1 DEF Tracked, SwipesInv
<1>5. swipe # NoSwipe => swipe'.x = x /\ swipe'.axis # "none"
  BY <1>1 DEF Navigated, SwipesInv
<1>6. reply'.axis = "horizontal" => contact'.moved
  BY <1>1 DEF Tracked, SwipesInv
<1>7. swipe'.axis = "horizontal" => "swipe" \in suppress'
  BY <1>1
<1>8. /\ reply'.axis = "none" => reply' = NoSwipe
      /\ swipe'.axis = "none" => swipe' = NoSwipe
  BY <1>1, <1>3, <1>4, <1>5
<1>9. reply' # NoSwipe => swipe' # NoSwipe /\ reply'.x = (IF swipe'.x > 0 THEN 0 ELSE swipe'.x)
  BY <1>3, <1>4, <1>5, NoSwipeFact
<1>10. QED
  BY <1>1, <1>2, <1>3, <1>6, <1>7, <1>8, <1>9 DEF SwipesInv

LEMMA SwipesStep ==
  ASSUME GestureTypes, SwipesInv, GesturesNext
  PROVE  SwipesInv'
<1>1. CASE \E kind \in {"touch", "mouse"} : Down(kind)
  <2>1. /\ reply' \in {NoSwipe, Pending} /\ (reply' = Pending => pane' = "conversation")
        /\ swipe' = Pending /\ contact'.kind \in {"touch", "mouse"}
    <3>1. PICK kind \in {"touch", "mouse"} : Down(kind)
      BY <1>1
    <3>2. contact'.kind = kind
      BY <3>1 DEF Down, NoContact
    <3>3. QED
      BY <3>1, <3>2, NoSwipeFact DEF Down
  <2>2. QED
    BY <2>1, NoSwipeFact DEF SwipesInv, InContact
<1>2. ASSUME NEW x \in Xs, NEW y \in Ys, Move(x, y) PROVE SwipesInv'
  <2>1. x \in Int /\ y \in Int
    BY GesturesAssumption
  <2>2. QED
    BY <1>2, <2>1, MoveSwipes
<1>3. CASE (\E fast \in BOOLEAN : Up(fast)) \/ ContextMenu \/ Cancelled
  <2>1. reply' = NoSwipe /\ swipe' = NoSwipe
    BY <1>3 DEF Up, ContextMenu, Cancelled, CancelReply
  <2>2. QED
    BY <2>1, NoSwipeFact DEF SwipesInv
<1>4. CASE SecondFinger \/ PointerTaken
  <2>1. contact'.kind = contact.kind /\ contact'.moved = contact.moved
    BY <1>4 DEF SecondFinger, PointerTaken, GestureTypes, Contacts
  <2>2. UNCHANGED <<reply, swipe, suppress, pane, acted>>
    BY <1>4 DEF SecondFinger, PointerTaken
  <2>3. QED
    BY <2>1, <2>2 DEF SwipesInv, InContact
<1>5. CASE Scroll \/ ReplyLost \/ PressFires
  <2>1. /\ reply' \in {reply, NoSwipe} /\ UNCHANGED <<contact, swipe, pane>>
        /\ acted \subseteq acted' /\ suppress \subseteq suppress'
    BY <1>5 DEF Scroll, ReplyLost, PressFires, CancelReply
  <2>2. QED
    BY <2>1, NoSwipeFact DEF SwipesInv, InContact
<1>6. CASE Click
  <2>1. ~InContact /\ UNCHANGED <<reply, swipe>>
    BY <1>6 DEF Click, InContact
  <2>2. reply = NoSwipe /\ swipe = NoSwipe
    BY <2>1 DEF SwipesInv
  <2>3. QED
    BY <2>1, <2>2, NoSwipeFact DEF SwipesInv
<1>7. CASE ChooseAction \/ DismissMenu \/ SwallowEnds \/ \E x \in {-1, 1} : Wheel(x)
  <2>1. UNCHANGED <<contact, reply, swipe, suppress, pane, acted>>
    BY <1>7 DEF ChooseAction, DismissMenu, SwallowEnds, Wheel
  <2>2. QED
    BY <2>1 DEF SwipesInv, InContact
<1>8. CASE Back
  BY <1>8 DEF Back, SwipesInv, InContact
<1>9. QED
  BY <1>1, <1>2, <1>3, <1>4, <1>5, <1>6, <1>7, <1>8 DEF GesturesNext

LEMMA PressStep ==
  ASSUME GestureTypes, SwipesInv, PressInv, GesturesNext
  PROVE  PressInv'
<1>1. CASE \E kind \in {"touch", "mouse"} : Down(kind)
  <2>1. /\ reply'.x = 0 /\ (press' = "waiting" => contact'.kind = "touch" /\ ~contact'.cancelled)
    BY <1>1, NoSwipeFact DEF Down, NoContact
  <2>2. QED
    BY <2>1 DEF PressInv, LockDistance
<1>2. ASSUME NEW x \in Xs, NEW y \in Ys, Move(x, y), press' = "waiting" PROVE PressInv'
  <2>1. x \in Int /\ y \in Int
    BY GesturesAssumption
  <2>2. /\ press = "waiting" /\ contact'.kind = contact.kind /\ contact'.cancelled = contact.cancelled
        /\ (~contact.cancelled => ~(x * x + y * y > Distance2))
    BY <1>2 DEF Move, GestureTypes, Contacts
  <2>3. ~contact.cancelled /\ contact.kind = "touch"
    BY <2>2 DEF PressInv
  <2>4. x <= LockDistance /\ x >= -LockDistance
    BY <2>1, <2>2, <2>3, SmallSquare
  <2>5. (reply'.x \in {0, x} /\ (reply'.x = x => x <= 0)) \/ reply' = NoSwipe
    BY <1>2, <2>1 DEF Move, Tracked
  <2>6. reply'.x <= 0 /\ reply'.x >= -LockDistance
    BY <2>1, <2>4, <2>5, NoSwipeFact DEF LockDistance
  <2>7. QED
    BY <2>2, <2>3, <2>6 DEF PressInv
<1>3. ASSUME NEW fast \in BOOLEAN, Up(fast), press' = "waiting" PROVE PressInv'
  <2>1. /\ contact' = [contact EXCEPT !.fingers = 1] /\ press = "waiting" /\ reply' = NoSwipe
    BY <1>3 DEF Up
  <2>2. contact'.kind = contact.kind /\ contact'.cancelled = contact.cancelled
    BY <2>1 DEF GestureTypes, Contacts
  <2>3. QED
    BY <2>1, <2>2, NoSwipeFact DEF PressInv, LockDistance
<1>4. CASE ContextMenu \/ Cancelled \/ PointerTaken \/ Scroll \/ PressFires
  BY <1>4 DEF ContextMenu, Cancelled, PointerTaken, Scroll, PressFires, PressInv
<1>5. CASE SecondFinger
  <2>1. contact'.kind = contact.kind /\ contact'.cancelled = contact.cancelled
    BY <1>5 DEF SecondFinger, GestureTypes, Contacts
  <2>2. QED
    BY <1>5, <2>1 DEF SecondFinger, PressInv
<1>6. CASE ReplyLost
  BY <1>6, NoSwipeFact DEF ReplyLost, PressInv, LockDistance
<1>7. CASE Click
  <2>1. press # "waiting" /\ press' = press
    BY <1>7 DEF Click, PressInv
  <2>2. QED
    BY <2>1 DEF PressInv
<1>8. CASE ChooseAction \/ DismissMenu \/ SwallowEnds \/ Back \/ \E x \in {-1, 1} : Wheel(x)
  <2>1. UNCHANGED <<contact, press, reply>>
    BY <1>8 DEF ChooseAction, DismissMenu, SwallowEnds, Back, Wheel
  <2>2. QED
    BY <2>1 DEF PressInv
<1>9. QED
  BY <1>1, <1>2, <1>3, <1>4, <1>5, <1>6, <1>7, <1>8 DEF GesturesNext, PressInv

\* What a contact does in the end: an answer and a change of the pane exclude each other,
\* unless the pane is left in the middle.
LEMMA UpActs ==
  ASSUME GestureInv, NEW fast \in BOOLEAN, Up(fast)
  PROVE  ActedInv' /\ GestureActsOnce'
<1> DEFINE answers == Armed(reply)  navigates == Committed(swipe, fast)
<1>1. /\ InContact /\ reply' = NoSwipe /\ swipe' = NoSwipe /\ suppress' = suppress
      /\ acted' = acted \cup (IF answers THEN {"reply"} ELSE {}) \cup (IF navigates THEN {"navigate"} ELSE {})
      /\ press' \in {press, "none"}
  BY DEF Up
<1>2. /\ contact'.kind \in {contact.kind, "lifted"} /\ (InContact' => contact'.moved = contact.moved)
      /\ contact.kind # "none"
  <2>1. CASE contact.fingers = 1
    <3>1. contact' = [contact EXCEPT !.kind = "lifted", !.fingers = 0,
                                     !.moved = contact.moved /\ contact.kind = "touch"]
      BY <2>1 DEF Up, GestureInv, GestureTypes, Contacts
    <3>2. contact'.kind = "lifted"
      BY <3>1 DEF GestureInv, GestureTypes, Contacts
    <3>3. QED
      BY <3>2, <1>1 DEF InContact
  <2>2. CASE contact.fingers # 1
    <3>1. contact' = [contact EXCEPT !.fingers = 1]
      BY <2>2 DEF Up
    <3>2. QED
      BY <3>1, <1>1 DEF GestureInv, GestureTypes, Contacts, InContact
  <2>3. QED
    BY <2>1, <2>2
<1>3. "click" \notin acted
  BY <1>2 DEF GestureInv, ActedInv
<1>4. ASSUME answers
      PROVE  /\ reply # NoSwipe /\ acted \cap {"menu", "navigate"} = {}
             /\ press # "waiting" /\ contact.moved /\ reply.x <= -ReplyThreshold
  <2>1. reply.axis = "horizontal" /\ Abs(reply.x) >= ReplyThreshold
    BY <1>4 DEF Armed
  <2>2. reply # NoSwipe
    BY <2>1, NoSwipeFact
  <2>3. reply.x \in Int /\ reply.x <= 0
    BY <2>2 DEF GestureInv, GestureTypes, SwipesInv, Swipes
  <2>4. reply.x <= -ReplyThreshold
    BY <2>1, <2>3 DEF Abs, ReplyThreshold
  <2>5. press # "waiting"
    BY <2>4, <2>3 DEF GestureInv, PressInv, LockDistance, ReplyThreshold
  <2>6. acted \cap {"menu", "navigate"} = {} /\ contact.moved
    BY <2>1, <2>2 DEF GestureInv, ActedInv, SwipesInv
  <2>7. QED
    BY <2>2, <2>4, <2>5, <2>6
<1>5. ASSUME answers, navigates PROVE "back" \in acted
  <2>1. swipe.x <= -ReplyThreshold
    <3>1. reply # NoSwipe /\ reply.x <= -ReplyThreshold
      BY <1>4, <1>5
    <3>2. reply.x = IF swipe.x > 0 THEN 0 ELSE swipe.x
      BY <3>1 DEF GestureInv, SwipesInv
    <3>3. swipe.x \in Int
      BY DEF GestureInv, GestureTypes, Swipes
    <3>4. QED
      BY <3>1, <3>2, <3>3 DEF ReplyThreshold
  <2>2. pane # "conversation"
    BY <1>5, <2>1 DEF Committed, CorrectDirection, ReplyThreshold, GestureInv, GestureTypes, Swipes
  <2>3. QED
    BY <1>4, <1>5, <2>2 DEF GestureInv, SwipesInv
<1>6. navigates => "swipe" \in suppress
  BY DEF Committed, GestureInv, SwipesInv
<1>7. "reply" \in acted /\ "back" \notin acted => ~navigates
  <2>1. "reply" \in acted /\ "back" \notin acted => swipe = NoSwipe
    BY DEF GestureInv, ActedInv
  <2>2. QED
    BY <2>1, NoSwipeFact DEF Committed
<1> HIDE DEF answers, navigates
<1>8. GestureActsOnce'
  BY <1>1, <1>3, <1>4, <1>5, <1>7 DEF GestureInv, GestureActsOnce
<1>9. /\ "menu" \in acted' => "menu" \in acted
      /\ "navigate" \in acted' => "navigate" \in acted \/ navigates
      /\ "reply" \in acted' => "reply" \in acted \/ answers
      /\ "back" \in acted' <=> "back" \in acted
      /\ "click" \notin acted'
  BY <1>1, <1>3
<1>10. /\ "menu" \in acted' => "press" \in suppress'
       /\ "navigate" \in acted' => "swipe" \in suppress'
  BY <1>1, <1>2, <1>6, <1>9 DEF GestureInv, ActedInv
<1>11. "reply" \in acted' /\ "back" \notin acted' => press' # "waiting" /\ (InContact' => contact'.moved)
  <2>1. "reply" \in acted /\ "back" \notin acted => press # "waiting" /\ contact.moved
    BY <1>1 DEF GestureInv, ActedInv
  <2>2. QED
    BY <1>1, <1>2, <1>4, <1>9, <2>1
<1>12. QED
  BY <1>1, <1>8, <1>9, <1>10, <1>11 DEF ActedInv

LEMMA ActedStep ==
  ASSUME GestureInv, GesturesNext
  PROVE  ActedInv' /\ GestureActsOnce'
<1>1. CASE \E kind \in {"touch", "mouse"} : Down(kind)
  <2>1. acted' = {}
    BY <1>1 DEF Down
  <2>2. QED
    BY <2>1 DEF ActedInv, GestureActsOnce
<1>2. ASSUME NEW x \in Xs, NEW y \in Ys, Move(x, y) PROVE ActedInv' /\ GestureActsOnce'
  <2>1. /\ contact'.kind = contact.kind /\ (contact.moved => contact'.moved) /\ InContact
        /\ acted' = acted /\ suppress \subseteq suppress' /\ press' \in {press, "none"}
        /\ (reply = NoSwipe => reply' = NoSwipe) /\ (swipe = NoSwipe => swipe' = NoSwipe)
    BY <1>2 DEF Move, GestureInv, GestureTypes, Contacts
  <2>2. GestureActsOnce'
    BY <2>1 DEF GestureInv, GestureActsOnce
  <2>3. QED
    BY <2>1, <2>2 DEF GestureInv, ActedInv, InContact
<1>3. CASE \E fast \in BOOLEAN : Up(fast)
  BY <1>3, UpActs
<1>4. CASE SecondFinger \/ PointerTaken \/ Scroll \/ ReplyLost
  <2>1. /\ contact'.kind = contact.kind /\ contact.moved = contact'.moved
        /\ acted' = acted /\ suppress' = suppress /\ press' \in {press, "none"} /\ swipe' = swipe
        /\ (reply = NoSwipe => reply' = NoSwipe)
    BY <1>4 DEF SecondFinger, PointerTaken, Scroll, ReplyLost, GestureInv, GestureTypes, Contacts
  <2>2. GestureActsOnce'
    BY <2>1 DEF GestureInv, GestureActsOnce
  <2>3. QED
    BY <2>1, <2>2 DEF GestureInv, ActedInv, InContact
<1>5. CASE PressFires
  <2>1. /\ contact' = contact /\ reply' = NoSwipe /\ swipe' = swipe /\ press = "waiting" /\ press' = "fired"
        /\ suppress' = suppress \cup {"press"} /\ acted' = acted \cup {"menu"}
    BY <1>5 DEF PressFires, CancelReply
  <2>2. contact.kind = "touch"
    BY <2>1 DEF GestureInv, PressInv
  <2>3. "click" \notin acted /\ ("reply" \in acted => "back" \in acted)
    BY <2>1, <2>2 DEF GestureInv, ActedInv
  <2>4. GestureActsOnce'
    BY <2>1, <2>3 DEF GestureInv, GestureActsOnce
  <2>5. QED
    BY <2>1, <2>2, <2>3, <2>4 DEF GestureInv, ActedInv
<1>6. CASE ContextMenu
  <2>1. /\ contact'.kind = "none" /\ reply' = NoSwipe /\ swipe' = NoSwipe /\ press' = "none"
        /\ contact.kind # "mouse" /\ (InContact => ~contact.moved)
        /\ acted' = acted \cup (IF InContact THEN {"menu"} ELSE {})
    BY <1>6, NoContactFact DEF ContextMenu, CancelReply
  <2>2. ~InContact'
    BY <2>1 DEF InContact
  <2>3. InContact => "click" \notin acted /\ ("reply" \in acted => "back" \in acted)
    BY <2>1 DEF GestureInv, ActedInv, InContact
  <2>4. GestureActsOnce'
    BY <2>1, <2>3 DEF GestureInv, GestureActsOnce
  <2>5. QED
    BY <2>1, <2>2, <2>4 DEF ActedInv
<1>7. CASE Cancelled
  <2>1. /\ contact'.kind = "none" /\ reply' = NoSwipe /\ swipe' = NoSwipe /\ press' = "none"
        /\ acted' = acted
    BY <1>7, NoContactFact DEF Cancelled
  <2>2. QED
    BY <2>1 DEF GestureInv, GestureActsOnce, ActedInv, InContact
<1>8. CASE Click
  <2>1. /\ contact'.kind = "none" /\ contact.kind = "lifted" /\ reply' = reply /\ swipe' = swipe
        /\ press' = press
        /\ \/ acted' = acted
           \/ suppress = {} /\ acted' = acted \cup {"click"}
    BY <1>8, NoContactFact DEF Click
  <2>2. reply = NoSwipe /\ swipe = NoSwipe /\ press # "waiting"
    BY <2>1 DEF GestureInv, SwipesInv, PressInv, InContact
  <2>3. acted' # acted => acted \cap {"menu", "navigate"} = {}
    BY <2>1 DEF GestureInv, ActedInv
  <2>4. GestureActsOnce'
    BY <2>1, <2>3 DEF GestureInv, GestureActsOnce
  <2>5. QED
    BY <2>1, <2>2, <2>4 DEF ActedInv, InContact
<1>9. CASE ChooseAction \/ DismissMenu \/ SwallowEnds \/ \E x \in {-1, 1} : Wheel(x)
  <2>1. UNCHANGED <<contact, press, reply, swipe, suppress, acted>>
    BY <1>9 DEF ChooseAction, DismissMenu, SwallowEnds, Wheel
  <2>2. QED
    BY <2>1 DEF GestureInv, GestureActsOnce, ActedInv, InContact
<1>10. CASE Back
  <2>1. UNCHANGED <<contact, press, reply, swipe, suppress>> /\ acted' = acted \cup {"back"}
    BY <1>10 DEF Back
  <2>2. QED
    BY <2>1 DEF GestureInv, GestureActsOnce, ActedInv, InContact
<1>11. QED
  BY <1>1, <1>2, <1>3, <1>4, <1>5, <1>6, <1>7, <1>8, <1>9, <1>10 DEF GesturesNext

\* What the recognisers know agrees with what the contact has done.
THEOREM GestureInvariant == GesturesSpec => []GestureInv
<1>1. GestureInv /\ UNCHANGED gestureVars => GestureInv'
  BY DEF GestureInv, GestureTypes, SwipesInv, PressInv, ActedInv, GestureActsOnce, InContact, gestureVars
<1>2. GestureInv /\ GesturesNext => GestureInv'
  BY GestureTypesStep, SwipesStep, PressStep, ActedStep DEF GestureInv
<1>3. QED
  BY <1>1, <1>2, GesturesInitially, PTL DEF GesturesSpec

\* A contact that answers a message neither opens the menu nor changes the pane, and no
\* press or swipe ends in a click.
THEOREM AlwaysGestureActsOnce == GesturesSpec => []GestureActsOnce
BY GestureInvariant, PTL DEF GestureInv

-----------------------------------------------------------------------------
(* MediaViewer.  ViewerReleases says what is given back in the end;        *)
(* ReleaseInv adds how far the giving back is: until the timer runs out    *)
(* the lease may still be held, and what is under way is not loaded.       *)

Drags == {[axis |-> "none"], [axis |-> "pending"], [axis |-> "horizontal"]}
Dismissals == Drags \cup {[axis |-> "vertical"]}

ViewerTypes ==
  /\ open \in BOOLEAN /\ opening \in 0 .. MaxOpenings /\ (open => opening > 0)
  /\ index \in Items /\ zoomed \in BOOLEAN
  /\ down \subseteq {1, 2} /\ onImage \subseteq down /\ drag \in Drags /\ dismiss \in Dismissals
  /\ cache \in Entries /\ pending \cup urls \subseteq Items \X (1 .. MaxOpenings)

ReleaseInv ==
  /\ \A u \in urls : open /\ u[2] = opening
  /\ open => \A i \in Items : /\ cache[i] = "ready" <=> <<i, opening>> \in urls
                              /\ <<i, opening>> \in pending => cache[i] = "none"
  /\ open => ~exitTimer /\ ~released /\ ~exited
  /\ ~open /\ ~exitTimer /\ lease # "none" => released
  /\ released /\ lease = "acquired" => exited

\* What a contact may still do after what it has done.
ActsInv ==
  /\ 1 \notin down => drag = NoDrag /\ dismiss = NoDrag
  /\ dismiss.axis = "vertical" => drag = NoDrag
  /\ viewerActed \in {{}, {"pinch"}, {"turn"}, {"close"}}
  /\ "pinch" \in viewerActed => drag = NoDrag /\ dismiss = NoDrag
  /\ "turn" \in viewerActed => 1 \notin down
  /\ "close" \in viewerActed => ~open

ViewerInv == ViewerTypes /\ ReleaseInv /\ ActsInv

LEMMA ViewerConstants ==
  /\ MediaCount \in Nat \ {0} /\ Video \subseteq 1 .. MediaCount
  /\ PlacesX \subseteq Int /\ PlacesY \subseteq Nat /\ MaxOpenings \in Nat /\ MaxTouches \in Nat
BY MediaViewerAssumption

LEMMA ViewerInitially == ViewerInit => ViewerInv
<1> SUFFICES ASSUME ViewerInit PROVE ViewerInv
  OBVIOUS
<1> USE ViewerConstants DEF ViewerInit
<1>1. ViewerTypes
  <2>1. opening \in 0 .. MaxOpenings /\ index \in Items
    BY DEF Items
  <2>2. cache \in Entries /\ pending \cup urls \subseteq Items \X (1 .. MaxOpenings)
    BY DEF Entries
  <2>3. drag \in Drags /\ dismiss \in Dismissals
    BY DEF NoDrag, Drags, Dismissals
  <2>4. /\ open \in BOOLEAN /\ ~open /\ zoomed \in BOOLEAN /\ down \subseteq {1, 2} /\ onImage \subseteq down
    OBVIOUS
  <2>5. QED
    BY <2>1, <2>2, <2>3, <2>4 DEF ViewerTypes
<1>2. ReleaseInv
  BY DEF ReleaseInv
<1>3. ActsInv
  BY DEF ActsInv, NoDrag
<1>4. QED
  BY <1>1, <1>2, <1>3 DEF ViewerInv

-----------------------------------------------------------------------------
(* What is given back: the media and the full screen.                      *)

\* A fetch adds to what is under way only what is not loaded.
LEMMA FetchKeeps ==
  ASSUME ViewerTypes, NEW i \in Items, NEW n \in 1 .. MaxOpenings, cache' \in Entries, Fetch(i, n)
  PROVE  /\ pending' \subseteq Items \X (1 .. MaxOpenings) /\ pending \subseteq pending'
         /\ \A p \in pending' \ pending : cache'[p[1]] = "none" /\ p[2] = n
<1>1. Needed(i) \subseteq Items
  BY ViewerConstants DEF Needed, Image, Items
<1>2. pending' = pending \cup {<<m, n>> : m \in {k \in Needed(i) : cache'[k] = "none"}}
  BY DEF Fetch
<1>3. QED
  BY <1>1, <1>2 DEF ViewerTypes

LEMMA ReleaseOpen ==
  ASSUME ViewerTypes, ReleaseInv, NEW i \in Items, OpenViewer(i)
  PROVE  ReleaseInv'
<1>1. /\ open' = TRUE /\ opening' = opening + 1 /\ cache' = [n \in Items |-> "none"]
      /\ released' = FALSE /\ exited' = FALSE /\ urls' = urls /\ exitTimer' = exitTimer
      /\ ~open /\ ~exitTimer
  BY DEF OpenViewer
<1>2. urls = {}
  BY <1>1 DEF ReleaseInv
<1>3. \A k \in Items : cache'[k] = "none"
  BY <1>1
<1>4. QED
  BY <1>1, <1>2, <1>3 DEF ReleaseInv

LEMMA ReleaseLoaded ==
  ASSUME ViewerTypes, ReleaseInv, NEW f \in pending, Resolved(f[1], f[2]) \/ NotResolved(f[1], f[2])
  PROVE  ReleaseInv'
<1>1. PICK i \in Items, n \in 1 .. MaxOpenings : f = <<i, n>>
  BY DEF ViewerTypes
<1>2. f[1] = i /\ f[2] = n
  BY <1>1
<1>3. /\ pending' = pending \ {<<i, n>>} /\ <<i, n>> \in pending /\ open' = open /\ opening' = opening
      /\ UNCHANGED <<lease, released, exited, exitTimer>>
  BY <1>2 DEF Resolved, NotResolved
<1>4. CASE ~(open /\ n = opening)
  <2>1. urls' = urls /\ cache' = cache
    BY <1>2, <1>4 DEF Resolved, NotResolved, Register
  <2>2. QED
    BY <1>3, <2>1 DEF ReleaseInv
<1>5. CASE open /\ n = opening
  <2>1. cache[i] = "none"
    BY <1>3, <1>5 DEF ReleaseInv
  <2>2. \/ cache' = [cache EXCEPT ![i] = "ready"] /\ urls' = urls \cup {<<i, n>>}
        \/ cache' = [cache EXCEPT ![i] = "failed"] /\ urls' = urls
    BY <1>2, <1>5 DEF Resolved, NotResolved, Register
  <2>3. \A u \in urls' : open' /\ u[2] = opening'
    BY <1>3, <1>5, <2>2 DEF ReleaseInv
  <2>4. ASSUME NEW k \in Items
        PROVE  /\ cache'[k] = "ready" <=> <<k, opening>> \in urls'
               /\ <<k, opening>> \in pending' => cache'[k] = "none"
    <3>1. CASE k = i
      BY <1>3, <1>5, <2>1, <2>2, <3>1 DEF ReleaseInv, ViewerTypes, Entries
    <3>2. CASE k # i
      <4>1. cache'[k] = cache[k] /\ (<<k, opening>> \in urls' <=> <<k, opening>> \in urls)
        BY <2>2, <3>2 DEF ViewerTypes, Entries
      <4>2. QED
        BY <1>3, <1>5, <4>1 DEF ReleaseInv
    <3>3. QED
      BY <3>1, <3>2
  <2>5. QED
    BY <1>3, <2>3, <2>4 DEF ReleaseInv
<1>6. QED
  BY <1>4, <1>5

\* However the viewer ends, its URLs go at once and the full screen with the timer.
LEMMA ReleaseEnd ==
  ASSUME ReleaseInv, open, Unmount, KeepFullscreen \/ ReleaseFullscreen
  PROVE  ReleaseInv'
<1>1. open' = FALSE /\ exitTimer' = TRUE /\ urls' = {}
  BY DEF ReleaseInv, Unmount
<1>2. released' /\ lease' = "acquired" => exited'
  <2>1. CASE KeepFullscreen
    BY <2>1 DEF ReleaseInv, KeepFullscreen
  <2>2. CASE ReleaseFullscreen
    BY <2>2 DEF ReleaseFullscreen, ExitIfReleased
  <2>3. QED
    BY <2>1, <2>2
<1>3. QED
  BY <1>1, <1>2 DEF ReleaseInv

LEMMA ReleaseShown ==
  ASSUME ViewerTypes, ReleaseInv, open, NEW i \in Items, ShowMedia(i),
         UNCHANGED <<open, opening, urls, lease, released, exited, exitTimer>>
  PROVE  ReleaseInv'
<1>1. opening \in 1 .. MaxOpenings /\ cache' = cache /\ cache' \in Entries /\ Fetch(i, opening)
  BY ViewerConstants DEF ShowMedia, ViewerTypes
<1>2. \A p \in pending' \ pending : cache'[p[1]] = "none" /\ p[2] = opening
  BY <1>1, FetchKeeps
<1>3. ASSUME NEW k \in Items, <<k, opening>> \in pending' PROVE cache[k] = "none"
  BY <1>1, <1>2, <1>3 DEF ReleaseInv
<1>4. QED
  BY <1>1, <1>3 DEF ReleaseInv

LEMMA ReleaseKept ==
  ASSUME ReleaseInv,
         UNCHANGED <<open, opening, cache, pending, urls, lease, released, exited, exitTimer>>
  PROVE  ReleaseInv'
BY DEF ReleaseInv

LEMMA ReleaseStep ==
  ASSUME ViewerTypes, ReleaseInv, ViewerNext
  PROVE  ReleaseInv'
<1>1. CASE \E i \in Items : OpenViewer(i)
  BY <1>1, ReleaseOpen
<1>2. CASE \E f \in pending : Resolved(f[1], f[2]) \/ NotResolved(f[1], f[2])
  BY <1>2, ReleaseLoaded
<1>3. ASSUME NEW i \in Items, Turn(i) PROVE ReleaseInv'
  BY <1>3, ReleaseShown DEF Turn
<1>4. CASE CloseViewer \/ ItemGone
  BY <1>4, ReleaseEnd DEF CloseViewer, ItemGone
<1>5. CASE ExitTimer
  BY <1>5 DEF ExitTimer, ReleaseInv, ReleaseFullscreen, ExitIfReleased
<1>6. CASE FullscreenAnswered
  BY <1>6 DEF FullscreenAnswered, ReleaseInv, ExitIfReleased
<1>7. CASE Pinch \/ TapForgotten \/ \E reset \in BOOLEAN : Zoom(reset)
  BY <1>7, ReleaseKept DEF Pinch, TapForgotten, Zoom
<1>8. CASE \E p \in {1, 2}, image \in BOOLEAN : FingerDown(p, image)
  BY <1>8, ReleaseKept DEF FingerDown
<1>9. CASE \E x \in PlacesX, y \in PlacesY : FingerMoves(x, y)
  BY <1>9, ReleaseKept DEF FingerMoves
<1>10. CASE \E p \in {1, 2} : PointerCancel(p) \/ LostCapture(p)
  BY <1>10, ReleaseKept DEF PointerCancel, LostCapture
<1>11. ASSUME NEW p \in {1, 2}, NEW fast \in BOOLEAN, NEW touch \in BOOLEAN, FingerUp(p, fast, touch)
       PROVE  ReleaseInv'
  <2>1. CASE Dismissed(p, fast)
    BY <1>11, <2>1, ReleaseEnd DEF FingerUp
  <2>2. CASE ~Dismissed(p, fast)
    <3>1. open /\ UNCHANGED <<open, opening, urls, exitTimer, lease, released, exited>>
      BY <1>11, <2>2 DEF FingerUp, KeepFullscreen
    <3>2. \/ \E i \in IF p = 1 THEN NextPage(fast) ELSE {} : ShowMedia(i)
          \/ UNCHANGED <<cache, pending>>
      BY <1>11, <2>2 DEF FingerUp, SamePage
    <3>3. (IF p = 1 THEN NextPage(fast) ELSE {}) \subseteq Items
      BY DEF NextPage
    <3>4. QED
      BY <3>1, <3>2, <3>3, ReleaseShown, ReleaseKept
  <2>3. QED
    BY <2>1, <2>2
<1>12. QED
  BY <1>1, <1>2, <1>3, <1>4, <1>5, <1>6, <1>7, <1>8, <1>9, <1>10, <1>11 DEF ViewerNext

-----------------------------------------------------------------------------
(* One thing at a time: the types of what the pointers do, and ActsInv.    *)

LEMMA TrackTypes ==
  ASSUME ViewerTypes, NEW x, NEW y
  PROVE  /\ TrackDismiss(x, y) \in Dismissals
         /\ TrackDrag(Dismissing(drag, x, y), x, y) \in Drags
BY DEF TrackDismiss, TrackDrag, Dismissing, ViewerTypes, Drags, Dismissals, NoDrag

\* A drag that is settled as vertical is the dismissal's, not the carousel's.
LEMMA TrackActs ==
  ASSUME ViewerTypes, ActsInv, NEW x \in Int, NEW y \in Nat
  PROVE  /\ TrackDismiss(x, y).axis = "vertical" => TrackDrag(Dismissing(drag, x, y), x, y) = NoDrag
         /\ drag = NoDrag => TrackDrag(Dismissing(drag, x, y), x, y) = NoDrag
         /\ dismiss = NoDrag => TrackDismiss(x, y) = NoDrag
<1>1. CASE TrackDismiss(x, y).axis = "vertical" /\ dismiss.axis = "pending"
  BY <1>1 DEF TrackDrag, Dismissing, NoDrag
<1>2. CASE TrackDismiss(x, y).axis = "vertical" /\ dismiss.axis # "pending"
  <2>1. dismiss.axis = "vertical"
    <3>1. TrackDismiss(x, y) = dismiss
      BY <1>2 DEF TrackDismiss
    <3>2. QED
      BY <1>2, <3>1
  <2>2. drag = NoDrag /\ drag.axis # "pending" /\ dismiss # NoDrag
    BY <2>1 DEF ActsInv, NoDrag
  <2>3. Dismissing(drag, x, y) = drag
    BY <2>1 DEF Dismissing
  <2>4. TrackDrag(drag, x, y) = drag
    BY <2>2 DEF TrackDrag
  <2>5. QED
    BY <2>2, <2>3, <2>4
<1>3. CASE TrackDismiss(x, y).axis # "vertical"
  BY <1>3 DEF TrackDrag, Dismissing, TrackDismiss, NoDrag
<1>4. QED
  BY <1>1, <1>2, <1>3

LEMMA ShowActs ==
  ASSUME NEW i, ShowMedia(i)
  PROVE  index' = i /\ zoomed' = FALSE /\ onImage' = {} /\ drag' = NoDrag
BY DEF ShowMedia

\* Types.
LEMMA TypesOpen ==
  ASSUME ViewerTypes, NEW i \in Items, OpenViewer(i)
  PROVE  ViewerTypes'
<1>1. opening' \in 1 .. MaxOpenings /\ open' = TRUE /\ index' = i /\ zoomed' = FALSE
      /\ drag' = NoDrag /\ dismiss' = NoDrag /\ down' = {} /\ onImage' = {} /\ urls' = urls
  BY ViewerConstants DEF OpenViewer, ViewerTypes
<1>2. cache' \in Entries
  BY DEF OpenViewer, Entries
<1>3. pending' \subseteq Items \X (1 .. MaxOpenings)
  <2>1. opening + 1 \in 1 .. MaxOpenings /\ Fetch(i, opening + 1)
    BY ViewerConstants DEF OpenViewer, ViewerTypes
  <2>2. QED
    BY <1>2, <2>1, FetchKeeps
<1>4. NoDrag \in Drags /\ NoDrag \in Dismissals
  BY DEF Drags, Dismissals, NoDrag
<1>5. pending' \cup urls' \subseteq Items \X (1 .. MaxOpenings)
  BY <1>1, <1>3 DEF ViewerTypes
<1>6. opening' \in 0 .. MaxOpenings /\ opening' > 0
  BY <1>1, ViewerConstants
<1>7. QED
  BY <1>1, <1>2, <1>4, <1>5, <1>6 DEF ViewerTypes

LEMMA TypesShown ==
  ASSUME ViewerTypes, open, NEW i \in Items, ShowMedia(i), UNCHANGED <<opening, open, urls>>,
         down' \subseteq {1, 2}, dismiss' \in Dismissals
  PROVE  ViewerTypes'
<1>1. opening \in 1 .. MaxOpenings /\ cache' = cache /\ cache' \in Entries /\ Fetch(i, opening)
  BY ViewerConstants DEF ShowMedia, ViewerTypes
<1>2. pending' \subseteq Items \X (1 .. MaxOpenings)
  BY <1>1, FetchKeeps
<1>3. index' = i /\ zoomed' = FALSE /\ onImage' = {} /\ drag' \in Drags
  BY ShowActs DEF Drags, NoDrag
<1>4. pending' \cup urls' \subseteq Items \X (1 .. MaxOpenings)
  BY <1>2 DEF ViewerTypes
<1>5. QED
  BY <1>1, <1>3, <1>4 DEF ViewerTypes

LEMMA TypesLoaded ==
  ASSUME ViewerTypes, NEW f \in pending, Resolved(f[1], f[2]) \/ NotResolved(f[1], f[2])
  PROVE  ViewerTypes'
<1>1. PICK i \in Items, n \in 1 .. MaxOpenings : f = <<i, n>>
  BY DEF ViewerTypes
<1>2. f[1] = i /\ f[2] = n
  BY <1>1
<1>3. pending' \cup urls' \subseteq pending \cup urls \cup {<<i, n>>}
  BY <1>2 DEF Resolved, NotResolved, Register
<1>4. cache' \in Entries
  BY <1>2 DEF Resolved, NotResolved, Register, ViewerTypes, Entries
<1>5. UNCHANGED <<open, opening, index, zoomed, down, onImage, drag, dismiss>>
  BY DEF Resolved, NotResolved
<1>6. QED
  BY <1>3, <1>4, <1>5 DEF ViewerTypes

\* What all steps but those above leave alone.
LEMMA TypesKept ==
  ASSUME ViewerTypes, UNCHANGED <<opening, index>>, open' \in BOOLEAN, open' => open,
         zoomed' \in BOOLEAN, down' \subseteq {1, 2}, onImage' \subseteq down', drag' \in Drags,
         dismiss' \in Dismissals, cache' \in Entries, pending' = pending, urls' \subseteq urls
  PROVE  ViewerTypes'
BY DEF ViewerTypes

LEMMA TypesUnmount ==
  ASSUME ViewerTypes, Unmount, UNCHANGED <<opening, index, pending>>, down' \subseteq {1, 2}
  PROVE  ViewerTypes'
<1>1. cache' \in Entries /\ urls' \subseteq urls /\ drag' \in Drags /\ dismiss' \in Dismissals
  BY DEF Unmount, Entries, Drags, Dismissals, NoDrag
<1>2. open' = FALSE /\ zoomed' = FALSE /\ onImage' = {}
  BY DEF Unmount
<1>3. QED
  BY <1>1, <1>2, TypesKept

LEMMA TypesUp ==
  ASSUME ViewerTypes, NEW p \in {1, 2}, NEW fast, NEW touch, FingerUp(p, fast, touch)
  PROVE  ViewerTypes'
<1>1. down' \subseteq {1, 2} /\ down' = down \ {p} /\ opening' = opening /\ open
  BY DEF FingerUp, ViewerTypes
<1>2. CASE Dismissed(p, fast)
  BY <1>1, <1>2, TypesUnmount DEF FingerUp, SamePageGone
<1>3. CASE ~Dismissed(p, fast)
  <2>1. open' = open /\ urls' = urls /\ dismiss' = NoDrag /\ NoDrag \in Dismissals /\ NoDrag \in Drags
    BY <1>3 DEF FingerUp, NoDrag, Drags, Dismissals
  <2>2. ASSUME NEW i \in Items, ShowMedia(i) PROVE ViewerTypes'
    BY <1>1, <2>1, <2>2, TypesShown
  <2>3. CASE /\ zoomed' \in BOOLEAN /\ onImage' = onImage \ {p} /\ drag' \in {drag, NoDrag}
             /\ SamePage
    BY <1>1, <2>1, <2>3, TypesKept DEF SamePage, ViewerTypes
  <2>4. (IF p = 1 THEN NextPage(fast) ELSE {}) \subseteq Items
    BY DEF NextPage
  <2>5. \/ \E i \in IF p = 1 THEN NextPage(fast) ELSE {} : ShowMedia(i)
        \/ /\ zoomed' = (zoomed \/ (touch /\ p \in onImage /\ ~zoomed /\ tapped))
           /\ onImage' = onImage \ {p} /\ drag' \in {drag, NoDrag} /\ SamePage
    BY <1>3 DEF FingerUp
  <2>6. QED
    BY <2>2, <2>3, <2>4, <2>5
<1>4. QED
  BY <1>2, <1>3

LEMMA TypesStep ==
  ASSUME ViewerTypes, ViewerNext
  PROVE  ViewerTypes'
<1>1. CASE \E i \in Items : OpenViewer(i)
  BY <1>1, TypesOpen
<1>2. CASE \E f \in pending : Resolved(f[1], f[2]) \/ NotResolved(f[1], f[2])
  BY <1>2, TypesLoaded
<1>3. ASSUME NEW i \in Items, Turn(i) PROVE ViewerTypes'
  BY <1>3, TypesShown DEF Turn, ViewerTypes
<1>4. CASE CloseViewer \/ ItemGone
  BY <1>4, TypesUnmount DEF CloseViewer, ItemGone, ViewerTypes
<1>5. CASE ExitTimer \/ FullscreenAnswered \/ TapForgotten
  <2>1. UNCHANGED <<open, opening, index, zoomed, down, onImage, drag, dismiss, cache, pending, urls>>
    BY <1>5 DEF ExitTimer, FullscreenAnswered, TapForgotten
  <2>2. QED
    BY <2>1 DEF ViewerTypes
<1>6. CASE Pinch \/ \E reset \in BOOLEAN : Zoom(reset)
  BY <1>6 DEF Pinch, Zoom, ViewerTypes, Drags, NoDrag
<1>7. ASSUME NEW p \in {1, 2}, NEW image \in BOOLEAN, FingerDown(p, image) PROVE ViewerTypes'
  <2>1. drag' \in Drags /\ dismiss' \in Dismissals
    BY <1>7 DEF FingerDown, ViewerTypes, Drags, Dismissals, NoDrag, Undecided
  <2>2. down' \subseteq {1, 2} /\ onImage' \subseteq down'
    BY <1>7 DEF FingerDown, ViewerTypes
  <2>3. UNCHANGED <<open, opening, index, zoomed, cache, pending, urls>>
    BY <1>7 DEF FingerDown
  <2>4. QED
    BY <2>1, <2>2, <2>3 DEF ViewerTypes
<1>8. ASSUME NEW x \in PlacesX, NEW y \in PlacesY, FingerMoves(x, y) PROVE ViewerTypes'
  <2>1. drag' \in Drags /\ dismiss' \in Dismissals
    BY <1>8, TrackTypes DEF FingerMoves, Drags, NoDrag
  <2>2. zoomed' \in BOOLEAN
    BY <1>8 DEF FingerMoves, ViewerTypes
  <2>3. UNCHANGED <<open, opening, index, down, onImage, cache, pending, urls>>
    BY <1>8 DEF FingerMoves
  <2>4. QED
    BY <2>1, <2>2, <2>3 DEF ViewerTypes
<1>9. ASSUME NEW p \in {1, 2}, PointerCancel(p) \/ LostCapture(p) PROVE ViewerTypes'
  BY <1>9 DEF PointerCancel, LostCapture, ViewerTypes, Drags, Dismissals, NoDrag
<1>10. CASE \E p \in {1, 2}, fast, touch \in BOOLEAN : FingerUp(p, fast, touch)
  BY <1>10, TypesUp
<1>11. QED
  BY <1>1, <1>2, <1>3, <1>4, <1>5, <1>6, <1>7, <1>8, <1>9, <1>10 DEF ViewerNext

LEMMA ActsUp ==
  ASSUME ViewerTypes, ActsInv, NEW p \in {1, 2}, NEW fast, NEW touch, FingerUp(p, fast, touch)
  PROVE  ActsInv'
<1> DEFINE pages == IF p = 1 THEN NextPage(fast) ELSE {}
<1>1. /\ open /\ p \in down /\ down' = down \ {p}
      /\ viewerActed' = viewerActed \cup (IF Dismissed(p, fast) THEN {"close"} ELSE {})
                                    \cup (IF pages # {} THEN {"turn"} ELSE {})
  BY DEF FingerUp
<1>2. CASE Dismissed(p, fast)
  <2>1. p = 1 /\ dismiss.axis = "vertical" /\ dismiss # NoDrag
    BY <1>2 DEF Dismissed, NoDrag
  <2>2. drag = NoDrag /\ pages = {} /\ viewerActed = {}
    <3>1. drag = NoDrag
      BY <2>1 DEF ActsInv
    <3>2. pages = {}
      BY <3>1 DEF NextPage, NoDrag
    <3>3. viewerActed = {}
      BY <1>1, <2>1 DEF ActsInv
    <3>4. QED
      BY <3>1, <3>2, <3>3
  <2>3. open' = FALSE /\ drag' = NoDrag /\ dismiss' = NoDrag
    BY <1>2 DEF FingerUp, Unmount
  <2>4. QED
    BY <1>1, <1>2, <2>2, <2>3 DEF ActsInv, NoDrag
<1>3. CASE ~Dismissed(p, fast) /\ pages # {}
  <2>1. p = 1 /\ drag.axis = "horizontal" /\ drag # NoDrag
    BY <1>3 DEF NextPage, NoDrag
  <2>2. viewerActed = {}
    BY <1>1, <2>1 DEF ActsInv
  <2>3. dismiss' = NoDrag /\ drag' = NoDrag
    BY <1>3, ShowActs DEF FingerUp
  <2>4. QED
    BY <1>1, <1>3, <2>1, <2>2, <2>3 DEF ActsInv, NoDrag
<1>4. CASE ~Dismissed(p, fast) /\ pages = {}
  <2>1. dismiss' = NoDrag /\ drag' \in {drag, NoDrag} /\ (p = 1 => drag' = NoDrag) /\ open' = open
    BY <1>4 DEF FingerUp
  <2>2. viewerActed' = viewerActed
    BY <1>1, <1>4
  <2>3. QED
    BY <1>1, <2>1, <2>2 DEF ActsInv, NoDrag
<1>5. QED
  BY <1>2, <1>3, <1>4

\* What neither acts nor begins a drag.
LEMMA ActsKept ==
  ASSUME ActsInv, drag' \in {drag, NoDrag}, dismiss' \in {dismiss, NoDrag},
         down' \subseteq down, 1 \in down \ down' => drag' = NoDrag /\ dismiss' = NoDrag,
         open' \in {open, FALSE}, UNCHANGED viewerActed
  PROVE  ActsInv'
<1>1. /\ 1 \notin down => drag = NoDrag /\ dismiss = NoDrag
      /\ dismiss.axis = "vertical" => drag = NoDrag
      /\ "pinch" \in viewerActed => drag = NoDrag /\ dismiss = NoDrag
  BY DEF ActsInv
<1>2. NoDrag.axis # "vertical"
  BY DEF NoDrag
<1>3. /\ 1 \notin down' => drag' = NoDrag /\ dismiss' = NoDrag
      /\ dismiss'.axis = "vertical" => drag' = NoDrag
      /\ "pinch" \in viewerActed' => drag' = NoDrag /\ dismiss' = NoDrag
  BY <1>1, <1>2
<1>4. /\ viewerActed' \in {{}, {"pinch"}, {"turn"}, {"close"}}
      /\ "turn" \in viewerActed' => 1 \notin down'
  BY DEF ActsInv
<1>5. "close" \in viewerActed' => ~open'
  <2>1. CASE open' = open
    BY <2>1 DEF ActsInv
  <2>2. CASE open' = FALSE
    BY <2>2
  <2>3. QED
    BY <2>1, <2>2
<1>6. QED
  BY <1>3, <1>4, <1>5 DEF ActsInv

LEMMA ActsStep ==
  ASSUME ViewerTypes, ActsInv, ViewerNext
  PROVE  ActsInv'
<1>1. ASSUME NEW i \in Items, OpenViewer(i) PROVE ActsInv'
  BY <1>1 DEF OpenViewer, ActsInv, NoDrag
<1>2. CASE \E f \in pending : Resolved(f[1], f[2]) \/ NotResolved(f[1], f[2])
  BY <1>2, ActsKept DEF Resolved, NotResolved
<1>3. ASSUME NEW i \in Items, Turn(i) PROVE ActsInv'
  BY <1>3, ActsKept, ShowActs DEF Turn
<1>4. CASE CloseViewer \/ ItemGone
  BY <1>4, ActsKept DEF CloseViewer, ItemGone, Unmount
<1>5. CASE ExitTimer \/ FullscreenAnswered \/ TapForgotten
  BY <1>5, ActsKept DEF ExitTimer, FullscreenAnswered, TapForgotten
<1>6. CASE Pinch \/ \E reset \in BOOLEAN : Zoom(reset)
  BY <1>6, ActsKept DEF Pinch, Zoom
<1>7. ASSUME NEW p \in {1, 2}, NEW image \in BOOLEAN, FingerDown(p, image) PROVE ActsInv'
  <2>1. CASE p = 1
    <3>1. down = {} /\ onImage = {} /\ down' = {1} /\ open' = open /\ open
      BY <1>7, <2>1 DEF FingerDown, ViewerTypes
    <3>2. onImage' # {1, 2}
      BY <1>7, <2>1, <3>1 DEF FingerDown
    <3>3. viewerActed' = {} /\ drag = NoDrag /\ dismiss' \in {Undecided, NoDrag}
      BY <1>7, <3>1, <3>2 DEF FingerDown, ActsInv
    <3>4. QED
      BY <3>1, <3>3 DEF ActsInv, NoDrag, Undecided
  <2>2. CASE p = 2
    <3>1. down = {1} /\ down' = {1, 2} /\ dismiss' = NoDrag /\ open /\ open' = open
      BY <1>7, <2>2 DEF FingerDown
    <3>2. CASE image
      <4>1. drag' = NoDrag /\ viewerActed' \subseteq viewerActed \cup {"pinch"}
            /\ viewerActed \subseteq viewerActed'
        BY <1>7, <2>2, <3>1, <3>2 DEF FingerDown
      <4>2. viewerActed \in {{}, {"pinch"}}
        BY <3>1 DEF ActsInv
      <4>3. QED
        BY <3>1, <4>1, <4>2 DEF ActsInv, NoDrag
    <3>3. CASE ~image
      <4>1. onImage' = onImage /\ onImage # {1, 2} /\ drag' = drag
        BY <1>7, <2>2, <3>1, <3>3 DEF FingerDown, ViewerTypes
      <4>2. viewerActed' = viewerActed
        BY <1>7, <2>2, <3>1, <4>1 DEF FingerDown
      <4>3. QED
        BY <3>1, <4>1, <4>2 DEF ActsInv, NoDrag
    <3>4. QED
      BY <3>2, <3>3
  <2>3. QED
    BY <2>1, <2>2
<1>8. ASSUME NEW x \in PlacesX, NEW y \in PlacesY, FingerMoves(x, y) PROVE ActsInv'
  <2>1. dismiss' = TrackDismiss(x, y) /\ drag' \in {NoDrag, TrackDrag(Dismissing(drag, x, y), x, y)}
        /\ 1 \in down /\ UNCHANGED <<down, open, viewerActed>>
    BY <1>8 DEF FingerMoves
  <2>2. x \in Int /\ y \in Nat
    BY ViewerConstants
  <2>3. /\ dismiss'.axis = "vertical" => drag' = NoDrag
        /\ drag = NoDrag => drag' = NoDrag
        /\ dismiss = NoDrag => dismiss' = NoDrag
    BY <2>1, <2>2, TrackActs
  <2>4. QED
    BY <2>1, <2>3 DEF ActsInv
<1>9. ASSUME NEW p \in {1, 2}, PointerCancel(p) \/ LostCapture(p) PROVE ActsInv'
  BY <1>9, ActsKept DEF PointerCancel, LostCapture
<1>10. CASE \E p \in {1, 2}, fast, touch \in BOOLEAN : FingerUp(p, fast, touch)
  BY <1>10, ActsUp
<1>11. QED
  BY <1>1, <1>2, <1>3, <1>4, <1>5, <1>6, <1>7, <1>8, <1>9, <1>10 DEF ViewerNext

\* The viewer's types, ReleaseInv and ActsInv hold in every state.
THEOREM ViewerInvariant == ViewerSpec => []ViewerInv
<1>1. ViewerInv /\ UNCHANGED viewerVars => ViewerInv'
  BY DEF ViewerInv, ViewerTypes, ReleaseInv, ActsInv, viewerVars
<1>2. ViewerInv /\ [ViewerNext]_viewerVars => ViewerInv'
  BY <1>1, TypesStep, ReleaseStep, ActsStep DEF ViewerInv
<1>3. QED
  BY <1>2, ViewerInitially, PTL DEF ViewerSpec

\* However the viewer ends, whatever it had asked for is given back.
THEOREM AlwaysViewerReleases == ViewerSpec => []ViewerReleases
<1>1. ViewerInv => ViewerReleases
  BY DEF ViewerInv, ReleaseInv, ViewerReleases
<1>2. QED
  BY <1>1, ViewerInvariant, PTL

\* What the pointers do from down to up is one thing.
THEOREM AlwaysViewerActsOnce == ViewerSpec => []ViewerActsOnce
<1>1. ViewerInv => ViewerActsOnce
  <2> SUFFICES ASSUME ViewerInv PROVE Cardinality(viewerActed) <= 1
    BY DEF ViewerActsOnce
  <2>1. viewerActed = {} \/ \E what : viewerActed = {what}
    BY DEF ViewerInv, ActsInv
  <2>2. CASE viewerActed = {}
    BY <2>2, FS_EmptySet
  <2>3. ASSUME NEW what, viewerActed = {what} PROVE Cardinality(viewerActed) <= 1
    <3>1. Cardinality({what}) = 1
      BY FS_Singleton
    <3>2. QED
      BY <2>3, <3>1
  <2>4. QED
    BY <2>1, <2>2, <2>3
<1>2. QED
  BY <1>1, ViewerInvariant, PTL

-----------------------------------------------------------------------------
(* Captcha.  A stroke that has not been spoilt ends in a release, wherever *)
(* its calls are: Returned says that one is on its way, or that nothing is *)
(* pressed, and until then the finger that will send it is on the picture. *)

Phase == {"down", "move", "up"}

\* The last of the calls that press or release is a release, of those that the worker has
\* not carried out; without one the mouse is up.
Returned ==
  \/ \E j \in DOMAIN queue : queue[j] = "up"
  \/ /\ \A j \in DOMAIN queue : queue[j] # "down"
     /\ \/ \E j \in DOMAIN line : line[j] = "up" /\ \A k \in DOMAIN line : k > j => line[k] # "down"
        \/ ~mouseDown /\ \A j \in DOMAIN line : line[j] # "down"

\* A press that is made before the last release is answered spoils the stroke.
InOrder == \A j, k \in DOMAIN queue : j < k /\ queue[j] = "up" => queue[k] # "down"

StrokeInv ==
  /\ queue \in Seq(Phase) /\ line \in Seq(Phase) /\ fingers \in 0 .. 2
  /\ awaited => queue # <<>> /\ line # <<>> /\ line[Len(line)] = Head(queue)
  /\ mouseDown => captchaPointerDown
  /\ ~spoilt => InOrder
  /\ ~spoilt /\ onScreen => Returned \/ (pointerActive /\ fingers > 0)

LEMMA StrokeInitially == CaptchaInit => StrokeInv
<1> SUFFICES ASSUME CaptchaInit PROVE StrokeInv
  OBVIOUS
<1>1. queue = <<>> /\ line = <<>> /\ <<>> \in Seq(Phase) /\ DOMAIN queue = {} /\ DOMAIN line = {}
  BY EmptySeq DEF CaptchaInit
<1>2. Returned /\ InOrder
  BY <1>1 DEF Returned, InOrder, CaptchaInit
<1>3. QED
  BY <1>1, <1>2 DEF StrokeInv, CaptchaInit

\* Another call at the end of the chain.
LEMMA PutFact ==
  ASSUME StrokeInv, NEW phase \in Phase, Put(phase)
  PROVE  /\ queue' \in Seq(Phase) /\ Len(queue) \in Nat /\ Len(queue') = Len(queue) + 1
         /\ DOMAIN queue = 1 .. Len(queue) /\ DOMAIN queue' = 1 .. Len(queue) + 1
         /\ \A j \in DOMAIN queue : queue'[j] = queue[j]
         /\ queue'[Len(queue) + 1] = phase
         /\ queue # <<>> => Head(queue') = Head(queue)
<1>1. queue' = Append(queue, phase) /\ queue \in Seq(Phase)
  BY DEF Put, StrokeInv
<1>2. /\ queue' \in Seq(Phase) /\ Len(queue) \in Nat /\ Len(queue') = Len(queue) + 1
      /\ \A j \in 1 .. Len(queue) : queue'[j] = queue[j]
      /\ queue'[Len(queue) + 1] = phase
  BY <1>1, AppendProperties
<1>3. DOMAIN queue = 1 .. Len(queue) /\ DOMAIN queue' = 1 .. Len(queue) + 1
  BY <1>1, <1>2, LenProperties
<1>4. queue # <<>> => Head(queue') = Head(queue)
  BY <1>1, <1>2, EmptySeq
<1>5. QED
  BY <1>2, <1>3, <1>4

LEMMA StrokePut ==
  ASSUME StrokeInv, NEW phase \in {"move", "up"}, Put(phase), fingers' \in 0 .. 2,
         UNCHANGED <<onScreen, line, awaited, mouseDown, captchaPointerDown, spoilt, pointerActive>>,
         phase = "move" => fingers' = fingers
  PROVE  StrokeInv'
<1>1. /\ queue' \in Seq(Phase) /\ Len(queue) \in Nat
      /\ DOMAIN queue = 1 .. Len(queue) /\ DOMAIN queue' = 1 .. Len(queue) + 1
      /\ \A j \in DOMAIN queue : queue'[j] = queue[j]
      /\ queue'[Len(queue) + 1] = phase
      /\ queue # <<>> => Head(queue') = Head(queue)
  BY PutFact DEF Phase
<1>2. ~spoilt => InOrder'
  BY <1>1 DEF InOrder, StrokeInv
<1>3. Returned => Returned'
  <2>1. CASE \E j \in DOMAIN queue : queue[j] = "up"
    BY <1>1, <2>1 DEF Returned
  <2>2. CASE \A j \in DOMAIN queue : queue[j] # "down"
    BY <1>1, <2>2 DEF Returned
  <2>3. QED
    BY <2>1, <2>2 DEF Returned
<1>4. phase = "up" => Returned'
  BY <1>1 DEF Returned
<1>5. awaited' => queue' # <<>> /\ line' # <<>> /\ line'[Len(line')] = Head(queue')
  BY <1>1, EmptySeq DEF StrokeInv
<1>6. QED
  BY <1>1, <1>2, <1>3, <1>4, <1>5 DEF StrokeInv

LEMMA StrokeDown ==
  ASSUME StrokeInv, PointerDown
  PROVE  StrokeInv'
<1>1. /\ queue' \in Seq(Phase) /\ Len(queue) \in Nat
      /\ DOMAIN queue = 1 .. Len(queue) /\ DOMAIN queue' = 1 .. Len(queue) + 1
      /\ \A j \in DOMAIN queue : queue'[j] = queue[j]
      /\ queue'[Len(queue) + 1] = "down"
      /\ queue # <<>> => Head(queue') = Head(queue)
  BY PutFact DEF Phase, PointerDown
<1>2. /\ fingers' \in 0 .. 2 /\ fingers' > 0 /\ pointerActive' = TRUE
      /\ UNCHANGED <<onScreen, line, awaited, mouseDown, captchaPointerDown>>
  BY DEF PointerDown, StrokeInv, max
<1>3. ASSUME ~spoilt' PROVE InOrder'
  <2>1. CASE queue = <<>>
    BY <1>1, <2>1, EmptySeq DEF InOrder
  <2>2. CASE ~spoilt /\ ~Contains(queue, "up")
    BY <1>1, <2>2 DEF InOrder, Contains
  <2>3. QED
    BY <1>3, <2>1, <2>2 DEF PointerDown
<1>4. awaited' => queue' # <<>> /\ line' # <<>> /\ line'[Len(line')] = Head(queue')
  BY <1>1, <1>2, EmptySeq DEF StrokeInv
<1>5. QED
  BY <1>1, <1>2, <1>3, <1>4 DEF StrokeInv

LEMMA StrokeCall ==
  ASSUME StrokeInv, Call
  PROVE  StrokeInv'
<1>1. /\ queue # <<>> /\ queue' = queue /\ line' = Append(line, Head(queue)) /\ awaited' = TRUE
      /\ UNCHANGED <<fingers, onScreen, pointerActive, mouseDown, captchaPointerDown, spoilt>>
  BY DEF Call, app, max
<1>2. Head(queue) \in Phase /\ Head(queue) = queue[1] /\ 1 \in DOMAIN queue
  BY <1>1, HeadTailProperties, EmptySeq, LenProperties DEF StrokeInv
<1>3. /\ line' \in Seq(Phase) /\ Len(line) \in Nat /\ Len(line') = Len(line) + 1
      /\ \A j \in 1 .. Len(line) : line'[j] = line[j]
      /\ line'[Len(line) + 1] = Head(queue)
      /\ DOMAIN line = 1 .. Len(line) /\ DOMAIN line' = 1 .. Len(line) + 1
  BY <1>1, <1>2, AppendProperties, LenProperties DEF StrokeInv
<1>4. Returned => Returned'
  <2>1. CASE \E j \in DOMAIN queue : queue[j] = "up"
    BY <1>1, <2>1 DEF Returned
  <2>2. CASE \A j \in DOMAIN queue : queue[j] # "down"
    <3>1. line'[Len(line) + 1] # "down"
      BY <1>2, <1>3, <2>2
    <3>2. ASSUME NEW j \in DOMAIN line, line[j] = "up", \A k \in DOMAIN line : k > j => line[k] # "down"
          PROVE  Returned'
      <4>1. j \in DOMAIN line' /\ line'[j] = "up" /\ \A k \in DOMAIN line' : k > j => line'[k] # "down"
        BY <1>3, <3>1, <3>2
      <4>2. QED
        BY <1>1, <2>2, <4>1 DEF Returned
    <3>3. ASSUME \A j \in DOMAIN line : line[j] # "down", ~mouseDown PROVE Returned'
      BY <1>1, <1>3, <2>2, <3>1, <3>3 DEF Returned
    <3>4. ASSUME \E j \in DOMAIN queue : queue[j] = "up" PROVE Returned'
      BY <1>1, <3>4 DEF Returned
    <3>5. QED
      BY <3>2, <3>3, <3>4 DEF Returned
  <2>3. QED
    BY <2>1, <2>2 DEF Returned
<1>5. line' # <<>> /\ line'[Len(line')] = Head(queue')
  BY <1>1, <1>3, EmptySeq
<1>6. InOrder => InOrder'
  BY <1>1 DEF InOrder
<1>7. QED
  BY <1>1, <1>3, <1>4, <1>5, <1>6 DEF StrokeInv

\* The worker carries out the first of its calls: what that leaves to be returned.
LEMMA StrokeFact ==
  ASSUME StrokeInv, NEW phase \in Phase, Stroke(phase)
  PROVE  /\ mouseDown' => captchaPointerDown'
         /\ phase = "up" => ~mouseDown'
         /\ phase = "move" => mouseDown' = mouseDown
BY DEF Stroke, StrokeInv, Phase

LEMMA LineFact ==
  ASSUME StrokeInv, line # <<>>
  PROVE  /\ Head(line) \in Phase /\ Head(line) = line[1] /\ Tail(line) \in Seq(Phase)
         /\ Len(line) \in Nat \ {0} /\ DOMAIN line = 1 .. Len(line)
         /\ DOMAIN Tail(line) = 1 .. Len(line) - 1 /\ Len(Tail(line)) = Len(line) - 1
         /\ \A j \in 1 .. Len(line) - 1 : Tail(line)[j] = line[j + 1]
<1>1. line \in Seq(Phase) /\ Len(line) \in Nat \ {0} /\ DOMAIN line = 1 .. Len(line)
  BY EmptySeq, LenProperties DEF StrokeInv
<1>2. Tail(line) \in Seq(Phase) /\ Len(Tail(line)) = Len(line) - 1 /\ Head(line) \in Phase
      /\ \A j \in 1 .. Len(Tail(line)) : Tail(line)[j] = line[j + 1]
  BY <1>1, HeadTailProperties
<1>3. DOMAIN Tail(line) = 1 .. Len(line) - 1
  BY <1>1, <1>2, LenProperties
<1>4. QED
  BY <1>1, <1>2, <1>3

LEMMA QueueFact ==
  ASSUME StrokeInv, queue # <<>>
  PROVE  /\ Head(queue) \in Phase /\ Head(queue) = queue[1] /\ Tail(queue) \in Seq(Phase)
         /\ Len(queue) \in Nat \ {0} /\ DOMAIN queue = 1 .. Len(queue)
         /\ DOMAIN Tail(queue) = 1 .. Len(queue) - 1
         /\ \A j \in 1 .. Len(queue) - 1 : Tail(queue)[j] = queue[j + 1]
<1>1. queue \in Seq(Phase) /\ Len(queue) \in Nat \ {0} /\ DOMAIN queue = 1 .. Len(queue)
  BY EmptySeq, LenProperties DEF StrokeInv
<1>2. Tail(queue) \in Seq(Phase) /\ Len(Tail(queue)) = Len(queue) - 1 /\ Head(queue) \in Phase
      /\ \A j \in 1 .. Len(Tail(queue)) : Tail(queue)[j] = queue[j + 1]
  BY <1>1, HeadTailProperties
<1>3. DOMAIN Tail(queue) = 1 .. Len(queue) - 1
  BY <1>1, <1>2, LenProperties
<1>4. QED
  BY <1>1, <1>2, <1>3

\* The call under way is answered.
LEMMA StrokeAnswered ==
  ASSUME StrokeInv, line # <<>>, awaited, Len(line) = 1, Stroke(Head(line)), line' = Tail(line),
         queue' = Tail(queue), Settled(Head(queue)), awaited' = FALSE, onScreen' => onScreen,
         UNCHANGED <<spoilt, fingers>>
  PROVE  StrokeInv'
<1>1. queue # <<>> /\ Head(line) = Head(queue)
  BY LineFact DEF StrokeInv
<1>2. /\ mouseDown' => captchaPointerDown'
      /\ queue[1] = "up" => ~mouseDown'
      /\ queue[1] = "move" => mouseDown' = mouseDown
      /\ queue[1] \in Phase
  BY <1>1, LineFact, QueueFact, StrokeFact
<1>3. DOMAIN line' = {} /\ line' \in Seq(Phase) /\ line[1] = queue[1]
  BY <1>1, LineFact, QueueFact
<1>4. /\ DOMAIN queue' = 1 .. Len(queue) - 1 /\ DOMAIN queue = 1 .. Len(queue) /\ Len(queue) \in Nat \ {0}
      /\ \A j \in 1 .. Len(queue) - 1 : queue'[j] = queue[j + 1]
      /\ queue' \in Seq(Phase)
  BY <1>1, QueueFact
<1>5. ASSUME ~spoilt PROVE InOrder'
  BY <1>4, <1>5 DEF InOrder, StrokeInv
<1>6. ASSUME NEW j \in DOMAIN queue, queue[j] = "up", j # 1 PROVE Returned'
  <2>1. j - 1 \in DOMAIN queue' /\ queue'[j - 1] = "up"
    BY <1>4, <1>6
  <2>2. QED
    BY <2>1 DEF Returned
<1>7. ASSUME queue[1] = "up", InOrder PROVE Returned'
  <2>1. \A j \in DOMAIN queue' : queue'[j] # "down"
    BY <1>4, <1>7 DEF InOrder
  <2>2. QED
    BY <1>2, <1>3, <1>7, <2>1 DEF Returned
<1>8. ASSUME \A j \in DOMAIN queue : queue[j] # "down", queue[1] = "move", ~mouseDown PROVE Returned'
  <2>1. \A j \in DOMAIN queue' : queue'[j] # "down"
    BY <1>4, <1>8
  <2>2. QED
    BY <1>2, <1>3, <1>8, <2>1 DEF Returned
<1>9. ASSUME Returned, InOrder PROVE Returned'
  <2>1. 1 \in DOMAIN queue /\ DOMAIN line = {1}
    BY <1>4, LineFact
  <2>2. CASE \E j \in DOMAIN queue : queue[j] = "up"
    BY <1>6, <1>7, <1>9, <2>2
  <2>3. CASE queue[1] = "up"
    BY <1>7, <1>9, <2>3
  <2>4. CASE ~(queue[1] = "up") /\ ~\E j \in DOMAIN queue : queue[j] = "up"
    <3>1. (\A j \in DOMAIN queue : queue[j] # "down") /\ queue[1] = "move" /\ ~mouseDown
      BY <1>2, <1>3, <1>9, <2>1, <2>4 DEF Returned, Phase
    <3>2. QED
      BY <1>8, <3>1
  <2>5. QED
    BY <2>2, <2>3, <2>4
<1>10. ASSUME ~spoilt, onScreen, pointerActive, ~pointerActive' PROVE Returned'
  BY <1>1, <1>7, <1>10, QueueFact DEF Settled, StrokeInv
<1>11. ASSUME ~spoilt', onScreen' PROVE Returned' \/ (pointerActive' /\ fingers' > 0)
  BY <1>9, <1>10, <1>11 DEF StrokeInv
<1>12. QED
  BY <1>2, <1>3, <1>4, <1>5, <1>11 DEF StrokeInv

\* A call that is not awaited any more, or one before the call under way, is carried out.
LEMMA StrokePerformed ==
  ASSUME StrokeInv, line # <<>>, ~(awaited /\ Len(line) = 1), Stroke(Head(line)), line' = Tail(line),
         UNCHANGED <<queue, pointerActive, awaited, onScreen, spoilt, fingers>>
  PROVE  StrokeInv'
<1>1. /\ mouseDown' => captchaPointerDown'
      /\ line[1] = "up" => ~mouseDown'
      /\ line[1] = "move" => mouseDown' = mouseDown
      /\ line[1] \in Phase
  BY LineFact, StrokeFact
<1>2. /\ line' \in Seq(Phase) /\ Len(line) \in Nat \ {0} /\ DOMAIN line = 1 .. Len(line)
      /\ DOMAIN line' = 1 .. Len(line) - 1 /\ Len(line') = Len(line) - 1
      /\ \A j \in 1 .. Len(line) - 1 : line'[j] = line[j + 1]
  BY LineFact
<1>3. awaited' => queue' # <<>> /\ line' # <<>> /\ line'[Len(line')] = Head(queue')
  <2> SUFFICES ASSUME awaited' PROVE queue' # <<>> /\ line' # <<>> /\ line'[Len(line')] = Head(queue')
    OBVIOUS
  <2>1. Len(line) > 1 /\ queue # <<>> /\ line[Len(line)] = Head(queue)
    BY <1>2 DEF StrokeInv
  <2>2. line'[Len(line')] = line[Len(line)] /\ Len(line') > 0
    BY <1>2, <2>1
  <2>3. line' # <<>>
    BY <2>2, EmptySeq
  <2>4. QED
    BY <2>1, <2>2, <2>3
<1>4. InOrder' <=> InOrder
  BY DEF InOrder
<1>5. ASSUME Returned PROVE Returned'
  <2>1. CASE \E j \in DOMAIN queue : queue[j] = "up"
    BY <2>1 DEF Returned
  <2>2. CASE \A j \in DOMAIN queue : queue[j] # "down"
    <3>1. ASSUME NEW j \in DOMAIN line, line[j] = "up", j # 1,
                 \A k \in DOMAIN line : k > j => line[k] # "down"
          PROVE  Returned'
      <4>1. j - 1 \in DOMAIN line' /\ line'[j - 1] = "up"
            /\ \A k \in DOMAIN line' : k > j - 1 => line'[k] # "down"
        BY <1>2, <3>1
      <4>2. QED
        BY <2>2, <4>1 DEF Returned
    <3>2. ASSUME ~mouseDown', \A k \in DOMAIN line : k > 1 => line[k] # "down" PROVE Returned'
      <4>1. \A k \in DOMAIN line' : line'[k] # "down"
        BY <1>2, <3>2
      <4>2. QED
        BY <2>2, <3>2, <4>1 DEF Returned
    <3>3. ASSUME ~mouseDown, \A k \in DOMAIN line : line[k] # "down" PROVE Returned'
      <4>1. ~mouseDown'
        BY <1>1, <1>2, <3>3 DEF Phase
      <4>2. QED
        BY <3>2, <3>3, <4>1
    <3>4. ASSUME line[1] = "up", \A k \in DOMAIN line : k > 1 => line[k] # "down" PROVE Returned'
      BY <1>1, <3>2, <3>4
    <3>5. ASSUME \E j \in DOMAIN queue : queue[j] = "up" PROVE Returned'
      BY <3>5 DEF Returned
    <3>6. QED
      BY <1>5, <3>1, <3>3, <3>4, <3>5 DEF Returned
  <2>3. QED
    BY <1>5, <2>1, <2>2 DEF Returned
<1>6. QED
  BY <1>1, <1>2, <1>3, <1>4, <1>5 DEF StrokeInv

LEMMA StrokeSpoilt ==
  ASSUME StrokeInv, spoilt', queue' \in Seq(Phase), line' \in Seq(Phase), fingers' = fingers,
         awaited' => queue' # <<>> /\ line' # <<>> /\ line'[Len(line')] = Head(queue'),
         mouseDown' => captchaPointerDown'
  PROVE  StrokeInv'
BY DEF StrokeInv

LEMMA StrokeStep ==
  ASSUME StrokeInv, CaptchaNext
  PROVE  StrokeInv'
<1> USE DEF app, max
<1>1. CASE PollAnswered
  <2>1. /\ onScreen' = FALSE
        /\ UNCHANGED <<fingers, queue, line, awaited, mouseDown, captchaPointerDown, spoilt>>
    BY <1>1 DEF PollAnswered
  <2>2. QED
    BY <2>1 DEF StrokeInv, InOrder
<1>2. CASE PointerMove
  BY <1>2, StrokePut DEF PointerMove, StrokeInv
<1>3. CASE PointerUp
  <2>1. /\ fingers > 0 /\ fingers' = fingers - 1 /\ fingers' \in 0 .. 2
        /\ UNCHANGED <<onScreen, pointerActive, line, awaited, mouseDown, captchaPointerDown, spoilt>>
    BY <1>3 DEF PointerUp, StrokeInv
  <2>2. CASE onScreen /\ pointerActive
    BY <1>3, <2>1, <2>2, StrokePut DEF PointerUp
  <2>3. CASE ~(onScreen /\ pointerActive)
    <3>1. queue' = queue
      BY <1>3, <2>3 DEF PointerUp
    <3>2. QED
      BY <2>1, <2>3, <3>1 DEF StrokeInv, InOrder, Returned
  <2>4. QED
    BY <2>2, <2>3
<1>4. CASE CallFails
  <2>1. queue' \in Seq(Phase)
    BY <1>4, QueueFact DEF CallFails
  <2>2. QED
    BY <1>4, <2>1, StrokeSpoilt DEF CallFails, StrokeInv
<1>5. CASE Performed
  <2>1. line # <<>> /\ line' = Tail(line) /\ line' \in Seq(Phase) /\ fingers' = fingers
    BY <1>5, LineFact DEF Performed
  <2>2. Len(line) # 1 => Len(line) > 1
    BY <2>1, LineFact
  <2>3. CASE awaited /\ Len(line) = 1
    <3>1. /\ awaited' = FALSE /\ queue' = Tail(queue) /\ Settled(Head(queue)) /\ (onScreen' => onScreen)
      BY <1>5, <2>3 DEF Performed
    <3>2. CASE Stroke(Head(line)) /\ UNCHANGED spoilt
      BY <2>1, <2>3, <3>1, <3>2, StrokeAnswered
    <3>3. CASE StrokeBreaks(Head(line))
      <4>1. queue' \in Seq(Phase)
        BY <2>3, <3>1, QueueFact DEF StrokeInv
      <4>2. spoilt' /\ (mouseDown' => captchaPointerDown')
        BY <3>3 DEF StrokeBreaks, StrokeInv
      <4>3. QED
        BY <2>1, <3>1, <4>1, <4>2, StrokeSpoilt
    <3>4. QED
      BY <1>5, <3>2, <3>3 DEF Performed
  <2>4. CASE ~(awaited /\ Len(line) = 1)
    <3>1. UNCHANGED <<awaited, queue, pointerActive, onScreen>>
      BY <1>5, <2>4 DEF Performed
    <3>2. CASE Stroke(Head(line)) /\ UNCHANGED spoilt
      BY <2>1, <2>4, <3>1, <3>2, StrokePerformed
    <3>3. CASE StrokeBreaks(Head(line))
      <4>1. awaited' => queue' # <<>> /\ line' # <<>> /\ line'[Len(line')] = Head(queue')
        <5> SUFFICES ASSUME awaited PROVE queue # <<>> /\ line' # <<>> /\ line'[Len(line')] = Head(queue)
          BY <3>1
        <5>1. Len(line) > 1 /\ queue # <<>> /\ line[Len(line)] = Head(queue)
          <6>1. queue # <<>> /\ line[Len(line)] = Head(queue)
            BY DEF StrokeInv
          <6>2. Len(line) # 1
            BY <2>4
          <6>3. QED
            BY <2>2, <6>1, <6>2
        <5>2. line'[Len(line')] = line[Len(line)] /\ Len(line') > 0
          BY <2>1, <5>1, LineFact
        <5>3. line' # <<>>
          BY <5>2, EmptySeq
        <5>4. QED
          BY <5>1, <5>2, <5>3
      <4>2. spoilt' /\ (mouseDown' => captchaPointerDown') /\ queue' \in Seq(Phase)
        BY <3>1, <3>3 DEF StrokeBreaks, StrokeInv
      <4>3. QED
        BY <2>1, <4>1, <4>2, StrokeSpoilt
    <3>4. QED
      BY <1>5, <3>2, <3>3 DEF Performed
  <2>5. QED
    BY <2>3, <2>4
<1>6. CASE BoxChanges
  <2>1. UNCHANGED <<fingers, onScreen, pointerActive, queue, line, awaited, mouseDown,
                    captchaPointerDown, spoilt>>
    BY <1>6 DEF BoxChanges
  <2>2. QED
    BY <2>1 DEF StrokeInv, InOrder, Returned
<1>7. QED
  BY <1>1, <1>2, <1>3, <1>4, <1>5, <1>6, StrokeDown, StrokeCall DEF CaptchaNext

\* Until a release is on its way, the finger that will send it is on the picture.
THEOREM StrokeInvariant == CaptchaSpec => []StrokeInv
<1>1. StrokeInv /\ UNCHANGED captchaVars => StrokeInv'
  BY DEF StrokeInv, InOrder, Returned, captchaVars
<1>2. QED
  BY <1>1, StrokeInitially, StrokeStep, PTL DEF CaptchaSpec

\* A stroke that was not spoilt leaves MAX's mouse released.
THEOREM AlwaysStrokeReleased == CaptchaSpec => []StrokeReleased
<1>1. StrokeInv => StrokeReleased
  <2> SUFFICES ASSUME StrokeInv, onScreen, fingers = 0, queue = <<>>, line = <<>>, ~spoilt
               PROVE  ~mouseDown
    BY DEF StrokeReleased
  <2>1. Returned /\ DOMAIN queue = {} /\ DOMAIN line = {}
    BY DEF StrokeInv
  <2>2. QED
    BY <2>1 DEF Returned
<1>2. QED
  BY <1>1, StrokeInvariant, PTL

-----------------------------------------------------------------------------
(* Notifications.  NotifiedOnce rests on what the deduplicator remembers:  *)
(* what has been notified is one of its recent ids or has been forgotten.  *)

NewsEvents == [message : News, number : Nat]

RememberedInv ==
  /\ events \in Seq(NewsEvents) /\ nextNumber \in Nat
  /\ recentIds \in Seq(News) /\ Len(recentIds) <= RecentLimit
  /\ notified \in [News -> Nat]
  /\ \A m \in News : notified[m] > 0 => m \in Range(recentIds) \cup forgotten
  /\ NotifiedOnce

\* The message that is taken down is remembered, and what is remembered no longer is forgotten.
LEMMA RememberedFact ==
  ASSUME recentIds \in Seq(News), Len(recentIds) <= RecentLimit, NEW m \in News
  PROVE  /\ Remembered(m) \in Seq(News) /\ Len(Remembered(m)) <= RecentLimit
         /\ m \in Range(Remembered(m))
<1> DEFINE longer == Append(recentIds, m)
<1>1. longer \in Seq(News) /\ Len(longer) = Len(recentIds) + 1 /\ longer[Len(recentIds) + 1] = m
      /\ Len(recentIds) \in Nat
  BY AppendProperties
<1> HIDE DEF longer
<1>2. CASE ~(Len(longer) > RecentLimit)
  <2>1. Remembered(m) = longer
    BY <1>2 DEF Remembered, longer
  <2>2. QED
    BY <1>1, <1>2, <2>1, LenProperties, NotificationsAssumption DEF Range
<1>3. CASE Len(longer) > RecentLimit
  <2>1. Remembered(m) = Tail(longer)
    BY <1>3 DEF Remembered, longer
  <2>2. RecentLimit >= 1
    BY NotificationsAssumption
  <2>3. /\ Tail(longer) \in Seq(News) /\ Len(Tail(longer)) = Len(recentIds) /\ Len(recentIds) >= 1
        /\ DOMAIN Tail(longer) = 1 .. Len(recentIds)
        /\ Tail(longer)[Len(recentIds)] = longer[Len(recentIds) + 1]
    <3>1. longer # <<>> /\ Len(recentIds) >= 1
      BY <1>1, <1>3, <2>2, NotificationsAssumption, EmptySeq
    <3>2. QED
      BY <1>1, <3>1, HeadTailProperties, LenProperties
  <2>4. Tail(longer)[Len(recentIds)] = m /\ Len(recentIds) \in DOMAIN Tail(longer)
    BY <1>1, <2>3
  <2>5. QED
    BY <2>1, <2>3, <2>4 DEF Range
<1>4. QED
  BY <1>2, <1>3

LEMMA RememberedHandled ==
  ASSUME RememberedInv, HandleEvent
  PROVE  RememberedInv'
<1> DEFINE e == Head(events)
<1>1. e \in NewsEvents /\ events' \in Seq(NewsEvents) /\ nextNumber' = nextNumber
  BY HeadTailProperties DEF HandleEvent, RememberedInv
<1>2. e.message \in News
  BY <1>1 DEF NewsEvents
<1>3. CASE ~Accepts(e)
  <2>1. UNCHANGED <<recentIds, notified, forgotten>>
    BY <1>3 DEF HandleEvent, PassOver
  <2>2. QED
    BY <1>1, <2>1 DEF RememberedInv, NotifiedOnce, Range
<1>4. CASE Accepts(e)
  <2>1. /\ recentIds' = Remembered(e.message)
        /\ forgotten' = forgotten \cup (Range(recentIds) \ Range(recentIds'))
        /\ \/ notified' = [notified EXCEPT ![e.message] = @ + 1]
           \/ notified' = notified
    BY <1>4 DEF HandleEvent, Notify
  <2>2. /\ recentIds' \in Seq(News) /\ Len(recentIds') <= RecentLimit
        /\ e.message \in Range(recentIds')
    BY <1>2, <2>1, RememberedFact DEF RememberedInv
  <2>3. e.message \notin Range(recentIds)
    <3>1. ~\E i \in 1 .. Len(recentIds) : recentIds[i] = e.message
      BY <1>4 DEF Accepts, Contains
    <3>2. DOMAIN recentIds = 1 .. Len(recentIds)
      BY LenProperties DEF RememberedInv
    <3>3. QED
      BY <3>1, <3>2 DEF Range
  <2>4. Range(recentIds) \cup forgotten \subseteq Range(recentIds') \cup forgotten'
        /\ forgotten \subseteq forgotten'
    BY <2>1
  <2>5. notified' \in [News -> Nat]
    BY <1>2, <2>1 DEF RememberedInv
  <2>6. ASSUME NEW m \in News
        PROVE  /\ notified'[m] > 0 => m \in Range(recentIds') \cup forgotten'
               /\ notified'[m] > 1 => m \in forgotten'
    <3>1. CASE m = e.message
      <4>1. notified[m] \in Nat /\ notified'[m] \in {notified[m], notified[m] + 1}
        BY <1>2, <2>1 DEF RememberedInv
      <4>2. notified[m] > 0 => m \in forgotten
        BY <2>3, <3>1 DEF RememberedInv
      <4>3. QED
        BY <2>2, <2>4, <3>1, <4>1, <4>2
    <3>2. CASE m # e.message
      <4>1. notified'[m] = notified[m]
        BY <2>1, <3>2 DEF RememberedInv
      <4>2. QED
        BY <2>4, <4>1 DEF RememberedInv, NotifiedOnce
    <3>3. QED
      BY <3>1, <3>2
  <2>7. QED
    BY <1>1, <2>2, <2>5, <2>6 DEF RememberedInv, NotifiedOnce
<1>5. QED
  BY <1>3, <1>4

LEMMA RememberedEmit ==
  ASSUME RememberedInv, NEW m \in News, Emit(m)
  PROVE  RememberedInv'
<1>1. [message |-> m, number |-> nextNumber] \in NewsEvents
  BY DEF NewsEvents, RememberedInv
<1>2. events' \in Seq(NewsEvents) /\ nextNumber' \in Nat
  BY <1>1, AppendProperties DEF Emit, RememberedInv
<1>3. UNCHANGED <<recentIds, notified, forgotten>>
  BY DEF Emit, deduplicating
<1>4. QED
  BY <1>2, <1>3 DEF RememberedInv, NotifiedOnce, Range

LEMMA RememberedStep ==
  ASSUME RememberedInv, NotificationsNext
  PROVE  RememberedInv'
<1> USE DEF deduplicating
<1>1. CASE \E m \in News : MessageComes(m) \/ MessageRevised(m)
  BY <1>1, RememberedEmit DEF MessageComes, MessageRevised
<1>2. CASE \/ \E c \in NewsChats : MuteInMax(c) \/ \E muted \in BOOLEAN : SetMuted(c, muted)
           \/ \E enabled \in BOOLEAN : SetEnabled(enabled)
           \/ ServiceStarts \/ ChatsListed
  <2>1. UNCHANGED <<events, nextNumber, recentIds, notified, forgotten>>
    BY <1>2 DEF MuteInMax, SetMuted, SetEnabled, Prefer, ServiceStarts, ChatsListed
  <2>2. QED
    BY <2>1 DEF RememberedInv, NotifiedOnce, Range
<1>3. CASE SessionReopens \/ PassesUnheard
  <2>1. UNCHANGED <<recentIds, notified, forgotten>>
    BY <1>3 DEF SessionReopens, PassesUnheard
  <2>2. nextNumber' \in Nat /\ events' \in Seq(NewsEvents)
    <3>1. CASE SessionReopens
      BY <3>1, EmptySeq DEF SessionReopens, FirstNumber
    <3>2. CASE PassesUnheard
      BY <3>2, HeadTailProperties DEF PassesUnheard, RememberedInv
    <3>3. QED
      BY <1>3, <3>1, <3>2
  <2>3. QED
    BY <2>1, <2>2 DEF RememberedInv, NotifiedOnce, Range
<1>4. CASE ServiceStops
  <2>1. /\ events' = <<>> /\ recentIds' = <<>> /\ notified' = [m \in News |-> 0]
        /\ nextNumber' = nextNumber
    BY <1>4 DEF ServiceStops
  <2>2. events' \in Seq(NewsEvents) /\ recentIds' \in Seq(News) /\ Len(recentIds') = 0
    BY <2>1, EmptySeq
  <2>3. QED
    BY <2>1, <2>2, NotificationsAssumption DEF RememberedInv, NotifiedOnce
<1>5. QED
  BY <1>1, <1>2, <1>3, <1>4, RememberedHandled DEF NotificationsNext

LEMMA RememberedInitially == NotificationsInit => RememberedInv
<1> SUFFICES ASSUME NotificationsInit PROVE RememberedInv
  OBVIOUS
<1>1. /\ events = <<>> /\ recentIds = <<>> /\ notified = [m \in News |-> 0] /\ nextNumber = 0
  BY DEF NotificationsInit
<1>2. events \in Seq(NewsEvents) /\ recentIds \in Seq(News) /\ Len(recentIds) = 0
  BY <1>1, EmptySeq
<1>3. QED
  BY <1>1, <1>2, NotificationsAssumption DEF RememberedInv, NotifiedOnce

\* What has been notified is remembered or has been forgotten, and no more is remembered
\* than the limit.
THEOREM DeduplicatorInvariant == NotificationsSpec => []RememberedInv
<1>1. RememberedInv /\ UNCHANGED notificationVars => RememberedInv'
  BY DEF RememberedInv, NotifiedOnce, Range, notificationVars, deduplicating
<1>2. QED
  BY <1>1, RememberedInitially, RememberedStep, PTL DEF NotificationsSpec

\* The bot tells of a message once, unless its id was dropped for others in between.
THEOREM AlwaysNotifiedOnce == NotificationsSpec => []NotifiedOnce
BY DeduplicatorInvariant, PTL DEF RememberedInv

-----------------------------------------------------------------------------
(* Types.  What the invariants above do not say of the variables: a swipe  *)
(* of the list goes to a folder that exists, because its direction is      *)
(* looked at again when it ends.                                           *)

FolderInv == folder \in 0 .. Folders - 1

LEMMA FolderStep ==
  ASSUME GestureTypes, FolderInv, [GesturesNext]_gestureVars
  PROVE  FolderInv'
<1>1. CASE \E fast \in BOOLEAN : Up(fast)
  <2>1. PICK fast \in BOOLEAN : Up(fast)
    BY <1>1
  <2>2. CASE Committed(swipe, fast) /\ pane # "conversation"
    <3>1. folder' = TargetFolder(swipe.x)
      BY <2>1, <2>2 DEF Up, Navigate
    <3>2. TargetFolder(swipe.x) \in 0 .. Folders - 1
      BY <2>2 DEF Committed, CorrectDirection
    <3> QED  BY <3>1, <3>2 DEF FolderInv
  <2>3. CASE ~Committed(swipe, fast) \/ pane = "conversation"
    BY <2>1, <2>3 DEF Up, Navigate, FolderInv
  <2> QED  BY <2>2, <2>3
<1>2. CASE \E x \in {-1, 1} : Wheel(x)
  BY <1>2 DEF Wheel, FolderInv
<1>3. CASE UNCHANGED folder
  BY <1>3 DEF FolderInv
<1>4. CASE Click
  BY <1>4 DEF Click, FolderInv
<1> QED
  BY <1>1, <1>2, <1>3, <1>4 DEF GesturesNext, gestureVars, Down, Move, SecondFinger, PointerTaken, Scroll,
     ReplyLost, PressFires, ContextMenu, Cancelled, ChooseAction, DismissMenu, SwallowEnds, Back

\* Whatever the fingers do, the pane is one of the two and the folder one of those there are.
THEOREM AlwaysGesturesTypeOK == GesturesSpec => []GesturesTypeOK
<1>1. GesturesInit => FolderInv
  BY DEF GesturesInit, FolderInv
<1>2. GestureInv => GestureTypes
  BY DEF GestureInv
<1>3. GesturesSpec => []FolderInv
  BY <1>1, <1>2, FolderStep, GestureInvariant, PTL DEF GesturesSpec
<1>4. GestureTypes /\ FolderInv => GesturesTypeOK
  BY DEF GestureTypes, FolderInv, GesturesTypeOK, Swipes, Axes
<1>5. QED
  BY <1>2, <1>3, <1>4, GestureInvariant, PTL

-----------------------------------------------------------------------------

FingersInv ==
  /\ touching \in 0 .. MaxTouching /\ faults \in 0 .. MaxSpoilt
  /\ onScreen \in BOOLEAN /\ pointerActive \in BOOLEAN /\ awaited \in BOOLEAN /\ box \in BOOLEAN
  /\ mouseDown \in BOOLEAN /\ captchaPointerDown \in BOOLEAN /\ spoilt \in BOOLEAN

LEMMA FingersStep ==
  ASSUME FingersInv, [CaptchaNext]_captchaVars
  PROVE  FingersInv'
<1> USE CaptchaBounds DEF app, max
<1>1. CASE PointerDown
  <2>1. touching' \in 0 .. MaxTouching
    BY <1>1 DEF PointerDown, FingersInv
  <2>2. pointerActive' \in BOOLEAN /\ spoilt' \in BOOLEAN
    BY <1>1, Zenon DEF PointerDown, FingersInv, Contains
  <2> QED  BY <1>1, <2>1, <2>2 DEF PointerDown, FingersInv
<1>2. CASE PointerMove \/ PointerUp \/ Call \/ BoxChanges \/ PollAnswered \/ UNCHANGED captchaVars
  <2>1. box' \in BOOLEAN /\ awaited' \in BOOLEAN /\ onScreen' \in BOOLEAN
    BY <1>2 DEF PointerMove, PointerUp, Call, BoxChanges, PollAnswered, captchaVars, FingersInv
  <2>2. UNCHANGED <<touching, faults, pointerActive, mouseDown, captchaPointerDown, spoilt>>
    BY <1>2 DEF PointerMove, PointerUp, Call, BoxChanges, PollAnswered, captchaVars
  <2> QED  BY <2>1, <2>2 DEF FingersInv
<1>3. CASE CallFails
  <2>1. faults' \in 0 .. MaxSpoilt
    BY <1>3 DEF CallFails, FingersInv
  <2>2. pointerActive' \in BOOLEAN
    BY <1>3, Zenon DEF CallFails, Settled, FingersInv
  <2> QED  BY <1>3, <2>1, <2>2 DEF CallFails, FingersInv
<1>4. CASE Performed
  <2>1. /\ faults' \in 0 .. MaxSpoilt /\ spoilt' \in BOOLEAN
        /\ mouseDown' \in BOOLEAN /\ captchaPointerDown' \in BOOLEAN
    <3>1. CASE Stroke(Head(line)) /\ UNCHANGED <<spoilt, faults>>
      BY <3>1 DEF Stroke, FingersInv
    <3>2. CASE StrokeBreaks(Head(line))
      <4>1. faults' \in 0 .. MaxSpoilt
        BY <3>2 DEF StrokeBreaks, FingersInv
      <4>2. mouseDown' \in {FALSE, mouseDown} /\ captchaPointerDown' = captchaPointerDown /\ spoilt' = TRUE
        BY <3>2 DEF StrokeBreaks
      <4> QED  BY <4>1, <4>2 DEF FingersInv
    <3> QED  BY <1>4, <3>1, <3>2 DEF Performed
  <2>2. pointerActive' \in BOOLEAN /\ onScreen' \in BOOLEAN /\ awaited' \in BOOLEAN
    BY <1>4, Zenon DEF Performed, Settled, FingersInv
  <2> QED  BY <1>4, <2>1, <2>2 DEF Performed, FingersInv
<1> QED  BY <1>1, <1>2, <1>3, <1>4 DEF CaptchaNext

\* Two fingers at most, and no call that is neither a press, a move nor a release.
THEOREM AlwaysCaptchaTypeOK == CaptchaSpec => []CaptchaTypeOK
<1>1. CaptchaInit => FingersInv
  <2>1. 0 \in 0 .. MaxTouching /\ 0 \in 0 .. MaxSpoilt
    BY CaptchaBounds
  <2> QED  BY <2>1 DEF CaptchaInit, FingersInv
<1>2. CaptchaSpec => []FingersInv
  BY <1>1, FingersStep, PTL DEF CaptchaSpec
<1>3. StrokeInv /\ FingersInv => CaptchaTypeOK
  BY DEF StrokeInv, FingersInv, CaptchaTypeOK, Phase
<1>4. QED
  BY <1>2, <1>3, StrokeInvariant, PTL

-----------------------------------------------------------------------------

SettingsInv ==
  /\ mutedInMax \subseteq NewsChats /\ mutedChats \subseteq NewsChats /\ written \subseteq News
  /\ preferences \in [enabled : BOOLEAN, muted : SUBSET NewsChats]
  /\ Cardinality(preferences.muted) <= MutedLimit
  /\ listening \in {"off", "listing", "on"} /\ cursor \in Nat \cup {-1}
  /\ forgotten \subseteq News /\ unannounced \subseteq News

LEMMA SettingsStep ==
  ASSUME RememberedInv, SettingsInv, [NotificationsNext]_notificationVars
  PROVE  SettingsInv'
<1> USE DEF inMax, deduplicating
<1>1. CASE \E m \in News : MessageComes(m) \/ MessageRevised(m)
  BY <1>1 DEF MessageComes, MessageRevised, Emit, SettingsInv
<1>2. CASE \E c \in NewsChats : MuteInMax(c)
  BY <1>2 DEF MuteInMax, SettingsInv
<1>3. CASE \/ \E c \in NewsChats, muted \in BOOLEAN : SetMuted(c, muted)
           \/ \E enabled \in BOOLEAN : SetEnabled(enabled)
  <2>1. UNCHANGED <<mutedInMax, mutedChats, written, listening, cursor, forgotten, unannounced>>
    BY <1>3 DEF SetMuted, SetEnabled, Prefer
  <2>2. /\ preferences' \in [enabled : BOOLEAN, muted : SUBSET NewsChats]
        /\ Cardinality(preferences'.muted) <= MutedLimit
    <3>1. ASSUME NEW c \in NewsChats, NEW muted \in BOOLEAN, SetMuted(c, muted)
          PROVE  /\ preferences' \in [enabled : BOOLEAN, muted : SUBSET NewsChats]
                 /\ Cardinality(preferences'.muted) <= MutedLimit
      <4> DEFINE next == IF muted THEN preferences.muted \cup {c} ELSE preferences.muted \ {c}
      <4>1. preferences' = [preferences EXCEPT !.muted = next] /\ Cardinality(next) <= MutedLimit
        BY <3>1 DEF SetMuted, Prefer
      <4>2. next \subseteq NewsChats
        BY DEF SettingsInv
      <4> HIDE DEF next
      <4> QED  BY <4>1, <4>2 DEF SettingsInv
    <3>2. ASSUME NEW enabled \in BOOLEAN, SetEnabled(enabled)
          PROVE  /\ preferences' \in [enabled : BOOLEAN, muted : SUBSET NewsChats]
                 /\ Cardinality(preferences'.muted) <= MutedLimit
      BY <3>2 DEF SetEnabled, Prefer, SettingsInv
    <3> QED  BY <1>3, <3>1, <3>2
  <2> QED  BY <2>1, <2>2 DEF SettingsInv
<1>4. CASE SessionReopens \/ ServiceStarts \/ ChatsListed \/ PassesUnheard \/ UNCHANGED notificationVars
  BY <1>4 DEF SessionReopens, ServiceStarts, ChatsListed, PassesUnheard, notificationVars, SettingsInv
<1>5. CASE ServiceStops
  BY <1>5 DEF ServiceStops, SettingsInv
<1>6. CASE HandleEvent
  <2> DEFINE e == Head(events)
  <2>1. e.message \in News /\ e.number \in Nat
    <3>1. e \in NewsEvents
      BY <1>6, HeadTailProperties DEF HandleEvent, RememberedInv
    <3> QED  BY <3>1 DEF NewsEvents
  <2>2. Range(recentIds) \subseteq News
    BY LenProperties DEF RememberedInv, Range
  <2>3. \/ /\ cursor' = e.number /\ forgotten' = forgotten \cup (Range(recentIds) \ Range(recentIds'))
           /\ unannounced' = unannounced
        \/ /\ unannounced' \in {unannounced, unannounced \cup {e.message}}
           /\ UNCHANGED <<cursor, forgotten>>
    BY <1>6 DEF HandleEvent, Notify, PassOver
  <2>4. UNCHANGED <<mutedInMax, mutedChats, written, preferences, listening>>
    BY <1>6 DEF HandleEvent
  <2> HIDE DEF e
  <2> QED  BY <2>1, <2>2, <2>3, <2>4 DEF SettingsInv
<1> QED  BY <1>1, <1>2, <1>3, <1>4, <1>5, <1>6 DEF NotificationsNext

\* No more chats are muted for the bot than the limit, and what is taken down of the events
\* are ids of messages.
THEOREM AlwaysNotificationsTypeOK == NotificationsSpec => []NotificationsTypeOK
<1>1. NotificationsInit => SettingsInv
  BY FS_EmptySet, NotificationsAssumption DEF NotificationsInit, SettingsInv
<1>2. NotificationsSpec => []SettingsInv
  BY <1>1, SettingsStep, DeduplicatorInvariant, PTL DEF NotificationsSpec
<1>3. RememberedInv /\ SettingsInv => NotificationsTypeOK
  BY DEF RememberedInv, SettingsInv, NotificationsTypeOK, NewsEvents
<1>4. QED
  BY <1>2, <1>3, DeduplicatorInvariant, PTL

-----------------------------------------------------------------------------
(* The parts side by side, as the run has them: each behaviour of the      *)
(* Mini App is one of every part.                                          *)

LEMMA MiniAppMoves ==
  ASSUME [MiniAppNext]_miniAppVars
  PROVE  /\ [MessengerNext]_messengerVars /\ [GesturesNext]_gestureVars /\ [ViewerNext]_viewerVars
         /\ [LoginNext]_loginVars /\ [CaptchaNext]_captchaVars /\ [RequestsNext]_requestVars
         /\ [AccountsNext]_accountVars /\ [NotificationsNext]_notificationVars
<1> USE DEF MiniAppNext, miniAppVars, userVars, apiVars, botVars, BesideMessenger, BesideGestures,
    BesideViewer, BesideLogin, BesideCaptcha, BesideRequests, BesideAccounts, BesideBot
<1>1. [MessengerNext]_messengerVars
  BY DEF MessengerNext
<1>2. [GesturesNext]_gestureVars
  BY DEF GesturesNext
<1>3. [ViewerNext]_viewerVars
  BY DEF ViewerNext
<1>4. [LoginNext]_loginVars
  BY DEF LoginNext
<1>5. [CaptchaNext]_captchaVars
  BY DEF CaptchaNext
<1>6. [RequestsNext]_requestVars
  BY DEF RequestsNext
<1>7. [AccountsNext]_accountVars
  BY DEF AccountsNext
<1>8. [NotificationsNext]_notificationVars
  BY DEF NotificationsNext
<1> QED  BY <1>1, <1>2, <1>3, <1>4, <1>5, <1>6, <1>7, <1>8

LEMMA MiniAppParts ==
  MiniAppSpec => /\ MessengerSpec /\ GesturesSpec /\ ViewerSpec /\ LoginSpec
                 /\ CaptchaSpec /\ RequestsSpec /\ AccountsSpec /\ NotificationsSpec
<1>1. MiniAppInit => /\ MessengerInit /\ GesturesInit /\ ViewerInit /\ LoginInit
                     /\ CaptchaInit /\ RequestsInit /\ AccountsInit /\ NotificationsInit
  BY DEF MiniAppInit
<1> QED
  BY <1>1, MiniAppMoves, PTL DEF MiniAppSpec, MessengerSpec, GesturesSpec, ViewerSpec, LoginSpec,
     CaptchaSpec, RequestsSpec, AccountsSpec, NotificationsSpec

\* Of an answer, a pane, a menu and a click a contact gives the pairs GestureActsOnce names to
\* nobody, and in the media viewer it does one thing.  The menu and the pane may come together.
THEOREM AlwaysGesturesActOnce == MiniAppSpec => []GesturesActOnce
<1>1. GestureActsOnce /\ ViewerActsOnce => GesturesActOnce
  BY DEF GesturesActOnce
<1> QED
  BY <1>1, MiniAppParts, AlwaysGestureActsOnce, AlwaysViewerActsOnce, PTL

\* The variables of every part hold what they should, whichever of them moves.
THEOREM AlwaysMiniAppTypeOK == MiniAppSpec => []MiniAppTypeOK
<1>1. MessengerInv => MessengerTypeOK
  BY DEF MessengerInv, MaxInv, StoreInv, CacheInv, Views, Rooms, MessengerTypeOK
<1>2. ViewerInv => ViewerTypeOK
  BY DEF ViewerInv, ViewerTypes, Drags, Dismissals, ViewerTypeOK
<1>3. (LimiterInv => LoginTypeOK) /\ (RequestsInv => RequestsTypeOK) /\ (AccountsInv => AccountsTypeOK)
  BY DEF LimiterInv, RequestsInv, AccountsInv
<1>4. /\ MessengerTypeOK /\ GesturesTypeOK /\ ViewerTypeOK /\ LoginTypeOK /\ CaptchaTypeOK
      /\ RequestsTypeOK /\ AccountsTypeOK /\ NotificationsTypeOK
      => MiniAppTypeOK
  BY DEF MiniAppTypeOK
<1> QED
  BY <1>1, <1>2, <1>3, <1>4, MiniAppParts, MessengerInvariant, ViewerInvariant, LimiterInvariant,
     RequestsInvariant, AccountsInvariant, AlwaysGesturesTypeOK, AlwaysCaptchaTypeOK,
     AlwaysNotificationsTypeOK, PTL

\* Every other invariant the run checks, of all parts at once.
THEOREM AlwaysMiniAppSafe ==
  MiniAppSpec => [](/\ ViewConsistent /\ CaughtUp /\ ViewerReleases /\ NotifiedOnce
                    /\ ApprovedOnly /\ GuessesBounded /\ StrokeReleased /\ FilesHeld)
BY MiniAppParts, AlwaysViewConsistent, AlwaysCaughtUp, AlwaysViewerReleases, AlwaysNotifiedOnce,
   AlwaysApprovedOnly, AlwaysGuessesBounded, AlwaysStrokeReleased, AlwaysFilesHeld, PTL

==============================================================================
