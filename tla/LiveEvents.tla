----------------------------- MODULE LiveEvents -----------------------------
(***************************************************************************)
(* What the worker knows of the messages of one user: LiveEventAdapter     *)
(* turns the frames MAX pushes into events for the API, each only once,    *)
(* and MaxSession keeps the messages of the chat that is open.  Frames     *)
(* come in the order of MAX's socket, singly or several messages in one;   *)
(* after a reconnection MAX may send one again.                            *)
(***************************************************************************)
EXTENDS Integers, Sequences, FiniteSets, SequencesExt

CONSTANTS
    LiveMessages,  \* messages, and
    ChatOf,        \* the chat of each
    MaxBatch,      \* messages MAX puts in one frame
    MaxSeen,       \* identities the adapter remembers
    MaxOpen,       \* messages MaxSession keeps of the open chat
    MaxChanges,    \* bound: changes made in MAX
    MaxRepeats,    \* bound: frames sent again
    MaxUnreadable, \* bound: messages of a shape the adapter does not know
    NoChat

ASSUME LiveAssumption ==
    /\ ChatOf \in [LiveMessages -> Range(ChatOf)] /\ NoChat \notin Range(ChatOf)
    /\ IsFiniteSet(LiveMessages)
    /\ {MaxBatch, MaxSeen, MaxOpen} \subseteq Nat \ {0}
    /\ {MaxChanges, MaxRepeats, MaxUnreadable} \subseteq Nat

VARIABLES
    truth,      \* each message as MAX has it
    stream,     \* frames on their way to the worker
    last,       \* the frame that came last
    changes, repeats, unreadable,
    seen,       \* LiveEventAdapter.seenOrder
    number,     \* LiveEventAdapter.sequence
    announced,  \* the last event the API got of each message
    came,       \* every state of a message a frame has brought
    missed,     \* messages whose present state the adapter has passed over
    selected,   \* MaxSession.selectedChatId
    held,       \* MaxSession.selectedMessages
    answer      \* history MAX has answered, not yet put in place

bounds   == <<changes, repeats, unreadable>>
adapting == <<seen, number, announced, came, missed>>
liveVars == <<truth, stream, last, bounds, adapting, selected, held, answer>>

Unsent   == [edits |-> 0, reacted |-> FALSE, state |-> "unsent"]
NoAnswer == [chat |-> NoChat, messages |-> <<>>]
Chats    == Range(ChatOf)

LiveInit ==
    /\ truth = [m \in LiveMessages |-> Unsent]
    /\ stream = <<>> /\ last = <<>> /\ changes = 0 /\ repeats = 0 /\ unreadable = 0
    /\ seen = <<>> /\ number = 0 /\ came = {} /\ missed = {}
    /\ announced = [m \in LiveMessages |-> Unsent]
    /\ selected = NoChat /\ held = <<>> /\ answer = NoAnswer

-----------------------------------------------------------------------------
(* MAX *)

\* A change of a message becomes an item of a new frame or joins the last one.
Push(m, now) ==
    /\ changes < MaxChanges /\ changes' = changes + 1
    /\ truth' = [truth EXCEPT ![m] = now]
    /\ \E readable \in BOOLEAN :
         LET item == [m |-> m, now |-> now, readable |-> readable] IN
          /\ readable \/ (unreadable < MaxUnreadable /\ now.state = "sent")
          /\ unreadable' = unreadable + IF readable THEN 0 ELSE 1
          /\ \/ stream' = Append(stream, <<item>>)
             \/ /\ stream # <<>> /\ now.state = "sent"
                /\ Len(Last(stream)) < MaxBatch /\ Last(stream)[1].now.state = "sent"
                /\ stream' = Front(stream) \o <<Last(stream) \o <<item>>>>
    /\ UNCHANGED <<last, repeats, adapting, selected, held, answer>>

Post(m)   == truth[m].state = "unsent" /\ Push(m, [Unsent EXCEPT !.state = "sent"])
Edit(m)   == truth[m].state = "sent" /\ Push(m, [truth[m] EXCEPT !.edits = @ + 1])
React(m)  == truth[m].state = "sent" /\ Push(m, [truth[m] EXCEPT !.reacted = ~@])
Delete(m) == truth[m].state = "sent" /\ Push(m, [truth[m] EXCEPT !.state = "deleted"])

Repeat ==
    /\ last # <<>> /\ stream = <<>> /\ repeats < MaxRepeats
    /\ repeats' = repeats + 1 /\ stream' = <<last>>
    /\ UNCHANGED <<truth, last, changes, unreadable, adapting, selected, held, answer>>

-----------------------------------------------------------------------------
(* LiveEventAdapter *)

(* Defects a change of the adapter could bring in. *)
IdentityWithoutReactions(item) ==
    IF item.now.state = "deleted" THEN <<"delete", item.m>> ELSE <<"upsert", item.m, item.now.edits>>
MarkSeenWithoutLimit(order, identity) == Append(order, identity)

\* What tells one piece of news from another: message, revision and reactions.
Identity(item) ==
    IF item.now.state = "deleted" THEN <<"delete", item.m>>
    ELSE <<"upsert", item.m, item.now.edits, item.now.reacted>>

\* markSeen forgets the oldest identity at the limit.
MarkSeen(order, identity) ==
    LET longer == Append(order, identity)
    IN  IF Len(longer) > MaxSeen THEN Tail(longer) ELSE longer

(* adapt goes through the items of a frame.  One it has seen is no news;   *)
(* one it cannot read is an error that ends the frame, after its identity  *)
(* has been marked.                                                        *)
AdaptItem(acc, item) ==
    IF acc.broken \/ Contains(acc.seen, Identity(item)) THEN acc
    ELSE [seen   |-> MarkSeen(acc.seen, Identity(item)),
          broken |-> ~item.readable,
          events |-> IF item.readable THEN Append(acc.events, item) ELSE acc.events]

Adapt(frame) == FoldLeft(AdaptItem, [seen |-> seen, broken |-> FALSE, events |-> <<>>], frame)

(* MaxSession *)

\* ingestLive puts news of the open chat last among its messages, each of which is there
\* once, or takes it out.
Merge(messages, item) ==
    IF ChatOf[item.m] # selected THEN messages
    ELSE LET others == RemoveFirstMatch(messages, LAMBDA entry : entry.m = item.m)
             longer == Append(others, [m |-> item.m, now |-> item.now])
         IN  IF item.now.state = "deleted" THEN others
             ELSE IF Len(longer) > MaxOpen THEN Tail(longer) ELSE longer

\* observeSocket: the events of a frame, or none of them when it cannot be read.
Ingest ==
    /\ stream # <<>>
    /\ stream' = Tail(stream) /\ last' = Head(stream)
    /\ LET frame == Head(stream)
           got   == Adapt(frame)
           news  == IF got.broken THEN <<>> ELSE got.events
           about == {news[i].m : i \in DOMAIN news}
       IN /\ seen' = got.seen
          /\ number' = number + Len(got.events)
          /\ announced' = FoldLeft(LAMBDA f, item : [f EXCEPT ![item.m] = item.now], announced, news)
          /\ held' = FoldLeft(Merge, held, news)
          /\ came' = came \cup {<<frame[i].m, frame[i].now>> : i \in DOMAIN frame}
          /\ missed' = (missed \ about) \cup
                {frame[i].m : i \in {j \in DOMAIN frame :
                    /\ \/ got.broken \/ <<frame[j].m, frame[j].now>> \in came
                       \/ \E k \in 1..j-1 : frame[k].m = frame[j].m /\ frame[k].now = frame[j].now
                    /\ frame[j].now # announced'[frame[j].m]}}
    /\ UNCHANGED <<truth, bounds, selected, answer>>

\* The history of a chat as MAX answers it, in the order of the socket.
HistoryAnswered(c) ==
    /\ stream = <<>> /\ answer = NoAnswer
    /\ LET there == {m \in LiveMessages : ChatOf[m] = c /\ truth[m].state = "sent"}
       IN answer' = [chat |-> c, messages |-> [i \in 1..Cardinality(there) |->
                        [m |-> SetToSeq(there)[i], now |-> truth[SetToSeq(there)[i]]]]]
    /\ UNCHANGED <<truth, stream, last, bounds, adapting, selected, held>>

(* wireHistory asks for the comment counts in between; then the chat is    *)
(* opened and its messages replaced by the answer.                         *)
ReplaceOpenHistory ==
    /\ answer # NoAnswer
    /\ selected' = answer.chat
    /\ held' = IF Len(answer.messages) > MaxOpen
               THEN SubSeq(answer.messages, Len(answer.messages) - MaxOpen + 1, Len(answer.messages))
               ELSE answer.messages
    /\ answer' = NoAnswer
    \* news that came in the meantime is overwritten
    /\ missed' = missed \cup {m \in LiveMessages : /\ ChatOf[m] = answer.chat
                    /\ announced[m].state # "unsent"
                    /\ ~Contains(answer.messages, [m |-> m, now |-> announced[m]])
                    /\ ~(announced[m].state = "deleted"
                         /\ \A i \in DOMAIN answer.messages : answer.messages[i].m # m)}
    /\ UNCHANGED <<truth, stream, last, bounds, seen, number, announced, came>>

LeaveChat ==
    /\ selected # NoChat
    /\ selected' = NoChat /\ held' = <<>>
    /\ UNCHANGED <<truth, stream, last, bounds, adapting, answer>>

LiveNext ==
    \/ \E m \in LiveMessages : Post(m) \/ Edit(m) \/ React(m) \/ Delete(m)
    \/ Repeat \/ Ingest
    \/ \E c \in Chats : HistoryAnswered(c)
    \/ ReplaceOpenHistory \/ LeaveChat

LiveSpec == LiveInit /\ [][LiveNext]_liveVars

-----------------------------------------------------------------------------
LiveTypeOK ==
    /\ Len(seen) <= MaxSeen /\ IsInjective(seen)
    /\ Len(held) <= MaxOpen /\ number \in Nat
    /\ selected \in Chats \cup {NoChat} /\ missed \subseteq LiveMessages
    /\ \A i, j \in DOMAIN held : i # j => held[i].m # held[j].m
    /\ \A i \in DOMAIN held : ChatOf[held[i].m] = selected

(* When nothing is under way the API was last told of every message as it  *)
(* is now, and the open chat shows it so: except for a message passed over *)
(* because its state was told before, in an earlier frame or in the same   *)
(* (and is so again), because its frame could not be read, or because an   *)
(* older history was put over it.                                          *)
NewsComplete ==
    stream = <<>> /\ answer = NoAnswer =>
        \A m \in LiveMessages \ missed :
            /\ announced[m] = truth[m]
            /\ ChatOf[m] = selected /\ Cardinality({n \in LiveMessages : ChatOf[n] = selected}) <= MaxOpen =>
                 (truth[m].state = "sent" <=> Contains(held, [m |-> m, now |-> truth[m]]))


(* An update of a message's reactions reaches the API also when the time   *)
(* of the message is the same.                                             *)
ReactionsAnnounced ==
    stream = <<>> => \A m \in LiveMessages : announced[m].reacted = truth[m].reacted
=============================================================================
