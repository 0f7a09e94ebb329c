---------------------------- MODULE Notifications ----------------------------
(***************************************************************************)
(* How an incoming MAX message becomes a message of the Telegram bot, for  *)
(* one user: the worker numbers the events of the page it has open, and    *)
(* in the API RuntimeNotificationService, NotificationRouter and           *)
(* NotificationDeduplicator decide whether the bot speaks.  The user's     *)
(* preferences are a row of the database.                                  *)
(*                                                                         *)
(* From an event to the call of Telegram nothing but decryption is         *)
(* awaited, which is over before the next event is read: handling is one   *)
(* step.                                                                   *)
(***************************************************************************)
EXTENDS Integers, Sequences, FiniteSets, SequencesExt

CONSTANTS
    News,          \* incoming messages, and
    NewsChat,      \* the chat of each
    RecentLimit,   \* message ids the deduplicator remembers: 256
    MutedLimit,    \* chats a user may mute for the bot: 250
    MaxChangesOfMind, \* bound: mutings and unmutings, in MAX and for the bot
    MaxRevisions,  \* bound: edits of and reactions to a message
    MaxReopenings, \* bound: sessions the worker opens anew
    MaxApiStarts,  \* bound: starts of the API
    MaxRefusals    \* bound: calls Telegram refuses

ASSUME NotificationsAssumption ==
    /\ NewsChat \in [News -> Range(NewsChat)]
    /\ {RecentLimit, MutedLimit} \subseteq Nat \ {0}
    /\ {MaxChangesOfMind, MaxRevisions, MaxReopenings, MaxApiStarts, MaxRefusals} \subseteq Nat

VARIABLES
    mutedInMax,  \* chats the user has muted in MAX
    written,     \* messages that have been written
    nextNumber,  \* LiveEventAdapter.sequence of the session that is open
    events,      \* events on their way to the API
    preferences, \* the user's row: [enabled, muted]
    listening,   \* the service: "off", "listing" until it has its first list, "on"
    mutedChats,  \* RuntimeNotificationService.mutedChats
    cursor,      \* NotificationDeduplicator.cursors
    recentIds,   \* NotificationDeduplicator.recentIds, oldest first
    notified,        \* how often this API has notified the user of a message
    forgotten,   \* (history) ids recentIds has dropped
    unannounced, \* (history) messages the user wanted to hear of and did not
    used         \* how much of each bound is used

inMax         == <<mutedInMax, written>>
deduplicating == <<cursor, recentIds, notified, forgotten, unannounced>>
notificationVars ==
    <<inMax, nextNumber, events, preferences, listening, mutedChats, deduplicating, used>>

NewsChats == Range(NewsChat)

NotificationsInit ==
    /\ mutedInMax = {} /\ written = {} /\ nextNumber = 0 /\ events = <<>>
    /\ preferences = [enabled |-> TRUE, muted |-> {}]
    /\ listening = "off" /\ mutedChats = {}
    /\ cursor = -1 /\ recentIds = <<>> /\ notified = [m \in News |-> 0]
    /\ forgotten = {} /\ unannounced = {}
    /\ used = [minds |-> 0, revisions |-> 0, reopenings |-> 0, starts |-> 0, refusals |-> 0]

Uses(bound, limit) == used[bound] < limit /\ used' = [used EXCEPT ![bound] = @ + 1]

-----------------------------------------------------------------------------
(* MAX and the worker *)

\* Defect: a new adapter goes on counting where the last one stopped.
NumbersGoOn == nextNumber

\* A new session of the user has a new adapter, which counts from 0.
FirstNumber == 0

Emit(m) ==
    /\ events' = Append(events, [message |-> m, number |-> nextNumber])
    /\ nextNumber' = nextNumber + 1
    /\ UNCHANGED <<mutedInMax, preferences, listening, mutedChats, deduplicating>>

MessageComes(m) == m \notin written /\ written' = written \cup {m} /\ Emit(m) /\ UNCHANGED used

\* An edit of a message and a reaction to it are notified with the message itself.
MessageRevised(m) ==
    m \in written /\ Uses("revisions", MaxRevisions) /\ Emit(m) /\ UNCHANGED written

MuteInMax(c) ==
    /\ Uses("minds", MaxChangesOfMind)
    /\ mutedInMax' = (mutedInMax \ {c}) \cup ({c} \ mutedInMax)
    /\ UNCHANGED <<written, nextNumber, events, preferences, listening, mutedChats, deduplicating>>

\* The worker restarts, or the user signs out and in again.
SessionReopens ==
    /\ Uses("reopenings", MaxReopenings)
    /\ nextNumber' = FirstNumber /\ events' = <<>>
    /\ UNCHANGED <<inMax, preferences, listening, mutedChats, deduplicating>>

-----------------------------------------------------------------------------
(* The service *)

\* start subscribes before it asks for the chats of the active users.
ServiceStarts ==
    /\ listening = "off" /\ Uses("starts", MaxApiStarts)
    /\ listening' = "listing"
    /\ UNCHANGED <<inMax, nextNumber, events, preferences, mutedChats, deduplicating>>

(* The list is the only thing that tells the service what is muted in MAX: *)
(* the worker sends no event about chats.                                  *)
ChatsListed ==
    /\ listening = "listing" /\ listening' = "on"
    /\ mutedChats' \in {mutedInMax, mutedChats}
    /\ UNCHANGED <<inMax, nextNumber, events, preferences, deduplicating, used>>

\* The process ends, and what was coming to it is lost; only the row is kept.
ServiceStops ==
    /\ listening # "off"
    /\ listening' = "off" /\ mutedChats' = {} /\ events' = <<>>
    /\ cursor' = -1 /\ recentIds' = <<>> /\ notified' = [m \in News |-> 0] /\ forgotten' = {}
    /\ UNCHANGED <<inMax, nextNumber, preferences, unannounced, used>>

PassesUnheard == listening = "off" /\ events # <<>> /\ events' = Tail(events)
    /\ UNCHANGED <<inMax, nextNumber, preferences, listening, mutedChats, deduplicating, used>>

(* NotificationDeduplicator *)

\* Defect: only the number of an event tells it from those before.
AcceptsByNumber(e) == e.number > cursor

Accepts(e) == e.number > cursor /\ ~Contains(recentIds, e.message)

Remembered(id) ==
    LET longer == Append(recentIds, id)
    IN  IF Len(longer) > RecentLimit THEN Tail(longer) ELSE longer

(* NotificationRouter *)

\* Wanted of the settings that were read before the event was accepted.
WantsToHear(c) == preferences.enabled /\ c \notin mutedChats /\ c \notin preferences.muted

(* The id is taken down before Telegram is called: a call that fails is    *)
(* not made again.                                                         *)
Notify(e) ==
    /\ cursor' = e.number /\ recentIds' = Remembered(e.message)
    /\ forgotten' = forgotten \cup (Range(recentIds) \ Range(recentIds'))
    /\ \/ WantsToHear(NewsChat[e.message])
          /\ notified' = [notified EXCEPT ![e.message] = @ + 1] /\ UNCHANGED used
       \/ WantsToHear(NewsChat[e.message]) /\ Uses("refusals", MaxRefusals) /\ UNCHANGED notified
       \/ ~WantsToHear(NewsChat[e.message]) /\ UNCHANGED <<notified, used>>
    /\ UNCHANGED unannounced

\* (history) the user wants to hear of what has not been notified to him.
PassOver(e) ==
    /\ unannounced' = IF notified[e.message] > 0 \/ Contains(recentIds, e.message)
                         \/ ~WantsToHear(NewsChat[e.message])
                      THEN unannounced ELSE unannounced \cup {e.message}
    /\ UNCHANGED <<cursor, recentIds, notified, forgotten, used>>

HandleEvent ==
    /\ listening # "off" /\ events # <<>> /\ events' = Tail(events)
    /\ IF Accepts(Head(events)) THEN Notify(Head(events)) ELSE PassOver(Head(events))
    /\ UNCHANGED <<inMax, nextNumber, preferences, listening, mutedChats>>

-----------------------------------------------------------------------------
(* The routes of the preferences *)

Prefer(next) ==
    /\ Uses("minds", MaxChangesOfMind)
    /\ preferences' = next
    /\ UNCHANGED <<inMax, nextNumber, events, listening, mutedChats, deduplicating>>

SetEnabled(enabled) == Prefer([preferences EXCEPT !.enabled = enabled])

SetMuted(c, muted) ==
    LET next == IF muted THEN preferences.muted \cup {c} ELSE preferences.muted \ {c}
    IN  Cardinality(next) <= MutedLimit /\ Prefer([preferences EXCEPT !.muted = next])

-----------------------------------------------------------------------------

NotificationsNext ==
    \/ \E m \in News : MessageComes(m) \/ MessageRevised(m)
    \/ \E c \in NewsChats : MuteInMax(c) \/ \E muted \in BOOLEAN : SetMuted(c, muted)
    \/ \E enabled \in BOOLEAN : SetEnabled(enabled)
    \/ SessionReopens \/ ServiceStarts \/ ChatsListed \/ ServiceStops \/ PassesUnheard \/ HandleEvent

NotificationsSpec == NotificationsInit /\ [][NotificationsNext]_notificationVars

-----------------------------------------------------------------------------
(* Properties *)

\* What each variable holds.
NotificationsTypeOK ==
    /\ mutedInMax \subseteq NewsChats /\ mutedChats \subseteq NewsChats /\ written \subseteq News
    /\ nextNumber \in Nat /\ events \in Seq([message : News, number : Nat])
    /\ preferences \in [enabled : BOOLEAN, muted : SUBSET NewsChats]
    /\ Cardinality(preferences.muted) <= MutedLimit
    /\ listening \in {"off", "listing", "on"}
    /\ cursor \in Nat \cup {-1} /\ recentIds \in Seq(News) /\ Len(recentIds) <= RecentLimit
    /\ notified \in [News -> Nat] /\ forgotten \subseteq News /\ unannounced \subseteq News

(* However often a message is edited, reacted to or sent anew by a session *)
(* that counts from 0 again, the bot tells of it once, unless as many      *)
(* others as the deduplicator remembers came in between.                   *)
NotifiedOnce == \A m \in News : notified[m] > 1 => m \in forgotten

(* The README: the bot sends a notification of a new message.  A message   *)
(* the API has had from the worker and the user wants to hear of is notified,  *)
(* whatever has restarted before.                                          *)
Announced == unannounced = {}
=============================================================================
