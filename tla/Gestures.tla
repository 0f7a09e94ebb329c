------------------------------ MODULE Gestures ------------------------------
(***************************************************************************)
(* A finger or a mouse on the messenger's panes.  Three recognisers follow *)
(* the same contact and know nothing of each other: a long press opens the *)
(* menu of a row or message (useLongPressContextMenu), a swipe to the left *)
(* answers a message (useSwipeToReply), a horizontal swipe changes pane or *)
(* folder (useSwipeNavigation).  A touch comes twice, as pointer events    *)
(* (the press) and as touch events (both swipes), and the browser may take *)
(* it away; a mouse comes as pointer events only.                          *)
(*                                                                         *)
(* A place is a distance from where the contact went down, in units of 4   *)
(* pixels.                                                                 *)
(***************************************************************************)
EXTENDS Integers

CONSTANTS
    Xs, Ys,      \* distances a contact moves to
    Folders,     \* number of folders of the chat list
    MaxContacts  \* bound on contacts

ASSUME GesturesAssumption ==
    /\ Xs \subseteq Int /\ Ys \subseteq Nat /\ 0 \in Xs \cap Ys
    /\ Folders \in Nat \ {0} /\ MaxContacts \in Nat

VARIABLES
    contact,   \* the contact, where it is
    press,     \* pointerRef and timerRef of the long press: "none", "waiting" or "fired"
    reply,     \* gestureRef of the swipe to reply
    swipe,     \* gestureRef of the navigation
    suppress,  \* recognisers that suppress the next click
    swallow,   \* a dismissed menu swallows the next click
    menu,      \* the context menu is open
    pane, folder,
    acted,     \* what the contact has done so far
    contacts

gestureVars == <<contact, press, reply, swipe, suppress, swallow, menu, pane, folder, acted, contacts>>

LockDistance   == 2     \* 8 px: AXIS_LOCK_DISTANCE, DIRECTION_LOCK_PX and moveTolerance
ReplyThreshold == 14    \* REPLY_THRESHOLD
FastDistance   == 7     \* MIN_FAST_DISTANCE_PX
PaneThreshold  == 14    \* 18% of a narrow window, at least 56 px

NoContact == [kind |-> "none", x |-> 0, y |-> 0, fingers |-> 0, cancelled |-> FALSE, moved |-> FALSE]
NoSwipe   == [axis |-> "none", x |-> 0]
Pending   == [axis |-> "pending", x |-> 0]

Abs(n)        == IF n < 0 THEN -n ELSE n
Distance2     == LockDistance * LockDistance
Locked(x, y)  == x * x + y * y >= Distance2

GesturesInit ==
    /\ contact = NoContact /\ press = "none" /\ reply = NoSwipe /\ swipe = NoSwipe
    /\ suppress = {} /\ swallow = FALSE /\ menu = FALSE
    /\ pane \in {"list", "conversation"} /\ folder \in 0 .. Folders - 1
    /\ acted = {} /\ contacts = 0

-----------------------------------------------------------------------------
(* The recognisers. *)

\* targetFolderIndex: a swipe to the left goes to the next folder.
TargetFolder(x) == IF x < 0 THEN folder + 1 ELSE folder - 1

CorrectDirection(x) ==
    IF pane = "conversation" THEN x > 0 ELSE x # 0 /\ TargetFolder(x) \in 0 .. Folders - 1

\* The axis of a navigation swipe is settled once.
Navigated(s, x, y) ==
    [axis |-> IF s.axis # "pending" \/ ~Locked(x, y) THEN s.axis
              ELSE IF Abs(x) <= Abs(y) THEN "vertical"
              ELSE IF CorrectDirection(x) THEN "horizontal" ELSE "rejected",
     x |-> x]

\* track
Tracked(r, x, y) ==
    [axis |-> IF r.axis # "pending" \/ ~Locked(x, y) THEN r.axis
              ELSE IF x < 0 /\ Abs(x) > Abs(y) THEN "horizontal" ELSE "vertical",
     x |-> IF x > 0 THEN 0 ELSE x]

Armed(r) == r.axis = "horizontal" /\ Abs(r.x) >= ReplyThreshold

\* finishGesture: far enough, or fast enough.
FarEnough(x, fast) == Abs(x) >= PaneThreshold \/ (fast /\ Abs(x) >= FastDistance)

\* A defect: the direction is not looked at again at the end.
CommittedAnyway(s, fast) == s.axis = "horizontal" /\ FarEnough(s.x, fast)

Committed(s, fast) == s.axis = "horizontal" /\ CorrectDirection(s.x) /\ FarEnough(s.x, fast)

\* commitGesture
Navigate(x) ==
    IF pane = "conversation" THEN pane' = "list" /\ UNCHANGED folder
    ELSE folder' = TargetFolder(x) /\ UNCHANGED pane

-----------------------------------------------------------------------------
(* The contact. *)

\* A message is in the conversation's pane, a row in the list's: rows answer nothing.
Down(kind) ==
    /\ contact.kind \in {"none", "lifted"} /\ ~menu /\ contacts < MaxContacts
    /\ contact' = [NoContact EXCEPT !.kind = kind, !.fingers = 1]
    /\ press' = IF kind = "touch" THEN "waiting" ELSE "none"
    /\ reply' = IF pane = "conversation" THEN Pending ELSE NoSwipe
    /\ swipe' = Pending
    /\ suppress' = IF kind = "touch" THEN {} ELSE suppress \ {"swipe"}
    /\ acted' = {} /\ contacts' = contacts + 1
    /\ UNCHANGED <<swallow, menu, pane, folder>>

InContact == contact.kind \in {"touch", "mouse"}

\* A second finger: the swipes go on following the first, the press ignores it.
SecondFinger ==
    /\ contact.kind = "touch" /\ contact.fingers = 1
    /\ contact' = [contact EXCEPT !.fingers = 2]
    /\ UNCHANGED <<press, reply, swipe, suppress, swallow, menu, pane, folder, acted, contacts>>

Move(x, y) ==
    /\ InContact /\ <<x, y>> # <<contact.x, contact.y>>
    /\ contact' = [contact EXCEPT !.x = x, !.y = y, !.moved = @ \/ Locked(x, y)]
    /\ press' = IF press = "waiting" /\ ~contact.cancelled /\ x * x + y * y > Distance2
                THEN "none" ELSE press
    /\ reply' = IF reply = NoSwipe THEN reply ELSE Tracked(reply, x, y)
    /\ swipe' = IF swipe = NoSwipe THEN swipe ELSE Navigated(swipe, x, y)
    /\ suppress' = IF swipe'.axis = "horizontal" THEN suppress \cup {"swipe"} ELSE suppress
    /\ UNCHANGED <<swallow, menu, pane, folder, acted, contacts>>

\* The browser keeps the pointer to itself (it may scroll): the touch events go on.
PointerTaken ==
    /\ contact.kind = "touch" /\ ~contact.cancelled
    /\ contact' = [contact EXCEPT !.cancelled = TRUE]
    /\ press' = "none"
    /\ UNCHANGED <<reply, swipe, suppress, swallow, menu, pane, folder, acted, contacts>>

\* Something scrolls under the press.
Scroll ==
    /\ press = "waiting" /\ press' = "none"
    /\ UNCHANGED <<contact, reply, swipe, suppress, swallow, menu, pane, folder, acted, contacts>>

\* The mouse leaves the message, or its capture is lost.
ReplyLost ==
    /\ contact.kind = "mouse" /\ reply # NoSwipe /\ reply' = NoSwipe
    /\ UNCHANGED <<contact, press, swipe, suppress, swallow, menu, pane, folder, acted, contacts>>

(* Defects a change of a recogniser could bring in. *)
KeepReply == reply

\* The menu opens in place of an answer.
CancelReply == NoSwipe

PressFires ==
    /\ press = "waiting"
    /\ press' = "fired" /\ menu' = TRUE /\ reply' = CancelReply
    /\ suppress' = suppress \cup {"press"} /\ acted' = acted \cup {"menu"}
    /\ UNCHANGED <<contact, swipe, swallow, pane, folder, contacts>>

\* The right button of a mouse, or the long press of the browser, which ends the touch.
ContextMenu ==
    /\ contact.kind # "mouse" /\ ~menu /\ (InContact => ~contact.moved /\ contact.fingers = 1)
    /\ contact' = NoContact /\ press' = "none" /\ menu' = TRUE
    /\ reply' = CancelReply /\ swipe' = NoSwipe
    /\ acted' = acted \cup (IF InContact THEN {"menu"} ELSE {})
    /\ UNCHANGED <<suppress, swallow, pane, folder, contacts>>

\* The end of a contact, or of one finger of two: each swipe does what it has come to.
Up(fast) ==
    /\ InContact
    /\ LET answers   == Armed(reply)
           navigates == Committed(swipe, fast)
           last     == contact.fingers = 1
       IN /\ IF navigates THEN Navigate(swipe.x) ELSE UNCHANGED <<pane, folder>>
          /\ acted' = acted \cup (IF answers THEN {"reply"} ELSE {})
                            \cup (IF navigates THEN {"navigate"} ELSE {})
          /\ contact' = IF last THEN [contact EXCEPT !.kind = "lifted", !.fingers = 0,
                                                    !.moved = @ /\ contact.kind = "touch"]
                        ELSE [contact EXCEPT !.fingers = 1]
          /\ press' \in IF last THEN {"none"} ELSE {press, "none"}
    /\ reply' = NoSwipe /\ swipe' = NoSwipe
    /\ UNCHANGED <<suppress, swallow, menu, contacts>>

\* touchcancel, pointercancel of a mouse, lost capture.
Cancelled ==
    /\ InContact
    /\ contact' = NoContact /\ press' = "none" /\ reply' = NoSwipe /\ swipe' = NoSwipe
    /\ UNCHANGED <<suppress, swallow, menu, pane, folder, acted, contacts>>

\* The click after a contact, unless a touch has moved: the menu's listener is the first to
\* see it, then the shell, then the row that opens its chat.
Click ==
    /\ contact.kind = "lifted" /\ ~contact.moved /\ contact' = NoContact
    /\ swallow' = FALSE
    /\ suppress' = CASE swallow -> suppress
                     [] ~swallow /\ "swipe" \in suppress -> suppress \ {"swipe"}
                     [] OTHER -> {}
    /\ IF swallow \/ suppress # {} THEN UNCHANGED <<acted, pane>>
       ELSE /\ acted' = acted \cup {"click"}
            /\ pane' = "conversation"
    /\ UNCHANGED <<press, reply, swipe, menu, folder, contacts>>

-----------------------------------------------------------------------------
(* The menu and the pane. *)

\* choose: an action of the menu.
ChooseAction ==
    /\ menu /\ ~InContact /\ menu' = FALSE
    /\ UNCHANGED <<contact, press, reply, swipe, suppress, swallow, pane, folder, acted, contacts>>

\* dismissWithoutPassThrough
DismissMenu ==
    /\ menu /\ ~InContact /\ menu' = FALSE /\ swallow' = TRUE
    /\ UNCHANGED <<contact, press, reply, swipe, suppress, pane, folder, acted, contacts>>

SwallowEnds ==
    /\ swallow /\ swallow' = FALSE
    /\ UNCHANGED <<contact, press, reply, swipe, suppress, menu, pane, folder, acted, contacts>>

\* The back button and the wheel, in the middle of a contact too.
Back ==
    /\ pane = "conversation" /\ ~menu /\ pane' = "list"
    /\ acted' = acted \cup {"back"}
    /\ UNCHANGED <<contact, press, reply, swipe, suppress, swallow, menu, folder, contacts>>

Wheel(x) ==
    /\ x \in {-1, 1} /\ pane = "list" /\ TargetFolder(-x) \in 0 .. Folders - 1
    /\ folder' = TargetFolder(-x)
    /\ UNCHANGED <<contact, press, reply, swipe, suppress, swallow, menu, pane, acted, contacts>>

GesturesNext ==
    \/ \E kind \in {"touch", "mouse"} : Down(kind)
    \/ \E x \in Xs, y \in Ys : Move(x, y)
    \/ \E fast \in BOOLEAN : Up(fast)
    \/ SecondFinger \/ PointerTaken \/ Scroll \/ ReplyLost \/ PressFires \/ ContextMenu \/ Cancelled \/ Click
    \/ ChooseAction \/ DismissMenu \/ SwallowEnds \/ Back \/ \E x \in {-1, 1} : Wheel(x)

GesturesSpec == GesturesInit /\ [][GesturesNext]_gestureVars

-----------------------------------------------------------------------------
GesturesTypeOK ==
    /\ press \in {"none", "waiting", "fired"} /\ folder \in 0 .. Folders - 1
    /\ pane \in {"list", "conversation"} /\ suppress \subseteq {"press", "swipe"}
    /\ {reply.axis, swipe.axis} \subseteq {"none", "pending", "horizontal", "vertical", "rejected"}

(* A swipe that answers a message changes no pane and opens no menu, and   *)
(* neither a swipe of the pane nor a press ends in a click of what is      *)
(* underneath.  One contact may do two things all the same: a press that   *)
(* has opened the menu may become a swipe of the pane, because the         *)
(* navigation does not know of the menu; a click after an answer falls on  *)
(* the message, which does nothing; and if the pane is left in the middle  *)
(* of a swipe the navigation takes it for a swipe of the list.             *)
GestureActsOnce ==
    /\ "reply" \in acted /\ "back" \notin acted => acted \cap {"menu", "navigate"} = {}
    /\ "click" \in acted => acted \cap {"menu", "navigate"} = {}
=============================================================================
