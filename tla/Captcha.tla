------------------------------- MODULE Captcha -------------------------------
(***************************************************************************)
(* A captcha of MAX solved by hand: CaptchaLogin turns the fingers on the  *)
(* picture into pointer calls, one after the other, and the worker turns   *)
(* each into steps of the mouse on MAX's page (sendCaptchaPointer).        *)
(***************************************************************************)
EXTENDS Naturals, Sequences, SequencesExt

CONSTANTS
    MaxTouching,  \* bound: presses
    MaxQueued,    \* bound: calls that wait
    MaxSpoilt     \* bound: calls that go wrong

ASSUME CaptchaBounds == {MaxTouching, MaxQueued, MaxSpoilt} \subseteq Nat

VARIABLES
    fingers,       \* fingers on the picture
    onScreen,      \* CaptchaLogin is mounted
    pointerActive, \* CaptchaLogin's pointerActive
    queue,         \* the chain of send(); its head is under way
    line,          \* calls the worker has received, the last of them the one under way if `awaited`
    awaited,
    box,           \* MAX shows the captcha
    mouseDown,     \* the mouse button on MAX's page
    captchaPointerDown,  \* the worker's captchaPointerDown
    spoilt,        \* (history) the stroke was spoilt: a call failed, or it began before the last had ended
    touching, faults

captchaVars == <<fingers, onScreen, pointerActive, queue, line, awaited, box, mouseDown,
                 captchaPointerDown, spoilt, touching, faults>>
app    == <<fingers, onScreen, pointerActive, touching>>
max    == <<box, mouseDown, captchaPointerDown>>

CaptchaInit ==
    /\ fingers = 0 /\ onScreen = TRUE /\ pointerActive = FALSE
    /\ queue = <<>> /\ line = <<>> /\ awaited = FALSE
    /\ box = TRUE /\ mouseDown = FALSE /\ captchaPointerDown = FALSE
    /\ spoilt = FALSE /\ touching = 0 /\ faults = 0

-----------------------------------------------------------------------------
(* The fingers. *)

Put(phase) == Len(queue) < MaxQueued /\ queue' = Append(queue, phase)

PointerDown ==
    /\ onScreen /\ fingers < 2 /\ touching < MaxTouching
    /\ Put("down")
    /\ fingers' = fingers + 1 /\ touching' = touching + 1 /\ pointerActive' = TRUE
    /\ spoilt' = IF fingers = 0 /\ queue = <<>> THEN FALSE
                 ELSE spoilt \/ Contains(queue, "up")
    /\ UNCHANGED <<onScreen, line, awaited, max, faults>>

\* Moves within 50 ms of each other are left out, and moves of which nothing is active.
PointerMove ==
    /\ onScreen /\ fingers > 0 /\ pointerActive
    /\ Put("move")
    /\ UNCHANGED <<app, line, awaited, max, spoilt, faults>>

PointerUp ==
    /\ fingers > 0 /\ fingers' = fingers - 1
    /\ IF onScreen /\ pointerActive THEN Put("up") ELSE UNCHANGED queue
    /\ UNCHANGED <<onScreen, pointerActive, touching, line, awaited, max, spoilt, faults>>

-----------------------------------------------------------------------------
(* The calls. *)

Call ==
    /\ queue # <<>> /\ ~awaited
    /\ line' = Append(line, Head(queue)) /\ awaited' = TRUE
    /\ UNCHANGED <<app, queue, max, spoilt, faults>>

\* The end of a call, answered or failed.
Settled(phase) ==
    pointerActive' = (pointerActive /\ phase # "up")

\* The limiter refuses the call, the connection to the worker is lost, or the worker is
\* too late and carries the call out all the same.
CallFails ==
    /\ queue # <<>> /\ faults < MaxSpoilt /\ faults' = faults + 1
    /\ Settled(Head(queue)) /\ queue' = Tail(queue)
    /\ awaited' = FALSE /\ spoilt' = TRUE
    /\ UNCHANGED <<fingers, onScreen, touching, line, max>>

\* A defect: without a captcha nothing is released.
StrokeOnBox(phase) ==
    CASE box /\ phase = "down" -> mouseDown' = TRUE /\ captchaPointerDown' = TRUE
      [] box /\ phase = "up" /\ captchaPointerDown -> mouseDown' = FALSE /\ captchaPointerDown' = FALSE
      [] OTHER -> UNCHANGED <<mouseDown, captchaPointerDown>>

\* The steps of one call on MAX's page.  A release is let through without a captcha, a
\* press releases what an earlier stroke has left pressed.
Stroke(phase) ==
    CASE ~box /\ phase = "up" /\ captchaPointerDown -> mouseDown' = FALSE /\ captchaPointerDown' = FALSE
      [] box /\ phase = "down" -> mouseDown' = TRUE /\ captchaPointerDown' = TRUE
      [] box /\ phase = "up" /\ captchaPointerDown -> mouseDown' = FALSE /\ captchaPointerDown' = FALSE
      [] OTHER -> UNCHANGED <<mouseDown, captchaPointerDown>>

\* The page throws on the way: of a press that may be after the release before it.
StrokeBreaks(phase) ==
    /\ box /\ faults < MaxSpoilt /\ faults' = faults + 1 /\ spoilt' = TRUE
    /\ mouseDown' \in IF phase = "down" THEN {FALSE, mouseDown} ELSE {mouseDown}
    /\ UNCHANGED captchaPointerDown

\* The answer of the call under way: a state that is no longer the captcha takes the
\* screen away, whatever the fingers do.
Performed ==
    /\ line # <<>> /\ line' = Tail(line)
    /\ \/ Stroke(Head(line)) /\ UNCHANGED <<spoilt, faults>>
       \/ StrokeBreaks(Head(line))
    /\ IF awaited /\ Len(line) = 1
       THEN /\ awaited' = FALSE /\ queue' = Tail(queue)
            /\ Settled(Head(queue))
            /\ onScreen' \in {onScreen, onScreen /\ box}
       ELSE UNCHANGED <<awaited, queue, pointerActive, onScreen>>
    /\ UNCHANGED <<fingers, touching, box>>

\* MAX shows a captcha, or takes it away: it is solved, or replaced by another.
BoxChanges ==
    /\ box' = ~box
    /\ UNCHANGED <<app, queue, line, awaited, mouseDown, captchaPointerDown, spoilt, faults>>

\* The question of the timer is answered, in the middle of a stroke if it was asked before.
PollAnswered ==
    /\ ~box /\ onScreen /\ onScreen' = FALSE
    /\ UNCHANGED <<fingers, pointerActive, touching, queue, line, awaited, max, spoilt, faults>>

CaptchaNext ==
    \/ PollAnswered \/ PointerDown \/ PointerMove \/ PointerUp
    \/ Call \/ CallFails \/ Performed \/ BoxChanges

CaptchaSpec == CaptchaInit /\ [][CaptchaNext]_captchaVars

-----------------------------------------------------------------------------

CaptchaTypeOK ==
    /\ fingers \in 0 .. 2 /\ touching \in 0 .. MaxTouching /\ faults \in 0 .. MaxSpoilt
    /\ queue \in Seq({"down", "move", "up"}) /\ line \in Seq({"down", "move", "up"})
    /\ {onScreen, pointerActive, awaited, box, mouseDown, captchaPointerDown, spoilt} \subseteq BOOLEAN

\* A stroke that is over leaves MAX's mouse released, though the captcha may be taken away
\* in the middle of it and though an earlier stroke was cut off by a failure; only what
\* happens to this stroke's own calls, or a press before the last release was answered, may
\* leave the mouse pressed.
StrokeReleased ==
    onScreen /\ fingers = 0 /\ queue = <<>> /\ line = <<>> /\ ~spoilt => ~mouseDown
=============================================================================
