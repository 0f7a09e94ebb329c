---------------------------- MODULE MediaViewer ----------------------------
(***************************************************************************)
(* The viewer of a chat's pictures and videos (MediaViewer.tsx) with the   *)
(* two recognisers that follow its pointers: useMediaCarousel turns pages, *)
(* useMediaTransform zooms and moves a picture.  A third one in the viewer *)
(* closes it on a vertical drag.  The viewer also keeps what must be given *)
(* back: the object URLs of the media it has loaded and, in Telegram, the  *)
(* full screen.                                                            *)
(*                                                                         *)
(* Pointer 1 is the primary one; its place is a distance from where it     *)
(* went down, in pixels.  The scale of a picture is 1 or more.             *)
(***************************************************************************)
EXTENDS Integers, FiniteSets

CONSTANTS
    MediaCount,        \* items of the gallery
    Video,        \* those that are videos
    PlacesX, PlacesY,
    MaxOpenings, MaxTouches \* bounds

ASSUME MediaViewerAssumption ==
    /\ MediaCount \in Nat \ {0} /\ Video \subseteq 1 .. MediaCount
    /\ PlacesX \subseteq Int /\ PlacesY \subseteq Nat /\ {MaxOpenings, MaxTouches} \subseteq Nat

VARIABLES
    open,      \* the viewer is mounted
    opening,   \* the how manieth viewer it is
    index,     \* the item it shows
    zoomed,    \* scale > 1
    place,     \* where pointer 1 is
    down,      \* pointers that are down
    onImage,   \* those that went down on the picture: activePointers of the transform
    drag,      \* the carousel's active pointer
    dismiss,   \* the dismissal's pointer
    tapped,    \* lastTouchAt is recent
    cache,     \* resolved items: "ready", with an object URL, or "failed"
    pending,   \* items being fetched, with the viewer that asked
    urls,      \* object URLs that are not revoked, with their viewer
    lease,     \* the full screen: "none", "asked", "acquired" or "refused"
    released, exited, \* the lease was released, Telegram was told
    exitTimer, \* fullscreenExitTimer is set
    viewerActed,     \* what the pointers have done since all were up
    touches

viewerVars == <<open, opening, index, zoomed, place, down, onImage, drag, dismiss, tapped, cache,
                pending, urls, lease, released, exited, exitTimer, viewerActed, touches>>

Items   == 1 .. MediaCount
Image   == Items \ Video
NoDrag  == [axis |-> "none"]
Undecided == [axis |-> "pending"]
Entries == [Items -> {"none", "ready", "failed"}]
Size(n) == IF n < 0 THEN -n ELSE n

ViewerInit ==
    /\ open = FALSE /\ opening = 0 /\ index = 1 /\ zoomed = FALSE /\ place = <<0, 0>>
    /\ down = {} /\ onImage = {} /\ drag = NoDrag /\ dismiss = NoDrag /\ tapped = FALSE
    /\ cache = [i \in Items |-> "none"] /\ pending = {} /\ urls = {}
    /\ lease = "none" /\ released = FALSE /\ exited = FALSE /\ exitTimer = FALSE
    /\ viewerActed = {} /\ touches = 0

-----------------------------------------------------------------------------
(* What must be given back. *)

\* needed: the item shown and the pictures next to it, unless they are there or under way.
Needed(i) == {i} \cup (Image \cap {i - 1, i + 1})

Fetch(i, n) ==
    pending' = pending \cup {<<m, n>> : m \in {k \in Needed(i) : cache'[k] = "none"}}

\* exitIfReleased
ExitIfReleased == exited' = (exited \/ (released' /\ lease' = "acquired"))

ReleaseFullscreen == released' = TRUE /\ UNCHANGED lease /\ ExitIfReleased

KeepFullscreen == UNCHANGED <<lease, released, exited>>

FullscreenAnswered ==
    /\ lease = "asked" /\ lease' \in {"acquired", "refused"}
    /\ UNCHANGED released /\ ExitIfReleased
    /\ UNCHANGED <<open, opening, index, zoomed, place, down, onImage, drag, dismiss, tapped, cache,
                   pending, urls, exitTimer, viewerActed, touches>>

\* A defect: what comes for a viewer that was closed is kept.
RegisterAnyway(i, n) == urls' = urls \cup {<<i, n>>} /\ UNCHANGED cache

Register(i, n) ==
    IF open /\ n = opening
    THEN urls' = urls \cup {<<i, n>>} /\ cache' = [cache EXCEPT ![i] = "ready"]
    ELSE UNCHANGED <<urls, cache>>

\* resolveMediaUrl's end, and its failure.
Resolved(i, n) ==
    /\ <<i, n>> \in pending /\ pending' = pending \ {<<i, n>>}
    /\ Register(i, n)
    /\ UNCHANGED <<open, opening, index, zoomed, place, down, onImage, drag, dismiss, tapped, lease,
                   released, exited, exitTimer, viewerActed, touches>>

NotResolved(i, n) ==
    /\ <<i, n>> \in pending /\ pending' = pending \ {<<i, n>>}
    /\ cache' = IF open /\ n = opening THEN [cache EXCEPT ![i] = "failed"] ELSE cache
    /\ UNCHANGED <<open, opening, index, zoomed, place, down, onImage, drag, dismiss, tapped, urls,
                   lease, released, exited, exitTimer, viewerActed, touches>>

-----------------------------------------------------------------------------
(* Opening and closing. *)

\* A tap on a picture asks for the full screen where Telegram has it, and opens the viewer.
OpenViewer(i) ==
    /\ ~open /\ opening < MaxOpenings /\ ~exitTimer
    /\ open' = TRUE /\ opening' = opening + 1 /\ index' = i
    /\ lease' \in {"none", "asked", "acquired"} /\ released' = FALSE /\ exited' = FALSE
    /\ cache' = [n \in Items |-> "none"] /\ Fetch(i, opening + 1)
    /\ zoomed' = FALSE /\ drag' = NoDrag /\ dismiss' = NoDrag /\ tapped' = FALSE
    /\ place' = <<0, 0>> /\ down' = {} /\ onImage' = {} /\ viewerActed' = {}
    /\ UNCHANGED <<urls, exitTimer, touches>>

\* The viewer goes: its URLs are revoked, what it fetches is aborted, the full screen is left soon.
Unmount ==
    /\ open' = FALSE /\ exitTimer' = TRUE
    /\ urls' = {u \in urls : u[2] # opening} /\ cache' = [n \in Items |-> "none"]
    /\ drag' = NoDrag /\ dismiss' = NoDrag /\ onImage' = {} /\ zoomed' = FALSE /\ tapped' = FALSE

\* close: the button, Escape and the back button.
CloseViewer ==
    /\ open /\ Unmount /\ ReleaseFullscreen
    /\ UNCHANGED <<opening, index, place, down, pending, viewerActed, touches>>

\* The item is gone, or another chat is selected: Conversation renders no viewer.
ItemGone ==
    /\ open /\ Unmount /\ KeepFullscreen
    /\ UNCHANGED <<opening, index, place, down, pending, viewerActed, touches>>

ExitTimer ==
    /\ exitTimer /\ exitTimer' = FALSE /\ ReleaseFullscreen
    /\ UNCHANGED <<open, opening, index, zoomed, place, down, onImage, drag, dismiss, tapped, cache,
                   pending, urls, viewerActed, touches>>

-----------------------------------------------------------------------------
(* Pages and zoom. *)

\* The effects of another item: its zoom and the drag of the page start anew.
ShowMedia(i) ==
    /\ index' = i /\ zoomed' = FALSE /\ onImage' = {} /\ drag' = NoDrag
    /\ UNCHANGED cache /\ Fetch(i, opening)

SamePage == UNCHANGED <<index, cache, pending>>

SamePageGone == UNCHANGED <<index, pending>>

\* selectPrevious, selectNext
Turn(i) ==
    /\ open /\ i \in Items \cap {index - 1, index + 1} /\ ShowMedia(i)
    /\ UNCHANGED <<open, opening, place, down, dismiss, tapped, urls, lease, released, exited,
                   exitTimer, viewerActed, touches>>

\* zoomIn, zoomOut, reset and the wheel: a zoomed picture is not dragged to the next.
Zoom(reset) ==
    /\ open /\ index \in Image /\ zoomed' \in BOOLEAN /\ (reset => ~zoomed')
    /\ onImage' = IF reset THEN {} ELSE onImage
    /\ drag' = IF zoomed' THEN NoDrag ELSE drag
    /\ UNCHANGED <<open, opening, index, place, down, dismiss, tapped, cache, pending, urls, lease,
                   released, exited, exitTimer, viewerActed, touches>>

-----------------------------------------------------------------------------
(* Pointers. *)

\* On the picture, or beside it: the picture's handlers come before those of the stage.
FingerDown(p, image) ==
    /\ open /\ down = (IF p = 1 THEN {} ELSE {1}) /\ (image => index \in Image)
    /\ touches < MaxTouches /\ touches' = touches + 1
    /\ down' = down \cup {p} /\ onImage' = IF image THEN onImage \cup {p} ELSE onImage
    /\ place' = IF p = 1 THEN <<0, 0>> ELSE place
    /\ dismiss' = IF p = 1 /\ ~zoomed THEN Undecided ELSE NoDrag
    /\ drag' = CASE p = 2 /\ image -> NoDrag
                 [] p = 1 /\ drag = NoDrag /\ ~zoomed -> Undecided
                 [] OTHER -> drag
    /\ viewerActed' = (IF down = {} THEN {} ELSE viewerActed) \cup (IF onImage' = {1, 2} THEN {"pinch"} ELSE {})
    /\ UNCHANGED <<open, opening, index, zoomed, tapped, cache, pending, urls, lease, released,
                   exited, exitTimer>>

\* Two pointers on the picture zoom it.
Pinch ==
    /\ open /\ onImage = {1, 2} /\ zoomed' \in BOOLEAN
    /\ drag' = IF zoomed' THEN NoDrag ELSE drag
    /\ UNCHANGED <<open, opening, index, place, down, onImage, dismiss, tapped, cache, pending, urls,
                   lease, released, exited, exitTimer, viewerActed, touches>>

\* trackDismiss: 10 px settle the axis.
TrackDismiss(x, y) ==
    IF dismiss.axis # "pending" \/ (Size(x) < 10 /\ y < 10) THEN dismiss
    ELSE [axis |-> IF y > Size(x) THEN "vertical" ELSE "horizontal"]

(* Defects a change of the viewer could bring in. *)
DragOn(d, x, y) == d

\* A vertical dismissal ends the page's drag.
Dismissing(d, x, y) == IF TrackDismiss(x, y).axis = "vertical" /\ dismiss.axis = "pending"
                       THEN NoDrag ELSE d

\* The carousel's onPointerMove: more than 8 px settle the axis.
TrackDrag(d, x, y) ==
    IF d.axis # "pending" \/ (zoomed /\ index \in Image) \/ (Size(x) <= 8 /\ y <= 8) THEN d
    ELSE IF y >= Size(x) THEN NoDrag ELSE [axis |-> "horizontal"]

FingerMoves(x, y) ==
    /\ open /\ 1 \in down /\ place # <<x, y>> /\ place' = <<x, y>>
    /\ zoomed' \in IF onImage = {1, 2} THEN BOOLEAN ELSE {zoomed}
    /\ dismiss' = TrackDismiss(x, y)
    /\ drag' = IF zoomed' /\ ~zoomed THEN NoDrag ELSE TrackDrag(Dismissing(drag, x, y), x, y)
    /\ UNCHANGED <<open, opening, index, down, onImage, tapped, cache, pending, urls, lease, released,
                   exited, exitTimer, viewerActed, touches>>

\* canSelect: a page to the side, far or fast enough.
NextPage(fast) ==
    LET x == place[1] IN
      IF drag.axis = "horizontal" /\ (Size(x) >= 72 \/ (fast /\ Size(x) >= 24))
      THEN Items \cap {IF x < 0 THEN index + 1 ELSE index - 1} ELSE {}

\* endDismiss
Dismissed(p, fast) == p = 1 /\ dismiss.axis = "vertical" /\ (place[2] >= 96 \/ fast)

\* The picture's handlers, then the dismissal, then the carousel.
FingerUp(p, fast, touch) ==
    /\ open /\ p \in down /\ down' = down \ {p}
    /\ LET tap   == touch /\ p \in onImage /\ ~zoomed
           pages == IF p = 1 THEN NextPage(fast) ELSE {}
           zooms == tap /\ tapped
       IN /\ IF Dismissed(p, fast) THEN Unmount /\ ReleaseFullscreen /\ SamePageGone
             ELSE /\ KeepFullscreen /\ UNCHANGED <<open, exitTimer, urls>> /\ dismiss' = NoDrag
                  /\ tapped' = IF tap THEN ~tapped ELSE tapped
                  /\ IF pages # {} THEN \E i \in pages : ShowMedia(i)
                     ELSE /\ zoomed' = (zoomed \/ zooms) /\ onImage' = onImage \ {p}
                          /\ drag' = IF p = 1 \/ zooms THEN NoDrag ELSE drag
                          /\ SamePage
          /\ viewerActed' = viewerActed \cup (IF Dismissed(p, fast) THEN {"close"} ELSE {})
                            \cup (IF pages # {} THEN {"turn"} ELSE {})
    /\ UNCHANGED <<opening, place, touches>>

\* pointercancel
PointerCancel(p) ==
    /\ open /\ p \in down /\ down' = down \ {p} /\ onImage' = onImage \ {p}
    /\ dismiss' = NoDrag /\ drag' = IF p = 1 THEN NoDrag ELSE drag
    /\ UNCHANGED <<open, opening, index, zoomed, place, tapped, cache, pending, urls, lease, released,
                   exited, exitTimer, viewerActed, touches>>

\* A pointer leaves uncaptured, or loses its capture.
LostCapture(p) ==
    /\ open /\ p \in down /\ onImage' = onImage \ {p} /\ drag' = IF p = 1 THEN NoDrag ELSE drag
    /\ UNCHANGED <<open, opening, index, zoomed, place, down, dismiss, tapped, cache, pending, urls,
                   lease, released, exited, exitTimer, viewerActed, touches>>

TapForgotten ==
    /\ tapped /\ tapped' = FALSE
    /\ UNCHANGED <<open, opening, index, zoomed, place, down, onImage, drag, dismiss, cache, pending,
                   urls, lease, released, exited, exitTimer, viewerActed, touches>>

ViewerNext ==
    \/ \E i \in Items : OpenViewer(i) \/ Turn(i)
    \/ \E f \in pending : Resolved(f[1], f[2]) \/ NotResolved(f[1], f[2])
    \/ CloseViewer \/ ItemGone \/ ExitTimer \/ FullscreenAnswered \/ Pinch \/ TapForgotten
    \/ \E reset \in BOOLEAN : Zoom(reset)
    \/ \E p \in {1, 2}, image \in BOOLEAN : FingerDown(p, image)
    \/ \E x \in PlacesX, y \in PlacesY : FingerMoves(x, y)
    \/ \E p \in {1, 2}, fast, touch \in BOOLEAN : FingerUp(p, fast, touch)
    \/ \E p \in {1, 2} : PointerCancel(p) \/ LostCapture(p)

ViewerSpec == ViewerInit /\ [][ViewerNext]_viewerVars

-----------------------------------------------------------------------------
ViewerTypeOK ==
    /\ index \in Items /\ onImage \subseteq down /\ down \subseteq {1, 2} /\ cache \in Entries
    /\ pending \cup urls \subseteq Items \X (1 .. MaxOpenings)
    /\ drag.axis \in {"none", "pending", "horizontal"}
    /\ dismiss.axis \in {"none", "pending", "horizontal", "vertical"}

(* What the viewer takes it gives back, however it ends: a URL is not      *)
(* revoked while it is shown and always after, and when the viewer is gone *)
(* the full screen it was given is left, also if it was given late.        *)
ViewerReleases ==
    /\ {u \in urls : ~open \/ u[2] # opening} = {}
    /\ open => \A i \in Items : cache[i] = "ready" <=> <<i, opening>> \in urls
    /\ ~open /\ ~exitTimer /\ lease = "acquired" => exited
    /\ open => ~exited

(* What the pointers do from down to up is one thing: a drag that closes   *)
(* the viewer turns no page, and a pinch does neither.                     *)
ViewerActsOnce == Cardinality(viewerActed) <= 1
=============================================================================
