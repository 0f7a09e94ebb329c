------------------------------ MODULE MCMiniApp ------------------------------
(***************************************************************************)
(* What the user has before them and what the API does for it: the Mini    *)
(* App's chats, its gestures, its media viewer, the sign-in at MAX with    *)
(* its captcha, the API's requests, the bot's approvals and notifications. *)
(* They share no variable: each behaviour moves one of them, chosen at     *)
(* first, which shows all there is to see of each.                         *)
(***************************************************************************)
EXTENDS Messenger, Gestures, MediaViewer, Login, Captcha, Requests, Accounts, Notifications, TLC

CONSTANTS Parts, a, b, p1, p2, n1, n2, d1, d2

VARIABLE part

userVars == <<messengerVars, gestureVars, viewerVars>>
apiVars  == <<loginVars, captchaVars, requestVars>>
botVars  == <<accountVars, notificationVars>>
miniAppVars == <<part, userVars, apiVars, botVars>>

MCRoomOf   == p1 :> a @@ p2 :> b
MCNewsChat == n1 :> d1 @@ n2 :> d2

\* Distances on both sides of the thresholds.
MCXs == {-14, -7, -2, 0, 2, 7, 14}
MCYs == {0, 3}
MCPlacesX == {-100, 9}
MCPlacesY == {0, 100}

MiniAppInit ==
    /\ MessengerInit /\ GesturesInit /\ ViewerInit /\ LoginInit /\ CaptchaInit /\ RequestsInit
    /\ AccountsInit /\ NotificationsInit /\ part \in Parts
    /\ part # "gestures" => pane = "list" /\ folder = 0
    /\ part # "login" => page = "method"

\* What the moves of each part leave alone.
BesideMessenger == <<part, gestureVars, viewerVars, apiVars, botVars>>
BesideGestures == <<part, messengerVars, viewerVars, apiVars, botVars>>
BesideViewer == <<part, messengerVars, gestureVars, apiVars, botVars>>
BesideLogin == <<part, userVars, captchaVars, requestVars, botVars>>
BesideCaptcha == <<part, userVars, loginVars, requestVars, botVars>>
BesideRequests == <<part, userVars, loginVars, captchaVars, botVars>>
BesideAccounts == <<part, userVars, apiVars, notificationVars>>
BesideBot == <<part, userVars, apiVars, accountVars>>

MiniAppNext ==
    \/ part = "messenger" /\ UserActs /\ UNCHANGED BesideMessenger
    \/ part = "messenger" /\ Goes_on /\ UNCHANGED BesideMessenger
    \/ part = "messenger" /\ LiveEvent /\ UNCHANGED BesideMessenger
    \/ part = "messenger" /\ Linked /\ UNCHANGED BesideMessenger
    \/ part = "messenger" /\ Elsewhere /\ UNCHANGED BesideMessenger
    \/ part = "messenger" /\ (\E t \in work : Handle(t)) /\ UNCHANGED BesideMessenger
    \/ part = "gestures" /\ (\E kind \in {"touch", "mouse"} : Down(kind)) /\ UNCHANGED BesideGestures
    \/ part = "gestures" /\ (\E x \in Xs, y \in Ys : Move(x, y)) /\ UNCHANGED BesideGestures
    \/ part = "gestures" /\ (\E fast \in BOOLEAN : Up(fast)) /\ UNCHANGED BesideGestures
    \/ part = "gestures" /\ SecondFinger /\ UNCHANGED BesideGestures
    \/ part = "gestures" /\ PointerTaken /\ UNCHANGED BesideGestures
    \/ part = "gestures" /\ Scroll /\ UNCHANGED BesideGestures
    \/ part = "gestures" /\ ReplyLost /\ UNCHANGED BesideGestures
    \/ part = "gestures" /\ PressFires /\ UNCHANGED BesideGestures
    \/ part = "gestures" /\ ContextMenu /\ UNCHANGED BesideGestures
    \/ part = "gestures" /\ Cancelled /\ UNCHANGED BesideGestures
    \/ part = "gestures" /\ Click /\ UNCHANGED BesideGestures
    \/ part = "gestures" /\ ChooseAction /\ UNCHANGED BesideGestures
    \/ part = "gestures" /\ DismissMenu /\ UNCHANGED BesideGestures
    \/ part = "gestures" /\ SwallowEnds /\ UNCHANGED BesideGestures
    \/ part = "gestures" /\ Back /\ UNCHANGED BesideGestures
    \/ part = "gestures" /\ (\E x \in {-1, 1} : Wheel(x)) /\ UNCHANGED BesideGestures
    \/ part = "viewer" /\ (\E i \in Items : OpenViewer(i)) /\ UNCHANGED BesideViewer
    \/ part = "viewer" /\ (\E i \in Items : Turn(i)) /\ UNCHANGED BesideViewer
    \/ part = "viewer" /\ (\E f \in pending : Resolved(f[1], f[2])) /\ UNCHANGED BesideViewer
    \/ part = "viewer" /\ (\E f \in pending : NotResolved(f[1], f[2])) /\ UNCHANGED BesideViewer
    \/ part = "viewer" /\ CloseViewer /\ UNCHANGED BesideViewer
    \/ part = "viewer" /\ ItemGone /\ UNCHANGED BesideViewer
    \/ part = "viewer" /\ ExitTimer /\ UNCHANGED BesideViewer
    \/ part = "viewer" /\ FullscreenAnswered /\ UNCHANGED BesideViewer
    \/ part = "viewer" /\ Pinch /\ UNCHANGED BesideViewer
    \/ part = "viewer" /\ TapForgotten /\ UNCHANGED BesideViewer
    \/ part = "viewer" /\ (\E reset \in BOOLEAN : Zoom(reset)) /\ UNCHANGED BesideViewer
    \/ part = "viewer" /\ (\E p \in {1, 2}, image \in BOOLEAN : FingerDown(p, image)) /\ UNCHANGED BesideViewer
    \/ part = "viewer" /\ (\E x \in PlacesX, y \in PlacesY : FingerMoves(x, y)) /\ UNCHANGED BesideViewer
    \/ part = "viewer" /\ (\E p \in {1, 2}, fast, touch \in BOOLEAN : FingerUp(p, fast, touch)) /\ UNCHANGED BesideViewer
    \/ part = "viewer" /\ (\E p \in {1, 2} : PointerCancel(p)) /\ UNCHANGED BesideViewer
    \/ part = "viewer" /\ (\E p \in {1, 2} : LostCapture(p)) /\ UNCHANGED BesideViewer
    \/ part = "login" /\ (\E p \in Phones : AskStatus(p)) /\ UNCHANGED BesideLogin
    \/ part = "login" /\ (\E p \in Phones : Poll(p)) /\ UNCHANGED BesideLogin
    \/ part = "login" /\ (\E p \in Phones : AskPicture(p)) /\ UNCHANGED BesideLogin
    \/ part = "login" /\ (\E p \in Phones : Submit(p)) /\ UNCHANGED BesideLogin
    \/ part = "login" /\ (\E p \in Phones : LeaveMax(p)) /\ UNCHANGED BesideLogin
    \/ part = "login" /\ (\E p \in Phones, tab \in {"phone", "qr"} : ChooseTab(p, tab)) /\ UNCHANGED BesideLogin
    \/ part = "login" /\ (\E c \in calls1 : Late(c)) /\ UNCHANGED BesideLogin
    \/ part = "login" /\ (\E c \in calls1 : Perform(c)) /\ UNCHANGED BesideLogin
    \/ part = "login" /\ (\E c \in calls1 : Answered(c)) /\ UNCHANGED BesideLogin
    \/ part = "login" /\ PageMoves /\ UNCHANGED BesideLogin
    \/ part = "login" /\ ClockTicks /\ UNCHANGED BesideLogin
    \/ part = "captcha" /\ PollAnswered /\ UNCHANGED BesideCaptcha
    \/ part = "captcha" /\ PointerDown /\ UNCHANGED BesideCaptcha
    \/ part = "captcha" /\ PointerMove /\ UNCHANGED BesideCaptcha
    \/ part = "captcha" /\ PointerUp /\ UNCHANGED BesideCaptcha
    \/ part = "captcha" /\ Call /\ UNCHANGED BesideCaptcha
    \/ part = "captcha" /\ CallFails /\ UNCHANGED BesideCaptcha
    \/ part = "captcha" /\ Performed /\ UNCHANGED BesideCaptcha
    \/ part = "captcha" /\ BoxChanges /\ UNCHANGED BesideCaptcha
    \/ part = "requests" /\ (\E t \in Serving, name \in DOMAIN Routes : Receive(t, name)) /\ UNCHANGED BesideRequests
    \/ part = "requests" /\ (\E t \in Serving : MakeDirectory(t)) /\ UNCHANGED BesideRequests
    \/ part = "requests" /\ (\E t \in Serving : WriteFile(t)) /\ UNCHANGED BesideRequests
    \/ part = "requests" /\ (\E t \in Serving : Request(t)) /\ UNCHANGED BesideRequests
    \/ part = "requests" /\ (\E t \in Serving : GivenUp(t)) /\ UNCHANGED BesideRequests
    \/ part = "requests" /\ (\E t \in Serving : RemoveUpload(t)) /\ UNCHANGED BesideRequests
    \/ part = "requests" /\ (\E t \in Serving : RemoveDirectory(t)) /\ UNCHANGED BesideRequests
    \/ part = "requests" /\ Operation /\ UNCHANGED BesideRequests
    \/ part = "requests" /\ Attachment /\ UNCHANGED BesideRequests
    \/ part = "requests" /\ FetchMedia /\ UNCHANGED BesideRequests
    \/ part = "requests" /\ StoreMedia /\ UNCHANGED BesideRequests
    \/ part = "requests" /\ CloseSession /\ UNCHANGED BesideRequests
    \/ part = "requests" /\ (\E n \in kept : TimerExpires(n)) /\ UNCHANGED BesideRequests
    \/ part = "requests" /\ (\E n \in removing : Unlinked(n)) /\ UNCHANGED BesideRequests
    \/ part = "requests" /\ ShutDown /\ UNCHANGED BesideRequests
    \/ part = "requests" /\ Exit /\ UNCHANGED BesideRequests
    \/ part = "requests" /\ WorkerKilled /\ UNCHANGED BesideRequests
    \/ part = "requests" /\ ApiKilled /\ UNCHANGED BesideRequests
    \/ part = "requests" /\ Restart /\ UNCHANGED BesideRequests
    \/ part = "accounts" /\ (\E u \in Newcomers : Start(u)) /\ UNCHANGED BesideAccounts
    \/ part = "accounts" /\ (\E u \in Newcomers : OpenApp(u)) /\ UNCHANGED BesideAccounts
    \/ part = "accounts" /\ (\E u \in Newcomers : Authenticate(u)) /\ UNCHANGED BesideAccounts
    \/ part = "accounts" /\ (\E u \in Newcomers : Me(u)) /\ UNCHANGED BesideAccounts
    \/ part = "accounts" /\ (\E u \in Newcomers : UseApp(u)) /\ UNCHANGED BesideAccounts
    \/ part = "accounts" /\ (\E u \in Newcomers : SignOut(u)) /\ UNCHANGED BesideAccounts
    \/ part = "accounts" /\ (\E u \in Newcomers, d \in {"allow", "reject"} : Press(u, d)) /\ UNCHANGED BesideAccounts
    \/ part = "accounts" /\ (\E l \in letters : Delivered(l)) /\ UNCHANGED BesideAccounts
    \/ part = "accounts" /\ (\E l \in letters : NotDelivered(l)) /\ UNCHANGED BesideAccounts
    \/ part = "accounts" /\ ApiStops /\ UNCHANGED BesideAccounts
    \/ part = "accounts" /\ Tick /\ UNCHANGED BesideAccounts
    \/ part = "notifications" /\ (\E m \in News : MessageComes(m)) /\ UNCHANGED BesideBot
    \/ part = "notifications" /\ (\E m \in News : MessageRevised(m)) /\ UNCHANGED BesideBot
    \/ part = "notifications" /\ (\E c \in NewsChats : MuteInMax(c)) /\ UNCHANGED BesideBot
    \/ part = "notifications" /\ (\E c \in NewsChats, muted \in BOOLEAN : SetMuted(c, muted)) /\ UNCHANGED BesideBot
    \/ part = "notifications" /\ (\E enabled \in BOOLEAN : SetEnabled(enabled)) /\ UNCHANGED BesideBot
    \/ part = "notifications" /\ SessionReopens /\ UNCHANGED BesideBot
    \/ part = "notifications" /\ ServiceStarts /\ UNCHANGED BesideBot
    \/ part = "notifications" /\ ChatsListed /\ UNCHANGED BesideBot
    \/ part = "notifications" /\ ServiceStops /\ UNCHANGED BesideBot
    \/ part = "notifications" /\ PassesUnheard /\ UNCHANGED BesideBot
    \/ part = "notifications" /\ HandleEvent /\ UNCHANGED BesideBot

MiniAppSpec == MiniAppInit /\ [][MiniAppNext]_miniAppVars

\* The variables of the part that moves hold what they should, as the others do at first.
MiniAppTypeOK ==
    CASE part = "messenger" -> MessengerTypeOK [] part = "gestures" -> GesturesTypeOK
      [] part = "viewer" -> ViewerTypeOK [] part = "login" -> LoginTypeOK
      [] part = "captcha" -> CaptchaTypeOK [] part = "requests" -> RequestsTypeOK
      [] part = "accounts" -> AccountsTypeOK [] OTHER -> NotificationsTypeOK

(* Of what a finger does from down to up, two things exclude each other: a *)
(* swipe that answers a message neither changes the pane nor opens the     *)
(* menu, no swipe of the pane and no press ends in a click, and in the     *)
(* media viewer a drag that closes it turns no page and a pinch does       *)
(* neither.  The menu of a press and a swipe of the pane do not: the       *)
(* design says that they "remain independent".                             *)
GesturesActOnce == GestureActsOnce /\ ViewerActsOnce
=============================================================================
