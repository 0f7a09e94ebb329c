-------------------------------- MODULE Login --------------------------------
(***************************************************************************)
(* The login to MAX of one user: the screens of the Mini App               *)
(* (apps/web/src/features/login), the routes with their limiter            *)
(* (apps/api/src/routes/max-login.ts, login-rate-limiter.ts) and           *)
(* MaxLoginController, which operates MAX's login page in the worker.      *)
(*                                                                         *)
(* The worker runs the operations of a session one at a time               *)
(* (WorkerLink, MaxSessions), so each is one step here; what MAX does to    *)
(* the page during it is a choice.  The session underneath and what is     *)
(* stored of it belong to MaxSessions, the gestures to Captcha.            *)
(***************************************************************************)
EXTENDS Integers, FiniteSets

CONSTANTS
  Phones,       \* devices on which the user has the Mini App open
  MaxFailures,  \* limiter: failures that lock
  WindowTicks,  \* limiter: windowMs, in ticks
  LockTicks,    \* limiter: lockMs, in ticks
  Parallel,     \* bound: calls of all devices under way
  MaxAttempts,  \* bound: numbers and codes submitted
  LastClock     \* bound: the clock

ASSUME LoginBounds ==
  /\ {MaxFailures, WindowTicks, LockTicks, Parallel, MaxAttempts, LastClock} \subseteq Nat
  /\ MaxFailures > 0 /\ LockTicks > WindowTicks + 1

VARIABLES
  page,        \* what MAX's page shows
  screen,      \* MaxLogin of each device, and PhoneLogin's own state
  calls1,      \* HTTP calls under way
  failures,    \* limiter: the failures, each with its time and its number at that time
  lockedUntil, \* limiter
  log,         \* (history) failures within the window, since the limiter was last reset
  attempts,    \* numbers and codes submitted so far
  clock

loginVars == <<page, screen, calls1, failures, lockedUntil, log, attempts, clock>>
limiter == <<failures, lockedUntil, log>>

Pages == {"method", "code", "captcha", "qr", "alert", "wrong", "blank", "in"}

Mounted == [tab |-> "phone", state |-> "loading", form |-> "none"]

LoginInit ==
  /\ page \in {"method", "in"}
  /\ screen = [p \in Phones |-> Mounted]
  /\ calls1 = {}
  /\ failures = {} /\ lockedUntil = 0 /\ log = {}
  /\ attempts = 0
  /\ clock = 0

-----------------------------------------------------------------------------
(* The Mini App asks                                                       *)

Of(p, ops) == {c \in calls1 : c.phone = p /\ c.op \in ops}
Forms == {"phone", "code"}
Pictures == {"qr", "captcha"}
Polls == {"qr poll", "captcha poll"}

\* (mutant: the record is dropped whenever there is no lock)
ForgetUnlocked ==
  IF lockedUntil > clock THEN UNCHANGED <<failures, lockedUntil>>
  ELSE failures' = {} /\ lockedUntil' = 0

\* LoginRateLimiter.retryAfterSeconds: a lock that is over takes the record with it.
Forget ==
  IF lockedUntil # 0 /\ lockedUntil <= clock
  THEN failures' = {} /\ lockedUntil' = 0
  ELSE UNCHANGED <<failures, lockedUntil>>

\* What tells a call of the forms from the others under way.
FreePlace == CHOOSE n \in 1 .. Parallel : \A c \in calls1 : c.n # n

\* A request arrives when it is made: the route up to its await.  Everything but the status
\* is refused during a lock.
Ask(p, op) ==
  LET call == [phone |-> p, op |-> op, step |-> "asked", result |-> "none", live |-> TRUE,
               n |-> IF op \in Forms THEN FreePlace ELSE 0,
               since |-> IF op \in Forms THEN clock ELSE 0]
      limited == op \in Forms \union Pictures
  IN
  /\ Cardinality(calls1) < Parallel
  /\ IF limited THEN Forget ELSE UNCHANGED <<failures, lockedUntil>>
  /\ calls1' = IF limited /\ lockedUntil > clock THEN calls1 ELSE calls1 \union {call}
  /\ UNCHANGED <<page, screen, log, clock>>

CodeForm(p) == screen[p].form \in {"code_required", "invalid_code"}

\* MaxLogin's first effect.
AskStatus(p) ==
  /\ screen[p].state = "loading" /\ screen[p].tab # "in" /\ Of(p, {"status"}) = {}
  /\ Ask(p, "status") /\ UNCHANGED attempts

\* The timers of the QR tab and of the captcha, one question at a time.
Poll(p) ==
  /\ screen[p].tab \in {"qr", "captcha"} /\ screen[p].state # "loading"
  /\ Of(p, Polls) = {}
  /\ Ask(p, IF screen[p].tab = "qr" THEN "qr poll" ELSE "captcha poll")
  /\ UNCHANGED attempts

\* The picture of the QR code or of the captcha.
AskPicture(p) ==
  /\ screen[p].tab \in {"qr", "captcha"} /\ screen[p].state # "loading"
  /\ Of(p, {"qr", "captcha"}) = {}
  /\ Ask(p, screen[p].tab) /\ UNCHANGED attempts

\* PhoneLogin's forms; `busy` is of the mounted form, so that a call made before a change
\* of tabs does not hold up the next.
Submit(p) ==
  /\ screen[p].tab = "phone" /\ screen[p].state # "loading"
  /\ \A c \in Of(p, Forms) : ~c.live
  /\ attempts < MaxAttempts /\ attempts' = attempts + 1
  /\ Ask(p, IF CodeForm(p) THEN "code" ELSE "phone")

\* PhoneLogin is unmounted by a change of tabs and begins anew with MaxLogin's state.
Show(p, tab, state) ==
  /\ screen' = [screen EXCEPT ![p] =
       [tab |-> tab, state |-> state,
        form |-> IF tab # "phone" THEN "none"
                 ELSE IF @.tab = "phone" /\ @.state = state THEN @.form ELSE state]]

Leaving(p, tab, calls) ==
  {IF c.phone = p /\ screen[p].tab # tab THEN [c EXCEPT !.live = FALSE] ELSE c : c \in calls}

ChooseTab(p, tab) ==
  /\ screen[p].tab \notin {tab, "in"}
  /\ Show(p, tab, screen[p].state)
  /\ calls1' = Leaving(p, tab, calls1)
  /\ UNCHANGED <<page, limiter, attempts, clock>>

-----------------------------------------------------------------------------
(* The routes                                                              *)

Recent(times, now) == {f \in times : f.at >= now - WindowTicks}

\* recordFailure.
RecordFailure ==
  LET failure == [n |-> Cardinality({f \in log : f.at = clock}) + 1, at |-> clock]
      recent  == Recent(failures, clock) \union {failure}
  IN
  /\ failures' = recent
  /\ lockedUntil' = IF Cardinality(recent) >= MaxFailures THEN clock + LockTicks ELSE lockedUntil
  /\ log' = log \union {failure}

Reset == failures' = {} /\ lockedUntil' = 0 /\ log' = {}

Replace(c, d) == calls1' = (calls1 \ {c}) \union {d}

\* What the worker answers; an answer that comes too late is thrown away.
End(c, result) ==
  IF c.step = "late" THEN calls1' = calls1 \ {c}
  ELSE Replace(c, [c EXCEPT !.step = "done", !.result = result])

\* The call to the worker times out: the app is told of an error, nothing is recorded,
\* and the worker carries the operation out when its turn comes.
Late(c) ==
  /\ c.step = "asked" /\ c.op \in Forms
  /\ Replace(c, [c EXCEPT !.step = "late", !.live = FALSE])
  /\ UNCHANGED <<page, screen, limiter, attempts, clock>>

-----------------------------------------------------------------------------
(* The worker: MaxLoginController                                          *)

\* detectState, in the order in which it looks.
Detect(shown) ==
  CASE shown = "captcha" -> "captcha_required"
    [] shown = "in" -> "authenticated"
    [] shown = "wrong" -> "invalid_code"
    [] shown = "alert" -> "failed"
    [] shown = "code" -> "code_required"
    [] shown = "qr" -> "qr_required"
    [] shown = "method" -> "method_required"
    [] OTHER -> "failed"

\* waitForState: the page it ends on when one of the expected states is seen; a page that
\* stays as it is until the deadline is a failure.
WaitForState(c, expected) ==
  \E shown \in Pages :
    /\ Detect(shown) \in expected \/ shown = page
    /\ page' = shown
    /\ End(c, IF Detect(shown) \in expected THEN Detect(shown) ELSE "failed")

\* submitPhone: a captcha stands in its way, and behind a login there is no form; an alert,
\* the code form or the QR code are left by loading the page again.
SubmitPhone(c) ==
  CASE page = "captcha" -> End(c, "captcha_required") /\ UNCHANGED page
    [] page = "in" -> End(c, "error") /\ UNCHANGED page
    [] OTHER -> WaitForState(c, {"code_required", "captcha_required", "failed"})

\* submitCode: without a code form the state is all there is to say.  The alert of an
\* earlier code may still be there when the wait begins: the code is then called invalid
\* before MAX has answered it.
SubmitCode(c) ==
  IF page \notin {"code", "wrong"}
  THEN End(c, Detect(page)) /\ UNCHANGED page
  ELSE \/ WaitForState(c, {"authenticated", "invalid_code", "captcha_required", "failed"})
       \/ /\ page = "wrong"
          /\ End(c, "invalid_code")
          /\ page' \in {"in", "wrong", "captcha", "alert"}

\* getQrPng leads the page to the QR code, from a code form too; getCaptchaPng takes a
\* picture of what is there.  Nothing but a picture comes of either.
TakePicture(c) ==
  /\ calls1' = calls1 \ {c}
  /\ IF c.op = "captcha" \/ page \in {"in", "captcha"} THEN UNCHANGED page
     ELSE page' \in {"qr", "blank"}

Perform(c) ==
  /\ c.step \in {"asked", "late"}
  /\ CASE c.op = "phone" -> SubmitPhone(c)
       [] c.op = "code" -> SubmitCode(c)
       [] c.op \in Pictures -> TakePicture(c)
       [] OTHER -> End(c, Detect(page)) /\ UNCHANGED page
  /\ UNCHANGED <<screen, limiter, attempts, clock>>

\* MAX's own changes of the page: the QR code is confirmed elsewhere, the captcha solved.
PageMoves ==
  /\ \/ page = "qr" /\ page' = "in"
     \/ page = "captcha" /\ page' \in {"code", "method"}
     \/ page = "blank" /\ page' = "method"
  /\ UNCHANGED <<screen, calls1, limiter, attempts, clock>>

-----------------------------------------------------------------------------
(* The answers                                                             *)

\* sendLoginResult.
Counted(c) ==
  IF c.op \notin Forms THEN UNCHANGED limiter
  ELSE CASE c.result \in {"invalid_code", "failed"} -> RecordFailure
         [] c.result = "authenticated" -> Reset
         [] OTHER -> UNCHANGED limiter

\* MaxLogin's effect on the first status; an error counts as "method_required".
StatusShown(p, result) ==
  CASE result = "authenticated" -> Show(p, "in", result)
    [] result = "qr_required" -> Show(p, "qr", result)
    [] result = "captcha_required" -> Show(p, "captcha", result)
    [] OTHER -> Show(p, screen[p].tab, result)

\* The polls: the one of the QR code sets the state wherever the user has gone meanwhile,
\* the captcha's is handled only while it is shown.
PollShown(p, c) ==
  CASE c.result = "authenticated" /\ (c.live \/ c.op = "qr poll") -> Show(p, "in", c.result)
    [] c.op = "qr poll" /\ c.result # "authenticated" -> Show(p, screen[p].tab, c.result)
    [] c.op = "captcha poll" /\ c.live /\ c.result = "code_required" ->
         Show(p, "phone", "code_required")
    [] OTHER -> UNCHANGED screen

\* PhoneLogin: a form that is gone still calls what MaxLogin gave it.
FormShown(p, c) ==
  CASE c.result = "captcha_required" /\ c.op = "phone" -> Show(p, "captcha", "captcha_required")
    [] c.result = "authenticated" /\ c.op = "code" -> Show(p, "in", "authenticated")
    [] c.live /\ c.result # "error" /\ ~(c.result = "authenticated" /\ c.op = "code") ->
         screen' = [screen EXCEPT ![p].form = c.result]
    [] OTHER -> UNCHANGED screen

Handled(c) ==
  CASE screen[c.phone].tab = "in" -> UNCHANGED screen
    [] screen[c.phone].tab # "in" /\ c.op = "status" -> StatusShown(c.phone, c.result)
    [] screen[c.phone].tab # "in" /\ c.op \in Forms -> FormShown(c.phone, c)
    [] OTHER -> PollShown(c.phone, c)

\* A device is answered, and its calls learn which forms are gone by it.
Answered(c) ==
  /\ c.step = "done"
  /\ Counted(c)
  /\ Handled(c)
  /\ calls1' = {IF d.phone = c.phone /\ screen'[c.phone].tab # screen[c.phone].tab
               THEN [d EXCEPT !.live = FALSE] ELSE d : d \in calls1 \ {c}}
  /\ UNCHANGED <<page, attempts, clock>>

\* POST /api/max/logout: the session is closed, the next one begins at the login.
LeaveMax(p) ==
  /\ screen[p].tab = "in" /\ Of(p, {"status"} \union Forms) = {}
  /\ Reset
  /\ page' = "method"
  /\ screen' = [screen EXCEPT ![p] = Mounted]
  /\ UNCHANGED <<calls1, attempts, clock>>

\* The clock matters from the first failure on.  A tick stands for minutes, after half a
\* minute a call is late: no call is under way for two ticks.
ClockTicks ==
  /\ clock < LastClock /\ log # {}
  /\ \A c \in calls1 : c.op \in Forms /\ c.step # "late" => c.since = clock
  /\ clock' = clock + 1
  /\ log' = Recent(log, clock')
  /\ UNCHANGED <<page, screen, calls1, failures, lockedUntil, attempts>>

LoginNext ==
  \/ \E p \in Phones : AskStatus(p) \/ Poll(p) \/ AskPicture(p) \/ Submit(p) \/ LeaveMax(p)
  \/ \E p \in Phones, tab \in {"phone", "qr"} : ChooseTab(p, tab)
  \/ \E c \in calls1 : Late(c) \/ Perform(c) \/ Answered(c)
  \/ PageMoves
  \/ ClockTicks

LoginSpec == LoginInit /\ [][LoginNext]_loginVars

-----------------------------------------------------------------------------

States == {"loading", "method_required", "qr_required", "captcha_required", "code_required",
           "invalid_code", "failed", "authenticated", "error", "none"}

LoginCalls ==
  [phone : Phones, op : Forms \union Pictures \union Polls \union {"status"},
   step : {"asked", "late", "done"}, result : States, live : BOOLEAN,
   n : 0 .. Parallel, since : 0 .. clock]

LoginTypeOK ==
  /\ page \in Pages
  /\ screen \in [Phones -> [tab : {"phone", "qr", "captcha", "in"}, state : States,
                            form : States]]
  /\ calls1 \subseteq LoginCalls
  /\ failures \union log \subseteq [n : Nat \ {0}, at : 0 .. clock]
  /\ lockedUntil \in 0 .. LastClock + LockTicks
  /\ attempts \in 0 .. MaxAttempts /\ clock \in 0 .. LastClock

\* However calls overlap, whatever answer is late and whenever a lock ends: no window sees
\* more failed attempts than the limit, but for those that were under way when it was
\* reached.  A window is over only when its first failure is too old to count.
GuessesBounded ==
  Cardinality(log) <= MaxFailures - 1 + Parallel

=============================================================================
