-------------------------- MODULE AuthenticatedSocket --------------------------
(***************************************************************************)
(* The live connection of the Mini App: AuthenticatedSocket                *)
(* (apps/web/src/api/socket.ts).  The page starts it once, pauses it while *)
(* hidden, resumes it through a new authentication, and stops it; the      *)
(* object itself reconnects with a back-off timer, and authenticates again *)
(* when the server closes the WebSocket for want of a session.             *)
(*                                                                         *)
(* The source compares lifecycleVersion with the value an operation        *)
(* captured before its await.  The model keeps the answer instead of the   *)
(* counter: an operation is current until the version changes.             *)
(***************************************************************************)
EXTENDS Integers, FiniteSets

CONSTANTS
  SocketCount,  \* bound: WebSocket objects that exist at the same time
  MaxFailures   \* bound: connections lost and authentications failed

ASSUME BoundsType == SocketCount \in Nat \ {0} /\ MaxFailures \in Nat

NoSocket == 0
Sockets == 1 .. SocketCount

\* scheduleReconnect reports "disconnected" from this attempt on.
QuietAttempts == 5

VARIABLES
  started, stopped, paused,  \* the flags of the same names
  socket,    \* this.socket
  net,       \* every WebSocket object: unused, connecting, open, or closing by close()
  timer,     \* is reconnectTimer set?
  attempts,  \* reconnectAttempts, which only matters up to QuietAttempts
  reauth,    \* current calls of reauthenticateAndReconnect
  resuming,  \* resumePromise: none, or whether its operation is current or stale
  requested, \* resumeRequested
  status,    \* the last onStatus
  wanted,    \* (history) the page wants the connection: resume is its last call
  failed,    \* (history) the authentication of the last resume failed
  failures   \* failures so far

vars == <<started, stopped, paused, socket, net, timer, attempts, reauth, resuming,
          requested, status, wanted, failed, failures>>

history == <<wanted, failed>>

Init ==
  /\ started = FALSE /\ stopped = FALSE /\ paused = FALSE
  /\ socket = NoSocket
  /\ net = [s \in Sockets |-> "unused"]
  /\ timer = FALSE
  /\ attempts = 0
  /\ reauth = 0
  /\ resuming = "none"
  /\ requested = FALSE
  /\ status = "none"
  /\ wanted = FALSE /\ failed = FALSE
  /\ failures = 0

Fail == failures < MaxFailures /\ failures' = failures + 1

-----------------------------------------------------------------------------
(* Pieces of the operations                                                *)

\* connect() past its guard: a new WebSocket becomes the socket.
Connect ==
  \E s \in Sockets :
    /\ net[s] = "unused"
    /\ net' = [net EXCEPT ![s] = "connecting"]
    /\ socket' = s

\* (mutant: this.socket is forgotten and left open)
DropSocketUnclosed == socket' = NoSocket /\ UNCHANGED net

\* this.socket is dropped and told to close.
DropSocket ==
  /\ socket' = NoSocket
  /\ net' = IF socket = NoSocket THEN net ELSE [net EXCEPT ![socket] = "closing"]

\* lifecycleVersion += 1: every operation under way becomes stale.
NewLifecycle ==
  /\ reauth' = 0
  /\ resuming' = IF resuming = "none" THEN "none" ELSE "stale"

\* (mutant: the page is not told that a connection is lost until it is given up)
ScheduledSilently(reported) ==
  IF timer
  THEN UNCHANGED <<timer, attempts, status>>
  ELSE /\ timer' = TRUE
       /\ attempts' = IF attempts < QuietAttempts THEN attempts + 1 ELSE attempts
       /\ status' = IF attempts' >= QuietAttempts THEN "disconnected" ELSE status

\* scheduleReconnect of a running object; reported is the status told just before.
Scheduled(reported) ==
  IF timer
  THEN status' = reported /\ UNCHANGED <<timer, attempts>>
  ELSE /\ timer' = TRUE
       /\ attempts' = IF attempts < QuietAttempts THEN attempts + 1 ELSE attempts
       /\ status' = IF attempts' >= QuietAttempts THEN "disconnected" ELSE reported

\* expireAuthentication
Expired ==
  /\ stopped' = TRUE /\ started' = FALSE /\ paused' = FALSE
  /\ requested' = FALSE
  /\ NewLifecycle
  /\ timer' = FALSE
  /\ DropSocket
  /\ status' = "disconnected"

-----------------------------------------------------------------------------
(* Calls of the page                                                       *)

Start ==
  /\ ~stopped /\ ~started
  /\ started' = TRUE
  /\ paused' = FALSE
  /\ status' = "reconnecting"
  /\ Connect
  /\ wanted' = TRUE /\ failed' = FALSE
  /\ UNCHANGED <<stopped, timer, attempts, reauth, resuming, requested, failures>>

Pause ==
  /\ ~stopped /\ ~paused
  /\ requested' = FALSE
  /\ started' = TRUE
  /\ paused' = TRUE
  /\ NewLifecycle
  /\ timer' = FALSE
  /\ DropSocket
  /\ status' = "disconnected"
  /\ wanted' = FALSE
  /\ UNCHANGED <<stopped, attempts, failed, failures>>

\* A second pause only matters to a resume under way.
PauseAgain ==
  /\ ~stopped /\ paused
  /\ requested' = FALSE
  /\ NewLifecycle
  /\ wanted' = FALSE
  /\ UNCHANGED <<started, stopped, paused, socket, net, timer, attempts, status, failed,
                 failures>>

\* (mutant: a resume during a stale one is dropped)
ResumeDropped ==
  /\ ~stopped /\ started /\ paused
  /\ resuming' = IF resuming = "none" THEN "current" ELSE resuming
  /\ requested' = FALSE
  /\ wanted' = TRUE /\ failed' = FALSE
  /\ UNCHANGED <<started, stopped, paused, socket, net, timer, attempts, reauth, status,
                 failures>>

\* resume: it starts an authentication, or asks for one after the one under way.
Resume ==
  /\ ~stopped /\ started /\ paused
  /\ resuming' = IF resuming = "none" THEN "current" ELSE resuming
  /\ requested' = (resuming # "none")
  /\ wanted' = TRUE /\ failed' = FALSE
  /\ UNCHANGED <<started, stopped, paused, socket, net, timer, attempts, reauth, status,
                 failures>>

Stop ==
  /\ stopped' = TRUE /\ started' = FALSE /\ paused' = FALSE
  /\ requested' = FALSE
  /\ NewLifecycle
  /\ timer' = FALSE
  /\ DropSocket
  /\ status' = "disconnected"
  /\ wanted' = FALSE
  /\ UNCHANGED <<attempts, failed, failures>>

-----------------------------------------------------------------------------
(* The WebSocket and the timer                                             *)

Running == started /\ ~stopped /\ ~paused

\* (mutant: an open connection takes back one attempt instead of all)
OpenedCountingDown(s) ==
  /\ net[s] = "connecting" /\ socket = s /\ Running
  /\ net' = [net EXCEPT ![s] = "open"]
  /\ attempts' = attempts - 1
  /\ status' = "connected"
  /\ UNCHANGED <<started, stopped, paused, socket, timer, reauth, resuming, requested,
                 history, failures>>

Opened(s) ==
  /\ net[s] = "connecting" /\ socket = s /\ Running
  /\ net' = [net EXCEPT ![s] = "open"]
  /\ attempts' = 0
  /\ status' = "connected"
  /\ UNCHANGED <<started, stopped, paused, socket, timer, reauth, resuming, requested,
                 history, failures>>

\* The connection is lost, or was never made.
Lost(s) ==
  /\ net[s] \in {"connecting", "open"} /\ socket = s /\ Running
  /\ Fail
  /\ net' = [net EXCEPT ![s] = "unused"]
  /\ socket' = NoSocket
  /\ Scheduled("reconnecting")
  /\ UNCHANGED <<started, stopped, paused, reauth, resuming, requested, history>>

\* The server closes it with 4401 or 1008.
Unauthenticated(s) ==
  /\ net[s] \in {"connecting", "open"} /\ socket = s /\ Running
  /\ Fail
  /\ net' = [net EXCEPT ![s] = "unused"]
  /\ socket' = NoSocket
  /\ status' = "reconnecting"
  /\ reauth' = reauth + 1
  /\ UNCHANGED <<started, stopped, paused, timer, attempts, resuming, requested, history>>

\* (mutant: the close of any socket reconnects)
LateCloseReconnecting(s) ==
  /\ net[s] = "closing"
  /\ net' = [net EXCEPT ![s] = "unused"]
  /\ IF Running
     THEN socket' = NoSocket /\ Scheduled("reconnecting")
     ELSE UNCHANGED <<socket, timer, attempts, status>>
  /\ UNCHANGED <<started, stopped, paused, reauth, resuming, requested, history, failures>>

\* The close event of a socket dropped earlier: it is not this.socket any more.
LateClose(s) ==
  /\ net[s] = "closing"
  /\ net' = [net EXCEPT ![s] = "unused"]
  /\ UNCHANGED <<started, stopped, paused, socket, timer, attempts, reauth, resuming,
                 requested, status, history, failures>>

TimerFires ==
  /\ timer
  /\ timer' = FALSE
  /\ Connect
  /\ UNCHANGED <<started, stopped, paused, attempts, reauth, resuming, requested, status,
                 history, failures>>

-----------------------------------------------------------------------------
(* Authentications                                                         *)

\* (mutant: an authentication that could not be made does not schedule the next attempt)
ReauthenticatedOrNot ==
  /\ reauth > 0
  /\ reauth' = reauth - 1
  /\ Scheduled(status) \/ UNCHANGED <<timer, attempts, status>>
  /\ UNCHANGED <<started, stopped, paused, socket, net, resuming, requested, history, failures>>

\* A current reauthenticateAndReconnect goes on, also when the server could not be asked.
Reauthenticated ==
  /\ reauth > 0
  /\ reauth' = reauth - 1
  /\ Scheduled(status)
  /\ UNCHANGED <<started, stopped, paused, socket, net, resuming, requested, history, failures>>

\* There is no initData any more, or the server rejects it: the page has to be reopened.
ReauthRejected ==
  /\ reauth > 0
  /\ Expired
  /\ wanted' = FALSE
  /\ UNCHANGED <<attempts, failed, failures>>

\* What follows the end of a resume: one waiting resume starts over if there is still
\* something to resume.
Followed(stillPaused) ==
  IF requested /\ stillPaused
  THEN resuming' = "current" /\ requested' = FALSE
  ELSE resuming' = "none" /\ UNCHANGED requested

\* (mutant: the lifecycle is not looked at after the await)
ResumedWhateverHappened ==
  /\ resuming # "none" /\ paused
  /\ paused' = FALSE
  /\ attempts' = 0
  /\ status' = "reconnecting"
  /\ Connect
  /\ Followed(FALSE)
  /\ UNCHANGED <<started, stopped, timer, reauth, history, failures>>

Resumed ==
  /\ resuming = "current"
  /\ paused' = FALSE
  /\ attempts' = 0
  /\ status' = "reconnecting"
  /\ Connect
  /\ Followed(FALSE)
  /\ UNCHANGED <<started, stopped, timer, reauth, history, failures>>

\* The server could not be asked: the object stays paused.
ResumeFailed ==
  /\ resuming = "current"
  /\ Fail
  /\ status' = "disconnected"
  /\ Followed(paused)
  /\ failed' = ~requested
  /\ UNCHANGED <<started, stopped, paused, socket, net, timer, attempts, reauth, wanted>>

ResumeRejected ==
  /\ resuming = "current"
  /\ stopped' = TRUE /\ started' = FALSE /\ paused' = FALSE
  /\ requested' = FALSE
  /\ reauth' = 0
  /\ resuming' = "none"
  /\ timer' = FALSE
  /\ DropSocket
  /\ status' = "disconnected"
  /\ wanted' = FALSE
  /\ UNCHANGED <<attempts, failed, failures>>

\* The authentication of a pause or stop ago ends, whatever its result.
StaleResumeEnded ==
  /\ resuming = "stale"
  /\ Followed(paused)
  /\ UNCHANGED <<started, stopped, paused, socket, net, timer, attempts, reauth, status,
                 history, failures>>

-----------------------------------------------------------------------------

Page == Start \/ Pause \/ PauseAgain \/ Resume \/ (~stopped /\ Stop)
Wire == \E s \in Sockets : Opened(s) \/ Lost(s) \/ Unauthenticated(s) \/ LateClose(s)
ReauthEnds == Reauthenticated \/ ReauthRejected
ResumeEnds == Resumed \/ ResumeFailed \/ ResumeRejected \/ StaleResumeEnded

Next == Page \/ Wire \/ TimerFires \/ ReauthEnds \/ ResumeEnds

\* The browser reports every WebSocket and every fetch in the end, and runs timers.
Fairness ==
  /\ \A s \in Sockets : WF_vars(Opened(s)) /\ WF_vars(LateClose(s))
  /\ WF_vars(TimerFires)
  /\ WF_vars(ReauthEnds)
  /\ WF_vars(ResumeEnds)

Spec == Init /\ [][Next]_vars /\ Fairness

-----------------------------------------------------------------------------
(* Properties                                                              *)

TypeOK ==
  /\ started \in BOOLEAN /\ stopped \in BOOLEAN /\ paused \in BOOLEAN
  /\ socket \in Sockets \union {NoSocket}
  /\ net \in [Sockets -> {"unused", "connecting", "open", "closing"}]
  /\ timer \in BOOLEAN
  /\ attempts \in 0 .. QuietAttempts
  /\ reauth \in Nat
  /\ resuming \in {"none", "current", "stale"}
  /\ requested \in BOOLEAN
  /\ status \in {"none", "connected", "reconnecting", "disconnected"}
  /\ wanted \in BOOLEAN /\ failed \in BOOLEAN
  /\ failures \in 0 .. MaxFailures

Drivers == (IF socket # NoSocket THEN 1 ELSE 0) + (IF timer THEN 1 ELSE 0) + reauth

\* A running connection is driven by exactly one of: its socket, the timer, an
\* authentication.  With none it would stay disconnected for good, with two it would
\* end up with two live sockets, of which only one is ever closed.
OneDriver == Running => Drivers = 1

\* Nothing drives a connection that is paused or stopped, nor one the page does not want:
\* a resume that a pause has overtaken never connects.
Quiet == ~Running \/ ~wanted => Drivers = 0

\* Whatever authentications, timers and close events overlap, a connection that should run
\* is driven by one of them and any other by none.
Driven == OneDriver /\ Quiet

\* At most one WebSocket is alive and not being closed, and it is the one in use.
OneLiveSocket ==
  \A s \in Sockets : net[s] \in {"connecting", "open"} => s = socket

\* What the page was told last is true: connected exactly while the socket in use is open.
StatusTrue ==
  status = "connected" <=> socket # NoSocket /\ net[socket] = "open"

\* A resume is never lost behind an older one: while the page wants the connection and
\* it is paused, an authentication is on its way that will count, or the last one failed.
ResumeKept ==
  wanted /\ paused => resuming = "current" \/ (resuming = "stale" /\ requested) \/ failed

\* A connection the page wants comes up, unless the authentication fails or the page
\* changes its mind.
Connects == []<>(status = "connected" \/ ~wanted \/ failed)

=============================================================================
