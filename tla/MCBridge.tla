------------------------------ MODULE MCBridge ------------------------------
(***************************************************************************)
(* The parts between MAX's page and the Mini App whose progress matters:   *)
(* the operations on the page, the live events and the send controller in  *)
(* the worker, the link from the API to the worker, and the Mini App's     *)
(* live connection.  They share no variable: each behaviour moves one of   *)
(* them, chosen at first, which shows all there is to see of each.         *)
(***************************************************************************)
EXTENDS PageSession, LiveEvents, SendController, WorkerLink, AuthenticatedSocket, TLC

CONSTANTS Parts, c1, c2, m1, m2, r1, r2

VARIABLE part

bridgeVars == <<part, pageVars, liveVars, sendVars, linkVars, vars>>

\* What the API asks for: every operation once, and sequences that leave something behind.
Ask1(op, c) == [op |-> op, chat |-> c, wrong |-> None]
Lasting == {"message.send", "message.sendAttachment", "sticker.send", "messages.history",
            "session.background"}

MCScenarios ==
    {[requests |-> <<Ask1(op, c)>>, joined |-> {c1}] : op \in Operations, c \in {c1, c2}}
    \cup {[requests |-> <<Ask1(op, c1), Ask1(next, c1)>>, joined |-> {c1}] :
            op \in Lasting, next \in {"message.send", "message.sendAttachment", "sticker.send"}}
    \cup {[requests |-> <<Ask1("message.send", c1), Ask1("message.send", c2)>>, joined |-> {c1, c2}]}
    \cup UNION {{[requests |-> <<[Ask1(op, c1) EXCEPT !.wrong = f], Ask1("sticker.send", c1)>>,
                  joined |-> {c1}] : f \in Fields(op)} : op \in Operations}
    \cup {[requests |-> <<Ask1("chats.unsubscribe", c1), Ask1("message.send", c1)>>, joined |-> {c1}]}

MCChatOf == m1 :> c1 @@ m2 :> c1

BridgeInit ==
    /\ PageInit /\ LiveInit /\ SendInit /\ LinkInit /\ Init /\ part \in Parts
    /\ part # "page" => coming = <<Ask1("chats.list", c1)>>

OnlyPage == part = "page" /\ UNCHANGED <<part, liveVars, sendVars, linkVars, vars>>
OnlyLive == part = "live" /\ UNCHANGED <<part, pageVars, sendVars, linkVars, vars>>
OnlySend == part = "send" /\ UNCHANGED <<part, pageVars, liveVars, linkVars, vars>>
OnlyLink == part = "link" /\ UNCHANGED <<part, pageVars, liveVars, sendVars, vars>>
OnlyApp  == part = "app"  /\ UNCHANGED <<part, pageVars, liveVars, sendVars, linkVars>>

BridgeNext ==
    \/ OnlyPage /\ Accept
    \/ OnlyPage /\ EnsureAdapter
    \/ OnlyPage /\ ReadChats
    \/ OnlyPage /\ ReplaceChats
    \/ OnlyPage /\ Decide
    \/ OnlyPage /\ Try
    \/ OnlyPage /\ UseInterface
    \/ OnlyPage /\ OpenHistory
    \/ OnlyPage /\ Finish
    \/ OnlyPage /\ MakeCalls
    \/ OnlyPage /\ CallsReturn
    \/ OnlyPage /\ Arm
    \/ OnlyPage /\ Attach
    \/ OnlyPage /\ Enter
    \/ OnlyPage /\ SendReturns
    \/ OnlyPage /\ Activate
    \/ OnlyPage /\ Reload
    \/ OnlyPage /\ Ready
    \/ OnlyPage /\ Background
    \/ OnlyPage /\ PageGone
    \/ OnlyPage /\ SendTimesOut
    \/ OnlyPage /\ (\E c \in calls : CallTimesOut(c))
    \/ OnlyPage /\ (\E c \in calls : TransmitFails(c))
    \/ OnlyPage /\ (\E c \in calls : Transmit(c))
    \/ OnlyPage /\ (\E f \in atMax : Answer(f))
    \/ OnlyPage /\ (\E n \in typed : Confirm(n))
    \/ OnlyPage /\ AppStarts
    \/ OnlyPage /\ SocketOpens
    \/ OnlyPage /\ SocketLost
    \/ OnlyPage /\ SocketClosed
    \/ OnlyPage /\ CloseStarts
    \/ OnlyPage /\ CloseEnds
    \/ OnlyLive /\ (\E m \in LiveMessages : Post(m))
    \/ OnlyLive /\ (\E m \in LiveMessages : Edit(m))
    \/ OnlyLive /\ (\E m \in LiveMessages : React(m))
    \/ OnlyLive /\ (\E m \in LiveMessages : Delete(m))
    \/ OnlyLive /\ Repeat
    \/ OnlyLive /\ Ingest
    \/ OnlyLive /\ (\E c \in Chats : HistoryAnswered(c))
    \/ OnlyLive /\ ReplaceOpenHistory
    \/ OnlyLive /\ LeaveChat
    \/ OnlySend /\ (\E id \in RequestId : SendMessage(id))
    \/ OnlySend /\ (\E id, retryOf \in RequestId : RetryText(id, retryOf))
    \/ OnlySend /\ (\E call \in underWay : Confirmed(call))
    \/ OnlySend /\ (\E call \in underWay : Ambiguous(call))
    \/ OnlySend /\ (\E call \in underWay : NotWritten(call))
    \/ OnlySend /\ (\E call \in underWay : Unclassified(call))
    \/ OnlyLink /\ Connected
    \/ OnlyLink /\ ConnectFailed
    \/ OnlyLink /\ LinkTimerFires
    \/ OnlyLink /\ (\E r \in Requests : Send(r))
    \/ OnlyLink /\ (\E r \in Requests : SendRefused(r))
    \/ OnlyLink /\ (\E r \in Requests : SendWaits(r))
    \/ OnlyLink /\ (\E r \in Requests : RequestTimeout(r))
    \/ OnlyLink /\ (\E s \in Links : ReadPart(s))
    \/ OnlyLink /\ (\E s \in Links : ReadResponse(s))
    \/ OnlyLink /\ (\E s \in Links : ReadFailed(s))
    \/ OnlyLink /\ (\E s \in Links : PeerGone(s))
    \/ OnlyLink /\ (\E s \in Links : CloseEvent(s))
    \/ OnlyLink /\ (\E s \in Links : TakeChunk(s))
    \/ OnlyLink /\ (\E s \in Links : ServerSeesClose(s))
    \/ OnlyLink /\ Close
    \/ OnlyLink /\ (\E c \in chunks : Execute(c))
    \/ OnlyLink /\ (\E c \in chunks : ResponseFails(c))
    \/ OnlyLink /\ WorkerStops
    \/ OnlyLink /\ WorkerStarts
    \/ OnlyApp /\ Start
    \/ OnlyApp /\ Pause
    \/ OnlyApp /\ PauseAgain
    \/ OnlyApp /\ Resume
    \/ OnlyApp /\ (~stopped /\ Stop)
    \/ OnlyApp /\ (\E s \in Sockets : Opened(s))
    \/ OnlyApp /\ (\E s \in Sockets : Lost(s))
    \/ OnlyApp /\ (\E s \in Sockets : Unauthenticated(s))
    \/ OnlyApp /\ (\E s \in Sockets : LateClose(s))
    \/ OnlyApp /\ TimerFires
    \/ OnlyApp /\ Reauthenticated
    \/ OnlyApp /\ ReauthRejected
    \/ OnlyApp /\ Resumed
    \/ OnlyApp /\ ResumeFailed
    \/ OnlyApp /\ ResumeRejected
    \/ OnlyApp /\ StaleResumeEnded

\* The event loops run: as long as a step of one can be taken, one is.  The worker is
\* started again, timers fire, and a page that is closing closes.
LinkLoop == \/ Connected \/ ConnectFailed \/ LinkTimerFires \/ \E c \in chunks : Execute(c)
            \/ \E s \in Links : \/ ReadResponse(s) \/ PeerGone(s) \/ CloseEvent(s)
                              \/ TakeChunk(s) \/ ServerSeesClose(s)

AppLoop == \/ TimerFires \/ ReauthEnds \/ ResumeEnds
           \/ \E s \in Sockets : Opened(s) \/ LateClose(s)

BridgeFairness ==
    /\ WF_bridgeVars((OnlyPage /\ Operate) \/ (OnlyLink /\ LinkLoop) \/ (OnlyApp /\ AppLoop))
    /\ WF_bridgeVars((OnlyPage /\ Timers) \/ (OnlyLink /\ WorkerStarts))
    /\ WF_bridgeVars(OnlyPage /\ CloseEnds)

BridgeSpec == BridgeInit /\ [][BridgeNext]_bridgeVars /\ BridgeFairness

\* The variables of every part hold what they should.
BridgeTypeOK == PageTypeOK /\ LiveTypeOK /\ SendTypeOK /\ LinkTypeOK /\ TypeOK
=============================================================================
