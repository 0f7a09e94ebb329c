----------------------------- MODULE MaxSessions -----------------------------
(***************************************************************************)
(* How a user's MAX session is opened, authenticated, stored, restored and *)
(* dropped by three parties:                                               *)
(*   - BridgeRuntimeGateway in the API process (apps/api/src/runtime),     *)
(*     which remembers the users whose session it opened;                  *)
(*   - the users table (apps/api/src/db/users-repository.ts), which keeps  *)
(*     the encrypted storage state and the user's state;                   *)
(*   - WorkerRuntimeRequestHandler in the worker process                   *)
(*     (apps/worker/src/runtime), which keeps the sessions themselves and  *)
(*     runs the requests of one session one at a time.                     *)
(*                                                                         *)
(* A task is an HTTP request being served by the API.  Between a request   *)
(* to the worker and its answer, and while a storage state is decrypted or *)
(* encrypted, other tasks run.                                             *)
(***************************************************************************)
EXTENDS Integers, Sequences, FiniteSets, SequencesExt

CONSTANTS
  Users,     \* lookup ids
  Tasks,     \* HTTP requests served at the same time
  Kinds,     \* the routes the clients call in this instance
  Faults,    \* the kinds of fault that happen in this instance
  MaxFaults, \* bound: faults in one behaviour
  NoUser,    \* the user of a task that serves nobody
  Opener,    \* who a session.open is answered to: ensureSession
  Nobody     \* who an abandoned request is answered to

AllKinds == {"use", "phone", "code", "status", "logout"}
AllFaults == {"worker", "chromium", "open", "timeout", "api"}

ASSUME KindsType   == Kinds \subseteq AllKinds
ASSUME FaultsType  == Faults \subseteq AllFaults
ASSUME BoundsType  == MaxFaults \in Nat
ASSUME NoUserOut   == NoUser \notin Users
ASSUME AddressesOut == Opener # Nobody /\ {Opener, Nobody} \intersect Tasks = {}

VARIABLES
  opened,   \* gateway.opened: users whose session the API believes to be open
  opening,  \* gateway.opening: progress of openSession for a user
  captured, \* did the openSession in flight load a storage state?
  waiters,  \* tasks awaiting the opening of a user, in order
  task,     \* what each task does
  stored,   \* users.max_session_cipher is not NULL
  ustate,   \* users.state
  queue,    \* requests of a session waiting in the worker
  answers,  \* responses of the worker on their way to the API
  session,  \* the worker's session of the user
  signedOut,\* (history) a logout has ended and no login has begun since
  faults    \* faults so far

vars == <<opened, opening, captured, waiters, task, stored, ustate, queue, answers,
          session, signedOut, faults>>

api == <<opened, opening, captured, waiters, task>>
db == <<stored, ustate>>
worker == <<queue, answers, session>>

Idle == [pc |-> "idle", user |-> NoUser, kind |-> "none"]

\* A user who has never bound MAX, or one whose session was stored earlier; neither
\* process has opened anything yet.
Init ==
  /\ opened = {}
  /\ opening = [u \in Users |-> "no"]
  /\ captured = [u \in Users |-> FALSE]
  /\ waiters = [u \in Users |-> <<>>]
  /\ task = [t \in Tasks |-> Idle]
  /\ stored \in [Users -> BOOLEAN]
  /\ ustate = [u \in Users |-> IF stored[u] THEN "active" ELSE "approved_unbound"]
  /\ queue = [u \in Users |-> <<>>]
  /\ answers = [u \in Users |-> <<>>]
  /\ session = [u \in Users |-> "absent"]
  /\ signedOut = [u \in Users |-> FALSE]
  /\ faults = 0

-----------------------------------------------------------------------------
(* The API: calls and ensureSession                                        *)

Request(to, op, storage) == [to |-> to, op |-> op, storage |-> storage]

IsLogin(kind) == kind \in {"phone", "code"}

\* transitionByLookup refuses any other pair; the gateway asks for these three only.
AllowedTransition(from, to) ==
  <<from, to>> \in {<<"approved_unbound", "authenticating">>,
                    <<"reauth_required", "authenticating">>,
                    <<"authenticating", "active">>,
                    <<"active", "reauth_required">>}

\* (mutant: a user whose session is stored is moved to authenticating as well)
BegunAuthenticationFromAny(state) == "authenticating"

BegunAuthentication(state) ==
  IF AllowedTransition(state, "authenticating") THEN "authenticating" ELSE state

\* The task's own request follows once ensureSession is over.
Requested(t, kind) == Request(t, kind, FALSE)

Begin(t, u, kind) ==
  /\ task[t].pc = "idle"
  /\ kind \in Kinds
  /\ signedOut' = [signedOut EXCEPT ![u] = @ /\ ~IsLogin(kind)]

\* ensureSession finds the session open: the request is written at once.
CallOpened(t, u, kind) ==
  /\ kind # "logout"
  /\ Begin(t, u, kind)
  /\ u \in opened
  /\ task' = [task EXCEPT ![t] = [pc |-> "requested", user |-> u, kind |-> kind]]
  /\ queue' = [queue EXCEPT ![u] = Append(@, Requested(t, kind))]
  /\ ustate' = [ustate EXCEPT ![u] = IF IsLogin(kind) THEN BegunAuthentication(@) ELSE @]
  /\ UNCHANGED <<opened, opening, captured, waiters, stored, answers, session, faults>>

\* (mutant: ensureSession does not share the opening in flight)
CallUnopenedUnshared(t, u, kind) ==
  /\ kind # "logout"
  /\ Begin(t, u, kind)
  /\ u \notin opened
  /\ task' = [task EXCEPT ![t] = [pc |-> "waiting", user |-> u, kind |-> kind]]
  /\ waiters' = [waiters EXCEPT ![u] = Append(@, t)]
  /\ opening' = [opening EXCEPT ![u] = "decrypting"]
  /\ captured' = [captured EXCEPT ![u] = stored[u]]
  /\ UNCHANGED <<opened, db, worker, faults>>

\* It does not: the task joins the opening in flight or starts one, which reads the
\* row before its first await.
CallUnopened(t, u, kind) ==
  /\ kind # "logout"
  /\ Begin(t, u, kind)
  /\ u \notin opened
  /\ task' = [task EXCEPT ![t] = [pc |-> "waiting", user |-> u, kind |-> kind]]
  /\ waiters' = [waiters EXCEPT ![u] = Append(@, t)]
  /\ IF opening[u] # "no"
     THEN UNCHANGED <<opening, captured>>
     ELSE /\ opening' = [opening EXCEPT ![u] = "decrypting"]
          /\ captured' = [captured EXCEPT ![u] = stored[u]]
  /\ UNCHANGED <<opened, db, worker, faults>>

\* The storage state is decrypted and goes out with session.open.
RequestOpen(u) ==
  /\ opening[u] = "decrypting"
  /\ opening' = [opening EXCEPT ![u] = "requested"]
  /\ queue' = [queue EXCEPT ![u] = Append(@, Request(Opener, "open", captured[u]))]
  /\ UNCHANGED <<opened, captured, waiters, task, db, answers, session, signedOut, faults>>

OpeningOver(u) ==
  /\ opening' = [opening EXCEPT ![u] = "no"]
  /\ captured' = [captured EXCEPT ![u] = FALSE]
  /\ waiters' = [waiters EXCEPT ![u] = <<>>]

\* The session is open: every waiting task writes its own request, in order.
OpeningSucceeded(u) ==
  /\ opened' = opened \union {u}
  /\ OpeningOver(u)
  /\ task' = [t \in Tasks |->
       IF t \in Range(waiters[u]) THEN [task[t] EXCEPT !.pc = "requested"] ELSE task[t]]
  /\ queue' = [queue EXCEPT ![u] =
       @ \o [i \in DOMAIN waiters[u] |-> Requested(waiters[u][i], task[waiters[u][i]].kind)]]
  /\ ustate' = [ustate EXCEPT ![u] =
       IF \E t \in Range(waiters[u]) : IsLogin(task[t].kind)
       THEN BegunAuthentication(@) ELSE @]

\* (mutant: only the task that started the opening learns that it failed)
OpeningFailedForFirst(u) ==
  /\ OpeningOver(u)
  /\ task' = [t \in Tasks |->
       IF waiters[u] # <<>> /\ t = Head(waiters[u]) THEN Idle ELSE task[t]]

OpeningFailed(u) ==
  /\ OpeningOver(u)
  /\ task' = [t \in Tasks |-> IF t \in Range(waiters[u]) THEN Idle ELSE task[t]]

-----------------------------------------------------------------------------
(* The API: logout, and storing what a login produced                      *)

\* (mutant: logout clears the storage state and leaves the user active)
LoggedOutStaysActive(u) ==
  /\ opened' = opened \ {u}
  /\ stored' = [stored EXCEPT ![u] = FALSE]
  /\ signedOut' = [signedOut EXCEPT ![u] = TRUE]
  /\ UNCHANGED ustate

\* (mutant: logout leaves the user in a state of the transition table meant for admins)
LoggedOutDisabled(u) ==
  /\ opened' = opened \ {u}
  /\ stored' = [stored EXCEPT ![u] = FALSE]
  /\ ustate' = [ustate EXCEPT ![u] = IF @ = "active" THEN "disabled" ELSE @]
  /\ signedOut' = [signedOut EXCEPT ![u] = TRUE]

\* The synchronous end of logout.
LoggedOut(u) ==
  /\ opened' = opened \ {u}
  /\ stored' = [stored EXCEPT ![u] = FALSE]
  /\ ustate' = [ustate EXCEPT ![u] =
       IF AllowedTransition(@, "reauth_required") THEN "reauth_required" ELSE @]
  /\ signedOut' = [signedOut EXCEPT ![u] = TRUE]

\* logout closes the session of a user it knows to be open.
LogoutOpened(t, u) ==
  /\ task[t].pc = "idle" /\ "logout" \in Kinds
  /\ u \in opened
  /\ task' = [task EXCEPT ![t] = [pc |-> "requested", user |-> u, kind |-> "logout"]]
  /\ queue' = [queue EXCEPT ![u] = Append(@, Request(t, "close", FALSE))]
  /\ UNCHANGED <<opened, opening, captured, waiters, db, answers, session, signedOut, faults>>

LogoutUnopened(t, u) ==
  /\ task[t].pc = "idle" /\ "logout" \in Kinds
  /\ u \notin opened
  /\ LoggedOut(u)
  /\ UNCHANGED <<opening, captured, waiters, task, worker, faults>>

\* saveMaxSessionByLookup has encrypted the state: the row is updated, and a user who
\* was authenticating becomes active.
Saved(t) ==
  LET u == task[t].user IN
  /\ task[t].pc = "saving"
  /\ task' = [task EXCEPT ![t] = Idle]
  /\ stored' = [stored EXCEPT ![u] = TRUE]
  /\ ustate' = [ustate EXCEPT ![u] = IF @ = "authenticating" THEN "active" ELSE @]
  /\ UNCHANGED <<opened, opening, captured, waiters, worker, signedOut, faults>>

-----------------------------------------------------------------------------
(* The worker                                                              *)

Fault(kind) ==
  /\ kind \in Faults
  /\ faults < MaxFaults
  /\ faults' = faults + 1

\* The worker takes one request of the session at a time.  It need not be the oldest:
\* the server hands over the requests of one chunk one after the other, each when the
\* one before is answered, so a request that shares its chunk with a slow request of
\* another user is overtaken by those that arrived in the next chunk.
Answer(u, i, result) ==
  /\ queue' = [queue EXCEPT ![u] = RemoveAt(@, i)]
  /\ answers' = [answers EXCEPT ![u] = Append(@, [request |-> queue[u][i], result |-> result])]

\* What a request other than open and close does to a session that exists: pairs of
\* the session afterwards and the answer.  A code is only accepted by a page on which
\* a phone number or a QR code was asked for.
Effects(op, s) ==
  IF s = "dead" THEN {<<s, "failed">>}
  ELSE CASE op = "use"    -> {<<s, IF s = "authenticated" THEN "ok" ELSE "failed">>}
         [] op = "phone"  -> {<<IF s = "anonymous" THEN "prompting" ELSE s, "ok">>, <<s, "failed">>}
         [] op = "status" -> {<<s, s>>}
         [] op = "code"   -> {<<s, IF s = "authenticated" THEN s ELSE "invalid_code">>}
                               \union IF s = "prompting"
                                      THEN {<<"authenticated", "authenticated">>,
                                            <<"authenticated", "failed">>}
                                      ELSE {}

\* (mutant: the payload of session.open is not read)
SessionOpenedWithoutStorage(s, storage) == IF s # "absent" THEN s ELSE "anonymous"

\* session.open is idempotent: it returns the session there is, dead or alive, and
\* only creates one from the storage state when there is none.
SessionOpened(s, storage) ==
  IF s # "absent" THEN s
  ELSE IF storage THEN "authenticated" ELSE "anonymous"

ExecuteOpen(u, i) ==
  /\ queue[u][i].op = "open"
  /\ \/ /\ session' = [session EXCEPT ![u] = SessionOpened(@, queue[u][i].storage)]
        /\ Answer(u, i, "ok")
        /\ UNCHANGED faults
     \/ /\ session[u] = "absent"
        /\ Fault("open")
        /\ Answer(u, i, "failed")
        /\ UNCHANGED session
  /\ UNCHANGED <<api, db, signedOut>>

\* (mutant: session.close answers without forgetting the session)
ExecuteCloseKeepingSession(u, i) ==
  /\ queue[u][i].op = "close"
  /\ Answer(u, i, "ok")
  /\ UNCHANGED <<api, db, session, signedOut, faults>>

\* closeSession forgets the session first; the close of a context whose browser died
\* rejects unless the pool has already forgotten it.
ExecuteClose(u, i) ==
  /\ queue[u][i].op = "close"
  /\ session' = [session EXCEPT ![u] = "absent"]
  /\ \/ Answer(u, i, "ok")
     \/ session[u] = "dead" /\ Answer(u, i, "failed")
  /\ UNCHANGED <<api, db, signedOut, faults>>

ExecuteOperation(u, i) ==
  /\ queue[u][i].op \notin {"open", "close"}
  /\ IF session[u] = "absent"
     THEN Answer(u, i, "session_not_found") /\ UNCHANGED session
     ELSE \E e \in Effects(queue[u][i].op, session[u]) :
            /\ session' = [session EXCEPT ![u] = e[1]]
            /\ Answer(u, i, e[2])
  /\ UNCHANGED <<api, db, signedOut, faults>>

\* The user confirms the QR code of the login page on another device.
QrConfirmed(u) ==
  /\ session[u] = "prompting"
  /\ session' = [session EXCEPT ![u] = "authenticated"]
  /\ UNCHANGED <<api, db, queue, answers, signedOut, faults>>

-----------------------------------------------------------------------------
(* The API: answers of the worker                                          *)

AnswerTo(u, to) == answers[u] # <<>> /\ Head(answers[u]).request.to = to
Result(u) == Head(answers[u]).result
Received(u) == answers' = [answers EXCEPT ![u] = Tail(@)]

OpenAnswered(u) ==
  /\ AnswerTo(u, Opener)
  /\ Received(u)
  /\ IF Result(u) = "ok"
     THEN OpeningSucceeded(u)
     ELSE OpeningFailed(u) /\ UNCHANGED <<opened, ustate, queue>>
  /\ UNCHANGED <<stored, session, signedOut, faults>>

\* Only submitCode has more to do: to store the session it authenticated.
OperationAnswered(t, u) ==
  /\ AnswerTo(u, t)
  /\ task[t].kind # "logout"
  /\ Received(u)
  /\ task' = [task EXCEPT ![t] =
       IF @.kind = "code" /\ Result(u) = "authenticated"
       THEN [@ EXCEPT !.pc = "saving"] ELSE Idle]
  /\ UNCHANGED <<opened, opening, captured, waiters, db, queue, session, signedOut, faults>>

\* A session.close that failed ends the logout there.
LogoutAnswered(t, u) ==
  /\ AnswerTo(u, t)
  /\ task[t].kind = "logout"
  /\ Received(u)
  /\ task' = [task EXCEPT ![t] = Idle]
  /\ IF Result(u) = "ok" THEN LoggedOut(u) ELSE UNCHANGED <<opened, db, signedOut>>
  /\ UNCHANGED <<opening, captured, waiters, queue, session, faults>>

\* resolveResponse finds no pending request: it timed out.
LateAnswer(u) ==
  /\ AnswerTo(u, Nobody)
  /\ Received(u)
  /\ UNCHANGED <<api, db, queue, session, signedOut, faults>>

-----------------------------------------------------------------------------
(* Faults                                                                  *)

Abandoned(to, s) == [i \in DOMAIN s |-> IF s[i].to = to THEN [s[i] EXCEPT !.to = Nobody] ELSE s[i]]
AbandonedAnswers(to, s) ==
  [i \in DOMAIN s |->
     IF s[i].request.to = to THEN [s[i] EXCEPT !.request = [@ EXCEPT !.to = Nobody]] ELSE s[i]]

\* The API forgets the request to `to`; the worker still runs it.
Abandon(u, to) ==
  /\ queue' = [queue EXCEPT ![u] = Abandoned(to, @)]
  /\ answers' = [answers EXCEPT ![u] = AbandonedAnswers(to, @)]

\* The request timeout of WorkerClient.
RequestTimeout(t) ==
  LET u == task[t].user IN
  /\ task[t].pc = "requested"
  /\ Fault("timeout")
  /\ Abandon(u, t)
  /\ task' = [task EXCEPT ![t] = Idle]
  /\ UNCHANGED <<opened, opening, captured, waiters, db, session, signedOut>>

OpenTimeout(u) ==
  /\ opening[u] = "requested"
  /\ Fault("timeout")
  /\ Abandon(u, Opener)
  /\ OpeningFailed(u)
  /\ UNCHANGED <<opened, db, session, signedOut>>

\* A Chromium process dies.  The pool relaunches it, the request handler keeps the
\* session object: nothing tells it that the page is gone.
ChromiumCrash(u) ==
  /\ Fault("chromium")
  /\ session[u] \in {"anonymous", "prompting", "authenticated"}
  /\ session' = [session EXCEPT ![u] = "dead"]
  /\ UNCHANGED <<api, db, queue, answers, signedOut>>

\* The worker process restarts: the socket closes, which rejects what is pending.
WorkerRestart ==
  /\ Fault("worker")
  /\ session' = [u \in Users |-> "absent"]
  /\ queue' = [u \in Users |-> <<>>]
  /\ answers' = [u \in Users |-> <<>>]
  /\ opening' = [u \in Users |-> IF opening[u] = "requested" THEN "no" ELSE opening[u]]
  /\ captured' = [u \in Users |-> opening[u] = "decrypting" /\ captured[u]]
  /\ waiters' = [u \in Users |-> IF opening[u] = "requested" THEN <<>> ELSE waiters[u]]
  /\ task' = [t \in Tasks |->
       IF \/ task[t].pc = "requested"
          \/ task[t].pc = "waiting" /\ opening[task[t].user] = "requested"
       THEN Idle ELSE task[t]]
  /\ UNCHANGED <<opened, db, signedOut>>

\* The API process restarts beside a worker that goes on: the worker finishes the
\* requests it has, for nobody.
ApiRestart ==
  /\ Fault("api")
  /\ opened' = {}
  /\ opening' = [u \in Users |-> "no"]
  /\ captured' = [u \in Users |-> FALSE]
  /\ waiters' = [u \in Users |-> <<>>]
  /\ task' = [t \in Tasks |-> Idle]
  /\ queue' = [u \in Users |-> [i \in DOMAIN queue[u] |-> [queue[u][i] EXCEPT !.to = Nobody]]]
  /\ answers' = [u \in Users |-> <<>>]
  /\ UNCHANGED <<db, session, signedOut>>

-----------------------------------------------------------------------------

Call(t, u, kind) == CallOpened(t, u, kind) \/ CallUnopened(t, u, kind)
Logout(t, u) == LogoutOpened(t, u) \/ LogoutUnopened(t, u)
Execute(u, i) == ExecuteOpen(u, i) \/ ExecuteClose(u, i) \/ ExecuteOperation(u, i)
ExecuteOldest(u) == queue[u] # <<>> /\ Execute(u, 1)
Deliver(u) ==
  \/ OpenAnswered(u)
  \/ \E t \in Tasks : OperationAnswered(t, u) \/ LogoutAnswered(t, u)
  \/ LateAnswer(u)

Next ==
  \/ \E t \in Tasks, u \in Users, kind \in Kinds : Call(t, u, kind)
  \/ \E t \in Tasks, u \in Users : Logout(t, u)
  \/ \E u \in Users : RequestOpen(u)
  \/ \E t \in Tasks : Saved(t)
  \/ \E u \in Users : \E i \in DOMAIN queue[u] : Execute(u, i)
  \/ \E u \in Users : Deliver(u)
  \/ \E u \in Users : QrConfirmed(u)
  \/ \E t \in Tasks : RequestTimeout(t)
  \/ \E u \in Users : OpenTimeout(u)
  \/ \E u \in Users : ChromiumCrash(u)
  \/ WorkerRestart
  \/ ApiRestart

\* Both processes run, the socket delivers and no request is overtaken for ever; nobody has to
\* log in, log out or fail.  A Mini App that is open asks again and again.
Fairness ==
  /\ \A u \in Users :
       /\ WF_vars(RequestOpen(u))
       /\ WF_vars(ExecuteOldest(u))
       /\ WF_vars(Deliver(u))
       /\ SF_vars(\E t \in Tasks : Call(t, u, "use"))
  /\ \A t \in Tasks : WF_vars(Saved(t))

Spec == Init /\ [][Next]_vars /\ Fairness

-----------------------------------------------------------------------------
(* Properties                                                              *)

Addresses == Tasks \union {Opener, Nobody}
Ops == (AllKinds \ {"logout"}) \union {"open", "close"}
Results == {"ok", "failed", "session_not_found", "invalid_code", "anonymous", "prompting",
            "authenticated"}
RequestType == [to : Addresses, op : Ops, storage : BOOLEAN]

TypeOK ==
  /\ opened \subseteq Users
  /\ opening \in [Users -> {"no", "decrypting", "requested"}]
  /\ captured \in [Users -> BOOLEAN]
  /\ waiters \in [Users -> Seq(Tasks)]
  /\ task \in [Tasks -> [pc : {"idle", "waiting", "requested", "saving"},
                         user : Users \union {NoUser}, kind : AllKinds \union {"none"}]]
  /\ stored \in [Users -> BOOLEAN]
  /\ ustate \in [Users -> {"approved_unbound", "authenticating", "active", "reauth_required"}]
  /\ queue \in [Users -> Seq(RequestType)]
  /\ answers \in [Users -> Seq([request : RequestType, result : Results])]
  /\ session \in [Users -> {"absent", "anonymous", "prompting", "authenticated", "dead"}]
  /\ signedOut \in [Users -> BOOLEAN]
  /\ faults \in 0 .. MaxFaults

\* Concurrent callers share one opening: whatever times out, the API never has two
\* session.open requests of a user under way, and it has one exactly when a caller of
\* ensureSession still waits for the answer.
OneOpening ==
  \A u \in Users :
    LET sent == {i \in DOMAIN queue[u] : queue[u][i].to = Opener}
        back == {i \in DOMAIN answers[u] : answers[u][i].request.to = Opener}
    IN Cardinality(sent) + Cardinality(back) = IF opening[u] = "requested" THEN 1 ELSE 0

\* A user shown as active has a stored session to restore, whatever logouts, code
\* submissions and crashes overlap.
ActiveImpliesStored == \A u \in Users : ustate[u] = "active" => stored[u]

\* A session in the database belongs to a user the bridge treats as active: it is
\* never left behind for a user who has to bind or authenticate again.
StoredImpliesActive == \A u \in Users : stored[u] => ustate[u] = "active"

\* Nothing of a session survives a logout until the user logs in again: neither the
\* stored state nor a session in the worker.
LogoutFinal ==
  \A u \in Users : signedOut[u] => ~stored[u] /\ session[u] # "authenticated"

\* Every call is answered, whatever fails while it waits for an opening or an answer.
CallsSettle == \A t \in Tasks : task[t].pc # "idle" ~> task[t].pc = "idle"

\* As long as the user keeps using the Mini App, a stored session that neither process
\* holds comes back from the stored state, also when an opening fails or is cut off.
SessionReturns ==
  \A u \in Users :
    stored[u] /\ u \notin opened /\ session[u] = "absent"
      ~> session[u] = "authenticated" \/ ~stored[u]

\* A stored session that is not there, for whatever reason, comes back.
RestoredFromStorage ==
  \A u \in Users :
    stored[u] /\ session[u] # "authenticated" ~> session[u] = "authenticated" \/ ~stored[u]

\* A login the user has completed is stored.
LoginStored ==
  \A u \in Users :
    session[u] = "authenticated" /\ ~stored[u] ~> stored[u] \/ session[u] # "authenticated"

=============================================================================
