------------------------------ MODULE Accounts ------------------------------
(***************************************************************************)
(* How a Telegram user becomes a user of the bridge: /start in the bot and *)
(* the administrator's buttons (apps/api/src/bot), the rows of users and   *)
(* approval_requests (apps/api/src/db), the API's sessions                 *)
(* (apps/api/src/auth) and the gate of the Mini App (AuthGate.tsx).        *)
(*                                                                         *)
(* Every message of the bot is a call to Telegram that may fail; the       *)
(* updates of one user may be handled at the same time.  "approved" stands *)
(* for the four states of a user who may come in; MaxSessions has what     *)
(* happens between them.  A button pressed by anybody but the              *)
(* administrator changes nothing and is left out.                          *)
(***************************************************************************)
EXTENDS Integers, FiniteSets

CONSTANTS
  Newcomers,    \* Telegram users
  IdleTicks,    \* sessions: idleTtlMs, in ticks
  InitTicks,    \* init data: maxAgeSeconds, in ticks
  LastTick,     \* bound: the clock
  MaxStarts,    \* bound: /start commands
  MaxPresses,   \* bound: buttons pressed
  MaxBotFaults, \* bound: messages Telegram does not take
  MaxSignIns    \* bound: sessions created

ASSUME AccountBounds ==
  {IdleTicks, InitTicks, LastTick, MaxStarts, MaxPresses, MaxBotFaults, MaxSignIns} \subseteq Nat

VARIABLES
  account,   \* users.state; "none" without a row
  approval,  \* approval_requests: status and decision; "none" without a row
  letters,   \* bot messages being sent by the handlers
  asked,     \* users whose buttons the administrator has
  told,      \* the decision the bot told a user
  signedIn,  \* MemorySessionStore: token -> user and expiry
  cookie,    \* the session cookie of a user's webview
  gate,      \* what the Mini App of a user shows
  initAt,    \* when Telegram signed the init data of a user's webview
  tick,      \* the clock
  counts     \* starts, presses, faults and tokens so far

accountVars == <<account, approval, letters, asked, told, signedIn, cookie, gate, initAt, tick,
                 counts>>

bot == <<account, approval, letters, asked, told>>
web == <<signedIn, cookie, gate, initAt, tick>>

NoToken == 0

AccountsInit ==
  /\ account = [u \in Newcomers |-> "none"]
  /\ approval = [u \in Newcomers |-> "none"]
  /\ letters = {} /\ asked = {}
  /\ told = [u \in Newcomers |-> "nothing"]
  /\ signedIn = {}
  /\ cookie = [u \in Newcomers |-> NoToken]
  /\ gate = [u \in Newcomers |-> "closed"]
  /\ initAt = [u \in Newcomers |-> 0]
  /\ tick = 0
  /\ counts = [starts |-> 0, presses |-> 0, faults |-> 0, tokens |-> 0]

Count(what, limit) == counts[what] < limit /\ counts' = [counts EXCEPT ![what] = @ + 1]

-----------------------------------------------------------------------------
(* The bot                                                                 *)

Letter(u, about) == [user |-> u, about |-> about]

\* createPending: a user without a row gets one.
Registered(u) == [account EXCEPT ![u] = IF @ = "none" THEN "pending" ELSE @]

\* createForUser: a pending user without a request gets one.
Requested1(u) ==
  [approval EXCEPT ![u] = IF Registered(u)[u] = "pending" /\ @ = "none" THEN "pending" ELSE @]

\* handleStart.  The user is answered first; the administrator is asked after that, and
\* only by the handler whose insert made the request.
Start(u) ==
  /\ Count("starts", MaxStarts)
  /\ account' = Registered(u)
  /\ approval' = Requested1(u)
  /\ letters' = letters \union
       {Letter(u, IF approval'[u] # approval[u] THEN "request" ELSE "state")}
  /\ UNCHANGED <<asked, told, web>>

Delivered(l) ==
  /\ letters' = (letters \ {l}) \union
       (IF l.about = "request" THEN {Letter(l.user, "ask")} ELSE {})
  /\ asked' = IF l.about = "ask" THEN asked \union {l.user} ELSE asked
  /\ told' = [told EXCEPT ![l.user] = IF l.about \in {"allow", "reject"} THEN l.about ELSE @]
  /\ UNCHANGED <<account, approval, counts, web>>

\* The handler ends with an error: nothing that it had still to send is sent.
NotDelivered(l) ==
  /\ Count("faults", MaxBotFaults)
  /\ letters' = letters \ {l}
  /\ UNCHANGED <<account, approval, asked, told, web>>

\* (mutant: the transaction looks at neither row's state)
DecideAnew(u, decision) ==
  /\ approval' = [approval EXCEPT ![u] = decision]
  /\ account' = [account EXCEPT ![u] = IF decision = "allow" THEN "approved" ELSE "disabled"]
  /\ letters' = letters \union {Letter(u, decision)}

\* ApprovalRepository.decide, one transaction, and the beginning of what it is answered with.
Decide1(u, decision) ==
  IF approval[u] = "pending" /\ account[u] = "pending"
  THEN /\ approval' = [approval EXCEPT ![u] = decision]
       /\ account' = [account EXCEPT ![u] = IF decision = "allow" THEN "approved" ELSE "disabled"]
       /\ letters' = letters \union {Letter(u, decision)}
  ELSE UNCHANGED <<approval, account, letters>>

\* The administrator presses a button of a request; both stay where they are afterwards.
Press(u, decision) ==
  /\ u \in asked
  /\ Count("presses", MaxPresses)
  /\ Decide1(u, decision)
  /\ UNCHANGED <<asked, told, web>>

-----------------------------------------------------------------------------
(* The Mini App and its session                                            *)

\* The webview opens with fresh init data, or is shown again with what it had.
OpenApp(u) ==
  /\ gate[u] # "loading"
  /\ gate' = [gate EXCEPT ![u] = "loading"]
  /\ \E t \in {initAt[u], tick} : initAt' = [initAt EXCEPT ![u] = t]
  /\ UNCHANGED <<signedIn, cookie, tick, counts, bot>>

\* validateTelegramInitData, as far as time is concerned.
InitExpired(u) == tick - initAt[u] > InitTicks

\* (mutant: the user is not looked up when a session is created)
AdmitAll(u) == "entering"

\* POST /api/auth/telegram for init data that is valid.
Admit(u) ==
  CASE account[u] \in {"none", "pending"} -> "pending"
    [] account[u] = "disabled" -> "disabled"
    [] account[u] = "approved" -> "entering"

Authenticate(u) ==
  LET token == counts.tokens + 1 IN
  /\ gate[u] = "loading"
  /\ gate' = [gate EXCEPT ![u] = IF InitExpired(u) THEN "error" ELSE Admit(u)]
  /\ IF gate'[u] = "entering"
     THEN /\ Count("tokens", MaxSignIns)
          /\ signedIn' = signedIn \union
               {[token |-> token, user |-> u, expires |-> tick + IdleTicks]}
          /\ cookie' = [cookie EXCEPT ![u] = token]
     ELSE UNCHANGED <<signedIn, cookie, counts>>
  /\ UNCHANGED <<initAt, tick, bot>>

Held(u) == {s \in signedIn : s.token = cookie[u]}
Alive1(s) == s.expires >= tick

\* MemorySessionStore.resolve: a use extends the session, a late one removes it.
Resolve(u) ==
  signedIn' = (signedIn \ Held(u)) \union
                {[s EXCEPT !.expires = tick + IdleTicks] : s \in {h \in Held(u) : Alive1(h)}}

Known(u) == \E s \in Held(u) : Alive1(s)

\* GET /api/me, the second half of the gate's effect.
Me(u) ==
  /\ gate[u] = "entering"
  /\ Resolve(u)
  /\ gate' = [gate EXCEPT ![u] = IF Known(u) THEN "ready" ELSE "error"]
  /\ UNCHANGED <<cookie, initAt, tick, counts, bot>>

\* Any other call of the app; without a session it is answered 401 and the gate stays.
UseApp(u) ==
  /\ gate[u] = "ready"
  /\ Resolve(u)
  /\ UNCHANGED <<cookie, gate, initAt, tick, counts, bot>>

\* POST /api/auth/logout.
SignOut(u) ==
  /\ cookie[u] # NoToken
  /\ signedIn' = signedIn \ Held(u)
  /\ cookie' = [cookie EXCEPT ![u] = NoToken]
  /\ UNCHANGED <<gate, initAt, tick, counts, bot>>

\* A stop of the API: sessions and unfinished handlers are lost, rows are kept.
ApiStops ==
  /\ signedIn # {} \/ letters # {}
  /\ signedIn' = {}
  /\ letters' = {}
  /\ UNCHANGED <<account, approval, asked, told, cookie, gate, initAt, tick, counts>>

Tick ==
  /\ tick < LastTick
  /\ tick' = tick + 1
  /\ UNCHANGED <<signedIn, cookie, gate, initAt, counts, bot>>

AccountsNext ==
  \/ \E u \in Newcomers : Start(u) \/ OpenApp(u) \/ Authenticate(u) \/ Me(u) \/ UseApp(u)
  \/ \E u \in Newcomers : SignOut(u)
  \/ \E u \in Newcomers, d \in {"allow", "reject"} : Press(u, d)
  \/ \E l \in letters : Delivered(l) \/ NotDelivered(l)
  \/ ApiStops
  \/ Tick

AccountsSpec == AccountsInit /\ [][AccountsNext]_accountVars

-----------------------------------------------------------------------------

AccountsTypeOK ==
  /\ account \in [Newcomers -> {"none", "pending", "approved", "disabled"}]
  /\ approval \in [Newcomers -> {"none", "pending", "allow", "reject"}]
  /\ letters \subseteq [user : Newcomers, about : {"request", "state", "ask", "allow", "reject"}]
  /\ asked \subseteq Newcomers
  /\ told \in [Newcomers -> {"nothing", "allow", "reject"}]
  /\ signedIn \subseteq [token : 1 .. MaxSignIns, user : Newcomers,
                         expires : 0 .. LastTick + IdleTicks]
  /\ cookie \in [Newcomers -> 0 .. MaxSignIns]
  /\ gate \in [Newcomers ->
       {"closed", "loading", "entering", "ready", "pending", "disabled", "error"}]
  /\ initAt \in [Newcomers -> 0 .. LastTick]
  /\ tick \in 0 .. LastTick
  /\ counts \in [starts : 0 .. MaxStarts, presses : 0 .. MaxPresses,
                 faults : 0 .. MaxBotFaults, tokens : 0 .. MaxSignIns]

\* Whoever has a session or is past the gate was let in by the administrator, whose first
\* decision is the one that counts and the only one the user is told, however often both
\* buttons are pressed, /start is sent and the app is opened meanwhile.
ApprovedOnly ==
  \A u \in Newcomers :
    /\ (gate[u] \in {"entering", "ready"} \/ \E s \in signedIn : s.user = u)
         => approval[u] = "allow" /\ account[u] = "approved"
    /\ told[u] # "nothing" => told[u] = approval[u]

=============================================================================
