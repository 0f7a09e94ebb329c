---------------------- MODULE BrowserPoolRecoveryProofs ----------------------
(***************************************************************************)
(* Nothing is left behind by the Chromium pool: no session on a browser    *)
(* that is gone, no context nobody will close, no browser nobody uses.     *)
(***************************************************************************)
EXTENDS BrowserPoolProofs

\* While the worker runs, a slot has its browser, or waits for a recovery, or is being
\* recovered; and only the stopping of its own browser suppresses its disconnection.
RecoveryInv ==
  shutdown = "no" =>
    \A s \in Unmonitored :
      /\ suppress[s] => restart["crash"].pc = "stopping" /\ restart["crash"].slot = s
      /\ \/ Usable(s)
         \/ \E i \in DOMAIN queue : queue[i] = s
         \/ restart["crash"].pc # "idle" /\ restart["crash"].slot = s

\* A restart keeps the contexts it took from the registry until they are closed.
LostInv == \A r \in Restarters : restart[r].pc # "closing" => restart[r].lost = {}

PoolInv == TypeOK /\ SlotInv /\ RecoveryInv /\ LostInv /\ NoContextLeak

-----------------------------------------------------------------------------
(* Opening and closing sessions                                            *)

LEMMA CallKeepsSlots ==
  ASSUME NEW h \in Handles, CallStep(h)
  PROVE  UNCHANGED <<browser, suppress, queue, restart, shutdown, alive>>
BY DEF CallStep, OpenRefused, Answer, OpenSession, ContextCreated, ContextFailed,
   CloseSession, ContextClosed, ContextCloseFailed, slotVars

LEMMA CallLeavesNothing ==
  ASSUME PoolInv, NEW h \in Handles, CallStep(h)
  PROVE  RecoveryInv' /\ LostInv' /\ NoContextLeak'
<1> USE DEF PoolInv
<1>0. UNCHANGED <<browser, suppress, queue, restart, shutdown, alive>>
  BY CallKeepsSlots
<1>1. RecoveryInv' /\ LostInv'
  BY <1>0 DEF RecoveryInv, LostInv, Usable
<1>2. NoContextLeak'
  <2> DEFINE Known(c) == \/ registry[c[1]] = <<c[2], c[3]>>
                         \/ call[c[1]].pc = "closing" /\ CallPlace(c[1]) = <<c[2], c[3]>>
                         \/ \E r \in Restarters : c \in restart[r].lost
  <2> SUFFICES ASSUME shutdown = "no", NEW c \in live' PROVE Known(c)'
    BY <1>0 DEF NoContextLeak
  <2>1. c \in live => Known(c) /\ c \in Contexts /\ <<c[2], c[3]>> # NoPlacement
    BY ConstantFacts DEF NoContextLeak, TypeOK, Contexts, Places
  <2>2. call[h].pc # "idle" => registry[h] = NoPlacement
    BY DEF SlotInv, CallInv, CallSound
  <2>3. CASE OpenRefused(h)
    BY <2>1, <2>3 DEF OpenRefused, Answer, CallPlace
  <2>4. ASSUME NEW s \in Slots, OpenSession(h, s) PROVE Known(c)'
    <3>1. c \in live /\ call[h].pc = "idle" /\ UNCHANGED <<registry, restart>>
          /\ \A k \in Handles : k # h => call'[k] = call[k]
      BY <2>4 DEF OpenSession, MayOpen, TypeOK
    <3>2. QED
      BY <2>1, <3>1 DEF CallPlace, Contexts
  <2>5. CASE ContextCreated(h)
    <3>1. /\ live' = live \union {ContextOf(h, CallPlace(h))}
          /\ registry'[h] = CallPlace(h) /\ call[h].pc = "opening" /\ UNCHANGED restart
          /\ \A k \in Handles : k # h => call'[k] = call[k] /\ registry'[k] = registry[k]
      BY <2>5 DEF ContextCreated, TypeOK
    <3>2. CASE c = ContextOf(h, CallPlace(h))
      BY <3>1, <3>2 DEF ContextOf, CallPlace
    <3>3. CASE c \in live
      BY <2>1, <2>2, <3>1, <3>3 DEF CallPlace, Contexts
    <3>4. QED
      BY <3>1, <3>2, <3>3
  <2>6. CASE ContextFailed(h)
    <3>1. c \in live /\ call[h].pc = "opening" /\ UNCHANGED <<registry, restart>>
          /\ \A k \in Handles : k # h => call'[k] = call[k]
      BY <2>6 DEF ContextFailed, TypeOK
    <3>2. QED
      BY <2>1, <3>1 DEF CallPlace, Contexts
  <2>7. CASE CloseSession(h)
    <3>1. /\ c \in live /\ call[h].pc = "idle" /\ UNCHANGED restart
          /\ call'[h] = [pc |-> "closing", slot |-> registry[h][1], launch |-> registry[h][2]]
          /\ \A k \in Handles : k # h => call'[k] = call[k] /\ registry'[k] = registry[k]
      BY <2>7 DEF CloseSession, TypeOK, slotVars
    <3>2. QED
      BY <2>1, <3>1 DEF CallPlace, Contexts
  <2>8. CASE ContextClosed(h)
    <3>1. /\ c \in live /\ c # ContextOf(h, CallPlace(h)) /\ UNCHANGED <<registry, restart>>
          /\ \A k \in Handles : k # h => call'[k] = call[k]
      BY <2>8 DEF ContextClosed, TypeOK
    <3>2. c = <<c[1], c[2], c[3]>> /\ c[1] \in Handles
      BY <2>1, <3>1 DEF Contexts
    <3>3. CallPlace(h) = <<c[2], c[3]>> => c[1] # h
      BY <3>1, <3>2 DEF ContextOf
    <3>4. QED
      BY <2>1, <3>1, <3>2, <3>3 DEF CallPlace
  <2>9. CASE ContextCloseFailed(h)
    <3>1. /\ c \in live /\ CallPlace(h) \notin alive /\ UNCHANGED <<registry, restart>>
          /\ \A k \in Handles : k # h => call'[k] = call[k]
      BY <2>9 DEF ContextCloseFailed, TypeOK
    <3>2. <<c[2], c[3]>> \in alive
      BY <3>1 DEF SlotInv, RunningInv
    <3>3. QED
      BY <2>1, <3>1, <3>2 DEF CallPlace, Contexts
  <2>10. QED
    BY <2>3, <2>4, <2>5, <2>6, <2>7, <2>8, <2>9 DEF CallStep
<1>3. QED
  BY <1>1, <1>2

-----------------------------------------------------------------------------
(* Crashes and the start of a recovery                                     *)

LEMMA CrashLeavesNothing ==
  ASSUME PoolInv, NEW s \in Slots, NEW g \in Nat, Crash(s, g)
  PROVE  RecoveryInv' /\ LostInv' /\ NoContextLeak'
<1> USE DEF PoolInv
<1>0. /\ <<s, g>> \in alive
      /\ alive' = alive \ {<<s, g>>}
      /\ live' \subseteq live
      /\ queue' = IF suppress[s] \/ shutdown # "no" THEN queue ELSE Append(queue, s)
      /\ UNCHANGED <<browser, suppress, registry, call, restart, shutdown>>
  BY DEF Crash, Killed, slotVars
<1>1. RecoveryInv'
  <2> SUFFICES ASSUME shutdown = "no", NEW t \in Unmonitored
               PROVE  /\ suppress[t] => restart["crash"].pc = "stopping" /\ restart["crash"].slot = t
                      /\ \/ <<t, browser[t]>> \in alive'
                         \/ \E i \in DOMAIN queue' : queue'[i] = t
                         \/ restart["crash"].pc # "idle" /\ restart["crash"].slot = t
    BY <1>0 DEF RecoveryInv, Usable
  <2>1. /\ suppress[t] => restart["crash"].pc = "stopping" /\ restart["crash"].slot = t
        /\ \/ Usable(t)
           \/ \E i \in DOMAIN queue : queue[i] = t
           \/ restart["crash"].pc # "idle" /\ restart["crash"].slot = t
    BY DEF RecoveryInv
  <2>2. ASSUME queue' = Append(queue, s)
        PROVE  /\ DOMAIN queue' = 1 .. Len(queue) + 1 /\ queue'[Len(queue) + 1] = s
               /\ Len(queue) \in Nat /\ DOMAIN queue = 1 .. Len(queue)
               /\ \A i \in DOMAIN queue : i \in DOMAIN queue' /\ queue'[i] = queue[i]
    <3>1. queue \in Seq(Slots)
      BY DEF TypeOK
    <3>2. QED
      BY <2>2, <3>1
  <2>3. (\E i \in DOMAIN queue : queue[i] = t) => \E i \in DOMAIN queue' : queue'[i] = t
    BY <1>0, <2>2
  <2>4. CASE t = s
    <3>1. Usable(s)
      BY <1>0, <2>4, OnlyUsable DEF SlotInv
    <3>2. ~suppress[s]
      BY <2>1, <2>4, <3>1, ConstantFacts DEF SlotInv, RestartInv
    <3>3. \E i \in DOMAIN queue' : queue'[i] = t
      BY <1>0, <2>2, <2>4, <3>2
    <3>4. QED
      BY <2>1, <3>3
  <2>5. CASE t # s
    <3>1. Usable(t) => <<t, browser[t]>> \in alive'
      BY <1>0, <2>5 DEF Usable
    <3>2. QED
      BY <2>1, <2>3, <3>1
  <2>6. QED
    BY <2>4, <2>5
<1>2. LostInv' /\ NoContextLeak'
  BY <1>0 DEF LostInv, NoContextLeak, CallPlace
<1>3. QED
  BY <1>1, <1>2

\* The contexts restartSlot takes from the registry stay known to the restart.
LEMMA BeginLeavesNothing ==
  ASSUME PoolInv, NEW r \in Restarters, NEW s \in Slots, BeginRestart(r, s),
         UNCHANGED <<call, shutdown, live>>
  PROVE  /\ LostInv' /\ NoContextLeak'
         /\ restart[r].pc = "idle" /\ restart'[r].pc = "closing" /\ restart'[r].slot = s
         /\ \A q \in Restarters : q # r => restart'[q] = restart[q]
<1> USE DEF PoolInv
<1> DEFINE lost == {h \in Handles : registry[h] # NoPlacement /\ registry[h][1] = s}
           contexts == {ContextOf(h, registry[h]) : h \in lost}
<1>0. UNCHANGED <<call, shutdown, live>>
  OBVIOUS
<1>1. /\ restart[r].pc = "idle"
      /\ registry' = [h \in Handles |-> IF h \in lost THEN NoPlacement ELSE registry[h]]
      /\ restart' = [restart EXCEPT ![r] =
           [pc |-> "closing", slot |-> s, launch |-> 0, lost |-> contexts]]
  BY DEF BeginRestart
<1>2. /\ restart'[r] = [pc |-> "closing", slot |-> s, launch |-> 0, lost |-> contexts]
      /\ \A q \in Restarters : q # r => restart'[q] = restart[q]
  <2> HIDE DEF contexts
  <2>1. QED
    BY <1>1 DEF TypeOK
<1>3. LostInv'
  BY <1>2 DEF LostInv
<1>4. NoContextLeak'
  <2> SUFFICES ASSUME shutdown = "no", NEW c \in live
               PROVE  \/ registry'[c[1]] = <<c[2], c[3]>>
                      \/ call[c[1]].pc = "closing" /\ CallPlace(c[1]) = <<c[2], c[3]>>
                      \/ \E q \in Restarters : c \in restart'[q].lost
    BY <1>0 DEF NoContextLeak, CallPlace
  <2>1. c = <<c[1], c[2], c[3]>> /\ c[1] \in Handles /\ <<c[2], c[3]>> # NoPlacement
    BY ConstantFacts DEF TypeOK, Contexts, Places
  <2>2. CASE registry[c[1]] = <<c[2], c[3]>> /\ c[2] = s
    <3>1. c[1] \in lost /\ c = ContextOf(c[1], registry[c[1]])
      BY <2>1, <2>2 DEF ContextOf
    <3>2. c \in restart'[r].lost
      BY <1>2, <3>1
    <3>3. QED
      BY <3>2
  <2>3. CASE registry[c[1]] = <<c[2], c[3]>> /\ c[2] # s
    BY <1>1, <2>1, <2>3
  <2>4. CASE call[c[1]].pc = "closing" /\ CallPlace(c[1]) = <<c[2], c[3]>>
    BY <2>4
  <2>5. CASE \E q \in Restarters : c \in restart[q].lost
    <3>1. PICK q \in Restarters : c \in restart[q].lost
      BY <2>5
    <3>2. q # r
      BY <1>1, <3>1 DEF LostInv
    <3>3. QED
      BY <1>2, <3>1, <3>2
  <2>6. QED
    BY <2>2, <2>3, <2>4, <2>5 DEF NoContextLeak
<1>5. QED
  BY <1>1, <1>2, <1>3, <1>4

LEMMA RecoveryLeavesNothing ==
  ASSUME PoolInv, CrashRecovery
  PROVE  RecoveryInv' /\ LostInv' /\ NoContextLeak'
<1> USE DEF PoolInv
<1>0. /\ queue # <<>> /\ BeginRestart("crash", queue[1]) /\ queue' = Tail(queue)
      /\ UNCHANGED <<browser, suppress, call, shutdown, alive, live>>
  BY DEF CrashRecovery, slotVars, TypeOK
<1>1. /\ Len(queue) \in Nat \ {0} /\ DOMAIN queue = 1 .. Len(queue) /\ queue[1] \in Slots
      /\ DOMAIN queue' = 1 .. Len(queue) - 1
      /\ \A i \in 1 .. Len(queue) - 1 : queue'[i] = queue[i + 1]
  BY <1>0 DEF TypeOK
<1>2. /\ LostInv' /\ NoContextLeak' /\ restart["crash"].pc = "idle"
      /\ restart'["crash"].pc = "closing" /\ restart'["crash"].slot = queue[1]
  BY <1>0, <1>1, BeginLeavesNothing, ConstantFacts
<1>3. RecoveryInv'
  <2> SUFFICES ASSUME shutdown = "no", NEW t \in Unmonitored
               PROVE  /\ ~suppress[t]
                      /\ \/ Usable(t)
                         \/ \E i \in DOMAIN queue' : queue'[i] = t
                         \/ restart'["crash"].pc # "idle" /\ restart'["crash"].slot = t
    BY <1>0 DEF RecoveryInv, Usable
  <2>1. /\ ~suppress[t]
        /\ Usable(t) \/ \E i \in DOMAIN queue : queue[i] = t
    BY <1>2 DEF RecoveryInv
  <2>2. ASSUME NEW i \in 1 .. Len(queue), queue[i] = t, t # queue[1]
        PROVE  \E j \in DOMAIN queue' : queue'[j] = t
    <3>1. i - 1 \in 1 .. Len(queue) - 1 /\ (i - 1) + 1 = i
      BY <1>1, <2>2
    <3>2. queue'[i - 1] = t
      BY <1>1, <2>2, <3>1
    <3>3. QED
      BY <1>1, <3>1, <3>2
  <2>3. QED
    BY <1>1, <1>2, <2>1, <2>2
<1>4. QED
  BY <1>2, <1>3

LEMMA HealthLeavesNothing ==
  ASSUME PoolInv, NEW s \in Slots, HealthRestart(s)
  PROVE  RecoveryInv' /\ LostInv' /\ NoContextLeak'
<1> USE DEF PoolInv
<1>0. /\ "health" \in Restarters /\ BeginRestart("health", s)
      /\ UNCHANGED <<browser, suppress, call, queue, shutdown, alive, live>>
  BY DEF HealthRestart, slotVars, Restarters
<1>1. LostInv' /\ NoContextLeak' /\ restart'["crash"] = restart["crash"]
  BY <1>0, BeginLeavesNothing, ConstantFacts
<1>2. RecoveryInv'
  BY <1>0, <1>1 DEF RecoveryInv, Usable
<1>3. QED
  BY <1>1, <1>2

-----------------------------------------------------------------------------
(* The rest of a recovery                                                  *)

LEMMA ContextsClosedLeavesNothing ==
  ASSUME PoolInv, NEW r \in Restarters, RestartContextsClosed(r)
  PROVE  RecoveryInv' /\ LostInv' /\ NoContextLeak'
<1> DEFINE s == restart[r].slot
<1> USE DEF PoolInv
<1>0. /\ restart[r].pc = "closing" /\ s \in Slots
      /\ live' = live \ restart[r].lost
      /\ restart' = [restart EXCEPT ![r] =
           [pc |-> "stopping", slot |-> s, launch |-> browser[s], lost |-> {}]]
      /\ browser' = [browser EXCEPT ![s] = 0]
      /\ suppress' = [suppress EXCEPT ![s] = TRUE]
      /\ UNCHANGED <<registry, call, queue, shutdown, alive>>
  BY DEF RestartContextsClosed, TypeOK, RestartType
<1> PICK s0 \in Slots : s0 = s
  BY <1>0
<1>h. /\ restart'[r].pc = "stopping" /\ restart'[r].slot = s0 /\ restart'[r].lost = {}
      /\ \A q \in Restarters : q # r => restart'[q] = restart[q]
      /\ \A t \in Slots : t # s0 => browser'[t] = browser[t] /\ suppress'[t] = suppress[t]
  BY <1>0 DEF TypeOK
<1>d. s0 \in Unmonitored => r = "crash"
  BY <1>0 DEF SlotInv, RestartInv
<1>1. RecoveryInv'
  <2> SUFFICES ASSUME shutdown = "no", NEW t \in Unmonitored
               PROVE  /\ suppress'[t] => restart'["crash"].pc = "stopping" /\ restart'["crash"].slot = t
                      /\ \/ <<t, browser'[t]>> \in alive
                         \/ \E i \in DOMAIN queue : queue[i] = t
                         \/ restart'["crash"].pc # "idle" /\ restart'["crash"].slot = t
    BY <1>0 DEF RecoveryInv, Usable
  <2>1. CASE t = s0
    BY <1>h, <1>d, <2>1
  <2>2. CASE t # s0
    <3>1. browser'[t] = browser[t] /\ suppress'[t] = suppress[t]
      BY <1>h, <2>2 DEF Unmonitored
    <3>2. /\ suppress[t] => restart["crash"].pc = "stopping" /\ restart["crash"].slot = t
          /\ \/ Usable(t)
             \/ \E i \in DOMAIN queue : queue[i] = t
             \/ restart["crash"].pc # "idle" /\ restart["crash"].slot = t
      BY DEF RecoveryInv
    <3>3. restart["crash"].slot = t => r # "crash"
      BY <2>2
    <3>4. r # "crash" => restart'["crash"] = restart["crash"]
      BY <1>h, ConstantFacts
    <3>5. QED
      BY <3>1, <3>2, <3>3, <3>4 DEF Usable
  <2>3. QED
    BY <2>1, <2>2
<1>2. LostInv'
  BY <1>h DEF LostInv
<1>3. NoContextLeak'
  <2> SUFFICES ASSUME shutdown = "no", NEW c \in live, c \notin restart[r].lost
               PROVE  \/ registry[c[1]] = <<c[2], c[3]>>
                      \/ call[c[1]].pc = "closing" /\ CallPlace(c[1]) = <<c[2], c[3]>>
                      \/ \E q \in Restarters : c \in restart'[q].lost
    BY <1>0 DEF NoContextLeak, CallPlace
  <2>1. QED
    BY <1>h DEF NoContextLeak
<1>4. QED
  BY <1>1, <1>2, <1>3

LEMMA BrowserClosedLeavesNothing ==
  ASSUME PoolInv, NEW r \in Restarters, RestartBrowserClosed(r)
  PROVE  RecoveryInv' /\ LostInv' /\ NoContextLeak'
<1> DEFINE s == restart[r].slot
<1> USE DEF PoolInv
<1>0. /\ restart[r].pc = "stopping" /\ s \in Slots
      /\ alive' = alive \ {<<s, restart[r].launch>>}
      /\ live' \subseteq live
      /\ suppress' = [suppress EXCEPT ![s] = FALSE]
      /\ UNCHANGED <<browser, registry, call, queue, shutdown>>
  BY DEF RestartBrowserClosed, Killed, TypeOK, RestartType
<1> PICK s0 \in Slots : s0 = s
  BY <1>0
<1>h. /\ \A q \in Restarters : q # r => restart'[q] = restart[q]
      /\ restart'[r].lost = {}
      /\ browser[s0] = 0 => restart'[r].pc = "launching" /\ restart'[r].slot = s0
      /\ restart'[r].pc # "closing"
  <2>1. CASE browser[s] # 0 /\ restart' = [restart EXCEPT ![r] = NoRestart]
    BY <2>1 DEF TypeOK, NoRestart
  <2>2. CASE restart' = [restart EXCEPT ![r] =
               [pc |-> "launching", slot |-> s, launch |-> launched[s] + 1, lost |-> {}]]
    BY <2>2 DEF TypeOK
  <2>3. QED
    BY <2>1, <2>2 DEF RestartBrowserClosed
<1>a. suppress'[s0] = FALSE /\ \A t \in Slots : t # s0 => suppress'[t] = suppress[t]
  BY <1>0 DEF TypeOK
<1>d. s0 \in Unmonitored => r = "crash" /\ browser[s0] = 0
  BY <1>0 DEF SlotInv, RestartInv
<1>1. RecoveryInv'
  <2> SUFFICES ASSUME shutdown = "no", NEW t \in Unmonitored
               PROVE  /\ suppress'[t] => restart'["crash"].pc = "stopping" /\ restart'["crash"].slot = t
                      /\ \/ <<t, browser[t]>> \in alive'
                         \/ \E i \in DOMAIN queue : queue[i] = t
                         \/ restart'["crash"].pc # "idle" /\ restart'["crash"].slot = t
    BY <1>0 DEF RecoveryInv, Usable
  <2>1. CASE t = s0
    BY <1>h, <1>a, <1>d, <2>1
  <2>2. CASE t # s0
    <3>1. suppress'[t] = suppress[t] /\ (Usable(t) => <<t, browser[t]>> \in alive')
      BY <1>0, <1>a, <2>2 DEF Unmonitored, Usable
    <3>2. /\ suppress[t] => restart["crash"].pc = "stopping" /\ restart["crash"].slot = t
          /\ \/ Usable(t)
             \/ \E i \in DOMAIN queue : queue[i] = t
             \/ restart["crash"].pc # "idle" /\ restart["crash"].slot = t
      BY DEF RecoveryInv
    <3>3. restart["crash"].slot = t => r # "crash"
      BY <2>2
    <3>4. r # "crash" => restart'["crash"] = restart["crash"]
      BY <1>h, ConstantFacts
    <3>5. QED
      BY <3>1, <3>2, <3>3, <3>4
  <2>3. QED
    BY <2>1, <2>2
<1>2. LostInv'
  BY <1>h DEF LostInv
<1>3. NoContextLeak'
  <2>1. restart[r].lost = {}
    BY <1>0 DEF LostInv
  <2>2. \A q \in Restarters : restart'[q].lost = restart[q].lost
    BY <1>h, <2>1
  <2>3. QED
    BY <1>0, <2>2 DEF NoContextLeak, CallPlace
<1>4. QED
  BY <1>1, <1>2, <1>3

LEMMA LaunchedLeavesNothing ==
  ASSUME PoolInv, NEW r \in Restarters, Launched(r)
  PROVE  RecoveryInv' /\ LostInv' /\ NoContextLeak'
<1> DEFINE s == restart[r].slot
<1> USE DEF PoolInv
<1>0. /\ restart[r].pc = "launching" /\ s \in Slots
      /\ alive' = alive \union {<<s, restart[r].launch>>}
      /\ browser' = [browser EXCEPT ![s] = restart[r].launch]
      /\ restart' = [restart EXCEPT ![r] = NoRestart]
      /\ UNCHANGED <<suppress, registry, call, queue, shutdown, live>>
  BY DEF Launched, TypeOK, RestartType
<1> PICK s0 \in Slots : s0 = s
  BY <1>0
<1>h. /\ restart'[r] = NoRestart /\ restart[r].lost = {}
      /\ \A q \in Restarters : q # r => restart'[q] = restart[q]
      /\ browser'[s0] = restart[r].launch
      /\ \A t \in Slots : t # s0 => browser'[t] = browser[t]
  BY <1>0 DEF TypeOK, LostInv
<1>d. s0 \in Unmonitored => r = "crash"
  BY <1>0 DEF SlotInv, RestartInv
<1>1. RecoveryInv'
  <2> SUFFICES ASSUME shutdown = "no", NEW t \in Unmonitored
               PROVE  /\ suppress[t] => restart'["crash"].pc = "stopping" /\ restart'["crash"].slot = t
                      /\ \/ <<t, browser'[t]>> \in alive'
                         \/ \E i \in DOMAIN queue : queue[i] = t
                         \/ restart'["crash"].pc # "idle" /\ restart'["crash"].slot = t
    BY <1>0 DEF RecoveryInv, Usable
  <2>0. /\ suppress[t] => restart["crash"].pc = "stopping" /\ restart["crash"].slot = t
        /\ \/ Usable(t)
           \/ \E i \in DOMAIN queue : queue[i] = t
           \/ restart["crash"].pc # "idle" /\ restart["crash"].slot = t
    BY DEF RecoveryInv
  <2>1. CASE t = s0
    <3>1. ~suppress[t]
      BY <1>0, <1>d, <2>0, <2>1
    <3>2. QED
      BY <1>0, <1>h, <2>1, <3>1
  <2>2. CASE t # s0
    <3>1. Usable(t) => <<t, browser'[t]>> \in alive'
      BY <1>0, <1>h, <2>2 DEF Unmonitored, Usable
    <3>2. restart["crash"].slot = t => r # "crash"
      BY <2>2
    <3>3. r # "crash" => restart'["crash"] = restart["crash"]
      BY <1>h, ConstantFacts
    <3>4. QED
      BY <2>0, <3>1, <3>2, <3>3
  <2>3. QED
    BY <2>1, <2>2
<1>2. LostInv'
  BY <1>h DEF LostInv, NoRestart
<1>3. NoContextLeak'
  <2>0. restart'[r].lost = {}
    BY <1>h DEF NoRestart
  <2>1. \A q \in Restarters : restart'[q].lost = restart[q].lost
    BY <1>h, <2>0
  <2>2. QED
    BY <1>0, <2>1 DEF NoContextLeak, CallPlace
<1>4. QED
  BY <1>1, <1>2, <1>3

LEMMA LaunchFailedLeavesNothing ==
  ASSUME PoolInv, HealthLaunchFailed
  PROVE  RecoveryInv' /\ LostInv' /\ NoContextLeak'
<1> USE DEF PoolInv
<1>0. /\ "health" \in Restarters /\ restart["health"].pc = "launching"
      /\ restart' = [restart EXCEPT !["health"] = NoRestart]
      /\ UNCHANGED <<browser, suppress, registry, call, queue, shutdown, alive, live>>
  BY DEF HealthLaunchFailed, Restarters, slotVars
<1>1. /\ restart'["crash"] = restart["crash"]
      /\ \A q \in Restarters : restart'[q].lost = restart[q].lost
      /\ \A q \in Restarters : restart'[q].pc # "closing" => restart'[q].lost = {}
  BY <1>0, ConstantFacts DEF TypeOK, LostInv, NoRestart
<1>2. RecoveryInv' /\ LostInv'
  BY <1>0, <1>1 DEF RecoveryInv, LostInv, Usable
<1>3. NoContextLeak'
  BY <1>0, <1>1 DEF NoContextLeak, CallPlace
<1>4. QED
  BY <1>2, <1>3

-----------------------------------------------------------------------------
(* Nothing is left behind                                                  *)

LEMMA PoolInit == Init => PoolInv
<1> SUFFICES ASSUME Init PROVE PoolInv
  OBVIOUS
<1>1. TypeOK /\ SlotInv
  BY TypeInit, SlotInit
<1>2. RecoveryInv /\ LostInv /\ NoContextLeak
  BY DEF Init, RecoveryInv, LostInv, NoContextLeak, NoRestart, Usable, Unmonitored
<1>3. QED
  BY <1>1, <1>2 DEF PoolInv

LEMMA PoolStep == PoolInv /\ [Next]_vars => PoolInv'
<1> SUFFICES ASSUME PoolInv, [Next]_vars PROVE PoolInv'
  OBVIOUS
<1>1. TypeOK' /\ SlotInv'
  BY TypeStep, SlotStep DEF PoolInv
<1>2. RecoveryInv' /\ LostInv' /\ NoContextLeak'
  <2>1. CASE \E h \in Handles : CallStep(h)
    BY <2>1, CallLeavesNothing
  <2>2. ASSUME NEW p \in alive, Crash(p[1], p[2])
        PROVE  RecoveryInv' /\ LostInv' /\ NoContextLeak'
    <3>1. p[1] \in Slots /\ p[2] \in Nat
      BY DEF PoolInv, TypeOK, Places
    <3>2. QED
      BY <2>2, <3>1, CrashLeavesNothing
  <2>3. CASE CrashRecovery \/ \E s \in Slots : HealthRestart(s)
    BY <2>3, RecoveryLeavesNothing, HealthLeavesNothing
  <2>4. CASE \E r \in Restarters : RestartStep(r)
    BY <2>4, ContextsClosedLeavesNothing, BrowserClosedLeavesNothing, LaunchedLeavesNothing
       DEF RestartStep
  <2>5. CASE HealthLaunchFailed
    BY <2>5, LaunchFailedLeavesNothing
  <2>6. CASE Close \/ CloseSlots \/ SlotsClosed
    <3>1. shutdown' # "no" /\ UNCHANGED restart
      BY <2>6 DEF Close, CloseSlots, SlotsClosed
    <3>2. QED
      BY <3>1 DEF PoolInv, RecoveryInv, LostInv, NoContextLeak
  <2>7. CASE ProcessRestart
    <3>1. Init' => PoolInv'
      BY PoolInit, PTL
    <3>2. QED
      BY <2>7, <3>1, RestartedProcess DEF PoolInv
  <2>8. CASE UNCHANGED vars
    BY <2>8 DEF vars, slotVars, PoolInv, RecoveryInv, LostInv, NoContextLeak, CallPlace, Usable
  <2>9. QED
    BY <2>1, <2>2, <2>3, <2>4, <2>5, <2>6, <2>7, <2>8 DEF Next
<1>3. QED
  BY <1>1, <1>2 DEF PoolInv

LEMMA AlwaysPoolInv == Spec => []PoolInv
<1>1. QED
  BY PoolInit, PoolStep, PTL DEF Spec

\* Every existing context is registered, being closed, or kept by the restart that took it
\* from the registry.
THEOREM AlwaysNoContextLeak == Spec => []NoContextLeak
<1>1. PoolInv => NoContextLeak
  BY DEF PoolInv
<1>2. QED
  BY <1>1, AlwaysPoolInv, PTL

\* A session stays registered on a dead browser only until the recovery that waits for its
\* slot.
THEOREM AlwaysNoZombieSession == Spec => []NoZombieSession
<1>1. PoolInv => NoZombieSession
  <2> SUFFICES ASSUME PoolInv, shutdown = "no", NEW h \in Handles,
                      registry[h] # NoPlacement, registry[h][1] \notin Monitored
               PROVE  \/ registry[h] \in alive
                      \/ \E i \in DOMAIN queue : queue[i] = registry[h][1]
    BY DEF NoZombieSession
  <2>1. registry[h][1] \in Unmonitored /\ registry[h] = <<registry[h][1], registry[h][2]>>
    BY DEF PoolInv, TypeOK, Places, Unmonitored
  <2>2. CASE Usable(registry[h][1])
    BY <2>1, <2>2 DEF PoolInv, SlotInv, RegisteredInv, Usable
  <2>3. ~(restart["crash"].pc # "idle" /\ restart["crash"].slot = registry[h][1])
    BY <2>1, ConstantFacts DEF PoolInv, SlotInv, RestartInv
  <2>4. QED
    BY <2>1, <2>2, <2>3 DEF PoolInv, RecoveryInv
<1>2. QED
  BY <1>1, AlwaysPoolInv, PTL

\* Every running browser is the one its slot uses: overlapping recoveries orphan none.
THEOREM AlwaysNoOrphanBrowser == Spec => []NoOrphanBrowser
<1>1. TypeOK /\ SlotInv => NoOrphanBrowser
  <2> SUFFICES ASSUME TypeOK, SlotInv, NEW p \in alive, p[1] \notin Monitored
               PROVE  browser[p[1]] = p[2]
    BY DEF NoOrphanBrowser
  <2>1. p[1] \in Unmonitored
    BY DEF TypeOK, Places, Unmonitored
  <2>2. QED
    BY <2>1 DEF SlotInv, RunningInv
<1>2. QED
  BY <1>1, PoolInvariant, PTL

-----------------------------------------------------------------------------
(* The pool implements the allocator: every step that moves a handle is a  *)
(* step of SessionAllocator, every other one leaves all of them in place.  *)

\* A handle holds, or waits for, a context in the running browser of a slot.
Holds(h, s) == s \in Unmonitored /\ Usable(s) /\ h \in Holders(s, browser[s])

OnePlace == \A h \in Handles, s, t \in Slots : Holds(h, s) /\ Holds(h, t) => s = t

PlacementInv == PoolInv /\ OnePlace

\* What `Placed` is, without the choice in its definition.
PlacedHeld ==
  /\ Placed = [h \in Handles |-> Placed[h]]
  /\ \A h \in Handles : /\ Placed[h] \in Slots \union {NoPlacement}
                        /\ \A s \in Slots : Placed[h] = s <=> Holds(h, s)

LEMMA PlacementIsHolding == PlacementInv => PlacedHeld
<1> SUFFICES ASSUME PlacementInv PROVE PlacedHeld
  OBVIOUS
<1> DEFINE at(h) == {s \in Slots \ Monitored : \E p \in alive : p[1] = s /\ h \in Holders(s, p[2])}
           where(h) == IF at(h) = {} THEN NoPlacement ELSE CHOOSE s \in at(h) : TRUE
<1>1. Placed = [h \in Handles |-> where(h)]
  BY DEF Placed
<1>2. ASSUME NEW h \in Handles, NEW s \in Slots PROVE s \in at(h) <=> Holds(h, s)
  <2>1. ASSUME NEW p \in alive, p[1] = s, s \in Unmonitored
        PROVE  p = <<s, browser[s]>>
    BY <2>1 DEF PlacementInv, PoolInv, SlotInv, RunningInv, TypeOK, Places
  <2>2. QED
    BY <2>1 DEF Holds, Unmonitored, Usable
<1>3. ASSUME NEW h \in Handles
      PROVE  /\ where(h) \in Slots \union {NoPlacement}
             /\ \A s \in Slots : where(h) = s <=> Holds(h, s)
  <2>1. at(h) \subseteq Slots /\ NoPlacement \notin Slots
    BY NoPlacementOut DEF Slots
  <2>2. CASE at(h) = {}
    BY <1>2, <2>1, <2>2
  <2>3. CASE at(h) # {}
    <3>1. where(h) \in at(h)
      BY <2>3
    <3>2. QED
      BY <1>2, <2>1, <3>1 DEF PlacementInv, OnePlace
  <2>4. QED
    BY <2>2, <2>3
<1> HIDE DEF where
<1>4. QED
  BY <1>1, <1>3 DEF PlacedHeld

-----------------------------------------------------------------------------
(* What each step does to who holds a place                                *)

LEMMA OpenMoves ==
  ASSUME PlacementInv, NEW h \in Handles, NEW s \in Slots, OpenSession(h, s)
  PROVE  /\ \A t \in Slots : ~Holds(h, t)
         /\ s \in Unmonitored /\ Usable(s) => Cardinality(Holders(s, browser[s])) < Capacity
         /\ \A k \in Handles, t \in Slots :
              Holds(k, t)' <=> Holds(k, t) \/ (k = h /\ t = s /\ t \in Unmonitored /\ Usable(t))
<1> USE DEF PlacementInv, PoolInv
<1>1. /\ call[h].pc = "idle" /\ registry[h] = NoPlacement /\ shutdown = "no"
      /\ load[s] < Capacity
      /\ call' = [call EXCEPT ![h] = [pc |-> "opening", slot |-> s, launch |-> browser[s]]]
      /\ UNCHANGED <<browser, alive, live>>
  BY DEF OpenSession, MayOpen, LeastLoaded, Candidates
<1>2. ASSUME NEW t \in Slots PROVE ~Holds(h, t)
  <2>1. <<t, browser[t]>> # NoPlacement
    BY NoPlacementOut DEF Slots, TypeOK
  <2>2. t \in Unmonitored => ContextOf(h, <<t, browser[t]>>) \notin live
    BY <1>1, <2>1 DEF SlotInv, KnownInv
  <2>3. QED
    BY <1>1, <2>2 DEF Holds, Holders, ContextOf
<1>3. s \in Unmonitored /\ Usable(s) => Cardinality(Holders(s, browser[s])) < Capacity
  BY <1>1 DEF SlotInv, LoadExact, Unmonitored, Usable
<1>4. call'[h] = [pc |-> "opening", slot |-> s, launch |-> browser[s]]
      /\ \A k \in Handles : k # h => call'[k] = call[k]
  BY <1>1 DEF TypeOK
<1>5. ASSUME NEW k \in Handles, NEW t \in Slots
      PROVE  Holds(k, t)' <=> Holds(k, t) \/ (k = h /\ t = s /\ t \in Unmonitored /\ Usable(t))
  <2>1. CASE k = h
    BY <1>1, <1>2, <1>4, <2>1 DEF Holds, Holders, CallPlace, Usable
  <2>2. CASE k # h
    BY <1>1, <1>4, <2>2 DEF Holds, Holders, CallPlace, Usable
  <2>3. QED
    BY <2>1, <2>2
<1>6. QED
  BY <1>2, <1>3, <1>5

\* The answers of Playwright: a context that exists is held as it was while it was
\* requested, and one that failed or was closed is given up.
LEMMA AnswerMoves ==
  ASSUME PlacementInv, NEW h \in Handles,
         ContextCreated(h) \/ ContextFailed(h) \/ ContextClosed(h)
  PROVE  \/ \A k \in Handles, t \in Slots : Holds(k, t)' <=> Holds(k, t)
         \/ /\ \E t \in Slots : Holds(h, t)
            /\ \A k \in Handles, t \in Slots : Holds(k, t)' <=> Holds(k, t) /\ k # h
<1> USE DEF PlacementInv, PoolInv
<1> DEFINE s == call[h].slot  g == call[h].launch
<1>0. /\ s \in Slots /\ g \in Nat /\ CallPlace(h) = <<s, g>>
      /\ call' = [call EXCEPT ![h] = IdleCall] /\ UNCHANGED <<browser, alive>>
      /\ call'[h].pc = "idle" /\ \A k \in Handles : k # h => call'[k] = call[k]
  BY PlaceOfCall DEF ContextCreated, ContextFailed, ContextClosed, slotVars, CallPlace, IdleCall, TypeOK
<1>1. CASE ContextCreated(h)
  <2>1. call[h].pc = "opening" /\ live' = live \union {<<h, s, g>>}
    BY <1>1 DEF ContextCreated, ContextOf, CallPlace
  <2>2. ASSUME NEW k \in Handles, NEW t \in Slots PROVE Holds(k, t)' <=> Holds(k, t)
    <3>1. CASE k = h
      BY <1>0, <2>1, <3>1 DEF Holds, Holders, Usable
    <3>2. CASE k # h
      BY <1>0, <2>1, <3>2 DEF Holds, Holders, CallPlace, Usable
    <3>3. QED
      BY <3>1, <3>2
  <2>3. QED
    BY <2>2
<1>2. CASE ContextFailed(h) \/ ContextClosed(h)
  <2>1. /\ call[h].pc # "idle"
        /\ \/ call[h].pc = "opening" /\ live' = live
           \/ call[h].pc = "closing" /\ live' = live \ {<<h, s, g>>}
    BY <1>2 DEF ContextFailed, ContextClosed, ContextOf, CallPlace
  <2>2. ASSUME NEW k \in Handles, NEW t \in Slots, k # h PROVE Holds(k, t)' <=> Holds(k, t)
    BY <1>0, <2>1, <2>2 DEF Holds, Holders, CallPlace, Usable
  <2>3. CASE s \in Unmonitored /\ Usable(s)
    <3>1. /\ g = browser[s]
          /\ <<h, s, g>> \in live <=> call[h].pc = "closing"
      BY <1>0, <2>1, <2>3 DEF SlotInv, CallInv, CallSound, ContextOf
    <3>2. Holds(h, s)
      BY <1>0, <2>1, <2>3, <3>1 DEF Holds, Holders
    <3>3. ASSUME NEW t \in Slots PROVE ~Holds(h, t)'
      <4>1. t # s => ~Holds(h, t)
        BY <1>0, <3>2 DEF OnePlace
      <4>2. CASE t # s
        BY <1>0, <2>1, <4>1, <4>2 DEF Holds, Holders, Usable
      <4>3. CASE t = s
        BY <1>0, <2>1, <3>1, <4>3 DEF Holds, Holders, Usable
      <4>4. QED
        BY <4>2, <4>3
    <3>4. QED
      BY <1>0, <2>2, <3>2, <3>3
  <2>4. CASE ~(s \in Unmonitored /\ Usable(s))
    <3>1. ASSUME NEW t \in Slots PROVE Holds(h, t)' <=> Holds(h, t)
      <4>1. CASE t = s
        BY <1>0, <2>4, <4>1 DEF Holds, Usable
      <4>2. CASE t # s
        BY <1>0, <2>1, <4>2 DEF Holds, Holders, Usable
      <4>3. QED
        BY <4>1, <4>2
    <3>2. QED
      BY <2>2, <3>1
  <2>5. QED
    BY <2>3, <2>4
<1>3. QED
  BY <1>1, <1>2

LEMMA OtherCallsMoveNone ==
  ASSUME PlacementInv, NEW h \in Handles,
         OpenRefused(h) \/ CloseSession(h) \/ ContextCloseFailed(h)
  PROVE  \A k \in Handles, t \in Slots : Holds(k, t)' <=> Holds(k, t)
<1> USE DEF PlacementInv, PoolInv
<1>1. /\ UNCHANGED <<browser, alive, live>>
      /\ \A k \in Handles : \/ call'[k] = call[k]
                            \/ call[k].pc # "opening" /\ call'[k].pc # "opening"
  BY DEF OpenRefused, Answer, CloseSession, ContextCloseFailed, slotVars, IdleCall, TypeOK
<1>2. QED
  BY <1>1 DEF Holds, Holders, CallPlace, Usable

LEMMA CrashMoves ==
  ASSUME PlacementInv, NEW s \in Slots, NEW g \in Nat, Crash(s, g)
  PROVE  \A k \in Handles, t \in Slots :
           Holds(k, t)' <=> Holds(k, t) /\ (t # s \/ s \notin Unmonitored)
<1> USE DEF PlacementInv, PoolInv
<1>1. /\ <<s, g>> \in alive /\ alive' = alive \ {<<s, g>>}
      /\ live' = {c \in live : <<c[2], c[3]>> # <<s, g>>}
      /\ UNCHANGED <<browser, call>>
  BY DEF Crash, Killed, slotVars
<1>2. s \in Unmonitored => g = browser[s]
  BY <1>1, OnlyUsable DEF SlotInv
<1>3. ASSUME NEW k \in Handles, NEW t \in Slots, t # s PROVE Holds(k, t)' <=> Holds(k, t)
  BY <1>1, <1>3 DEF Holds, Holders, CallPlace, Usable
<1>4. ASSUME NEW k \in Handles, s \in Unmonitored PROVE ~Holds(k, s)'
  BY <1>1, <1>2, <1>4 DEF Holds, Usable
<1>5. QED
  BY <1>3, <1>4 DEF Holds

\* A restart takes nobody's place: those of its slot were lost with the old browser.
LEMMA RestartMovesNone ==
  ASSUME PlacementInv, NEW r \in Restarters, RestartStep(r)
  PROVE  \A k \in Handles, t \in Slots : Holds(k, t)' <=> Holds(k, t)
<1> USE DEF PlacementInv, PoolInv
<1> PICK s \in Slots : s = restart[r].slot
  BY DEF TypeOK, RestartType
<1>0. /\ s = restart[r].slot /\ restart[r].launch \in Nat /\ UNCHANGED call
      /\ \A t \in Slots : t # s => browser'[t] = browser[t]
      /\ restart[r].pc # "idle"
  BY DEF RestartStep, RestartContextsClosed, RestartBrowserClosed, Launched, TypeOK, RestartType
<1>1. s \in Unmonitored => ~Usable(s)
  BY <1>0 DEF SlotInv, RestartInv
<1>2. ASSUME NEW g, s \in Unmonitored PROVE <<s, g>> \notin alive
  BY <1>1, <1>2, OnlyUsable DEF SlotInv
<1>3. ASSUME NEW k \in Handles, NEW t \in Slots, t # s PROVE Holds(k, t)' <=> Holds(k, t)
  <2>1. ASSUME t \in Unmonitored
        PROVE  /\ <<t, browser[t]>> \in alive' <=> <<t, browser[t]>> \in alive
               /\ <<k, t, browser[t]>> \in live' <=> <<k, t, browser[t]>> \in live
    <3>1. CASE RestartContextsClosed(r)
      <4>1. live' = live \ restart[r].lost /\ alive' = alive
        BY <3>1 DEF RestartContextsClosed
      <4>2. <<k, t, browser[t]>> \notin restart[r].lost
        BY <1>3 DEF SlotInv, RunningInv
      <4>3. QED
        BY <4>1, <4>2
    <3>2. CASE RestartBrowserClosed(r)
      BY <1>3, <3>2 DEF RestartBrowserClosed, Killed
    <3>3. CASE Launched(r)
      BY <1>3, <3>3 DEF Launched
    <3>4. QED
      BY <3>1, <3>2, <3>3 DEF RestartStep
  <2>2. QED
    BY <1>0, <1>3, <2>1 DEF Holds, Holders, CallPlace, Usable
<1>4. ASSUME NEW k \in Handles PROVE ~Holds(k, s)'
  <2> SUFFICES ASSUME s \in Unmonitored, Usable(s)', (k \in Holders(s, browser[s]))' PROVE FALSE
    BY <1>4 DEF Holds
  <2>1. CASE RestartContextsClosed(r) \/ RestartBrowserClosed(r)
    BY <1>2, <2>1 DEF RestartContextsClosed, RestartBrowserClosed, Killed, Usable
  <2>2. CASE Launched(r)
    <3>1. /\ live' = live
          /\ \A h \in Handles : call[h].pc # "idle" /\ call[h].slot = s => CallPlace(h) \in alive
      BY <1>0, <2>2 DEF Launched, DeadCallsSettled
    <3>2. <<k, s, browser'[s]>> \notin live
      BY <1>2 DEF SlotInv, RunningInv
    <3>3. ~(call[k].pc = "opening" /\ CallPlace(k) = <<s, browser'[s]>>)
      BY <1>2, <3>1 DEF CallPlace
    <3>4. QED
      BY <1>0, <3>1, <3>2, <3>3 DEF Holders, CallPlace
  <2>3. QED
    BY <2>1, <2>2 DEF RestartStep
<1>5. ASSUME NEW k \in Handles PROVE ~Holds(k, s)
  BY <1>1 DEF Holds
<1>6. QED
  BY <1>3, <1>4, <1>5

LEMMA OtherStepsMoveNone ==
  ASSUME PlacementInv,
         \/ CrashRecovery \/ HealthLaunchFailed \/ Close \/ SlotsClosed
         \/ \E s \in Slots : HealthRestart(s)
         \/ UNCHANGED vars
  PROVE  \A k \in Handles, t \in Slots : Holds(k, t)' <=> Holds(k, t)
<1>1. UNCHANGED <<browser, call, alive, live>>
  BY DEF CrashRecovery, HealthLaunchFailed, Close, SlotsClosed, HealthRestart, vars, slotVars
<1>2. QED
  BY <1>1 DEF Holds, Holders, CallPlace, Usable

LEMMA CloseMovesAll ==
  ASSUME PlacementInv, CloseSlots
  PROVE  \A k \in Handles, t \in Slots : ~Holds(k, t)'
<1> USE DEF PlacementInv, PoolInv
<1>1. ASSUME NEW t \in Unmonitored, NEW g PROVE <<t, g>> \notin alive'
  BY OnlyUsable DEF CloseSlots, SlotInv
<1>2. QED
  BY <1>1 DEF Holds, Usable

-----------------------------------------------------------------------------
(* A handle has one place                                                  *)

LEMMA NobodyHeld == Init => \A k \in Handles, t \in Slots : ~Holds(k, t)
BY DEF Init, Holds, Holders, IdleCall

LEMMA PlacementInit == Init => PlacementInv
BY NobodyHeld, PoolInit DEF PlacementInv, OnePlace

LEMMA PlacementStep == PlacementInv /\ [Next]_vars => PlacementInv'
<1> SUFFICES ASSUME PlacementInv, [Next]_vars PROVE PlacementInv'
  OBVIOUS
<1>1. PoolInv'
  BY PoolStep DEF PlacementInv
<1>2. OnePlace'
  <2>1. CASE \E h \in Handles : \E s \in Slots : OpenSession(h, s)
    <3>1. PICK h \in Handles, s \in Slots : OpenSession(h, s)
      BY <2>1
    <3>2. QED
      BY <3>1, OpenMoves DEF PlacementInv, OnePlace
  <2>2. CASE ProcessRestart
    <3>1. Init' => PlacementInv'
      BY PlacementInit, PTL
    <3>2. QED
      BY <2>2, <3>1, RestartedProcess DEF PlacementInv
  <2>3. CASE \/ \E h \in Handles : CallStep(h) /\ ~ \E s \in Slots : OpenSession(h, s)
             \/ \E p \in alive : Crash(p[1], p[2])
             \/ CrashRecovery
             \/ \E s \in Slots : HealthRestart(s)
             \/ \E r \in Restarters : RestartStep(r)
             \/ HealthLaunchFailed \/ Close \/ CloseSlots \/ SlotsClosed
             \/ UNCHANGED vars
    <3>1. \A k \in Handles, t \in Slots : Holds(k, t)' => Holds(k, t)
      <4>1. CASE \E h \in Handles : CallStep(h) /\ ~ \E s \in Slots : OpenSession(h, s)
        BY <4>1, AnswerMoves, OtherCallsMoveNone DEF CallStep
      <4>2. ASSUME NEW p \in alive, Crash(p[1], p[2])
            PROVE  \A k \in Handles, t \in Slots : Holds(k, t)' => Holds(k, t)
        <5>1. p[1] \in Slots /\ p[2] \in Nat
          BY DEF PlacementInv, PoolInv, TypeOK, Places
        <5>2. QED
          BY <4>2, <5>1, CrashMoves
      <4>3. QED
        BY <2>3, <4>1, <4>2, RestartMovesNone, OtherStepsMoveNone, CloseMovesAll
    <3>2. QED
      BY <3>1 DEF PlacementInv, OnePlace
  <2>4. QED
    BY <2>1, <2>2, <2>3 DEF Next
<1>3. QED
  BY <1>1, <1>2 DEF PlacementInv

-----------------------------------------------------------------------------
(* The refinement                                                          *)

LEMMA PlacedInit == Init => Allocator!Init
<1> SUFFICES ASSUME Init PROVE Placed = [h \in Handles |-> NoPlacement]
  BY DEF Allocator!Init
<1>1. PlacedHeld
  BY PlacementInit, PlacementIsHolding
<1>2. QED
  BY <1>1, NobodyHeld DEF PlacedHeld

\* The slots are the allocator's, and no slot is nowhere.
LEMMA SameSlots == Allocator!AllSlots = Slots /\ NoPlacement \notin Slots
BY NoPlacementOut DEF Allocator!AllSlots, Slots

LEMMA HoldersAreOccupants ==
  ASSUME PlacedHeld, NEW s \in Unmonitored, Usable(s)
  PROVE  Allocator!Occupants(s) = Holders(s, browser[s])
BY DEF Allocator!Occupants, PlacedHeld, Holds, Holders, Unmonitored

LEMMA PlacedStep ==
  ASSUME PlacementInv, PlacementInv', [Next]_vars
  PROVE  [Allocator!Next]_Placed
<1> DEFINE Still == \A k \in Handles, t \in Slots : Holds(k, t)' <=> Holds(k, t)
<1>0. PlacedHeld /\ PlacedHeld'
  <2>1. PlacementInv' => PlacedHeld'
    BY PlacementIsHolding, PTL
  <2>2. QED
    BY <2>1, PlacementIsHolding
<1>1. ASSUME Still PROVE Placed' = Placed
  BY <1>0, <1>1, SameSlots DEF PlacedHeld
<1>2. ASSUME NEW h \in Handles, NEW s \in Slots, OpenSession(h, s) PROVE [Allocator!Next]_Placed
  <2>1. CASE s \in Unmonitored /\ Usable(s)
    <3>1. Placed[h] = NoPlacement
      BY <1>0, <1>2, OpenMoves DEF PlacedHeld
    <3>2. Cardinality(Allocator!Occupants(s)) < Capacity
      BY <1>0, <1>2, <2>1, OpenMoves, HoldersAreOccupants
    <3>3. Placed' = [Placed EXCEPT ![h] = s]
      BY <1>0, <1>2, <2>1, OpenMoves, SameSlots DEF PlacedHeld
    <3>4. Allocator!Acquire(h, s)
      BY <3>1, <3>2, <3>3 DEF Allocator!Acquire, Allocator!Cardinality, Cardinality
    <3>5. QED
      BY <3>4, SameSlots DEF Allocator!Next
  <2>2. CASE ~(s \in Unmonitored /\ Usable(s))
    BY <1>1, <1>2, <2>2, OpenMoves
  <2>3. QED
    BY <2>1, <2>2
<1>3. ASSUME NEW h \in Handles, ContextCreated(h) \/ ContextFailed(h) \/ ContextClosed(h)
      PROVE  [Allocator!Next]_Placed
  <2>1. CASE /\ \E t \in Slots : Holds(h, t)
             /\ \A k \in Handles, t \in Slots : Holds(k, t)' <=> Holds(k, t) /\ k # h
    <3>1. Placed[h] # NoPlacement
      BY <1>0, <2>1, SameSlots DEF PlacedHeld
    <3>2. Placed' = [Placed EXCEPT ![h] = NoPlacement]
      BY <1>0, <2>1, SameSlots DEF PlacedHeld
    <3>3. Allocator!Release(h)
      BY <3>1, <3>2 DEF Allocator!Release
    <3>4. QED
      BY <3>3 DEF Allocator!Next
  <2>2. QED
    BY <1>1, <1>3, <2>1, AnswerMoves
<1>4. ASSUME NEW p \in alive, Crash(p[1], p[2]) PROVE [Allocator!Next]_Placed
  <2>1. p[1] \in Slots /\ p[2] \in Nat
    BY DEF PlacementInv, PoolInv, TypeOK, Places
  <2>2. \A k \in Handles, t \in Slots :
          Holds(k, t)' <=> Holds(k, t) /\ (t # p[1] \/ p[1] \notin Unmonitored)
    BY <1>4, <2>1, CrashMoves
  <2>3. CASE p[1] \in Unmonitored
    <3>1. Placed' = [h \in Handles |-> IF Placed[h] \in {p[1]} THEN NoPlacement ELSE Placed[h]]
      BY <1>0, <2>1, <2>2, <2>3, SameSlots DEF PlacedHeld
    <3>2. Allocator!Lose({p[1]})
      BY <3>1 DEF Allocator!Lose
    <3>3. QED
      BY <2>1, <3>2, SameSlots DEF Allocator!Next
  <2>4. CASE p[1] \notin Unmonitored
    BY <1>1, <2>2, <2>4
  <2>5. QED
    BY <2>3, <2>4
<1>5. CASE CloseSlots \/ ProcessRestart
  <2>1. \A k \in Handles, t \in Slots : ~Holds(k, t)'
    <3>1. Init' => (\A k \in Handles, t \in Slots : ~Holds(k, t))'
      BY NobodyHeld, PTL
    <3>2. QED
      BY <1>5, <3>1, CloseMovesAll, RestartedProcess
  <2>2. Placed' = [h \in Handles |-> IF Placed[h] \in Slots THEN NoPlacement ELSE Placed[h]]
    BY <1>0, <2>1 DEF PlacedHeld
  <2>3. Allocator!Lose(Allocator!AllSlots)
    BY <2>2, SameSlots DEF Allocator!Lose
  <2>4. QED
    BY <2>3 DEF Allocator!Next
<1>6. CASE \/ \E h \in Handles : OpenRefused(h) \/ CloseSession(h) \/ ContextCloseFailed(h)
           \/ \E r \in Restarters : RestartStep(r)
           \/ CrashRecovery \/ HealthLaunchFailed \/ Close \/ SlotsClosed
           \/ \E s \in Slots : HealthRestart(s)
           \/ UNCHANGED vars
  <2>1. Still
    BY <1>6, OtherCallsMoveNone, RestartMovesNone, OtherStepsMoveNone
  <2>2. QED
    BY <1>1, <2>1
<1>7. QED
  BY <1>2, <1>3, <1>4, <1>5, <1>6 DEF Next, CallStep

\* The pool implements the allocator: what overlaps in it looks to its callers as if places
\* were taken when free, given back one by one, and lost only with their whole slot.
THEOREM PoolImplementsAllocator == Spec => AllocatorSpec
<1>1. Init => Allocator!Init
  BY PlacedInit
<1>2. PlacementInv /\ PlacementInv' /\ [Next]_vars => [Allocator!Next]_Placed
  BY PlacedStep
<1>3. Spec => []PlacementInv
  BY PlacementInit, PlacementStep, PTL DEF Spec
<1>4. QED
  BY <1>1, <1>2, <1>3, PTL DEF Spec, AllocatorSpec, Allocator!Spec

=============================================================================
