--------------------------- MODULE BrowserPoolProofs ---------------------------
(***************************************************************************)
(* Safety of the Chromium pool for any number of handles, slots, crashes   *)
(* and any capacity.                                                       *)
(***************************************************************************)
EXTENDS BrowserPool, FiniteSetTheorems, TLAPS

LEMMA ConstantFacts ==
  /\ 0 \in Slots /\ \A s \in Slots : s \in Nat
  /\ "crash" \in Restarters
  /\ NoPlacement \notin Places
BY SlotCountType, NoPlacementOut DEF Slots, Restarters, Places

LEMMA IdleTypes == IdleCall \in CallType /\ NoRestart \in RestartType
BY ConstantFacts DEF IdleCall, NoRestart, CallType, RestartType

-----------------------------------------------------------------------------
(* Types                                                                   *)

LEMMA TypeInit == Init => TypeOK
<1> SUFFICES ASSUME Init PROVE TypeOK
  OBVIOUS
<1>1. alive \subseteq Places
  BY DEF Init, Places
<1>2. queue \in Seq(Slots) /\ shutdown \in {"no", "contexts", "slots", "closed"}
  BY DEF Init
<1>3. call \in [Handles -> CallType] /\ restart \in [Restarters -> RestartType]
  BY IdleTypes DEF Init
<1>4. /\ browser \in [Slots -> Nat] /\ launched \in [Slots -> Nat]
      /\ load \in [Slots -> Nat] /\ suppress \in [Slots -> BOOLEAN]
  BY DEF Init
<1>5. /\ registry \in [Handles -> Places \union {NoPlacement}]
      /\ outcome \in [Handles -> Outcomes]
  BY DEF Init, Outcomes
<1>6. QED
  BY <1>1, <1>2, <1>3, <1>4, <1>5 DEF TypeOK, Init

LEMMA PlaceOfCall ==
  ASSUME TypeOK, NEW h \in Handles
  PROVE  /\ call[h].slot \in Slots /\ call[h].launch \in Nat
         /\ CallPlace(h) \in Places
BY DEF TypeOK, CallType, CallPlace, Places

LEMMA CallTypes ==
  ASSUME TypeOK, NEW h \in Handles, CallStep(h)
  PROVE  TypeOK'
<1> USE DEF TypeOK, slotVars
<1>0. call[h].slot \in Slots /\ CallPlace(h) \in Places
  BY PlaceOfCall
<1>1. CASE OpenRefused(h)
  BY <1>1 DEF OpenRefused, Answer, Outcomes
<1>2. ASSUME NEW s \in Slots, OpenSession(h, s) PROVE TypeOK'
  <2>1. call' \in [Handles -> CallType]
    BY <1>2 DEF OpenSession, CallType
  <2>2. outcome' \in [Handles -> Outcomes]
    BY <1>2 DEF OpenSession, Outcomes
  <2>3. load' \in [Slots -> Nat]
    BY <1>2 DEF OpenSession
  <2>4. QED
    BY <1>2, <2>1, <2>2, <2>3 DEF OpenSession
<1>3. CASE ContextCreated(h)
  <2>1. live' \subseteq Contexts
    BY <1>0, <1>3, PlaceOfCall DEF ContextCreated, ContextOf, CallPlace, Contexts
  <2>2. registry' \in [Handles -> Places \union {NoPlacement}]
    BY <1>0, <1>3 DEF ContextCreated
  <2>3. call' \in [Handles -> CallType] /\ outcome' \in [Handles -> Outcomes]
    BY <1>3, IdleTypes DEF ContextCreated, Outcomes
  <2>4. QED
    BY <1>3, <2>1, <2>2, <2>3 DEF ContextCreated
<1>4. CASE ContextFailed(h)
  <2>1. load' \in [Slots -> Nat]
    BY <1>0, <1>4 DEF ContextFailed, Decremented
  <2>2. call' \in [Handles -> CallType] /\ outcome' \in [Handles -> Outcomes]
    BY <1>4, IdleTypes DEF ContextFailed, Outcomes
  <2>3. QED
    BY <1>4, <2>1, <2>2 DEF ContextFailed
<1>5. CASE CloseSession(h)
  <2>1. registry[h] \in Places
    BY <1>5 DEF CloseSession
  <2>2. call' \in [Handles -> CallType]
    BY <1>5, <2>1 DEF CloseSession, CallType, Places
  <2>3. registry' \in [Handles -> Places \union {NoPlacement}]
    BY <1>5 DEF CloseSession
  <2>4. QED
    BY <1>5, <2>2, <2>3 DEF CloseSession
<1>6. CASE ContextClosed(h)
  <2>1. load' \in [Slots -> Nat]
    BY <1>0, <1>6 DEF ContextClosed, Decremented
  <2>2. call' \in [Handles -> CallType] /\ live' \subseteq Contexts
    BY <1>6, IdleTypes DEF ContextClosed
  <2>3. QED
    BY <1>6, <2>1, <2>2 DEF ContextClosed
<1>7. CASE ContextCloseFailed(h)
  BY <1>7, IdleTypes DEF ContextCloseFailed
<1>8. QED
  BY <1>1, <1>2, <1>3, <1>4, <1>5, <1>6, <1>7 DEF CallStep

\* The slot's sessions that restartSlot takes over.
LEMMA BeginTypes ==
  ASSUME TypeOK, NEW r \in Restarters, NEW s \in Slots, BeginRestart(r, s)
  PROVE  /\ restart' \in [Restarters -> RestartType]
         /\ registry' \in [Handles -> Places \union {NoPlacement}]
<1> DEFINE lost == {h \in Handles : registry[h] # NoPlacement /\ registry[h][1] = s}
<1>1. {ContextOf(h, registry[h]) : h \in lost} \subseteq Contexts
  BY DEF TypeOK, ContextOf, Contexts, Places
<1>2. [pc |-> "closing", slot |-> s, launch |-> 0,
       lost |-> {ContextOf(h, registry[h]) : h \in lost}] \in RestartType
  BY <1>1 DEF RestartType
<1>3. restart' = [restart EXCEPT ![r] =
                    [pc |-> "closing", slot |-> s, launch |-> 0,
                     lost |-> {ContextOf(h, registry[h]) : h \in lost}]]
  BY DEF BeginRestart
<1>4. restart' \in [Restarters -> RestartType]
  BY <1>2, <1>3 DEF TypeOK
<1>5. registry' = [h \in Handles |-> IF h \in lost THEN NoPlacement ELSE registry[h]]
  BY DEF BeginRestart
<1>6. QED
  BY <1>4, <1>5 DEF TypeOK

LEMMA FaultTypes ==
  ASSUME TypeOK, \/ \E p \in alive : Crash(p[1], p[2])
                 \/ CrashRecovery
                 \/ \E s \in Slots : HealthRestart(s)
  PROVE  TypeOK'
<1> USE DEF TypeOK, slotVars
<1>1. ASSUME NEW p \in alive, Crash(p[1], p[2]) PROVE TypeOK'
  <2>1. p[1] \in Slots
    BY DEF Places
  <2>2. queue' \in Seq(Slots)
    BY <1>1, <2>1 DEF Crash
  <2>3. alive' \subseteq Places /\ live' \subseteq Contexts
    BY <1>1 DEF Crash, Killed
  <2>4. faults' \in Nat
    BY <1>1 DEF Crash
  <2>5. QED
    BY <1>1, <2>2, <2>3, <2>4 DEF Crash
<1>2. CASE CrashRecovery
  <2>1. Head(queue) \in Slots /\ Tail(queue) \in Seq(Slots)
    BY <1>2 DEF CrashRecovery
  <2>2. /\ restart' \in [Restarters -> RestartType]
        /\ registry' \in [Handles -> Places \union {NoPlacement}]
    BY <1>2, <2>1, BeginTypes, ConstantFacts DEF CrashRecovery
  <2>3. QED
    BY <1>2, <2>1, <2>2 DEF CrashRecovery
<1>3. ASSUME NEW s \in Slots, HealthRestart(s) PROVE TypeOK'
  <2>1. "health" \in Restarters
    BY <1>3 DEF HealthRestart, Restarters
  <2>2. /\ restart' \in [Restarters -> RestartType]
        /\ registry' \in [Handles -> Places \union {NoPlacement}]
    BY <1>3, <2>1, BeginTypes DEF HealthRestart
  <2>3. QED
    BY <1>3, <2>2 DEF HealthRestart
<1>4. QED
  BY <1>1, <1>2, <1>3

LEMMA RestartTypes ==
  ASSUME TypeOK, NEW r \in Restarters, RestartStep(r)
  PROVE  TypeOK'
<1> DEFINE s == restart[r].slot
<1>0. s \in Slots /\ restart[r].launch \in Nat
  BY DEF TypeOK, RestartType
<1>1. CASE RestartContextsClosed(r)
  <2>1. restart' \in [Restarters -> RestartType]
    BY <1>0, <1>1 DEF RestartContextsClosed, TypeOK, RestartType
  <2>2. /\ load' \in [Slots -> Nat] /\ browser' \in [Slots -> Nat]
        /\ suppress' \in [Slots -> BOOLEAN]
    BY <1>0, <1>1 DEF RestartContextsClosed, TypeOK
  <2>3. live' \subseteq Contexts
    BY <1>1 DEF RestartContextsClosed, TypeOK
  <2>4. QED
    BY <1>1, <2>1, <2>2, <2>3 DEF RestartContextsClosed, TypeOK
<1>2. CASE RestartBrowserClosed(r)
  <2>1. restart' \in [Restarters -> RestartType] /\ launched' \in [Slots -> Nat]
    <3>1. CASE browser[s] # 0
      BY <1>2, <3>1, IdleTypes DEF RestartBrowserClosed, TypeOK
    <3>2. CASE browser[s] = 0
      <4>1. launched[s] + 1 \in Nat
        BY <1>0 DEF TypeOK
      <4>2. [pc |-> "launching", slot |-> s, launch |-> launched[s] + 1, lost |-> {}]
              \in RestartType
        BY <1>0, <4>1 DEF RestartType
      <4>3. QED
        BY <1>2, <3>2, <4>1, <4>2 DEF RestartBrowserClosed, TypeOK
    <3>3. QED
      BY <3>1, <3>2
  <2>2. alive' \subseteq Places /\ live' \subseteq Contexts
    BY <1>2 DEF RestartBrowserClosed, Killed, TypeOK
  <2>3. suppress' \in [Slots -> BOOLEAN]
    BY <1>2 DEF RestartBrowserClosed, TypeOK
  <2>4. QED
    BY <1>2, <2>1, <2>2, <2>3 DEF RestartBrowserClosed, TypeOK
<1>3. CASE Launched(r)
  <2>1. alive' \subseteq Places /\ browser' \in [Slots -> Nat]
    BY <1>0, <1>3 DEF Launched, TypeOK, Places
  <2>2. restart' \in [Restarters -> RestartType]
    BY <1>3, IdleTypes DEF Launched, TypeOK
  <2>3. QED
    BY <1>3, <2>1, <2>2 DEF Launched, TypeOK
<1>4. QED
  BY <1>1, <1>2, <1>3 DEF RestartStep

LEMMA EndTypes ==
  ASSUME TypeOK, HealthLaunchFailed \/ Close \/ CloseSlots \/ SlotsClosed
  PROVE  TypeOK'
<1>1. CASE HealthLaunchFailed
  BY <1>1, IdleTypes DEF HealthLaunchFailed, TypeOK, slotVars
<1>2. CASE Close
  BY <1>2 DEF Close, TypeOK, slotVars
<1>3. CASE CloseSlots
  BY <1>3 DEF CloseSlots, TypeOK
<1>4. CASE SlotsClosed
  BY <1>4 DEF SlotsClosed, TypeOK
<1>5. QED
  BY <1>1, <1>2, <1>3, <1>4

\* A new process starts as the first one did.
LEMMA RestartedProcess == ProcessRestart => Init'
BY DEF ProcessRestart, Init

LEMMA TypeStep == TypeOK /\ [Next]_vars => TypeOK'
<1> SUFFICES ASSUME TypeOK, [Next]_vars PROVE TypeOK'
  OBVIOUS
<1>1. CASE \E h \in Handles : CallStep(h)
  BY <1>1, CallTypes
<1>2. CASE \/ \E p \in alive : Crash(p[1], p[2])
           \/ CrashRecovery
           \/ \E s \in Slots : HealthRestart(s)
  BY <1>2, FaultTypes
<1>3. CASE \E r \in Restarters : RestartStep(r)
  BY <1>3, RestartTypes
<1>4. CASE HealthLaunchFailed \/ Close \/ CloseSlots \/ SlotsClosed
  BY <1>4, EndTypes
<1>5. CASE ProcessRestart
  <2>1. Init' => TypeOK'
    BY TypeInit, PTL
  <2>2. QED
    BY <1>5, <2>1, RestartedProcess
<1>6. CASE UNCHANGED vars
  BY <1>6 DEF vars, slotVars, TypeOK
<1>7. QED
  BY <1>1, <1>2, <1>3, <1>4, <1>5, <1>6 DEF Next

\* Every variable of the pool keeps its type.
THEOREM PoolTypeCorrect == Spec => []TypeOK
<1>1. QED
  BY TypeInit, TypeStep, PTL DEF Spec

-----------------------------------------------------------------------------
(* The invariant behind the accounting of the slots.  It is about the slots *)
(* that no HealthMonitor restarts.                                          *)

Unmonitored == Slots \ Monitored

\* The slot's own browser runs.
Usable(s) == <<s, browser[s]>> \in alive

\* A running browser of an unmonitored slot is the one the slot uses, and contexts exist
\* in running browsers only.
RunningInv ==
  /\ \A p \in alive : p[2] # 0 /\ (p[1] \in Unmonitored => p[2] = browser[p[1]])
  /\ \A c \in live : <<c[2], c[3]>> \in alive
  /\ \A r \in Restarters :
       /\ restart[r].pc = "launching" => restart[r].launch # 0
       /\ \A c \in restart[r].lost : c[2] = restart[r].slot

\* A slot waits for one recovery at most, and only while its browser is gone.
QueueInv ==
  \A i \in DOMAIN queue : queue[i] \in Unmonitored =>
    /\ ~Usable(queue[i])
    /\ \A j \in DOMAIN queue : queue[j] = queue[i] => i = j

\* While a recovery is under way nothing is placed in its slot, and once the load is reset
\* nothing is counted until the relaunch.
RestartInv ==
  \A r \in Restarters : restart[r].pc # "idle" /\ restart[r].slot \in Unmonitored =>
    /\ r = "crash"
    /\ ~Usable(restart[r].slot)
    /\ \A i \in DOMAIN queue : queue[i] # restart[r].slot
    /\ \A h \in Handles : registry[h] = NoPlacement \/ registry[h][1] # restart[r].slot
    /\ restart[r].pc \in {"stopping", "launching"} =>
         browser[restart[r].slot] = 0 /\ load[restart[r].slot] = 0

\* A call to a usable slot is a call to its browser: the context being closed exists,
\* the one being created does not.
CallSound(h) ==
  call[h].pc # "idle" =>
    /\ registry[h] = NoPlacement
    /\ call[h].slot \in Unmonitored /\ Usable(call[h].slot) =>
         /\ call[h].launch = browser[call[h].slot]
         /\ ContextOf(h, CallPlace(h)) \in live <=> call[h].pc = "closing"

CallInv == \A h \in Handles : CallSound(h)

\* A session registered in a usable slot has a context in its browser.
RegisteredInv ==
  \A h \in Handles :
    registry[h] # NoPlacement /\ registry[h][1] \in Unmonitored /\ Usable(registry[h][1]) =>
      /\ registry[h][2] = browser[registry[h][1]]
      /\ ContextOf(h, registry[h]) \in live

\* Whatever context exists is registered or being closed.
KnownInv ==
  shutdown = "no" =>
    \A h \in Handles, s \in Unmonitored :
      ContextOf(h, <<s, browser[s]>>) \in live =>
        \/ registry[h] = <<s, browser[s]>>
        \/ call[h].pc = "closing" /\ CallPlace(h) = <<s, browser[s]>>

\* No slot counts more contexts than it may hold.
LoadBound == \A s \in Slots : load[s] <= Capacity

SlotInv ==
  /\ RunningInv /\ QueueInv /\ RestartInv
  /\ CallInv /\ RegisteredInv /\ KnownInv
  /\ LoadBound /\ LoadExact

-----------------------------------------------------------------------------
(* Small facts                                                             *)

LEMMA HoldersFinite ==
  ASSUME NEW s, NEW g
  PROVE  IsFiniteSet(Holders(s, g)) /\ Cardinality(Holders(s, g)) \in Nat
<1>1. Holders(s, g) \subseteq Handles
  BY DEF Holders
<1>2. QED
  BY <1>1, HandlesFinite, FS_Subset, FS_CardinalityType

\* Nothing lives in a slot whose browser is gone.
LEMMA OnlyUsable ==
  ASSUME TypeOK, RunningInv, NEW s \in Unmonitored, NEW g, <<s, g>> \in alive
  PROVE  g = browser[s] /\ Usable(s)
BY DEF RunningInv, Usable

LEMMA LiveUsable ==
  ASSUME TypeOK, RunningInv, NEW h, NEW s \in Unmonitored, NEW g, ContextOf(h, <<s, g>>) \in live
  PROVE  <<s, g>> \in alive /\ g = browser[s] /\ Usable(s)
<1>1. <<s, g>> \in alive
  BY DEF RunningInv, ContextOf
<1>2. QED
  BY <1>1, OnlyUsable

LEMMA SlotInit == Init => SlotInv
<1> SUFFICES ASSUME Init PROVE SlotInv
  OBVIOUS
<1>1. RunningInv /\ QueueInv /\ RestartInv
  BY DEF Init, RunningInv, QueueInv, RestartInv, NoRestart, Restarters
<1>2. CallInv /\ RegisteredInv /\ KnownInv
  BY DEF Init, CallInv, CallSound, RegisteredInv, KnownInv, IdleCall
<1>3. LoadBound
  BY CapacityType DEF Init, LoadBound
<1>4. LoadExact
  <2>1. ASSUME NEW s \in Slots PROVE Holders(s, browser[s]) = {}
    BY DEF Init, Holders, IdleCall
  <2>2. QED
    BY <2>1, FS_EmptySet DEF Init, LoadExact
<1>5. QED
  BY <1>1, <1>2, <1>3, <1>4 DEF SlotInv

-----------------------------------------------------------------------------
(* Opening and closing sessions                                            *)

LEMMA OpenKeeps ==
  ASSUME TypeOK, SlotInv, NEW h \in Handles, NEW s \in Slots, OpenSession(h, s)
  PROVE  SlotInv'
<1> USE DEF SlotInv
<1>0. /\ s \in Unmonitored => ContextOf(h, <<s, browser[s]>>) \notin live
      /\ call' = [call EXCEPT ![h] = [pc |-> "opening", slot |-> s, launch |-> browser[s]]]
      /\ load' = [load EXCEPT ![s] = @ + 1]
      /\ UNCHANGED <<browser, registry, queue, restart, shutdown, alive, live>>
  <2>1. call[h].pc = "idle" /\ registry[h] = NoPlacement /\ shutdown = "no"
    BY DEF OpenSession, MayOpen
  <2>2. registry[h] # <<s, browser[s]>>
    BY <2>1, NoPlacementOut, ConstantFacts DEF TypeOK, Places
  <2>3. s \in Unmonitored => ContextOf(h, <<s, browser[s]>>) \notin live
    BY <2>1, <2>2 DEF KnownInv
  <2>4. QED
    BY <2>3 DEF OpenSession
<1>1. RunningInv' /\ QueueInv'
  BY <1>0 DEF RunningInv, QueueInv, Usable
<1>2. RestartInv'
  <2>1. browser[s] # 0
    BY DEF OpenSession
  <2>2. QED
    BY <1>0, <2>1 DEF RestartInv, Usable, TypeOK, RestartType
<1>3. CallInv'
  <2> SUFFICES ASSUME NEW k \in Handles PROVE CallSound(k)'
    BY DEF CallInv
  <2>1. CASE k = h
    <3>1. call'[h] = [pc |-> "opening", slot |-> s, launch |-> browser[s]]
      BY <1>0 DEF TypeOK
    <3>2. QED
      BY <1>0, <2>1, <3>1 DEF CallSound, CallPlace, OpenSession, Usable, ContextOf
  <2>2. CASE k # h
    <3>1. call'[k] = call[k]
      BY <1>0, <2>2 DEF TypeOK
    <3>2. QED
      BY <1>0, <3>1 DEF CallInv, CallSound, CallPlace, Usable, ContextOf
  <2>3. QED
    BY <2>1, <2>2
<1>4. RegisteredInv'
  BY <1>0 DEF RegisteredInv, Usable
<1>5. KnownInv'
  BY <1>0 DEF KnownInv, CallPlace, TypeOK, OpenSession, MayOpen
<1>6. LoadBound'
  BY <1>0, CapacityType DEF OpenSession, LeastLoaded, Candidates, LoadBound, TypeOK
<1>7. LoadExact'
  <2> SUFFICES ASSUME NEW t \in Slots \ Monitored, <<t, browser[t]>> \in alive
               PROVE  load'[t] = Cardinality(Holders(t, browser[t])')
    BY <1>0 DEF LoadExact
  <2>1. CASE t = s
    <3>1. h \notin Holders(s, browser[s])
      BY <1>0, <2>1 DEF Holders, ContextOf, OpenSession, MayOpen, Unmonitored
    <3>2. Holders(s, browser[s])' = Holders(s, browser[s]) \union {h}
      BY <1>0 DEF Holders, CallPlace, TypeOK
    <3>3. QED
      <4>1. Cardinality(Holders(s, browser[s]) \union {h})
              = Cardinality(Holders(s, browser[s])) + 1
        BY <3>1, HoldersFinite, FS_AddElement
      <4>2. load[s] = Cardinality(Holders(s, browser[s])) /\ load'[s] = load[s] + 1
        BY <1>0, <2>1 DEF LoadExact, TypeOK
      <4>3. QED
        BY <1>0, <2>1, <3>2, <4>1, <4>2
  <2>2. CASE t # s
    <3>1. Holders(t, browser[t])' = Holders(t, browser[t])
      BY <1>0, <2>2 DEF Holders, CallPlace, TypeOK, OpenSession, MayOpen
    <3>2. QED
      BY <1>0, <2>2, <3>1 DEF LoadExact, TypeOK
  <2>3. QED
    BY <2>1, <2>2
<1>8. QED
  BY <1>1, <1>2, <1>3, <1>4, <1>5, <1>6, <1>7

LEMMA CreatedKeeps ==
  ASSUME TypeOK, SlotInv, NEW h \in Handles, ContextCreated(h)
  PROVE  SlotInv'
<1> DEFINE s == call[h].slot
           g == call[h].launch
<1> USE DEF SlotInv
<1>0. /\ s \in Slots /\ g \in Nat /\ <<s, g>> \in alive /\ call[h].pc = "opening"
      /\ live' = live \union {<<h, s, g>>}
      /\ registry' = [registry EXCEPT ![h] = <<s, g>>]
      /\ call' = [call EXCEPT ![h] = IdleCall]
      /\ UNCHANGED <<browser, load, queue, restart, shutdown, alive>>
  BY PlaceOfCall DEF ContextCreated, CallPlace, ContextOf, slotVars
<1>a. s \in Unmonitored => g = browser[s] /\ Usable(s)
  BY <1>0, OnlyUsable
<1>b. registry[h] = NoPlacement
  BY <1>0 DEF CallInv, CallSound
<1>1. RunningInv' /\ QueueInv'
  BY <1>0 DEF RunningInv, QueueInv, Usable
<1>2. RestartInv'
  BY <1>0, <1>a DEF RestartInv, Usable, TypeOK, RestartType
<1>3. CallInv'
  <2> SUFFICES ASSUME NEW k \in Handles PROVE CallSound(k)'
    BY DEF CallInv
  <2>1. CASE k = h
    BY <1>0, <2>1 DEF CallSound, IdleCall, TypeOK
  <2>2. CASE k # h
    <3>1. call'[k] = call[k] /\ registry'[k] = registry[k]
      BY <1>0, <2>2 DEF TypeOK
    <3>2. QED
      BY <1>0, <2>2, <3>1 DEF CallInv, CallSound, CallPlace, Usable, ContextOf
  <2>3. QED
    BY <2>1, <2>2
<1>4. RegisteredInv'
  <2> SUFFICES ASSUME NEW k \in Handles, registry'[k] # NoPlacement,
                      registry'[k][1] \in Unmonitored, Usable(registry'[k][1])
               PROVE  /\ registry'[k][2] = browser[registry'[k][1]]
                      /\ ContextOf(k, registry'[k]) \in live'
    BY <1>0 DEF RegisteredInv, Usable, ContextOf
  <2>1. CASE k = h
    BY <1>0, <1>a, <2>1 DEF ContextOf, TypeOK
  <2>2. CASE k # h
    BY <1>0, <2>2 DEF RegisteredInv, TypeOK
  <2>3. QED
    BY <2>1, <2>2
<1>5. KnownInv'
  <2> SUFFICES ASSUME shutdown = "no", NEW k \in Handles, NEW t \in Unmonitored,
                      ContextOf(k, <<t, browser[t]>>) \in live'
               PROVE  \/ registry'[k] = <<t, browser[t]>>
                      \/ call'[k].pc = "closing" /\ CallPlace(k)' = <<t, browser[t]>>
    BY <1>0 DEF KnownInv, ContextOf
  <2>1. CASE k = h /\ t = s
    BY <1>0, <1>a, <2>1 DEF TypeOK
  <2>2. CASE k = h /\ t # s
    <3>1. ContextOf(h, <<t, browser[t]>>) \in live
      BY <1>0, <2>2 DEF ContextOf
    <3>2. registry[h] # <<t, browser[t]>>
      BY <1>b, ConstantFacts DEF TypeOK, Places, Unmonitored
    <3>3. QED
      BY <1>0, <3>1, <3>2 DEF KnownInv
  <2>3. CASE k # h
    <3>1. ContextOf(k, <<t, browser[t]>>) \in live
      BY <1>0, <2>3 DEF ContextOf
    <3>2. call'[k] = call[k] /\ registry'[k] = registry[k]
      BY <1>0, <2>3 DEF TypeOK
    <3>3. QED
      BY <3>1, <3>2 DEF KnownInv, CallPlace
  <2>4. QED
    BY <2>1, <2>2, <2>3
<1>6. LoadBound'
  BY <1>0 DEF LoadBound
<1>7. LoadExact'
  <2> SUFFICES ASSUME NEW t \in Slots \ Monitored, <<t, browser[t]>> \in alive
               PROVE  load[t] = Cardinality(Holders(t, browser[t])')
    BY <1>0 DEF LoadExact
  <2>1. Holders(t, browser[t])' = Holders(t, browser[t])
    BY <1>0 DEF Holders, CallPlace, TypeOK, IdleCall
  <2>2. QED
    BY <2>1 DEF LoadExact
<1>8. QED
  BY <1>1, <1>2, <1>3, <1>4, <1>5, <1>6, <1>7

\* The place of a call that ends without a context is given back.
LEMMA FailedKeeps ==
  ASSUME TypeOK, SlotInv, NEW h \in Handles, ContextFailed(h)
  PROVE  SlotInv'
<1> DEFINE s == call[h].slot
           g == call[h].launch
<1> USE DEF SlotInv
<1>0. /\ s \in Slots /\ g \in Nat /\ call[h].pc = "opening"
      /\ load' = [load EXCEPT ![s] = Decremented(@)]
      /\ call' = [call EXCEPT ![h] = IdleCall]
      /\ UNCHANGED <<browser, registry, queue, restart, shutdown, alive, live>>
  BY PlaceOfCall DEF ContextFailed
<1>1. RunningInv' /\ QueueInv' /\ RegisteredInv'
  BY <1>0 DEF RunningInv, QueueInv, RegisteredInv, Usable
<1>2. RestartInv'
  <2>1. \A t \in Slots : load[t] = 0 => load'[t] = 0
    BY <1>0 DEF Decremented, TypeOK
  <2>2. QED
    BY <1>0, <2>1 DEF RestartInv, Usable, TypeOK, RestartType
<1>3. CallInv'
  <2> SUFFICES ASSUME NEW k \in Handles PROVE CallSound(k)'
    BY DEF CallInv
  <2>1. CASE k = h
    BY <1>0, <2>1 DEF CallSound, IdleCall, TypeOK
  <2>2. CASE k # h
    <3>1. call'[k] = call[k]
      BY <1>0, <2>2 DEF TypeOK
    <3>2. QED
      BY <1>0, <3>1 DEF CallInv, CallSound, CallPlace, Usable, ContextOf
  <2>3. QED
    BY <2>1, <2>2
<1>4. KnownInv'
  BY <1>0 DEF KnownInv, CallPlace, TypeOK
<1>5. LoadBound'
  <2>1. \A t \in Slots : load'[t] <= load[t]
    BY <1>0 DEF Decremented, TypeOK
  <2>2. QED
    BY <1>0, <2>1, CapacityType DEF LoadBound, TypeOK, Decremented
<1>6. LoadExact'
  <2> SUFFICES ASSUME NEW t \in Slots \ Monitored, <<t, browser[t]>> \in alive
               PROVE  load'[t] = Cardinality(Holders(t, browser[t])')
    BY <1>0 DEF LoadExact
  <2>1. CASE t = s
    <3>1. g = browser[t] /\ ContextOf(h, <<t, g>>) \notin live
      BY <1>0, <2>1 DEF CallInv, CallSound, CallPlace, Usable, Unmonitored
    <3>2. h \in Holders(t, browser[t])
      BY <1>0, <2>1, <3>1 DEF Holders, CallPlace
    <3>3. Holders(t, browser[t])' = Holders(t, browser[t]) \ {h}
      BY <1>0, <2>1, <3>1 DEF Holders, CallPlace, ContextOf, IdleCall, TypeOK
    <3>4. Cardinality(Holders(t, browser[t]) \ {h}) = Cardinality(Holders(t, browser[t])) - 1
      BY <3>2, HoldersFinite, FS_RemoveElement
    <3>5. Cardinality(Holders(t, browser[t])) # 0
      BY <3>2, HoldersFinite, FS_EmptySet
    <3>6. load[t] = Cardinality(Holders(t, browser[t]))
      BY DEF LoadExact
    <3>7. load'[t] = load[t] - 1
      BY <1>0, <2>1, <3>5, <3>6, HoldersFinite DEF Decremented, TypeOK
    <3>8. QED
      BY <3>3, <3>4, <3>6, <3>7
  <2>2. CASE t # s
    <3>1. Holders(t, browser[t])' = Holders(t, browser[t])
      BY <1>0, <2>2 DEF Holders, CallPlace, IdleCall, TypeOK
    <3>2. QED
      BY <1>0, <2>2, <3>1 DEF LoadExact, TypeOK
  <2>3. QED
    BY <2>1, <2>2
<1>7. QED
  BY <1>1, <1>2, <1>3, <1>4, <1>5, <1>6

LEMMA ClosingKeeps ==
  ASSUME TypeOK, SlotInv, NEW h \in Handles, CloseSession(h)
  PROVE  SlotInv'
<1> DEFINE s == registry[h][1]
           g == registry[h][2]
<1> USE DEF SlotInv
<1>0. /\ registry[h] # NoPlacement /\ registry[h] = <<s, g>> /\ s \in Slots
      /\ call[h].pc = "idle"
      /\ registry' = [registry EXCEPT ![h] = NoPlacement]
      /\ call' = [call EXCEPT ![h] = [pc |-> "closing", slot |-> s, launch |-> g]]
      /\ UNCHANGED <<browser, load, queue, restart, shutdown, alive, live>>
  BY DEF CloseSession, slotVars, TypeOK, Places
<1>1. RunningInv' /\ QueueInv' /\ LoadBound'
  BY <1>0 DEF RunningInv, QueueInv, LoadBound, Usable
<1>2. RestartInv'
  BY <1>0 DEF RestartInv, Usable, TypeOK
<1>3. CallInv'
  <2> SUFFICES ASSUME NEW k \in Handles PROVE CallSound(k)'
    BY DEF CallInv
  <2>1. CASE k = h
    <3>1. call'[h] = [pc |-> "closing", slot |-> s, launch |-> g] /\ registry'[h] = NoPlacement
      BY <1>0 DEF TypeOK
    <3>2. QED
      BY <1>0, <2>1, <3>1 DEF CallSound, CallPlace, RegisteredInv, Usable, ContextOf
  <2>2. CASE k # h
    <3>1. call'[k] = call[k] /\ registry'[k] = registry[k]
      BY <1>0, <2>2 DEF TypeOK
    <3>2. QED
      BY <1>0, <3>1 DEF CallInv, CallSound, CallPlace, Usable, ContextOf
  <2>3. QED
    BY <2>1, <2>2
<1>4. RegisteredInv'
  BY <1>0 DEF RegisteredInv, Usable, ContextOf, TypeOK
<1>5. KnownInv'
  BY <1>0 DEF KnownInv, CallPlace, ContextOf, TypeOK
<1>6. LoadExact'
  <2>1. ASSUME NEW t \in Slots PROVE Holders(t, browser[t])' = Holders(t, browser[t])
    BY <1>0 DEF Holders, CallPlace, TypeOK
  <2>2. QED
    BY <1>0, <2>1 DEF LoadExact
<1>7. QED
  BY <1>1, <1>2, <1>3, <1>4, <1>5, <1>6

LEMMA ClosedKeeps ==
  ASSUME TypeOK, SlotInv, NEW h \in Handles, ContextClosed(h)
  PROVE  SlotInv'
<1> DEFINE s == call[h].slot
           g == call[h].launch
<1> USE DEF SlotInv
<1>0. /\ s \in Slots /\ g \in Nat /\ call[h].pc = "closing"
      /\ live' = live \ {<<h, s, g>>}
      /\ load' = [load EXCEPT ![s] = Decremented(@)]
      /\ call' = [call EXCEPT ![h] = IdleCall]
      /\ UNCHANGED <<browser, registry, queue, restart, shutdown, alive>>
  BY PlaceOfCall DEF ContextClosed, CallPlace, ContextOf
<1>a. registry[h] = NoPlacement
  BY <1>0 DEF CallInv, CallSound
<1>1. RunningInv' /\ QueueInv'
  BY <1>0 DEF RunningInv, QueueInv, Usable
<1>2. RestartInv'
  <2>1. \A t \in Slots : load[t] = 0 => load'[t] = 0
    BY <1>0 DEF Decremented, TypeOK
  <2>2. QED
    BY <1>0, <2>1 DEF RestartInv, Usable, TypeOK, RestartType
<1>3. CallInv'
  <2> SUFFICES ASSUME NEW k \in Handles PROVE CallSound(k)'
    BY DEF CallInv
  <2>1. CASE k = h
    BY <1>0, <2>1 DEF CallSound, IdleCall, TypeOK
  <2>2. CASE k # h
    <3>1. call'[k] = call[k]
      BY <1>0, <2>2 DEF TypeOK
    <3>2. QED
      BY <1>0, <2>2, <3>1 DEF CallInv, CallSound, CallPlace, Usable, ContextOf
  <2>3. QED
    BY <2>1, <2>2
<1>4. RegisteredInv'
  BY <1>0, <1>a DEF RegisteredInv, Usable, ContextOf
<1>5. KnownInv'
  <2> SUFFICES ASSUME shutdown = "no", NEW k \in Handles, NEW t \in Unmonitored,
                      ContextOf(k, <<t, browser[t]>>) \in live'
               PROVE  \/ registry[k] = <<t, browser[t]>>
                      \/ call'[k].pc = "closing" /\ CallPlace(k)' = <<t, browser[t]>>
    BY <1>0 DEF KnownInv, ContextOf
  <2>1. \/ registry[k] = <<t, browser[t]>>
        \/ call[k].pc = "closing" /\ CallPlace(k) = <<t, browser[t]>>
    BY <1>0 DEF KnownInv, ContextOf
  <2>2. CASE k = h
    BY <1>0, <2>1, <2>2 DEF CallPlace, ContextOf
  <2>3. CASE k # h
    BY <1>0, <2>1, <2>3 DEF CallPlace, TypeOK
  <2>4. QED
    BY <2>2, <2>3
<1>6. LoadBound'
  <2>1. \A t \in Slots : load'[t] <= load[t]
    BY <1>0 DEF Decremented, TypeOK
  <2>2. QED
    BY <1>0, <2>1, CapacityType DEF LoadBound, TypeOK, Decremented
<1>7. LoadExact'
  <2> SUFFICES ASSUME NEW t \in Slots \ Monitored, <<t, browser[t]>> \in alive
               PROVE  load'[t] = Cardinality(Holders(t, browser[t])')
    BY <1>0 DEF LoadExact
  <2>1. CASE t = s
    <3>1. g = browser[t] /\ <<h, t, g>> \in live
      BY <1>0, <2>1 DEF CallInv, CallSound, CallPlace, ContextOf, Usable, Unmonitored
    <3>2. h \in Holders(t, browser[t])
      BY <3>1 DEF Holders
    <3>3. Holders(t, browser[t])' = Holders(t, browser[t]) \ {h}
      BY <1>0, <2>1, <3>1 DEF Holders, CallPlace, IdleCall, TypeOK
    <3>4. Cardinality(Holders(t, browser[t]) \ {h}) = Cardinality(Holders(t, browser[t])) - 1
      BY <3>2, HoldersFinite, FS_RemoveElement
    <3>5. Cardinality(Holders(t, browser[t])) # 0
      BY <3>2, HoldersFinite, FS_EmptySet
    <3>6. load[t] = Cardinality(Holders(t, browser[t]))
      BY DEF LoadExact
    <3>7. load'[t] = load[t] - 1
      BY <1>0, <2>1, <3>5, <3>6, HoldersFinite DEF Decremented, TypeOK
    <3>8. QED
      BY <3>3, <3>4, <3>6, <3>7
  <2>2. CASE t # s
    <3>1. Holders(t, browser[t])' = Holders(t, browser[t])
      BY <1>0, <2>2 DEF Holders, CallPlace, IdleCall, TypeOK
    <3>2. QED
      BY <1>0, <2>2, <3>1 DEF LoadExact, TypeOK
  <2>3. QED
    BY <2>1, <2>2
<1>8. QED
  BY <1>1, <1>2, <1>3, <1>4, <1>5, <1>6, <1>7

\* The browser died during the close, so no usable slot is concerned.
LEMMA CloseFailedKeeps ==
  ASSUME TypeOK, SlotInv, NEW h \in Handles, ContextCloseFailed(h)
  PROVE  SlotInv'
<1> USE DEF SlotInv
<1>0. /\ call[h].pc = "closing" /\ CallPlace(h) \notin alive
      /\ call' = [call EXCEPT ![h] = IdleCall]
      /\ UNCHANGED <<browser, load, registry, queue, restart, shutdown, alive, live>>
  BY DEF ContextCloseFailed, slotVars
<1>1. RunningInv' /\ QueueInv' /\ RestartInv' /\ RegisteredInv' /\ LoadBound'
  BY <1>0 DEF RunningInv, QueueInv, RestartInv, RegisteredInv, LoadBound, Usable
<1>2. CallInv'
  <2> SUFFICES ASSUME NEW k \in Handles PROVE CallSound(k)'
    BY DEF CallInv
  <2>1. CASE k = h
    BY <1>0, <2>1 DEF CallSound, IdleCall, TypeOK
  <2>2. CASE k # h
    <3>1. call'[k] = call[k]
      BY <1>0, <2>2 DEF TypeOK
    <3>2. QED
      BY <1>0, <3>1 DEF CallInv, CallSound, CallPlace, Usable, ContextOf
  <2>3. QED
    BY <2>1, <2>2
<1>3. KnownInv'
  <2> SUFFICES ASSUME shutdown = "no", NEW k \in Handles, NEW t \in Unmonitored,
                      ContextOf(k, <<t, browser[t]>>) \in live
               PROVE  \/ registry[k] = <<t, browser[t]>>
                      \/ call'[k].pc = "closing" /\ CallPlace(k)' = <<t, browser[t]>>
    BY <1>0 DEF KnownInv
  <2>1. <<t, browser[t]>> \in alive
    BY LiveUsable
  <2>2. \/ registry[k] = <<t, browser[t]>>
        \/ call[k].pc = "closing" /\ CallPlace(k) = <<t, browser[t]>>
    BY DEF KnownInv
  <2>3. CASE k = h
    BY <1>0, <2>1, <2>2, <2>3
  <2>4. CASE k # h
    BY <1>0, <2>2, <2>4 DEF CallPlace, TypeOK
  <2>5. QED
    BY <2>3, <2>4
<1>4. LoadExact'
  <2>1. ASSUME NEW t \in Slots PROVE Holders(t, browser[t])' = Holders(t, browser[t])
    BY <1>0 DEF Holders, CallPlace, IdleCall, TypeOK
  <2>2. QED
    BY <1>0, <2>1 DEF LoadExact
<1>5. QED
  BY <1>1, <1>2, <1>3, <1>4

LEMMA RefusedKeeps ==
  ASSUME TypeOK, SlotInv, NEW h \in Handles, OpenRefused(h)
  PROVE  SlotInv'
<1>1. UNCHANGED <<browser, load, registry, call, queue, restart, shutdown, alive, live>>
  BY DEF OpenRefused, Answer, slotVars
<1>2. QED
  BY <1>1 DEF SlotInv, RunningInv, QueueInv, RestartInv, CallInv, CallSound, RegisteredInv,
     KnownInv, LoadBound, LoadExact, Holders, CallPlace, Usable

LEMMA CallKeeps ==
  ASSUME TypeOK, SlotInv, NEW h \in Handles, CallStep(h)
  PROVE  SlotInv'
BY RefusedKeeps, OpenKeeps, CreatedKeeps, FailedKeeps, ClosingKeeps, ClosedKeeps,
   CloseFailedKeeps DEF CallStep

-----------------------------------------------------------------------------
(* Crashes and the start of a recovery                                     *)

LEMMA CrashKeeps ==
  ASSUME TypeOK, SlotInv, NEW s \in Slots, NEW g \in Nat, Crash(s, g)
  PROVE  SlotInv'
<1> USE DEF SlotInv
<1>0. /\ <<s, g>> \in alive
      /\ alive' = alive \ {<<s, g>>}
      /\ live' = {c \in live : <<c[2], c[3]>> # <<s, g>>}
      /\ queue' = queue \/ queue' = Append(queue, s)
      /\ UNCHANGED <<browser, load, registry, call, restart, shutdown>>
  BY DEF Crash, Killed, slotVars
<1>a. s \in Unmonitored => g = browser[s] /\ Usable(s)
  BY <1>0, OnlyUsable
<1>b. \A t \in Unmonitored : Usable(t)' => Usable(t) /\ t # s
  BY <1>0, <1>a DEF Usable
<1>c. \A h \in Handles, t \in Unmonitored :
        t # s => (ContextOf(h, <<t, browser[t]>>) \in live'
                    <=> ContextOf(h, <<t, browser[t]>>) \in live)
  BY <1>0 DEF ContextOf
<1>1. RunningInv'
  BY <1>0 DEF RunningInv
<1>2. QueueInv'
  <2>1. CASE queue' = queue
    <3>1. \A t \in Unmonitored : ~Usable(t) => <<t, browser[t]>> \notin alive'
      BY <1>0, <1>b DEF Usable
    <3>2. QED
      BY <1>0, <2>1, <3>1 DEF QueueInv, Usable
  <2>2. CASE queue' = Append(queue, s)
    <3>1. /\ DOMAIN queue = 1 .. Len(queue) /\ DOMAIN queue' = 1 .. Len(queue) + 1
          /\ queue'[Len(queue) + 1] = s /\ Len(queue) \in Nat
          /\ \A i \in 1 .. Len(queue) : queue'[i] = queue[i] /\ queue[i] \in Slots
      BY <2>2 DEF TypeOK
    <3>2. s \in Unmonitored => \A i \in 1 .. Len(queue) : queue[i] # s
      BY <1>a, <3>1 DEF QueueInv
    <3>3. ASSUME NEW i \in 1 .. Len(queue) + 1, NEW t \in Unmonitored, queue'[i] = t
          PROVE  ~Usable(t)' /\ \A j \in 1 .. Len(queue) + 1 : queue'[j] = t => i = j
      <4>1. CASE i = Len(queue) + 1
        BY <1>b, <3>1, <3>2, <3>3, <4>1
      <4>2. CASE i \in 1 .. Len(queue)
        <5>1. queue[i] = t /\ i \in DOMAIN queue
          BY <3>1, <3>3, <4>2
        <5>2. ~Usable(t) /\ \A j \in 1 .. Len(queue) : queue[j] = t => i = j
          BY <3>1, <5>1 DEF QueueInv
        <5>3. t # s
          BY <3>2, <4>2, <5>1
        <5>4. QED
          BY <1>b, <3>1, <5>2, <5>3
      <4>3. QED
        BY <3>1, <4>1, <4>2
    <3>4. \A i \in DOMAIN queue' : queue'[i] \in Unmonitored =>
            /\ <<queue'[i], browser'[queue'[i]]>> \notin alive'
            /\ \A j \in DOMAIN queue' : queue'[j] = queue'[i] => i = j
      BY <3>1, <3>3 DEF Usable
    <3>5. QED
      BY <3>4 DEF QueueInv, Usable
  <2>3. QED
    BY <1>0, <2>1, <2>2
<1>3. RestartInv'
  <2> SUFFICES ASSUME NEW r \in Restarters, restart[r].pc # "idle",
                      NEW t \in Unmonitored, restart[r].slot = t
               PROVE  /\ r = "crash"
                      /\ <<t, browser[t]>> \notin alive'
                      /\ \A i \in DOMAIN queue' : queue'[i] # t
                      /\ \A h \in Handles : registry[h] = NoPlacement \/ registry[h][1] # t
                      /\ restart[r].pc \in {"stopping", "launching"} =>
                           browser[t] = 0 /\ load[t] = 0
    BY <1>0 DEF RestartInv, Usable
  <2>1. /\ r = "crash" /\ ~Usable(t)
        /\ \A i \in DOMAIN queue : queue[i] # t
        /\ \A h \in Handles : registry[h] = NoPlacement \/ registry[h][1] # t
        /\ restart[r].pc \in {"stopping", "launching"} => browser[t] = 0 /\ load[t] = 0
    BY DEF RestartInv
  <2>2. t # s
    BY <1>a, <2>1
  <2>3. \A i \in DOMAIN queue' : queue'[i] # t
    <3>1. CASE queue' = queue
      BY <2>1, <3>1
    <3>2. CASE queue' = Append(queue, s)
      <4>1. /\ DOMAIN queue = 1 .. Len(queue) /\ DOMAIN queue' = 1 .. Len(queue) + 1
            /\ queue'[Len(queue) + 1] = s /\ Len(queue) \in Nat
            /\ \A i \in 1 .. Len(queue) : queue'[i] = queue[i]
        BY <3>2 DEF TypeOK
      <4>2. ASSUME NEW i \in 1 .. Len(queue) + 1 PROVE i \in 1 .. Len(queue) \/ i = Len(queue) + 1
        BY <4>1
      <4>3. QED
        BY <2>1, <2>2, <4>1, <4>2
    <3>3. QED
      BY <1>0, <3>1, <3>2
  <2>4. <<t, browser[t]>> \notin alive'
    BY <1>0, <2>1 DEF Usable
  <2>5. QED
    BY <2>1, <2>3, <2>4
<1>4. CallInv'
  <2> SUFFICES ASSUME NEW k \in Handles PROVE CallSound(k)'
    BY DEF CallInv
  <2>1. CallSound(k)
    BY DEF CallInv
  <2>2. call[k].slot \in Unmonitored /\ call[k].launch = browser[call[k].slot] /\ call[k].slot # s
          => (ContextOf(k, CallPlace(k)) \in live' <=> ContextOf(k, CallPlace(k)) \in live)
    BY <1>c DEF CallPlace
  <2>3. QED
    BY <1>0, <1>b, <2>1, <2>2 DEF CallSound, CallPlace, ContextOf, Usable
<1>5. RegisteredInv'
  BY <1>0, <1>b DEF RegisteredInv, Usable, ContextOf
<1>6. KnownInv'
  BY <1>0 DEF KnownInv, CallPlace, ContextOf
<1>7. LoadBound'
  BY <1>0 DEF LoadBound
<1>8. LoadExact'
  <2> SUFFICES ASSUME NEW t \in Slots \ Monitored, <<t, browser[t]>> \in alive'
               PROVE  load[t] = Cardinality(Holders(t, browser[t])')
    BY <1>0 DEF LoadExact
  <2>1. t # s /\ <<t, browser[t]>> \in alive
    BY <1>0, <1>b DEF Usable, Unmonitored
  <2>2. Holders(t, browser[t])' = Holders(t, browser[t])
    BY <1>0, <2>1 DEF Holders, CallPlace
  <2>3. QED
    BY <2>1, <2>2 DEF LoadExact
<1>9. QED
  BY <1>1, <1>2, <1>3, <1>4, <1>5, <1>6, <1>7, <1>8

\* What the synchronous head of restartSlot keeps for the slots other than its own, and
\* for its own if no HealthMonitor restarts it.
LEMMA BeginKeeps ==
  ASSUME TypeOK, SlotInv, NEW r \in Restarters, NEW s \in Slots, BeginRestart(r, s),
         s \in Unmonitored => ~Usable(s),
         UNCHANGED <<browser, load, call, shutdown, alive, live>>
  PROVE  /\ RunningInv' /\ CallInv' /\ RegisteredInv' /\ KnownInv' /\ LoadBound' /\ LoadExact'
         /\ restart' = [restart EXCEPT ![r] = restart'[r]]
         /\ restart'[r].pc = "closing" /\ restart'[r].slot = s
         /\ \A h \in Handles : registry'[h] = NoPlacement
                               \/ (registry'[h] = registry[h] /\ registry[h][1] # s)
<1> USE DEF SlotInv
<1>u. UNCHANGED <<browser, load, call, shutdown, alive, live>>
  OBVIOUS
<1> DEFINE lost == {h \in Handles : registry[h] # NoPlacement /\ registry[h][1] = s}
<1>1. /\ registry' = [h \in Handles |-> IF h \in lost THEN NoPlacement ELSE registry[h]]
      /\ restart' = [restart EXCEPT ![r] =
           [pc |-> "closing", slot |-> s, launch |-> 0,
            lost |-> {ContextOf(h, registry[h]) : h \in lost}]]
  BY DEF BeginRestart
<1>2. restart'[r] = [pc |-> "closing", slot |-> s, launch |-> 0,
                     lost |-> {ContextOf(h, registry[h]) : h \in lost}]
  BY <1>1 DEF TypeOK
<1>3. ASSUME NEW h \in Handles
      PROVE  registry'[h] = NoPlacement \/ (registry'[h] = registry[h] /\ registry[h][1] # s)
  <2>1. registry'[h] = IF registry[h] # NoPlacement /\ registry[h][1] = s
                       THEN NoPlacement ELSE registry[h]
    BY <1>1
  <2>2. QED
    BY <2>1
<1>4. RunningInv'
  <2>1. \A c \in restart'[r].lost : c[2] = s
    BY <1>2 DEF ContextOf
  <2>2. QED
    BY <1>1, <1>2, <2>1 DEF RunningInv, TypeOK
<1>5. CallInv'
  BY <1>3 DEF CallInv, CallSound, CallPlace, Usable, ContextOf
<1>6. RegisteredInv'
  BY <1>3 DEF RegisteredInv, Usable, ContextOf
<1>7. KnownInv'
  <2> SUFFICES ASSUME shutdown = "no", NEW k \in Handles, NEW t \in Unmonitored,
                      ContextOf(k, <<t, browser[t]>>) \in live
               PROVE  \/ registry'[k] = <<t, browser[t]>>
                      \/ call[k].pc = "closing" /\ CallPlace(k) = <<t, browser[t]>>
    BY DEF KnownInv, CallPlace, ContextOf
  <2>1. t # s
    BY LiveUsable
  <2>2. \/ registry[k] = <<t, browser[t]>>
        \/ call[k].pc = "closing" /\ CallPlace(k) = <<t, browser[t]>>
    BY DEF KnownInv
  <2>3. registry[k] = <<t, browser[t]>> => k \notin lost
    BY <2>1
  <2>4. QED
    BY <1>1, <2>2, <2>3
<1>8. LoadBound' /\ LoadExact'
  BY DEF LoadBound, LoadExact, Holders, CallPlace
<1>9. restart' = [restart EXCEPT ![r] = restart'[r]]
  BY <1>1, <1>2
<1>10. restart'[r].pc = "closing" /\ restart'[r].slot = s
  BY <1>2
<1>11. QED
  BY <1>3, <1>4, <1>5, <1>6, <1>7, <1>8, <1>9, <1>10

LEMMA RecoveryKeeps ==
  ASSUME TypeOK, SlotInv, CrashRecovery
  PROVE  SlotInv'
<1> DEFINE s == queue[1]
<1> USE DEF SlotInv
<1>0. /\ queue # <<>> /\ BeginRestart("crash", s) /\ queue' = Tail(queue)
      /\ UNCHANGED <<browser, load, call, shutdown, alive, live>>
  BY DEF CrashRecovery, slotVars, TypeOK
<1>1. /\ Len(queue) \in Nat \ {0} /\ DOMAIN queue = 1 .. Len(queue) /\ s \in Slots
      /\ DOMAIN queue' = 1 .. Len(queue) - 1
      /\ \A i \in 1 .. Len(queue) - 1 : queue'[i] = queue[i + 1]
  BY <1>0 DEF TypeOK
<1>2. s \in Unmonitored =>
        ~Usable(s) /\ \A i \in 1 .. Len(queue) - 1 : queue'[i] # s
  BY <1>1 DEF QueueInv
<1>3. /\ RunningInv' /\ CallInv' /\ RegisteredInv' /\ KnownInv' /\ LoadBound' /\ LoadExact'
      /\ restart' = [restart EXCEPT !["crash"] = restart'["crash"]]
      /\ restart'["crash"].pc = "closing" /\ restart'["crash"].slot = queue[1]
      /\ \A h \in Handles : registry'[h] = NoPlacement
                            \/ (registry'[h] = registry[h] /\ registry[h][1] # queue[1])
  BY <1>0, <1>1, <1>2, BeginKeeps, ConstantFacts
<1>4. QueueInv'
  <2>1. ASSUME NEW i \in 1 .. Len(queue) - 1, queue'[i] \in Unmonitored
        PROVE  /\ ~Usable(queue'[i])
               /\ \A j \in 1 .. Len(queue) - 1 : queue'[j] = queue'[i] => i = j
    <3>1. i + 1 \in 1 .. Len(queue) /\ queue'[i] = queue[i + 1]
      BY <1>1
    <3>2. \A j \in 1 .. Len(queue) - 1 : j + 1 \in 1 .. Len(queue) /\ queue'[j] = queue[j + 1]
      BY <1>1
    <3>3. /\ ~Usable(queue[i + 1])
          /\ \A j \in 1 .. Len(queue) : queue[j] = queue[i + 1] => i + 1 = j
      BY <1>1, <2>1, <3>1 DEF QueueInv
    <3>4. ASSUME NEW j \in 1 .. Len(queue) - 1, queue'[j] = queue'[i] PROVE i = j
      BY <1>1, <3>1, <3>2, <3>3, <3>4
    <3>5. QED
      BY <3>1, <3>3, <3>4
  <2>2. QED
    BY <1>0, <1>1, <2>1 DEF QueueInv, Usable
<1>5. RestartInv'
  <2> SUFFICES ASSUME NEW r \in Restarters, restart'[r].pc # "idle",
                      restart'[r].slot \in Unmonitored
               PROVE  /\ r = "crash"
                      /\ ~Usable(restart'[r].slot)
                      /\ \A i \in DOMAIN queue' : queue'[i] # restart'[r].slot
                      /\ \A h \in Handles : registry'[h] = NoPlacement
                                            \/ registry'[h][1] # restart'[r].slot
                      /\ restart'[r].pc \in {"stopping", "launching"} =>
                           browser[restart'[r].slot] = 0 /\ load[restart'[r].slot] = 0
    BY <1>0 DEF RestartInv, Usable
  <2>1. r = "crash"
    BY <1>3 DEF RestartInv, TypeOK
  <2>2. QED
    BY <1>1, <1>2, <1>3, <2>1
<1>6. QED
  BY <1>3, <1>4, <1>5

LEMMA HealthKeeps ==
  ASSUME TypeOK, SlotInv, NEW s \in Slots, HealthRestart(s)
  PROVE  SlotInv'
<1> USE DEF SlotInv
<1>0. /\ s \notin Unmonitored /\ "health" \in Restarters /\ BeginRestart("health", s)
      /\ UNCHANGED <<browser, load, call, shutdown, alive, live, queue>>
  BY DEF HealthRestart, slotVars, Unmonitored, Restarters
<1>1. /\ RunningInv' /\ CallInv' /\ RegisteredInv' /\ KnownInv' /\ LoadBound' /\ LoadExact'
      /\ restart' = [restart EXCEPT !["health"] = restart'["health"]]
      /\ restart'["health"].pc = "closing" /\ restart'["health"].slot = s
      /\ \A h \in Handles : registry'[h] = NoPlacement
                            \/ (registry'[h] = registry[h] /\ registry[h][1] # s)
  BY <1>0, BeginKeeps
<1>2. QueueInv'
  BY <1>0 DEF QueueInv, Usable
<1>3. RestartInv'
  <2>1. \A r \in Restarters : restart'[r].slot \in Unmonitored => restart'[r] = restart[r]
    BY <1>0, <1>1 DEF TypeOK
  <2>2. QED
    BY <1>0, <1>1, <2>1 DEF RestartInv, Usable
<1>4. QED
  BY <1>1, <1>2, <1>3

-----------------------------------------------------------------------------
(* The rest of a recovery                                                  *)

LEMMA ContextsClosedKeeps ==
  ASSUME TypeOK, SlotInv, NEW r \in Restarters, RestartContextsClosed(r)
  PROVE  SlotInv'
<1> DEFINE s == restart[r].slot
<1> USE DEF SlotInv
<1>0. /\ restart[r].pc = "closing" /\ s \in Slots
      /\ live' = live \ restart[r].lost
      /\ load' = [load EXCEPT ![s] = 0]
      /\ restart' = [restart EXCEPT ![r] =
           [pc |-> "stopping", slot |-> s, launch |-> browser[s], lost |-> {}]]
      /\ browser' = [browser EXCEPT ![s] = 0]
      /\ UNCHANGED <<registry, call, queue, shutdown, alive>>
  BY DEF RestartContextsClosed, TypeOK, RestartType
<1> PICK s0 \in Slots : s0 = s
  BY <1>0
<1>a. \A t \in Slots : t # s0 => browser'[t] = browser[t] /\ load'[t] = load[t]
  BY <1>0 DEF TypeOK
<1>b. browser'[s0] = 0 /\ load'[s0] = 0
  BY <1>0 DEF TypeOK
<1>c. <<s0, 0>> \notin alive
  BY DEF RunningInv
<1>d. s0 \in Unmonitored =>
        /\ r = "crash" /\ ~Usable(s0)
        /\ \A i \in DOMAIN queue : queue[i] # s0
        /\ \A h \in Handles : registry[h] = NoPlacement \/ registry[h][1] # s0
  BY <1>0 DEF RestartInv
<1>e. \A t \in Slots : Usable(t)' => Usable(t) /\ t # s0
  BY <1>0, <1>a, <1>b, <1>c DEF Usable
<1>f. \A c \in restart[r].lost : c[2] = s0
  BY DEF RunningInv
<1>g. \A h \in Handles, t \in Slots, g \in Nat :
        t # s0 => (ContextOf(h, <<t, g>>) \in live' <=> ContextOf(h, <<t, g>>) \in live)
  BY <1>0, <1>f DEF ContextOf
<1>h. /\ restart'[r] = [pc |-> "stopping", slot |-> s0, launch |-> browser[s0], lost |-> {}]
      /\ \A q \in Restarters : q # r => restart'[q] = restart[q]
  BY <1>0 DEF TypeOK
<1>1. RunningInv'
  <2>1. \A p \in alive' : p[2] # 0 /\ (p[1] \in Unmonitored => p[2] = browser'[p[1]])
    <3> SUFFICES ASSUME NEW p \in alive
                 PROVE  p[2] # 0 /\ (p[1] \in Unmonitored => p[2] = browser'[p[1]])
      BY <1>0
    <3>1. p = <<p[1], p[2]>> /\ p[1] \in Slots
      BY DEF TypeOK, Places
    <3>2. p[2] # 0 /\ (p[1] \in Unmonitored => p[2] = browser[p[1]])
      BY DEF RunningInv
    <3>3. p[1] \in Unmonitored => p[1] # s0
      BY <1>d, <3>1, <3>2 DEF Usable
    <3>4. QED
      BY <1>a, <3>1, <3>2, <3>3
  <2>2. \A c \in live' : <<c[2], c[3]>> \in alive'
    BY <1>0 DEF RunningInv
  <2>3. \A q \in Restarters :
          /\ restart'[q].pc = "launching" => restart'[q].launch # 0
          /\ \A c \in restart'[q].lost : c[2] = restart'[q].slot
    BY <1>h DEF RunningInv
  <2>4. QED
    BY <2>1, <2>2, <2>3 DEF RunningInv
<1>2. QueueInv'
  <2>1. \A i \in DOMAIN queue : queue[i] \in Slots
    BY DEF TypeOK
  <2>2. \A i \in DOMAIN queue : queue[i] \in Unmonitored =>
          /\ <<queue[i], browser'[queue[i]]>> \notin alive'
          /\ \A j \in DOMAIN queue : queue[j] = queue[i] => i = j
    BY <1>e, <2>1 DEF QueueInv, Usable
  <2>3. QED
    BY <1>0, <2>2 DEF QueueInv, Usable
<1>3. RestartInv'
  <2> SUFFICES ASSUME NEW q \in Restarters, restart'[q].pc # "idle",
                      NEW t \in Unmonitored, restart'[q].slot = t
               PROVE  /\ q = "crash"
                      /\ <<t, browser'[t]>> \notin alive
                      /\ \A i \in DOMAIN queue : queue[i] # t
                      /\ \A h \in Handles : registry[h] = NoPlacement \/ registry[h][1] # t
                      /\ restart'[q].pc \in {"stopping", "launching"} =>
                           browser'[t] = 0 /\ load'[t] = 0
    BY <1>0 DEF RestartInv, Usable
  <2>0. t \in Slots
    BY DEF Unmonitored
  <2>1. CASE q = r
    <3>1. t = s0
      BY <1>h, <2>1
    <3>2. QED
      BY <1>0, <1>b, <1>c, <1>d, <2>1, <3>1
  <2>2. CASE q # r
    <3>1. /\ q = "crash" /\ ~Usable(t)
          /\ \A i \in DOMAIN queue : queue[i] # t
          /\ \A h \in Handles : registry[h] = NoPlacement \/ registry[h][1] # t
          /\ restart[q].pc \in {"stopping", "launching"} => browser[t] = 0 /\ load[t] = 0
      BY <1>h, <2>2 DEF RestartInv
    <3>2. <<t, browser'[t]>> \notin alive
      BY <1>0, <1>e, <2>0, <3>1 DEF Usable
    <3>3. browser'[t] = browser[t] \/ browser'[t] = 0
      BY <1>a, <1>b, <2>0
    <3>4. load'[t] = load[t] \/ load'[t] = 0
      BY <1>a, <1>b, <2>0
    <3>5. QED
      BY <1>h, <2>2, <3>1, <3>2, <3>3, <3>4
  <2>3. QED
    BY <2>1, <2>2
<1>4. CallInv'
  <2> SUFFICES ASSUME NEW k \in Handles PROVE CallSound(k)'
    BY DEF CallInv
  <2>1. CallSound(k)
    BY DEF CallInv
  <2>2. call[k].slot \in Slots /\ call[k].launch \in Nat /\ CallPlace(k)' = CallPlace(k)
    BY <1>0, PlaceOfCall DEF CallPlace
  <2>3. CASE call[k].slot = s0
    BY <1>0, <1>e, <2>1, <2>2, <2>3 DEF CallSound
  <2>4. CASE call[k].slot # s0
    <3>1. ContextOf(k, CallPlace(k)) \in live' <=> ContextOf(k, CallPlace(k)) \in live
      BY <1>g, <2>2, <2>4 DEF CallPlace
    <3>2. Usable(call[k].slot)' => Usable(call[k].slot)
      BY <1>0, <1>a, <2>2, <2>4 DEF Usable
    <3>3. QED
      BY <1>0, <1>a, <2>1, <2>2, <2>4, <3>1, <3>2 DEF CallSound, ContextOf
  <2>5. QED
    BY <2>3, <2>4
<1>5. RegisteredInv'
  <2> SUFFICES ASSUME NEW k \in Handles, NEW t \in Unmonitored, registry[k] # NoPlacement,
                      registry[k][1] = t, Usable(t)'
               PROVE  registry[k][2] = browser'[t] /\ ContextOf(k, registry[k]) \in live'
    BY <1>0 DEF RegisteredInv, Usable, ContextOf
  <2>1. t \in Slots /\ t # s0 /\ Usable(t) /\ browser'[t] = browser[t]
    BY <1>a, <1>e DEF Unmonitored
  <2>2. registry[k][2] = browser[t] /\ ContextOf(k, registry[k]) \in live
    BY <2>1 DEF RegisteredInv
  <2>3. browser[t] \in Nat
    BY <2>1 DEF TypeOK
  <2>4. ContextOf(k, <<t, browser[t]>>) \in live => ContextOf(k, <<t, browser[t]>>) \in live'
    BY <1>g, <2>1, <2>3
  <2>5. QED
    BY <2>1, <2>2, <2>4 DEF ContextOf
<1>6. KnownInv'
  <2> SUFFICES ASSUME shutdown = "no", NEW k \in Handles, NEW t \in Unmonitored,
                      ContextOf(k, <<t, browser'[t]>>) \in live'
               PROVE  \/ registry[k] = <<t, browser'[t]>>
                      \/ call[k].pc = "closing" /\ CallPlace(k) = <<t, browser'[t]>>
    BY <1>0 DEF KnownInv, CallPlace, ContextOf
  <2>1. t \in Slots /\ <<t, browser'[t]>> \in alive
    BY <1>0 DEF RunningInv, ContextOf, Unmonitored
  <2>2. browser'[t] = browser[t]
    BY <1>a, <1>b, <1>c, <2>1
  <2>3. QED
    BY <1>0, <2>2 DEF KnownInv
<1>7. LoadBound'
  <2> SUFFICES ASSUME NEW t \in Slots PROVE load'[t] <= Capacity
    BY DEF LoadBound
  <2>1. QED
    BY <1>a, <1>b, CapacityType DEF LoadBound
<1>8. LoadExact'
  <2> SUFFICES ASSUME NEW t \in Slots \ Monitored, <<t, browser'[t]>> \in alive
               PROVE  load'[t] = Cardinality(Holders(t, browser[t])')
    BY <1>0, <1>b, <1>c, <1>a DEF LoadExact
  <2>1. t # s0 /\ browser'[t] = browser[t] /\ load'[t] = load[t] /\ browser[t] \in Nat
    BY <1>a, <1>b, <1>c DEF TypeOK
  <2>2. Holders(t, browser[t])' = Holders(t, browser[t])
    BY <1>0, <1>g, <2>1 DEF Holders, CallPlace, ContextOf
  <2>3. QED
    BY <2>1, <2>2 DEF LoadExact
<1>9. QED
  BY <1>1, <1>2, <1>3, <1>4, <1>5, <1>6, <1>7, <1>8

LEMMA BrowserClosedKeeps ==
  ASSUME TypeOK, SlotInv, NEW r \in Restarters, RestartBrowserClosed(r)
  PROVE  SlotInv'
<1> DEFINE s == restart[r].slot
<1> USE DEF SlotInv
<1>0. /\ restart[r].pc = "stopping" /\ s \in Slots
      /\ alive' = alive \ {<<s, restart[r].launch>>}
      /\ live' = {c \in live : <<c[2], c[3]>> # <<s, restart[r].launch>>}
      /\ UNCHANGED <<browser, load, registry, call, queue, shutdown>>
  BY DEF RestartBrowserClosed, Killed, TypeOK, RestartType
<1> PICK s0 \in Slots : s0 = s
  BY <1>0
<1>h. /\ \A q \in Restarters : q # r => restart'[q] = restart[q]
      /\ restart'[r].lost = {}
      /\ \/ restart'[r].pc = "idle"
         \/ /\ restart'[r].pc = "launching" /\ restart'[r].slot = s0
            /\ restart'[r].launch # 0
  <2>1. CASE restart' = [restart EXCEPT ![r] = NoRestart]
    BY <2>1 DEF TypeOK, NoRestart
  <2>2. CASE restart' = [restart EXCEPT ![r] =
               [pc |-> "launching", slot |-> s, launch |-> launched[s] + 1, lost |-> {}]]
    <3>1. launched[s] \in Nat
      BY <1>0 DEF TypeOK
    <3>2. QED
      BY <2>2, <3>1 DEF TypeOK
  <2>3. QED
    BY <2>1, <2>2 DEF RestartBrowserClosed
<1>d. s0 \in Unmonitored =>
        /\ r = "crash" /\ ~Usable(s0)
        /\ \A i \in DOMAIN queue : queue[i] # s0
        /\ \A h \in Handles : registry[h] = NoPlacement \/ registry[h][1] # s0
        /\ browser[s0] = 0 /\ load[s0] = 0
  BY <1>0 DEF RestartInv
<1>a. \A t \in Unmonitored : Usable(t)' <=> Usable(t)
  BY <1>0, <1>d DEF Usable
<1>b. ASSUME NEW k \in Handles, NEW t \in Unmonitored, NEW g
      PROVE  ContextOf(k, <<t, g>>) \in live' <=> ContextOf(k, <<t, g>>) \in live
  <2>1. ContextOf(k, <<t, g>>) \in live => t # s0
    BY <1>d, LiveUsable
  <2>2. QED
    BY <1>0, <2>1 DEF ContextOf
<1>1. RunningInv'
  <2>1. \A p \in alive' : p[2] # 0 /\ (p[1] \in Unmonitored => p[2] = browser'[p[1]])
    BY <1>0 DEF RunningInv
  <2>2. \A c \in live' : <<c[2], c[3]>> \in alive'
    BY <1>0 DEF RunningInv
  <2>3. \A q \in Restarters :
          /\ restart'[q].pc = "launching" => restart'[q].launch # 0
          /\ \A c \in restart'[q].lost : c[2] = restart'[q].slot
    BY <1>h DEF RunningInv
  <2>4. QED
    BY <2>1, <2>2, <2>3 DEF RunningInv
<1>2. QueueInv'
  BY <1>0, <1>a DEF QueueInv, Usable
<1>3. RestartInv'
  <2> SUFFICES ASSUME NEW q \in Restarters, restart'[q].pc # "idle",
                      NEW t \in Unmonitored, restart'[q].slot = t
               PROVE  /\ q = "crash"
                      /\ <<t, browser[t]>> \notin alive'
                      /\ \A i \in DOMAIN queue : queue[i] # t
                      /\ \A h \in Handles : registry[h] = NoPlacement \/ registry[h][1] # t
                      /\ restart'[q].pc \in {"stopping", "launching"} =>
                           browser[t] = 0 /\ load[t] = 0
    BY <1>0 DEF RestartInv, Usable
  <2>1. CASE q = r
    <3>1. t = s0
      BY <1>h, <2>1
    <3>2. QED
      BY <1>0, <1>d, <2>1, <3>1 DEF Usable
  <2>2. CASE q # r
    BY <1>0, <1>h, <2>2 DEF RestartInv, Usable
  <2>3. QED
    BY <2>1, <2>2
<1>4. CallInv'
  <2> SUFFICES ASSUME NEW k \in Handles PROVE CallSound(k)'
    BY DEF CallInv
  <2>1. CallSound(k)
    BY DEF CallInv
  <2>2. call[k].slot \in Unmonitored =>
          (ContextOf(k, CallPlace(k)) \in live' <=> ContextOf(k, CallPlace(k)) \in live)
    BY <1>b DEF CallPlace
  <2>3. QED
    BY <1>0, <1>a, <2>1, <2>2 DEF CallSound, CallPlace, ContextOf, Usable
<1>5. RegisteredInv'
  <2> SUFFICES ASSUME NEW k \in Handles, NEW t \in Unmonitored, registry[k] # NoPlacement,
                      registry[k][1] = t, Usable(t)'
               PROVE  registry[k][2] = browser[t] /\ ContextOf(k, registry[k]) \in live'
    BY <1>0 DEF RegisteredInv, Usable, ContextOf
  <2>1. registry[k][2] = browser[t] /\ ContextOf(k, registry[k]) \in live
    BY <1>a DEF RegisteredInv
  <2>2. ContextOf(k, <<t, browser[t]>>) \in live => ContextOf(k, <<t, browser[t]>>) \in live'
    BY <1>b
  <2>3. QED
    BY <2>1, <2>2 DEF ContextOf
<1>6. KnownInv'
  BY <1>0 DEF KnownInv, CallPlace, ContextOf
<1>7. LoadBound'
  BY <1>0 DEF LoadBound
<1>8. LoadExact'
  <2> SUFFICES ASSUME NEW t \in Unmonitored, <<t, browser[t]>> \in alive'
               PROVE  load[t] = Cardinality(Holders(t, browser[t])')
    BY <1>0 DEF LoadExact, Unmonitored
  <2>1. t \in Slots \ Monitored /\ <<t, browser[t]>> \in alive
    BY <1>0 DEF Unmonitored
  <2>2. Holders(t, browser[t])' = Holders(t, browser[t])
    BY <1>0, <1>b DEF Holders, CallPlace, ContextOf
  <2>3. QED
    BY <2>1, <2>2 DEF LoadExact
<1>9. QED
  BY <1>1, <1>2, <1>3, <1>4, <1>5, <1>6, <1>7, <1>8

LEMMA LaunchedKeeps ==
  ASSUME TypeOK, SlotInv, NEW r \in Restarters, Launched(r)
  PROVE  SlotInv'
<1> DEFINE s == restart[r].slot
<1> USE DEF SlotInv
<1>0. /\ restart[r].pc = "launching" /\ s \in Slots /\ restart[r].launch \in Nat
      /\ DeadCallsSettled(s)
      /\ alive' = alive \union {<<s, restart[r].launch>>}
      /\ browser' = [browser EXCEPT ![s] = restart[r].launch]
      /\ restart' = [restart EXCEPT ![r] = NoRestart]
      /\ UNCHANGED <<load, registry, call, queue, shutdown, live>>
  BY DEF Launched, TypeOK, RestartType
<1> PICK s0 \in Slots, l \in Nat : s0 = s /\ l = restart[r].launch
  BY <1>0
<1>a. browser'[s0] = l /\ \A t \in Slots : t # s0 => browser'[t] = browser[t]
  BY <1>0 DEF TypeOK
<1>d. s0 \in Unmonitored =>
        /\ r = "crash" /\ ~Usable(s0)
        /\ \A i \in DOMAIN queue : queue[i] # s0
        /\ \A h \in Handles : registry[h] = NoPlacement \/ registry[h][1] # s0
        /\ load[s0] = 0
  BY <1>0 DEF RestartInv
<1>e. \A t \in Slots : t # s0 => (Usable(t)' <=> Usable(t))
  BY <1>0, <1>a DEF Usable
<1>f. s0 \in Unmonitored => \A h \in Handles : call[h].pc # "idle" => call[h].slot # s0
  BY <1>0, <1>d, OnlyUsable DEF DeadCallsSettled, CallPlace
<1>g. s0 \in Unmonitored => \A h \in Handles, g \in Nat : ContextOf(h, <<s0, g>>) \notin live
  BY <1>d, LiveUsable
<1>h. restart'[r] = NoRestart /\ \A q \in Restarters : q # r => restart'[q] = restart[q]
  BY <1>0 DEF TypeOK
<1>1. RunningInv'
  <2>1. ASSUME NEW p \in alive'
        PROVE  p[2] # 0 /\ (p[1] \in Unmonitored => p[2] = browser'[p[1]])
    <3>1. CASE p \in alive
      <4>1. p = <<p[1], p[2]>> /\ p[1] \in Slots
        BY <3>1 DEF TypeOK, Places
      <4>2. p[1] \in Unmonitored => p[1] # s0
        BY <1>d, <3>1, <4>1, OnlyUsable
      <4>3. QED
        BY <1>a, <3>1, <4>1, <4>2 DEF RunningInv
    <3>2. CASE p = <<s0, l>>
      BY <1>0, <1>a, <3>2 DEF RunningInv
    <3>3. QED
      BY <1>0, <2>1, <3>1, <3>2
  <2>2. \A c \in live' : <<c[2], c[3]>> \in alive'
    BY <1>0 DEF RunningInv
  <2>3. \A q \in Restarters :
          /\ restart'[q].pc = "launching" => restart'[q].launch # 0
          /\ \A c \in restart'[q].lost : c[2] = restart'[q].slot
    BY <1>h DEF RunningInv, NoRestart
  <2>4. QED
    BY <2>1, <2>2, <2>3 DEF RunningInv
<1>2. QueueInv'
  <2>1. \A i \in DOMAIN queue : queue[i] \in Unmonitored =>
          /\ <<queue[i], browser'[queue[i]]>> \notin alive'
          /\ \A j \in DOMAIN queue : queue[j] = queue[i] => i = j
    BY <1>d, <1>e DEF QueueInv, Usable, Unmonitored
  <2>2. QED
    BY <1>0, <2>1 DEF QueueInv, Usable
<1>3. RestartInv'
  <2> SUFFICES ASSUME NEW q \in Restarters, restart'[q].pc # "idle",
                      NEW t \in Unmonitored, restart'[q].slot = t
               PROVE  /\ q = "crash"
                      /\ <<t, browser'[t]>> \notin alive'
                      /\ \A i \in DOMAIN queue : queue[i] # t
                      /\ \A h \in Handles : registry[h] = NoPlacement \/ registry[h][1] # t
                      /\ restart'[q].pc \in {"stopping", "launching"} =>
                           browser'[t] = 0 /\ load[t] = 0
    BY <1>0 DEF RestartInv, Usable
  <2>1. q # r /\ restart'[q] = restart[q] /\ t \in Slots
    BY <1>h DEF NoRestart, Unmonitored
  <2>2. /\ q = "crash" /\ ~Usable(t)
        /\ \A i \in DOMAIN queue : queue[i] # t
        /\ \A h \in Handles : registry[h] = NoPlacement \/ registry[h][1] # t
        /\ restart[q].pc \in {"stopping", "launching"} => browser[t] = 0 /\ load[t] = 0
    BY <2>1 DEF RestartInv
  <2>3. t # s0
    BY <1>d, <2>1, <2>2
  <2>4. QED
    BY <1>a, <1>e, <2>1, <2>2, <2>3 DEF Usable
<1>4. CallInv'
  <2> SUFFICES ASSUME NEW k \in Handles PROVE CallSound(k)'
    BY DEF CallInv
  <2>1. CallSound(k) /\ call[k].slot \in Slots
    BY PlaceOfCall DEF CallInv
  <2>2. CASE call[k].slot = s0
    BY <1>0, <1>f, <2>1, <2>2 DEF CallSound
  <2>3. CASE call[k].slot # s0
    <3>1. /\ browser'[call[k].slot] = browser[call[k].slot]
          /\ <<call[k].slot, browser'[call[k].slot]>> \in alive' => Usable(call[k].slot)
      BY <1>a, <1>e, <2>1, <2>3 DEF Usable
    <3>2. QED
      BY <1>0, <2>1, <3>1 DEF CallSound, CallPlace, ContextOf, Usable
  <2>4. QED
    BY <2>2, <2>3
<1>5. RegisteredInv'
  <2> SUFFICES ASSUME NEW k \in Handles, NEW t \in Unmonitored, registry[k] # NoPlacement,
                      registry[k][1] = t, Usable(t)'
               PROVE  registry[k][2] = browser'[t] /\ ContextOf(k, registry[k]) \in live
    BY <1>0 DEF RegisteredInv, Usable, ContextOf
  <2>1. t # s0 /\ t \in Slots
    BY <1>d DEF Unmonitored
  <2>2. QED
    BY <1>a, <1>e, <2>1 DEF RegisteredInv
<1>6. KnownInv'
  <2> SUFFICES ASSUME shutdown = "no", NEW k \in Handles, NEW t \in Unmonitored,
                      ContextOf(k, <<t, browser'[t]>>) \in live
               PROVE  \/ registry[k] = <<t, browser'[t]>>
                      \/ call[k].pc = "closing" /\ CallPlace(k) = <<t, browser'[t]>>
    BY <1>0 DEF KnownInv, CallPlace, ContextOf
  <2>1. t # s0 /\ t \in Slots
    BY <1>a, <1>g DEF Unmonitored
  <2>2. browser'[t] = browser[t]
    BY <1>a, <2>1
  <2>3. QED
    BY <2>2 DEF KnownInv
<1>7. LoadBound'
  BY <1>0 DEF LoadBound
<1>8. LoadExact'
  <2> SUFFICES ASSUME NEW t \in Unmonitored, <<t, browser'[t]>> \in alive'
               PROVE  load[t] = Cardinality(Holders(t, browser[t])')
    BY <1>0 DEF LoadExact, Unmonitored
  <2>0. t \in Slots \ Monitored
    BY DEF Unmonitored
  <2>1. CASE t = s0
    <3>1. Holders(t, browser[t])' = {}
      BY <1>0, <1>a, <1>f, <1>g, <2>1 DEF Holders, CallPlace, ContextOf
    <3>2. QED
      BY <1>d, <2>1, <3>1, FS_EmptySet
  <2>2. CASE t # s0
    <3>1. browser'[t] = browser[t] /\ Usable(t)
      BY <1>a, <1>e, <2>0, <2>2 DEF Usable
    <3>2. Holders(t, browser[t])' = Holders(t, browser[t])
      BY <1>0, <3>1 DEF Holders, CallPlace
    <3>3. QED
      BY <2>0, <3>1, <3>2 DEF LoadExact, Usable
  <2>3. QED
    BY <2>1, <2>2
<1>9. QED
  BY <1>1, <1>2, <1>3, <1>4, <1>5, <1>6, <1>7, <1>8

\* A failed launch that only the HealthMonitor's caller sees.
LEMMA LaunchFailedKeeps ==
  ASSUME TypeOK, SlotInv, HealthLaunchFailed
  PROVE  SlotInv'
<1> USE DEF SlotInv
<1>0. /\ "health" \in Restarters
      /\ restart' = [restart EXCEPT !["health"] = NoRestart]
      /\ UNCHANGED <<browser, load, registry, call, queue, shutdown, alive, live>>
  BY DEF HealthLaunchFailed, Restarters, slotVars
<1>1. \A q \in Restarters : restart'[q] = restart[q] \/ restart'[q] = NoRestart
  BY <1>0 DEF TypeOK
<1>2. RunningInv'
  <2>1. \A q \in Restarters :
          /\ restart'[q].pc = "launching" => restart'[q].launch # 0
          /\ \A c \in restart'[q].lost : c[2] = restart'[q].slot
    BY <1>1 DEF RunningInv, NoRestart
  <2>2. QED
    BY <1>0, <2>1 DEF RunningInv
<1>3. RestartInv'
  BY <1>0, <1>1 DEF RestartInv, NoRestart, Usable
<1>4. QueueInv' /\ RegisteredInv' /\ LoadBound'
  BY <1>0 DEF QueueInv, RegisteredInv, LoadBound, Usable
<1>5. CallInv' /\ KnownInv' /\ LoadExact'
  BY <1>0 DEF CallInv, CallSound, KnownInv, LoadExact, Holders, CallPlace, Usable
<1>6. QED
  BY <1>2, <1>3, <1>4, <1>5

-----------------------------------------------------------------------------
(* BrowserPool.close                                                       *)

LEMMA CloseKeeps ==
  ASSUME TypeOK, SlotInv, Close
  PROVE  SlotInv'
<1> USE DEF SlotInv
<1>0. /\ shutdown' = "contexts"
      /\ \A h \in Handles : registry'[h] = NoPlacement
      /\ UNCHANGED <<browser, load, call, queue, restart, alive, live>>
  BY DEF Close, slotVars
<1>1. RunningInv' /\ QueueInv' /\ RestartInv' /\ LoadBound'
  BY <1>0 DEF RunningInv, QueueInv, RestartInv, LoadBound, Usable
<1>2. CallInv'
  BY <1>0 DEF CallInv, CallSound, CallPlace, ContextOf, Usable
<1>3. RegisteredInv' /\ KnownInv'
  BY <1>0 DEF RegisteredInv, KnownInv
<1>4. LoadExact'
  BY <1>0 DEF LoadExact, Holders, CallPlace
<1>5. QED
  BY <1>1, <1>2, <1>3, <1>4

LEMMA CloseSlotsKeeps ==
  ASSUME TypeOK, SlotInv, CloseSlots
  PROVE  SlotInv'
<1> USE DEF SlotInv
<1>0. /\ shutdown' = "slots"
      /\ \A s \in Slots : browser'[s] = 0 /\ load'[s] = 0
      /\ alive' = {p \in alive : browser[p[1]] # p[2]}
      /\ live' = {c \in live : browser[c[2]] # c[3]}
      /\ UNCHANGED <<registry, call, queue, restart>>
  BY DEF CloseSlots
<1>1. RunningInv'
  <2>1. \A p \in alive' : p[2] # 0 /\ (p[1] \in Unmonitored => p[2] = browser'[p[1]])
    BY <1>0 DEF RunningInv
  <2>2. \A c \in live' : <<c[2], c[3]>> \in alive'
    BY <1>0 DEF RunningInv
  <2>3. QED
    BY <1>0, <2>1, <2>2 DEF RunningInv
<1>a. \A s \in Unmonitored : ~Usable(s)'
  BY <1>0, <1>1 DEF RunningInv, Usable, Unmonitored
<1>2. QueueInv'
  <2>1. \A i \in DOMAIN queue : queue[i] \in Unmonitored =>
          /\ <<queue[i], browser'[queue[i]]>> \notin alive'
          /\ \A j \in DOMAIN queue : queue[j] = queue[i] => i = j
    BY <1>a DEF QueueInv, Usable
  <2>2. QED
    BY <1>0, <2>1 DEF QueueInv, Usable
<1>3. RestartInv'
  <2> SUFFICES ASSUME NEW r \in Restarters, restart[r].pc # "idle",
                      NEW t \in Unmonitored, restart[r].slot = t
               PROVE  /\ r = "crash"
                      /\ <<t, browser'[t]>> \notin alive'
                      /\ \A i \in DOMAIN queue : queue[i] # t
                      /\ \A h \in Handles : registry[h] = NoPlacement \/ registry[h][1] # t
                      /\ browser'[t] = 0 /\ load'[t] = 0
    BY <1>0 DEF RestartInv, Usable
  <2>1. QED
    BY <1>0, <1>a DEF RestartInv, Usable, Unmonitored
<1>4. CallInv'
  <2> SUFFICES ASSUME NEW k \in Handles PROVE CallSound(k)'
    BY DEF CallInv
  <2>1. call[k].slot \in Unmonitored => <<call[k].slot, browser'[call[k].slot]>> \notin alive'
    BY <1>a DEF Usable
  <2>2. QED
    BY <1>0, <2>1 DEF CallInv, CallSound, Usable
<1>5. RegisteredInv'
  <2>1. \A k \in Handles : registry[k][1] \in Unmonitored
                            => <<registry[k][1], browser'[registry[k][1]]>> \notin alive'
    BY <1>a DEF Usable
  <2>2. QED
    BY <1>0, <2>1 DEF RegisteredInv, Usable
<1>6. KnownInv'
  BY <1>0 DEF KnownInv
<1>7. LoadBound'
  BY <1>0, CapacityType DEF LoadBound
<1>8. LoadExact'
  BY <1>a DEF LoadExact, Usable, Unmonitored
<1>9. QED
  BY <1>1, <1>2, <1>3, <1>4, <1>5, <1>6, <1>7, <1>8

LEMMA SlotsClosedKeeps ==
  ASSUME TypeOK, SlotInv, SlotsClosed
  PROVE  SlotInv'
<1> USE DEF SlotInv
<1>0. /\ shutdown' = "closed"
      /\ UNCHANGED <<browser, load, registry, call, queue, restart, alive, live>>
  BY DEF SlotsClosed
<1>1. RunningInv' /\ QueueInv' /\ RestartInv' /\ RegisteredInv' /\ LoadBound'
  BY <1>0 DEF RunningInv, QueueInv, RestartInv, RegisteredInv, LoadBound, Usable
<1>2. CallInv' /\ KnownInv' /\ LoadExact'
  BY <1>0 DEF CallInv, CallSound, KnownInv, LoadExact, Holders, CallPlace, Usable
<1>3. QED
  BY <1>1, <1>2

-----------------------------------------------------------------------------
(* The accounting is exact                                                 *)

LEMMA SlotStep == TypeOK /\ SlotInv /\ [Next]_vars => SlotInv'
<1> SUFFICES ASSUME TypeOK, SlotInv, [Next]_vars PROVE SlotInv'
  OBVIOUS
<1>1. CASE \E h \in Handles : CallStep(h)
  BY <1>1, CallKeeps
<1>2. ASSUME NEW p \in alive, Crash(p[1], p[2]) PROVE SlotInv'
  <2>1. p[1] \in Slots /\ p[2] \in Nat
    BY DEF TypeOK, Places
  <2>2. QED
    BY <1>2, <2>1, CrashKeeps
<1>3. CASE CrashRecovery \/ \E s \in Slots : HealthRestart(s)
  BY <1>3, RecoveryKeeps, HealthKeeps
<1>4. CASE \E r \in Restarters : RestartStep(r)
  BY <1>4, ContextsClosedKeeps, BrowserClosedKeeps, LaunchedKeeps DEF RestartStep
<1>5. CASE HealthLaunchFailed \/ Close \/ CloseSlots \/ SlotsClosed
  BY <1>5, LaunchFailedKeeps, CloseKeeps, CloseSlotsKeeps, SlotsClosedKeeps
<1>6. CASE ProcessRestart
  <2>1. Init' => SlotInv'
    BY SlotInit, PTL
  <2>2. QED
    BY <1>6, <2>1, RestartedProcess
<1>7. CASE UNCHANGED vars
  BY <1>7 DEF vars, slotVars, SlotInv, RunningInv, QueueInv, RestartInv, CallInv, CallSound,
     RegisteredInv, KnownInv, LoadBound, LoadExact, Holders, CallPlace, Usable
<1>8. QED
  BY <1>1, <1>2, <1>3, <1>4, <1>5, <1>6, <1>7 DEF Next

\* The pool's slots, recoveries, calls and registrations agree at every step.
THEOREM PoolInvariant == Spec => [](TypeOK /\ SlotInv)
<1>1. Init => TypeOK /\ SlotInv
  BY TypeInit, SlotInit
<1>2. TypeOK /\ SlotInv /\ [Next]_vars => (TypeOK /\ SlotInv)'
  BY TypeStep, SlotStep
<1>3. QED
  BY <1>1, <1>2, PTL DEF Spec

\* activeContexts of a running browser is exactly the number of contexts it holds or is
\* about to hold: no late decrement, lost context or overlapping recovery skews it.
THEOREM AlwaysLoadExact == Spec => []LoadExact
<1>1. SlotInv => LoadExact
  BY DEF SlotInv
<1>2. QED
  BY <1>1, PoolInvariant, PTL

\* Every context of a running browser belongs to one of its holders, one per handle.
LEMMA ContextsBounded ==
  ASSUME TypeOK, SlotInv, NEW p \in alive, p[1] \notin Monitored
  PROVE  Cardinality(ContextsIn(p[1], p[2])) <= Capacity
<1> DEFINE s == p[1]  g == p[2]
<1>1. s \in Slots /\ g = browser[s] /\ p = <<s, g>>
  BY DEF SlotInv, RunningInv, TypeOK, Places, Unmonitored
<1>2. load[s] = Cardinality(Holders(s, g)) /\ load[s] \in Nat /\ load[s] <= Capacity
  BY <1>1 DEF SlotInv, LoadExact, LoadBound, TypeOK
<1>3. IsFiniteSet(Holders(s, g))
  BY HoldersFinite
<1> DEFINE f == [h \in Holders(s, g) |-> <<h, s, g>>]
           image == {f[h] : h \in Holders(s, g)}
<1>4. IsFiniteSet(image) /\ Cardinality(image) <= Cardinality(Holders(s, g))
  <2>1. image = {<<h, s, g>> : h \in Holders(s, g)}
    OBVIOUS
  <2>2. f \in Surjection(Holders(s, g), image)
    BY DEF Surjection
  <2>3. QED
    BY <1>3, <2>2, FS_Surjection
<1>5. ContextsIn(s, g) \subseteq image
  <2> SUFFICES ASSUME NEW c \in live, c[2] = s, c[3] = g PROVE c \in image
    BY DEF ContextsIn
  <2>1. c = <<c[1], s, g>> /\ c[1] \in Handles
    BY DEF TypeOK, Contexts
  <2>2. c[1] \in Holders(s, g)
    BY <2>1 DEF Holders
  <2>3. QED
    BY <2>1, <2>2
<1>6. Cardinality(ContextsIn(s, g)) <= Cardinality(image) /\ IsFiniteSet(ContextsIn(s, g))
  BY <1>4, <1>5, FS_Subset
<1>7. /\ Cardinality(ContextsIn(s, g)) \in Nat /\ Cardinality(image) \in Nat
      /\ Cardinality(Holders(s, g)) \in Nat
  BY <1>3, <1>4, <1>6, FS_CardinalityType
<1> HIDE DEF image
<1>8. QED
  BY <1>2, <1>4, <1>6, <1>7, CapacityType

\* No browser ever has more contexts than the slot's capacity.
THEOREM AlwaysCapacityRespected == Spec => []CapacityRespected
<1>1. TypeOK /\ SlotInv => CapacityRespected
  BY ContextsBounded DEF CapacityRespected
<1>2. QED
  BY <1>1, PoolInvariant, PTL

=============================================================================
