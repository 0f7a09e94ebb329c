----------------------------- MODULE BrowserPool -----------------------------
(***************************************************************************)
(* The Chromium pool of the worker process: BrowserPool, its BrowserSlots  *)
(* and its SessionRegistry (apps/worker/src/pool).  The pool keeps a fixed *)
(* number of browsers, places every session in the least loaded slot that  *)
(* is below its capacity, and relaunches a browser that died.              *)
(*                                                                         *)
(* Every await of the source is a point where other callers run, so each   *)
(* operation is split there: newContext, context.close, browser.close and  *)
(* launch are requests to Playwright whose answers are separate actions.   *)
(* A browser process is identified by its slot and its launch number.      *)
(*                                                                         *)
(* The callers keep the operations of one session handle in sequence       *)
(* (the queue of WorkerRuntimeRequestHandler.handle), which is why `call`  *)
(* holds one operation per handle.                                         *)
(***************************************************************************)
EXTENDS Integers, Sequences, FiniteSets

CONSTANTS
  Handles,         \* opaque session handles
  SlotCount,       \* DEFAULT_SLOT_COUNT: browsers in the pool
  Capacity,        \* DEFAULT_SLOT_CAPACITY: contexts per browser
  Monitored,       \* slots a HealthMonitor restarts beside the crash recovery
  MaxFaults,       \* bound: crashes and health restarts in one life of the process
  NoPlacement      \* a handle without a registered context

ASSUME HandlesFinite  == IsFiniteSet(Handles)
ASSUME SlotCountType  == SlotCount \in Nat \ {0}
ASSUME CapacityType   == Capacity \in Nat \ {0}
ASSUME MonitoredType  == Monitored \subseteq 0 .. (SlotCount - 1)
ASSUME MaxFaultsType  == MaxFaults \in Nat
ASSUME NoPlacementOut == NoPlacement \notin (Int \X Int) /\ NoPlacement \notin Int

Slots == 0 .. (SlotCount - 1)

\* The two users of restartSlot: the crash recovery queue and the HealthMonitor.
Restarters == IF Monitored = {} THEN {"crash"} ELSE {"crash", "health"}

VARIABLES
  browser,   \* slot.browser: the launch number of the slot's browser, 0 if undefined
  launched,  \* how many browsers were launched for the slot
  load,      \* slot.activeContexts
  suppress,  \* slot.suppressDisconnect
  registry,  \* SessionRegistry.sessions: handle -> <<slot, launch>> of its context
  call,      \* the openSession or closeSession in flight for a handle
  outcome,   \* how the last openSession of a handle ended
  queue,     \* crash recoveries chained on recoveryQueue, the first one next
  restart,   \* the restartSlot call of each restarter
  shutdown,  \* progress of BrowserPool.close
  alive,     \* browser processes running in the system
  live,      \* browser contexts existing in running browsers
  faults     \* crashes and health restarts so far (bounded by MaxFaults)

vars == <<browser, launched, load, suppress, registry, call, outcome, queue,
          restart, shutdown, alive, live, faults>>

slotVars == <<browser, launched, load, suppress>>

IdleCall == [pc |-> "idle", slot |-> 0, launch |-> 0]
NoRestart == [pc |-> "idle", slot |-> 0, launch |-> 0, lost |-> {}]

\* A context: the handle it was created for, and the browser it lives in.
ContextOf(h, place) == <<h, place[1], place[2]>>
ContextsIn(s, g) == {c \in live : c[2] = s /\ c[3] = g}

\* (mutant: the Math.max(0, ...) of the decrements is missing)
DecrementedBelowZero(n) == n - 1

Decremented(n) == IF n > 0 THEN n - 1 ELSE 0

-----------------------------------------------------------------------------
(* pool.start() has resolved: every slot has a running browser.            *)

Init ==
  /\ browser  = [s \in Slots |-> 1]
  /\ launched = [s \in Slots |-> 1]
  /\ load     = [s \in Slots |-> 0]
  /\ suppress = [s \in Slots |-> FALSE]
  /\ registry = [h \in Handles |-> NoPlacement]
  /\ call     = [h \in Handles |-> IdleCall]
  /\ outcome  = [h \in Handles |-> "none"]
  /\ queue    = <<>>
  /\ restart  = [r \in Restarters |-> NoRestart]
  /\ shutdown = "no"
  /\ alive    = {<<s, 1>> : s \in Slots}
  /\ live     = {}
  /\ faults   = 0

-----------------------------------------------------------------------------
(* Opening a session                                                       *)

\* (mutant: hasCapacity accepts a full slot)
CandidatesWithFullSlots == {s \in Slots : load[s] <= Capacity}

Candidates == {s \in Slots : load[s] < Capacity}

\* The slot openSession sorts first: the smallest load, then the smallest id.
LeastLoaded(s) ==
  /\ s \in Candidates
  /\ \A t \in Candidates : load[s] < load[t] \/ (load[s] = load[t] /\ s <= t)

Answer(h, result) ==
  /\ outcome' = [outcome EXCEPT ![h] = result]
  /\ UNCHANGED <<slotVars, registry, call, queue, restart, shutdown, alive, live, faults>>

\* The worker's shutdown stops its server and request handler before it closes the
\* pool, so no session is opened after that.
MayOpen(h) == call[h].pc = "idle" /\ shutdown = "no"

\* openSession throws before its first await.
OpenRefused(h) ==
  /\ MayOpen(h)
  /\ \/ registry[h] # NoPlacement /\ Answer(h, "duplicate")
     \/ registry[h] = NoPlacement /\ Candidates = {} /\ Answer(h, "capacity")
     \/ /\ registry[h] = NoPlacement
        /\ \E s \in Slots : LeastLoaded(s) /\ browser[s] = 0
        /\ Answer(h, "unavailable")

\* (mutant: the slot counts the context only once it exists, so never)
OpenSessionUncounted(h, s) ==
  /\ MayOpen(h) /\ registry[h] = NoPlacement /\ LeastLoaded(s) /\ browser[s] # 0
  /\ call' = [call EXCEPT ![h] = [pc |-> "opening", slot |-> s, launch |-> browser[s]]]
  /\ outcome' = [outcome EXCEPT ![h] = "none"]
  /\ UNCHANGED <<slotVars, registry, queue, restart, shutdown, alive, live, faults>>

\* openSession up to browser.newContext: the slot counts the context before it exists.
OpenSession(h, s) ==
  /\ MayOpen(h)
  /\ registry[h] = NoPlacement
  /\ LeastLoaded(s)
  /\ browser[s] # 0
  /\ load' = [load EXCEPT ![s] = @ + 1]
  /\ call' = [call EXCEPT ![h] = [pc |-> "opening", slot |-> s, launch |-> browser[s]]]
  /\ outcome' = [outcome EXCEPT ![h] = "none"]
  /\ UNCHANGED <<browser, launched, suppress, registry, queue, restart, shutdown,
                 alive, live, faults>>

CallPlace(h) == <<call[h].slot, call[h].launch>>

\* newContext resolved: the context is registered under the slot it was opened in.
ContextCreated(h) ==
  /\ call[h].pc = "opening"
  /\ CallPlace(h) \in alive
  /\ live' = live \union {ContextOf(h, CallPlace(h))}
  /\ registry' = [registry EXCEPT ![h] = CallPlace(h)]
  /\ call' = [call EXCEPT ![h] = IdleCall]
  /\ outcome' = [outcome EXCEPT ![h] = "opened"]
  /\ UNCHANGED <<slotVars, queue, restart, shutdown, alive, faults>>

\* (mutant: the catch of openContext does not give the place back)
ContextFailedKeepsLoad(h) ==
  /\ call[h].pc = "opening"
  /\ call' = [call EXCEPT ![h] = IdleCall]
  /\ outcome' = [outcome EXCEPT ![h] = "failed"]
  /\ UNCHANGED <<slotVars, registry, queue, restart, shutdown, alive, live, faults>>

\* newContext rejected: an unusable storage state, or a browser that has died.
ContextFailed(h) ==
  /\ call[h].pc = "opening"
  /\ load' = [load EXCEPT ![call[h].slot] = Decremented(@)]
  /\ call' = [call EXCEPT ![h] = IdleCall]
  /\ outcome' = [outcome EXCEPT ![h] = "failed"]
  /\ UNCHANGED <<browser, launched, suppress, registry, queue, restart, shutdown,
                 alive, live, faults>>

-----------------------------------------------------------------------------
(* Closing a session                                                       *)

CloseSession(h) ==
  /\ call[h].pc = "idle"
  /\ registry[h] # NoPlacement
  /\ call' = [call EXCEPT ![h] = [pc |-> "closing", slot |-> registry[h][1],
                                  launch |-> registry[h][2]]]
  /\ registry' = [registry EXCEPT ![h] = NoPlacement]
  /\ UNCHANGED <<slotVars, outcome, queue, restart, shutdown, alive, live, faults>>

\* context.close() resolved: contextClosed() of the slot the session was placed in.
ContextClosed(h) ==
  /\ call[h].pc = "closing"
  /\ live' = live \ {ContextOf(h, CallPlace(h))}
  /\ load' = [load EXCEPT ![call[h].slot] = Decremented(@)]
  /\ call' = [call EXCEPT ![h] = IdleCall]
  /\ UNCHANGED <<browser, launched, suppress, registry, outcome, queue, restart,
                 shutdown, alive, faults>>

\* context.close() rejected because the browser died: contextClosed() never runs.
ContextCloseFailed(h) ==
  /\ call[h].pc = "closing"
  /\ CallPlace(h) \notin alive
  /\ call' = [call EXCEPT ![h] = IdleCall]
  /\ UNCHANGED <<slotVars, registry, outcome, queue, restart, shutdown, alive, live, faults>>

-----------------------------------------------------------------------------
(* Crashes and restarts                                                    *)

Killed(place) ==
  /\ alive' = alive \ {place}
  /\ live' = {c \in live : <<c[2], c[3]>> # place}

\* (mutant: a crash is not queued while another recovery is)
CrashUnqueued(s, g) ==
  /\ faults < MaxFaults /\ <<s, g>> \in alive
  /\ Killed(<<s, g>>)
  /\ queue' = IF suppress[s] \/ shutdown # "no" \/ queue # <<>> THEN queue ELSE Append(queue, s)
  /\ faults' = faults + 1
  /\ UNCHANGED <<slotVars, registry, call, outcome, restart, shutdown>>

\* A browser process dies: its "disconnected" listener chains a recovery.
Crash(s, g) ==
  /\ faults < MaxFaults
  /\ <<s, g>> \in alive
  /\ Killed(<<s, g>>)
  /\ queue' = IF suppress[s] \/ shutdown # "no" THEN queue ELSE Append(queue, s)
  /\ faults' = faults + 1
  /\ UNCHANGED <<slotVars, registry, call, outcome, restart, shutdown>>

\* (mutant: restartSlot reads the handles of the slot but keeps them registered)
BeginRestartKeepsSessions(r, s) ==
  LET lost == {h \in Handles : registry[h] # NoPlacement /\ registry[h][1] = s} IN
  /\ restart[r].pc = "idle"
  /\ restart' = [restart EXCEPT ![r] =
       [pc |-> "closing", slot |-> s, launch |-> 0,
        lost |-> {ContextOf(h, registry[h]) : h \in lost}]]
  /\ UNCHANGED registry

\* (mutant: restartSlot forgets the sessions without keeping their contexts)
BeginRestartDropsContexts(r, s) ==
  /\ restart[r].pc = "idle"
  /\ restart' = [restart EXCEPT ![r] =
       [pc |-> "closing", slot |-> s, launch |-> 0, lost |-> {}]]
  /\ registry' = [h \in Handles |->
       IF registry[h] # NoPlacement /\ registry[h][1] = s THEN NoPlacement ELSE registry[h]]

\* The synchronous head of restartSlot: the registry forgets the slot's sessions.
BeginRestart(r, s) ==
  LET lost == {h \in Handles : registry[h] # NoPlacement /\ registry[h][1] = s} IN
  /\ restart[r].pc = "idle"
  /\ restart' = [restart EXCEPT ![r] =
       [pc |-> "closing", slot |-> s, launch |-> 0,
        lost |-> {ContextOf(h, registry[h]) : h \in lost}]]
  /\ registry' = [h \in Handles |-> IF h \in lost THEN NoPlacement ELSE registry[h]]

CrashRecovery ==
  /\ queue # <<>>
  /\ BeginRestart("crash", Head(queue))
  /\ queue' = Tail(queue)
  /\ UNCHANGED <<slotVars, call, outcome, shutdown, alive, live, faults>>

\* HealthMonitor.runOnce found an unhealthy or the heaviest slot.
HealthRestart(s) ==
  /\ s \in Monitored
  /\ faults < MaxFaults
  /\ BeginRestart("health", s)
  /\ faults' = faults + 1
  /\ UNCHANGED <<slotVars, call, outcome, queue, shutdown, alive, live>>

\* All the lost contexts have settled: resetLoad, then BrowserSlot.restart up to
\* the close of the previous browser.
RestartContextsClosed(r) ==
  LET s == restart[r].slot IN
  /\ restart[r].pc = "closing"
  /\ live' = live \ restart[r].lost
  /\ load' = [load EXCEPT ![s] = 0]
  /\ restart' = [restart EXCEPT ![r] =
       [pc |-> "stopping", slot |-> s, launch |-> browser[s], lost |-> {}]]
  /\ browser' = [browser EXCEPT ![s] = 0]
  /\ suppress' = [suppress EXCEPT ![s] = TRUE]
  /\ UNCHANGED <<launched, registry, call, outcome, queue, shutdown, alive, faults>>

\* previous.close() is over, then BrowserSlot.start: it launches unless the slot
\* has got a browser in the meantime.
RestartBrowserClosed(r) ==
  LET s == restart[r].slot IN
  /\ restart[r].pc = "stopping"
  /\ Killed(<<s, restart[r].launch>>)
  /\ suppress' = [suppress EXCEPT ![s] = FALSE]
  /\ IF browser[s] # 0
     THEN restart' = [restart EXCEPT ![r] = NoRestart] /\ UNCHANGED launched
     ELSE /\ launched' = [launched EXCEPT ![s] = @ + 1]
          /\ restart' = [restart EXCEPT ![r] =
               [pc |-> "launching", slot |-> s, launch |-> launched[s] + 1, lost |-> {}]]
  /\ UNCHANGED <<browser, load, registry, call, outcome, queue, shutdown, faults>>

\* Requests to a dead browser have been rejected by Playwright, which happens with
\* the disconnection, long before another Chromium has started.
DeadCallsSettled(s) ==
  \A h \in Handles :
    call[h].pc # "idle" /\ call[h].slot = s => CallPlace(h) \in alive

Launched(r) ==
  LET s == restart[r].slot IN
  /\ restart[r].pc = "launching"
  /\ DeadCallsSettled(s)
  /\ alive' = alive \union {<<s, restart[r].launch>>}
  /\ browser' = [browser EXCEPT ![s] = restart[r].launch]
  /\ restart' = [restart EXCEPT ![r] = NoRestart]
  /\ UNCHANGED <<launched, load, suppress, registry, call, outcome, queue, shutdown,
                 live, faults>>

\* The HealthMonitor's caller gets the rejection of a failed launch.
HealthLaunchFailed ==
  /\ Monitored # {}
  /\ restart["health"].pc = "launching"
  /\ restart' = [restart EXCEPT !["health"] = NoRestart]
  /\ UNCHANGED <<slotVars, registry, call, outcome, queue, shutdown, alive, live, faults>>

\* Nobody handles the rejection of recoveryQueue: a launch that fails in the crash
\* recovery ends the Node process, and systemd starts the worker anew (unless it was
\* stopping the unit: then nothing follows).
ProcessRestart ==
  /\ restart["crash"].pc = "launching"
  /\ shutdown = "no"
  /\ browser'  = [s \in Slots |-> 1]
  /\ launched' = [s \in Slots |-> 1]
  /\ load'     = [s \in Slots |-> 0]
  /\ suppress' = [s \in Slots |-> FALSE]
  /\ registry' = [h \in Handles |-> NoPlacement]
  /\ call'     = [h \in Handles |-> IdleCall]
  /\ outcome'  = [h \in Handles |-> "none"]
  /\ queue'    = <<>>
  /\ restart'  = [r \in Restarters |-> NoRestart]
  /\ shutdown' = "no"
  /\ alive'    = {<<s, 1>> : s \in Slots}
  /\ live'     = {}
  /\ faults'   = 0

-----------------------------------------------------------------------------
(* BrowserPool.close, called once by the worker's shutdown                 *)

Close ==
  /\ shutdown = "no"
  /\ shutdown' = "contexts"
  /\ registry' = [h \in Handles |-> NoPlacement]
  /\ UNCHANGED <<slotVars, call, outcome, queue, restart, alive, live, faults>>

\* (mutant: BrowserSlot.close clears the browser before it reads it)
CloseSlotsUnclosed ==
  /\ shutdown = "contexts"
  /\ shutdown' = "slots"
  /\ browser'  = [s \in Slots |-> 0]
  /\ load'     = [s \in Slots |-> 0]
  /\ suppress' = [s \in Slots |-> TRUE]
  /\ UNCHANGED <<launched, registry, call, outcome, queue, restart, alive, live, faults>>

\* The registered contexts are closed, then every slot drops and closes its browser.
CloseSlots ==
  /\ shutdown = "contexts"
  /\ shutdown' = "slots"
  /\ browser'  = [s \in Slots |-> 0]
  /\ load'     = [s \in Slots |-> 0]
  /\ suppress' = [s \in Slots |-> TRUE]
  /\ alive' = {p \in alive : browser[p[1]] # p[2]}
  /\ live' = {c \in live : browser[c[2]] # c[3]}
  /\ UNCHANGED <<launched, registry, call, outcome, queue, restart, faults>>

SlotsClosed ==
  /\ shutdown = "slots"
  /\ shutdown' = "closed"
  /\ suppress' = [s \in Slots |-> FALSE]
  /\ UNCHANGED <<browser, launched, load, registry, call, outcome, queue, restart,
                 alive, live, faults>>

-----------------------------------------------------------------------------

CallStep(h) ==
  \/ OpenRefused(h)
  \/ \E s \in Slots : OpenSession(h, s)
  \/ ContextCreated(h)
  \/ ContextFailed(h)
  \/ CloseSession(h)
  \/ ContextClosed(h)
  \/ ContextCloseFailed(h)

RestartStep(r) ==
  \/ RestartContextsClosed(r)
  \/ RestartBrowserClosed(r)
  \/ Launched(r)

Next ==
  \/ \E h \in Handles : CallStep(h)
  \/ \E p \in alive : Crash(p[1], p[2])
  \/ CrashRecovery
  \/ \E s \in Slots : HealthRestart(s)
  \/ \E r \in Restarters : RestartStep(r)
  \/ HealthLaunchFailed
  \/ ProcessRestart
  \/ Close
  \/ CloseSlots
  \/ SlotsClosed

\* Playwright answers every request, and the promise chain runs; nobody has to open,
\* close, crash or shut down.
Fairness ==
  /\ \A h \in Handles : WF_vars(ContextFailed(h)) /\ WF_vars(ContextClosed(h))
  /\ WF_vars(CrashRecovery)
  /\ \A r \in Restarters : WF_vars(RestartStep(r))

Spec == Init /\ [][Next]_vars /\ Fairness

-----------------------------------------------------------------------------
(* Properties                                                              *)

Places == Slots \X Nat
Contexts == Handles \X Slots \X Nat

CallType == [pc : {"idle", "opening", "closing"}, slot : Slots, launch : Nat]
RestartType == [pc : {"idle", "closing", "stopping", "launching"}, slot : Slots,
                launch : Nat, lost : SUBSET Contexts]
Outcomes == {"none", "opened", "duplicate", "capacity", "unavailable", "failed"}

TypeOK ==
  /\ browser \in [Slots -> Nat]
  /\ launched \in [Slots -> Nat]
  /\ load \in [Slots -> Nat]
  /\ suppress \in [Slots -> BOOLEAN]
  /\ registry \in [Handles -> Places \union {NoPlacement}]
  /\ call \in [Handles -> CallType]
  /\ outcome \in [Handles -> Outcomes]
  /\ queue \in Seq(Slots)
  /\ restart \in [Restarters -> RestartType]
  /\ shutdown \in {"no", "contexts", "slots", "closed"}
  /\ alive \subseteq Places
  /\ live \subseteq Contexts
  /\ faults \in Nat

\* The handles that hold, or are about to get, a context in launch g of slot s.
Holders(s, g) ==
  {h \in Handles : \/ <<h, s, g>> \in live
                   \/ call[h].pc = "opening" /\ CallPlace(h) = <<s, g>>}

\* No browser ever has more contexts than the slot's capacity, whatever opens, closes,
\* crashes and relaunches overlap.  A HealthMonitor breaks it for the slots it restarts:
\* a context whose newContext was pending when restartSlot began survives in the registry,
\* and its close decrements the load of the browser launched since.
CapacityRespected ==
  \A p \in alive : p[1] \notin Monitored => Cardinality(ContextsIn(p[1], p[2])) <= Capacity

\* activeContexts is exact for a running browser: a late decrement of a previous
\* browser's context or a lost one would either overfill the slot or shrink it for good.
LoadExact ==
  \A s \in Slots \ Monitored :
    <<s, browser[s]>> \in alive => load[s] = Cardinality(Holders(s, browser[s]))

\* A registered session is usable, or its slot's recovery is still to come and will
\* drop it: no session is left behind on a browser that is gone.
NoZombieSession ==
  shutdown = "no" =>
    \A h \in Handles :
      registry[h] # NoPlacement /\ registry[h][1] \notin Monitored =>
        \/ registry[h] \in alive
        \/ \E i \in DOMAIN queue : queue[i] = registry[h][1]

\* Every existing context is known to someone who will close it: the registry, the
\* closeSession in flight or a restart.
NoContextLeak ==
  shutdown = "no" =>
    \A c \in live :
      \/ registry[c[1]] = <<c[2], c[3]>>
      \/ call[c[1]].pc = "closing" /\ CallPlace(c[1]) = <<c[2], c[3]>>
      \/ \E r \in Restarters : c \in restart[r].lost

\* Every running browser is the one its slot uses: two overlapping launches would leave a
\* Chromium process nobody can close.  Crash recovery and HealthMonitor together may, in
\* the slots the monitor restarts.
NoOrphanBrowser ==
  \A p \in alive : p[1] \in Monitored \/ browser[p[1]] = p[2]

\* A slot whose browser died gets a running browser again, unless the worker stops.
SlotRecovers ==
  \A s \in Slots \ Monitored :
    (\A g \in 0 .. launched[s] : <<s, g>> \notin alive)
      ~> (<<s, browser[s]>> \in alive \/ shutdown # "no")

\* "Least-loaded healthy slot chosen": openSession finds no slot only when no running
\* browser has room.
HealthySlotChosen ==
  [][\A h \in Handles :
       outcome'[h] = "unavailable" /\ outcome[h] # "unavailable" =>
         ~ \E s \in Slots : load[s] < Capacity /\ <<s, browser[s]>> \in alive]_vars

-----------------------------------------------------------------------------
(* The pool implements the allocator of SessionAllocator on the slots that  *)
(* no HealthMonitor restarts: a handle occupies a slot from the moment its  *)
(* context is requested until it is gone.                                   *)

Placed ==
  [h \in Handles |->
     LET at == {s \in Slots \ Monitored : \E p \in alive : p[1] = s /\ h \in Holders(s, p[2])} IN
     IF at = {} THEN NoPlacement ELSE CHOOSE s \in at : TRUE]

Allocator == INSTANCE SessionAllocator WITH placed <- Placed, Nowhere <- NoPlacement

AllocatorSpec == Allocator!Spec

=============================================================================
