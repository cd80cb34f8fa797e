----------------------------- MODULE JobManager -----------------------------
(***************************************************************************)
(* Manager of pkg/jobs/manager.go over a MemoryStore: the dispatcher, the  *)
(* worker pool, the janitor, Start and Stop, and the client calls.         *)
(*                                                                         *)
(* Every successful Start creates a runtime context and a fresh set of     *)
(* goroutines while workCh, the store and the WaitGroup are shared by all  *)
(* of them, so goroutines are indexed by the number of the Start (the      *)
(* "runtime") that launched them.  A goroutine's local variables are the   *)
(* fields of its record, present in the control states that use them.      *)
(***************************************************************************)
EXTENDS MemoryStore, Sequences

CONSTANTS
    Workers,        \* the workers of one runtime (Config.Workers of them)
    QueueBuffer,    \* capacity of workCh
    Retention,      \* age at which the janitor prunes a finished job
    RetryDelay,     \* attempt -> delay before the next one (retryDelayFor)
    AllowEnqueueWithoutHandler,
    MaxStarts,      \* bound: number of successful Start calls
    MaxTime         \* bound: the clock, and every due time, stays within it

ASSUME ManagerConstants ==
    /\ QueueBuffer \in Nat \ {0}
    /\ Retention \in Nat \ {0}
    /\ RetryDelay \in [0..MaxAttemptLimit -> Nat]
    /\ AllowEnqueueWithoutHandler \in BOOLEAN
    /\ MaxStarts \in Nat
    /\ MaxTime \in Nat

Runtimes == 1..MaxStarts

WorkerIds == Runtimes \X Workers

VARIABLES
    handlers,       \* m.handlers: the registered types
    workCh,         \* m.workCh, a buffered channel of claimed jobs
    running,        \* m.running
    starts,         \* successful Start calls; the current runtime when running
    cancelled,      \* runtimes whose context is done
    stop,           \* runtime -> where the Stop call that ends it is
    dispatcher,     \* runtime -> state of runDispatcher
    worker,         \* worker id -> state of runWorker
    janitor,        \* runtimes whose janitor goroutine is alive
    now             \* the clock

vars == <<jobs, handlers, workCh, running, starts, cancelled, stop,
          dispatcher, worker, janitor, now>>

Off == [pc |-> "off"]

Goroutines == <<dispatcher, worker, janitor>>

Lifecycle == <<running, starts, cancelled, stop>>

Init ==
    /\ jobs = [id \in JobIds |-> NotStored]
    /\ handlers = {}
    /\ workCh = <<>>
    /\ running = FALSE
    /\ starts = 0
    /\ cancelled = {}
    /\ stop = [r \in Runtimes |-> "none"]
    /\ dispatcher = [r \in Runtimes |-> Off]
    /\ worker = [w \in WorkerIds |-> Off]
    /\ janitor = {}
    /\ now = 0

-----------------------------------------------------------------------------
(* Client calls.  Each reads the clock and then performs one store         *)
(* operation; a caller may be delayed in between, so "at" is any time so   *)
(* far.  Handlers are never removed, so the handler looked up before the   *)
(* delay is still there after it.                                          *)

RegisterHandler(t) ==
    /\ handlers' = handlers \cup {t}
    /\ UNCHANGED <<jobs, workCh, Lifecycle, Goroutines, now>>

\* The attempt limit and RunAfter are what the request, handler and manager
\* defaults resolve to.
Enqueue(id, t, max, runAfter, at) ==
    /\ t \in handlers \/ AllowEnqueueWithoutHandler
    /\ Create(id, NewJob(t, max, runAfter, at))
    /\ UNCHANGED <<handlers, workCh, Lifecycle, Goroutines, now>>

CancelJob(id, at) ==
    /\ Cancel(id, at)
    /\ UNCHANGED <<handlers, workCh, Lifecycle, Goroutines, now>>

\* (Bound: the last tick of the clock is left for the runtime to drain.)
RetryJob(id, at) ==
    /\ now < MaxTime
    /\ Retry(id, at)
    /\ UNCHANGED <<handlers, workCh, Lifecycle, Goroutines, now>>

-----------------------------------------------------------------------------
(* Start and Stop.                                                         *)

\* A no-op while m.running is set, even if the runtime's context is done.
Start ==
    /\ ~running
    /\ starts < MaxStarts
    /\ running' = TRUE
    /\ starts' = starts + 1
    /\ dispatcher' = [dispatcher EXCEPT ![starts + 1] = [pc |-> "scan"]]
    /\ janitor' = janitor \cup {starts + 1}
    /\ worker' = [w \in WorkerIds |->
                    IF w[1] = starts + 1 THEN [pc |-> "idle"] ELSE worker[w]]
    /\ UNCHANGED <<jobs, handlers, workCh, cancelled, stop, now>>

\* The context given to Start is done: the runtime's context is cancelled and
\* m.running is left as it is.
ParentDone(r) ==
    /\ r <= starts
    /\ r \notin cancelled
    /\ cancelled' = cancelled \cup {r}
    /\ UNCHANGED <<jobs, handlers, workCh, running, starts, stop, Goroutines, now>>

\* Stop under m.mu.  (A Stop that finds m.running unset returns at once: a
\* MemoryStore has nothing to close.)
Stop ==
    /\ running
    /\ running' = FALSE
    /\ stop' = [stop EXCEPT ![starts] = "cancel"]
    /\ UNCHANGED <<jobs, handlers, workCh, starts, cancelled, Goroutines, now>>

\* Mutant: Stop forgets to cancel the context.
StopWithoutCancel(r) ==
    /\ stop[r] = "cancel"
    /\ stop' = [stop EXCEPT ![r] = "wait"]
    /\ UNCHANGED <<jobs, handlers, workCh, running, starts, cancelled, Goroutines, now>>

\* cancel(), outside the lock.
StopCancel(r) ==
    /\ stop[r] = "cancel"
    /\ cancelled' = cancelled \cup {r}
    /\ stop' = [stop EXCEPT ![r] = "wait"]
    /\ UNCHANGED <<jobs, handlers, workCh, running, starts, Goroutines, now>>

\* The WaitGroup counts the goroutines of every runtime.
NoGoroutines ==
    /\ \A r \in Runtimes : dispatcher[r] = Off
    /\ \A w \in WorkerIds : worker[w] = Off
    /\ janitor = {}

\* m.wg.Wait() returns.
StopReturn(r) ==
    /\ stop[r] = "wait"
    /\ NoGoroutines
    /\ stop' = [stop EXCEPT ![r] = "returned"]
    /\ UNCHANGED <<jobs, handlers, workCh, running, starts, cancelled, Goroutines, now>>

-----------------------------------------------------------------------------
(* The dispatcher.                                                         *)

DispatcherStep(r, from, to) ==
    /\ dispatcher[r].pc = from
    /\ dispatcher' = [dispatcher EXCEPT ![r] = to]

AfterSend(batch) ==
    IF batch = {} THEN [pc |-> "wait"] ELSE [pc |-> "send", batch |-> batch]

\* Mutants: one slot too few; jobs waiting in workCh ignored.
FreeSlotsMinusOne == QueueBuffer - Len(workCh) - 1

AllSlots == QueueBuffer

FreeSlots == QueueBuffer - Len(workCh)

\* dispatch up to the claim: the free slots and the handler types are read
\* here and used by the claim.
DispatchScan(r) ==
    /\ DispatcherStep(r, "scan",
         IF FreeSlots <= 0 \/ handlers = {} THEN [pc |-> "wait"]
         ELSE [pc |-> "claim", slots |-> FreeSlots, types |-> handlers, since |-> now])
    /\ UNCHANGED <<jobs, handlers, workCh, Lifecycle, worker, janitor, now>>

\* The clock was read at some time between the scan and the claim.
DispatchClaim(r) ==
    LET d == dispatcher[r]
    IN  /\ d.pc = "claim"
        /\ \E at \in d.since..now :
             /\ DispatcherStep(r, "claim", AfterSend(ClaimedBatch(at, d.slots, d.types)))
             /\ ClaimReady(at, d.slots, d.types)
        /\ UNCHANGED <<handlers, workCh, Lifecycle, worker, janitor, now>>

\* The claimed jobs are sent in the order of the claim.
InOrder(s, t) ==
    \/ s.job.availableAt < t.job.availableAt
    \/ s.job.availableAt = t.job.availableAt /\ s.id <= t.id

DispatchSend(r) ==
    /\ dispatcher[r].pc = "send"
    /\ Len(workCh) < QueueBuffer
    /\ \E s \in dispatcher[r].batch :
         /\ \A t \in dispatcher[r].batch : InOrder(s, t)
         /\ workCh' = Append(workCh, s)
         /\ DispatcherStep(r, "send", AfterSend(dispatcher[r].batch \ {s}))
    /\ UNCHANGED <<jobs, handlers, Lifecycle, worker, janitor, now>>

\* ctx.Done() is chosen while sending: dispatch returns and drops the rest of
\* the batch, whose jobs stay "running" in the store.
DispatchAbort(r) ==
    /\ r \in cancelled
    /\ DispatcherStep(r, "send", [pc |-> "wait"])
    /\ UNCHANGED <<jobs, handlers, workCh, Lifecycle, worker, janitor, now>>

\* The ticker may win the select over a context that is done.
DispatchTick(r) ==
    /\ DispatcherStep(r, "wait", [pc |-> "scan"])
    /\ UNCHANGED <<jobs, handlers, workCh, Lifecycle, worker, janitor, now>>

DispatchExit(r) ==
    /\ r \in cancelled
    /\ DispatcherStep(r, "wait", Off)
    /\ UNCHANGED <<jobs, handlers, workCh, Lifecycle, worker, janitor, now>>

-----------------------------------------------------------------------------
(* The workers.                                                            *)

WorkerStep(w, from, to) ==
    /\ worker[w].pc = from
    /\ worker' = [worker EXCEPT ![w] = to]

WorkerTake(w) ==
    /\ workCh # <<>>
    /\ WorkerStep(w, "idle", [pc |-> "handler", snap |-> Head(workCh)])
    /\ workCh' = Tail(workCh)
    /\ UNCHANGED <<jobs, handlers, Lifecycle, dispatcher, janitor, now>>

\* An attempt that fails is retried while the claimed copy has attempts left.
Retries(job) == job.attempt < job.max

\* The handler returns, with an error or without, and the clock is read.  A
\* type with no handler, and a result that cannot be marshalled, is an error.
\* (Bound: a retry that would fall beyond MaxTime is not explored.)
HandlerReturn(w, ok) ==
    LET snap == worker[w].snap
    IN  /\ WorkerStep(w, "handler", [pc |-> "mark", snap |-> snap, ok |-> ok, at |-> now])
        /\ ok => snap.job.type \in handlers
        /\ ~ok /\ Retries(snap.job) => now + RetryDelay[snap.job.attempt] <= MaxTime
        /\ UNCHANGED <<jobs, handlers, workCh, Lifecycle, dispatcher, janitor, now>>

\* The store operation that ends processJob or finalizeFailure.
Finalize(snap, ok, at) ==
    IF ok THEN MarkSucceeded(snap.id, at)
    ELSE IF Retries(snap.job) THEN MarkRetry(snap.id, at + RetryDelay[snap.job.attempt])
    ELSE MarkFailed(snap.id, at)

WorkerMark(w) ==
    /\ WorkerStep(w, "mark", [pc |-> "idle"])
    /\ Finalize(worker[w].snap, worker[w].ok, worker[w].at)
    /\ UNCHANGED <<handlers, workCh, Lifecycle, dispatcher, janitor, now>>

WorkerExit(w) ==
    /\ w[1] \in cancelled
    /\ WorkerStep(w, "idle", Off)
    /\ UNCHANGED <<jobs, handlers, workCh, Lifecycle, dispatcher, janitor, now>>

-----------------------------------------------------------------------------
(* The janitor and the clock.                                              *)

JanitorPrune(r) ==
    /\ r \in janitor
    /\ PruneTerminalBefore(now - Retention)
    /\ UNCHANGED <<handlers, workCh, Lifecycle, Goroutines, now>>

JanitorExit(r) ==
    /\ r \in janitor \cap cancelled
    /\ janitor' = janitor \ {r}
    /\ UNCHANGED <<jobs, handlers, workCh, Lifecycle, dispatcher, worker, now>>

Tick ==
    /\ now < MaxTime
    /\ now' = now + 1
    /\ UNCHANGED <<jobs, handlers, workCh, Lifecycle, Goroutines>>

-----------------------------------------------------------------------------
ClientStep ==
    \/ \E t \in Types : RegisterHandler(t)
    \/ \E id \in JobIds, t \in Types, max \in AttemptLimits, runAfter \in 0..MaxTime :
         \E at \in 0..now : Enqueue(id, t, max, runAfter, at)
    \/ \E id \in JobIds, at \in 0..now : CancelJob(id, at) \/ RetryJob(id, at)

ControlStep ==
    \/ Start
    \/ Stop
    \/ \E r \in Runtimes : ParentDone(r) \/ StopCancel(r) \/ StopReturn(r)

DispatcherNext(r) ==
    \/ DispatchScan(r) \/ DispatchClaim(r) \/ DispatchSend(r)
    \/ DispatchAbort(r) \/ DispatchTick(r) \/ DispatchExit(r)

WorkerNext(w) ==
    \/ WorkerTake(w)
    \/ \E ok \in BOOLEAN : HandlerReturn(w, ok)
    \/ WorkerMark(w)
    \/ WorkerExit(w)

JanitorNext(r) == JanitorPrune(r) \/ JanitorExit(r)

Next ==
    \/ ClientStep
    \/ ControlStep
    \/ \E r \in Runtimes : DispatcherNext(r) \/ JanitorNext(r)
    \/ \E w \in WorkerIds : WorkerNext(w)
    \/ Tick

Spec == Init /\ [][Next]_vars

(***************************************************************************)
(* Fairness.  The Go scheduler runs every goroutine that can run, tickers  *)
(* keep firing, time passes, and handlers return (their context carries    *)
(* the job's timeout).  A select with several ready cases picks one at     *)
(* random, so a case that is ready again and again is eventually taken:    *)
(* strong fairness for the two exits that compete with another case.       *)
(* Nothing is assumed of clients, of Start and Stop, or of the janitor's   *)
(* pruning.                                                                *)
(***************************************************************************)
Fairness ==
    /\ WF_vars(Tick)
    /\ \A r \in Runtimes :
         /\ WF_vars(DispatchScan(r)) /\ WF_vars(DispatchClaim(r))
         /\ WF_vars(DispatchSend(r) \/ DispatchAbort(r))
         /\ WF_vars(DispatchTick(r)) /\ SF_vars(DispatchExit(r))
         /\ WF_vars(JanitorExit(r))
         /\ WF_vars(StopCancel(r)) /\ WF_vars(StopReturn(r))
    /\ \A w \in WorkerIds :
         /\ WF_vars(WorkerTake(w)) /\ SF_vars(WorkerExit(w))
         /\ WF_vars(\E ok \in BOOLEAN : HandlerReturn(w, ok))
         /\ WF_vars(WorkerMark(w))

FairSpec == Spec /\ Fairness

-----------------------------------------------------------------------------
(* Who holds a claimed job.                                                *)

Batch(r) == IF dispatcher[r].pc = "send" THEN dispatcher[r].batch ELSE {}

Busy(w) == worker[w].pc \in {"handler", "mark"}

HeldSnapshots ==
    (UNION {Batch(r) : r \in Runtimes})
      \cup {workCh[i] : i \in DOMAIN workCh}
      \cup {worker[w].snap : w \in {v \in WorkerIds : Busy(v)}}

InBatch(r, id) == \E s \in Batch(r) : s.id = id

InSlot(i, id) == workCh[i].id = id

InWorker(w, id) == Busy(w) /\ worker[w].snap.id = id

Held(id) ==
    \/ \E r \in Runtimes : InBatch(r, id)
    \/ \E i \in DOMAIN workCh : InSlot(i, id)
    \/ \E w \in WorkerIds : InWorker(w, id)

-----------------------------------------------------------------------------
(* Properties.                                                             *)

WorkerState ==
    [pc : {"off", "idle"}]
      \cup [pc : {"handler"}, snap : Snapshot]
      \cup [pc : {"mark"}, snap : Snapshot, ok : BOOLEAN, at : Nat]

DispatcherState ==
    [pc : {"off", "scan", "wait"}]
      \cup [pc : {"claim"}, slots : 1..QueueBuffer, types : SUBSET Types, since : Nat]
      \cup [pc : {"send"}, batch : SUBSET Snapshot]

\* Every variable holds a value of its Go type.
TypeOK ==
    /\ jobs \in [JobIds -> Job \cup {NotStored}]
    /\ handlers \in SUBSET Types
    /\ workCh \in Seq(Snapshot)
    /\ running \in BOOLEAN
    /\ starts \in 0..MaxStarts
    /\ cancelled \in SUBSET Runtimes
    /\ stop \in [Runtimes -> {"none", "cancel", "wait", "returned"}]
    /\ dispatcher \in [Runtimes -> DispatcherState]
    /\ worker \in [WorkerIds -> WorkerState]
    /\ janitor \in SUBSET Runtimes
    /\ now \in Nat

\* A claimed job is in one place: one dispatcher's batch, one slot of workCh
\* or one worker.  Two handlers therefore never run the same job at once, even
\* when a Start during a Stop leaves two runtimes sharing workCh.
SingleHolder ==
    \A id \in JobIds :
        /\ \A r, q \in Runtimes : InBatch(r, id) /\ InBatch(q, id) => r = q
        /\ \A i, k \in DOMAIN workCh : InSlot(i, id) /\ InSlot(k, id) => i = k
        /\ \A v, w \in WorkerIds : InWorker(v, id) /\ InWorker(w, id) => v = w
        /\ \A r \in Runtimes, i \in DOMAIN workCh : ~(InBatch(r, id) /\ InSlot(i, id))
        /\ \A r \in Runtimes, w \in WorkerIds : ~(InBatch(r, id) /\ InWorker(w, id))
        /\ \A i \in DOMAIN workCh, w \in WorkerIds : ~(InSlot(i, id) /\ InWorker(w, id))

\* The copy of a job that travels to a worker is never stale: as long as it is
\* held, the stored job is still running and equal to the copy.  This is what
\* makes the unconditional Mark operations of the store safe.
HeldIsCurrent ==
    \A s \in HeldSnapshots : s.job = jobs[s.id] /\ s.job.status = "running"

\* The claim filter works: a manager only holds jobs it has a handler for, so
\* the "no handler registered" branch of processJob is never taken.
HeldIsHandled ==
    \A s \in HeldSnapshots : s.job.type \in handlers

\* A job is "running" with nobody holding it only after some runtime was
\* cancelled: dispatch drops the rest of its batch then.
OrphansOnlyFromShutdown ==
    \A id \in JobIds :
        jobs[id].status = "running" => Held(id) \/ cancelled # {}

\* The slots counted before the claim are still free when its jobs are sent:
\* without a restart the dispatcher never blocks on workCh.
DispatcherNeverBlocks ==
    \A r \in Runtimes :
        starts = 1 => Len(workCh) + Cardinality(Batch(r)) <= QueueBuffer

\* When Stop returns, every goroutine of the runtime it stopped has exited.
StopLeavesNothingRunning ==
    \A r \in Runtimes : stop[r] = "returned" =>
        /\ dispatcher[r] = Off
        /\ \A w \in WorkerIds : w[1] = r => worker[w] = Off
        /\ r \notin janitor

\* No job starts before it is due, even though the claim uses a clock that was
\* read earlier.
NeverClaimedEarly ==
    [][\A id \in JobIds :
         jobs[id].status \in Pending /\ jobs'[id].status = "running"
           => jobs[id].availableAt <= now]_vars

\* No job is started more often than its limit allows, and a job that waits
\* for another attempt still has one.
AttemptsWithinLimit ==
    \A id \in JobIds :
        /\ jobs[id].status \in Pending => jobs[id].attempt < jobs[id].max
        /\ jobs[id].status = "running" => jobs[id].attempt \in 1..jobs[id].max

\* The current runtime is up and the dispatchers of earlier ones are gone.
Alive ==
    /\ running /\ starts \notin cancelled
    /\ \A r \in Runtimes : r < starts => dispatcher[r] = Off

Settled(id) == jobs[id].status \in Terminal \cup {"absent"}

Owed(id) ==
    \/ jobs[id].status \in Pending /\ jobs[id].type \in handlers
    \/ Held(id)

\* While a runtime is up, every job it has a handler for, and every job a
\* stopped runtime left in workCh, is worked on until it settles.
EveryJobSettles ==
    \A id \in JobIds : (Owed(id) /\ Alive) ~> (Settled(id) \/ ~Alive)

\* Stop returns, unless the manager is started again before it does: the
\* WaitGroup is shared by all runtimes, so a Stop overtaken by a Start also
\* waits for the goroutines of the new runtime, which nobody has cancelled.
StopReturns ==
    \A r \in Runtimes : stop[r] = "cancel" ~> (stop[r] = "returned" \/ starts > r)

-----------------------------------------------------------------------------
(* The inductive invariant.  Besides the properties above it says what a   *)
(* runtime that has not been started looks like, and that the types of a   *)
(* claim in progress all have a handler.                                   *)

Unstarted ==
    \A r \in Runtimes : r > starts =>
        /\ dispatcher[r] = Off
        /\ \A w \in WorkerIds : w[1] = r => worker[w] = Off
        /\ r \notin janitor /\ stop[r] = "none"

ClaimTypes ==
    \A r \in Runtimes :
        dispatcher[r].pc = "claim" => dispatcher[r].types \subseteq handlers /\ dispatcher[r].types # {}

\* Everything the proofs need of a reachable state.
IInv ==
    /\ TypeOK
    /\ SingleHolder /\ HeldIsCurrent /\ HeldIsHandled /\ AttemptsWithinLimit
    /\ OrphansOnlyFromShutdown /\ StopLeavesNothingRunning
    /\ Unstarted /\ ClaimTypes

-----------------------------------------------------------------------------
(* The manager implements the job lifecycle.                               *)

LifeOf(j) ==
    [status  |-> j.status,
     attempt |-> IF j = NotStored THEN 0 ELSE j.attempt,
     max     |-> IF j = NotStored THEN 0 ELSE j.max]

life == [id \in JobIds |-> LifeOf(jobs[id])]

L == INSTANCE JobLifecycle WITH JobIds <- JobIds, life <- life

\* Every step moves every job along an edge of the lifecycle, or not at all.
ImplementsLifecycle == L!Spec
=============================================================================
