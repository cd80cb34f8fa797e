-------------------------- MODULE JobManagerProofs --------------------------
(* The theorems about JobManager, for every value of its constants: the    *)
(* inductive invariant, what follows from it, and the refinement.          *)
EXTENDS JobManager, TLAPS

(***************************************************************************)
(* Type correctness.                                                       *)
(***************************************************************************)

\* A claim keeps a job well typed.
LEMMA ClaimedType ==
    ASSUME NEW j \in Job
    PROVE  Claimed(j) \in Job /\ Promoted(j) \in Job
<1>1. j.attempt + 1 \in Nat
  BY DEF Job
<1>. DEFINE n == j.attempt + 1
<1>2. [j EXCEPT !.status = "running", !.attempt = n] \in Job
  <2>. HIDE DEF n
  <2>. n \in Nat
    BY Zenon, <1>1 DEF n
  <2>. QED  BY Zenon DEF Job
<1>3. Promoted(j) \in Job
  BY Zenon DEF Promoted, Job, Pending
<1>. QED  BY Zenon, <1>2, <1>3 DEF Claimed

\* The store operations keep jobs well typed.
LEMMA StoreTypes ==
    ASSUME jobs \in [JobIds -> Job \cup {NotStored}]
    PROVE  /\ \A at, limit, types :
                ClaimReady(at, limit, types) => jobs' \in [JobIds -> Job \cup {NotStored}]
           /\ \A id \in JobIds : \A at \in Nat :
                \/ Cancel(id, at) \/ Retry(id, at)
                \/ MarkSucceeded(id, at) \/ MarkRetry(id, at) \/ MarkFailed(id, at)
                => jobs' \in [JobIds -> Job \cup {NotStored}]
           /\ \A cutoff :
                PruneTerminalBefore(cutoff) => jobs' \in [JobIds -> Job \cup {NotStored}]
<1>1. ASSUME NEW id \in JobIds, jobs[id].status \in Pending
      PROVE  Claimed(jobs[id]) \in Job /\ Promoted(jobs[id]) \in Job
  <2>1. jobs[id] \in Job
    BY <1>1 DEF NotStored, Pending
  <2>. QED  BY Zenon, <2>1, ClaimedType
<1>2. ASSUME NEW id \in JobIds, jobs[id] \in Job, NEW at \in Nat
      PROVE  /\ Succeeded(jobs[id], at) \in Job
             /\ Rescheduled(jobs[id], at) \in Job
             /\ Failed(jobs[id], at) \in Job
             /\ Canceled(jobs[id], at) \in Job
             /\ Requeued(jobs[id], at) \in Job
  BY Zenon, <1>2 DEF Succeeded, Rescheduled, Failed, Canceled, Requeued, Job, Pending, Terminal
<1>3. ASSUME NEW at, NEW limit, NEW types, ClaimReady(at, limit, types)
      PROVE  jobs' \in [JobIds -> Job \cup {NotStored}]
  <2>1. \A id \in FirstOf(Candidates(at, types), limit) \cup Due(at) :
            id \in JobIds /\ jobs[id].status \in Pending
    BY Zenon DEF FirstOf, Candidates, Due
  <2>. QED  BY Zenon, <1>1, <1>3, <2>1 DEF ClaimReady
<1>4. ASSUME NEW id \in JobIds, NEW at \in Nat,
             \/ Cancel(id, at) \/ Retry(id, at)
             \/ MarkSucceeded(id, at) \/ MarkRetry(id, at) \/ MarkFailed(id, at)
      PROVE  jobs' \in [JobIds -> Job \cup {NotStored}]
  <2>1. CASE jobs[id] \in Job
    BY Zenon, <1>2, <1>4, <2>1 DEF Cancel, Retry, MarkSucceeded, MarkRetry, MarkFailed, Update
  <2>2. CASE jobs[id] = NotStored
    BY <1>4, <2>2 DEF Cancel, Retry, MarkSucceeded, MarkRetry, MarkFailed, Update,
                      Stored, NotStored, Pending
  <2>. QED  BY Zenon, <2>1, <2>2
<1>5. ASSUME NEW cutoff, PruneTerminalBefore(cutoff)
      PROVE  jobs' \in [JobIds -> Job \cup {NotStored}]
  BY Zenon, <1>5 DEF PruneTerminalBefore
<1>. QED  BY Zenon, <1>3, <1>4, <1>5

\* A claim returns well-typed copies.
LEMMA BatchTypes ==
    ASSUME jobs \in [JobIds -> Job \cup {NotStored}], NEW at, NEW limit, NEW types
    PROVE  ClaimedBatch(at, limit, types) \in SUBSET Snapshot
<1>1. ASSUME NEW id \in FirstOf(Candidates(at, types), limit)
      PROVE  id \in JobIds /\ Claimed(jobs[id]) \in Job
  <2>1. id \in JobIds /\ jobs[id].status \in Pending
    BY Zenon DEF FirstOf, Candidates, Due
  <2>2. jobs[id] \in Job
    BY <2>1 DEF NotStored, Pending
  <2>. QED  BY Zenon, <2>1, <2>2, ClaimedType
<1>. QED  BY <1>1 DEF ClaimedBatch, Snapshot

\* A job with attempts left has a retry delay.
LEMMA DelayType ==
    ASSUME NEW j \in Job, Retries(j)
    PROVE  RetryDelay[j.attempt] \in Nat
<1>1. j.attempt \in Nat /\ j.max \in 1..MaxAttemptLimit /\ j.attempt < j.max
  BY Zenon DEF Retries, Job, AttemptLimits
<1>2. j.attempt \in 0..MaxAttemptLimit
  BY <1>1, JobConstants
<1>. QED  BY Zenon, <1>2, ManagerConstants

\* The initial state is well typed.
LEMMA InitType == Init => TypeOK
<1>1. Off \in DispatcherState /\ Off \in WorkerState
  BY Zenon DEF Off, DispatcherState, WorkerState
<1>2. <<>> \in Seq(Snapshot) /\ 0 \in 0..MaxStarts
  BY ManagerConstants
<1>. SUFFICES ASSUME Init PROVE TypeOK
  OBVIOUS
<1>3. running \in BOOLEAN
  BY Zenon DEF Init
<1>4. /\ jobs \in [JobIds -> Job \cup {NotStored}]
      /\ stop \in [Runtimes -> {"none", "cancel", "wait", "returned"}]
  BY Zenon DEF Init
<1>5. /\ dispatcher \in [Runtimes -> DispatcherState]
      /\ worker \in [WorkerIds -> WorkerState]
  BY Zenon, <1>1 DEF Init
<1>. QED  BY Zenon, <1>2, <1>3, <1>4, <1>5 DEF Init, TypeOK

\* Every step keeps every variable in its type.
LEMMA NextType == TypeOK /\ [Next]_vars => TypeOK'
<1>. SUFFICES ASSUME TypeOK, [Next]_vars PROVE TypeOK'
  OBVIOUS
<1>. USE DEF TypeOK
<1>1. ASSUME NEW t \in Types, RegisterHandler(t) PROVE TypeOK'
  BY Zenon, <1>1 DEF RegisterHandler, Lifecycle, Goroutines
<1>2. ASSUME NEW id \in JobIds, NEW t \in Types, NEW max \in AttemptLimits,
             NEW runAfter \in 0..MaxTime, NEW at \in 0..now,
             Enqueue(id, t, max, runAfter, at)
      PROVE  TypeOK'
  <2>1. NewJob(t, max, runAfter, at) \in Job
    BY DEF NewJob, Job, Pending
  <2>2. jobs' \in [JobIds -> Job \cup {NotStored}]
    BY Zenon, <1>2, <2>1 DEF Enqueue, Create
  <2>. QED  BY Zenon, <1>2, <2>2 DEF Enqueue, Lifecycle, Goroutines
<1>3. ASSUME NEW id \in JobIds, NEW at \in 0..now, CancelJob(id, at) \/ RetryJob(id, at)
      PROVE  TypeOK'
  <2>1. jobs' \in [JobIds -> Job \cup {NotStored}]
    BY <1>3, StoreTypes DEF CancelJob, RetryJob
  <2>. QED  BY Zenon, <1>3, <2>1 DEF CancelJob, RetryJob, Lifecycle, Goroutines
<1>4. CASE Start
  <2>1. starts + 1 \in Runtimes /\ starts' \in 0..MaxStarts
    BY <1>4, ManagerConstants DEF Start, Runtimes
  <2>2. dispatcher' \in [Runtimes -> DispatcherState]
    BY Zenon, <1>4, <2>1 DEF Start, DispatcherState
  <2>3. worker' \in [WorkerIds -> WorkerState]
    BY Zenon, <1>4 DEF Start, WorkerState
  <2>. QED  BY Zenon, <1>4, <2>1, <2>2, <2>3 DEF Start
<1>5. CASE Stop
  BY Zenon, <1>5 DEF Stop, Goroutines
<1>6. ASSUME NEW r \in Runtimes, ParentDone(r) \/ StopCancel(r) \/ StopReturn(r)
      PROVE  TypeOK'
  BY Zenon, <1>6 DEF ParentDone, StopCancel, StopReturn, Goroutines
<1>7. ASSUME NEW r \in Runtimes, DispatchScan(r) PROVE TypeOK'
  <2>1. FreeSlots \in Int /\ FreeSlots <= QueueBuffer
    BY ManagerConstants DEF FreeSlots
  <2>2. CASE FreeSlots <= 0 \/ handlers = {}
    BY Zenon, <1>7, <2>2 DEF DispatchScan, DispatcherStep, DispatcherState, Lifecycle
  <2>3. CASE ~(FreeSlots <= 0 \/ handlers = {})
    <3>. DEFINE to == [pc |-> "claim", slots |-> FreeSlots, types |-> handlers, since |-> now]
    <3>1. to \in DispatcherState
      BY <2>1, <2>3, ManagerConstants DEF DispatcherState
    <3>2. dispatcher' = [dispatcher EXCEPT ![r] = to]
      BY Zenon, <1>7, <2>3 DEF DispatchScan, DispatcherStep
    <3>. HIDE DEF to
    <3>3. dispatcher' \in [Runtimes -> DispatcherState]
      BY Zenon, <3>1, <3>2
    <3>. QED  BY Zenon, <1>7, <3>3 DEF DispatchScan, Lifecycle
  <2>. QED  BY Zenon, <2>2, <2>3
<1>8. ASSUME NEW r \in Runtimes, DispatchClaim(r) PROVE TypeOK'
  <2>. DEFINE d == dispatcher[r]
  <2>. PICK at : /\ DispatcherStep(r, "claim", AfterSend(ClaimedBatch(at, d.slots, d.types)))
                 /\ ClaimReady(at, d.slots, d.types)
    BY Zenon, <1>8 DEF DispatchClaim
  <2>1. AfterSend(ClaimedBatch(at, d.slots, d.types)) \in DispatcherState
    BY Zenon, BatchTypes DEF AfterSend, DispatcherState
  <2>2. dispatcher' \in [Runtimes -> DispatcherState]
    BY Zenon, <2>1 DEF DispatcherStep
  <2>3. jobs' \in [JobIds -> Job \cup {NotStored}]
    BY Zenon, StoreTypes
  <2>. QED  BY Zenon, <1>8, <2>2, <2>3 DEF DispatchClaim, Lifecycle
<1>9. ASSUME NEW r \in Runtimes, DispatchSend(r) PROVE TypeOK'
  <2>1. dispatcher[r].batch \in SUBSET Snapshot
    BY Zenon, <1>9 DEF DispatchSend, DispatcherState
  <2>2. PICK s \in dispatcher[r].batch :
               /\ workCh' = Append(workCh, s)
               /\ DispatcherStep(r, "send", AfterSend(dispatcher[r].batch \ {s}))
    BY Zenon, <1>9 DEF DispatchSend
  <2>3. workCh' \in Seq(Snapshot)
    BY <2>1, <2>2
  <2>4. AfterSend(dispatcher[r].batch \ {s}) \in DispatcherState
    BY Zenon, <2>1 DEF AfterSend, DispatcherState
  <2>5. dispatcher' \in [Runtimes -> DispatcherState]
    BY Zenon, <2>2, <2>4 DEF DispatcherStep
  <2>. QED  BY Zenon, <1>9, <2>3, <2>5 DEF DispatchSend, Lifecycle
<1>10. ASSUME NEW r \in Runtimes, DispatchAbort(r) \/ DispatchTick(r) \/ DispatchExit(r)
       PROVE  TypeOK'
  BY <1>10 DEF DispatchAbort, DispatchTick, DispatchExit, DispatcherStep,
               DispatcherState, Off, Lifecycle
<1>11. ASSUME NEW w \in WorkerIds, WorkerTake(w) PROVE TypeOK'
  <2>1. Head(workCh) \in Snapshot /\ Tail(workCh) \in Seq(Snapshot)
    BY <1>11 DEF WorkerTake
  <2>2. [pc |-> "handler", snap |-> Head(workCh)] \in WorkerState
    BY Zenon, <2>1 DEF WorkerState
  <2>3. worker' \in [WorkerIds -> WorkerState]
    BY Zenon, <1>11, <2>2 DEF WorkerTake, WorkerStep
  <2>. QED  BY Zenon, <1>11, <2>1, <2>3 DEF WorkerTake, Lifecycle
<1>12. ASSUME NEW w \in WorkerIds, NEW ok \in BOOLEAN, HandlerReturn(w, ok)
       PROVE  TypeOK'
  <2>1. worker[w].snap \in Snapshot
    BY Zenon, <1>12 DEF HandlerReturn, WorkerStep, WorkerState
  <2>2. [pc |-> "mark", snap |-> worker[w].snap, ok |-> ok, at |-> now] \in WorkerState
    BY Zenon, <2>1 DEF WorkerState
  <2>3. worker' \in [WorkerIds -> WorkerState]
    BY Zenon, <1>12, <2>2 DEF HandlerReturn, WorkerStep
  <2>. QED  BY Zenon, <1>12, <2>3 DEF HandlerReturn, Lifecycle
<1>13. ASSUME NEW w \in WorkerIds, WorkerMark(w) PROVE TypeOK'
  <2>1. /\ worker[w].snap.id \in JobIds /\ worker[w].snap.job \in Job
        /\ worker[w].at \in Nat
    BY Zenon, <1>13 DEF WorkerMark, WorkerStep, WorkerState, Snapshot
  <2>2. Retries(worker[w].snap.job) =>
            worker[w].at + RetryDelay[worker[w].snap.job.attempt] \in Nat
    <3>1. Retries(worker[w].snap.job) => RetryDelay[worker[w].snap.job.attempt] \in Nat
      BY Zenon, <2>1, DelayType
    <3>. QED  BY <2>1, <3>1
  <2>3. jobs' \in [JobIds -> Job \cup {NotStored}]
    <3>1. CASE worker[w].ok
      BY Zenon, <1>13, <2>1, <3>1, StoreTypes DEF WorkerMark, Finalize
    <3>2. CASE ~worker[w].ok /\ Retries(worker[w].snap.job)
      BY Zenon, <1>13, <2>1, <2>2, <3>2, StoreTypes DEF WorkerMark, Finalize
    <3>3. CASE ~worker[w].ok /\ ~Retries(worker[w].snap.job)
      BY Zenon, <1>13, <2>1, <3>3, StoreTypes DEF WorkerMark, Finalize
    <3>. QED  BY Zenon, <3>1, <3>2, <3>3
  <2>4. worker' \in [WorkerIds -> WorkerState]
    BY Zenon, <1>13 DEF WorkerMark, WorkerStep, WorkerState
  <2>. QED  BY Zenon, <1>13, <2>3, <2>4 DEF WorkerMark, Lifecycle
<1>14. ASSUME NEW w \in WorkerIds, WorkerExit(w) PROVE TypeOK'
  BY Zenon, <1>14 DEF WorkerExit, WorkerStep, WorkerState, Off, Lifecycle
<1>15. ASSUME NEW r \in Runtimes, JanitorNext(r) PROVE TypeOK'
  <2>1. jobs' \in [JobIds -> Job \cup {NotStored}]
    BY Zenon, <1>15, StoreTypes DEF JanitorNext, JanitorPrune, JanitorExit
  <2>. QED  BY Zenon, <1>15, <2>1 DEF JanitorNext, JanitorPrune, JanitorExit, Lifecycle, Goroutines
<1>16. CASE Tick
  BY <1>16 DEF Tick, Lifecycle, Goroutines
<1>17. CASE UNCHANGED vars
  BY Zenon, <1>17 DEF vars
<1>. QED
  BY Zenon, <1>1, <1>2, <1>3, <1>4, <1>5, <1>6, <1>7, <1>8, <1>9, <1>10, <1>11, <1>12,
     <1>13, <1>14, <1>15, <1>16, <1>17
     DEF Next, ClientStep, ControlStep, DispatcherNext, WorkerNext

\* Every variable of the manager always holds a value of its Go type.
THEOREM TypeCorrect == Spec => []TypeOK
BY InitType, NextType, PTL DEF Spec

(***************************************************************************)
(* Who holds a claimed job.                                                *)
(***************************************************************************)

HoldInv == SingleHolder /\ HeldIsCurrent /\ HeldIsHandled /\ OrphansOnlyFromShutdown

\* What is held is a copy of a job.
LEMMA HeldType == TypeOK => HeldSnapshots \subseteq Snapshot
<1>. SUFFICES ASSUME TypeOK PROVE HeldSnapshots \subseteq Snapshot
  OBVIOUS
<1>1. \A r \in Runtimes : Batch(r) \subseteq Snapshot
  BY Zenon DEF TypeOK, Batch, DispatcherState
<1>2. \A i \in DOMAIN workCh : workCh[i] \in Snapshot
  BY DEF TypeOK
<1>3. \A w \in WorkerIds : Busy(w) => worker[w].snap \in Snapshot
  BY Zenon DEF TypeOK, Busy, WorkerState
<1>. SUFFICES ASSUME NEW s \in HeldSnapshots PROVE s \in Snapshot
  OBVIOUS
<1>4. \/ \E r \in Runtimes : s \in Batch(r)
      \/ \E i \in DOMAIN workCh : s = workCh[i]
      \/ \E w \in WorkerIds : Busy(w) /\ s = worker[w].snap
  BY Zenon DEF HeldSnapshots
<1>. QED  BY Zenon, <1>1, <1>2, <1>3, <1>4

\* A batch is what AfterSend puts in the dispatcher.
LEMMA AfterSendBatch ==
    ASSUME NEW r \in Runtimes, NEW b,
           dispatcher' = [dispatcher EXCEPT ![r] = AfterSend(b)], TypeOK
    PROVE  /\ Batch(r)' = b
           /\ \A q \in Runtimes : q # r => Batch(q)' = Batch(q)
<1>1. dispatcher'[r] = AfterSend(b)
  BY Zenon DEF TypeOK
<1>2. \A q \in Runtimes : q # r => dispatcher'[q] = dispatcher[q]
  BY Zenon DEF TypeOK
<1>. QED  BY <1>1, <1>2 DEF Batch, AfterSend

\* A step that moves no copy, and changes no job from or to "running",
\* leaves the holders as they are.
LEMMA HoldersKept ==
    ASSUME TypeOK, HoldInv,
           workCh' = workCh,
           \A r \in Runtimes : Batch(r)' = Batch(r),
           \A w \in WorkerIds : /\ Busy(w)' <=> Busy(w)
                                /\ Busy(w) => worker'[w].snap = worker[w].snap,
           handlers \subseteq handlers',
           cancelled \subseteq cancelled',
           \A id \in JobIds : jobs[id].status = "running" \/ jobs'[id].status = "running"
                              => jobs'[id] = jobs[id]
    PROVE  HoldInv'
<1>1. HeldSnapshots' = HeldSnapshots
  BY DEF HeldSnapshots
<1>2. \A s \in HeldSnapshots : s.id \in JobIds
  BY Zenon, HeldType DEF Snapshot
<1>3. \A id : /\ \A r \in Runtimes : InBatch(r, id)' <=> InBatch(r, id)
              /\ \A i : InSlot(i, id)' <=> InSlot(i, id)
              /\ \A w \in WorkerIds : InWorker(w, id)' <=> InWorker(w, id)
  BY Zenon DEF InBatch, InSlot, InWorker
<1>4. SingleHolder'
  BY Zenon, <1>3 DEF HoldInv, SingleHolder
<1>5. HeldIsCurrent'
  BY Zenon, <1>1, <1>2 DEF HoldInv, HeldIsCurrent
<1>6. HeldIsHandled'
  BY Zenon, <1>1 DEF HoldInv, HeldIsHandled
<1>7. OrphansOnlyFromShutdown'
  BY Zenon, <1>3 DEF HoldInv, OrphansOnlyFromShutdown, Held
<1>. QED  BY Zenon, <1>4, <1>5, <1>6, <1>7 DEF HoldInv

\* A claim hands a dispatcher only jobs that nobody holds.
LEMMA HoldClaim ==
    ASSUME TypeOK, HoldInv, ClaimTypes, NEW r \in Runtimes, DispatchClaim(r)
    PROVE  HoldInv'
<1>. DEFINE d == dispatcher[r]
<1>1. PICK at : /\ DispatcherStep(r, "claim", AfterSend(ClaimedBatch(at, d.slots, d.types)))
                /\ ClaimReady(at, d.slots, d.types)
  BY Zenon DEF DispatchClaim
<1>. DEFINE ids == FirstOf(Candidates(at, d.types), d.slots)
            new == ClaimedBatch(at, d.slots, d.types)
<1>2. Batch(r) = {} /\ Batch(r)' = new /\ \A q \in Runtimes : q # r => Batch(q)' = Batch(q)
  BY Zenon, <1>1, AfterSendBatch DEF DispatcherStep, Batch
<1>3. workCh' = workCh /\ worker' = worker /\ handlers' = handlers /\ cancelled' = cancelled
  BY Zenon DEF DispatchClaim, Lifecycle
<1>4. \A id \in ids : /\ id \in JobIds /\ jobs[id].status \in Pending
                      /\ jobs'[id] = Claimed(jobs[id]) /\ jobs[id].type \in handlers
  <2>1. d.types # {} /\ d.types \subseteq handlers
    BY Zenon, <1>1 DEF ClaimTypes, DispatcherStep
  <2>2. \A id \in ids : /\ id \in JobIds /\ jobs[id].status \in Pending
                        /\ jobs[id].type \in d.types
    BY Zenon, <2>1 DEF FirstOf, Candidates, Due
  <2>. QED  BY Zenon, <1>1, <2>1, <2>2 DEF ClaimReady
<1>5. \A id \in JobIds \ ids : /\ jobs[id].status = "running" => jobs'[id] = jobs[id]
                               /\ jobs'[id].status = "running" => jobs'[id] = jobs[id]
  <2>1. \A id \in Due(at) : jobs[id].status # "running"
    BY Zenon DEF Due, Pending
  <2>2. \A id \in Due(at) : Promoted(jobs[id]).status = "queued"
    BY DEF Promoted, Due, TypeOK, Job, NotStored, Pending
  <2>. QED  BY Zenon, <1>1, <2>1, <2>2 DEF ClaimReady
<1>6. \A s : s \in new <=> \E id \in ids : s = [id |-> id, job |-> jobs'[id]]
  BY Zenon, <1>4 DEF ClaimedBatch
<1>7. \A id \in ids : jobs'[id].status = "running" /\ jobs'[id].type = jobs[id].type
  <2>. SUFFICES ASSUME NEW id \in ids
                PROVE  jobs'[id].status = "running" /\ jobs'[id].type = jobs[id].type
    OBVIOUS
  <2>1. jobs[id] \in Job
    BY <1>4 DEF TypeOK, NotStored, Pending
  <2>2. Claimed(jobs[id]).status = "running" /\ Claimed(jobs[id]).type = jobs[id].type
    BY Zenon, <2>1 DEF Claimed, Job
  <2>. QED  BY Zenon, <1>4, <2>2
<1>. HIDE DEF ids, new
<1>8. \A s \in HeldSnapshots' : s \in HeldSnapshots \/ s \in new
  BY Zenon, <1>2, <1>3 DEF HeldSnapshots, Busy
<1>9. \A s \in HeldSnapshots : s.id \in JobIds \ ids
  <2>1. \A s \in HeldSnapshots : s.id \in JobIds /\ jobs[s.id].status = "running"
    BY Zenon, HeldType DEF Snapshot, HoldInv, HeldIsCurrent
  <2>. QED  BY Zenon, <1>4, <2>1 DEF Pending
<1>10. HeldIsCurrent' /\ HeldIsHandled'
  <2>. SUFFICES ASSUME NEW s \in HeldSnapshots'
                PROVE  /\ s.job = jobs'[s.id] /\ s.job.status = "running"
                       /\ s.job.type \in handlers'
    BY Zenon DEF HeldIsCurrent, HeldIsHandled
  <2>1. CASE s \in HeldSnapshots
    BY Zenon, <1>3, <1>5, <1>9, <2>1 DEF HoldInv, HeldIsCurrent, HeldIsHandled
  <2>2. CASE s \in new
    BY <1>3, <1>4, <1>6, <1>7, <2>2
  <2>. QED  BY Zenon, <1>8, <2>1, <2>2
<1>11. /\ \A id, q : q \in Runtimes /\ q # r => (InBatch(q, id)' <=> InBatch(q, id))
       /\ \A id : ~InBatch(r, id) /\ (InBatch(r, id)' <=> id \in ids)
       /\ \A id, i : InSlot(i, id)' <=> InSlot(i, id)
       /\ \A id, w : InWorker(w, id)' <=> InWorker(w, id)
  <2>1. \A id, q : q \in Runtimes /\ q # r => (InBatch(q, id)' <=> InBatch(q, id))
    BY Zenon, <1>2 DEF InBatch
  <2>2. \A id : ~InBatch(r, id) /\ (InBatch(r, id)' <=> id \in ids)
    <3>. TAKE id
    <3>1. ~InBatch(r, id)
      BY Zenon, <1>2 DEF InBatch
    <3>2. InBatch(r, id)' <=> \E s \in new : s.id = id
      BY Zenon, <1>2 DEF InBatch
    <3>3. ASSUME id \in ids PROVE \E s \in new : s.id = id
      <4>1. [id |-> id, job |-> jobs'[id]] \in new
        BY Zenon, <1>6, <3>3
      <4>. QED  BY Zenon, <4>1
    <3>4. ASSUME NEW s \in new, s.id = id PROVE id \in ids
      BY <1>6, <3>4
    <3>. QED  BY Zenon, <3>1, <3>2, <3>3, <3>4
  <2>3. \A id, i : InSlot(i, id)' <=> InSlot(i, id)
    BY Zenon, <1>3 DEF InSlot
  <2>4. \A id, w : InWorker(w, id)' <=> InWorker(w, id)
    BY Zenon, <1>3 DEF InWorker, Busy
  <2>. QED  BY Zenon, <2>1, <2>2, <2>3, <2>4
<1>12. \A id \in ids : /\ \A q \in Runtimes : ~InBatch(q, id)
                       /\ \A i \in DOMAIN workCh : ~InSlot(i, id)
                       /\ \A w \in WorkerIds : ~InWorker(w, id)
  BY Zenon, <1>9 DEF HeldSnapshots, InBatch, InSlot, InWorker
<1>13. SingleHolder'
  BY <1>3, <1>11, <1>12 DEF HoldInv, SingleHolder
<1>14. OrphansOnlyFromShutdown'
  <2>. SUFFICES ASSUME NEW id \in JobIds, jobs'[id].status = "running", cancelled' = {}
                PROVE  Held(id)'
    BY Zenon DEF OrphansOnlyFromShutdown
  <2>1. CASE id \in ids
    BY Zenon, <1>11, <2>1 DEF Held
  <2>2. CASE id \notin ids
    <3>1. Held(id)
      BY Zenon, <1>3, <1>5, <2>2 DEF HoldInv, OrphansOnlyFromShutdown
    <3>. QED  BY Zenon, <1>3, <1>11, <3>1 DEF Held
  <2>. QED  BY Zenon, <2>1, <2>2
<1>. QED  BY Zenon, <1>10, <1>13, <1>14 DEF HoldInv


\* Two copies of one job are equal, since both are current.
LEMMA OneCopy ==
    ASSUME HeldIsCurrent, NEW s \in HeldSnapshots, NEW t \in HeldSnapshots, s.id = t.id,
           HeldSnapshots \subseteq Snapshot
    PROVE  s = t
<1>1. s.job = t.job /\ s \in Snapshot /\ t \in Snapshot
  BY Zenon DEF HeldIsCurrent
<1>. QED  BY <1>1 DEF Snapshot

\* Sending moves one copy from the batch to workCh.
LEMMA HoldSend ==
    ASSUME TypeOK, HoldInv, NEW r \in Runtimes, DispatchSend(r)
    PROVE  HoldInv'
<1>1. PICK s \in dispatcher[r].batch :
             /\ workCh' = Append(workCh, s)
             /\ DispatcherStep(r, "send", AfterSend(dispatcher[r].batch \ {s}))
  BY Zenon DEF DispatchSend
<1>2. /\ s \in Batch(r) /\ Batch(r)' = Batch(r) \ {s}
      /\ \A q \in Runtimes : q # r => Batch(q)' = Batch(q)
  BY Zenon, <1>1, AfterSendBatch DEF DispatcherStep, Batch
<1>3. jobs' = jobs /\ worker' = worker /\ handlers' = handlers /\ cancelled' = cancelled
  BY Zenon DEF DispatchSend, Lifecycle
<1>4. s \in HeldSnapshots /\ s \in Snapshot /\ HeldSnapshots \subseteq Snapshot
  BY Zenon, <1>2, HeldType DEF HeldSnapshots
<1>. PICK n \in Nat : n = Len(workCh) + 1
  BY DEF TypeOK
<1>5. /\ n \in Nat /\ DOMAIN workCh = 1..Len(workCh) /\ DOMAIN workCh' = 1..n
      /\ n \notin DOMAIN workCh /\ DOMAIN workCh' = DOMAIN workCh \cup {n}
      /\ workCh'[n] = s /\ \A i \in DOMAIN workCh : workCh'[i] = workCh[i]
  BY <1>1, <1>4 DEF TypeOK
<1>6. HeldSnapshots' \subseteq HeldSnapshots
  <2>. SUFFICES ASSUME NEW t \in HeldSnapshots' PROVE t \in HeldSnapshots
    OBVIOUS
  <2>1. \/ \E q \in Runtimes : t \in Batch(q)'
        \/ \E i \in DOMAIN workCh' : t = workCh'[i]
        \/ \E w \in WorkerIds : Busy(w)' /\ t = worker'[w].snap
    BY Zenon DEF HeldSnapshots
  <2>2. ASSUME NEW q \in Runtimes, t \in Batch(q)' PROVE t \in HeldSnapshots
    BY Zenon, <1>2, <2>2 DEF HeldSnapshots
  <2>3. ASSUME NEW i \in DOMAIN workCh', t = workCh'[i] PROVE t \in HeldSnapshots
    BY Zenon, <1>4, <1>5, <2>3 DEF HeldSnapshots
  <2>4. ASSUME NEW w \in WorkerIds, Busy(w)', t = worker'[w].snap PROVE t \in HeldSnapshots
    BY Zenon, <1>3, <2>4 DEF HeldSnapshots, Busy
  <2>. QED  BY Zenon, <2>1, <2>2, <2>3, <2>4
<1>7. HeldIsCurrent' /\ HeldIsHandled'
  BY Zenon, <1>3, <1>6 DEF HoldInv, HeldIsCurrent, HeldIsHandled
<1>8. /\ \A id, q : q \in Runtimes /\ InBatch(q, id)' => InBatch(q, id)
      /\ \A id, q : q \in Runtimes /\ id # s.id => (InBatch(q, id)' <=> InBatch(q, id))
      /\ ~InBatch(r, s.id)' /\ InBatch(r, s.id)
  <2>1. \A id, q : q \in Runtimes /\ InBatch(q, id)' => InBatch(q, id)
    BY Zenon, <1>2 DEF InBatch
  <2>2. \A id, q : q \in Runtimes /\ id # s.id => (InBatch(q, id)' <=> InBatch(q, id))
    BY Zenon, <1>2 DEF InBatch
  <2>3. ASSUME NEW t \in Batch(r)', t.id = s.id PROVE FALSE
    <3>1. t \in HeldSnapshots /\ t # s
      BY Zenon, <1>2, <2>3 DEF HeldSnapshots
    <3>. QED  BY Zenon, <1>4, <2>3, <3>1, OneCopy DEF HoldInv
  <2>. QED  BY Zenon, <1>2, <2>1, <2>2, <2>3 DEF InBatch
<1>9. /\ \A id : \A i \in DOMAIN workCh : InSlot(i, id)' <=> InSlot(i, id)
      /\ \A id : InSlot(n, id)' <=> id = s.id
  BY Zenon, <1>5 DEF InSlot
<1>10. \A id, w : InWorker(w, id)' <=> InWorker(w, id)
  BY Zenon, <1>3 DEF InWorker, Busy
<1>11. s.id \in JobIds
  BY Zenon, <1>4 DEF Snapshot
<1>12. /\ \A i \in DOMAIN workCh : ~InSlot(i, s.id)
       /\ \A w \in WorkerIds : ~InWorker(w, s.id)
       /\ \A q \in Runtimes : ~InBatch(q, s.id)'
  BY Zenon, <1>8, <1>11 DEF HoldInv, SingleHolder
<1>13. SingleHolder'
  <2>. SUFFICES ASSUME NEW id \in JobIds
       PROVE
        /\ \A q, p \in Runtimes : InBatch(q, id)' /\ InBatch(p, id)' => q = p
        /\ \A i, k \in DOMAIN workCh' : InSlot(i, id)' /\ InSlot(k, id)' => i = k
        /\ \A v, w \in WorkerIds : InWorker(v, id)' /\ InWorker(w, id)' => v = w
        /\ \A q \in Runtimes, i \in DOMAIN workCh' : ~(InBatch(q, id)' /\ InSlot(i, id)')
        /\ \A q \in Runtimes, w \in WorkerIds : ~(InBatch(q, id)' /\ InWorker(w, id)')
        /\ \A i \in DOMAIN workCh', w \in WorkerIds : ~(InSlot(i, id)' /\ InWorker(w, id)')
    BY Zenon DEF SingleHolder
  <2>1. CASE id = s.id
    BY Zenon, <1>5, <1>9, <1>10, <1>12, <2>1
  <2>2. CASE id # s.id
    <3>1. /\ \A q, p \in Runtimes : InBatch(q, id) /\ InBatch(p, id) => q = p
          /\ \A i, k \in DOMAIN workCh : InSlot(i, id) /\ InSlot(k, id) => i = k
          /\ \A v, w \in WorkerIds : InWorker(v, id) /\ InWorker(w, id) => v = w
          /\ \A q \in Runtimes, i \in DOMAIN workCh : ~(InBatch(q, id) /\ InSlot(i, id))
          /\ \A q \in Runtimes, w \in WorkerIds : ~(InBatch(q, id) /\ InWorker(w, id))
          /\ \A i \in DOMAIN workCh, w \in WorkerIds : ~(InSlot(i, id) /\ InWorker(w, id))
      BY Zenon DEF HoldInv, SingleHolder
    <3>2. \A i \in DOMAIN workCh' : InSlot(i, id)' => i \in DOMAIN workCh /\ InSlot(i, id)
      BY Zenon, <1>5, <1>9, <2>2
    <3>3. \A q \in Runtimes : InBatch(q, id)' => InBatch(q, id)
      BY Zenon, <1>8
    <3>. QED  BY Zenon, <1>10, <3>1, <3>2, <3>3
  <2>. QED  BY Zenon, <2>1, <2>2
<1>14. OrphansOnlyFromShutdown'
  <2>. SUFFICES ASSUME NEW id \in JobIds, jobs'[id].status = "running", cancelled' = {}
                PROVE  Held(id)'
    BY Zenon DEF OrphansOnlyFromShutdown
  <2>1. Held(id)
    BY Zenon, <1>3 DEF HoldInv, OrphansOnlyFromShutdown
  <2>2. CASE id = s.id
    BY Zenon, <1>5, <1>9, <2>2 DEF Held
  <2>3. CASE id # s.id
    BY Zenon, <1>5, <1>8, <1>9, <1>10, <2>1, <2>3 DEF Held
  <2>. QED  BY Zenon, <2>2, <2>3
<1>. QED  BY Zenon, <1>7, <1>13, <1>14 DEF HoldInv

\* A dispatcher that drops its batch has a cancelled context.
LEMMA HoldAbort ==
    ASSUME TypeOK, HoldInv, NEW r \in Runtimes, DispatchAbort(r)
    PROVE  HoldInv'
<1>1. Batch(r)' = {} /\ \A q \in Runtimes : q # r => Batch(q)' = Batch(q)
  BY Zenon DEF DispatchAbort, DispatcherStep, Batch, TypeOK
<1>2. /\ jobs' = jobs /\ worker' = worker /\ handlers' = handlers /\ workCh' = workCh
      /\ cancelled' # {}
  BY Zenon DEF DispatchAbort, Lifecycle
<1>3. HeldSnapshots' \subseteq HeldSnapshots
  BY <1>1, <1>2 DEF HeldSnapshots, Busy
<1>4. HeldIsCurrent' /\ HeldIsHandled'
  BY Zenon, <1>2, <1>3 DEF HoldInv, HeldIsCurrent, HeldIsHandled
<1>5. /\ \A id, q : q \in Runtimes /\ InBatch(q, id)' => InBatch(q, id)
      /\ \A id, i : InSlot(i, id)' <=> InSlot(i, id)
      /\ \A id, w : InWorker(w, id)' <=> InWorker(w, id)
  BY Zenon, <1>1, <1>2 DEF InBatch, InSlot, InWorker, Busy
<1>6. SingleHolder'
  BY <1>2, <1>5 DEF HoldInv, SingleHolder
<1>. QED  BY Zenon, <1>2, <1>4, <1>6 DEF HoldInv, OrphansOnlyFromShutdown

\* Taking moves one copy from workCh to a worker.
LEMMA HoldTake ==
    ASSUME TypeOK, HoldInv, NEW w \in WorkerIds, WorkerTake(w)
    PROVE  HoldInv'
<1>. PICK s : s = Head(workCh)
  OBVIOUS
<1>. PICK n \in Nat : n = Len(workCh)
  BY DEF TypeOK
<1>1. /\ n > 0 /\ DOMAIN workCh = 1..n /\ DOMAIN workCh' = 1..(n - 1)
      /\ s = workCh[1] /\ s \in Snapshot
      /\ \A i \in 1..(n - 1) : i + 1 \in 1..n /\ workCh'[i] = workCh[i + 1]
      /\ \A i \in 1..n : i # 1 => i - 1 \in 1..(n - 1) /\ workCh'[i - 1] = workCh[i]
  BY DEF WorkerTake, TypeOK
<1>2. /\ jobs' = jobs /\ handlers' = handlers /\ cancelled' = cancelled
      /\ \A r : Batch(r)' = Batch(r)
  BY Zenon DEF WorkerTake, Lifecycle, Batch
<1>3. /\ ~Busy(w) /\ Busy(w)' /\ worker'[w].snap = s
      /\ \A v \in WorkerIds : v # w => worker'[v] = worker[v] /\ (Busy(v)' <=> Busy(v))
  BY Zenon DEF WorkerTake, WorkerStep, Busy, TypeOK
<1>4. s \in HeldSnapshots
  BY <1>1 DEF HeldSnapshots
<1>5. HeldSnapshots' \subseteq HeldSnapshots
  <2>. SUFFICES ASSUME NEW t \in HeldSnapshots' PROVE t \in HeldSnapshots
    OBVIOUS
  <2>1. \/ \E q \in Runtimes : t \in Batch(q)'
        \/ \E i \in DOMAIN workCh' : t = workCh'[i]
        \/ \E v \in WorkerIds : Busy(v)' /\ t = worker'[v].snap
    BY Zenon DEF HeldSnapshots
  <2>2. ASSUME NEW q \in Runtimes, t \in Batch(q)' PROVE t \in HeldSnapshots
    BY Zenon, <1>2, <2>2 DEF HeldSnapshots
  <2>3. ASSUME NEW i \in DOMAIN workCh', t = workCh'[i] PROVE t \in HeldSnapshots
    BY Zenon, <1>1, <2>3 DEF HeldSnapshots
  <2>4. ASSUME NEW v \in WorkerIds, Busy(v)', t = worker'[v].snap PROVE t \in HeldSnapshots
    BY Zenon, <1>3, <1>4, <2>4 DEF HeldSnapshots
  <2>. QED  BY Zenon, <2>1, <2>2, <2>3, <2>4
<1>6. HeldIsCurrent' /\ HeldIsHandled'
  BY Zenon, <1>2, <1>5 DEF HoldInv, HeldIsCurrent, HeldIsHandled
<1>7. \A id, r : InBatch(r, id)' <=> InBatch(r, id)
  BY Zenon, <1>2 DEF InBatch
<1>8. /\ \A id : InSlot(1, id) <=> id = s.id
      /\ \A id : \A i \in 1..(n - 1) : InSlot(i, id)' <=> InSlot(i + 1, id)
      /\ \A id : \A i \in 1..n : i # 1 => (InSlot(i, id) <=> InSlot(i - 1, id)')
  BY Zenon, <1>1 DEF InSlot
<1>9. /\ \A id : InWorker(w, id)' <=> id = s.id
      /\ \A id : ~InWorker(w, id)
      /\ \A id : \A v \in WorkerIds : v # w => (InWorker(v, id)' <=> InWorker(v, id))
  BY Zenon, <1>3 DEF InWorker
<1>10. SingleHolder'
  <2>. SUFFICES ASSUME NEW id \in JobIds
       PROVE
        /\ \A q, p \in Runtimes : InBatch(q, id)' /\ InBatch(p, id)' => q = p
        /\ \A i, k \in DOMAIN workCh' : InSlot(i, id)' /\ InSlot(k, id)' => i = k
        /\ \A u, v \in WorkerIds : InWorker(u, id)' /\ InWorker(v, id)' => u = v
        /\ \A q \in Runtimes, i \in DOMAIN workCh' : ~(InBatch(q, id)' /\ InSlot(i, id)')
        /\ \A q \in Runtimes, v \in WorkerIds : ~(InBatch(q, id)' /\ InWorker(v, id)')
        /\ \A i \in DOMAIN workCh', v \in WorkerIds : ~(InSlot(i, id)' /\ InWorker(v, id)')
    BY Zenon DEF SingleHolder
  <2>1. /\ \A q, p \in Runtimes : InBatch(q, id) /\ InBatch(p, id) => q = p
        /\ \A i, k \in 1..n : InSlot(i, id) /\ InSlot(k, id) => i = k
        /\ \A u, v \in WorkerIds : InWorker(u, id) /\ InWorker(v, id) => u = v
        /\ \A q \in Runtimes, i \in 1..n : ~(InBatch(q, id) /\ InSlot(i, id))
        /\ \A q \in Runtimes, v \in WorkerIds : ~(InBatch(q, id) /\ InWorker(v, id))
        /\ \A i \in 1..n, v \in WorkerIds : ~(InSlot(i, id) /\ InWorker(v, id))
    BY Zenon, <1>1 DEF HoldInv, SingleHolder
  <2>2. 1 \in 1..n
    BY <1>1
  <2>3. \A i, k \in DOMAIN workCh' : InSlot(i, id)' /\ InSlot(k, id)' => i = k
    BY <1>1, <1>8, <2>1
  <2>4. \A u, v \in WorkerIds : InWorker(u, id)' /\ InWorker(v, id)' => u = v
    BY Zenon, <1>8, <1>9, <2>1, <2>2
  <2>5. \A q \in Runtimes, i \in DOMAIN workCh' : ~(InBatch(q, id)' /\ InSlot(i, id)')
    BY Zenon, <1>1, <1>7, <1>8, <2>1
  <2>6. \A q \in Runtimes, v \in WorkerIds : ~(InBatch(q, id)' /\ InWorker(v, id)')
    BY Zenon, <1>7, <1>8, <1>9, <2>1, <2>2
  <2>7. \A i \in DOMAIN workCh', v \in WorkerIds : ~(InSlot(i, id)' /\ InWorker(v, id)')
    <3>. SUFFICES ASSUME NEW i \in 1..(n - 1), NEW v \in WorkerIds,
                         InSlot(i + 1, id), InWorker(v, id)'
                  PROVE  FALSE
      BY Zenon, <1>1, <1>8
    <3>1. i + 1 \in 1..n /\ i + 1 # 1
      BY <1>1
    <3>2. CASE v = w
      BY Zenon, <1>8, <1>9, <2>1, <2>2, <3>1, <3>2
    <3>3. CASE v # w
      BY Zenon, <1>9, <2>1, <3>1, <3>3
    <3>. QED  BY Zenon, <3>2, <3>3
  <2>. QED  BY Zenon, <1>7, <2>1, <2>3, <2>4, <2>5, <2>6, <2>7
<1>11. OrphansOnlyFromShutdown'
  <2>. SUFFICES ASSUME NEW id \in JobIds, Held(id) PROVE Held(id)'
    BY Zenon, <1>2 DEF HoldInv, OrphansOnlyFromShutdown
  <2>1. ASSUME NEW i \in 1..n, InSlot(i, id) PROVE Held(id)'
    <3>1. CASE i = 1
      <4>1. InWorker(w, id)'
        BY Zenon, <1>8, <1>9, <2>1, <3>1
      <4>. QED  BY Zenon, <4>1 DEF Held
    <3>2. CASE i # 1
      <4>1. i - 1 \in DOMAIN workCh' /\ InSlot(i - 1, id)'
        BY Zenon, <1>1, <1>8, <2>1, <3>2
      <4>. QED  BY Zenon, <4>1 DEF Held
    <3>. QED  BY Zenon, <3>1, <3>2
  <2>2. ASSUME NEW v \in WorkerIds, InWorker(v, id) PROVE Held(id)'
    BY Zenon, <1>9, <2>2 DEF Held
  <2>. QED  BY Zenon, <1>1, <1>7, <2>1, <2>2 DEF Held
<1>. QED  BY Zenon, <1>6, <1>10, <1>11 DEF HoldInv

\* The job a worker finishes is running, and the store operation acts on it.
LEMMA MarkOutcome ==
    ASSUME TypeOK, HeldIsCurrent, NEW w \in WorkerIds, WorkerMark(w)
    PROVE  LET id == worker[w].snap.id
               j  == jobs[id]
           IN  /\ id \in JobIds /\ j \in Job /\ j.status = "running"
               /\ \E at \in Nat :
                    \/ jobs' = [jobs EXCEPT ![id] = Succeeded(j, at)]
                    \/ j.attempt < j.max /\ jobs' = [jobs EXCEPT ![id] = Rescheduled(j, at)]
                    \/ ~(j.attempt < j.max) /\ jobs' = [jobs EXCEPT ![id] = Failed(j, at)]
<1>. DEFINE snap == worker[w].snap
            id == snap.id
            j  == jobs[id]
<1>1. /\ worker[w].pc = "mark" /\ snap \in Snapshot /\ worker[w].at \in Nat
      /\ worker[w].ok \in BOOLEAN
  BY Zenon DEF WorkerMark, WorkerStep, TypeOK, WorkerState
<1>2. snap \in HeldSnapshots
  BY Zenon, <1>1 DEF HeldSnapshots, Busy
<1>3. id \in JobIds /\ snap.job = j /\ j \in Job /\ j.status = "running"
  BY Zenon, <1>1, <1>2 DEF HeldIsCurrent, Snapshot
<1>4. Stored(id)
  BY <1>3 DEF Stored, Job, NotStored
<1>. HIDE DEF snap, id, j
<1>5. Finalize(snap, worker[w].ok, worker[w].at)
  BY Zenon DEF WorkerMark, snap
<1>6. CASE worker[w].ok
  <2>1. MarkSucceeded(id, worker[w].at)
    BY Zenon, <1>5, <1>6 DEF Finalize, id
  <2>2. jobs' = [jobs EXCEPT ![id] = Succeeded(j, worker[w].at)]
    BY Zenon, <1>4, <2>1 DEF MarkSucceeded, Update, j
  <2>. QED  BY Zenon, <1>1, <1>3, <2>2 DEF id, j, snap
<1>7. CASE ~worker[w].ok /\ j.attempt < j.max
  <2>1. Retries(snap.job)
    BY Zenon, <1>3, <1>7 DEF Retries
  <2>2. worker[w].at + RetryDelay[j.attempt] \in Nat
    BY <1>1, <1>3, <2>1, DelayType
  <2>3. MarkRetry(id, worker[w].at + RetryDelay[j.attempt])
    BY Zenon, <1>3, <1>5, <1>7, <2>1 DEF Finalize, id
  <2>4. jobs' = [jobs EXCEPT ![id] = Rescheduled(j, worker[w].at + RetryDelay[j.attempt])]
    BY Zenon, <1>4, <2>3 DEF MarkRetry, Update, j
  <2>. QED  BY Zenon, <1>3, <1>7, <2>2, <2>4 DEF id, j, snap
<1>8. CASE ~worker[w].ok /\ ~(j.attempt < j.max)
  <2>1. MarkFailed(id, worker[w].at)
    BY Zenon, <1>3, <1>5, <1>8 DEF Finalize, Retries, id
  <2>2. jobs' = [jobs EXCEPT ![id] = Failed(j, worker[w].at)]
    BY Zenon, <1>4, <2>1 DEF MarkFailed, Update, j
  <2>. QED  BY Zenon, <1>1, <1>3, <1>8, <2>2 DEF id, j, snap
<1>. QED  BY Zenon, <1>1, <1>6, <1>7, <1>8

\* Finishing a job takes the only copy of it away.
LEMMA HoldMark ==
    ASSUME TypeOK, HoldInv, NEW w \in WorkerIds, WorkerMark(w)
    PROVE  HoldInv'
<1>. PICK id : id = worker[w].snap.id
  OBVIOUS
<1>1. /\ id \in JobIds
      /\ jobs'[id].status # "running"
      /\ \A i \in JobIds : i # id => jobs'[i] = jobs[i]
  <2>1. \A at \in Nat : /\ Succeeded(jobs[id], at).status # "running"
                        /\ Rescheduled(jobs[id], at).status # "running"
                        /\ Failed(jobs[id], at).status # "running"
    BY Zenon, MarkOutcome DEF HoldInv, Succeeded, Rescheduled, Failed, Job
  <2>2. PICK at \in Nat : \E k \in {Succeeded(jobs[id], at), Rescheduled(jobs[id], at),
                                    Failed(jobs[id], at)} :
                             id \in JobIds /\ jobs' = [jobs EXCEPT ![id] = k]
    BY Zenon, MarkOutcome DEF HoldInv
  <2>3. DOMAIN jobs = JobIds
    BY Zenon DEF TypeOK
  <2>. QED  BY <2>1, <2>2, <2>3
<1>2. /\ workCh' = workCh /\ handlers' = handlers /\ cancelled' = cancelled
      /\ \A r : Batch(r)' = Batch(r)
  BY Zenon DEF WorkerMark, Lifecycle, Batch
<1>3. /\ InWorker(w, id) /\ ~Busy(w)'
      /\ \A v \in WorkerIds : v # w => worker'[v] = worker[v] /\ (Busy(v)' <=> Busy(v))
  BY Zenon DEF WorkerMark, WorkerStep, Busy, InWorker, TypeOK
<1>4. /\ \A i, r : InBatch(r, i)' <=> InBatch(r, i)
      /\ \A i, k : InSlot(k, i)' <=> InSlot(k, i)
      /\ \A i : ~InWorker(w, i)'
      /\ \A i : \A v \in WorkerIds : v # w => (InWorker(v, i)' <=> InWorker(v, i))
  <2>1. \A i, r : InBatch(r, i)' <=> InBatch(r, i)
    BY Zenon, <1>2 DEF InBatch
  <2>2. \A i, k : InSlot(k, i)' <=> InSlot(k, i)
    BY Zenon, <1>2 DEF InSlot
  <2>3. \A i : ~InWorker(w, i)'
    BY Zenon, <1>3 DEF InWorker
  <2>4. \A i : \A v \in WorkerIds : v # w => (InWorker(v, i)' <=> InWorker(v, i))
    BY Zenon, <1>3 DEF InWorker
  <2>. QED  BY Zenon, <2>1, <2>2, <2>3, <2>4
<1>5. SingleHolder'
  BY <1>2, <1>4 DEF HoldInv, SingleHolder
<1>6. \A s \in HeldSnapshots' : s \in HeldSnapshots /\ s.id # id
  <2>. SUFFICES ASSUME NEW s \in HeldSnapshots' PROVE s \in HeldSnapshots /\ s.id # id
    OBVIOUS
  <2>1. \/ \E q \in Runtimes : s \in Batch(q)
        \/ \E i \in DOMAIN workCh : s = workCh[i]
        \/ \E v \in WorkerIds : v # w /\ Busy(v) /\ s = worker[v].snap
    BY Zenon, <1>2, <1>3 DEF HeldSnapshots
  <2>2. \/ \E q \in Runtimes : InBatch(q, s.id)
        \/ \E i \in DOMAIN workCh : InSlot(i, s.id)
        \/ \E v \in WorkerIds : v # w /\ InWorker(v, s.id)
    BY Zenon, <2>1 DEF InBatch, InSlot, InWorker
  <2>3. s.id # id
    BY Zenon, <1>1, <1>3, <2>2 DEF HoldInv, SingleHolder
  <2>. QED  BY Zenon, <2>1, <2>3 DEF HeldSnapshots
<1>7. HeldIsCurrent' /\ HeldIsHandled'
  <2>1. \A s \in HeldSnapshots : s.id \in JobIds
    BY Zenon, HeldType DEF Snapshot
  <2>. QED  BY Zenon, <1>1, <1>2, <1>6, <2>1 DEF HoldInv, HeldIsCurrent, HeldIsHandled
<1>8. OrphansOnlyFromShutdown'
  <2>. SUFFICES ASSUME NEW i \in JobIds, i # id, Held(i) PROVE Held(i)'
    BY Zenon, <1>1, <1>2 DEF HoldInv, OrphansOnlyFromShutdown
  <2>1. ~InWorker(w, i)
    BY Zenon, <1>3 DEF InWorker
  <2>. QED  BY Zenon, <1>2, <1>4, <2>1 DEF Held
<1>. QED  BY Zenon, <1>5, <1>7, <1>8 DEF HoldInv

(***************************************************************************)
(* Every step: the holders, and what Start and Stop keep of the goroutines.*)
(***************************************************************************)

\* Every step keeps every claimed job with one holder, current and handled.
LEMMA HoldNext ==
    ASSUME TypeOK, HoldInv, ClaimTypes, Unstarted, [Next]_vars
    PROVE  HoldInv'
<1>1. ASSUME NEW t \in Types, RegisterHandler(t) PROVE HoldInv'
  BY Zenon, <1>1, HoldersKept DEF RegisterHandler, Lifecycle, Goroutines, Batch, Busy
<1>2. ASSUME NEW id \in JobIds, NEW t \in Types, NEW max \in AttemptLimits,
             NEW runAfter \in 0..MaxTime, NEW at \in 0..now,
             Enqueue(id, t, max, runAfter, at)
      PROVE  HoldInv'
  <2>1. /\ jobs[id].status # "running" /\ jobs'[id].status # "running"
        /\ \A i \in JobIds : i # id => jobs'[i] = jobs[i]
    BY <1>2 DEF Enqueue, Create, Stored, NotStored, NewJob, TypeOK
  <2>. QED  BY Zenon, <1>2, <2>1, HoldersKept DEF Enqueue, Lifecycle, Goroutines, Batch, Busy
<1>3. ASSUME NEW id \in JobIds, NEW at \in 0..now, CancelJob(id, at) \/ RetryJob(id, at)
      PROVE  HoldInv'
  <2>1. jobs[id] \in Job
    BY <1>3 DEF CancelJob, RetryJob, Cancel, Retry, TypeOK, Pending, NotStored
  <2>2. Canceled(jobs[id], at).status # "running" /\ Requeued(jobs[id], at).status # "running"
    BY Zenon, <2>1 DEF Canceled, Requeued, Job
  <2>3. /\ jobs[id].status # "running" /\ jobs'[id].status # "running"
        /\ \A i \in JobIds : i # id => jobs'[i] = jobs[i]
    BY Zenon, <1>3, <2>2 DEF CancelJob, RetryJob, Cancel, Retry, TypeOK, Pending
  <2>. QED  BY Zenon, <1>3, <2>3, HoldersKept
            DEF CancelJob, RetryJob, Lifecycle, Goroutines, Batch, Busy
<1>4. CASE Start
  <2>1. starts \in Nat /\ \A w \in WorkerIds : w[1] \in Runtimes
    BY DEF TypeOK, WorkerIds
  <2>2. \A r \in Runtimes : Batch(r)' = Batch(r)
    <3>1. \A r \in Runtimes : r # starts + 1 => dispatcher'[r] = dispatcher[r]
      BY Zenon, <1>4 DEF Start, TypeOK
    <3>2. ASSUME NEW r \in Runtimes, r = starts + 1
          PROVE  dispatcher[r] = Off /\ dispatcher'[r] = [pc |-> "scan"]
      BY <1>4, <2>1, <3>2 DEF Start, Unstarted, TypeOK
    <3>. QED  BY <3>1, <3>2 DEF Batch, Off
  <2>3. \A w \in WorkerIds : /\ Busy(w)' <=> Busy(w)
                             /\ Busy(w) => worker'[w].snap = worker[w].snap
    <3>1. ASSUME NEW w \in WorkerIds, w[1] = starts + 1
          PROVE  worker[w] = Off /\ worker'[w] = [pc |-> "idle"]
      BY <1>4, <2>1, <3>1 DEF Start, Unstarted
    <3>2. ASSUME NEW w \in WorkerIds, w[1] # starts + 1 PROVE worker'[w] = worker[w]
      BY Zenon, <1>4, <3>2 DEF Start
    <3>. QED  BY <3>1, <3>2 DEF Busy, Off
  <2>. QED  BY Zenon, <1>4, <2>2, <2>3, HoldersKept DEF Start
<1>5. CASE Stop
  BY Zenon, <1>5, HoldersKept DEF Stop, Goroutines, Batch, Busy
<1>6. ASSUME NEW r \in Runtimes, ParentDone(r) \/ StopCancel(r) \/ StopReturn(r)
      PROVE  HoldInv'
  BY Zenon, <1>6, HoldersKept DEF ParentDone, StopCancel, StopReturn, Goroutines, Batch, Busy
<1>7. ASSUME NEW r \in Runtimes, DispatchScan(r) \/ DispatchTick(r) \/ DispatchExit(r)
      PROVE  HoldInv'
  <2>1. \A q \in Runtimes : Batch(q)' = Batch(q)
    BY <1>7 DEF DispatchScan, DispatchTick, DispatchExit, DispatcherStep, Batch, Off, TypeOK
  <2>. QED  BY Zenon, <1>7, <2>1, HoldersKept
            DEF DispatchScan, DispatchTick, DispatchExit, Lifecycle, Busy
<1>8. ASSUME NEW r \in Runtimes, DispatchClaim(r) \/ DispatchSend(r) \/ DispatchAbort(r)
      PROVE  HoldInv'
  BY Zenon, <1>8, HoldClaim, HoldSend, HoldAbort
<1>9. ASSUME NEW w \in WorkerIds, WorkerTake(w) \/ WorkerMark(w) PROVE HoldInv'
  BY Zenon, <1>9, HoldTake, HoldMark
<1>10. ASSUME NEW w \in WorkerIds, NEW ok \in BOOLEAN, HandlerReturn(w, ok) \/ WorkerExit(w)
       PROVE  HoldInv'
  <2>1. \A v \in WorkerIds : /\ Busy(v)' <=> Busy(v)
                             /\ Busy(v) => worker'[v].snap = worker[v].snap
    BY <1>10 DEF HandlerReturn, WorkerExit, WorkerStep, Busy, Off, TypeOK
  <2>. QED  BY Zenon, <1>10, <2>1, HoldersKept DEF HandlerReturn, WorkerExit, Lifecycle, Batch
<1>11. ASSUME NEW r \in Runtimes, JanitorNext(r) PROVE HoldInv'
  <2>1. \A id \in JobIds : jobs[id].status = "running" \/ jobs'[id].status = "running"
                             => jobs'[id] = jobs[id]
    BY <1>11 DEF JanitorNext, JanitorPrune, JanitorExit, PruneTerminalBefore, Expired,
                 Terminal, NotStored
  <2>. QED  BY Zenon, <1>11, <2>1, HoldersKept
            DEF JanitorNext, JanitorPrune, JanitorExit, Lifecycle, Goroutines, Batch, Busy
<1>12. CASE Tick \/ UNCHANGED vars
  BY Zenon, <1>12, HoldersKept DEF Tick, vars, Lifecycle, Goroutines, Batch, Busy
<1>. QED
  BY Zenon, <1>1, <1>2, <1>3, <1>4, <1>5, <1>6, <1>7, <1>8, <1>9, <1>10, <1>11, <1>12
     DEF Next, ClientStep, ControlStep, DispatcherNext, WorkerNext

(***************************************************************************)
(* Runtimes: those not started yet, and those whose Stop has returned.     *)
(***************************************************************************)

RuntimeInv == Unstarted /\ ClaimTypes /\ StopLeavesNothingRunning

\* Only Start launches goroutines, and only of a runtime nobody has stopped.
LEMMA RuntimeNext ==
    ASSUME TypeOK, RuntimeInv, [Next]_vars
    PROVE  RuntimeInv'
<1>. USE DEF RuntimeInv
<1>0. \A w \in WorkerIds : w[1] \in Runtimes
  BY Zenon DEF WorkerIds
<1>1. ASSUME dispatcher' = dispatcher, worker' = worker, janitor' \subseteq janitor,
             stop' = stop, starts' = starts, handlers \subseteq handlers'
      PROVE  RuntimeInv'
  BY Zenon, <1>1 DEF Unstarted, ClaimTypes, StopLeavesNothingRunning
<1>2. ASSUME NEW r \in Runtimes, NEW from, NEW to, DispatcherStep(r, from, to), from # "off",
             to.pc = "claim" => to.types \subseteq handlers /\ to.types # {},
             worker' = worker, janitor' = janitor, stop' = stop, starts' = starts,
             handlers' = handlers
      PROVE  RuntimeInv'
  <2>1. dispatcher[r] # Off /\ dispatcher'[r] = to
    BY <1>2 DEF DispatcherStep, Off, TypeOK
  <2>2. \A q \in Runtimes : q # r => dispatcher'[q] = dispatcher[q]
    BY Zenon, <1>2 DEF DispatcherStep, TypeOK
  <2>. QED  BY Zenon, <1>2, <2>1, <2>2 DEF Unstarted, ClaimTypes, StopLeavesNothingRunning
<1>3. ASSUME NEW w \in WorkerIds, NEW from, NEW to, WorkerStep(w, from, to), from # "off",
             dispatcher' = dispatcher, janitor' = janitor, stop' = stop, starts' = starts,
             handlers' = handlers
      PROVE  RuntimeInv'
  <2>1. worker[w] # Off
    BY <1>3 DEF WorkerStep, Off, TypeOK
  <2>2. \A v \in WorkerIds : v # w => worker'[v] = worker[v]
    BY Zenon, <1>3 DEF WorkerStep, TypeOK
  <2>. QED  BY Zenon, <1>0, <1>3, <2>1, <2>2 DEF Unstarted, ClaimTypes, StopLeavesNothingRunning
<1>4. CASE ClientStep \/ Tick \/ UNCHANGED vars
  BY Zenon, <1>1, <1>4 DEF ClientStep, RegisterHandler, Enqueue, CancelJob, RetryJob, Tick, vars,
                    Lifecycle, Goroutines
<1>5. CASE Start
  <2>1. starts \in Nat /\ starts' = starts + 1 /\ starts + 1 \in Runtimes
    BY <1>5, ManagerConstants DEF Start, TypeOK, Runtimes
  <2>2. /\ dispatcher'[starts + 1] = [pc |-> "scan"]
        /\ \A r \in Runtimes : r # starts + 1 =>
             /\ dispatcher'[r] = dispatcher[r]
             /\ \A w \in WorkerIds : w[1] = r => worker'[w] = worker[w]
             /\ r \in janitor' => r \in janitor
        /\ stop' = stop /\ handlers' = handlers
    BY Zenon, <1>5, <2>1 DEF Start, TypeOK
  <2>3. \A r \in Runtimes : r \in Nat
    BY DEF Runtimes
  <2>4. Unstarted'
    BY <2>1, <2>2, <2>3 DEF Unstarted
  <2>5. ClaimTypes'
    BY <2>2 DEF ClaimTypes
  <2>6. stop[starts + 1] = "none"
    BY <2>1 DEF Unstarted
  <2>7. StopLeavesNothingRunning'
    BY Zenon, <2>2, <2>6 DEF StopLeavesNothingRunning
  <2>. QED  BY Zenon, <2>4, <2>5, <2>7
<1>6. CASE Stop
  <2>1. starts \in Nat /\ \A r \in Runtimes : r \in Nat
    BY DEF TypeOK, Runtimes
  <2>. QED  BY <1>6, <2>1 DEF Stop, Goroutines, Unstarted, ClaimTypes,
                              StopLeavesNothingRunning, TypeOK
<1>7. ASSUME NEW r \in Runtimes, ParentDone(r) PROVE RuntimeInv'
  BY Zenon, <1>1, <1>7 DEF ParentDone, Goroutines
<1>8. ASSUME NEW r \in Runtimes, StopCancel(r) PROVE RuntimeInv'
  BY Zenon, <1>8 DEF StopCancel, Goroutines, Unstarted, ClaimTypes, StopLeavesNothingRunning, TypeOK
<1>9. ASSUME NEW r \in Runtimes, StopReturn(r) PROVE RuntimeInv'
  BY Zenon, <1>9 DEF StopReturn, NoGoroutines, Goroutines, Unstarted, ClaimTypes,
              StopLeavesNothingRunning, TypeOK
<1>10. ASSUME NEW r \in Runtimes, DispatcherNext(r) PROVE RuntimeInv'
  <2>1. CASE DispatchScan(r)
    <3>. DEFINE to == IF FreeSlots <= 0 \/ handlers = {} THEN [pc |-> "wait"]
                      ELSE [pc |-> "claim", slots |-> FreeSlots,
                            types |-> handlers, since |-> now]
    <3>1. to.pc = "claim" => to.types \subseteq handlers /\ to.types # {}
      OBVIOUS
    <3>2. DispatcherStep(r, "scan", to)
      BY Zenon, <2>1 DEF DispatchScan
    <3>. HIDE DEF to
    <3>. QED  BY Zenon, <1>2, <2>1, <3>1, <3>2 DEF DispatchScan, Lifecycle
  <2>2. \A b : AfterSend(b).pc # "claim"
    BY Zenon DEF AfterSend
  <2>3. CASE DispatchClaim(r)
    BY Zenon, <1>2, <2>2, <2>3 DEF DispatchClaim, Lifecycle
  <2>4. CASE DispatchSend(r)
    BY Zenon, <1>2, <2>2, <2>4 DEF DispatchSend, Lifecycle
  <2>5. CASE DispatchAbort(r) \/ DispatchTick(r) \/ DispatchExit(r)
    BY Zenon, <1>2, <2>5 DEF DispatchAbort, DispatchTick, DispatchExit, Lifecycle, Off
  <2>. QED  BY Zenon, <1>10, <2>1, <2>3, <2>4, <2>5 DEF DispatcherNext
<1>11. ASSUME NEW w \in WorkerIds, WorkerNext(w) PROVE RuntimeInv'
  BY Zenon, <1>3, <1>11 DEF WorkerNext, WorkerTake, HandlerReturn, WorkerMark, WorkerExit, Lifecycle
<1>12. ASSUME NEW r \in Runtimes, JanitorNext(r) PROVE RuntimeInv'
  BY Zenon, <1>1, <1>12 DEF JanitorNext, JanitorPrune, JanitorExit, Lifecycle, Goroutines
<1>. QED
  BY Zenon, <1>4, <1>5, <1>6, <1>7, <1>8, <1>9, <1>10, <1>11, <1>12 DEF Next, ControlStep

(***************************************************************************)
(* The lifecycle: what the store operations do to one job, seen through    *)
(* the refinement mapping.                                                 *)
(***************************************************************************)

\* The record mutations are edges of the lifecycle.
LEMMA JobMoves ==
    ASSUME NEW j \in Job, NEW at \in Nat
    PROVE  /\ j.status \in Pending /\ j.attempt < j.max => L!Move(LifeOf(j), LifeOf(Claimed(j)))
           /\ j.status \in Pending =>
                \/ LifeOf(Promoted(j)) = LifeOf(j)
                \/ L!Move(LifeOf(j), LifeOf(Promoted(j)))
           /\ j.status \in Pending => L!Move(LifeOf(j), LifeOf(Canceled(j, at)))
           /\ j.status \in {"failed", "canceled"} => L!Move(LifeOf(j), LifeOf(Requeued(j, at)))
           /\ j.status \in Terminal => L!Move(LifeOf(j), LifeOf(NotStored))
           /\ j.status = "running" =>
                /\ L!Move(LifeOf(j), LifeOf(Succeeded(j, at)))
                /\ j.attempt < j.max => L!Move(LifeOf(j), LifeOf(Rescheduled(j, at)))
                /\ j.attempt = j.max => L!Move(LifeOf(j), LifeOf(Failed(j, at)))
<1>. USE DEF L!Move, L!Keeps, Pending, Terminal
<1>1. j # NotStored
  BY DEF Job, NotStored
<1>2. LifeOf(j) = [status |-> j.status, attempt |-> j.attempt, max |-> j.max]
  BY Zenon, <1>1 DEF LifeOf
<1>3. ASSUME NEW k \in Job PROVE k # NotStored /\ LifeOf(k) = [status |-> k.status, attempt |-> k.attempt, max |-> k.max]
  BY DEF Job, NotStored, LifeOf
<1>4. ASSUME NEW k \in Job
      PROVE  LifeOf(k).status = k.status /\ LifeOf(k).attempt = k.attempt /\ LifeOf(k).max = k.max
  BY <1>3
<1>5. j.status \in Pending /\ j.attempt < j.max => L!Move(LifeOf(j), LifeOf(Claimed(j)))
  <2>1. /\ Claimed(j) \in Job /\ Claimed(j).status = "running"
        /\ Claimed(j).attempt = j.attempt + 1 /\ Claimed(j).max = j.max
    BY Zenon, ClaimedType DEF Claimed, Job
  <2>2. j.attempt \in Nat /\ j.max \in Nat
    BY DEF Job, AttemptLimits
  <2>. QED  BY <1>2, <1>3, <2>1, <2>2 DEF L!Claim
<1>6. j.status \in Pending =>
        \/ LifeOf(Promoted(j)) = LifeOf(j)
        \/ L!Move(LifeOf(j), LifeOf(Promoted(j)))
  <2>1. /\ Promoted(j) \in Job /\ Promoted(j).status = "queued"
        /\ Promoted(j).attempt = j.attempt /\ Promoted(j).max = j.max
    BY Zenon DEF Promoted, Job
  <2>. QED  BY <1>2, <1>3, <2>1 DEF L!Promote
<1>7. j.status \in Pending => L!Move(LifeOf(j), LifeOf(Canceled(j, at)))
  <2>1. /\ Canceled(j, at) \in Job /\ Canceled(j, at).status = "canceled"
        /\ Canceled(j, at).attempt = j.attempt /\ Canceled(j, at).max = j.max
    BY Zenon DEF Canceled, Job
  <2>. QED  BY Zenon, <1>4, <2>1 DEF L!Cancel
<1>8. j.status \in {"failed", "canceled"} => L!Move(LifeOf(j), LifeOf(Requeued(j, at)))
  <2>1. /\ Requeued(j, at) \in Job /\ Requeued(j, at).status = "queued"
        /\ Requeued(j, at).attempt = 0 /\ Requeued(j, at).max = j.max
    BY Zenon DEF Requeued, Job
  <2>. QED  BY Zenon, <1>4, <2>1 DEF L!Requeue
<1>9. j.status \in Terminal => L!Move(LifeOf(j), LifeOf(NotStored))
  <2>1. LifeOf(NotStored) = L!Absent
    BY Zenon DEF LifeOf, NotStored, L!Absent
  <2>. QED  BY Zenon, <1>4, <2>1 DEF L!Forget
<1>10. j.status = "running" => L!Move(LifeOf(j), LifeOf(Succeeded(j, at)))
  <2>1. /\ Succeeded(j, at) \in Job /\ Succeeded(j, at).status = "succeeded"
        /\ Succeeded(j, at).attempt = j.attempt /\ Succeeded(j, at).max = j.max
    BY Zenon DEF Succeeded, Job
  <2>. QED  BY Zenon, <1>4, <2>1 DEF L!Succeed
<1>11. j.status = "running" /\ j.attempt < j.max => L!Move(LifeOf(j), LifeOf(Rescheduled(j, at)))
  <2>1. /\ Rescheduled(j, at) \in Job /\ Rescheduled(j, at).status = "scheduled"
        /\ Rescheduled(j, at).attempt = j.attempt /\ Rescheduled(j, at).max = j.max
    BY Zenon DEF Rescheduled, Job
  <2>. QED  BY Zenon, <1>4, <2>1 DEF L!Reschedule
<1>12. j.status = "running" /\ j.attempt = j.max => L!Move(LifeOf(j), LifeOf(Failed(j, at)))
  <2>1. /\ Failed(j, at) \in Job /\ Failed(j, at).status = "failed"
        /\ Failed(j, at).attempt = j.attempt /\ Failed(j, at).max = j.max
    BY Zenon DEF Failed, Job
  <2>. QED  BY Zenon, <1>4, <2>1 DEF L!Fail
<1>. QED  BY Zenon, <1>5, <1>6, <1>7, <1>8, <1>9, <1>10, <1>11, <1>12

(***************************************************************************)
(* The refinement of the lifecycle, and the theorems.                      *)
(***************************************************************************)

\* Every step moves every job along an edge of the lifecycle, or not at all.
LEMMA StepMoves == IInv /\ [Next]_vars => [L!Next]_life
<1>. SUFFICES ASSUME IInv, [Next]_vars PROVE [L!Next]_life
  OBVIOUS
<1>. DEFINE Moves(id) == \/ LifeOf(jobs'[id]) = LifeOf(jobs[id])
                         \/ L!Move(LifeOf(jobs[id]), LifeOf(jobs'[id]))
<1>1. SUFFICES ASSUME NEW id \in JobIds PROVE Moves(id)
  <2>1. \A id \in JobIds : life[id] = LifeOf(jobs[id]) /\ life'[id] = LifeOf(jobs'[id])
    BY Zenon DEF life
  <2>. QED  BY Zenon, <1>1, <2>1 DEF L!Next
<1>2. TypeOK
  BY Zenon DEF IInv
<1>3. ASSUME jobs' = jobs PROVE Moves(id)
  BY Zenon, <1>3
<1>4. ASSUME NEW i \in JobIds, NEW t \in Types, NEW max \in AttemptLimits,
             NEW runAfter \in 0..MaxTime, NEW at \in 0..now,
             Enqueue(i, t, max, runAfter, at)
      PROVE  Moves(id)
  <2>1. CASE id # i
    BY Zenon, <1>2, <1>4, <2>1 DEF Enqueue, Create, TypeOK
  <2>2. CASE id = i
    <3>1. jobs[id] = NotStored /\ jobs'[id] = NewJob(t, max, runAfter, at)
      BY Zenon, <1>2, <1>4, <2>2 DEF Enqueue, Create, Stored, TypeOK
    <3>2. LifeOf(NotStored) = L!Absent
      BY Zenon DEF LifeOf, NotStored, L!Absent
    <3>3. /\ NewJob(t, max, runAfter, at) # NotStored
          /\ NewJob(t, max, runAfter, at).status \in {"scheduled", "queued"}
          /\ NewJob(t, max, runAfter, at).attempt = 0
          /\ NewJob(t, max, runAfter, at).max = max
      BY Zenon DEF NewJob, NotStored
    <3>4. max > 0
      BY DEF AttemptLimits
    <3>. QED  BY Zenon, <3>1, <3>2, <3>3, <3>4 DEF L!Move, L!Submit, LifeOf
  <2>. QED  BY Zenon, <2>1, <2>2
<1>5. ASSUME NEW i \in JobIds, NEW at \in 0..now, CancelJob(i, at) \/ RetryJob(i, at)
      PROVE  Moves(id)
  <2>0. at \in Nat
    BY <1>2 DEF TypeOK
  <2>1. CASE id # i
    BY Zenon, <1>2, <1>5, <2>1 DEF CancelJob, RetryJob, Cancel, Retry, TypeOK
  <2>2. CASE id = i
    <3>1. jobs[id] \in Job
      BY <1>2, <1>5, <2>2 DEF CancelJob, RetryJob, Cancel, Retry, TypeOK, Pending, NotStored
    <3>. QED  BY Zenon, <1>2, <1>5, <2>0, <2>2, <3>1, JobMoves
              DEF CancelJob, RetryJob, Cancel, Retry, TypeOK
  <2>. QED  BY Zenon, <2>1, <2>2
<1>6. ASSUME NEW r \in Runtimes, DispatchClaim(r) PROVE Moves(id)
  <2>1. PICK at : ClaimReady(at, dispatcher[r].slots, dispatcher[r].types)
    BY Zenon, <1>6 DEF DispatchClaim
  <2>. DEFINE claimed == FirstOf(Candidates(at, dispatcher[r].types), dispatcher[r].slots)
  <2>2. jobs'[id] = IF id \in claimed THEN Claimed(jobs[id])
                    ELSE IF id \in Due(at) THEN Promoted(jobs[id]) ELSE jobs[id]
    BY Zenon, <2>1 DEF ClaimReady
  <2>3. claimed \subseteq Due(at)
    BY Zenon DEF FirstOf, Candidates
  <2>4. id \in Due(at) => /\ jobs[id] \in Job /\ jobs[id].status \in Pending
                          /\ jobs[id].attempt < jobs[id].max
    BY <1>2 DEF Due, TypeOK, NotStored, Pending, IInv, AttemptsWithinLimit
  <2>. HIDE DEF claimed
  <2>. QED  BY Zenon, <2>2, <2>3, <2>4, JobMoves
<1>7. ASSUME NEW w \in WorkerIds, WorkerMark(w) PROVE Moves(id)
  <2>. PICK i : i = worker[w].snap.id
    OBVIOUS
  <2>1. /\ i \in JobIds /\ jobs[i] \in Job /\ jobs[i].status = "running"
        /\ \E at \in Nat :
             \/ jobs' = [jobs EXCEPT ![i] = Succeeded(jobs[i], at)]
             \/ /\ jobs[i].attempt < jobs[i].max
                /\ jobs' = [jobs EXCEPT ![i] = Rescheduled(jobs[i], at)]
             \/ /\ ~(jobs[i].attempt < jobs[i].max)
                /\ jobs' = [jobs EXCEPT ![i] = Failed(jobs[i], at)]
    BY Zenon, <1>2, <1>7, MarkOutcome DEF IInv
  <2>2. CASE id # i
    BY Zenon, <1>2, <2>1, <2>2 DEF TypeOK
  <2>3. CASE id = i
    <3>1. ~(jobs[i].attempt < jobs[i].max) => jobs[i].attempt = jobs[i].max
      <4>1. i \in JobIds /\ jobs[i] \in Job /\ jobs[i].status = "running"
        BY Zenon, <2>1
      <4>2. jobs[i].attempt \in Nat /\ jobs[i].max \in Nat
        BY <4>1 DEF Job, AttemptLimits
      <4>3. jobs[i].attempt <= jobs[i].max
        BY <4>1, <4>2 DEF IInv, AttemptsWithinLimit
      <4>. QED  BY <4>2, <4>3
    <3>2. \E at \in Nat :
            \/ jobs'[i] = Succeeded(jobs[i], at)
            \/ jobs[i].attempt < jobs[i].max /\ jobs'[i] = Rescheduled(jobs[i], at)
            \/ jobs[i].attempt = jobs[i].max /\ jobs'[i] = Failed(jobs[i], at)
      BY Zenon, <1>2, <2>1, <3>1 DEF TypeOK
    <3>. QED  BY Zenon, <2>1, <2>3, <3>2, JobMoves
  <2>. QED  BY Zenon, <2>2, <2>3
<1>8. ASSUME NEW r \in Runtimes, JanitorPrune(r) PROVE Moves(id)
  <2>1. CASE id \in Expired(now - Retention)
    <3>1. jobs[id] \in Job /\ jobs[id].status \in Terminal /\ jobs'[id] = NotStored
      BY <1>2, <1>8, <2>1 DEF JanitorPrune, PruneTerminalBefore, Expired, TypeOK, NotStored,
                              Terminal
    <3>. QED  BY Zenon, <3>1, JobMoves, 0 \in Nat
  <2>2. CASE id \notin Expired(now - Retention)
    BY Zenon, <1>8, <2>2 DEF JanitorPrune, PruneTerminalBefore
  <2>. QED  BY Zenon, <2>1, <2>2
<1>. HIDE DEF Moves
<1>9. CASE ClientStep
  BY Zenon, <1>3, <1>4, <1>5, <1>9 DEF ClientStep, RegisterHandler
<1>10. CASE ControlStep \/ Tick \/ UNCHANGED vars
  BY Zenon, <1>3, <1>10 DEF ControlStep, Start, Stop, ParentDone, StopCancel, StopReturn, Tick, vars
<1>11. ASSUME NEW r \in Runtimes, DispatcherNext(r) \/ JanitorNext(r) PROVE Moves(id)
  BY Zenon, <1>3, <1>6, <1>8, <1>11
     DEF DispatcherNext, DispatchScan, DispatchSend, DispatchAbort, DispatchTick, DispatchExit,
         JanitorNext, JanitorExit
<1>12. ASSUME NEW w \in WorkerIds, WorkerNext(w) PROVE Moves(id)
  BY Zenon, <1>3, <1>7, <1>12 DEF WorkerNext, WorkerTake, HandlerReturn, WorkerExit
<1>. QED  BY Zenon, <1>9, <1>10, <1>11, <1>12 DEF Next

\* No edge of the lifecycle exceeds the attempt limit.
LEMMA AttemptsNext ==
    ASSUME TypeOK, TypeOK', AttemptsWithinLimit, [L!Next]_life
    PROVE  AttemptsWithinLimit'
<1>. SUFFICES ASSUME NEW id \in JobIds
              PROVE  /\ jobs'[id].status \in Pending => jobs'[id].attempt < jobs'[id].max
                     /\ jobs'[id].status = "running" => jobs'[id].attempt \in 1..jobs'[id].max
  BY Zenon DEF AttemptsWithinLimit
<1>. DEFINE j == LifeOf(jobs[id])
            k == LifeOf(jobs'[id])
<1>1. k = j \/ L!Move(j, k)
  BY Zenon DEF L!Next, life
<1>2. /\ j.status = jobs[id].status /\ k.status = jobs'[id].status
      /\ jobs[id] # NotStored => /\ j.attempt = jobs[id].attempt /\ j.max = jobs[id].max
                                 /\ j.attempt \in Nat /\ j.max \in Nat
      /\ jobs'[id] # NotStored => /\ k.attempt = jobs'[id].attempt /\ k.max = jobs'[id].max
                                  /\ k.attempt \in Nat /\ k.max \in Nat
  BY DEF LifeOf, TypeOK, Job, AttemptLimits
<1>3. /\ j.status \in Pending \cup {"running"} => jobs[id] # NotStored
      /\ k.status \in Pending \cup {"running"} => jobs'[id] # NotStored
  BY <1>2 DEF NotStored, Pending
<1>4. /\ j.status \in Pending => j.attempt < j.max
      /\ j.status = "running" => j.attempt \in 1..j.max
  BY Zenon, <1>2, <1>3 DEF AttemptsWithinLimit
<1>. HIDE DEF j, k
<1>5. /\ k.status \in Pending => k.attempt < k.max
      /\ k.status = "running" => k.attempt \in 1..k.max
  <2>1. CASE k = j
    BY Zenon, <1>4, <2>1
  <2>2. CASE L!Submit(j, k) \/ L!Promote(j, k) \/ L!Claim(j, k)
    BY <1>2, <1>3, <1>4, <2>2 DEF L!Submit, L!Promote, L!Claim, L!Keeps, Pending
  <2>3. CASE L!Succeed(j, k) \/ L!Fail(j, k) \/ L!Reschedule(j, k)
    BY Zenon, <1>2, <1>3, <1>4, <2>3 DEF L!Succeed, L!Fail, L!Reschedule, L!Keeps, Pending
  <2>4. CASE L!Cancel(j, k) \/ L!Forget(j, k)
    BY <2>4 DEF L!Cancel, L!Forget, L!Absent, Pending
  <2>5. CASE L!Requeue(j, k)
    <3>1. j.max > 0
      <4>1. jobs[id] # NotStored
        BY <1>2, <2>5 DEF L!Requeue, NotStored
      <4>2. jobs[id].max > 0
        BY <4>1 DEF TypeOK, Job, AttemptLimits
      <4>. QED  BY Zenon, <1>2, <4>1, <4>2
    <3>. QED  BY Zenon, <2>5, <3>1 DEF L!Requeue, Pending
  <2>. QED  BY Zenon, <1>1, <2>1, <2>2, <2>3, <2>4, <2>5 DEF L!Move
<1>. QED  BY Zenon, <1>2, <1>3, <1>5

\* The invariant holds initially: nothing is stored, held or started.
LEMMA InitInv == Init => IInv
<1>. SUFFICES ASSUME Init PROVE IInv
  OBVIOUS
<1>1. TypeOK
  BY Zenon, InitType
<1>2. /\ \A r \in Runtimes : Batch(r) = {} /\ dispatcher[r] = Off /\ stop[r] = "none"
      /\ \A w \in WorkerIds : ~Busy(w) /\ worker[w] = Off
      /\ DOMAIN workCh = {} /\ janitor = {}
      /\ \A id \in JobIds : jobs[id].status = "absent"
  BY DEF Init, Batch, Busy, Off, NotStored
<1>3. SingleHolder
  BY Zenon, <1>2 DEF SingleHolder, InBatch, InSlot, InWorker
<1>4. HeldIsCurrent /\ HeldIsHandled
  BY Zenon, <1>2 DEF HeldIsCurrent, HeldIsHandled, HeldSnapshots
<1>5. AttemptsWithinLimit /\ OrphansOnlyFromShutdown
  BY Zenon, <1>2 DEF AttemptsWithinLimit, OrphansOnlyFromShutdown, Pending
<1>6. StopLeavesNothingRunning /\ Unstarted /\ ClaimTypes
  BY <1>2 DEF StopLeavesNothingRunning, Unstarted, ClaimTypes, Off
<1>. QED  BY Zenon, <1>1, <1>3, <1>4, <1>5, <1>6 DEF IInv

\* The invariant is inductive.
LEMMA NextInv == IInv /\ [Next]_vars => IInv'
<1>. SUFFICES ASSUME IInv, [Next]_vars PROVE IInv'
  OBVIOUS
<1>1. TypeOK'
  BY Zenon, NextType DEF IInv
<1>2. HoldInv'
  BY Zenon, HoldNext DEF IInv, HoldInv
<1>3. RuntimeInv'
  BY Zenon, RuntimeNext DEF IInv, RuntimeInv
<1>4. AttemptsWithinLimit'
  BY Zenon, <1>1, StepMoves, AttemptsNext DEF IInv
<1>. QED  BY Zenon, <1>1, <1>2, <1>3, <1>4 DEF IInv, HoldInv, RuntimeInv

\* The inductive invariant holds in every reachable state.
THEOREM Invariance == Spec => []IInv
BY InitInv, NextInv, PTL DEF Spec

\* A claimed job is in one dispatcher's batch, in one slot of workCh or with
\* one worker, whatever Start and Stop do: no two handlers run it at once.
THEOREM ExclusiveClaim == Spec => []SingleHolder
<1>1. IInv => SingleHolder
  BY Zenon DEF IInv
<1>. QED  BY <1>1, Invariance, PTL

\* The copy a worker acts on is the stored job, so the Mark operations, which
\* look at no status, never overwrite a job that moved on.
THEOREM CopiesAreCurrent == Spec => []HeldIsCurrent
<1>1. IInv => HeldIsCurrent
  BY Zenon DEF IInv
<1>. QED  BY <1>1, Invariance, PTL

\* The claim filter keeps jobs without a handler away from the workers.
THEOREM ClaimsAreHandled == Spec => []HeldIsHandled
<1>1. IInv => HeldIsHandled
  BY Zenon DEF IInv
<1>. QED  BY <1>1, Invariance, PTL

\* A running job nobody holds is the work of a cancelled runtime.
THEOREM NoOrphanWithoutShutdown == Spec => []OrphansOnlyFromShutdown
<1>1. IInv => OrphansOnlyFromShutdown
  BY Zenon DEF IInv
<1>. QED  BY <1>1, Invariance, PTL

\* Stop returns only when the goroutines of its runtime have exited.
THEOREM StopWaits == Spec => []StopLeavesNothingRunning
<1>1. IInv => StopLeavesNothingRunning
  BY Zenon DEF IInv
<1>. QED  BY <1>1, Invariance, PTL

\* No job is started more often than its attempt limit.
THEOREM AttemptLimit == Spec => []AttemptsWithinLimit
<1>1. IInv => AttemptsWithinLimit
  BY Zenon DEF IInv
<1>. QED  BY <1>1, Invariance, PTL

\* No job is claimed before it is due.
THEOREM ClaimedOnlyWhenDue == Spec => NeverClaimedEarly
<1>. DEFINE Early == \A id \in JobIds :
                       jobs[id].status \in Pending /\ jobs'[id].status = "running"
                         => jobs[id].availableAt <= now
<1>1. IInv /\ [Next]_vars => [Early]_vars
  <2>. SUFFICES ASSUME IInv, Next, NEW id \in JobIds,
                       jobs[id].status \in Pending, jobs'[id].status = "running"
                PROVE  jobs[id].availableAt <= now
    BY Zenon DEF Early
  <2>1. TypeOK /\ HeldIsCurrent /\ jobs'[id] # jobs[id]
    BY Zenon DEF IInv, Pending
  <2>2. ASSUME NEW r \in Runtimes, DispatchClaim(r) PROVE jobs[id].availableAt <= now
    <3>1. PICK at \in dispatcher[r].since..now :
                 ClaimReady(at, dispatcher[r].slots, dispatcher[r].types)
      BY Zenon, <2>2 DEF DispatchClaim
    <3>2. id \in Due(at)
      BY Zenon, <2>1, <3>1 DEF ClaimReady, FirstOf, Candidates
    <3>3. dispatcher[r].since \in Nat /\ now \in Nat
      BY Zenon, <2>1, <2>2 DEF DispatchClaim, TypeOK, DispatcherState
    <3>4. jobs[id] \in Job
      BY <2>1 DEF TypeOK, NotStored, Pending
    <3>. QED  BY <3>2, <3>3, <3>4 DEF Due, Job
  <2>3. ~ClientStep
    <3>1. ASSUME NEW i \in JobIds, NEW t, NEW max, NEW runAfter, NEW at,
                 Enqueue(i, t, max, runAfter, at)
          PROVE  FALSE
      BY <2>1, <3>1 DEF Enqueue, Create, Stored, TypeOK, NotStored, Pending
    <3>2. ASSUME NEW i \in JobIds, NEW at, CancelJob(i, at) \/ RetryJob(i, at) PROVE FALSE
      <4>1. i = id
        BY Zenon, <2>1, <3>2 DEF CancelJob, RetryJob, Cancel, Retry, TypeOK
      <4>2. jobs[id] \in Job
        BY <2>1 DEF TypeOK, NotStored, Pending
      <4>3. Canceled(jobs[id], at).status # "running"
        BY Zenon, <4>2 DEF Canceled, Job
      <4>. QED  BY Zenon, <2>1, <3>2, <4>1, <4>3 DEF CancelJob, RetryJob, Cancel, Retry, TypeOK, Pending
    <3>. QED  BY Zenon, <2>1, <3>1, <3>2 DEF ClientStep, RegisterHandler
  <2>4. ASSUME NEW w \in WorkerIds, WorkerMark(w) PROVE FALSE
    <3>1. jobs'[id] = jobs[id] \/ jobs[id].status = "running"
      BY Zenon, <2>1, <2>4, MarkOutcome DEF TypeOK
    <3>. QED  BY Zenon, <2>1, <3>1 DEF Pending
  <2>5. ASSUME NEW r \in Runtimes, JanitorPrune(r) PROVE FALSE
    BY Zenon, <2>1, <2>5 DEF JanitorPrune, PruneTerminalBefore, NotStored
  <2>. QED
    BY Zenon, <2>1, <2>2, <2>3, <2>4, <2>5
       DEF Next, ControlStep, Start, Stop, ParentDone, StopCancel, StopReturn, Tick,
           DispatcherNext, DispatchScan, DispatchSend, DispatchAbort, DispatchTick, DispatchExit,
           JanitorNext, JanitorExit, WorkerNext, WorkerTake, HandlerReturn, WorkerExit
<1>. QED  BY <1>1, Invariance, PTL DEF Spec, NeverClaimedEarly

\* The manager implements the job lifecycle.
THEOREM Refinement == Spec => ImplementsLifecycle
<1>1. Init => L!Init
  <2>1. LifeOf(NotStored) = L!Absent
    BY Zenon DEF LifeOf, NotStored, L!Absent
  <2>. QED  BY Zenon, <2>1 DEF Init, L!Init, life
<1>. QED  BY <1>1, StepMoves, Invariance, PTL DEF Spec, ImplementsLifecycle, L!Spec
=============================================================================
