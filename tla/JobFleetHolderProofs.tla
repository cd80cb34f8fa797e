----------------------- MODULE JobFleetHolderProofs -----------------------
(* The holders of claimed jobs in JobFleet: the steps that leave Redis     *)
(* alone, and those that write to it: a transaction that commits, the two  *)
(* scripts, and the claim that fills a channel.                            *)
EXTENDS JobFleetTypeProofs

(***************************************************************************)
(* What the operations make of a job.                                      *)
(***************************************************************************)

\* The fields of what an accepted call writes.
LEMMA MutateFields ==
    ASSUME NEW c \in CallRecord, NEW j \in Job \cup {NotStored}, Accepts(c, j),
           c.op # "handle", c.op = "create" => c.job \in Job
    PROVE  LET k == Mutate(c, j)
           IN  /\ k \in Job
               /\ c.op = "create" => j = NotStored /\ k = c.job
               /\ c.op # "create" => j \in Job /\ k.max = j.max
               /\ c.op = "cancel" => /\ j.status \in Pending /\ k.status = "canceled"
                                     /\ k.attempt = j.attempt
               /\ c.op = "retry" => /\ j.status \in {"failed", "canceled"}
                                    /\ k.status = "queued" /\ k.attempt = 0
               /\ c.op = "succeed" => k.status = "succeeded" /\ k.attempt = j.attempt
               /\ c.op = "reschedule" => k.status = "scheduled" /\ k.attempt = j.attempt
               /\ c.op = "fail" => k.status = "failed" /\ k.attempt = j.attempt
<1>1. Mutate(c, j) \in Job
  BY Zenon, MutateType
<1>2. CASE c.op = "create"
  BY Zenon, <1>1, <1>2 DEF Mutate, Accepts
<1>3. CASE c.op \in {"cancel", "retry", "succeed", "reschedule", "fail"}
  <2>1. j \in Job
    BY <1>3 DEF Accepts, NotStored, Pending
  <2>2. c.op = "cancel" => Mutate(c, j) = Canceled(j, c.at) /\ j.status \in Pending
    BY Zenon DEF Mutate, Accepts
  <2>3. c.op = "retry" => Mutate(c, j) = Requeued(j, c.at) /\ j.status \in {"failed", "canceled"}
    BY Zenon DEF Mutate, Accepts
  <2>4. /\ c.op = "succeed" => Mutate(c, j) = Succeeded(j, c.at)
        /\ c.op = "reschedule" => Mutate(c, j) = Rescheduled(j, c.at)
        /\ c.op = "fail" => Mutate(c, j) = Failed(j, c.at)
    BY Zenon DEF Mutate
  <2>5. /\ Canceled(j, c.at).status = "canceled" /\ Canceled(j, c.at).attempt = j.attempt
        /\ Canceled(j, c.at).max = j.max
    BY Zenon, <2>1 DEF Canceled, Job
  <2>6. /\ Requeued(j, c.at).status = "queued" /\ Requeued(j, c.at).attempt = 0
        /\ Requeued(j, c.at).max = j.max
    BY Zenon, <2>1 DEF Requeued, Job
  <2>7. /\ Succeeded(j, c.at).status = "succeeded" /\ Succeeded(j, c.at).attempt = j.attempt
        /\ Succeeded(j, c.at).max = j.max
        /\ Rescheduled(j, c.at).status = "scheduled" /\ Rescheduled(j, c.at).attempt = j.attempt
        /\ Rescheduled(j, c.at).max = j.max
        /\ Failed(j, c.at).status = "failed" /\ Failed(j, c.at).attempt = j.attempt
        /\ Failed(j, c.at).max = j.max
    BY Zenon, <2>1 DEF Succeeded, Rescheduled, Failed, Job
  <2>. QED  BY Zenon, <1>1, <1>3, <2>1, <2>2, <2>3, <2>4, <2>5, <2>6, <2>7
<1>. QED  BY Zenon, <1>2, <1>3, CallFields

\* A claim counts an attempt, keeps the limit and the type, and runs the job.
LEMMA ClaimedFields ==
    ASSUME NEW j \in Job
    PROVE  /\ Claimed(j) \in Job /\ Claimed(j).status = "running"
           /\ Claimed(j).attempt = j.attempt + 1
           /\ Claimed(j).max = j.max /\ Claimed(j).type = j.type
           /\ j.attempt \in Nat /\ j.max \in Nat /\ j.max > 0
<1>1. Claimed(j) \in Job
  BY Zenon, MutationTypes
<1>2. j.attempt \in Nat /\ j.max \in 1..MaxAttemptLimit
  BY Zenon DEF Job, AttemptLimits
<1>3. /\ Claimed(j).status = "running" /\ Claimed(j).attempt = j.attempt + 1
      /\ Claimed(j).max = j.max /\ Claimed(j).type = j.type
  BY Zenon DEF Claimed, Job
<1>. QED  BY <1>1, <1>2, <1>3, JobConstants

(***************************************************************************)
(* Who holds what.                                                         *)
(***************************************************************************)

\* HeldIsCurrent, for the channels and for the workers.
LEMMA HeldCurrent ==
    ASSUME TypeOK, HeldIsCurrent
    PROVE  /\ \A m \in Managers : \A i \in DOMAIN workCh[m] :
                workCh[m][i].job = jobs[workCh[m][i].id] /\ workCh[m][i].job.status = "running"
           /\ \A w \in WorkerIds : proc[w].pc # "idle" =>
                /\ proc[w].call.job = jobs[proc[w].call.id]
                /\ proc[w].call.job.status = "running"
<1>1. ASSUME NEW m \in Managers, NEW i \in DOMAIN workCh[m]
      PROVE  workCh[m][i] \in HeldSnapshots
  BY DEF HeldSnapshots
<1>2. ASSUME NEW w \in WorkerIds, proc[w].pc # "idle"
      PROVE  [id |-> proc[w].call.id, job |-> proc[w].call.job] \in HeldSnapshots
  BY Zenon, <1>2 DEF HeldSnapshots
<1>3. ASSUME NEW w \in WorkerIds, proc[w].pc # "idle"
      PROVE  /\ proc[w].call.job = jobs[proc[w].call.id]
             /\ proc[w].call.job.status = "running"
  <2>. DEFINE s == [id |-> proc[w].call.id, job |-> proc[w].call.job]
  <2>1. s.job = jobs[s.id] /\ s.job.status = "running"
    BY Zenon, <1>2, <1>3 DEF HeldIsCurrent
  <2>. QED  BY Zenon, <2>1
<1>. QED  BY Zenon, <1>1, <1>3 DEF HeldIsCurrent

\* What somebody holds is running.
LEMMA HeldRuns ==
    ASSUME TypeOK, HeldIsCurrent, NEW id, Held(id)
    PROVE  jobs[id].status = "running"
BY HeldCurrent DEF Held, InChannel, InWorker

\* What holds of the holders of jobs.
HoldersInv ==
    /\ SingleHolder /\ HeldIsCurrent /\ HeldIsHandled /\ ReportNeverConflicts /\ FirstTries

\* In this step the worker drops its job, or goes on with it in its first try.
KeepsOrDrops(w) ==
    \/ proc'[w] = Idle
    \/ /\ proc[w].pc # "idle" /\ proc'[w].pc # "idle"
       /\ proc'[w].call.id = proc[w].call.id /\ proc'[w].call.job = proc[w].call.job
       /\ proc'[w].pc \in {"watch", "exec"} => proc'[w].tries = 1
       /\ proc'[w].pc = "exec" => ~proc'[w].dirty

\* A step in which holders keep or drop what they hold, and no job that is
\* still held changes, keeps all of it.
LEMMA HoldersShrink ==
    ASSUME TypeOK, TypeOK', HoldersInv,
           \A m \in Managers : workCh'[m] = workCh[m] \/ workCh'[m] = <<>>,
           \A w \in WorkerIds : KeepsOrDrops(w),
           \A id \in JobIds : jobs'[id] = jobs[id] \/ ~Held(id)'
    PROVE  HoldersInv'
<1>. USE DEF HoldersInv
<1>1. ASSUME NEW m \in Managers, NEW i \in DOMAIN workCh'[m]
      PROVE  /\ i \in DOMAIN workCh[m] /\ workCh'[m][i] = workCh[m][i]
             /\ workCh[m][i].id \in JobIds
  <2>1. workCh'[m] # <<>>
    BY <1>1
  <2>2. workCh'[m] = workCh[m] /\ workCh[m] \in Seq(Snapshot)
    BY Zenon, <2>1 DEF TypeOK
  <2>3. workCh[m][i] \in Snapshot
    BY <1>1, <2>2
  <2>. QED  BY Zenon, <1>1, <2>2, <2>3 DEF Snapshot
<1>2. ASSUME NEW w \in WorkerIds
      PROVE  /\ proc[w] \in ProcState /\ proc'[w] \in ProcState
             /\ proc[w] = Idle <=> proc[w].pc = "idle"
             /\ proc'[w] = Idle <=> proc'[w].pc = "idle"
             /\ proc[w].pc # "idle" => proc[w].call.id \in JobIds
  <2>1. proc[w] \in ProcState /\ proc'[w] \in ProcState
    BY Zenon DEF TypeOK, Procs
  <2>. QED  BY Zenon, <2>1, ProcFields, CallFields
<1>3. ASSUME NEW w \in WorkerIds, proc'[w].pc # "idle"
      PROVE  /\ proc[w].pc # "idle"
             /\ proc'[w].call.id = proc[w].call.id /\ proc'[w].call.job = proc[w].call.job
             /\ proc'[w].pc \in {"watch", "exec"} => proc'[w].tries = 1
             /\ proc'[w].pc = "exec" => ~proc'[w].dirty
  BY Zenon, <1>2, <1>3 DEF KeepsOrDrops
<1>4. SingleHolder'
  <2>1. ASSUME NEW m \in Managers, NEW i \in DOMAIN workCh'[m], NEW id, InChannel(m, i, id)'
        PROVE  i \in DOMAIN workCh[m] /\ InChannel(m, i, id)
    BY Zenon, <1>1, <2>1 DEF InChannel
  <2>2. ASSUME NEW w \in WorkerIds, NEW id, InWorker(w, id)'
        PROVE  InWorker(w, id)
    BY Zenon, <1>3, <2>2 DEF InWorker
  <2>. QED  BY <2>1, <2>2 DEF SingleHolder
<1>5. HeldIsCurrent'
  <2>1. ASSUME NEW m \in Managers, NEW i \in DOMAIN workCh'[m]
        PROVE  /\ workCh'[m][i].job = jobs'[workCh'[m][i].id]
               /\ workCh'[m][i].job.status = "running"
    <3>1. PICK id \in JobIds : id = workCh[m][i].id
      BY Zenon, <1>1, <2>1
    <3>2. Held(id)'
      BY Zenon, <1>1, <2>1, <3>1 DEF Held, InChannel
    <3>. QED  BY <1>1, <2>1, <3>1, <3>2, HeldCurrent
  <2>2. ASSUME NEW w \in WorkerIds, proc'[w].pc # "idle"
        PROVE  /\ proc'[w].call.job = jobs'[proc'[w].call.id]
               /\ proc'[w].call.job.status = "running"
    <3>1. PICK id \in JobIds : id = proc[w].call.id
      BY Zenon, <1>2, <1>3, <2>2
    <3>2. Held(id)'
      BY Zenon, <1>3, <2>2, <3>1 DEF Held, InWorker
    <3>. QED  BY <1>3, <2>2, <3>1, <3>2, HeldCurrent
  <2>. QED  BY <2>1, <2>2 DEF HeldIsCurrent, HeldSnapshots
<1>6. HeldIsHandled'
  BY Zenon, <1>1, <1>2, <1>3 DEF HeldIsHandled
<1>7. ReportNeverConflicts' /\ FirstTries'
  BY Zenon, <1>3 DEF ReportNeverConflicts, FirstTries
<1>. QED  BY Zenon, <1>4, <1>5, <1>6, <1>7

\* A worker that does nothing keeps its job.
LEMMA IdleWorkerKeeps ==
    ASSUME TypeOK, ReportNeverConflicts, FirstTries, NEW w \in WorkerIds, proc'[w] = proc[w]
    PROVE  KeepsOrDrops(w)
<1>1. proc[w] \in ProcState
  BY Zenon DEF TypeOK, Procs
<1>2. proc[w] = Idle <=> proc[w].pc = "idle"
  BY Zenon, <1>1, ProcFields
<1>. QED  BY Zenon, <1>2 DEF KeepsOrDrops, ReportNeverConflicts, FirstTries

(***************************************************************************)
(* Steps that leave Redis alone.                                           *)
(***************************************************************************)

\* Such a step keeps the invariant when holders keep or drop their jobs, a
\* transaction begins from what is stored, and dropping is the work of a fault
\* or of a stop.
LEMMA QuietStep ==
    ASSUME FleetInv, TypeInv', UNCHANGED redis,
           \A m \in Managers : workCh'[m] = workCh[m] \/ workCh'[m] = <<>>,
           \A w \in WorkerIds : KeepsOrDrops(w),
           \A p \in Procs : proc'[p].pc = "exec" =>
              \/ proc'[p] = proc[p]
              \/ /\ Accepts(proc'[p].call, jobs[proc'[p].call.id])
                 /\ proc'[p].write = Mutate(proc'[p].call, jobs[proc'[p].call.id]),
           AllUp', faults' >= faults, stops' >= stops,
           \/ faults' > 0 \/ stops' > 0
           \/ /\ workCh' = workCh
              /\ \A w \in WorkerIds : proc[w].pc # "idle" => proc'[w].pc # "idle"
    PROVE  FleetInv'
<1>1. jobs' = jobs /\ available' = available /\ terminal' = terminal /\ created' = created
  BY Zenon DEF redis
<1>2. TypeOK /\ TypeOK' /\ CallsFit' /\ HoldersInv
  BY Zenon DEF FleetInv, TypeInv, HoldersInv
<1>3. IndexesAgree' /\ AttemptsLeft'
  BY Zenon, <1>1 DEF FleetInv, IndexesAgree, AttemptsLeft
<1>4. CleanWrites'
  BY Zenon, <1>1 DEF FleetInv, CleanWrites
<1>5. HoldersInv'
  BY Zenon, <1>1, <1>2, HoldersShrink
<1>6. OrphansOnlyFromFaults'
  <2>1. SUFFICES ASSUME NEW id \in JobIds, Orphan(id)', ~(faults' > 0 \/ stops' > 0)
                 PROVE  FALSE
    BY Zenon DEF OrphansOnlyFromFaults
  <2>2. ~(faults > 0 \/ stops > 0)
    BY <1>2, <2>1 DEF TypeOK
  <2>3. jobs[id].status = "running"
    BY Zenon, <1>1, <2>1 DEF Orphan
  <2>4. Held(id)
    BY Zenon, <2>2, <2>3 DEF FleetInv, OrphansOnlyFromFaults, Orphan
  <2>5. /\ workCh' = workCh
        /\ \A w \in WorkerIds : proc[w].pc # "idle" => proc'[w].pc # "idle"
    BY Zenon, <2>1
  <2>6. \A w \in WorkerIds : InWorker(w, id) => InWorker(w, id)'
    BY <2>5 DEF InWorker, KeepsOrDrops, Idle
  <2>7. Held(id)'
    BY Zenon, <2>4, <2>5, <2>6 DEF Held, InChannel
  <2>. QED  BY Zenon, <2>1, <2>7 DEF Orphan
<1>. QED  BY Zenon, <1>2, <1>3, <1>4, <1>5, <1>6 DEF FleetInv, HoldersInv

\* One process changes its state: the form most quiet steps have.
LEMMA OneMoves ==
    ASSUME FleetInv, TypeInv', NEW p \in Procs, NEW s, proc' = [proc EXCEPT ![p] = s],
           UNCHANGED <<redis, workCh, mode, stops>>, faults' >= faults,
           p \in WorkerIds => KeepsOrDrops(p) /\ (faults' > 0 \/ stops > 0 \/ proc'[p].pc # "idle"),
           s.pc = "exec" => /\ Accepts(s.call, jobs[s.call.id])
                            /\ s.write = Mutate(s.call, jobs[s.call.id])
    PROVE  FleetInv'
<1>1. /\ TypeOK /\ ReportNeverConflicts /\ FirstTries /\ AllUp
      /\ proc'[p] = s /\ \A q \in Procs : q # p => proc'[q] = proc[q]
  BY Zenon DEF FleetInv, TypeOK
<1>2. \A w \in WorkerIds : KeepsOrDrops(w)
  BY Zenon, <1>1, IdleWorkerKeeps DEF Procs
<1>3. AllUp' /\ stops' >= stops
  BY <1>1 DEF AllUp, TypeOK
<1>4. \A w \in WorkerIds : w \in Procs
  BY Zenon DEF Procs
<1>. QED  BY Zenon, <1>1, <1>2, <1>3, <1>4, QuietStep

\* Clients begin calls, and calls watch, conflict and fail.
LEMMA QuietCalls ==
    ASSUME FleetInv, TypeInv', NEW p \in Procs,
           \/ p \in Clients /\ \E call : ClientCall(p, call)
           \/ Watch(p) \/ ExecConflict(p) \/ CallFails(p)
    PROVE  FleetInv'
<1>. DEFINE c == proc[p].call
<1>1. /\ TypeOK /\ CallsFit /\ HeldIsCurrent /\ ReportNeverConflicts /\ FirstTries /\ AllUp
      /\ proc \in [Procs -> ProcState] /\ faults \in Nat /\ stops \in Nat
      /\ p \in Clients <=> p \notin WorkerIds
  BY Zenon, ClientOrWorker DEF FleetInv, TypeOK
<1>2. ASSUME p \in Clients, NEW call, ClientCall(p, call) PROVE FleetInv'
  <2>1. Begin(call).pc = "watch" /\ faults' >= faults
    BY <1>1, <1>2 DEF Begin, ClientCall
  <2>. QED  BY Zenon, <1>1, <1>2, <2>1, OneMoves DEF ClientCall
<1>3. CASE Watch(p)
  <2>. DEFINE e == [pc |-> "exec", call |-> c, tries |-> proc[p].tries,
                    write |-> Mutate(c, jobs[c.id]), dirty |-> FALSE]
              s == IF Accepts(c, jobs[c.id]) THEN e ELSE Idle
  <2>1. proc[p].pc = "watch" /\ proc' = [proc EXCEPT ![p] = s] /\ proc'[p] = s
    BY Zenon, <1>1, <1>3 DEF Watch
  <2>2. s.pc = "exec" => Accepts(s.call, jobs[s.call.id]) /\ s.write = Mutate(s.call, jobs[s.call.id])
    BY Zenon DEF Idle
  <2>3. ASSUME p \in WorkerIds PROVE s = e /\ KeepsOrDrops(p) /\ proc'[p].pc # "idle"
    <3>1. c.op \in {"succeed", "reschedule", "fail"} /\ c.job \in Job
      BY Zenon, <1>1, <2>1, <2>3, StoreCalls DEF CallsFit, WorkerCallFits
    <3>2. jobs[c.id] = c.job
      BY Zenon, <1>1, <2>1, <2>3, HeldCurrent
    <3>3. Accepts(c, jobs[c.id])
      BY <3>1, <3>2 DEF Accepts, NotStored, Job
    <3>4. s = e /\ proc[p].tries = 1
      BY Zenon, <1>1, <2>1, <2>3, <3>3 DEF FirstTries
    <3>5. /\ proc'[p] = e /\ proc[p].pc = "watch" /\ e.pc = "exec"
          /\ e.call = c /\ e.tries = 1 /\ ~e.dirty
      BY Zenon, <2>1, <3>4
    <3>. HIDE DEF e, s
    <3>. QED  BY Zenon, <3>4, <3>5 DEF KeepsOrDrops
  <2>4. faults' >= faults /\ UNCHANGED <<redis, workCh, mode, stops>>
    BY <1>1, <1>3 DEF Watch
  <2>. HIDE DEF s
  <2>. QED  BY Zenon, <2>1, <2>2, <2>3, <2>4, OneMoves
<1>4. CASE ExecConflict(p)
  <2>1. p \notin WorkerIds
    BY Zenon, <1>1, <1>4 DEF ExecConflict, ReportNeverConflicts
  <2>2. PICK s : proc' = [proc EXCEPT ![p] = s] /\ s.pc # "exec"
    <3>. DEFINE s == IF proc[p].tries < MaxTries
                     THEN [pc |-> "watch", call |-> c, tries |-> proc[p].tries + 1]
                     ELSE Idle
    <3>1. proc' = [proc EXCEPT ![p] = s]
      BY Zenon, <1>1, <1>4 DEF ExecConflict
    <3>2. s.pc # "exec"
      BY Zenon DEF Idle
    <3>. HIDE DEF s
    <3>. QED  BY Zenon, <3>1, <3>2
  <2>3. faults' >= faults /\ UNCHANGED <<redis, workCh, mode, stops>>
    BY <1>1, <1>4 DEF ExecConflict
  <2>. QED  BY Zenon, <2>1, <2>2, <2>3, OneMoves
<1>5. CASE CallFails(p)
  <2>1. proc' = [proc EXCEPT ![p] = Idle] /\ proc'[p] = Idle /\ Idle.pc # "exec"
    BY Zenon, <1>1, <1>5 DEF CallFails, Idle
  <2>2. faults' >= faults /\ UNCHANGED <<redis, workCh, mode, stops>>
    BY <1>1, <1>5 DEF CallFails
  <2>3. ASSUME p \in WorkerIds PROVE KeepsOrDrops(p) /\ (faults' > 0 \/ stops > 0)
    <3>1. p[1] \in Managers
      BY Zenon, <2>3 DEF WorkerIds
    <3>2. faults' > 0 \/ mode[p[1]] # "up"
      BY <1>1, <1>5 DEF CallFails, Reaches
    <3>. QED  BY <1>1, <2>1, <3>1, <3>2 DEF AllUp, KeepsOrDrops
  <2>. QED  BY Zenon, <2>1, <2>2, <2>3, OneMoves
<1>. QED  BY Zenon, <1>2, <1>3, <1>4, <1>5

\* The handler returns and the worker begins its report.
LEMMA QuietReturn ==
    ASSUME FleetInv, TypeInv', NEW w \in WorkerIds, NEW ok \in BOOLEAN, HandlerReturn(w, ok)
    PROVE  FleetInv'
<1>. DEFINE id == proc[w].call.id  job == proc[w].call.job
<1>1. proc \in [Procs -> ProcState] /\ faults \in Nat /\ w \in Procs
  BY Zenon DEF FleetInv, TypeOK, Procs
<1>2. PICK op, at : proc' = [proc EXCEPT ![w] = Begin(Call(op, id, at, job))]
  BY Zenon DEF HandlerReturn
<1>3. proc'[w] = Begin(Call(op, id, at, job))
  BY Zenon, <1>1, <1>2
<1>4. KeepsOrDrops(w) /\ proc'[w].pc # "idle"
  <2>1. proc[w].pc = "handler"
    BY Zenon DEF HandlerReturn
  <2>. QED  BY <1>3, <2>1 DEF KeepsOrDrops, Begin, Call
<1>5. Begin(Call(op, id, at, job)).pc # "exec"
  BY Zenon DEF Begin
<1>6. faults' >= faults /\ UNCHANGED <<redis, workCh, mode, stops>>
  BY <1>1 DEF HandlerReturn
<1>. QED  BY Zenon, <1>1, <1>2, <1>4, <1>5, <1>6, OneMoves

\* Processes stop, crash and come back; time passes.
LEMMA QuietProcesses ==
    ASSUME FleetInv, TypeInv',
           \/ \E m \in Managers : Shutdown(m) \/ Exit(m) \/ Crash(m) \/ Restart(m)
           \/ Tick \/ UNCHANGED vars
    PROVE  FleetInv'
<1>1. /\ TypeOK /\ ReportNeverConflicts /\ FirstTries /\ AllUp
      /\ faults \in Nat /\ stops \in Nat /\ proc \in [Procs -> ProcState]
      /\ mode \in [Managers -> {"up", "stopping", "down"}]
      /\ workCh \in [Managers -> Seq(Snapshot)] /\ WorkerIds \subseteq Procs
  BY Zenon DEF FleetInv, TypeOK, Procs
<1>2. ASSUME UNCHANGED <<redis, workCh, proc, faults>>, AllUp', stops' >= stops
      PROVE  FleetInv'
  <2>1. \A w \in WorkerIds : KeepsOrDrops(w)
    BY Zenon, <1>1, <1>2, IdleWorkerKeeps
  <2>. QED  BY <1>1, <1>2, <2>1, QuietStep
<1>3. ASSUME NEW m \in Managers, Shutdown(m) PROVE FleetInv'
  BY <1>1, <1>2, <1>3 DEF Shutdown, AllUp
<1>4. ASSUME NEW m \in Managers, Restart(m) PROVE FleetInv'
  BY <1>1, <1>2, <1>4 DEF Restart, AllUp
<1>5. CASE Tick \/ UNCHANGED vars
  BY <1>1, <1>2, <1>5 DEF Tick, vars, AllUp
<1>6. ASSUME NEW m \in Managers, workCh' = [workCh EXCEPT ![m] = <<>>],
             UNCHANGED redis, AllUp', faults' >= faults, stops' >= stops, stops' > 0,
             \A p \in Procs : proc'[p] = proc[p] \/ proc'[p] = Idle
      PROVE  FleetInv'
  <2>1. \A n \in Managers : workCh'[n] = workCh[n] \/ workCh'[n] = <<>>
    BY Zenon, <1>1, <1>6
  <2>2. \A w \in WorkerIds : KeepsOrDrops(w)
    BY Zenon, <1>1, <1>6, IdleWorkerKeeps DEF KeepsOrDrops
  <2>3. \A p \in Procs : proc'[p].pc = "exec" => proc'[p] = proc[p]
    BY <1>6 DEF Idle
  <2>. QED  BY Zenon, <1>6, <2>1, <2>2, <2>3, QuietStep
<1>7. ASSUME NEW m \in Managers, Exit(m) PROVE FleetInv'
  <2>1. stops' > 0 /\ stops' = stops
    BY <1>1, <1>7 DEF Exit, AllUp
  <2>2. AllUp'
    BY <1>1, <2>1 DEF AllUp
  <2>3. \A p \in Procs : proc'[p] = proc[p] \/ proc'[p] = Idle
    BY Zenon, <1>7 DEF Exit
  <2>4. workCh' = [workCh EXCEPT ![m] = <<>>] /\ UNCHANGED redis /\ faults' >= faults /\ stops' >= stops
    BY <1>1, <1>7 DEF Exit
  <2>. QED  BY Zenon, <1>6, <2>1, <2>2, <2>3, <2>4
<1>8. ASSUME NEW m \in Managers, Crash(m) PROVE FleetInv'
  <2>1. stops' > 0 /\ stops' >= stops
    BY <1>1, <1>8 DEF Crash
  <2>2. AllUp'
    BY <1>1, <2>1 DEF AllUp
  <2>3. \A p \in Procs : proc'[p] = proc[p] \/ proc'[p] = Idle
    BY Zenon, <1>8 DEF Crash
  <2>4. workCh' = [workCh EXCEPT ![m] = <<>>] /\ UNCHANGED redis /\ faults' >= faults
    BY <1>1, <1>8 DEF Crash
  <2>. QED  BY Zenon, <1>6, <2>1, <2>2, <2>3, <2>4
<1>. QED  BY Zenon, <1>3, <1>4, <1>5, <1>7, <1>8

(***************************************************************************)
(* Steps that write to Redis.                                              *)
(***************************************************************************)

\* Watching works: a write leaves no undisturbed transaction on a changed job.
LEMMA TouchedClean ==
    ASSUME FleetInv, NEW P \in [Procs -> ProcState], NEW ids, proc' = Touch(P, ids),
           \A p \in Procs : P[p] = proc[p] \/ P[p] = Idle,
           \A id \in JobIds : id \notin ids => jobs'[id] = jobs[id]
    PROVE  CleanWrites'
<1>. SUFFICES ASSUME NEW p \in Procs, proc'[p].pc = "exec", ~proc'[p].dirty
              PROVE  /\ Accepts(proc'[p].call, jobs'[proc'[p].call.id])
                     /\ proc'[p].write = Mutate(proc'[p].call, jobs'[proc'[p].call.id])
  BY Zenon DEF CleanWrites
<1>1. P[p].pc = "exec" /\ P[p].call.id \notin ids /\ proc'[p] = P[p]
  BY TouchFacts
<1>2. proc'[p] = proc[p]
  BY <1>1 DEF Idle
<1>3. proc[p].call.id \in JobIds
  <2>1. proc[p] \in ProcState
    BY Zenon DEF FleetInv, TypeOK
  <2>. QED  BY Zenon, <1>1, <1>2, <2>1, ProcFields, CallFields
<1>4. jobs'[proc[p].call.id] = jobs[proc[p].call.id]
  BY Zenon, <1>1, <1>2, <1>3
<1>. QED  BY Zenon, <1>2, <1>4 DEF FleetInv, CleanWrites

\* A write to jobs nobody holds afterwards keeps the invariant, when only lost
\* answers leave one of them running.
LEMMA WriteStep ==
    ASSUME FleetInv, TypeInv', IndexesAgree', AttemptsLeft',
           NEW P \in [Procs -> ProcState], NEW ids, proc' = Touch(P, ids),
           \A p \in Procs : P[p] = proc[p] \/ P[p] = Idle,
           \A id \in JobIds : id \notin ids => jobs'[id] = jobs[id],
           UNCHANGED <<workCh, mode, stops>>, faults' >= faults,
           \A m \in Managers : \A i \in DOMAIN workCh[m] : workCh[m][i].id \notin ids,
           \A w \in WorkerIds : P[w].pc # "idle" => P[w].call.id \notin ids,
           \A w \in WorkerIds : P[w] # proc[w] => proc[w].call.id \in ids,
           faults' > 0 \/ \A id \in JobIds : id \in ids => jobs'[id].status # "running"
    PROVE  FleetInv'
<1>1. /\ TypeOK /\ TypeOK' /\ CallsFit' /\ HoldersInv /\ AllUp
      /\ ReportNeverConflicts /\ FirstTries /\ WorkerIds \subseteq Procs
  BY Zenon DEF FleetInv, TypeInv, HoldersInv, Procs
<1>2. \A w \in WorkerIds : proc'[w] = P[w]
  BY <1>1, TouchFacts DEF Idle
<1>3. ASSUME NEW w \in WorkerIds PROVE KeepsOrDrops(w)
  <2>1. CASE P[w] = proc[w]
    BY Zenon, <1>1, <1>2, <2>1, IdleWorkerKeeps
  <2>2. CASE P[w] = Idle
    BY Zenon, <1>2, <2>2 DEF KeepsOrDrops
  <2>. QED  BY Zenon, <1>1, <2>1, <2>2
<1>4. ASSUME NEW id, Held(id)' PROVE id \notin ids
  BY <1>2, <1>4 DEF Held, InChannel, InWorker
<1>5. HoldersInv'
  BY Zenon, <1>1, <1>3, <1>4, HoldersShrink
<1>6. CleanWrites'
  BY Zenon, TouchedClean
<1>7. AllUp'
  BY Zenon, <1>1 DEF AllUp
<1>8. OrphansOnlyFromFaults'
  <2>1. SUFFICES ASSUME NEW id \in JobIds, Orphan(id)', ~(faults' > 0 \/ stops' > 0)
                 PROVE  FALSE
    BY Zenon DEF OrphansOnlyFromFaults
  <2>2. ~(faults > 0 \/ stops > 0)
    BY <1>1, <2>1 DEF TypeOK
  <2>3. id \notin ids /\ jobs[id].status = "running"
    BY Zenon, <2>1 DEF Orphan
  <2>4. Held(id)
    BY Zenon, <2>2, <2>3 DEF FleetInv, OrphansOnlyFromFaults, Orphan
  <2>5. \A w \in WorkerIds : InWorker(w, id) => InWorker(w, id)'
    BY <1>2, <2>3 DEF InWorker
  <2>6. Held(id)'
    BY Zenon, <2>4, <2>5 DEF Held, InChannel
  <2>. QED  BY Zenon, <2>1, <2>6 DEF Orphan
<1>. QED  BY Zenon, <1>1, <1>5, <1>6, <1>7, <1>8 DEF FleetInv, HoldersInv

(***************************************************************************)
(* The steps that write to Redis.                                          *)
(***************************************************************************)

\* The indexes follow a job that is written with SetJob.
LEMMA SetJobIndexes ==
    ASSUME TypeOK, IndexesAgree, NEW id \in JobIds, NEW k \in Job, SetJob(id, k)
    PROVE  IndexesAgree'
<1>1. k # NotStored
  BY DEF Job, NotStored
<1>. QED  BY Zenon, <1>1 DEF IndexesAgree, SetJob, SyncIndexes, TypeOK

\* What a transaction that commits does to the stored job.
LEMMA ExecWrites ==
    ASSUME FleetInv, NEW p \in Procs, Exec(p)
    PROVE  LET c == proc[p].call
               j == jobs[c.id]
               k == Mutate(c, j)
           IN  /\ c \in CallRecord /\ c.id \in JobIds /\ j \in Job \cup {NotStored}
               /\ Accepts(c, j) /\ proc[p].write = k /\ jobs' = [jobs EXCEPT ![c.id] = k]
               /\ c.op # "handle"
               /\ c.op = "create" =>
                    c.job \in Job /\ c.job.status \in Pending /\ c.job.attempt = 0
               /\ p \in WorkerIds => /\ c.op \in {"succeed", "reschedule", "fail"}
                                     /\ j = c.job /\ j.status = "running"
               /\ p \notin WorkerIds => c.op \in {"create", "cancel", "retry"}
               /\ c.op = "reschedule" => j.attempt < j.max
               /\ c.op = "fail" => ~(j.attempt < j.max)
<1>. DEFINE c == proc[p].call
<1>1. TypeOK /\ CallsFit /\ CleanWrites /\ HeldIsCurrent /\ proc[p].pc = "exec" /\ ~proc[p].dirty
  BY Zenon DEF FleetInv, Exec
<1>2. /\ c \in CallRecord /\ c.op # "handle" /\ proc[p] # Idle
      /\ p \notin WorkerIds => c.op \in {"create", "cancel", "retry"}
      /\ p \in WorkerIds => c.op \in {"succeed", "reschedule", "fail"}
  BY Zenon, <1>1, StoreCalls, ClientOrWorker
<1>3. c.id \in JobIds
  BY Zenon, <1>2, CallFields
<1>4. jobs[c.id] \in Job \cup {NotStored}
  BY Zenon, <1>1, <1>3 DEF TypeOK
<1>5. Accepts(c, jobs[c.id]) /\ proc[p].write = Mutate(c, jobs[c.id])
  BY Zenon, <1>1 DEF CleanWrites
<1>6. jobs' = [jobs EXCEPT ![c.id] = Mutate(c, jobs[c.id])]
  BY Zenon, <1>5 DEF Exec, SetJob
<1>7. ASSUME p \in WorkerIds
      PROVE  /\ jobs[c.id] = c.job /\ jobs[c.id].status = "running"
             /\ c.op = "reschedule" => c.job.attempt < c.job.max
             /\ c.op = "fail" => ~(c.job.attempt < c.job.max)
  <2>1. jobs[c.id] = c.job /\ jobs[c.id].status = "running"
    BY Zenon, <1>1, <1>7, HeldCurrent
  <2>. QED  BY Zenon, <1>1, <1>2, <1>7, <2>1 DEF CallsFit, WorkerCallFits, Retries
<1>8. c.op = "create" => c.job \in Job /\ c.job.status \in Pending /\ c.job.attempt = 0
  BY Zenon, <1>1, <1>2, ClientOrWorker DEF CallsFit, ClientCallFits
<1>. QED  BY Zenon, <1>2, <1>3, <1>4, <1>5, <1>6, <1>7, <1>8

\* A transaction that commits.
LEMMA ExecStep ==
    ASSUME FleetInv, TypeInv', NEW p \in Procs, Exec(p)
    PROVE  FleetInv'
<1>. DEFINE c == proc[p].call  j == jobs[c.id]  k == Mutate(c, j)
            P == [proc EXCEPT ![p] = Idle]
<1>1. /\ c \in CallRecord /\ c.id \in JobIds /\ j \in Job \cup {NotStored}
      /\ Accepts(c, j) /\ proc[p].write = k /\ jobs' = [jobs EXCEPT ![c.id] = k]
      /\ c.op # "handle"
      /\ c.op = "create" => c.job \in Job /\ c.job.status \in Pending /\ c.job.attempt = 0
      /\ p \in WorkerIds => /\ c.op \in {"succeed", "reschedule", "fail"}
                            /\ j = c.job /\ j.status = "running"
      /\ p \notin WorkerIds => c.op \in {"create", "cancel", "retry"}
      /\ c.op = "reschedule" => j.attempt < j.max
  BY Zenon, ExecWrites
<1>2. /\ k \in Job
      /\ c.op = "create" => j = NotStored /\ k = c.job
      /\ c.op # "create" => j \in Job /\ k.max = j.max
      /\ c.op = "cancel" => j.status \in Pending /\ k.status = "canceled" /\ k.attempt = j.attempt
      /\ c.op = "retry" => /\ j.status \in {"failed", "canceled"}
                           /\ k.status = "queued" /\ k.attempt = 0
      /\ c.op = "succeed" => k.status = "succeeded" /\ k.attempt = j.attempt
      /\ c.op = "reschedule" => k.status = "scheduled" /\ k.attempt = j.attempt
      /\ c.op = "fail" => k.status = "failed" /\ k.attempt = j.attempt
  BY Zenon, <1>1, MutateFields
<1>3. /\ TypeOK /\ IndexesAgree /\ AttemptsLeft /\ SingleHolder /\ HeldIsCurrent
      /\ proc[p].pc = "exec" /\ proc \in [Procs -> ProcState] /\ WorkerIds \subseteq Procs
      /\ jobs \in [JobIds -> Job \cup {NotStored}] /\ faults \in Nat
  BY Zenon DEF FleetInv, TypeOK, Exec, Procs
<1>4. P \in [Procs -> ProcState] /\ P[p] = Idle /\ \A q \in Procs : q # p => P[q] = proc[q]
  BY Zenon, <1>3, IdleState
<1>5. /\ proc' = Touch(P, {c.id}) /\ SetJob(c.id, k)
      /\ UNCHANGED <<workCh, mode, stops, faults>>
  BY Zenon, <1>1 DEF Exec
<1>. HIDE DEF k, j, P
<1>6. IndexesAgree'
  BY Zenon, <1>1, <1>2, <1>3, <1>5, SetJobIndexes
<1>7. k.status # "running" /\ k.attempt <= k.max /\ (k.status \in Pending => k.attempt < k.max)
  <2>1. k.attempt \in Nat /\ k.max \in Nat /\ k.max > 0
    BY Zenon, <1>2, ClaimedFields
  <2>2. j \in Job => j.attempt \in Nat /\ j.attempt <= j.max
    <3>1. j \in Job => j # NotStored
      BY DEF NotStored, Job
    <3>2. j \in Job => j.attempt \in Nat
      BY Zenon, ClaimedFields
    <3>. QED  BY Zenon, <1>1, <1>3, <3>1, <3>2 DEF AttemptsLeft, j
  <2>. QED  BY <1>1, <1>2, <2>1, <2>2, CallFields DEF Pending
<1>8. AttemptsLeft'
  BY Zenon, <1>1, <1>3, <1>7 DEF AttemptsLeft
<1>9. ASSUME p \notin WorkerIds PROVE ~Held(c.id)
  <2>1. j.status # "running"
    BY <1>1, <1>2, <1>9 DEF Pending, NotStored
  <2>. QED  BY Zenon, <1>3, <2>1, HeldRuns DEF j
<1>10. \A m \in Managers : \A i \in DOMAIN workCh[m] : workCh[m][i].id \notin {c.id}
  <2>1. CASE p \in WorkerIds
    BY Zenon, <1>1, <1>3, <2>1 DEF SingleHolder, InChannel, InWorker
  <2>2. CASE p \notin WorkerIds
    BY Zenon, <1>9, <2>2 DEF Held, InChannel
  <2>. QED  BY Zenon, <2>1, <2>2
<1>11. \A w \in WorkerIds : P[w].pc # "idle" => P[w].call.id \notin {c.id}
  <2>1. CASE p \in WorkerIds
    BY <1>1, <1>3, <1>4, <2>1 DEF SingleHolder, InWorker, Idle
  <2>2. CASE p \notin WorkerIds
    BY Zenon, <1>3, <1>4, <1>9, <2>2 DEF Held, InWorker
  <2>. QED  BY Zenon, <2>1, <2>2
<1>12. /\ \A q \in Procs : P[q] = proc[q] \/ P[q] = Idle
       /\ \A w \in WorkerIds : P[w] # proc[w] => proc[w].call.id \in {c.id}
  BY Zenon, <1>3, <1>4
<1>13. /\ \A id \in JobIds : id \notin {c.id} => jobs'[id] = jobs[id]
       /\ \A id \in JobIds : id \in {c.id} => jobs'[id].status # "running"
  BY Zenon, <1>1, <1>3, <1>7
<1>14. faults' >= faults
  BY <1>3, <1>5
<1>. QED
  BY Zenon, <1>4, <1>5, <1>6, <1>8, <1>10, <1>11, <1>12, <1>13, <1>14, WriteStep

\* What the claim script does: with indexes that agree nothing dangles.
LEMMA ClaimWrites ==
    ASSUME FleetInv, NEW m \in Managers, ClaimStep(m)
    PROVE  LET ids == Claimable(now, FreeSlots(m), HandlerTypes[m])
           IN  /\ ids \subseteq JobIds
               /\ \A id \in ids : /\ jobs[id] \in Job /\ jobs[id].status \in Pending
                                  /\ jobs[id].type \in HandlerTypes[m]
                                  /\ jobs[id].attempt < jobs[id].max
                                  /\ jobs'[id] = Claimed(jobs[id]) /\ ~Held(id)
               /\ \A id \in JobIds : id \notin ids => jobs'[id] = jobs[id]
               /\ IndexesAgree' /\ AttemptsLeft'
<1>. DEFINE ids == Claimable(now, FreeSlots(m), HandlerTypes[m])
<1>1. /\ TypeOK /\ IndexesAgree /\ AttemptsLeft /\ HeldIsCurrent
      /\ jobs \in [JobIds -> Job \cup {NotStored}]
  BY Zenon DEF FleetInv, TypeOK
<1>2. ids \subseteq JobIds /\ \A id \in ids : jobs[id].status \in Pending
  BY Zenon DEF Claimable, Scanned, Ready
<1>3. \A id \in ids : jobs[id].type \in HandlerTypes[m]
  <2>1. HandlerTypes[m] # {}
    BY Zenon, FleetConstants
  <2>. QED  BY Zenon, <2>1 DEF Claimable
<1>4. Dangling(now, FreeSlots(m)) = {}
  <2>1. \A id \in JobIds : available[id] # NoTime => jobs[id].status \in Pending
    BY Zenon, <1>1 DEF IndexesAgree, AvailableScore
  <2>. QED  BY Zenon, <2>1 DEF Dangling, Scanned, Ready
<1>5. ClaimReady(now, FreeSlots(m), HandlerTypes[m])
  BY Zenon DEF ClaimStep
<1>. HIDE DEF ids
<1>6. /\ jobs' = [id \in JobIds |-> IF id \in ids THEN Claimed(jobs[id]) ELSE jobs[id]]
      /\ available' = [id \in JobIds |-> IF id \in ids THEN NoTime ELSE available[id]]
      /\ UNCHANGED <<terminal, created>>
  BY Zenon, <1>4, <1>5 DEF ClaimReady, ids
<1>7. ASSUME NEW id \in ids
      PROVE  /\ jobs[id] \in Job /\ jobs[id] # NotStored /\ jobs[id].attempt < jobs[id].max
             /\ Claimed(jobs[id]) # NotStored /\ jobs'[id] = Claimed(jobs[id]) /\ ~Held(id)
             /\ Claimed(jobs[id]).attempt <= Claimed(jobs[id]).max
             /\ Claimed(jobs[id]).status = "running"
  <2>1. jobs[id] \in Job /\ jobs[id] # NotStored
    BY <1>1, <1>2, <1>7 DEF NotStored, Pending
  <2>2. jobs[id].attempt < jobs[id].max
    BY Zenon, <1>1, <1>2, <1>7, <2>1 DEF AttemptsLeft
  <2>3. ~Held(id)
    BY Zenon, <1>1, <1>2, <1>7, HeldRuns DEF Pending
  <2>4. jobs'[id] = Claimed(jobs[id])
    BY Zenon, <1>2, <1>6, <1>7
  <2>5. /\ Claimed(jobs[id]) # NotStored /\ Claimed(jobs[id]).status = "running"
        /\ Claimed(jobs[id]).attempt <= Claimed(jobs[id]).max
    BY <2>1, <2>2, ClaimedFields DEF NotStored
  <2>. QED  BY Zenon, <2>1, <2>2, <2>3, <2>4, <2>5
<1>8. \A id \in JobIds : id \notin ids => jobs'[id] = jobs[id]
  BY Zenon, <1>6
<1>9. IndexesAgree'
  <2>1. ASSUME NEW id \in ids
        PROVE  /\ available'[id] = AvailableScore(jobs'[id])
               /\ terminal'[id] = TerminalScore(jobs'[id])
               /\ id \in created' <=> jobs'[id] # NotStored
    BY Zenon, <1>1, <1>2, <1>6, <1>7, <2>1
       DEF IndexesAgree, AvailableScore, TerminalScore, Pending, Terminal
  <2>2. ASSUME NEW id \in JobIds, id \notin ids
        PROVE  /\ available'[id] = AvailableScore(jobs'[id])
               /\ terminal'[id] = TerminalScore(jobs'[id])
               /\ id \in created' <=> jobs'[id] # NotStored
    BY Zenon, <1>1, <1>6, <1>8, <2>2 DEF IndexesAgree
  <2>. QED  BY Zenon, <2>1, <2>2 DEF IndexesAgree
<1>10. AttemptsLeft'
  BY Zenon, <1>1, <1>7, <1>8 DEF AttemptsLeft, Pending
<1>. QED  BY Zenon, <1>2, <1>3, <1>7, <1>8, <1>9, <1>10 DEF ids

\* The janitor prunes, or the answer of a claim is lost.
LEMMA ScriptSteps ==
    ASSUME FleetInv, TypeInv', NEW m \in Managers, Prune(m) \/ ClaimAnswerLost(m)
    PROVE  FleetInv'
<1>1. /\ TypeOK /\ IndexesAgree /\ AttemptsLeft /\ HeldIsCurrent /\ faults \in Nat
      /\ proc \in [Procs -> ProcState] /\ WorkerIds \subseteq Procs
  BY Zenon DEF FleetInv, TypeOK, Procs
<1>2. ASSUME NEW ids, proc' = Touch(proc, ids), IndexesAgree', AttemptsLeft',
             \A id \in ids : ~Held(id),
             \A id \in JobIds : id \notin ids => jobs'[id] = jobs[id],
             UNCHANGED <<workCh, mode, stops>>, faults' >= faults,
             faults' > 0 \/ \A id \in JobIds : id \in ids => jobs'[id].status # "running"
      PROVE  FleetInv'
  <2>1. /\ \A n \in Managers : \A i \in DOMAIN workCh[n] : workCh[n][i].id \notin ids
        /\ \A w \in WorkerIds : proc[w].pc # "idle" => proc[w].call.id \notin ids
    BY Zenon, <1>2 DEF Held, InChannel, InWorker
  <2>. QED  BY Zenon, <1>1, <1>2, <2>1, WriteStep
<1>3. CASE ClaimAnswerLost(m)
  <2>. DEFINE ids == Claimable(now, FreeSlots(m), HandlerTypes[m])
  <2>1. /\ \A id \in ids : ~Held(id)
        /\ \A id \in JobIds : id \notin ids => jobs'[id] = jobs[id]
        /\ IndexesAgree' /\ AttemptsLeft'
    BY Zenon, <1>3, ClaimWrites DEF ClaimAnswerLost
  <2>2. /\ proc' = Touch(proc, ids) /\ UNCHANGED <<workCh, mode, stops>>
        /\ faults' >= faults /\ faults' > 0
    BY <1>1, <1>3 DEF ClaimAnswerLost, ClaimStep
  <2>. HIDE DEF ids
  <2>. QED  BY Zenon, <1>2, <2>1, <2>2
<1>4. CASE Prune(m)
  <2>. DEFINE ids == Expired(now - Retention)
  <2>1. /\ proc' = Touch(proc, ids) /\ UNCHANGED <<workCh, mode, stops>> /\ faults' >= faults
    BY <1>1, <1>4 DEF Prune
  <2>2. \A id \in ids : id \in JobIds /\ jobs[id].status \in Terminal
    BY Zenon, <1>1 DEF Expired, IndexesAgree, TerminalScore
  <2>3. \A id \in ids : ~Held(id)
    BY Zenon, <1>1, <2>2, HeldRuns DEF Terminal
  <2>4. PruneTerminalBefore(now - Retention)
    BY Zenon, <1>4 DEF Prune
  <2>. HIDE DEF ids
  <2>5. /\ jobs' = [id \in JobIds |-> IF id \in ids THEN NotStored ELSE jobs[id]]
        /\ available' = [id \in JobIds |-> IF id \in ids THEN NoTime ELSE available[id]]
        /\ terminal' = [id \in JobIds |-> IF id \in ids THEN NoTime ELSE terminal[id]]
        /\ created' = created \ ids
    BY Zenon, <2>4 DEF PruneTerminalBefore, ids
  <2>6. IndexesAgree'
    BY Zenon, <1>1, <2>5 DEF IndexesAgree, AvailableScore, TerminalScore, NotStored, Pending, Terminal
  <2>7. AttemptsLeft'
    BY Zenon, <1>1, <2>5 DEF AttemptsLeft
  <2>8. \A id \in JobIds : id \in ids => jobs'[id].status # "running"
    BY Zenon, <2>5 DEF NotStored
  <2>9. \A id \in JobIds : id \notin ids => jobs'[id] = jobs[id]
    BY Zenon, <2>5
  <2>. QED  BY Zenon, <1>2, <2>1, <2>3, <2>6, <2>7, <2>8, <2>9
<1>. QED  BY Zenon, <1>3, <1>4

\* The script returns every claimed job once.
LEMMA ListingOnce ==
    ASSUME TypeOK, NEW at, NEW limit, NEW types,
           NEW s \in Listings(Claimable(at, limit, types))
    PROVE  /\ s \in Seq(Snapshot)
           /\ \A n \in DOMAIN s :
                s[n].id \in Claimable(at, limit, types) /\ s[n].job = Claimed(jobs[s[n].id])
           /\ \A n, k \in DOMAIN s : s[n].id = s[k].id => n = k
           /\ \A id \in Claimable(at, limit, types) : \E n \in DOMAIN s : s[n].id = id
<1>. DEFINE ids == Claimable(at, limit, types)
<1>1. /\ s \in Seq(Snapshot)
      /\ \A n \in DOMAIN s : s[n].id \in ids /\ s[n].job = Claimed(jobs[s[n].id])
  BY ListingType DEF TypeOK, StoreTypeOK
<1>2. \A id \in ids : id \in Nat /\ available[id] \in Nat
  BY Zenon, JobConstants DEF Claimable, Scanned, Ready, TypeOK
<1>3. \A id \in ids : ~IndexedBefore(id, id)
  BY <1>2 DEF IndexedBefore
<1>4. /\ \A id \in ids : \E n \in DOMAIN s : s[n].id = id
      /\ \A n, k \in DOMAIN s : n < k => IndexedBefore(s[n].id, s[k].id)
  BY Zenon DEF Listings
<1>. HIDE DEF ids
<1>5. ASSUME NEW n \in DOMAIN s, NEW k \in DOMAIN s, s[n].id = s[k].id PROVE n = k
  <2>1. n \in Nat /\ k \in Nat
    BY <1>1
  <2>2. ~(n < k) /\ ~(k < n)
    BY Zenon, <1>1, <1>3, <1>4, <1>5
  <2>. QED  BY <2>1, <2>2
<1>. QED  BY Zenon, <1>1, <1>4, <1>5 DEF ids

\* Where the members of a channel are after more were sent.
LEMMA Appended ==
    ASSUME TypeOK, NEW m \in Managers, NEW s \in Seq(Snapshot),
           workCh' = [workCh EXCEPT ![m] = @ \o s]
    PROVE  /\ \A n \in Managers : \A i \in DOMAIN workCh'[n] :
                \/ i \in DOMAIN workCh[n] /\ workCh'[n][i] = workCh[n][i]
                \/ /\ n = m /\ i - Len(workCh[m]) \in DOMAIN s
                   /\ workCh'[n][i] = s[i - Len(workCh[m])]
           /\ \A n \in Managers : \A i \in DOMAIN workCh[n] :
                i \in DOMAIN workCh'[n] /\ workCh'[n][i] = workCh[n][i]
           /\ \A k \in DOMAIN s : /\ Len(workCh[m]) + k \in DOMAIN workCh'[m]
                                  /\ workCh'[m][Len(workCh[m]) + k] = s[k]
<1>1. workCh \in [Managers -> Seq(Snapshot)] /\ workCh[m] \in Seq(Snapshot)
  BY Zenon DEF TypeOK
<1>2. workCh'[m] = workCh[m] \o s /\ \A n \in Managers : n # m => workCh'[n] = workCh[n]
  BY Zenon, <1>1
<1>. DEFINE ch == workCh[m]
<1>3. /\ \A i \in DOMAIN (ch \o s) :
           \/ i \in DOMAIN ch /\ (ch \o s)[i] = ch[i]
           \/ i - Len(ch) \in DOMAIN s /\ (ch \o s)[i] = s[i - Len(ch)]
      /\ \A i \in DOMAIN ch : i \in DOMAIN (ch \o s) /\ (ch \o s)[i] = ch[i]
      /\ \A k \in DOMAIN s : Len(ch) + k \in DOMAIN (ch \o s) /\ (ch \o s)[Len(ch) + k] = s[k]
  <2>1. ch \in Seq(Snapshot)
    BY Zenon, <1>1
  <2>. HIDE DEF ch
  <2>. QED  BY <2>1
<1>. QED  BY <1>2, <1>3

\* The dispatcher claims jobs and sends them to its workers.
LEMMA ClaimHolds ==
    ASSUME FleetInv, TypeInv', NEW m \in Managers, Claim(m)
    PROVE  FleetInv'
<1>. DEFINE ids == Claimable(now, FreeSlots(m), HandlerTypes[m])
            L0 == Len(workCh[m])
<1>1. /\ TypeOK /\ TypeOK' /\ CallsFit' /\ SingleHolder /\ HeldIsCurrent /\ HeldIsHandled
      /\ ReportNeverConflicts /\ FirstTries /\ AllUp /\ OrphansOnlyFromFaults
      /\ proc \in [Procs -> ProcState] /\ WorkerIds \subseteq Procs
  BY Zenon DEF FleetInv, TypeInv, TypeOK, Procs
<1>2. PICK s \in Listings(ids) : workCh' = [workCh EXCEPT ![m] = @ \o s]
  BY Zenon DEF Claim
<1>3. ClaimStep(m) /\ proc' = Touch(proc, ids) /\ UNCHANGED <<mode, stops, faults>>
  BY Zenon DEF Claim, ClaimStep
<1>4. /\ ids \subseteq JobIds
      /\ \A id \in ids : /\ jobs[id] \in Job /\ jobs[id].type \in HandlerTypes[m]
                         /\ jobs'[id] = Claimed(jobs[id]) /\ ~Held(id)
      /\ \A id \in JobIds : id \notin ids => jobs'[id] = jobs[id]
      /\ IndexesAgree' /\ AttemptsLeft'
  BY Zenon, <1>3, ClaimWrites
<1>5. /\ s \in Seq(Snapshot)
      /\ \A n \in DOMAIN s : s[n].id \in ids /\ s[n].job = Claimed(jobs[s[n].id])
      /\ \A n, k \in DOMAIN s : s[n].id = s[k].id => n = k
      /\ \A id \in ids : \E n \in DOMAIN s : s[n].id = id
  BY <1>1, <1>2, ListingOnce
<1>. HIDE DEF ids
<1>6. /\ \A n \in Managers : \A i \in DOMAIN workCh'[n] :
           \/ i \in DOMAIN workCh[n] /\ workCh'[n][i] = workCh[n][i]
           \/ n = m /\ i - L0 \in DOMAIN s /\ workCh'[n][i] = s[i - L0]
      /\ \A n \in Managers : \A i \in DOMAIN workCh[n] :
           i \in DOMAIN workCh'[n] /\ workCh'[n][i] = workCh[n][i]
      /\ \A k \in DOMAIN s : L0 + k \in DOMAIN workCh'[m] /\ workCh'[m][L0 + k] = s[k]
  BY Zenon, <1>1, <1>2, <1>5, Appended
<1>7. /\ \A n \in Managers : workCh'[n] \in Seq(Snapshot) /\ L0 \in Nat
      /\ \A n \in Managers : \A i \in DOMAIN workCh'[n] : i \in Nat
  <2>1. \A n \in Managers : workCh'[n] \in Seq(Snapshot) /\ workCh[m] \in Seq(Snapshot)
    BY Zenon, <1>1 DEF TypeOK
  <2>. QED  BY <2>1
<1>. HIDE DEF L0
<1>8. \A w \in WorkerIds : proc'[w] = proc[w]
  BY <1>1, <1>3, <1>4, TouchFacts DEF Held, InWorker
<1>9. SingleHolder'
  <2>1. ASSUME NEW n \in Managers, NEW i \in DOMAIN workCh'[n], NEW id, InChannel(n, i, id)'
        PROVE  \/ i \in DOMAIN workCh[n] /\ InChannel(n, i, id) /\ id \notin ids
               \/ n = m /\ i - L0 \in DOMAIN s /\ s[i - L0].id = id /\ id \in ids
    BY <1>4, <1>5, <1>6, <2>1 DEF InChannel, Held
  <2>2. ASSUME NEW w \in WorkerIds, NEW id, InWorker(w, id)'
        PROVE  InWorker(w, id) /\ id \notin ids
    BY Zenon, <1>4, <1>8, <2>2 DEF InWorker, Held
  <2>3. ASSUME NEW i \in Nat, NEW k \in Nat, i - L0 = k - L0 PROVE i = k
    BY <1>7, <2>3
  <2>4. ASSUME NEW id \in JobIds, NEW n1 \in Managers, NEW n2 \in Managers,
               NEW i \in DOMAIN workCh'[n1], NEW k \in DOMAIN workCh'[n2],
               InChannel(n1, i, id)', InChannel(n2, k, id)'
        PROVE  n1 = n2 /\ i = k
    <3>1. CASE id \in ids
      <4>1. n1 = m /\ i - L0 \in DOMAIN s /\ s[i - L0].id = id
        BY Zenon, <2>1, <2>4, <3>1
      <4>2. n2 = m /\ k - L0 \in DOMAIN s /\ s[k - L0].id = id
        BY Zenon, <2>1, <2>4, <3>1
      <4>3. i - L0 = k - L0
        BY Zenon, <1>5, <4>1, <4>2
      <4>4. i \in Nat /\ k \in Nat
        BY Zenon, <1>7, <2>4
      <4>. QED  BY Zenon, <2>3, <4>1, <4>2, <4>3, <4>4
    <3>2. CASE id \notin ids
      BY Zenon, <1>1, <2>1, <2>4, <3>2 DEF SingleHolder
    <3>. QED  BY Zenon, <3>1, <3>2
  <2>. QED  BY Zenon, <1>1, <2>1, <2>2, <2>4 DEF SingleHolder
<1>10. HeldIsCurrent'
  <2>1. ASSUME NEW n \in Managers, NEW i \in DOMAIN workCh'[n]
        PROVE  /\ workCh'[n][i].job = jobs'[workCh'[n][i].id]
               /\ workCh'[n][i].job.status = "running"
    <3>1. CASE i \in DOMAIN workCh[n] /\ workCh'[n][i] = workCh[n][i]
      <4>1. workCh[n][i].id \notin ids
        BY Zenon, <1>4, <3>1 DEF Held, InChannel
      <4>2. workCh[n][i].id \in JobIds
        <5>1. workCh[n] \in Seq(Snapshot)
          BY Zenon, <1>1 DEF TypeOK
        <5>2. workCh[n][i] \in Snapshot
          BY <3>1, <5>1
        <5>. QED  BY Zenon, <5>2 DEF Snapshot
      <4>. QED  BY <1>1, <1>4, <3>1, <4>1, <4>2, HeldCurrent
    <3>2. CASE n = m /\ i - L0 \in DOMAIN s /\ workCh'[n][i] = s[i - L0]
      BY <1>4, <1>5, <3>2, ClaimedFields
    <3>. QED  BY Zenon, <1>6, <2>1, <3>1, <3>2
  <2>2. ASSUME NEW w \in WorkerIds, proc'[w].pc # "idle"
        PROVE  /\ proc'[w].call.job = jobs'[proc'[w].call.id]
               /\ proc'[w].call.job.status = "running"
    <3>1. proc[w].call.id \notin ids
      BY Zenon, <1>4, <1>8, <2>2 DEF Held, InWorker
    <3>2. proc[w].call.id \in JobIds
      BY Zenon, <1>1, <1>8, <2>2, ProcFields, CallFields
    <3>. QED  BY <1>1, <1>4, <1>8, <2>2, <3>1, <3>2, HeldCurrent
  <2>. QED  BY <2>1, <2>2 DEF HeldIsCurrent, HeldSnapshots
<1>11. HeldIsHandled'
  <2>1. ASSUME NEW n \in Managers, NEW i \in DOMAIN workCh'[n]
        PROVE  workCh'[n][i].job.type \in HandlerTypes[n]
    <3>1. CASE i \in DOMAIN workCh[n] /\ workCh'[n][i] = workCh[n][i]
      BY Zenon, <1>1, <3>1 DEF HeldIsHandled
    <3>2. CASE n = m /\ i - L0 \in DOMAIN s /\ workCh'[n][i] = s[i - L0]
      BY <1>4, <1>5, <3>2, ClaimedFields
    <3>. QED  BY Zenon, <1>6, <2>1, <3>1, <3>2
  <2>. QED  BY Zenon, <1>1, <1>8, <2>1 DEF HeldIsHandled
<1>12. ReportNeverConflicts' /\ FirstTries' /\ AllUp'
  BY Zenon, <1>1, <1>3, <1>8 DEF ReportNeverConflicts, FirstTries, AllUp
<1>13. CleanWrites'
  BY Zenon, <1>1, <1>3, <1>4, TouchedClean
<1>14. OrphansOnlyFromFaults'
  <2>1. SUFFICES ASSUME NEW id \in JobIds, Orphan(id)' PROVE faults > 0 \/ stops > 0
    BY Zenon, <1>3 DEF OrphansOnlyFromFaults
  <2>2. id \in ids => Held(id)'
    BY <1>5, <1>6 DEF Held, InChannel
  <2>3. Held(id) => Held(id)'
    BY <1>6, <1>8 DEF Held, InChannel, InWorker
  <2>4. Orphan(id)
    BY Zenon, <1>4, <2>1, <2>2, <2>3 DEF Orphan
  <2>. QED  BY Zenon, <1>1, <2>4 DEF OrphansOnlyFromFaults
<1>. QED
  BY Zenon, <1>1, <1>4, <1>9, <1>10, <1>11, <1>12, <1>13, <1>14 DEF FleetInv
=============================================================================
