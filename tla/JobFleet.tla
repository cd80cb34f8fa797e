------------------------------ MODULE JobFleet ------------------------------
(***************************************************************************)
(* Several processes, each with a jobs Manager, that share one RedisStore, *)
(* and clients that submit, cancel and retry jobs from anywhere.  What is  *)
(* new over JobManager: an update is WATCH, read, EXEC and may conflict;   *)
(* a call may fail, or succeed and lose its answer; a process may crash;   *)
(* and a runtime whose context is done can no longer reach the store.      *)
(*                                                                         *)
(* Inside a process the runtime is coarser than in JobManager, which has   *)
(* its own restarts: one scan of the dispatcher is one step.               *)
(***************************************************************************)
EXTENDS RedisStore, Sequences

CONSTANTS
    Managers,       \* processes that run a Manager
    Workers,        \* the workers of each
    Clients,        \* callers of Enqueue, CancelJob and RetryJob
    HandlerTypes,   \* manager -> the types it has handlers for
    QueueBuffer,    \* capacity of workCh
    Retention, RetryDelay,
    MaxTries,       \* tries of Create and updateJob (5 in the code)
    MaxTime,        \* bound: the clock, and every due time
    MaxFaults,      \* bound: Redis calls that fail or lose their answer
    MaxStops        \* bound: shutdowns and crashes

ASSUME FleetConstants ==
    /\ HandlerTypes \in [Managers -> (SUBSET Types) \ {{}}]
    /\ QueueBuffer \in Nat \ {0} /\ Retention \in Nat \ {0} /\ MaxTries \in Nat \ {0}
    /\ RetryDelay \in [0..MaxAttemptLimit -> Nat]
    /\ MaxTime \in Nat /\ MaxFaults \in Nat /\ MaxStops \in Nat
    /\ Clients \cap (Managers \X Workers) = {}

WorkerIds == Managers \X Workers

Procs == Clients \cup WorkerIds

VARIABLES
    workCh,         \* manager -> its channel of claimed jobs
    mode,           \* manager -> "up", "stopping" (context done) or "down"
    proc,           \* client or worker -> the call it is in
    now, faults, stops

vars == <<redis, workCh, mode, proc, now, faults, stops>>

Idle == [pc |-> "idle"]

Init ==
    /\ RedisInit
    /\ workCh = [m \in Managers |-> <<>>]
    /\ mode = [m \in Managers |-> "up"]
    /\ proc = [p \in Procs |-> Idle]
    /\ now = 0 /\ faults = 0 /\ stops = 0

-----------------------------------------------------------------------------
(* One optimistic update.  A call names the operation, the job, the time   *)
(* it uses and the job it carries: the new one, or the claimed copy.       *)

Call(op, id, at, job) == [op |-> op, id |-> id, at |-> at, job |-> job]

\* Mutant: a running job can be canceled.
AcceptsCancelOfRunning(c, j) ==
    CASE c.op = "create" -> j = NotStored
      [] c.op = "cancel" -> j.status \in Pending \cup {"running"}
      [] c.op = "retry"  -> j.status \in {"failed", "canceled"}
      [] OTHER           -> j # NotStored

\* The checks made on what was read; a refusal ends the call with an error.
Accepts(c, j) ==
    CASE c.op = "create" -> j = NotStored
      [] c.op = "cancel" -> j.status \in Pending
      [] c.op = "retry"  -> j.status \in {"failed", "canceled"}
      [] OTHER           -> j # NotStored

Mutate(c, j) ==
    CASE c.op = "create"     -> c.job
      [] c.op = "cancel"     -> Canceled(j, c.at)
      [] c.op = "retry"      -> Requeued(j, c.at)
      [] c.op = "succeed"    -> Succeeded(j, c.at)
      [] c.op = "reschedule" -> Rescheduled(j, c.at)
      [] c.op = "fail"       -> Failed(j, c.at)

Begin(call) == [pc |-> "watch", call |-> call, tries |-> 1]

\* Commands with a context that is done fail; clients have their own contexts.
Reaches(p) == p \in WorkerIds => mode[p[1]] = "up"

\* WATCH and read.
Watch(p) ==
    LET c == proc[p].call
        j == jobs[c.id]
    IN  /\ proc[p].pc = "watch"
        /\ Reaches(p)
        /\ proc' = [proc EXCEPT ![p] =
              IF Accepts(c, j)
              THEN [pc |-> "exec", call |-> c, tries |-> proc[p].tries,
                    write |-> Mutate(c, j), dirty |-> FALSE]
              ELSE Idle]
        /\ UNCHANGED <<redis, workCh, mode, now, faults, stops>>

\* Mutant: keys written by a script do not disturb the watchers.
TouchNothing(states, ids) == states

\* A write to a watched key makes the EXEC of every watcher fail.
Touch(states, ids) ==
    [q \in Procs |->
        IF states[q].pc = "exec" /\ states[q].call.id \in ids
        THEN [states[q] EXCEPT !.dirty = TRUE] ELSE states[q]]

\* EXEC of an undisturbed transaction.  (Whether its answer arrives makes no
\* difference to what follows: the caller ends either way.)
Exec(p) ==
    /\ proc[p].pc = "exec" /\ ~proc[p].dirty
    /\ SetJob(proc[p].call.id, proc[p].write)
    /\ proc' = Touch([proc EXCEPT ![p] = Idle], {proc[p].call.id})
    /\ UNCHANGED <<workCh, mode, now, faults, stops>>

\* EXEC answers TxFailedErr: start over, and give up after MaxTries.
ExecConflict(p) ==
    /\ proc[p].pc = "exec" /\ proc[p].dirty
    /\ proc' = [proc EXCEPT ![p] =
          IF @.tries < MaxTries
          THEN [pc |-> "watch", call |-> @.call, tries |-> @.tries + 1]
          ELSE Idle]
    /\ UNCHANGED <<redis, workCh, mode, now, faults, stops>>

\* A command fails, because of the network or because the context is done.  A
\* worker gives the job up where it is.
CallFails(p) ==
    /\ proc[p].pc \in {"watch", "exec"}
    /\ \/ Reaches(p) /\ faults < MaxFaults /\ faults' = faults + 1
       \/ ~Reaches(p) /\ UNCHANGED faults
    /\ proc' = [proc EXCEPT ![p] = Idle]
    /\ UNCHANGED <<redis, workCh, mode, now, stops>>

-----------------------------------------------------------------------------
(* Client calls.                                                           *)

ClientCall(c, call) ==
    /\ proc[c] = Idle
    /\ proc' = [proc EXCEPT ![c] = Begin(call)]
    /\ UNCHANGED <<redis, workCh, mode, now, faults, stops>>

Enqueue(c, id, type, max, runAfter) ==
    ClientCall(c, Call("create", id, now, NewJob(type, max, runAfter, now)))

CancelJob(c, id) == ClientCall(c, Call("cancel", id, now, NotStored))

\* (Bound: the last tick of the clock is left for the managers to drain.)
RetryJob(c, id) ==
    /\ now < MaxTime
    /\ ClientCall(c, Call("retry", id, now, NotStored))

-----------------------------------------------------------------------------
(* The dispatcher and the janitor of a manager.                            *)

FreeSlots(m) == QueueBuffer - Len(workCh[m])

\* The claimed jobs as the script returns them, in the order of the index: no
\* more than were asked for, and never more than the channel holds.
Listings(ids) ==
    {s \in UNION {[1..n -> {[id |-> i, job |-> Claimed(jobs[i])] : i \in ids}] :
                    n \in 0..QueueBuffer} :
        /\ \A i \in ids : \E n \in DOMAIN s : s[n].id = i
        /\ \A n, k \in DOMAIN s : n < k => IndexedBefore(s[n].id, s[k].id)}

ClaimStep(m) ==
    LET ids == Claimable(now, FreeSlots(m), HandlerTypes[m])
    IN  /\ mode[m] = "up" /\ FreeSlots(m) > 0
        /\ ClaimReady(now, FreeSlots(m), HandlerTypes[m])
        /\ proc' = Touch(proc, ids)
        /\ UNCHANGED <<mode, now, stops>>

Claim(m) ==
    /\ ClaimStep(m)
    /\ \E s \in Listings(Claimable(now, FreeSlots(m), HandlerTypes[m])) :
         workCh' = [workCh EXCEPT ![m] = @ \o s]
    /\ UNCHANGED faults

\* The script has run and its answer is lost.
ClaimAnswerLost(m) ==
    /\ ClaimStep(m)
    /\ faults < MaxFaults /\ faults' = faults + 1
    /\ UNCHANGED workCh

Prune(m) ==
    /\ mode[m] = "up"
    /\ PruneTerminalBefore(now - Retention)
    /\ proc' = Touch(proc, Expired(now - Retention))
    /\ UNCHANGED <<workCh, mode, now, faults, stops>>

-----------------------------------------------------------------------------
(* The workers.  A worker whose context is done may still take a job:      *)
(* select picks any ready case.                                            *)

Take(w) ==
    /\ proc[w] = Idle /\ mode[w[1]] # "down" /\ workCh[w[1]] # <<>>
    /\ LET s == Head(workCh[w[1]])
       IN  proc' = [proc EXCEPT ![w] =
                      [pc |-> "handler", call |-> Call("handle", s.id, now, s.job)]]
    /\ workCh' = [workCh EXCEPT ![w[1]] = Tail(@)]
    /\ UNCHANGED <<redis, mode, now, faults, stops>>

\* Mutant: one retry too many.
RetriesOnceMore(job) == job.attempt <= job.max

Retries(job) == job.attempt < job.max

\* (Bound: a retry that would fall beyond MaxTime is not explored.)
HandlerReturn(w, ok) ==
    LET id  == proc[w].call.id
        job == proc[w].call.job
        due == now + RetryDelay[job.attempt]
    IN  /\ proc[w].pc = "handler"
        /\ \/ ok /\ proc' = [proc EXCEPT ![w] = Begin(Call("succeed", id, now, job))]
           \/ /\ ~ok /\ Retries(job) /\ due <= MaxTime
              /\ proc' = [proc EXCEPT ![w] = Begin(Call("reschedule", id, due, job))]
           \/ /\ ~ok /\ ~Retries(job)
              /\ proc' = [proc EXCEPT ![w] = Begin(Call("fail", id, now, job))]
        /\ UNCHANGED <<redis, workCh, mode, now, faults, stops>>

-----------------------------------------------------------------------------
(* Processes stop, crash and come back; time passes.                       *)

\* Stop, or the end of the context given to Start.
Shutdown(m) ==
    /\ mode[m] = "up" /\ stops < MaxStops
    /\ mode' = [mode EXCEPT ![m] = "stopping"]
    /\ stops' = stops + 1
    /\ UNCHANGED <<redis, workCh, proc, now, faults>>

\* The workers have returned; what is left in workCh goes with the process.
Exit(m) ==
    /\ mode[m] = "stopping"
    /\ \A w \in WorkerIds : w[1] = m => proc[w] = Idle
    /\ mode' = [mode EXCEPT ![m] = "down"]
    /\ workCh' = [workCh EXCEPT ![m] = <<>>]
    /\ UNCHANGED <<redis, proc, now, faults, stops>>

Crash(m) ==
    /\ mode[m] # "down" /\ stops < MaxStops
    /\ mode' = [mode EXCEPT ![m] = "down"]
    /\ workCh' = [workCh EXCEPT ![m] = <<>>]
    /\ proc' = [p \in Procs |-> IF p \in WorkerIds /\ p[1] = m THEN Idle ELSE proc[p]]
    /\ stops' = stops + 1
    /\ UNCHANGED <<redis, now, faults>>

Restart(m) ==
    /\ mode[m] = "down"
    /\ mode' = [mode EXCEPT ![m] = "up"]
    /\ UNCHANGED <<redis, workCh, proc, now, faults, stops>>

Tick ==
    /\ now < MaxTime
    /\ now' = now + 1
    /\ UNCHANGED <<redis, workCh, mode, proc, faults, stops>>

Next ==
    \/ \E c \in Clients, id \in JobIds :
         \/ CancelJob(c, id) \/ RetryJob(c, id)
         \/ \E t \in Types, max \in AttemptLimits, runAfter \in 0..MaxTime :
              Enqueue(c, id, t, max, runAfter)
    \/ \E p \in Procs : Watch(p) \/ Exec(p) \/ ExecConflict(p) \/ CallFails(p)
    \/ \E m \in Managers :
         \/ Claim(m) \/ ClaimAnswerLost(m) \/ Prune(m)
         \/ Shutdown(m) \/ Exit(m) \/ Crash(m) \/ Restart(m)
    \/ \E w \in WorkerIds : Take(w) \/ \E ok \in BOOLEAN : HandlerReturn(w, ok)
    \/ Tick

Spec == Init /\ [][Next]_vars

(***************************************************************************)
(* Fairness.  Tickers keep firing, goroutines that can run do, handlers    *)
(* return, Redis answers, time passes.  Nothing is assumed of clients,     *)
(* of shutdowns, crashes and restarts, or of pruning.                      *)
(***************************************************************************)
Fairness ==
    /\ WF_vars(Tick)
    /\ \A m \in Managers : WF_vars(Claim(m)) /\ WF_vars(Exit(m))
    /\ \A p \in Procs : WF_vars(Watch(p) \/ Exec(p) \/ ExecConflict(p) \/ CallFails(p))
    /\ \A w \in WorkerIds :
         WF_vars(Take(w)) /\ WF_vars(\E ok \in BOOLEAN : HandlerReturn(w, ok))

FairSpec == Spec /\ Fairness

-----------------------------------------------------------------------------
(* Who holds a claimed job.                                                *)

InChannel(m, i, id) == workCh[m][i].id = id

InWorker(w, id) == proc[w].pc # "idle" /\ proc[w].call.id = id

Held(id) ==
    \/ \E m \in Managers : \E i \in DOMAIN workCh[m] : InChannel(m, i, id)
    \/ \E w \in WorkerIds : InWorker(w, id)

HeldSnapshots ==
    (UNION {{workCh[m][i] : i \in DOMAIN workCh[m]} : m \in Managers})
      \cup {[id |-> proc[w].call.id, job |-> proc[w].call.job] :
              w \in {v \in WorkerIds : proc[v].pc # "idle"}}

\* Running, and nobody will ever report its end.
Orphan(id) == jobs[id].status = "running" /\ ~Held(id)

-----------------------------------------------------------------------------
(* Properties.                                                             *)

CallRecord ==
    [op  : {"create", "cancel", "retry", "handle", "succeed", "reschedule", "fail"},
     id  : JobIds, at : Nat, job : Job \cup {NotStored}]

ProcState ==
    [pc : {"idle"}]
      \cup [pc : {"handler"}, call : CallRecord]
      \cup [pc : {"watch"}, call : CallRecord, tries : 1..MaxTries]
      \cup [pc : {"exec"}, call : CallRecord, tries : 1..MaxTries,
            write : Job, dirty : BOOLEAN]

\* Every variable holds a value of its type.
TypeOK ==
    /\ jobs \in [JobIds -> Job \cup {NotStored}]
    /\ available \in [JobIds -> Nat \cup {NoTime}]
    /\ terminal \in [JobIds -> Nat \cup {NoTime}]
    /\ created \in SUBSET JobIds
    /\ workCh \in [Managers -> Seq(Snapshot)]
    /\ mode \in [Managers -> {"up", "stopping", "down"}]
    /\ proc \in [Procs -> ProcState]
    /\ now \in Nat /\ faults \in Nat /\ stops \in Nat

\* The three indexes say what the job records say, at every moment: a waiting
\* job can be found by a claim, a finished one by the janitor, and every stored
\* one by List and Stats.
IndexesAgree ==
    \A id \in JobIds :
        /\ available[id] = AvailableScore(jobs[id])
        /\ terminal[id] = TerminalScore(jobs[id])
        /\ id \in created <=> jobs[id] # NotStored

\* A claimed job is in one channel slot or with one worker of one process.
SingleHolder ==
    \A id \in JobIds :
        /\ \A m, n \in Managers : \A i \in DOMAIN workCh[m], k \in DOMAIN workCh[n] :
             InChannel(m, i, id) /\ InChannel(n, k, id) => m = n /\ i = k
        /\ \A v, w \in WorkerIds : InWorker(v, id) /\ InWorker(w, id) => v = w
        /\ \A m \in Managers, w \in WorkerIds : \A i \in DOMAIN workCh[m] :
             ~(InChannel(m, i, id) /\ InWorker(w, id))

\* No client call, claim or prune changes a job while some process holds it,
\* so the copy its worker decides on is the job in Redis.
HeldIsCurrent ==
    \A s \in HeldSnapshots : s.job = jobs[s.id] /\ s.job.status = "running"

\* The update with which a worker reports the end of its job never conflicts:
\* the five tries of updateJob cannot run out on it.
ReportNeverConflicts ==
    \A w \in WorkerIds : proc[w].pc = "exec" => ~proc[w].dirty /\ proc[w].tries = 1

\* The claim filter works: a process never holds a job of another service.
HeldIsHandled ==
    /\ \A m \in Managers : \A i \in DOMAIN workCh[m] :
         workCh[m][i].job.type \in HandlerTypes[m]
    /\ \A w \in WorkerIds : proc[w] # Idle => proc[w].call.job.type \in HandlerTypes[w[1]]

\* A job is orphaned only by a lost call, a shutdown or a crash.
OrphansOnlyFromFaults ==
    \A id \in JobIds : Orphan(id) => faults > 0 \/ stops > 0

\* An orphan is never recovered: it is not claimed again, and CancelJob,
\* RetryJob and the janitor all leave it alone.
OrphansStay ==
    [][\A id \in JobIds : Orphan(id) => jobs'[id] = jobs[id]]_vars

\* A scheduled job starts less than a millisecond before it is due at most,
\* whatever the truncation of scores does.
NeverAMillisecondEarly ==
    [][\A id \in JobIds :
         jobs[id].status \in Pending /\ jobs'[id].status = "running"
           => jobs[id].availableAt < now + TicksPerMs]_vars

\* The janitor keeps a finished job for the retention, less a millisecond at
\* most.
RetainedToTheMillisecond ==
    [][\A id \in JobIds :
         jobs[id] # NotStored /\ jobs'[id] = NotStored
           => jobs[id].completedAt + Retention < now + TicksPerMs]_vars

SomeManagerUp == \E m \in Managers : mode[m] = "up"

Settled(id) == jobs[id].status \in Terminal \cup {"absent"}

\* A waiting job settles or is orphaned as long as one process stays up: the
\* shutdown or crash of the others does not keep it waiting.
SurvivorsFinish ==
    \A id \in JobIds :
        jobs[id].status \in Pending ~> (Settled(id) \/ Orphan(id) \/ ~SomeManagerUp)

Served(id) ==
    /\ jobs[id].status \in Pending
    /\ \E m \in Managers : mode[m] = "up" /\ jobs[id].type \in HandlerTypes[m]

\* A manager that is up claims the due jobs it has handlers for, whatever jobs
\* of other services wait in the shared namespace.
ServicesShareNamespace == \A id \in JobIds : Served(id) ~> ~Served(id)

-----------------------------------------------------------------------------
(* The fleet implements the job lifecycle too.                             *)

life ==
    [id \in JobIds |->
        [status  |-> jobs[id].status,
         attempt |-> IF jobs[id] = NotStored THEN 0 ELSE jobs[id].attempt,
         max     |-> IF jobs[id] = NotStored THEN 0 ELSE jobs[id].max]]

L == INSTANCE JobLifecycle WITH JobIds <- JobIds, life <- life

\* Every step moves every job along an edge of the lifecycle, or not at all.
ImplementsLifecycle == L!Spec

-----------------------------------------------------------------------------
(* The inductive invariant of the proofs.                                  *)

\* Clients submit, cancel and retry; what they submit has not been tried yet.
ClientCallFits(s) ==
    s # Idle =>
      /\ s.pc \in {"watch", "exec"}
      /\ s.call.op \in {"create", "cancel", "retry"}
      /\ s.call.op = "create" =>
           s.call.job \in Job /\ s.call.job.status \in Pending /\ s.call.job.attempt = 0

\* Workers handle a job and report on it: a retry when attempts are left, a
\* failure when there are none.
WorkerCallFits(s) ==
    s # Idle =>
      /\ s.call.job \in Job
      /\ IF s.pc = "handler" THEN s.call.op = "handle"
         ELSE s.call.op \in {"succeed", "reschedule", "fail"}
      /\ s.call.op = "reschedule" => Retries(s.call.job)
      /\ s.call.op = "fail" => ~Retries(s.call.job)

CallsFit ==
    /\ \A c \in Clients : ClientCallFits(proc[c])
    /\ \A w \in WorkerIds : WorkerCallFits(proc[w])

\* A transaction that was not disturbed writes what its call makes of the job
\* as it is stored now.
CleanWrites ==
    \A p \in Procs : proc[p].pc = "exec" /\ ~proc[p].dirty =>
        /\ Accepts(proc[p].call, jobs[proc[p].call.id])
        /\ proc[p].write = Mutate(proc[p].call, jobs[proc[p].call.id])

\* A waiting job has an attempt left, and none was tried too often.
AttemptsLeft ==
    \A id \in JobIds : jobs[id] # NotStored =>
        /\ jobs[id].attempt <= jobs[id].max
        /\ jobs[id].status \in Pending => jobs[id].attempt < jobs[id].max

\* A worker is in the first try of its report.
FirstTries == \A w \in WorkerIds : proc[w].pc = "watch" => proc[w].tries = 1

\* Nobody is down who was not stopped.
AllUp == stops = 0 => \A m \in Managers : mode[m] = "up"

\* What the steps of clients, managers, workers and of Redis keep together: the
\* stated invariants need each other and the facts above.
FleetInv ==
    /\ TypeOK /\ CallsFit /\ IndexesAgree /\ CleanWrites /\ AttemptsLeft
    /\ SingleHolder /\ HeldIsCurrent /\ HeldIsHandled
    /\ ReportNeverConflicts /\ FirstTries /\ AllUp /\ OrphansOnlyFromFaults
=============================================================================
