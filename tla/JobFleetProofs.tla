--------------------------- MODULE JobFleetProofs ---------------------------
(* The invariants of JobFleet and the lifecycle it implements, for every   *)
(* value of its constants.                                                 *)
EXTENDS JobFleetHolderProofs

\* A worker takes the head of the channel.
LEMMA TakeHolds ==
    ASSUME FleetInv, TypeInv', NEW w \in WorkerIds, Take(w)
    PROVE  FleetInv'
<1>. DEFINE m == w[1]  ch == workCh[m]  h == Head(ch)
            t == [pc |-> "handler", call |-> Call("handle", h.id, now, h.job)]
<1>1. /\ TypeOK /\ TypeOK' /\ CallsFit' /\ SingleHolder /\ HeldIsCurrent /\ HeldIsHandled
      /\ ReportNeverConflicts /\ FirstTries /\ AllUp /\ OrphansOnlyFromFaults
      /\ proc \in [Procs -> ProcState] /\ workCh \in [Managers -> Seq(Snapshot)]
      /\ w \in Procs /\ WorkerIds \subseteq Procs /\ m \in Managers
  BY Zenon DEF FleetInv, TypeInv, TypeOK, Procs, WorkerIds
<1>2. /\ proc[w] = Idle /\ ch # <<>> /\ proc' = [proc EXCEPT ![w] = t]
      /\ workCh' = [workCh EXCEPT ![m] = Tail(ch)]
      /\ UNCHANGED <<redis, mode, faults, stops>>
  BY DEF Take
<1>3. /\ ch \in Seq(Snapshot) /\ 1 \in DOMAIN ch /\ h = ch[1]
      /\ \A i \in DOMAIN Tail(ch) : i \in Nat /\ i + 1 \in DOMAIN ch /\ i + 1 # 1 /\ Tail(ch)[i] = ch[i + 1]
      /\ \A i \in DOMAIN ch : i = 1 \/ (i - 1 \in DOMAIN Tail(ch) /\ Tail(ch)[i - 1] = ch[i])
  <2>1. ch \in Seq(Snapshot) /\ ch # <<>>
    BY Zenon, <1>1, <1>2
  <2>. HIDE DEF ch
  <2>. QED  BY <2>1
<1>4. /\ proc'[w] = t /\ \A v \in WorkerIds : v # w => proc'[v] = proc[v]
      /\ \A p \in Procs : proc'[p].pc = "exec" => proc'[p] = proc[p]
      /\ t.pc = "handler" /\ t.call.id = h.id /\ t.call.job = h.job
      /\ proc[w].pc = "idle"
  BY <1>1, <1>2 DEF Call, Idle
<1>5. workCh'[m] = Tail(ch) /\ \A n \in Managers : n # m => workCh'[n] = workCh[n]
  BY <1>1, <1>2
<1>6. jobs' = jobs /\ available' = available /\ terminal' = terminal /\ created' = created
  BY <1>2 DEF redis
<1>. HIDE DEF h, t
<1>7. ASSUME NEW n \in Managers, NEW i \in DOMAIN workCh'[n]
      PROVE  \E k \in DOMAIN workCh[n] : /\ workCh'[n][i] = workCh[n][k] /\ (n = m => k # 1)
                                         /\ k = (IF n = m THEN i + 1 ELSE i)
  BY Zenon, <1>3, <1>5, <1>7
<1>8. InChannel(m, 1, h.id)
  BY <1>3 DEF InChannel
<1>9. /\ h.job = jobs[h.id] /\ h.job.status = "running" /\ h.job.type \in HandlerTypes[m]
  BY <1>1, <1>3, HeldCurrent DEF HeldIsHandled
<1>. HIDE DEF m, ch
<1>10. SingleHolder'
  <2>1. ASSUME NEW n \in Managers, NEW i \in DOMAIN workCh'[n], NEW id, InChannel(n, i, id)'
        PROVE  \E k \in DOMAIN workCh[n] : /\ InChannel(n, k, id) /\ (n = m => k # 1)
                                           /\ k = (IF n = m THEN i + 1 ELSE i)
    BY <1>7, <2>1 DEF InChannel
  <2>2. ASSUME NEW v \in WorkerIds, NEW id, InWorker(v, id)'
        PROVE  (v = w /\ id = h.id) \/ (v # w /\ InWorker(v, id))
    BY <1>4, <2>2 DEF InWorker
  <2>3. ASSUME NEW id \in JobIds, NEW n1 \in Managers, NEW n2 \in Managers,
               NEW i \in DOMAIN workCh'[n1], NEW k \in DOMAIN workCh'[n2],
               InChannel(n1, i, id)', InChannel(n2, k, id)'
        PROVE  n1 = n2 /\ i = k
    <3>1. PICK i1 \in DOMAIN workCh[n1] :
             InChannel(n1, i1, id) /\ i1 = (IF n1 = m THEN i + 1 ELSE i)
      BY <2>1, <2>3
    <3>2. PICK k1 \in DOMAIN workCh[n2] :
             InChannel(n2, k1, id) /\ k1 = (IF n2 = m THEN k + 1 ELSE k)
      BY <2>1, <2>3
    <3>3. n1 = n2 /\ i1 = k1
      BY Zenon, <1>1, <3>1, <3>2 DEF SingleHolder
    <3>4. workCh'[n1] \in Seq(Snapshot) /\ workCh'[n2] \in Seq(Snapshot)
      BY <1>1 DEF TypeOK
    <3>5. i \in Nat /\ k \in Nat
      BY <2>3, <3>4
    <3>. QED  BY <3>1, <3>2, <3>3, <3>5
  <2>4. ASSUME NEW id \in JobIds, NEW u \in WorkerIds, NEW v \in WorkerIds,
               InWorker(u, id)', InWorker(v, id)'
        PROVE  u = v
    BY <1>1, <1>3, <1>8, <2>2, <2>4 DEF SingleHolder, m, ch
  <2>5. ASSUME NEW id \in JobIds, NEW n \in Managers, NEW v \in WorkerIds,
               NEW i \in DOMAIN workCh'[n], InChannel(n, i, id)', InWorker(v, id)'
        PROVE  FALSE
    <3>1. PICK k \in DOMAIN workCh[n] : InChannel(n, k, id) /\ (n = m => k # 1)
      BY Zenon, <2>1, <2>5
    <3>2. CASE v = w /\ id = h.id
      BY <1>1, <1>3, <1>8, <3>1, <3>2 DEF SingleHolder, m, ch
    <3>3. CASE v # w /\ InWorker(v, id)
      BY Zenon, <1>1, <3>1, <3>3 DEF SingleHolder
    <3>. QED  BY <2>2, <2>5, <3>2, <3>3
  <2>. QED  BY <2>3, <2>4, <2>5 DEF SingleHolder
<1>11. HeldIsCurrent' /\ HeldIsHandled'
  <2>1. ASSUME NEW n \in Managers, NEW i \in DOMAIN workCh'[n]
        PROVE  /\ workCh'[n][i].job = jobs'[workCh'[n][i].id]
               /\ workCh'[n][i].job.status = "running"
               /\ workCh'[n][i].job.type \in HandlerTypes[n]
    BY <1>1, <1>6, <1>7, <2>1, HeldCurrent DEF HeldIsHandled
  <2>2. ASSUME NEW v \in WorkerIds, proc'[v].pc # "idle"
        PROVE  /\ proc'[v].call.job = jobs'[proc'[v].call.id]
               /\ proc'[v].call.job.status = "running"
               /\ proc'[v].call.job.type \in HandlerTypes[v[1]]
    <3>1. CASE v = w
      BY Zenon, <1>4, <1>6, <1>9, <3>1 DEF m
    <3>2. CASE v # w
      <4>1. proc'[v] = proc[v] /\ proc[v] # Idle
        BY <1>4, <2>2, <3>2 DEF Idle
      <4>. QED  BY Zenon, <1>1, <1>6, <2>2, <4>1, HeldCurrent DEF HeldIsHandled
    <3>. QED  BY <3>1, <3>2
  <2>3. \A v \in WorkerIds : proc'[v] # Idle => proc'[v].pc # "idle"
    <3>1. \A v \in WorkerIds : proc'[v] \in ProcState
      BY Zenon, <1>1 DEF TypeOK
    <3>. QED  BY Zenon, <3>1, ProcFields
  <2>. QED  BY <2>1, <2>2, <2>3 DEF HeldIsCurrent, HeldSnapshots, HeldIsHandled
<1>12. ReportNeverConflicts' /\ FirstTries' /\ AllUp'
  BY Zenon, <1>1, <1>2, <1>4 DEF ReportNeverConflicts, FirstTries, AllUp
<1>13. CleanWrites' /\ IndexesAgree' /\ AttemptsLeft'
  BY Zenon, <1>4, <1>6 DEF FleetInv, CleanWrites, IndexesAgree, AttemptsLeft
<1>14. OrphansOnlyFromFaults'
  <2>1. SUFFICES ASSUME NEW id \in JobIds, Orphan(id)' PROVE faults > 0 \/ stops > 0
    BY <1>2 DEF OrphansOnlyFromFaults
  <2>2. ASSUME NEW n \in Managers, NEW i \in DOMAIN workCh[n], InChannel(n, i, id) PROVE Held(id)'
    <3>1. CASE n = m /\ i = 1
      BY Zenon, <1>3, <1>4, <2>2, <3>1 DEF InChannel, InWorker, Held, m, ch
    <3>2. CASE ~(n = m /\ i = 1)
      <4>1. \E k \in DOMAIN workCh'[n] : workCh'[n][k] = workCh[n][i]
        <5>1. CASE n = m
          <6>1. i \in DOMAIN ch /\ ch[i] = workCh[n][i] /\ i # 1
            BY Zenon, <2>2, <3>2, <5>1 DEF ch
          <6>2. i - 1 \in DOMAIN Tail(ch) /\ Tail(ch)[i - 1] = ch[i]
            BY <1>3, <6>1
          <6>3. workCh'[n] = Tail(ch)
            BY <1>5, <5>1
          <6>. QED  BY <6>1, <6>2, <6>3
        <5>2. CASE n # m
          BY Zenon, <1>5, <2>2, <5>2
        <5>. QED  BY <5>1, <5>2
      <4>. QED  BY Zenon, <2>2, <4>1 DEF InChannel, Held
    <3>. QED  BY Zenon, <3>1, <3>2
  <2>3. ASSUME NEW v \in WorkerIds, InWorker(v, id) PROVE Held(id)'
    <3>1. v # w
      BY Zenon, <1>4, <2>3 DEF InWorker
    <3>. QED  BY Zenon, <1>4, <2>3, <3>1 DEF InWorker, Held
  <2>4. Orphan(id)
    BY Zenon, <1>6, <2>1, <2>2, <2>3 DEF Orphan, Held
  <2>. QED  BY <1>1, <2>4 DEF OrphansOnlyFromFaults
<1>. QED
  BY Zenon, <1>1, <1>10, <1>11, <1>12, <1>13, <1>14 DEF FleetInv

(***************************************************************************)
(* The theorems.                                                           *)
(***************************************************************************)

\* The initial state satisfies the invariant.
LEMMA InitInv == Init => FleetInv
<1>. SUFFICES ASSUME Init PROVE FleetInv
  OBVIOUS
<1>1. TypeOK /\ CallsFit
  BY InitTypes DEF TypeInv
<1>2. /\ \A p \in Procs : proc[p] = Idle
      /\ \A m \in Managers : workCh[m] = <<>> /\ mode[m] = "up"
      /\ \A id \in JobIds : /\ jobs[id] = NotStored /\ available[id] = NoTime
                            /\ terminal[id] = NoTime /\ id \notin created
      /\ WorkerIds \subseteq Procs
  BY DEF Init, RedisInit, Procs
<1>3. IndexesAgree /\ AttemptsLeft
  BY <1>2 DEF IndexesAgree, AttemptsLeft, AvailableScore, TerminalScore, NotStored, Pending, Terminal
<1>4. CleanWrites /\ ReportNeverConflicts /\ FirstTries /\ AllUp
  BY <1>2 DEF CleanWrites, ReportNeverConflicts, FirstTries, AllUp, Idle
<1>5. \A m \in Managers : DOMAIN workCh[m] = {}
  BY <1>2
<1>6. SingleHolder /\ HeldIsHandled
  BY <1>2, <1>5 DEF SingleHolder, HeldIsHandled, InWorker, Idle
<1>7. HeldSnapshots = {}
  BY <1>2, <1>5 DEF HeldSnapshots, Idle
<1>8. HeldIsCurrent
  BY <1>7 DEF HeldIsCurrent
<1>9. OrphansOnlyFromFaults
  BY <1>2 DEF OrphansOnlyFromFaults, Orphan, NotStored
<1>. QED  BY Zenon, <1>1, <1>3, <1>4, <1>6, <1>8, <1>9 DEF FleetInv

\* Every step preserves it.
LEMMA NextInv == FleetInv /\ [Next]_vars => FleetInv'
<1>. SUFFICES ASSUME FleetInv, [Next]_vars PROVE FleetInv'
  OBVIOUS
<1>1. TypeInv'
  BY NextTypes DEF FleetInv, TypeInv
<1>2. ASSUME NEW c \in Clients, NEW id \in JobIds,
             \/ CancelJob(c, id) \/ RetryJob(c, id)
             \/ \E t \in Types, max \in AttemptLimits, runAfter \in 0..MaxTime :
                  Enqueue(c, id, t, max, runAfter)
      PROVE  FleetInv'
  <2>1. c \in Procs /\ \E call : ClientCall(c, call)
    BY <1>2 DEF CancelJob, RetryJob, Enqueue, Procs
  <2>. QED  BY <1>1, <2>1, QuietCalls
<1>. QED
  BY Zenon, <1>1, <1>2, QuietCalls, ExecStep, ClaimHolds, ScriptSteps, TakeHolds, QuietReturn,
     QuietProcesses DEF Next

\* What the three stated groups of facts rest on: the inductive invariant holds
\* in every reachable state.
THEOREM FleetInvariant == Spec => []FleetInv
BY InitInv, NextInv, PTL DEF Spec

\* At every moment the indexes of RedisStore say what its job records say,
\* whatever calls fail and whichever processes crash.
THEOREM IndexesCorrect == Spec => []IndexesAgree
<1>1. FleetInv => IndexesAgree
  BY DEF FleetInv
<1>. QED  BY <1>1, FleetInvariant, PTL

\* No two workers, in one process or in two, ever have the same claimed job, and
\* the copy they work on is the stored job: nobody else changes it.
THEOREM ClaimsExclusive == Spec => [](SingleHolder /\ HeldIsCurrent)
<1>1. FleetInv => SingleHolder /\ HeldIsCurrent
  BY DEF FleetInv
<1>. QED  BY <1>1, FleetInvariant, PTL

\* The report of a worker never meets a conflict, so updateJob cannot run out of
\* tries on it.
THEOREM ReportsSucceed == Spec => []ReportNeverConflicts
<1>1. FleetInv => ReportNeverConflicts
  BY DEF FleetInv
<1>. QED  BY <1>1, FleetInvariant, PTL

\* A process only ever holds jobs it has a handler for.
THEOREM ClaimsHandled == Spec => []HeldIsHandled
<1>1. FleetInv => HeldIsHandled
  BY DEF FleetInv
<1>. QED  BY <1>1, FleetInvariant, PTL

\* Without a lost call, a shutdown or a crash every running job has a worker or
\* a channel slot.
THEOREM NoOrphansWithoutFaults == Spec => []OrphansOnlyFromFaults
<1>1. FleetInv => OrphansOnlyFromFaults
  BY Zenon DEF FleetInv
<1>. QED  BY <1>1, FleetInvariant, PTL

(***************************************************************************)
(* The lifecycle.                                                          *)
(***************************************************************************)

\* What the lifecycle sees of a stored job.
Seen(j) ==
    [status  |-> j.status,
     attempt |-> IF j = NotStored THEN 0 ELSE j.attempt,
     max     |-> IF j = NotStored THEN 0 ELSE j.max]

\* What an accepted call writes is one move of the lifecycle.
LEMMA MutateMoves ==
    ASSUME NEW c \in CallRecord, NEW j \in Job \cup {NotStored}, Accepts(c, j),
           c.op # "handle",
           c.op = "create" => c.job \in Job /\ c.job.status \in Pending /\ c.job.attempt = 0,
           c.op \in {"succeed", "reschedule", "fail"} => j.status = "running",
           c.op = "reschedule" => j.attempt < j.max,
           c.op = "fail" => ~(j.attempt < j.max), j # NotStored => j.attempt <= j.max
    PROVE  L!Move(Seen(j), Seen(Mutate(c, j)))
<1>. DEFINE k == Mutate(c, j)
<1>1. /\ k \in Job
      /\ c.op = "create" => j = NotStored /\ k = c.job
      /\ c.op # "create" => j \in Job /\ k.max = j.max
      /\ c.op = "cancel" => j.status \in Pending /\ k.status = "canceled" /\ k.attempt = j.attempt
      /\ c.op = "retry" => /\ j.status \in {"failed", "canceled"}
                           /\ k.status = "queued" /\ k.attempt = 0
      /\ c.op = "succeed" => k.status = "succeeded" /\ k.attempt = j.attempt
      /\ c.op = "reschedule" => k.status = "scheduled" /\ k.attempt = j.attempt
      /\ c.op = "fail" => k.status = "failed" /\ k.attempt = j.attempt
  BY Zenon, MutateFields
<1>. HIDE DEF k
<1>2. Seen(k).status = k.status /\ Seen(k).attempt = k.attempt /\ Seen(k).max = k.max
  BY <1>1 DEF Seen, NotStored, Job
<1>3. j \in Job => Seen(j).status = j.status /\ Seen(j).attempt = j.attempt /\ Seen(j).max = j.max
  BY DEF Seen, NotStored, Job
<1>4. CASE c.op = "create"
  <2>1. Seen(j) = L!Absent
    BY <1>1, <1>4 DEF Seen, NotStored, L!Absent
  <2>2. k.max > 0
    BY Zenon, <1>1, ClaimedFields
  <2>3. L!Submit(Seen(j), Seen(k))
    BY Zenon, <1>1, <1>2, <1>4, <2>1, <2>2 DEF L!Submit, Pending
  <2>. QED  BY Zenon, <2>3 DEF L!Move, k
<1>5. CASE c.op = "cancel"
  <2>1. L!Cancel(Seen(j), Seen(k))
    BY Zenon, <1>1, <1>2, <1>3, <1>5 DEF L!Cancel, L!Keeps, Pending
  <2>. QED  BY Zenon, <2>1 DEF L!Move, k
<1>6. CASE c.op = "retry"
  <2>1. L!Requeue(Seen(j), Seen(k))
    BY Zenon, <1>1, <1>2, <1>3, <1>6 DEF L!Requeue
  <2>. QED  BY Zenon, <2>1 DEF L!Move, k
<1>7. CASE c.op = "succeed"
  <2>1. L!Succeed(Seen(j), Seen(k))
    BY Zenon, <1>1, <1>2, <1>3, <1>7 DEF L!Succeed, L!Keeps
  <2>. QED  BY Zenon, <2>1 DEF L!Move, k
<1>8. CASE c.op = "reschedule"
  <2>1. L!Reschedule(Seen(j), Seen(k))
    BY Zenon, <1>1, <1>2, <1>3, <1>8 DEF L!Reschedule, L!Keeps
  <2>. QED  BY Zenon, <2>1 DEF L!Move, k
<1>9. CASE c.op = "fail"
  <2>1. j.attempt \in Nat /\ j.max \in Nat /\ j # NotStored
    BY <1>1, <1>9, ClaimedFields DEF NotStored
  <2>2. j.attempt = j.max
    BY <1>9, <2>1
  <2>3. L!Fail(Seen(j), Seen(k))
    BY Zenon, <1>1, <1>2, <1>3, <1>9, <2>2 DEF L!Fail, L!Keeps
  <2>. QED  BY Zenon, <2>3 DEF L!Move, k
<1>. QED  BY Zenon, <1>4, <1>5, <1>6, <1>7, <1>8, <1>9, CallFields

\* Only a committed transaction and the two scripts write to the jobs.
LEMMA Writers ==
    ASSUME [Next]_vars
    PROVE  \/ UNCHANGED jobs
           \/ \E p \in Procs : Exec(p)
           \/ \E m \in Managers : ClaimStep(m) \/ Prune(m)
<1>1. ASSUME NEW c \in Clients, NEW id \in JobIds,
             \/ CancelJob(c, id) \/ RetryJob(c, id)
             \/ \E t \in Types, max \in AttemptLimits, runAfter \in 0..MaxTime :
                  Enqueue(c, id, t, max, runAfter)
      PROVE  UNCHANGED jobs
  BY Zenon, <1>1 DEF CancelJob, RetryJob, Enqueue, ClientCall, redis
<1>2. ASSUME NEW p \in Procs, Watch(p) \/ ExecConflict(p) \/ CallFails(p) PROVE UNCHANGED jobs
  BY Zenon, <1>2 DEF Watch, ExecConflict, CallFails, redis
<1>3. ASSUME NEW m \in Managers, Shutdown(m) \/ Exit(m) \/ Crash(m) \/ Restart(m)
      PROVE  UNCHANGED jobs
  BY Zenon, <1>3 DEF Shutdown, Exit, Crash, Restart, redis
<1>4. ASSUME NEW w \in WorkerIds, Take(w) \/ \E ok \in BOOLEAN : HandlerReturn(w, ok)
      PROVE  UNCHANGED jobs
  BY Zenon, <1>4 DEF Take, HandlerReturn, redis
<1>5. Tick => UNCHANGED jobs
  BY DEF Tick, redis
<1>6. \A m \in Managers : Claim(m) \/ ClaimAnswerLost(m) => ClaimStep(m)
  BY DEF Claim, ClaimAnswerLost
<1>7. CASE Next
  BY Zenon, <1>1, <1>2, <1>3, <1>4, <1>5, <1>6, <1>7 DEF Next
<1>8. CASE UNCHANGED vars
  BY <1>8 DEF vars, redis
<1>. QED  BY Zenon, <1>7, <1>8

\* Every step of the fleet is a step of the lifecycle or leaves it alone.
LEMMA StepMoves == FleetInv /\ [Next]_vars => [L!Next]_life
<1>. SUFFICES ASSUME FleetInv, [Next]_vars PROVE [L!Next]_life
  OBVIOUS
<1>1. /\ life = [id \in JobIds |-> Seen(jobs[id])]
      /\ life' = [id \in JobIds |-> Seen(jobs'[id])]
  BY DEF life, Seen
<1>2. CASE UNCHANGED jobs
  BY Zenon, <1>1, <1>2
<1>3. /\ TypeOK /\ AttemptsLeft /\ IndexesAgree /\ jobs \in [JobIds -> Job \cup {NotStored}]
  BY DEF FleetInv, TypeOK
<1>4. ASSUME \A id \in JobIds : jobs'[id] = jobs[id] \/ L!Move(Seen(jobs[id]), Seen(jobs'[id]))
      PROVE  L!Next
  BY Zenon, <1>1, <1>4 DEF L!Next
<1>5. ASSUME NEW p \in Procs, Exec(p) PROVE L!Next
  <2>. DEFINE c == proc[p].call  j == jobs[c.id]
  <2>1. /\ c \in CallRecord /\ c.id \in JobIds /\ j \in Job \cup {NotStored} /\ Accepts(c, j)
        /\ jobs' = [jobs EXCEPT ![c.id] = Mutate(c, j)]
        /\ c.op # "handle"
        /\ c.op = "create" => c.job \in Job /\ c.job.status \in Pending /\ c.job.attempt = 0
        /\ c.op \in {"succeed", "reschedule", "fail"} => j.status = "running"
        /\ c.op = "reschedule" => j.attempt < j.max
        /\ c.op = "fail" => ~(j.attempt < j.max)
    BY Zenon, <1>5, ExecWrites
  <2>2. j # NotStored => j.attempt <= j.max
    BY Zenon, <1>3, <2>1 DEF AttemptsLeft
  <2>3. L!Move(Seen(j), Seen(Mutate(c, j)))
    BY Zenon, <2>1, <2>2, MutateMoves
  <2>. QED  BY Zenon, <1>3, <1>4, <2>1, <2>3
<1>6. ASSUME NEW m \in Managers, ClaimStep(m) PROVE L!Next
  <2>. DEFINE ids == Claimable(now, FreeSlots(m), HandlerTypes[m])
  <2>1. /\ \A id \in ids : /\ jobs[id] \in Job /\ jobs[id].status \in Pending
                           /\ jobs[id].attempt < jobs[id].max
                           /\ jobs'[id] = Claimed(jobs[id])
        /\ \A id \in JobIds : id \notin ids => jobs'[id] = jobs[id]
    BY Zenon, <1>6, ClaimWrites
  <2>. HIDE DEF ids
  <2>2. ASSUME NEW j \in Job, j.status \in Pending, j.attempt < j.max
        PROVE  L!Move(Seen(j), Seen(Claimed(j)))
    <3>1. /\ Claimed(j) \in Job /\ Claimed(j).status = "running"
          /\ Claimed(j).attempt = j.attempt + 1 /\ Claimed(j).max = j.max
          /\ j.attempt \in Nat /\ j.max \in Nat
      BY Zenon, ClaimedFields
    <3>2. ASSUME NEW k \in Job
          PROVE  Seen(k).status = k.status /\ Seen(k).attempt = k.attempt /\ Seen(k).max = k.max
      BY DEF Seen, NotStored, Job
    <3>3. L!Claim(Seen(j), Seen(Claimed(j)))
      BY <2>2, <3>1, <3>2 DEF L!Claim, Pending
    <3>. QED  BY Zenon, <3>3 DEF L!Move
  <2>. QED  BY Zenon, <1>4, <2>1, <2>2
<1>7. ASSUME NEW m \in Managers, Prune(m) PROVE L!Next
  <2>. DEFINE ids == Expired(now - Retention)
  <2>1. jobs' = [id \in JobIds |-> IF id \in ids THEN NotStored ELSE jobs[id]]
    BY Zenon, <1>7 DEF Prune, PruneTerminalBefore
  <2>2. \A id \in ids : jobs[id].status \in Terminal
    BY Zenon, <1>3 DEF Expired, IndexesAgree, TerminalScore
  <2>3. ASSUME NEW j, j.status \in Terminal PROVE L!Move(Seen(j), Seen(NotStored))
    <3>1. L!Forget(Seen(j), Seen(NotStored))
      BY Zenon, <2>3 DEF L!Forget, L!Absent, Seen, NotStored, Terminal
    <3>. QED  BY Zenon, <3>1 DEF L!Move
  <2>. HIDE DEF ids
  <2>. QED  BY Zenon, <1>4, <2>1, <2>2, <2>3
<1>. QED  BY Zenon, <1>2, <1>5, <1>6, <1>7, Writers

\* The fleet implements the lifecycle: with any number of processes, clients,
\* conflicts, faults and crashes, a job only moves along the edges the lifecycle
\* allows, with the attempt counts it allows.
THEOREM FleetImplementsLifecycle == Spec => ImplementsLifecycle
<1>1. Init => L!Init
  BY DEF Init, RedisInit, L!Init, life, NotStored, L!Absent
<1>2. Spec => [][L!Next]_life
  BY FleetInvariant, StepMoves, PTL DEF Spec
<1>. QED  BY <1>1, <1>2, PTL DEF Spec, ImplementsLifecycle, L!Spec

(***************************************************************************)
(* What no step does.                                                      *)
(***************************************************************************)

\* A committed transaction writes a job that is not running, and only its own
\* worker's transaction replaces a running one.
LEMMA ExecJobs ==
    ASSUME FleetInv, NEW p \in Procs, Exec(p), NEW id \in JobIds, jobs'[id] # jobs[id]
    PROVE  /\ jobs'[id] \in Job /\ jobs'[id].status # "running"
           /\ jobs[id].status = "running" => Held(id)
<1>. DEFINE c == proc[p].call  j == jobs[c.id]  k == Mutate(c, j)
<1>1. /\ c \in CallRecord /\ c.id \in JobIds /\ j \in Job \cup {NotStored} /\ Accepts(c, j)
      /\ jobs' = [jobs EXCEPT ![c.id] = k]
      /\ c.op # "handle"
      /\ c.op = "create" => c.job \in Job /\ c.job.status \in Pending
      /\ p \notin WorkerIds => c.op \in {"create", "cancel", "retry"}
  BY Zenon, ExecWrites
<1>2. jobs \in [JobIds -> Job \cup {NotStored}]
  BY Zenon DEF FleetInv, TypeOK
<1>3. id = c.id /\ jobs'[id] = k
  BY Zenon, <1>1, <1>2
<1>4. /\ k \in Job
      /\ c.op = "create" => j = NotStored /\ k = c.job
      /\ c.op = "cancel" => j.status \in Pending /\ k.status = "canceled"
      /\ c.op = "retry" => j.status \in {"failed", "canceled"} /\ k.status = "queued"
      /\ c.op = "succeed" => k.status = "succeeded"
      /\ c.op = "reschedule" => k.status = "scheduled"
      /\ c.op = "fail" => k.status = "failed"
  BY Zenon, <1>1, MutateFields
<1>5. proc[p].pc # "idle"
  BY DEF Exec
<1>. HIDE DEF k
<1>6. k.status # "running"
  <2>1. c.op = "create" => k.status \in Pending
    BY Zenon, <1>1, <1>4
  <2>2. c.op \in {"create", "cancel", "retry", "succeed", "reschedule", "fail"}
    BY Zenon, <1>1, CallFields
  <2>. QED  BY <1>4, <2>1, <2>2 DEF Pending
<1>7. ASSUME p \notin WorkerIds PROVE j.status # "running"
  <2>1. j = NotStored \/ j.status \in Pending \/ j.status \in {"failed", "canceled"}
    BY Zenon, <1>1, <1>4, <1>7
  <2>. QED  BY <2>1 DEF Pending, NotStored
<1>8. ASSUME p \in WorkerIds PROVE Held(id)
  BY Zenon, <1>3, <1>5, <1>8 DEF Held, InWorker
<1>. QED  BY Zenon, <1>3, <1>4, <1>6, <1>7, <1>8

\* The janitor only takes jobs that are in a terminal state.
LEMMA PruneJobs ==
    ASSUME FleetInv, NEW m \in Managers, Prune(m), NEW id \in JobIds, jobs'[id] # jobs[id]
    PROVE  /\ id \in Expired(now - Retention) /\ jobs'[id] = NotStored
           /\ jobs[id].status \in Terminal /\ jobs[id].completedAt # NoTime
           /\ terminal[id] = timeScore(jobs[id].completedAt)
<1>1. id \in Expired(now - Retention) /\ jobs'[id] = NotStored
  BY Zenon DEF Prune, PruneTerminalBefore
<1>2. IndexesAgree
  BY Zenon DEF FleetInv
<1>. QED  BY Zenon, <1>1, <1>2 DEF Expired, IndexesAgree, TerminalScore

\* A truncated score that is not later is earlier by less than a millisecond at
\* worst.
LEMMA ScoreBound ==
    ASSUME NEW a \in Int, NEW b \in Int, timeScore(a) <= timeScore(b)
    PROVE  a < b + TicksPerMs
<1>. DEFINE q == timeScore(a)  r == timeScore(b)
<1>1. TicksPerMs \in Nat \ {0}
  BY RedisConstants
<1>2. q \in Int /\ r \in Int /\ a < TicksPerMs * q + TicksPerMs /\ TicksPerMs * r <= b
  BY <1>1 DEF timeScore
<1>. HIDE DEF q, r
<1>3. r - q \in Nat
  BY <1>2 DEF q, r
<1>4. TicksPerMs * (r - q) \in Nat
  <2>1. \A d \in Nat : TicksPerMs * d \in Nat
    BY <1>1
  <2>. QED  BY <1>3, <2>1
<1>5. TicksPerMs * (r - q) = TicksPerMs * r - TicksPerMs * q
  BY <1>1, <1>2
<1>6. TicksPerMs * q \in Int /\ TicksPerMs * r \in Int
  BY <1>1, <1>2
<1>. QED  BY <1>1, <1>2, <1>4, <1>5, <1>6

\* An orphan is never recovered: no later step of any process changes it.
THEOREM OrphansAreForever == Spec => OrphansStay
<1>1. ASSUME FleetInv, [Next]_vars, NEW id \in JobIds, Orphan(id), jobs'[id] # jobs[id]
      PROVE  FALSE
  <2>1. jobs[id].status = "running" /\ ~Held(id)
    BY Zenon, <1>1 DEF Orphan
  <2>2. ASSUME NEW p \in Procs, Exec(p) PROVE FALSE
    BY Zenon, <1>1, <2>1, <2>2, ExecJobs
  <2>3. ASSUME NEW m \in Managers, ClaimStep(m) PROVE FALSE
    <3>1. jobs[id].status \in Pending
      BY Zenon, <1>1, <2>3, ClaimWrites
    <3>. QED  BY <2>1, <3>1 DEF Pending
  <2>4. ASSUME NEW m \in Managers, Prune(m) PROVE FALSE
    <3>1. jobs[id].status \in Terminal
      BY Zenon, <1>1, <2>4, PruneJobs
    <3>. QED  BY <2>1, <3>1 DEF Terminal
  <2>. QED  BY Zenon, <1>1, <2>2, <2>3, <2>4, Writers
<1>2. FleetInv /\ [Next]_vars => [\A id \in JobIds : Orphan(id) => jobs'[id] = jobs[id]]_vars
  BY Zenon, <1>1
<1>. QED  BY <1>2, FleetInvariant, PTL DEF Spec, OrphansStay

\* A scheduled job is never started a millisecond or more before it is due,
\* though the index its claim goes by has lost the fractions.
THEOREM StartsOnTime == Spec => NeverAMillisecondEarly
<1>1. ASSUME FleetInv, [Next]_vars, NEW id \in JobIds,
             jobs[id].status \in Pending, jobs'[id].status = "running"
      PROVE  jobs[id].availableAt < now + TicksPerMs
  <2>1. jobs'[id] # jobs[id]
    BY <1>1 DEF Pending
  <2>2. ~ \E p \in Procs : Exec(p)
    BY Zenon, <1>1, <2>1, ExecJobs
  <2>3. ~ \E m \in Managers : Prune(m)
    <3>1. \A m \in Managers : Prune(m) => jobs[id].status \in Terminal
      BY Zenon, <1>1, <2>1, PruneJobs
    <3>2. jobs[id].status \notin Terminal
      BY <1>1 DEF Pending, Terminal
    <3>. QED  BY Zenon, <3>1, <3>2
  <2>4. PICK m \in Managers : ClaimStep(m)
    BY Zenon, <1>1, <2>1, <2>2, <2>3, Writers
  <2>5. id \in Claimable(now, FreeSlots(m), HandlerTypes[m]) /\ jobs[id] \in Job
    BY Zenon, <1>1, <2>1, <2>4, ClaimWrites
  <2>6. available[id] <= timeScore(now)
    BY Zenon, <2>5 DEF Claimable, Scanned, Ready
  <2>7. available[id] = timeScore(jobs[id].availableAt)
    BY Zenon, <1>1 DEF FleetInv, IndexesAgree, AvailableScore
  <2>8. jobs[id].availableAt \in Int /\ now \in Int
    BY <1>1, <2>5 DEF FleetInv, TypeOK, Job
  <2>. QED  BY Zenon, <2>6, <2>7, <2>8, ScoreBound
<1>2. FleetInv /\ [Next]_vars =>
        [\A id \in JobIds :
           jobs[id].status \in Pending /\ jobs'[id].status = "running"
             => jobs[id].availableAt < now + TicksPerMs]_vars
  BY Zenon, <1>1
<1>. QED  BY <1>2, FleetInvariant, PTL DEF Spec, NeverAMillisecondEarly

\* A finished job can be read for the whole retention, less a millisecond.
THEOREM FinishedAreRetained == Spec => RetainedToTheMillisecond
<1>1. ASSUME FleetInv, [Next]_vars, NEW id \in JobIds,
             jobs[id] # NotStored, jobs'[id] = NotStored
      PROVE  jobs[id].completedAt + Retention < now + TicksPerMs
  <2>1. jobs'[id] # jobs[id] /\ jobs'[id] \notin Job
    BY <1>1 DEF NotStored, Job
  <2>2. ~ \E p \in Procs : Exec(p)
    BY Zenon, <1>1, <2>1, ExecJobs
  <2>3. ~ \E m \in Managers : ClaimStep(m)
    BY Zenon, <1>1, <2>1, ClaimWrites, ClaimedFields
  <2>4. PICK m \in Managers : Prune(m)
    BY Zenon, <1>1, <2>1, <2>2, <2>3, Writers
  <2>5. /\ id \in Expired(now - Retention) /\ jobs[id].completedAt # NoTime
        /\ terminal[id] = timeScore(jobs[id].completedAt)
    BY Zenon, <1>1, <2>1, <2>4, PruneJobs
  <2>6. timeScore(jobs[id].completedAt) <= timeScore(now - Retention)
    BY Zenon, <2>5 DEF Expired
  <2>7. jobs[id] \in Job \cup {NotStored} /\ now \in Nat
    BY Zenon, <1>1 DEF FleetInv, TypeOK
  <2>8. jobs[id].completedAt \in Int /\ now \in Int /\ now - Retention \in Int /\ Retention \in Int
    BY <1>1, <2>5, <2>7, FleetConstants DEF Job
  <2>9. jobs[id].completedAt < (now - Retention) + TicksPerMs
    BY Zenon, <2>6, <2>8, ScoreBound
  <2>. QED  BY <2>8, <2>9, RedisConstants
<1>2. FleetInv /\ [Next]_vars =>
        [\A id \in JobIds :
           jobs[id] # NotStored /\ jobs'[id] = NotStored
             => jobs[id].completedAt + Retention < now + TicksPerMs]_vars
  BY Zenon, <1>1
<1>. QED  BY <1>2, FleetInvariant, PTL DEF Spec, RetainedToTheMillisecond
=============================================================================
