------------------------ MODULE JobFleetTypeProofs ------------------------
(* JobFleet is type correct, for every value of its constants: any number  *)
(* of processes, workers, clients, jobs, tries and faults.                 *)
EXTENDS JobFleet, TLAPS

(***************************************************************************)
(* Jobs, scores and the states of a call.                                  *)
(***************************************************************************)

\* The field assignments of the store operations keep a job well typed.
LEMMA MutationTypes ==
    ASSUME NEW j \in Job, NEW at \in Nat
    PROVE  /\ Claimed(j) \in Job
           /\ Succeeded(j, at) \in Job
           /\ Rescheduled(j, at) \in Job
           /\ Failed(j, at) \in Job
           /\ Canceled(j, at) \in Job
           /\ Requeued(j, at) \in Job
<1>. DEFINE n == j.attempt + 1
<1>1. n \in Nat
  BY DEF Job
<1>2. [j EXCEPT !.status = "running", !.attempt = n] \in Job
  <2>. HIDE DEF n
  <2>. QED  BY Zenon, <1>1 DEF Job
<1>3. /\ Succeeded(j, at) \in Job /\ Rescheduled(j, at) \in Job /\ Failed(j, at) \in Job
      /\ Canceled(j, at) \in Job /\ Requeued(j, at) \in Job
  BY Zenon DEF Succeeded, Rescheduled, Failed, Canceled, Requeued, Job, Pending, Terminal
<1>. QED  BY <1>2, <1>3 DEF Claimed

\* A score is a natural number.
LEMMA ScoreType == ASSUME NEW t \in Nat PROVE timeScore(t) \in Nat
BY RedisConstants DEF timeScore

\* The scores of a job are members of the indexes or absent from them.
LEMMA IndexTypes ==
    ASSUME NEW j \in Job
    PROVE  AvailableScore(j) \in Nat \cup {NoTime} /\ TerminalScore(j) \in Nat \cup {NoTime}
<1>1. j.availableAt \in Nat /\ (j.completedAt # NoTime => j.completedAt \in Nat)
  BY DEF Job
<1>. QED  BY <1>1, ScoreType DEF AvailableScore, TerminalScore

\* A stored job is a Job.
LEMMA StoredType ==
    ASSUME TypeOK, NEW id \in JobIds, jobs[id].status # "absent"
    PROVE  jobs[id] \in Job
BY DEF TypeOK, NotStored

\* The fields of the state of a client or worker.
LEMMA ProcFields ==
    ASSUME NEW s \in ProcState
    PROVE  /\ s.pc \in {"idle", "handler", "watch", "exec"}
           /\ s.pc # "idle" => s.call \in CallRecord
           /\ s.pc \in {"watch", "exec"} => s.tries \in 1..MaxTries
           /\ s.pc = "exec" => s.write \in Job /\ s.dirty \in BOOLEAN
           /\ s = Idle <=> s.pc = "idle"
<1>1. CASE s \in [pc : {"idle"}]
  BY <1>1 DEF Idle
<1>2. CASE s \in [pc : {"handler"}, call : CallRecord]
  BY <1>2 DEF Idle
<1>3. CASE s \in [pc : {"watch"}, call : CallRecord, tries : 1..MaxTries]
  BY <1>3 DEF Idle
<1>4. CASE s \in [pc : {"exec"}, call : CallRecord, tries : 1..MaxTries,
                  write : Job, dirty : BOOLEAN]
  BY <1>4 DEF Idle
<1>. QED  BY <1>1, <1>2, <1>3, <1>4 DEF ProcState

\* What a call is made of.
LEMMA CallFields ==
    ASSUME NEW c \in CallRecord
    PROVE  /\ c.id \in JobIds /\ c.at \in Nat /\ c.job \in Job \cup {NotStored}
           /\ c.op \in {"create", "cancel", "retry", "handle", "succeed", "reschedule", "fail"}
BY DEF CallRecord

\* The states a call may be in.
LEMMA CallStates ==
    ASSUME NEW c \in CallRecord
    PROVE  /\ Idle \in ProcState
           /\ [pc |-> "handler", call |-> c] \in ProcState
           /\ Begin(c) \in ProcState
           /\ \A n \in 1..MaxTries : [pc |-> "watch", call |-> c, tries |-> n] \in ProcState
           /\ \A n \in 1..MaxTries, j \in Job, d \in BOOLEAN :
                [pc |-> "exec", call |-> c, tries |-> n, write |-> j, dirty |-> d] \in ProcState
<1>1. 1 \in 1..MaxTries
  BY FleetConstants
<1>. QED  BY <1>1 DEF ProcState, Begin, Idle

\* Idle is a state.
LEMMA IdleState == Idle \in ProcState
BY DEF ProcState, Idle

\* WATCH changes nothing of a transaction but its dirty flag.
LEMMA TouchState ==
    ASSUME NEW s \in ProcState, s.pc = "exec"
    PROVE  LET d == [s EXCEPT !.dirty = TRUE]
           IN  /\ d \in ProcState /\ d.pc = "exec" /\ d.call = s.call
               /\ d.tries = s.tries /\ d.write = s.write /\ d.dirty
<1>1. s \in [pc : {"exec"}, call : CallRecord, tries : 1..MaxTries,
             write : Job, dirty : BOOLEAN]
  BY DEF ProcState
<1>. QED  BY Zenon, <1>1 DEF ProcState

\* Touch keeps every state and what it says, except that transactions on the
\* ids are dirty afterwards.
LEMMA TouchFacts ==
    ASSUME NEW P \in [Procs -> ProcState], NEW ids
    PROVE  LET Q == Touch(P, ids)
           IN  /\ Q \in [Procs -> ProcState]
               /\ \A q \in Procs :
                    /\ Q[q].pc = P[q].pc
                    /\ P[q].pc = "exec" /\ P[q].call.id \in ids =>
                         /\ Q[q].call = P[q].call /\ Q[q].tries = P[q].tries
                         /\ Q[q].write = P[q].write /\ Q[q].dirty
                    /\ ~(P[q].pc = "exec" /\ P[q].call.id \in ids) => Q[q] = P[q]
<1>. DEFINE Q == Touch(P, ids)
<1>1. ASSUME NEW q \in Procs, P[q].pc = "exec", P[q].call.id \in ids
      PROVE  /\ Q[q] \in ProcState /\ Q[q].pc = P[q].pc /\ Q[q].call = P[q].call
             /\ Q[q].tries = P[q].tries /\ Q[q].write = P[q].write /\ Q[q].dirty
  <2>1. Q[q] = [P[q] EXCEPT !.dirty = TRUE]
    BY <1>1 DEF Touch
  <2>2. P[q] \in ProcState
    OBVIOUS
  <2>. HIDE DEF Q
  <2>. QED  BY <1>1, <2>1, <2>2, TouchState
<1>2. ASSUME NEW q \in Procs, ~(P[q].pc = "exec" /\ P[q].call.id \in ids)
      PROVE  Q[q] = P[q]
  BY <1>2 DEF Touch
<1>3. Q = [q \in Procs |-> Q[q]]
  BY DEF Touch
<1>. HIDE DEF Q
<1>4. Q \in [Procs -> ProcState]
  BY <1>1, <1>2, <1>3
<1>. QED  BY <1>1, <1>2, <1>4 DEF Q

\* What a call accepted on a job writes is a job.
LEMMA MutateType ==
    ASSUME NEW c \in CallRecord, NEW j \in Job \cup {NotStored}, Accepts(c, j),
           c.op # "handle", c.op = "create" => c.job \in Job
    PROVE  Mutate(c, j) \in Job
<1>1. CASE c.op = "create"
  BY <1>1 DEF Mutate
<1>2. CASE c.op \in {"cancel", "retry", "succeed", "reschedule", "fail"}
  <2>1. j \in Job
    BY <1>2 DEF Accepts, NotStored, Pending
  <2>2. c.at \in Nat
    BY CallFields
  <2>. QED  BY <1>2, <2>1, <2>2, MutationTypes DEF Mutate
<1>. QED  BY <1>1, <1>2, CallFields

(***************************************************************************)
(* The calls in progress.                                                  *)
(***************************************************************************)

\* An idle process fits, and fitting is a matter of the pc and the call.
LEMMA FitsAlike ==
    ASSUME NEW s \in ProcState, NEW t \in ProcState, t.pc = s.pc,
           s.pc # "idle" => t.call = s.call
    PROVE  /\ ClientCallFits(Idle) /\ WorkerCallFits(Idle)
           /\ ClientCallFits(s) => ClientCallFits(t)
           /\ WorkerCallFits(s) => WorkerCallFits(t)
<1>1. (s = Idle <=> s.pc = "idle") /\ (t = Idle <=> t.pc = "idle")
  BY ProcFields
<1>. QED  BY <1>1 DEF ClientCallFits, WorkerCallFits

\* A step of one process that ends in a fitting state.
LEMMA OneProcess ==
    ASSUME TypeOK, CallsFit, NEW p \in Procs, NEW s \in ProcState,
           p \in Clients => ClientCallFits(s), p \in WorkerIds => WorkerCallFits(s),
           proc' = [proc EXCEPT ![p] = s]
    PROVE  proc' \in [Procs -> ProcState] /\ CallsFit'
<1>1. proc' \in [Procs -> ProcState] /\ proc'[p] = s
  BY DEF TypeOK
<1>2. \A q \in Procs : q # p => proc'[q] = proc[q]
  BY DEF TypeOK
<1>3. Clients \subseteq Procs /\ WorkerIds \subseteq Procs
  BY DEF Procs
<1>. QED  BY <1>1, <1>2, <1>3 DEF CallsFit

\* A write to ids disturbs transactions and changes no call.
LEMMA TouchFits ==
    ASSUME NEW P \in [Procs -> ProcState], NEW ids, proc' = Touch(P, ids),
           \A c \in Clients : ClientCallFits(P[c]),
           \A w \in WorkerIds : WorkerCallFits(P[w])
    PROVE  proc' \in [Procs -> ProcState] /\ CallsFit'
<1>1. proc' \in [Procs -> ProcState]
  BY TouchFacts
<1>2. ASSUME NEW q \in Procs
      PROVE  /\ proc'[q].pc = P[q].pc
             /\ P[q].pc # "idle" => proc'[q].call = P[q].call
  BY TouchFacts
<1>3. ASSUME NEW q \in Procs
      PROVE  /\ ClientCallFits(P[q]) => ClientCallFits(proc'[q])
             /\ WorkerCallFits(P[q]) => WorkerCallFits(proc'[q])
  <2>1. P[q] \in ProcState /\ proc'[q] \in ProcState
    BY <1>1
  <2>. QED  BY <1>2, <2>1, FitsAlike
<1>4. Clients \subseteq Procs /\ WorkerIds \subseteq Procs
  BY DEF Procs
<1>. QED  BY <1>1, <1>3, <1>4 DEF CallsFit

\* A process is a client or a worker, not both.
LEMMA ClientOrWorker ==
    ASSUME NEW p \in Procs PROVE p \in Clients <=> p \notin WorkerIds
BY Zenon, FleetConstants DEF Procs, WorkerIds

\* Calls that reach the store fit and are not "handle".
LEMMA StoreCalls ==
    ASSUME TypeOK, CallsFit, NEW p \in Procs, proc[p].pc \in {"watch", "exec"}
    PROVE  /\ proc[p] \in ProcState /\ proc[p] # Idle
           /\ proc[p].call \in CallRecord /\ proc[p].tries \in 1..MaxTries
           /\ proc[p].call.op # "handle"
           /\ proc[p].call.op = "create" => proc[p].call.job \in Job
           /\ p \in Clients => proc[p].call.op \in {"create", "cancel", "retry"}
           /\ p \in WorkerIds => proc[p].call.op \in {"succeed", "reschedule", "fail"}
<1>1. proc[p] \in ProcState
  BY DEF TypeOK
<1>2. /\ proc[p] # Idle /\ proc[p].call \in CallRecord /\ proc[p].tries \in 1..MaxTries
  BY <1>1, ProcFields
<1>3. CASE p \in Clients
  BY Zenon, <1>1, <1>2, <1>3, ClientOrWorker DEF CallsFit, ClientCallFits
<1>4. CASE p \in WorkerIds
  BY <1>1, <1>2, <1>4, ClientOrWorker DEF CallsFit, WorkerCallFits
<1>. QED  BY <1>1, <1>2, <1>3, <1>4, ClientOrWorker

(***************************************************************************)
(* The store.                                                              *)
(***************************************************************************)

\* The part of TypeOK that is about Redis.
StoreTypeOK ==
    /\ jobs \in [JobIds -> Job \cup {NotStored}]
    /\ available \in [JobIds -> Nat \cup {NoTime}]
    /\ terminal \in [JobIds -> Nat \cup {NoTime}]
    /\ created \in SUBSET JobIds

\* The transaction of Create and updateJob keeps the store well typed.
LEMMA SetJobType ==
    ASSUME StoreTypeOK, NEW id \in JobIds, NEW j \in Job, SetJob(id, j)
    PROVE  StoreTypeOK'
<1>1. AvailableScore(j) \in Nat \cup {NoTime} /\ TerminalScore(j) \in Nat \cup {NoTime}
  BY IndexTypes
<1>. QED  BY <1>1 DEF StoreTypeOK, SetJob, SyncIndexes

\* So do the two scripts.
LEMMA ScriptTypes ==
    ASSUME StoreTypeOK
    PROVE  /\ \A at, limit, types : ClaimReady(at, limit, types) => StoreTypeOK'
           /\ \A cutoff : PruneTerminalBefore(cutoff) => StoreTypeOK'
<1>1. ASSUME NEW at, NEW limit, NEW types, ClaimReady(at, limit, types)
      PROVE  StoreTypeOK'
  <2>1. \A id \in Claimable(at, limit, types) : id \in JobIds /\ jobs[id].status \in Pending
    BY DEF Claimable, Scanned, Ready
  <2>2. \A id \in Claimable(at, limit, types) : Claimed(jobs[id]) \in Job
    <3>. TAKE id \in Claimable(at, limit, types)
    <3>1. jobs[id] \in Job
      BY <2>1 DEF StoreTypeOK, NotStored, Pending
    <3>. QED  BY <3>1, MutationTypes
  <2>. HIDE DEF Claimable
  <2>. QED  BY <1>1, <2>2 DEF StoreTypeOK, ClaimReady
<1>2. ASSUME NEW cutoff, PruneTerminalBefore(cutoff) PROVE StoreTypeOK'
  BY <1>2 DEF StoreTypeOK, PruneTerminalBefore
<1>. QED  BY <1>1, <1>2

\* What a claim returns is a sequence of well-typed copies.
LEMMA ListingType ==
    ASSUME StoreTypeOK, NEW at, NEW limit, NEW types,
           NEW s \in Listings(Claimable(at, limit, types))
    PROVE  /\ s \in Seq(Snapshot)
           /\ \A n \in DOMAIN s :
                /\ s[n].id \in Claimable(at, limit, types)
                /\ s[n].job = Claimed(jobs[s[n].id])
<1>. DEFINE ids == Claimable(at, limit, types)
<1>1. ids \subseteq JobIds /\ \A id \in ids : jobs[id].status \in Pending
  BY DEF Claimable, Scanned, Ready
<1>2. \A id \in ids : Claimed(jobs[id]) \in Job
  <2>. TAKE id \in ids
  <2>1. jobs[id] \in Job
    BY <1>1 DEF StoreTypeOK, NotStored, Pending
  <2>. QED  BY <2>1, MutationTypes
<1>. DEFINE copies == {[id |-> i, job |-> Claimed(jobs[i])] : i \in ids}
<1>3. \E n \in 0..QueueBuffer : s \in [1..n -> copies]
  BY DEF Listings
<1>4. PICK n \in 0..QueueBuffer : s \in [1..n -> copies]
  BY <1>3
<1>. HIDE DEF ids
<1>5. copies \subseteq Snapshot
  BY <1>1, <1>2 DEF Snapshot
<1>6. \A c \in copies : c.id \in ids /\ c.job = Claimed(jobs[c.id])
  OBVIOUS
<1>. HIDE DEF copies
<1>7. s \in Seq(Snapshot)
  BY <1>4, <1>5, FleetConstants
<1>8. \A k \in DOMAIN s : s[k].id \in ids /\ s[k].job = Claimed(jobs[s[k].id])
  BY <1>4, <1>6
<1>. QED  BY <1>7, <1>8 DEF ids

\* A job with attempts left has a retry delay.
LEMMA DelayType ==
    ASSUME NEW j \in Job, Retries(j)
    PROVE  RetryDelay[j.attempt] \in Nat
<1>1. j.attempt \in Nat /\ j.max \in 1..MaxAttemptLimit /\ j.attempt < j.max
  BY DEF Retries, Job, AttemptLimits
<1>2. j.attempt \in 0..MaxAttemptLimit
  BY <1>1, JobConstants
<1>. QED  BY <1>2, FleetConstants

(***************************************************************************)
(* Type correctness, together with which calls are in progress where.      *)
(***************************************************************************)

\* The types, and which calls are in progress where.
TypeInv == TypeOK /\ CallsFit

\* The initial state.
LEMMA InitTypes == Init => TypeInv
<1>. SUFFICES ASSUME Init PROVE TypeInv
  OBVIOUS
<1>1. StoreTypeOK
  BY DEF Init, RedisInit, StoreTypeOK
<1>2. proc \in [Procs -> ProcState] /\ \A p \in Procs : proc[p] = Idle
  BY IdleState DEF Init
<1>3. CallsFit
  BY <1>2 DEF CallsFit, Procs, ClientCallFits, WorkerCallFits
<1>4. workCh \in [Managers -> Seq(Snapshot)]
  BY DEF Init
<1>5. mode \in [Managers -> {"up", "stopping", "down"}] /\ now \in Nat /\ faults \in Nat /\ stops \in Nat
  BY DEF Init
<1>. QED  BY <1>1, <1>2, <1>3, <1>4, <1>5 DEF TypeInv, TypeOK, StoreTypeOK

\* Steps of the calls.
LEMMA CallTypes ==
    ASSUME TypeInv, NEW p \in Procs,
           Watch(p) \/ Exec(p) \/ ExecConflict(p) \/ CallFails(p)
    PROVE  TypeInv'
<1>. USE DEF TypeInv
<1>1. proc \in [Procs -> ProcState] /\ proc[p] \in ProcState
  BY Zenon DEF TypeOK
<1>2. proc[p].pc \in {"watch", "exec"}
  BY DEF Watch, Exec, ExecConflict, CallFails
<1>3. /\ proc[p].call \in CallRecord /\ proc[p].tries \in 1..MaxTries
      /\ proc[p].call.op # "handle"
      /\ proc[p].call.op = "create" => proc[p].call.job \in Job
  BY Zenon, <1>2, StoreCalls
<1>4. proc[p].call.id \in JobIds
  BY <1>3, CallFields
<1>5. ASSUME NEW s \in ProcState,
             s.pc \in {"watch", "exec"}, s.call = proc[p].call
      PROVE  (p \in Clients => ClientCallFits(s)) /\ (p \in WorkerIds => WorkerCallFits(s))
  <2>1. s # Idle /\ proc[p] # Idle
    BY Zenon, <1>1, <1>2, <1>5, ProcFields
  <2>2. p \in Clients => ClientCallFits(s)
    BY Zenon, <1>5, <2>1 DEF CallsFit, ClientCallFits
  <2>3. p \in WorkerIds => WorkerCallFits(s)
    BY <1>2, <1>5, <2>1 DEF CallsFit, WorkerCallFits
  <2>. QED  BY <2>2, <2>3
<1>6. ASSUME NEW s \in ProcState, proc' = [proc EXCEPT ![p] = s],
             s = Idle \/ (s.pc \in {"watch", "exec"} /\ s.call = proc[p].call)
      PROVE  proc' \in [Procs -> ProcState] /\ CallsFit'
  <2>1. (p \in Clients => ClientCallFits(s)) /\ (p \in WorkerIds => WorkerCallFits(s))
    BY <1>5, <1>6 DEF ClientCallFits, WorkerCallFits
  <2>. QED  BY Zenon, <1>6, <2>1, OneProcess
<1>7. CASE Watch(p)
  <2>. DEFINE c == proc[p].call  j == jobs[c.id]
              s == IF Accepts(c, j)
                   THEN [pc |-> "exec", call |-> c, tries |-> proc[p].tries,
                         write |-> Mutate(c, j), dirty |-> FALSE]
                   ELSE Idle
  <2>1. j \in Job \cup {NotStored}
    BY <1>4 DEF TypeOK
  <2>2. Accepts(c, j) => Mutate(c, j) \in Job
    BY <1>3, <2>1, MutateType
  <2>3. s \in ProcState /\ (s = Idle \/ (s.pc \in {"watch", "exec"} /\ s.call = c))
    <3>1. CASE Accepts(c, j)
      <4>. DEFINE t == [pc |-> "exec", call |-> c, tries |-> proc[p].tries,
                        write |-> Mutate(c, j), dirty |-> FALSE]
      <4>1. t \in ProcState
        BY Zenon, <1>3, <2>2, <3>1, CallStates
      <4>2. s = t /\ t.pc = "exec" /\ t.call = c
        BY <3>1
      <4>. QED  BY Zenon, <4>1, <4>2
    <3>2. CASE ~Accepts(c, j)
      BY <3>2, IdleState
    <3>. QED  BY <3>1, <3>2
  <2>4. proc' = [proc EXCEPT ![p] = s]
    BY <1>7 DEF Watch
  <2>. HIDE DEF s
  <2>5. proc' \in [Procs -> ProcState] /\ CallsFit'
    BY Zenon, <1>6, <2>3, <2>4
  <2>. QED  BY <1>7, <2>5 DEF Watch, TypeOK, redis
<1>8. CASE Exec(p)
  <2>. DEFINE P == [proc EXCEPT ![p] = Idle]
  <2>1. proc[p].write \in Job
    BY <1>1, <1>8, ProcFields DEF Exec
  <2>2. StoreTypeOK'
    BY <1>4, <1>8, <2>1, SetJobType DEF Exec, TypeOK, StoreTypeOK
  <2>3. P \in [Procs -> ProcState] /\ proc' = Touch(P, {proc[p].call.id})
    BY <1>1, <1>8, IdleState DEF Exec
  <2>4. \A q \in Procs : P[q] = IF q = p THEN Idle ELSE proc[q]
    BY Zenon, <1>1
  <2>. HIDE DEF P
  <2>5. /\ \A c \in Clients : ClientCallFits(P[c])
        /\ \A w \in WorkerIds : WorkerCallFits(P[w])
    BY <2>4 DEF CallsFit, Procs, ClientCallFits, WorkerCallFits
  <2>6. proc' \in [Procs -> ProcState] /\ CallsFit'
    BY Zenon, <2>3, <2>5, TouchFits
  <2>. QED  BY Zenon, <1>8, <2>2, <2>6 DEF Exec, TypeOK, StoreTypeOK
<1>9. CASE ExecConflict(p)
  <2>. DEFINE s == IF proc[p].tries < MaxTries
                   THEN [pc |-> "watch", call |-> proc[p].call, tries |-> proc[p].tries + 1]
                   ELSE Idle
  <2>1. proc' = [proc EXCEPT ![p] = s]
    BY Zenon, <1>1, <1>9 DEF ExecConflict
  <2>2. s \in ProcState /\ (s = Idle \/ (s.pc \in {"watch", "exec"} /\ s.call = proc[p].call))
    <3>1. CASE proc[p].tries < MaxTries
      <4>1. proc[p].tries + 1 \in 1..MaxTries
        <5>. DEFINE n == proc[p].tries
        <5>. HIDE DEF n
        <5>1. n \in 1..MaxTries /\ n < MaxTries /\ MaxTries \in Nat
          BY <1>3, <3>1, FleetConstants DEF n
        <5>2. n + 1 \in 1..MaxTries
          BY <5>1
        <5>. QED  BY <5>2 DEF n
      <4>. QED  BY Zenon, <1>3, <3>1, <4>1, CallStates
    <3>2. CASE ~(proc[p].tries < MaxTries)
      BY <3>2, IdleState
    <3>. QED  BY Zenon, <3>1, <3>2
  <2>. HIDE DEF s
  <2>3. proc' \in [Procs -> ProcState] /\ CallsFit'
    BY Zenon, <1>6, <2>1, <2>2
  <2>. QED  BY Zenon, <1>9, <2>3 DEF ExecConflict, TypeOK, redis
<1>10. CASE CallFails(p)
  <2>1. proc' = [proc EXCEPT ![p] = Idle]
    BY <1>10 DEF CallFails
  <2>2. proc' \in [Procs -> ProcState] /\ CallsFit'
    BY Zenon, <1>6, <2>1, IdleState
  <2>. QED  BY <1>10, <2>2 DEF CallFails, TypeOK, redis
<1>. QED  BY <1>7, <1>8, <1>9, <1>10

\* Clients begin calls.
LEMMA ClientTypes ==
    ASSUME TypeInv, NEW c \in Clients, NEW id \in JobIds,
           \/ CancelJob(c, id) \/ RetryJob(c, id)
           \/ \E t \in Types, max \in AttemptLimits, runAfter \in 0..MaxTime :
                Enqueue(c, id, t, max, runAfter)
    PROVE  TypeInv'
<1>. USE DEF TypeInv
<1>1. c \in Procs /\ c \notin WorkerIds
  BY ClientOrWorker DEF Procs
<1>2. ASSUME NEW call \in CallRecord, ClientCall(c, call), call.op \in {"create", "cancel", "retry"},
             call.op = "create" => /\ call.job \in Job /\ call.job.status \in Pending
                                   /\ call.job.attempt = 0
      PROVE  TypeInv'
  <2>1. Begin(call) \in ProcState /\ Begin(call).pc = "watch" /\ Begin(call).call = call
    BY Zenon, CallStates DEF Begin
  <2>2. ClientCallFits(Begin(call))
    BY <1>2, <2>1 DEF ClientCallFits
  <2>3. proc' = [proc EXCEPT ![c] = Begin(call)]
    BY Zenon, <1>2 DEF ClientCall
  <2>4. proc' \in [Procs -> ProcState] /\ CallsFit'
    BY Zenon, <1>1, <2>1, <2>2, <2>3, OneProcess
  <2>. QED  BY <1>2, <2>4 DEF ClientCall, TypeOK, redis
<1>3. now \in Nat
  BY DEF TypeOK
<1>4. CASE CancelJob(c, id)
  <2>1. Call("cancel", id, now, NotStored) \in CallRecord
    BY <1>3 DEF Call, CallRecord
  <2>. QED  BY <1>2, <1>4, <2>1 DEF CancelJob, Call
<1>5. CASE RetryJob(c, id)
  <2>1. Call("retry", id, now, NotStored) \in CallRecord
    BY <1>3 DEF Call, CallRecord
  <2>. QED  BY <1>2, <1>5, <2>1 DEF RetryJob, Call
<1>6. ASSUME NEW t \in Types, NEW max \in AttemptLimits, NEW runAfter \in 0..MaxTime,
             Enqueue(c, id, t, max, runAfter)
      PROVE  TypeInv'
  <2>. DEFINE job == NewJob(t, max, runAfter, now)
  <2>1. job \in Job /\ job.status \in Pending /\ job.attempt = 0
    BY <1>3 DEF NewJob, Job, Pending
  <2>. HIDE DEF job
  <2>2. Call("create", id, now, job) \in CallRecord
    BY <1>3, <2>1 DEF Call, CallRecord
  <2>. QED  BY Zenon, <1>2, <1>6, <2>1, <2>2 DEF Enqueue, Call, job
<1>. QED  BY <1>4, <1>5, <1>6

\* The dispatcher and the janitor.
LEMMA ManagerTypes ==
    ASSUME TypeInv, NEW m \in Managers, Claim(m) \/ ClaimAnswerLost(m) \/ Prune(m)
    PROVE  TypeInv'
<1>. USE DEF TypeInv
<1>1. StoreTypeOK /\ proc \in [Procs -> ProcState]
  BY DEF TypeOK, StoreTypeOK
<1>2. ASSUME NEW ids, proc' = Touch(proc, ids) PROVE proc' \in [Procs -> ProcState] /\ CallsFit'
  BY Zenon, <1>1, <1>2, TouchFits DEF CallsFit
<1>3. CASE Claim(m)
  <2>1. StoreTypeOK' /\ proc' \in [Procs -> ProcState] /\ CallsFit'
    BY Zenon, <1>1, <1>2, <1>3, ScriptTypes DEF Claim, ClaimStep
  <2>2. PICK s \in Listings(Claimable(now, FreeSlots(m), HandlerTypes[m])) :
               workCh' = [workCh EXCEPT ![m] = @ \o s]
    BY Zenon, <1>3 DEF Claim
  <2>3. s \in Seq(Snapshot)
    BY <1>1, ListingType
  <2>4. workCh' \in [Managers -> Seq(Snapshot)]
    BY <2>2, <2>3 DEF TypeOK
  <2>. QED  BY Zenon, <1>3, <2>1, <2>4 DEF Claim, ClaimStep, TypeOK, StoreTypeOK
<1>4. CASE ClaimAnswerLost(m)
  <2>1. StoreTypeOK' /\ proc' \in [Procs -> ProcState] /\ CallsFit'
    BY <1>1, <1>2, <1>4, ScriptTypes DEF ClaimAnswerLost, ClaimStep
  <2>. QED  BY <1>4, <2>1 DEF ClaimAnswerLost, ClaimStep, TypeOK, StoreTypeOK
<1>5. CASE Prune(m)
  <2>1. StoreTypeOK' /\ proc' \in [Procs -> ProcState] /\ CallsFit'
    BY <1>1, <1>2, <1>5, ScriptTypes DEF Prune
  <2>. QED  BY Zenon, <1>5, <2>1 DEF Prune, TypeOK, StoreTypeOK
<1>. QED  BY Zenon, <1>3, <1>4, <1>5

\* The workers.
LEMMA WorkerTypes ==
    ASSUME TypeInv, NEW w \in WorkerIds, Take(w) \/ \E ok \in BOOLEAN : HandlerReturn(w, ok)
    PROVE  TypeInv'
<1>. USE DEF TypeInv
<1>1. /\ w \in Procs /\ w \notin Clients /\ w[1] \in Managers
      /\ proc[w] \in ProcState /\ now \in Nat
  BY ClientOrWorker DEF Procs, WorkerIds, TypeOK
<1>2. ASSUME NEW s \in ProcState, WorkerCallFits(s), proc' = [proc EXCEPT ![w] = s]
      PROVE  proc' \in [Procs -> ProcState] /\ CallsFit'
  BY Zenon, <1>1, <1>2, OneProcess
<1>3. CASE Take(w)
  <2>. DEFINE h == Head(workCh[w[1]])
              s == [pc |-> "handler", call |-> Call("handle", h.id, now, h.job)]
  <2>1. workCh[w[1]] \in Seq(Snapshot) /\ workCh[w[1]] # <<>>
    BY <1>1, <1>3 DEF TypeOK, Take
  <2>2. h \in Snapshot /\ Tail(workCh[w[1]]) \in Seq(Snapshot)
    BY <2>1
  <2>3. Call("handle", h.id, now, h.job) \in CallRecord /\ h.job \in Job
    BY Zenon, <1>1, <2>2 DEF Call, CallRecord, Snapshot
  <2>4. s \in ProcState
    BY Zenon, <2>3, CallStates
  <2>5. WorkerCallFits(s)
    BY Zenon, <2>3 DEF WorkerCallFits, Call, Idle
  <2>6. proc' = [proc EXCEPT ![w] = s]
    BY Zenon, <1>3 DEF Take
  <2>7. proc' \in [Procs -> ProcState] /\ CallsFit'
    BY Zenon, <1>2, <2>4, <2>5, <2>6
  <2>8. workCh' \in [Managers -> Seq(Snapshot)]
    BY Zenon, <1>1, <1>3, <2>2 DEF Take, TypeOK
  <2>. QED  BY <1>3, <2>7, <2>8 DEF Take, TypeOK, redis
<1>4. ASSUME NEW ok \in BOOLEAN, HandlerReturn(w, ok) PROVE TypeInv'
  <2>. DEFINE id == proc[w].call.id  job == proc[w].call.job
  <2>1. proc[w].pc = "handler" /\ proc[w] # Idle /\ proc[w].call \in CallRecord
    BY Zenon, <1>1, <1>4, ProcFields DEF HandlerReturn
  <2>2. id \in JobIds /\ job \in Job
    BY Zenon, <1>1, <2>1, CallFields DEF CallsFit, WorkerCallFits
  <2>3. ASSUME NEW op \in {"succeed", "reschedule", "fail"}, NEW at \in Nat,
               op = "reschedule" => Retries(job), op = "fail" => ~Retries(job),
               proc' = [proc EXCEPT ![w] = Begin(Call(op, id, at, job))]
        PROVE  TypeInv'
    <3>. DEFINE call == Call(op, id, at, job)
    <3>1. call \in CallRecord /\ call.op = op /\ call.job = job
      BY Zenon, <2>2 DEF Call, CallRecord
    <3>. HIDE DEF call
    <3>2. Begin(call) \in ProcState /\ Begin(call).pc = "watch" /\ Begin(call).call = call
      BY Zenon, <3>1, CallStates DEF Begin
    <3>3. WorkerCallFits(Begin(call))
      BY <2>2, <2>3, <3>1, <3>2 DEF WorkerCallFits
    <3>4. proc' \in [Procs -> ProcState] /\ CallsFit'
      BY Zenon, <1>2, <2>3, <3>2, <3>3 DEF call
    <3>. QED  BY Zenon, <1>4, <3>4 DEF HandlerReturn, TypeOK, redis
  <2>4. ASSUME Retries(job) PROVE now + RetryDelay[job.attempt] \in Nat
    <3>. DEFINE d == RetryDelay[job.attempt]
    <3>1. d \in Nat
      BY <2>2, <2>4, DelayType
    <3>. HIDE DEF d
    <3>2. now + d \in Nat
      BY <1>1, <3>1
    <3>. QED  BY <3>2 DEF d
  <2>5. \/ proc' = [proc EXCEPT ![w] = Begin(Call("succeed", id, now, job))]
        \/ /\ Retries(job)
           /\ proc' = [proc EXCEPT ![w] =
                         Begin(Call("reschedule", id, now + RetryDelay[job.attempt], job))]
        \/ ~Retries(job) /\ proc' = [proc EXCEPT ![w] = Begin(Call("fail", id, now, job))]
    BY <1>4 DEF HandlerReturn
  <2>. HIDE DEF id, job
  <2>6. CASE proc' = [proc EXCEPT ![w] = Begin(Call("succeed", id, now, job))]
    BY Zenon, <1>1, <2>3, <2>6
  <2>7. CASE /\ Retries(job)
             /\ proc' = [proc EXCEPT ![w] =
                           Begin(Call("reschedule", id, now + RetryDelay[job.attempt], job))]
    BY Zenon, <2>3, <2>4, <2>7
  <2>8. CASE ~Retries(job) /\ proc' = [proc EXCEPT ![w] = Begin(Call("fail", id, now, job))]
    BY Zenon, <1>1, <2>3, <2>8
  <2>. QED  BY Zenon, <2>5, <2>6, <2>7, <2>8
<1>. QED  BY <1>3, <1>4

\* Processes stop, crash and come back.
LEMMA ProcessTypes ==
    ASSUME TypeInv, NEW m \in Managers, Shutdown(m) \/ Exit(m) \/ Crash(m) \/ Restart(m)
    PROVE  TypeInv'
<1>. USE DEF TypeInv
<1>1. CASE Shutdown(m)
  <2>1. mode' \in [Managers -> {"up", "stopping", "down"}]
    BY <1>1 DEF Shutdown, TypeOK
  <2>2. stops' \in Nat
    BY <1>1 DEF Shutdown, TypeOK
  <2>. QED  BY <1>1, <2>1, <2>2 DEF Shutdown, TypeOK, CallsFit, redis
<1>2. CASE Restart(m)
  <2>1. mode' \in [Managers -> {"up", "stopping", "down"}]
    BY Zenon, <1>2 DEF Restart, TypeOK
  <2>. QED  BY <1>2, <2>1 DEF Restart, TypeOK, CallsFit, redis
<1>3. CASE Exit(m)
  BY <1>3 DEF Exit, TypeOK, CallsFit, redis
<1>4. CASE Crash(m)
  <2>1. proc' \in [Procs -> ProcState]
    BY Zenon, <1>4, IdleState DEF Crash, TypeOK
  <2>2. CallsFit'
    BY Zenon, <1>4 DEF Crash, CallsFit, Procs, ClientCallFits, WorkerCallFits
  <2>. QED  BY <1>4, <2>1, <2>2 DEF Crash, TypeOK, redis
<1>. QED  BY <1>1, <1>2, <1>3, <1>4

\* Every step keeps the types.
LEMMA NextTypes == TypeInv /\ [Next]_vars => TypeInv'
<1>. SUFFICES ASSUME TypeInv, [Next]_vars PROVE TypeInv'
  OBVIOUS
<1>1. CASE Tick
  BY <1>1 DEF Tick, TypeInv, TypeOK, CallsFit, redis
<1>2. CASE UNCHANGED vars
  BY <1>2 DEF vars, redis, TypeInv, TypeOK, CallsFit
<1>. QED
  BY <1>1, <1>2, ClientTypes, CallTypes, ManagerTypes, WorkerTypes, ProcessTypes DEF Next

\* Every variable of the processes, of their calls and of Redis always holds a
\* value of its type.
THEOREM FleetTypeCorrect == Spec => []TypeOK
<1>1. Spec => []TypeInv
  BY InitTypes, NextTypes, PTL DEF Spec
<1>2. TypeInv => TypeOK
  BY DEF TypeInv
<1>. QED  BY <1>1, <1>2, PTL
=============================================================================
