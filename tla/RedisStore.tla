----------------------------- MODULE RedisStore -----------------------------
(***************************************************************************)
(* The data RedisStore of pkg/jobs/redis_store.go keeps in Redis and the   *)
(* writes it makes: the MULTI/EXEC block of Create and updateJob and the   *)
(* two Lua scripts.  Redis runs each of them as one step.  What a caller   *)
(* does around them (WATCH, read, EXEC, try again) is in JobFleet.         *)
(***************************************************************************)
EXTENDS JobTypes

CONSTANT TicksPerMs     \* clock ticks in a millisecond, the unit of a score

ASSUME RedisConstants == TicksPerMs \in Nat \ {0}

VARIABLES
    jobs,           \* <ns>:job:<id>, or NotStored
    available,      \* <ns>:index:available: id -> score, NoTime when no member
    terminal,       \* <ns>:index:terminal, likewise
    created         \* <ns>:index:created, the members only

redis == <<jobs, available, terminal, created>>

RedisInit ==
    /\ jobs = [id \in JobIds |-> NotStored]
    /\ available = [id \in JobIds |-> NoTime]
    /\ terminal = [id \in JobIds |-> NoTime]
    /\ created = {}

\* Times are kept exactly in the job and truncated to milliseconds in the
\* indexes.
timeScore(t) == t \div TicksPerMs

\* Mutant: scheduled jobs are not indexed.
AvailableScoreOfQueued(j) ==
    IF j.status = "queued" THEN timeScore(j.availableAt) ELSE NoTime

AvailableScore(j) ==
    IF j.status \in Pending THEN timeScore(j.availableAt) ELSE NoTime

TerminalScore(j) ==
    IF j.status \in Terminal /\ j.completedAt # NoTime
    THEN timeScore(j.completedAt) ELSE NoTime

SyncIndexes(id, j) ==
    /\ available' = [available EXCEPT ![id] = AvailableScore(j)]
    /\ terminal' = [terminal EXCEPT ![id] = TerminalScore(j)]

\* The transaction of Create and of updateJob.  An id that is updated is in the
\* created index already, so one definition serves both.
SetJob(id, j) ==
    /\ jobs' = [jobs EXCEPT ![id] = j]
    /\ created' = created \cup {id}
    /\ SyncIndexes(id, j)

-----------------------------------------------------------------------------
(* claimReadyScript                                                        *)

\* Mutant: members of the next millisecond are due as well.
ReadyNextMillisecond(at) ==
    {id \in JobIds : available[id] # NoTime /\ available[id] <= timeScore(at) + 1}

\* The members of the available index that are due, in the order of the index:
\* score, then id.
Ready(at) ==
    {id \in JobIds : available[id] # NoTime /\ available[id] <= timeScore(at)}

IndexedBefore(i, j) ==
    \/ available[i] < available[j]
    \/ available[i] = available[j] /\ i < j

\* ZRANGEBYSCORE ... LIMIT 0 limit: the limit is applied before the filters.
Scanned(at, limit) ==
    {id \in Ready(at) : Cardinality({k \in Ready(at) : IndexedBefore(k, id)}) < limit}

Claimable(at, limit, types) ==
    {id \in Scanned(at, limit) :
        jobs[id].status \in Pending /\ (types = {} \/ jobs[id].type \in types)}

\* Members whose job is gone or is not waiting any more are dropped.
Dangling(at, limit) ==
    {id \in Scanned(at, limit) : jobs[id].status \notin Pending}

ClaimReady(at, limit, types) ==
    LET claimed == Claimable(at, limit, types)
    IN  /\ limit > 0
        /\ jobs' = [id \in JobIds |-> IF id \in claimed THEN Claimed(jobs[id]) ELSE jobs[id]]
        /\ available' = [id \in JobIds |->
                           IF id \in claimed \cup Dangling(at, limit) THEN NoTime
                           ELSE available[id]]
        /\ UNCHANGED <<terminal, created>>

-----------------------------------------------------------------------------
(* pruneTerminalScript                                                     *)

\* Mutant: members of the next millisecond have expired as well.
ExpiredNextMillisecond(cutoff) ==
    {id \in JobIds : terminal[id] # NoTime /\ terminal[id] <= timeScore(cutoff) + 1}

\* The terminal index alone decides: the job's status is not looked at.
Expired(cutoff) ==
    {id \in JobIds : terminal[id] # NoTime /\ terminal[id] <= timeScore(cutoff)}

PruneTerminalBefore(cutoff) ==
    LET gone == Expired(cutoff)
    IN  /\ jobs' = [id \in JobIds |-> IF id \in gone THEN NotStored ELSE jobs[id]]
        /\ available' = [id \in JobIds |-> IF id \in gone THEN NoTime ELSE available[id]]
        /\ terminal' = [id \in JobIds |-> IF id \in gone THEN NoTime ELSE terminal[id]]
        /\ created' = created \ gone
=============================================================================
