----------------------------- MODULE MemoryStore -----------------------------
(***************************************************************************)
(* MemoryStore of pkg/jobs/store.go.  Every method runs under s.mu, so     *)
(* each one is a single step on jobs; a method that returns an error       *)
(* changes nothing and is the disabled case of its action.                 *)
(***************************************************************************)
EXTENDS JobTypes

VARIABLE jobs       \* s.jobs: id -> Job, or NotStored

Stored(id) == jobs[id] # NotStored

Create(id, job) ==
    /\ ~Stored(id)
    /\ jobs' = [jobs EXCEPT ![id] = job]

-----------------------------------------------------------------------------
(* ClaimReady                                                              *)

\* Mutant: due whatever the time.
DueAnyTime(at) == {id \in JobIds : jobs[id].status \in Pending}

\* Scheduled jobs that are due are promoted whatever their type.
Due(at) ==
    {id \in JobIds : jobs[id].status \in Pending /\ jobs[id].availableAt <= at}

\* An empty type filter admits every type.
Candidates(at, types) ==
    {id \in Due(at) : types = {} \/ jobs[id].type \in types}

\* The order of the sort: availability, then id.
Before(i, j) ==
    \/ jobs[i].availableAt < jobs[j].availableAt
    \/ jobs[i].availableAt = jobs[j].availableAt /\ i < j

\* candidates[:limit] of the sorted candidates.
FirstOf(ids, limit) ==
    {id \in ids : Cardinality({k \in ids : Before(k, id)}) < limit}

ClaimReady(at, limit, types) ==
    LET claimed == FirstOf(Candidates(at, types), limit)
    IN  /\ limit > 0
        /\ jobs' = [id \in JobIds |->
                      IF id \in claimed THEN Claimed(jobs[id])
                      ELSE IF id \in Due(at) THEN Promoted(jobs[id])
                      ELSE jobs[id]]

\* The jobs the claim returns.
ClaimedBatch(at, limit, types) ==
    {[id |-> id, job |-> Claimed(jobs[id])] : id \in FirstOf(Candidates(at, types), limit)}

-----------------------------------------------------------------------------
(* State transitions.  The three Mark operations look only at whether the  *)
(* job is stored, never at its status.                                     *)

Update(id, job) == jobs' = IF Stored(id) THEN [jobs EXCEPT ![id] = job] ELSE jobs

MarkSucceeded(id, at) == Update(id, Succeeded(jobs[id], at))

MarkRetry(id, runAt) == Update(id, Rescheduled(jobs[id], runAt))

MarkFailed(id, at) == Update(id, Failed(jobs[id], at))

\* Mutant: running jobs can be canceled.
CancelEvenRunning(id, at) ==
    /\ jobs[id].status \in Pending \cup {"running"}
    /\ jobs' = [jobs EXCEPT ![id] = Canceled(@, at)]

Cancel(id, at) ==
    /\ jobs[id].status \in Pending
    /\ jobs' = [jobs EXCEPT ![id] = Canceled(@, at)]

Retry(id, at) ==
    /\ jobs[id].status \in {"failed", "canceled"}
    /\ jobs' = [jobs EXCEPT ![id] = Requeued(@, at)]

\* The finished jobs that completed strictly before the cutoff.
Expired(cutoff) ==
    {id \in JobIds : /\ jobs[id].status \in Terminal
                     /\ jobs[id].completedAt # NoTime
                     /\ jobs[id].completedAt < cutoff}

PruneTerminalBefore(cutoff) ==
    jobs' = [id \in JobIds |-> IF id \in Expired(cutoff) THEN NotStored ELSE jobs[id]]
=============================================================================
