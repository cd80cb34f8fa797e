------------------------------ MODULE JobTypes ------------------------------
(***************************************************************************)
(* The job record of pkg/jobs/types.go and the mutations the stores apply  *)
(* to it.  MemoryStore (store.go) and RedisStore (redis_store.go) perform  *)
(* the same field assignments, so both use the operators of this module.   *)
(*                                                                         *)
(* Kept of a job: the fields that guards read (status, type, attempt,      *)
(* max_attempts, available_at, completed_at).  Payload, result, metadata,  *)
(* queue, timeout, last_error and the other timestamps are written and     *)
(* never read by the runtime, and are left out.                            *)
(***************************************************************************)
EXTENDS Integers, FiniteSets

CONSTANTS
    JobIds,         \* job ids, numbers because ids are ordered (ties in ClaimReady)
    Types,          \* job types
    MaxAttemptLimit, \* bound: MaxAttempts of a job lies in 1..MaxAttemptLimit
    NoTime          \* the nil CompletedAt

ASSUME JobConstants ==
    /\ JobIds \subseteq Nat
    /\ IsFiniteSet(JobIds)
    /\ MaxAttemptLimit \in Nat
    /\ NoTime \notin Nat

AttemptLimits == 1..MaxAttemptLimit

Pending == {"scheduled", "queued"}

Terminal == {"succeeded", "failed", "canceled"}

Job == [status      : Pending \cup {"running"} \cup Terminal,
        type        : Types,
        attempt     : Nat,
        max         : AttemptLimits,
        availableAt : Nat,
        completedAt : Nat \cup {NoTime}]

\* An id the store has no job for.
NotStored == [status |-> "absent"]

\* The copy of a job that ClaimReady hands out (Job.clone).
Snapshot == [id : JobIds, job : Job]

-----------------------------------------------------------------------------
(* Field assignments of the store operations.                              *)

\* A job as Enqueue builds it: scheduled when RunAfter lies in the future.
NewJob(type, max, runAfter, at) ==
    [status      |-> IF runAfter > at THEN "scheduled" ELSE "queued",
     type        |-> type,
     attempt     |-> 0,
     max         |-> max,
     availableAt |-> IF runAfter > at THEN runAfter ELSE at,
     completedAt |-> NoTime]

Promoted(j) == [j EXCEPT !.status = "queued"]

\* Mutant: a claim that leaves the job queued.
ClaimedStillQueued(j) == [j EXCEPT !.attempt = @ + 1]

Claimed(j) == [j EXCEPT !.status = "running", !.attempt = @ + 1]

Succeeded(j, at) == [j EXCEPT !.status = "succeeded", !.completedAt = at]

Rescheduled(j, runAt) ==
    [j EXCEPT !.status = "scheduled", !.availableAt = runAt, !.completedAt = NoTime]

Failed(j, at) == [j EXCEPT !.status = "failed", !.completedAt = at]

Canceled(j, at) == [j EXCEPT !.status = "canceled", !.completedAt = at]

\* Mutant: a retry that keeps the attempts used so far.
RequeuedKeepingAttempts(j, at) ==
    [j EXCEPT !.status = "queued", !.availableAt = at, !.completedAt = NoTime]

Requeued(j, at) ==
    [j EXCEPT !.status = "queued", !.attempt = 0,
              !.availableAt = at, !.completedAt = NoTime]
=============================================================================
