---------------------------- MODULE JobLifecycle ----------------------------
(***************************************************************************)
(* What pkg/jobs promises of one job, whatever the store and however many  *)
(* workers there are: the edges its status may follow, and what the        *)
(* attempt counter says on each.  One step of an implementation may move   *)
(* several jobs (a claim takes a batch, the janitor prunes a batch), so a  *)
(* step moves any set of jobs, each along one edge.                        *)
(***************************************************************************)
EXTENDS Naturals

CONSTANTS JobIds

VARIABLE life       \* id -> [status, attempt, max]

Absent == [status |-> "absent", attempt |-> 0, max |-> 0]

Init == life = [id \in JobIds |-> Absent]

\* A move that keeps the attempt count and its limit.
Keeps(j, k) == k.attempt = j.attempt /\ k.max = j.max

Submit(j, k) ==
    /\ j = Absent
    /\ k.status \in {"scheduled", "queued"}
    /\ k.attempt = 0 /\ k.max > 0

Promote(j, k) == j.status = "scheduled" /\ k.status = "queued" /\ Keeps(j, k)

\* A claim starts one more attempt and never one beyond the limit.
Claim(j, k) ==
    /\ j.status \in {"scheduled", "queued"} /\ k.status = "running"
    /\ k.attempt = j.attempt + 1 /\ k.attempt <= j.max /\ k.max = j.max

Succeed(j, k) == j.status = "running" /\ k.status = "succeeded" /\ Keeps(j, k)

\* Only a running job with attempts left is rescheduled ...
Reschedule(j, k) ==
    /\ j.status = "running" /\ k.status = "scheduled"
    /\ j.attempt < j.max /\ Keeps(j, k)

\* ... and only one that has used them all fails.
Fail(j, k) ==
    /\ j.status = "running" /\ k.status = "failed"
    /\ j.attempt = j.max /\ Keeps(j, k)

Cancel(j, k) ==
    j.status \in {"scheduled", "queued"} /\ k.status = "canceled" /\ Keeps(j, k)

Requeue(j, k) ==
    /\ j.status \in {"failed", "canceled"} /\ k.status = "queued"
    /\ k.attempt = 0 /\ k.max = j.max

Forget(j, k) == j.status \in {"succeeded", "failed", "canceled"} /\ k = Absent

Move(j, k) ==
    \/ Submit(j, k)     \/ Promote(j, k) \/ Claim(j, k)
    \/ Succeed(j, k)    \/ Fail(j, k)    \/ Reschedule(j, k)
    \/ Cancel(j, k)     \/ Requeue(j, k) \/ Forget(j, k)

Next == \A id \in JobIds : life'[id] = life[id] \/ Move(life[id], life'[id])

Spec == Init /\ [][Next]_life
=============================================================================
