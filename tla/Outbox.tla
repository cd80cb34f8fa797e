------------------------------- MODULE Outbox -------------------------------
(***************************************************************************)
(* The outbox processors of pkg/events/outbox/processor.go: each claims a  *)
(* batch of records under a lease, publishes them one by one and reports   *)
(* every outcome to the store.  Neither report names the claimer, and the  *)
(* lease is not renewed while a batch is worked through.                   *)
(*                                                                         *)
(* Time is relative: the store's deadlines are the ticks left until them   *)
(* and the clock value a processor holds is its age, so no bound on the    *)
(* clock is needed.  Store and Publisher are interfaces of the package;    *)
(* their behaviour is what the processor relies on.  A record with a blank *)
(* ID, which processRecord skips, has no place in a keyed store.           *)
(***************************************************************************)
EXTENDS Integers, FiniteSets

CONSTANTS
    Records,        \* the records of the outbox table
    Processors,     \* the processes that run a Processor
    RawOptions,     \* the ProcessorOptions a service may pass
    Defaults,       \* default lease, minRetry, maxRetry and batch, in ticks
    MaxFaults       \* bound: failing calls and crashes

Options == [lease : Int, minRetry : Int, maxRetry : Int, batch : Int]

ASSUME OutboxConstants ==
    /\ RawOptions \subseteq Options
    /\ Defaults \in Options
    /\ Defaults.lease > 0 /\ Defaults.minRetry > 0
    /\ Defaults.maxRetry > 0 /\ Defaults.batch > 0
    /\ IsFiniteSet(Records) /\ IsFiniteSet(Processors)
    /\ MaxFaults \in Nat

VARIABLES
    opts,           \* the options of the processors after NewProcessor
    rec,            \* record -> [status, attempts, wait, lease], the store
    proc,           \* processor -> where its goroutine is
    sent,           \* record -> times the transport took the event
    excused,        \* history: record -> reasons for it to be sent once more
    faults          \* failing calls and crashes so far

vars == <<opts, rec, proc, sent, excused, faults>>

Larger(a, b) == IF a >= b THEN a ELSE b

Smaller(a, b) == IF a <= b THEN a ELSE b

\* Mutant: MaxRetryBackoff is not raised to MinRetryBackoff.
NewProcessorUnordered(raw) ==
    [f \in DOMAIN raw |-> IF raw[f] <= 0 THEN Defaults[f] ELSE raw[f]]

NewProcessor(raw) ==
    LET set == [f \in DOMAIN raw |-> IF raw[f] <= 0 THEN Defaults[f] ELSE raw[f]]
    IN  [set EXCEPT !.maxRetry = Larger(set.maxRetry, set.minRetry)]

\* The delay before the given attempt is repeated: doubled per attempt and
\* capped.  (64-bit durations overflow only when maxRetry exceeds 146 years.)
RetryBackoff(attempt) ==
    IF attempt <= 1 THEN opts.minRetry
    ELSE Smaller(opts.minRetry * 2^(attempt - 1), opts.maxRetry)

Polling == [pc |-> "poll"]

Stopped == [pc |-> "stopped"]

Fresh == [status |-> "pending", attempts |-> 0, wait |-> 0, lease |-> 0]

Init ==
    /\ opts \in {NewProcessor(raw) : raw \in RawOptions}
    /\ rec = [r \in Records |-> Fresh]
    /\ proc = [p \in Processors |-> Polling]
    /\ sent = [r \in Records |-> 0]
    /\ excused = [r \in Records |-> 0]
    /\ faults = 0

Ids(todo) == {c.id : c \in todo}

\* The records a processor in state s still has to deal with.
Held(s) ==
    CASE s.pc = "batch" -> Ids(s.todo)
      [] s.pc \in {"publish", "report"} -> Ids(s.todo) \cup {s.cur.id}
      [] OTHER -> {}

Holding(p) == Held(proc[p])

Fault == faults < MaxFaults /\ faults' = faults + 1

\* One more copy of each record of S may be sent.
Excuse(S) == excused' = [r \in Records |-> excused[r] + IF r \in S THEN 1 ELSE 0]

Remaining(todo) == IF todo = {} THEN Polling ELSE [pc |-> "batch", todo |-> todo]

-----------------------------------------------------------------------------
(* The store (external).                                                   *)

Claimable ==
    {r \in Records : rec[r].status = "pending" /\ rec[r].wait = 0 /\ rec[r].lease = 0}

\* A batch: as many claimable records as there are, up to the limit.
Batches ==
    {S \in SUBSET Claimable : Cardinality(S) = Smaller(opts.batch, Cardinality(Claimable))}

\* ClaimBatch leases the batch.
Claimed(S) ==
    [r \in Records |-> IF r \in S THEN [rec[r] EXCEPT !.lease = opts.lease] ELSE rec[r]]

\* The copies of the batch that ClaimBatch returns.
Copies(S) == {[id |-> r, attempts |-> rec[r].attempts] : r \in S}

\* MarkDelivered
MarkedDelivered(r) == [rec EXCEPT ![r].status = "delivered", ![r].lease = 0]

\* MarkFailed: one more failed attempt, due again after wait ticks.
MarkedFailed(r, wait) ==
    [rec EXCEPT ![r] = [status |-> "pending", attempts |-> @.attempts + 1,
                        wait |-> wait, lease |-> 0]]

-----------------------------------------------------------------------------
(* Run and ProcessOnce.                                                    *)

\* A tick of the poll interval: the clock is read and the batch claimed.
\* History: a record somebody still holds is now held twice.
ProcessOnce(p) ==
    /\ proc[p].pc = "poll"
    /\ \E S \in Batches :
         /\ rec' = Claimed(S)
         /\ proc' = [proc EXCEPT ![p] = Remaining(Copies(S))]
         /\ Excuse({r \in S : \E q \in Processors : r \in Holding(q)})
    /\ UNCHANGED <<opts, sent, faults>>

\* ClaimBatch fails, or its answer is lost after the lease was taken.
ClaimFails(p) ==
    /\ proc[p].pc = "poll"
    /\ Fault
    /\ rec' \in {rec} \cup {Claimed(S) : S \in Batches}
    /\ UNCHANGED <<opts, proc, sent, excused>>

\* Mutant: a record that failed before is given up.
BeginFirstAttemptsOnly(p) ==
    /\ proc[p].pc = "batch"
    /\ \E c \in proc[p].todo :
         proc' = [proc EXCEPT ![p] =
                    IF c.attempts > 0 THEN Remaining(@.todo \ {c})
                    ELSE [pc |-> "publish", todo |-> @.todo \ {c}, cur |-> c, age |-> 0]]
    /\ UNCHANGED <<opts, rec, sent, excused, faults>>

\* processRecord up to Publish: the clock is read here.
Begin(p) ==
    /\ proc[p].pc = "batch"
    /\ \E c \in proc[p].todo :
         proc' = [proc EXCEPT ![p] = [pc |-> "publish", todo |-> @.todo \ {c}, cur |-> c,
                                      age |-> 0]]
    /\ UNCHANGED <<opts, rec, sent, excused, faults>>

\* Publish returns.  An error may hide an event that was taken (a timeout).
Publish(p, ok, taken) ==
    /\ proc[p].pc = "publish"
    /\ ok => taken
    /\ IF ok THEN UNCHANGED faults ELSE Fault
    /\ proc' = [proc EXCEPT ![p] = [pc |-> "report", todo |-> @.todo, cur |-> @.cur,
                                    age |-> @.age, ok |-> ok]]
    /\ sent' = [sent EXCEPT ![proc[p].cur.id] = @ + IF taken THEN 1 ELSE 0]
    /\ Excuse(IF taken /\ ~ok THEN {proc[p].cur.id} ELSE {})
    /\ UNCHANGED <<opts, rec>>

\* Mutant: the record is marked delivered whatever Publish returned.
ReportAlwaysDelivered(p) ==
    /\ proc[p].pc = "report"
    /\ rec' = MarkedDelivered(proc[p].cur.id)
    /\ proc' = [proc EXCEPT ![p] = Remaining(@.todo)]
    /\ UNCHANGED <<opts, sent, excused, faults>>

\* What is left of the backoff, which counts from the start of the attempt.
Wait(p) == Larger(0, RetryBackoff(proc[p].cur.attempts + 1) - proc[p].age)

\* Mutant: a success is not reported.
ReportFailuresOnly(p) ==
    /\ proc[p].pc = "report"
    /\ rec' = IF proc[p].ok THEN rec
              ELSE MarkedFailed(proc[p].cur.id, Wait(p))
    /\ proc' = [proc EXCEPT ![p] = Remaining(@.todo)]
    /\ UNCHANGED <<opts, sent, excused, faults>>

\* The rest of processRecord.  MarkFailed of a record that another processor
\* delivered meanwhile may or may not bring it back: the contract is silent.
Report(p) ==
    LET r == proc[p].cur.id
    IN  /\ proc[p].pc = "report"
        /\ rec' \in IF proc[p].ok THEN {MarkedDelivered(r)}
                    ELSE {MarkedFailed(r, Wait(p))}
                           \cup IF rec[r].status = "delivered" THEN {rec} ELSE {}
        /\ proc' = [proc EXCEPT ![p] = Remaining(@.todo)]
        /\ UNCHANGED <<opts, sent, excused, faults>>

\* The Mark call fails (or its answer is lost): only logged.
ReportFails(p) ==
    LET r == proc[p].cur.id
    IN  /\ proc[p].pc = "report"
        /\ Fault
        /\ proc' = [proc EXCEPT ![p] = Remaining(@.todo)]
        /\ Excuse(IF proc[p].ok THEN {r} ELSE {})
        /\ UNCHANGED <<opts, rec, sent>>

\* ctx.Done() is chosen by the select; a batch under way is finished first.
Stop(p) ==
    /\ proc[p].pc = "poll"
    /\ Fault
    /\ proc' = [proc EXCEPT ![p] = Stopped]
    /\ UNCHANGED <<opts, rec, sent, excused>>

\* The process dies; what it held stays leased in the store.
Crash(p) ==
    /\ proc[p].pc \notin {"poll", "stopped"}
    /\ Fault
    /\ proc' = [proc EXCEPT ![p] = Stopped]
    /\ Excuse(IF proc[p].pc = "report" /\ proc[p].ok THEN {proc[p].cur.id} ELSE {})
    /\ UNCHANGED <<opts, rec, sent>>

\* The service is started again.
Run(p) ==
    /\ proc[p].pc = "stopped"
    /\ proc' = [proc EXCEPT ![p] = Polling]
    /\ UNCHANGED <<opts, rec, sent, excused, faults>>

\* An age beyond the largest backoff makes no difference.
Older(s) ==
    IF s.pc \in {"publish", "report"}
    THEN [s EXCEPT !.age = Smaller(@ + 1, opts.maxRetry)] ELSE s

Tick ==
    /\ rec' = [r \in Records |-> [rec[r] EXCEPT !.wait = Larger(0, @ - 1),
                                                !.lease = Larger(0, @ - 1)]]
    /\ proc' = [p \in Processors |-> Older(proc[p])]
    /\ UNCHANGED <<opts, sent, excused, faults>>

Work(p) ==
    \/ ProcessOnce(p)
    \/ Begin(p)
    \/ \E ok, taken \in BOOLEAN : Publish(p, ok, taken)
    \/ Report(p)

Next ==
    \/ \E p \in Processors : Work(p) \/ ClaimFails(p) \/ ReportFails(p)
                               \/ Stop(p) \/ Crash(p) \/ Run(p)
    \/ Tick

Spec == Init /\ [][Next]_vars

(***************************************************************************)
(* Fairness: the poll ticker keeps firing, a Publish call returns (its     *)
(* context has a timeout), the loop over the batch goes on, a service that *)
(* stopped is started again, and time passes.                              *)
(***************************************************************************)
FairSpec ==
    /\ Spec
    /\ \A p \in Processors : WF_vars(Work(p)) /\ WF_vars(Run(p))
    /\ WF_vars(Tick)

-----------------------------------------------------------------------------
(* Properties.                                                             *)

Copy == [id : Records, attempts : Nat]

ProcState ==
    [pc : {"poll", "stopped"}]
      \cup [pc : {"batch"}, todo : SUBSET Copy]
      \cup [pc : {"publish"}, todo : SUBSET Copy, cur : Copy, age : Nat]
      \cup [pc : {"report"}, todo : SUBSET Copy, cur : Copy, age : Nat, ok : BOOLEAN]

\* Every variable holds a value of its type.
TypeOK ==
    /\ opts \in Options
    /\ rec \in [Records -> [status : {"pending", "delivered"}, attempts : Nat,
                            wait : Nat, lease : Nat]]
    /\ proc \in [Processors -> ProcState]
    /\ sent \in [Records -> Nat]
    /\ excused \in [Records -> Nat]
    /\ faults \in 0..MaxFaults

\* No event is lost: a record marked delivered was taken by the transport,
\* whatever crashed, expired or was reported late (processRecord calls
\* MarkDelivered only after Publish returned nil).
DeliveredWasSent ==
    \A r \in Records : rec[r].status = "delivered" => sent[r] > 0

\* Duplicates have a cause: an event is sent again only after a lease ran out
\* under its holder, a crash or failed MarkDelivered after Publish, or a
\* Publish that failed after taking effect.
DuplicatesHaveACause ==
    \A r \in Records : sent[r] <= 1 + excused[r]

\* A failed attempt is repeated no sooner than the minimum backoff and no later
\* than the maximum backoff after it started.  Both count from the clock value
\* read before Publish, so a slow failure eats up its own backoff.
BackoffCountsFromTheStart ==
    [][\A p \in Processors :
         proc[p].pc = "report" /\ proc'[p] # proc[p] /\ rec' # rec /\ proc'[p].pc # "report"
           => LET r == proc[p].cur.id
              IN  ~proc[p].ok =>
                    /\ rec'[r].wait >= opts.minRetry - proc[p].age
                    /\ rec'[r].wait <= opts.maxRetry - proc[p].age]_vars

\* Every record ends up delivered for good, in spite of failing calls,
\* crashes, expired leases and late reports.
EveryRecordDelivered ==
    \A r \in Records : <>[](rec[r].status = "delivered")

-----------------------------------------------------------------------------
(* The inductive invariant of the proofs.                                  *)

\* The records a processor in state s has yet to publish, or failed to publish
\* and has yet to report.
Unsent(s) ==
    CASE s.pc = "batch" -> Ids(s.todo)
      [] s.pc = "publish" -> Ids(s.todo) \cup {s.cur.id}
      [] s.pc = "report" -> IF s.ok THEN Ids(s.todo) ELSE Ids(s.todo) \cup {s.cur.id}
      [] OTHER -> {}

Senders(r) == {p \in Processors : r \in Unsent(proc[p])}

\* A record that waits in the store with nobody dealing with it.
Waiting(r) == rec[r].status = "pending" /\ \A p \in Processors : r \notin Holding(p)

\* A processor in state s has no record twice.
OneCopyEach(s) ==
    /\ s.pc \in {"batch", "publish", "report"} => \A c, d \in s.todo : c.id = d.id => c = d
    /\ s.pc \in {"publish", "report"} => s.cur.id \notin Ids(s.todo)

\* A published record that is about to be reported was taken by the transport.
PublishedWasSent ==
    \A p \in Processors : proc[p].pc = "report" /\ proc[p].ok => sent[proc[p].cur.id] > 0

\* Every copy of an event that was or can still be sent is the first one or has
\* a cause of its own.
CopiesAccounted ==
    \A r \in Records :
        sent[r] + Cardinality(Senders(r)) + (IF Waiting(r) THEN 1 ELSE 0) <= 1 + excused[r]

OutboxInv ==
    /\ TypeOK /\ opts.lease > 0 /\ opts.maxRetry > 0
    /\ \A p \in Processors : OneCopyEach(proc[p])
    /\ PublishedWasSent /\ DeliveredWasSent /\ CopiesAccounted
=============================================================================
