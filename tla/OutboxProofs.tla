---------------------------- MODULE OutboxProofs ----------------------------
(* No event of the outbox is lost or sent again without a cause, for any   *)
(* number of records and processors and whatever the options are.          *)
EXTENDS Outbox, FiniteSetTheorems, TLAPS

(***************************************************************************)
(* Type correctness.                                                       *)
(***************************************************************************)

TypeInv == TypeOK /\ opts.lease > 0 /\ opts.maxRetry > 0

\* The fields of a processor's state.
LEMMA ProcFields ==
    ASSUME NEW s \in ProcState
    PROVE  /\ s.pc \in {"poll", "stopped", "batch", "publish", "report"}
           /\ s.pc \in {"batch", "publish", "report"} => s.todo \in SUBSET Copy
           /\ s.pc \in {"publish", "report"} => s.cur \in Copy /\ s.age \in Nat
           /\ s.pc = "report" => s.ok \in BOOLEAN
BY DEF ProcState

\* The rest of a batch is a state of the processor.
LEMMA RemainingType ==
    ASSUME NEW todo \in SUBSET Copy
    PROVE  Remaining(todo) \in ProcState
BY DEF Remaining, Polling, ProcState

\* The record of an outbox copy.
LEMMA CopyFields ==
    ASSUME NEW c \in Copy PROVE c.id \in Records /\ c.attempts \in Nat
BY DEF Copy

\* The clamped rest of a backoff is a natural number.
LEMMA WaitType ==
    ASSUME TypeInv, NEW p \in Processors, proc[p].pc = "report"
    PROVE  Wait(p) \in Nat
<1>1. proc[p].cur \in Copy /\ proc[p].age \in Nat
  BY ProcFields DEF TypeInv, TypeOK
<1>2. opts.minRetry \in Int /\ opts.maxRetry \in Int
  BY DEF TypeInv, TypeOK, Options
<1>3. proc[p].cur.attempts + 1 \in Int
  BY <1>1, CopyFields
<1>4. RetryBackoff(proc[p].cur.attempts + 1) \in Int
  <2>. DEFINE n == proc[p].cur.attempts + 1
  <2>1. 2^(n - 1) \in Int
    BY <1>3
  <2>2. opts.minRetry * 2^(n - 1) \in Int
    BY <1>2, <2>1
  <2>. QED  BY <1>2, <2>2 DEF RetryBackoff, Smaller
<1>. QED  BY <1>1, <1>4 DEF Wait, Larger

\* NewProcessor leaves positive options.
LEMMA NewProcessorType ==
    ASSUME NEW raw \in RawOptions
    PROVE  /\ NewProcessor(raw) \in Options
           /\ NewProcessor(raw).lease > 0 /\ NewProcessor(raw).maxRetry > 0
<1>1. raw \in Options /\ Defaults \in Options
  BY OutboxConstants
<1>2. /\ DOMAIN raw = {"lease", "minRetry", "maxRetry", "batch"}
      /\ raw.lease \in Int /\ raw.minRetry \in Int /\ raw.maxRetry \in Int /\ raw.batch \in Int
      /\ Defaults.lease \in Int /\ Defaults.minRetry \in Int
      /\ Defaults.maxRetry \in Int /\ Defaults.batch \in Int
  BY <1>1 DEF Options
<1>3. /\ Defaults.lease > 0 /\ Defaults.minRetry > 0
      /\ Defaults.maxRetry > 0 /\ Defaults.batch > 0
  BY OutboxConstants
<1>. DEFINE set == [f \in DOMAIN raw |-> IF raw[f] <= 0 THEN Defaults[f] ELSE raw[f]]
<1>4. /\ set \in Options /\ set.lease > 0 /\ set.minRetry > 0 /\ set.maxRetry > 0
  BY <1>2, <1>3 DEF Options
<1>5. NewProcessor(raw) = [set EXCEPT !.maxRetry = Larger(set.maxRetry, set.minRetry)]
  BY DEF NewProcessor
<1>. HIDE DEF set
<1>6. Larger(set.maxRetry, set.minRetry) \in Int /\ Larger(set.maxRetry, set.minRetry) > 0
  BY <1>4 DEF Larger, Options
<1>. QED  BY <1>4, <1>5, <1>6 DEF Options

RecState == [status : {"pending", "delivered"}, attempts : Nat, wait : Nat, lease : Nat]

\* What the leases, the reports and the clock write are records of the store.
LEMMA StoreType ==
    ASSUME TypeInv
    PROVE  /\ \A S : Claimed(S) \in [Records -> RecState]
           /\ \A r \in Records : MarkedDelivered(r) \in [Records -> RecState]
           /\ \A r \in Records, w \in Nat : MarkedFailed(r, w) \in [Records -> RecState]
<1>1. rec \in [Records -> RecState]
  BY DEF TypeInv, TypeOK, RecState
<1>2. opts.lease \in Nat
  BY DEF TypeInv, TypeOK, Options
<1>3. \A S : Claimed(S) \in [Records -> RecState]
  BY <1>1, <1>2 DEF Claimed, RecState
<1>4. \A r \in Records : MarkedDelivered(r) \in [Records -> RecState]
  BY Zenon, <1>1 DEF MarkedDelivered, RecState
<1>5. \A r \in Records, w \in Nat : MarkedFailed(r, w) \in [Records -> RecState]
  BY <1>1 DEF MarkedFailed, RecState
<1>. QED  BY <1>3, <1>4, <1>5

\* An excuse is counted.
LEMMA ExcuseType ==
    ASSUME TypeInv, NEW S, Excuse(S) PROVE excused' \in [Records -> Nat]
BY DEF TypeInv, TypeOK, Excuse

LEMMA TypeInit == Init => TypeInv
<1>. SUFFICES ASSUME Init PROVE TypeInv
  OBVIOUS
<1>1. opts \in Options /\ opts.lease > 0 /\ opts.maxRetry > 0
  BY NewProcessorType DEF Init
<1>2. rec \in [Records -> [status : {"pending", "delivered"}, attempts : Nat,
                           wait : Nat, lease : Nat]]
  BY DEF Init, Fresh
<1>3. proc \in [Processors -> ProcState]
  BY DEF Init, Polling, ProcState
<1>4. sent \in [Records -> Nat] /\ excused \in [Records -> Nat] /\ faults \in 0..MaxFaults
  BY OutboxConstants DEF Init
<1>. QED  BY <1>1, <1>2, <1>3, <1>4 DEF TypeInv, TypeOK

\* A step that changes the options not and leaves every other variable in its
\* type keeps the types.
LEMMA TypeParts ==
    ASSUME TypeInv, UNCHANGED opts,
           rec' \in [Records -> RecState], proc' \in [Processors -> ProcState],
           sent' \in [Records -> Nat], excused' \in [Records -> Nat],
           UNCHANGED faults \/ Fault
    PROVE  TypeInv'
<1>1. faults' \in 0..MaxFaults
  BY OutboxConstants DEF TypeInv, TypeOK, Fault
<1>. QED  BY <1>1 DEF TypeInv, TypeOK, RecState

LEMMA TypeNext == TypeInv /\ [Next]_vars => TypeInv'
<1>. SUFFICES ASSUME TypeInv, [Next]_vars PROVE TypeInv'
  OBVIOUS
<1>0. /\ rec \in [Records -> RecState] /\ proc \in [Processors -> ProcState]
      /\ sent \in [Records -> Nat] /\ excused \in [Records -> Nat]
  BY DEF TypeInv, TypeOK, RecState
<1>1. ASSUME NEW p \in Processors, ProcessOnce(p) PROVE TypeInv'
  <2>1. PICK S \in Batches : /\ rec' = Claimed(S)
                             /\ proc' = [proc EXCEPT ![p] = Remaining(Copies(S))]
                             /\ Excuse({r \in S : \E q \in Processors : r \in Holding(q)})
    BY Zenon, <1>1 DEF ProcessOnce
  <2>2. S \subseteq Records
    BY DEF Batches, Claimable
  <2>3. Copies(S) \in SUBSET Copy
    BY <1>0, <2>2 DEF Copies, Copy, RecState
  <2>4. proc' \in [Processors -> ProcState]
    BY <1>0, <2>1, <2>3, RemainingType
  <2>5. rec' \in [Records -> RecState] /\ excused' \in [Records -> Nat]
    BY <2>1, StoreType, ExcuseType
  <2>. QED  BY <1>0, <1>1, <2>4, <2>5, TypeParts DEF ProcessOnce
<1>2. ASSUME NEW p \in Processors, Begin(p) PROVE TypeInv'
  <2>1. PICK c \in proc[p].todo :
           proc' = [proc EXCEPT ![p] = [pc |-> "publish", todo |-> @.todo \ {c}, cur |-> c,
                                        age |-> 0]]
    BY Zenon, <1>2 DEF Begin
  <2>2. proc[p].todo \in SUBSET Copy
    BY <1>0, <1>2, ProcFields DEF Begin
  <2>3. [pc |-> "publish", todo |-> proc[p].todo \ {c}, cur |-> c, age |-> 0] \in ProcState
    BY <2>2 DEF ProcState
  <2>4. proc' \in [Processors -> ProcState]
    BY <1>0, <2>1, <2>3
  <2>. QED  BY <1>0, <1>2, <2>4, TypeParts DEF Begin
<1>3. ASSUME NEW p \in Processors, NEW ok \in BOOLEAN, NEW taken \in BOOLEAN,
             Publish(p, ok, taken)
      PROVE  TypeInv'
  <2>1. proc[p].todo \in SUBSET Copy /\ proc[p].cur \in Copy /\ proc[p].age \in Nat
    BY <1>0, <1>3, ProcFields DEF Publish
  <2>2. [pc |-> "report", todo |-> proc[p].todo, cur |-> proc[p].cur,
         age |-> proc[p].age, ok |-> ok] \in ProcState
    BY <2>1 DEF ProcState
  <2>3. proc' \in [Processors -> ProcState]
    BY Zenon, <1>0, <1>3, <2>2 DEF Publish
  <2>4. sent' \in [Records -> Nat]
    BY <1>0, <1>3, <2>1, CopyFields DEF Publish
  <2>5. excused' \in [Records -> Nat]
    BY <1>3, ExcuseType DEF Publish
  <2>. QED  BY <1>0, <1>3, <2>3, <2>4, <2>5, TypeParts DEF Publish
<1>4. ASSUME NEW p \in Processors, Report(p) PROVE TypeInv'
  <2>1. proc[p].todo \in SUBSET Copy /\ proc[p].cur.id \in Records
    BY Zenon, <1>0, <1>4, ProcFields, CopyFields DEF Report
  <2>2. proc' \in [Processors -> ProcState]
    BY Zenon, <1>0, <1>4, <2>1, RemainingType DEF Report
  <2>3. Wait(p) \in Nat
    BY Zenon, <1>4, WaitType DEF Report
  <2>4. rec' \in [Records -> RecState]
    BY <1>0, <1>4, <2>1, <2>3, StoreType DEF Report
  <2>. QED  BY Zenon, <1>0, <1>4, <2>2, <2>4, TypeParts DEF Report
<1>5. ASSUME NEW p \in Processors, ClaimFails(p) PROVE TypeInv'
  <2>1. rec' \in [Records -> RecState]
    BY <1>0, <1>5, StoreType DEF ClaimFails
  <2>. QED  BY <1>0, <1>5, <2>1, TypeParts DEF ClaimFails
<1>6. ASSUME NEW p \in Processors, ReportFails(p) PROVE TypeInv'
  <2>1. proc[p].todo \in SUBSET Copy
    BY <1>0, <1>6, ProcFields DEF ReportFails
  <2>2. proc' \in [Processors -> ProcState]
    BY <1>0, <1>6, <2>1, RemainingType DEF ReportFails
  <2>3. excused' \in [Records -> Nat]
    BY <1>6, ExcuseType DEF ReportFails
  <2>. QED  BY <1>0, <1>6, <2>2, <2>3, TypeParts DEF ReportFails
<1>7. ASSUME NEW p \in Processors, Stop(p) \/ Crash(p) \/ Run(p) PROVE TypeInv'
  <2>1. Stopped \in ProcState /\ Polling \in ProcState
    BY DEF Stopped, Polling, ProcState
  <2>2. proc' \in [Processors -> ProcState]
    BY <1>0, <1>7, <2>1 DEF Stop, Crash, Run
  <2>3. excused' \in [Records -> Nat]
    BY Zenon, <1>0, <1>7, ExcuseType DEF Stop, Crash, Run
  <2>. QED  BY <1>0, <1>7, <2>2, <2>3, TypeParts DEF Stop, Crash, Run
<1>8. CASE Tick
  <2>1. rec' \in [Records -> RecState]
    <3>1. ASSUME NEW r \in Records, NEW w \in Nat, NEW l \in Nat
          PROVE  [rec[r] EXCEPT !.wait = w, !.lease = l] \in RecState
      BY Zenon, <1>0 DEF RecState
    <3>2. ASSUME NEW r \in Records
          PROVE  Larger(0, rec[r].wait - 1) \in Nat /\ Larger(0, rec[r].lease - 1) \in Nat
      BY <1>0 DEF RecState, Larger
    <3>. QED  BY Zenon, <1>8, <3>1, <3>2 DEF Tick
  <2>2. opts.maxRetry \in Nat
    BY DEF TypeInv, TypeOK, Options
  <2>3. ASSUME NEW p \in Processors PROVE Older(proc[p]) \in ProcState
    <3>1. CASE proc[p].pc \in {"publish", "report"}
      <4>1. proc[p].age \in Nat
        BY <1>0, <3>1, ProcFields
      <4>2. Smaller(proc[p].age + 1, opts.maxRetry) \in Nat
        BY <2>2, <4>1 DEF Smaller
      <4>3. ASSUME NEW a \in Nat PROVE [proc[p] EXCEPT !.age = a] \in ProcState
        BY <1>0, <3>1 DEF ProcState
      <4>. QED  BY <3>1, <4>2, <4>3 DEF Older
    <3>2. CASE proc[p].pc \notin {"publish", "report"}
      BY <1>0, <3>2 DEF Older
    <3>. QED  BY <3>1, <3>2
  <2>4. proc' \in [Processors -> ProcState]
    BY Zenon, <1>8, <2>3 DEF Tick
  <2>. QED  BY Zenon, <1>0, <1>8, <2>1, <2>4, TypeParts DEF Tick
<1>9. CASE UNCHANGED vars
  BY <1>9 DEF vars, TypeInv, TypeOK
<1>. QED  BY <1>1, <1>2, <1>3, <1>4, <1>5, <1>6, <1>7, <1>8, <1>9 DEF Next, Work

(***************************************************************************)
(* Who holds which record.                                                 *)
(***************************************************************************)

\* The records of a processor, by where it is.
LEMMA HeldOf ==
    ASSUME NEW s
    PROVE  /\ s.pc \in {"poll", "stopped"} => Held(s) = {} /\ Unsent(s) = {}
           /\ s.pc = "batch" => Held(s) = Ids(s.todo) /\ Unsent(s) = Ids(s.todo)
           /\ s.pc = "publish" => /\ Held(s) = Ids(s.todo) \cup {s.cur.id}
                                  /\ Unsent(s) = Ids(s.todo) \cup {s.cur.id}
           /\ s.pc = "report" =>
                /\ Held(s) = Ids(s.todo) \cup {s.cur.id}
                /\ Unsent(s) = IF s.ok THEN Ids(s.todo) ELSE Ids(s.todo) \cup {s.cur.id}
BY DEF Held, Unsent

\* The rest of a batch holds, unsent, what is left.
LEMMA RemainingHeld ==
    ASSUME NEW todo
    PROVE  /\ Held(Remaining(todo)) = Ids(todo) /\ Unsent(Remaining(todo)) = Ids(todo)
           /\ Remaining(todo).pc \in {"poll", "batch"}
           /\ Remaining(todo).pc = "batch" => Remaining(todo).todo = todo
<1>1. CASE todo = {}
  <2>1. Remaining(todo) = Polling /\ Ids(todo) = {}
    BY <1>1 DEF Remaining, Ids
  <2>. QED  BY <2>1, HeldOf DEF Polling
<1>2. CASE todo # {}
  <2>1. Remaining(todo) = [pc |-> "batch", todo |-> todo]
    BY <1>2 DEF Remaining
  <2>2. Remaining(todo).pc = "batch" /\ Remaining(todo).todo = todo
    BY <2>1
  <2>. QED  BY <2>2, HeldOf
<1>. QED  BY <1>1, <1>2

\* A step of p leaves the records of the other processors alone.
LEMMA Frame ==
    ASSUME TypeInv, NEW p \in Processors, NEW s, proc' = [proc EXCEPT ![p] = s], NEW r
    PROVE  /\ Senders(r)' \ {p} = Senders(r) \ {p}
           /\ p \in Senders(r) <=> r \in Unsent(proc[p])
           /\ p \in Senders(r)' <=> r \in Unsent(s)
           /\ Holding(p)' = Held(s)
           /\ \A q \in Processors \ {p} : Holding(q)' = Holding(q)
<1>1. proc'[p] = s /\ \A q \in Processors \ {p} : proc'[q] = proc[q]
  BY DEF TypeInv, TypeOK
<1>. QED  BY <1>1 DEF Senders, Holding

\* A record waits as long as p neither has nor takes it.
LEMMA WaitingOf ==
    ASSUME TypeInv, NEW p \in Processors, NEW s, proc' = [proc EXCEPT ![p] = s],
           NEW r \in Records
    PROVE  /\ r \in Held(proc[p]) => ~Waiting(r)
           /\ r \in Held(s) => ~Waiting(r)'
           /\ Waiting(r)' => rec'[r].status = "pending"
           /\ Waiting(r)' /\ r \notin Held(proc[p]) /\ rec[r].status = "pending" => Waiting(r)
<1>1. Holding(p)' = Held(s) /\ \A q \in Processors \ {p} : Holding(q)' = Holding(q)
  BY Zenon, Frame
<1>2. Holding(p) = Held(proc[p])
  BY DEF Holding
<1>. QED  BY <1>1, <1>2 DEF Waiting

Weight(b) == IF b THEN 1 ELSE 0

\* A set that gains or loses one element.
LEMMA OneMoves ==
    ASSUME NEW S, NEW T, IsFiniteSet(S), NEW p, T \ {p} = S \ {p}
    PROVE  /\ Cardinality(S) \in Nat /\ Cardinality(T) \in Nat
           /\ Cardinality(T) + Weight(p \in S) = Cardinality(S) + Weight(p \in T)
<1>. DEFINE R == S \ {p}
<1>1. IsFiniteSet(R) /\ Cardinality(R) \in Nat
  BY FS_Subset, FS_CardinalityType
<1>2. IsFiniteSet(R \cup {p}) /\ Cardinality(R \cup {p}) = Cardinality(R) + 1
  BY Zenon, <1>1, FS_AddElement
<1>3. S = IF p \in S THEN R \cup {p} ELSE R
  OBVIOUS
<1>4. T = IF p \in T THEN R \cup {p} ELSE R
  OBVIOUS
<1>. HIDE DEF R
<1>5. Cardinality(S) = Cardinality(R) + Weight(p \in S)
  BY <1>1, <1>2, <1>3 DEF Weight
<1>6. Cardinality(T) = Cardinality(R) + Weight(p \in T)
  <2>1. CASE p \in T
    <3>1. T = R \cup {p} /\ Weight(p \in T) = 1
      BY <1>4, <2>1 DEF Weight
    <3>. QED  BY <1>2, <3>1
  <2>2. CASE p \notin T
    <3>1. T = R /\ Weight(p \in T) = 0
      BY <1>4, <2>2 DEF Weight
    <3>. QED  BY <1>1, <3>1
  <2>. QED  BY <2>1, <2>2
<1>. QED  BY <1>1, <1>5, <1>6 DEF Weight

\* The copies of one record.
Accounted(r) == sent[r] + Cardinality(Senders(r)) + Weight(Waiting(r)) <= 1 + excused[r]

\* A step of p that adds no more copies of a record than excuses for them keeps
\* its copies accounted for.
LEMMA Balance ==
    ASSUME TypeInv, TypeInv', NEW p \in Processors, NEW s, proc' = [proc EXCEPT ![p] = s],
           NEW r \in Records, Accounted(r),
           sent'[r] + Weight(r \in Unsent(s)) + Weight(Waiting(r)') + excused[r]
             <= sent[r] + Weight(r \in Unsent(proc[p])) + Weight(Waiting(r)) + excused'[r]
    PROVE  Accounted(r)'
<1>1. IsFiniteSet(Senders(r))
  BY Zenon, OutboxConstants, FS_Subset DEF Senders
<1>2. /\ Cardinality(Senders(r)) \in Nat /\ Cardinality(Senders(r)') \in Nat
      /\ Cardinality(Senders(r)') + Weight(p \in Senders(r))
           = Cardinality(Senders(r)) + Weight(p \in Senders(r)')
  BY Zenon, <1>1, Frame, OneMoves
<1>3. /\ Weight(p \in Senders(r)) = Weight(r \in Unsent(proc[p]))
      /\ Weight(p \in Senders(r)') = Weight(r \in Unsent(s))
  BY Zenon, Frame DEF Weight
<1>4. sent[r] \in Nat /\ sent'[r] \in Nat /\ excused[r] \in Nat /\ excused'[r] \in Nat
  BY DEF TypeInv, TypeOK
<1>5. \A b : Weight(b) \in Nat
  BY DEF Weight
<1>. DEFINE c0 == Cardinality(Senders(r))   c1 == Cardinality(Senders(r)')
            w0 == Weight(Waiting(r))        w1 == Weight(Waiting(r)')
            u0 == Weight(r \in Unsent(proc[p]))   u1 == Weight(r \in Unsent(s))
<1>6. /\ c0 \in Nat /\ c1 \in Nat /\ w0 \in Nat /\ w1 \in Nat /\ u0 \in Nat /\ u1 \in Nat
      /\ c1 + u0 = c0 + u1
  BY <1>2, <1>3, <1>5
<1>7. sent'[r] + u1 + w1 + excused[r] <= sent[r] + u0 + w0 + excused'[r]
  OBVIOUS
<1>8. sent[r] + c0 + w0 <= 1 + excused[r]
  BY DEF Accounted
<1>9. (Accounted(r))' <=> sent'[r] + c1 + w1 <= 1 + excused'[r]
  BY DEF Accounted
<1>. HIDE DEF c0, c1, w0, w1, u0, u1
<1>. QED  BY <1>4, <1>6, <1>7, <1>8, <1>9

(***************************************************************************)
(* The invariant.                                                          *)
(***************************************************************************)

\* OutboxInv, with the copies of a record under a name of their own.
Ind ==
    /\ TypeInv
    /\ \A p \in Processors : OneCopyEach(proc[p])
    /\ PublishedWasSent /\ DeliveredWasSent
    /\ \A r \in Records : Accounted(r)

LEMMA IndIsOutboxInv == Ind <=> OutboxInv
BY DEF Ind, OutboxInv, TypeInv, CopiesAccounted, Accounted, Weight

\* The balance of a record over a step of p to the state s.
Balanced(r, s, p) ==
    sent'[r] + Weight(r \in Unsent(s)) + Weight(Waiting(r)') + excused[r]
      <= sent[r] + Weight(r \in Unsent(proc[p])) + Weight(Waiting(r)) + excused'[r]

\* What a step of p to the state s has to show.
LEMMA StepOfOne ==
    ASSUME Ind, TypeInv', NEW p \in Processors, NEW s \in ProcState,
           proc' = [proc EXCEPT ![p] = s], OneCopyEach(s),
           s.pc = "report" /\ s.ok => sent'[s.cur.id] > 0,
           \A r \in Records : sent'[r] >= sent[r],
           \A r \in Records : rec'[r].status = "delivered" => sent'[r] > 0,
           \A r \in Records : Balanced(r, s, p)
    PROVE  Ind'
<1>1. proc'[p] = s /\ \A q \in Processors \ {p} : proc'[q] = proc[q]
  BY DEF Ind, TypeInv, TypeOK
<1>2. \A q \in Processors : OneCopyEach(proc'[q])
  BY Zenon, <1>1 DEF Ind
<1>3. PublishedWasSent'
  <2>1. ASSUME NEW q \in Processors, proc'[q].pc = "report", proc'[q].ok
        PROVE  sent'[proc'[q].cur.id] > 0
    <3>1. CASE q = p
      BY Zenon, <1>1, <2>1, <3>1
    <3>2. CASE q # p
      <4>1. proc'[q] = proc[q]
        BY Zenon, <1>1, <3>2
      <4>2. proc[q].cur.id \in Records
        BY Zenon, <2>1, <4>1, ProcFields, CopyFields DEF Ind, TypeInv, TypeOK
      <4>3. sent[proc[q].cur.id] > 0
        BY Zenon, <2>1, <4>1 DEF Ind, PublishedWasSent
      <4>4. sent[proc[q].cur.id] \in Nat /\ sent'[proc[q].cur.id] \in Nat
        BY Zenon, <4>2 DEF Ind, TypeInv, TypeOK
      <4>. QED  BY <4>1, <4>2, <4>3, <4>4
    <3>. QED  BY <3>1, <3>2
  <2>. QED  BY <2>1 DEF PublishedWasSent
<1>4. DeliveredWasSent'
  BY Zenon DEF DeliveredWasSent
<1>5. \A r \in Records : Accounted(r)'
  BY Zenon, Balance DEF Ind, Balanced
<1>. QED  BY <1>2, <1>3, <1>4, <1>5 DEF Ind

\* The rest of a batch without repetitions has none either.
LEMMA RemainingOnce ==
    ASSUME NEW todo, \A c, d \in todo : c.id = d.id => c = d
    PROVE  OneCopyEach(Remaining(todo))
BY RemainingHeld DEF OneCopyEach

\* Taking a record out of a batch leaves the others.
LEMMA IdsTake ==
    ASSUME NEW todo, NEW c \in todo, \A d, e \in todo : d.id = e.id => d = e
    PROVE  /\ Ids(todo \ {c}) \cup {c.id} = Ids(todo)
           /\ c.id \notin Ids(todo \ {c})
BY DEF Ids

\* What the invariant says of the store and the counters.
LEMMA IndTypes ==
    ASSUME Ind
    PROVE  /\ rec \in [Records -> RecState] /\ proc \in [Processors -> ProcState]
           /\ sent \in [Records -> Nat] /\ excused \in [Records -> Nat]
           /\ \A r \in Records : rec[r].status \in {"pending", "delivered"}
           /\ \A r \in Records : rec[r].status = "delivered" => sent[r] > 0
BY DEF Ind, TypeInv, TypeOK, RecState, DeliveredWasSent

LEMMA IndClaim ==
    ASSUME Ind, TypeInv', NEW p \in Processors, ProcessOnce(p)
    PROVE  Ind'
<1>0. TypeInv
  BY DEF Ind
<1>1. PICK S \in Batches : /\ rec' = Claimed(S)
                           /\ proc' = [proc EXCEPT ![p] = Remaining(Copies(S))]
                           /\ Excuse({r \in S : \E q \in Processors : r \in Holding(q)})
  BY Zenon DEF ProcessOnce
<1>2. S \subseteq Records /\ \A r \in S : rec[r].status = "pending"
  BY DEF Batches, Claimable
<1>. DEFINE s == Remaining(Copies(S))
<1>3. Ids(Copies(S)) = S
  <2>1. \A c \in Copies(S) : c.id \in S
    BY DEF Copies
  <2>2. ASSUME NEW r \in S PROVE \E c \in Copies(S) : c.id = r
    <3>1. [id |-> r, attempts |-> rec[r].attempts] \in Copies(S)
      BY Zenon DEF Copies
    <3>. QED  BY <3>1
  <2>. QED  BY <2>1, <2>2 DEF Ids
<1>4. /\ Held(s) = S /\ Unsent(s) = S /\ s.pc \in {"poll", "batch"}
      /\ Held(proc[p]) = {} /\ Unsent(proc[p]) = {}
  BY <1>3, RemainingHeld, HeldOf DEF ProcessOnce
<1>5. \A c, d \in Copies(S) : c.id = d.id => c = d
  BY DEF Copies
<1>6. OneCopyEach(s)
  BY <1>5, RemainingOnce
<1>7. s \in ProcState
  <2>1. Copies(S) \in SUBSET Copy
    BY <1>2, IndTypes DEF Copies, Copy, RecState
  <2>. QED  BY <2>1, RemainingType
<1>8. \A r \in Records : rec'[r].status = rec[r].status
  BY <1>1, IndTypes DEF Claimed, RecState
<1>9. sent' = sent
  BY DEF ProcessOnce
<1>10. ASSUME NEW r \in Records PROVE Balanced(r, s, p)
  <2>1. sent[r] \in Nat /\ excused[r] \in Nat
    BY Zenon, IndTypes
  <2>2. /\ r \in Held(proc[p]) => ~Waiting(r)
        /\ r \in Held(s) => ~Waiting(r)'
        /\ Waiting(r)' => rec'[r].status = "pending"
        /\ Waiting(r)' /\ r \notin Held(proc[p]) /\ rec[r].status = "pending" => Waiting(r)
    BY Zenon, <1>0, <1>1, WaitingOf
  <2>3. excused'[r] = excused[r] + IF r \in S /\ \E q \in Processors : r \in Holding(q)
                                   THEN 1 ELSE 0
    BY <1>1 DEF Excuse
  <2>4. CASE r \in S /\ \E q \in Processors : r \in Holding(q)
    <3>1. excused'[r] = excused[r] + 1 /\ ~Waiting(r)'
      BY <1>4, <2>2, <2>3, <2>4
    <3>. QED  BY <1>4, <1>9, <2>1, <2>4, <3>1 DEF Balanced, Weight
  <2>5. CASE r \in S /\ ~\E q \in Processors : r \in Holding(q)
    <3>1. excused'[r] = excused[r] /\ ~Waiting(r)' /\ Waiting(r)
      BY <1>2, <1>4, <2>1, <2>2, <2>3, <2>5 DEF Waiting
    <3>. QED  BY <1>4, <1>9, <2>1, <2>5, <3>1 DEF Balanced, Weight
  <2>6. CASE r \notin S
    <3>1. excused'[r] = excused[r] /\ (Waiting(r)' => Waiting(r))
      BY <1>4, <1>8, <2>1, <2>2, <2>3, <2>6
    <3>. QED  BY <1>4, <1>9, <2>1, <2>6, <3>1 DEF Balanced, Weight
  <2>. QED  BY <2>4, <2>5, <2>6
<1>11. \A r \in Records : sent'[r] >= sent[r] /\ (rec'[r].status = "delivered" => sent'[r] > 0)
  BY <1>8, <1>9, IndTypes
<1>12. proc' = [proc EXCEPT ![p] = s]
  BY Zenon, <1>1
<1>. HIDE DEF s
<1>. QED  BY Zenon, <1>4, <1>6, <1>7, <1>10, <1>11, <1>12, StepOfOne

\* A step that keeps what p holds and has to send of a record, its status and
\* its counters keeps its balance.
LEMMA Untouched ==
    ASSUME Ind, NEW p \in Processors, NEW s, proc' = [proc EXCEPT ![p] = s],
           NEW r \in Records, rec'[r].status = rec[r].status,
           r \in Held(s) <=> r \in Held(proc[p]), r \in Unsent(s) <=> r \in Unsent(proc[p]),
           sent'[r] = sent[r], excused'[r] = excused[r]
    PROVE  Balanced(r, s, p)
<1>1. TypeInv
  BY DEF Ind
<1>2. Waiting(r)' => Waiting(r)
  BY Zenon, <1>1, WaitingOf
<1>3. sent[r] \in Nat /\ excused[r] \in Nat
  BY IndTypes
<1>. QED  BY <1>2, <1>3 DEF Balanced, Weight

LEMMA IndBegin ==
    ASSUME Ind, TypeInv', NEW p \in Processors, Begin(p)
    PROVE  Ind'
<1>1. PICK c \in proc[p].todo :
         proc' = [proc EXCEPT ![p] = [pc |-> "publish", todo |-> proc[p].todo \ {c},
                                      cur |-> c, age |-> 0]]
  BY Zenon DEF Begin
<1>. DEFINE s == [pc |-> "publish", todo |-> proc[p].todo \ {c}, cur |-> c, age |-> 0]
<1>2. s.pc = "publish" /\ s.todo = proc[p].todo \ {c} /\ s.cur = c
  OBVIOUS
<1>3. proc' = [proc EXCEPT ![p] = s]
  BY <1>1
<1>4. s \in ProcState
  <2>1. proc[p].todo \in SUBSET Copy
    BY IndTypes, ProcFields DEF Begin
  <2>. QED  BY <2>1 DEF ProcState
<1>. HIDE DEF s
<1>5. \A d, e \in proc[p].todo : d.id = e.id => d = e
  BY DEF Ind, OneCopyEach, Begin
<1>6. /\ Ids(proc[p].todo \ {c}) \cup {c.id} = Ids(proc[p].todo)
      /\ c.id \notin Ids(proc[p].todo \ {c})
  BY Zenon, <1>5, IdsTake
<1>7. OneCopyEach(s)
  BY <1>2, <1>5, <1>6 DEF OneCopyEach
<1>8. Held(s) = Held(proc[p]) /\ Unsent(s) = Unsent(proc[p])
  <2>1. proc[p].pc = "batch"
    BY DEF Begin
  <2>. QED  BY Zenon, <1>2, <1>6, <2>1, HeldOf
<1>9. rec' = rec /\ sent' = sent /\ excused' = excused
  BY DEF Begin
<1>10. \A r \in Records : Balanced(r, s, p)
  BY Zenon, <1>3, <1>8, <1>9, Untouched
<1>11. \A r \in Records : sent'[r] >= sent[r] /\ (rec'[r].status = "delivered" => sent'[r] > 0)
  BY <1>9, IndTypes
<1>. QED  BY Zenon, <1>2, <1>3, <1>4, <1>7, <1>10, <1>11, StepOfOne

LEMMA IndPublish ==
    ASSUME Ind, TypeInv', NEW p \in Processors, NEW ok \in BOOLEAN, NEW taken \in BOOLEAN,
           Publish(p, ok, taken)
    PROVE  Ind'
<1>. DEFINE s == [pc |-> "report", todo |-> proc[p].todo, cur |-> proc[p].cur,
                  age |-> proc[p].age, ok |-> ok]
            id == proc[p].cur.id
<1>1. s.pc = "report" /\ s.todo = proc[p].todo /\ s.cur = proc[p].cur /\ s.ok = ok
  OBVIOUS
<1>2. proc' = [proc EXCEPT ![p] = s]
  BY DEF Publish
<1>3. proc[p].todo \in SUBSET Copy /\ proc[p].cur \in Copy /\ proc[p].age \in Nat
  BY IndTypes, ProcFields DEF Publish
<1>4. s \in ProcState /\ id \in Records
  BY <1>3, CopyFields DEF ProcState
<1>. HIDE DEF s
<1>5. proc[p].pc = "publish" /\ (ok => taken) /\ rec' = rec
  BY DEF Publish
<1>6. id \notin Ids(proc[p].todo) /\ OneCopyEach(s)
  BY Zenon, <1>1, <1>5 DEF Ind, OneCopyEach
<1>7. /\ Held(s) = Held(proc[p]) /\ id \in Held(s)
      /\ Unsent(proc[p]) = Ids(proc[p].todo) \cup {id}
      /\ Unsent(s) = IF ok THEN Ids(proc[p].todo) ELSE Ids(proc[p].todo) \cup {id}
  BY Zenon, <1>1, <1>5, HeldOf
<1>8. /\ \A r \in Records : sent'[r] = sent[r] + IF taken /\ r = id THEN 1 ELSE 0
      /\ \A r \in Records : excused'[r] = excused[r] + IF taken /\ ~ok /\ r = id THEN 1 ELSE 0
  BY IndTypes DEF Publish, Excuse
<1>. HIDE DEF id
<1>9. ASSUME NEW r \in Records PROVE Balanced(r, s, p)
  <2>0. sent[r] \in Nat /\ excused[r] \in Nat
    BY Zenon, IndTypes
  <2>1. CASE r # id
    <3>1. sent'[r] = sent[r] /\ excused'[r] = excused[r]
      BY <1>8, <2>0, <2>1
    <3>. QED  BY Zenon, <1>2, <1>5, <1>7, <2>1, <3>1, Untouched
  <2>2. CASE r = id
    <3>1. ~Waiting(r) /\ ~Waiting(r)'
      BY Zenon, <1>2, <1>7, <2>2, WaitingOf DEF Ind
    <3>2. r \in Unsent(proc[p]) /\ (r \in Unsent(s) <=> ~ok)
      BY <1>6, <1>7, <2>2
    <3>3. CASE ok
      <4>1. sent'[r] = sent[r] + 1 /\ excused'[r] = excused[r]
        BY <1>5, <1>8, <2>0, <2>2, <3>3
      <4>. QED  BY <2>0, <3>1, <3>2, <3>3, <4>1 DEF Balanced, Weight
    <3>4. CASE ~ok /\ taken
      <4>1. sent'[r] = sent[r] + 1 /\ excused'[r] = excused[r] + 1
        BY <1>8, <2>2, <3>4
      <4>. QED  BY <2>0, <3>1, <3>2, <3>4, <4>1 DEF Balanced, Weight
    <3>5. CASE ~ok /\ ~taken
      <4>1. sent'[r] = sent[r] /\ excused'[r] = excused[r]
        BY <1>8, <2>0, <3>5
      <4>. QED  BY <2>0, <3>1, <3>2, <3>5, <4>1 DEF Balanced, Weight
    <3>. QED  BY <3>3, <3>4, <3>5
  <2>. QED  BY <2>1, <2>2
<1>10. ASSUME NEW r \in Records
       PROVE  sent'[r] >= sent[r] /\ (rec'[r].status = "delivered" => sent'[r] > 0)
  <2>1. sent[r] \in Nat /\ (rec[r].status = "delivered" => sent[r] > 0)
    BY IndTypes
  <2>. QED  BY <1>5, <1>8, <2>1
<1>11. s.ok => sent'[s.cur.id] > 0
  <2>1. sent[id] \in Nat
    BY <1>4, IndTypes
  <2>2. ok => sent'[id] = sent[id] + 1
    BY Zenon, <1>4, <1>5, <1>8
  <2>. QED  BY <1>1, <2>1, <2>2 DEF id
<1>. QED  BY Zenon, <1>2, <1>4, <1>6, <1>9, <1>10, <1>11, StepOfOne

\* A processor that is done with a record, whatever became of its report.
LEMMA IndDone ==
    ASSUME Ind, TypeInv', NEW p \in Processors, proc[p].pc = "report",
           proc' = [proc EXCEPT ![p] = Remaining(proc[p].todo)], sent' = sent,
           \A r \in Records : r # proc[p].cur.id =>
               rec'[r].status = rec[r].status /\ excused'[r] = excused[r],
           excused'[proc[p].cur.id]
             >= excused[proc[p].cur.id]
                  + Weight(proc[p].ok /\ rec'[proc[p].cur.id].status # "delivered"),
           rec'[proc[p].cur.id].status = "delivered" => sent[proc[p].cur.id] > 0
    PROVE  Ind'
<1>. DEFINE s == Remaining(proc[p].todo)   id == proc[p].cur.id
<1>1. proc[p].todo \in SUBSET Copy /\ proc[p].cur \in Copy /\ proc[p].ok \in BOOLEAN
  BY IndTypes, ProcFields
<1>2. s \in ProcState /\ id \in Records
  BY <1>1, RemainingType, CopyFields
<1>3. id \notin Ids(proc[p].todo) /\ \A c, d \in proc[p].todo : c.id = d.id => c = d
  BY DEF Ind, OneCopyEach
<1>4. OneCopyEach(s)
  BY <1>3, RemainingOnce
<1>5. /\ Held(s) = Ids(proc[p].todo) /\ Unsent(s) = Ids(proc[p].todo)
      /\ s.pc \in {"poll", "batch"}
  BY Zenon, RemainingHeld
<1>6. /\ Held(proc[p]) = Ids(proc[p].todo) \cup {id}
      /\ Unsent(proc[p]) = IF proc[p].ok THEN Ids(proc[p].todo) ELSE Ids(proc[p].todo) \cup {id}
  BY Zenon, HeldOf
<1>7. proc' = [proc EXCEPT ![p] = s]
  OBVIOUS
<1>8. /\ \A r \in Records : r # id => rec'[r].status = rec[r].status /\ excused'[r] = excused[r]
      /\ excused'[id] >= excused[id] + Weight(proc[p].ok /\ rec'[id].status # "delivered")
      /\ rec'[id].status = "delivered" => sent[id] > 0
  OBVIOUS
<1>. HIDE DEF s, id
<1>9. ASSUME NEW r \in Records PROVE Balanced(r, s, p)
  <2>0. sent[r] \in Nat /\ excused[r] \in Nat /\ excused'[r] \in Nat
    BY IndTypes DEF TypeInv, TypeOK
  <2>1. CASE r # id
    <3>1. /\ r \in Held(s) <=> r \in Held(proc[p])
          /\ r \in Unsent(s) <=> r \in Unsent(proc[p])
      BY <1>5, <1>6, <2>1
    <3>2. rec'[r].status = rec[r].status /\ excused'[r] = excused[r]
      BY <1>8, <2>1
    <3>. QED  BY Zenon, <1>7, <3>1, <3>2, Untouched
  <2>2. CASE r = id
    <3>1. ~Waiting(r) /\ (Waiting(r)' => rec'[r].status = "pending")
      BY Zenon, <1>6, <1>7, <2>2, WaitingOf DEF Ind
    <3>2. r \notin Unsent(s) /\ (r \in Unsent(proc[p]) <=> ~proc[p].ok)
      BY <1>3, <1>5, <1>6, <2>2
    <3>3. CASE proc[p].ok
      <4>1. CASE rec'[r].status = "delivered"
        <5>1. excused'[r] >= excused[r] /\ ~Waiting(r)'
          BY <1>8, <2>0, <2>2, <3>1, <4>1 DEF Weight
        <5>. QED  BY <2>0, <3>1, <3>2, <3>3, <5>1 DEF Balanced, Weight
      <4>2. CASE rec'[r].status # "delivered"
        <5>1. excused'[r] >= excused[r] + 1
          BY Zenon, <1>8, <2>2, <3>3, <4>2 DEF Weight
        <5>. QED  BY <2>0, <3>1, <3>2, <3>3, <5>1 DEF Balanced, Weight
      <4>. QED  BY <4>1, <4>2
    <3>4. CASE ~proc[p].ok
      <4>1. excused'[r] >= excused[r]
        BY <1>8, <2>0, <2>2, <3>4 DEF Weight
      <4>. QED  BY <2>0, <3>1, <3>2, <3>4, <4>1 DEF Balanced, Weight
    <3>. QED  BY <3>3, <3>4
  <2>. QED  BY <2>1, <2>2
<1>10. ASSUME NEW r \in Records
       PROVE  sent'[r] >= sent[r] /\ (rec'[r].status = "delivered" => sent'[r] > 0)
  <2>1. sent[r] \in Nat /\ (rec[r].status = "delivered" => sent[r] > 0)
    BY IndTypes
  <2>. QED  BY <1>8, <2>1
<1>. QED  BY Zenon, <1>2, <1>4, <1>5, <1>7, <1>9, <1>10, StepOfOne

LEMMA IndReport ==
    ASSUME Ind, TypeInv', NEW p \in Processors, Report(p)
    PROVE  Ind'
<1>. DEFINE id == proc[p].cur.id
<1>1. /\ proc[p].pc = "report" /\ proc' = [proc EXCEPT ![p] = Remaining(proc[p].todo)]
      /\ sent' = sent /\ excused' = excused
  BY DEF Report
<1>2. id \in Records /\ proc[p].ok \in BOOLEAN
  BY Zenon, <1>1, IndTypes, ProcFields, CopyFields
<1>3. excused[id] \in Nat /\ (rec[id].status = "delivered" => sent[id] > 0)
  BY Zenon, <1>2, IndTypes
<1>4. CASE proc[p].ok
  <2>1. rec' = MarkedDelivered(id)
    BY <1>4 DEF Report
  <2>2. /\ rec'[id].status = "delivered"
        /\ \A r \in Records : r # id => rec'[r] = rec[r]
    BY <1>2, <2>1, IndTypes DEF MarkedDelivered, RecState
  <2>3. sent[id] > 0
    BY <1>1, <1>4 DEF Ind, PublishedWasSent
  <2>4. excused'[id] >= excused[id] + Weight(proc[p].ok /\ rec'[id].status # "delivered")
    BY <1>1, <1>3, <2>2 DEF Weight
  <2>. QED  BY Zenon, <1>1, <2>2, <2>3, <2>4, IndDone
<1>5. CASE ~proc[p].ok
  <2>1. rec' \in {MarkedFailed(id, Wait(p)), rec}
    BY <1>5 DEF Report
  <2>2. \A r \in Records : r # id => rec'[r] = rec[r]
    BY <2>1, IndTypes DEF MarkedFailed
  <2>3. rec'[id].status = "delivered" => rec[id].status = "delivered"
    BY <1>2, <2>1, IndTypes DEF MarkedFailed
  <2>4. excused'[id] >= excused[id] + Weight(proc[p].ok /\ rec'[id].status # "delivered")
    BY <1>1, <1>3, <1>5 DEF Weight
  <2>. QED  BY Zenon, <1>1, <1>3, <2>2, <2>3, <2>4, IndDone
<1>. QED  BY Zenon, <1>4, <1>5

LEMMA IndReportFails ==
    ASSUME Ind, TypeInv', NEW p \in Processors, ReportFails(p)
    PROVE  Ind'
<1>. DEFINE id == proc[p].cur.id
<1>1. /\ proc[p].pc = "report" /\ proc' = [proc EXCEPT ![p] = Remaining(proc[p].todo)]
      /\ sent' = sent /\ rec' = rec
  BY DEF ReportFails
<1>2. id \in Records /\ proc[p].ok \in BOOLEAN
  BY <1>1, IndTypes, ProcFields, CopyFields
<1>3. excused[id] \in Nat /\ (rec[id].status = "delivered" => sent[id] > 0)
  BY <1>2, IndTypes
<1>4. \A r \in Records : excused'[r] = excused[r] + IF proc[p].ok /\ r = id THEN 1 ELSE 0
  BY DEF ReportFails, Excuse
<1>5. \A r \in Records : r # id => excused'[r] = excused[r]
  BY <1>4, IndTypes
<1>6. excused'[id] >= excused[id] + Weight(proc[p].ok /\ rec'[id].status # "delivered")
  BY <1>2, <1>3, <1>4 DEF Weight
<1>. QED  BY Zenon, <1>1, <1>3, <1>5, <1>6, IndDone

\* A processor that stops, dies or starts again holds nothing afterwards.
LEMMA IndRestart ==
    ASSUME Ind, TypeInv', NEW p \in Processors, Stop(p) \/ Crash(p) \/ Run(p)
    PROVE  Ind'
<1>1. PICK s \in {Polling, Stopped} : proc' = [proc EXCEPT ![p] = s]
  BY DEF Stop, Crash, Run
<1>2. s \in ProcState /\ s.pc \in {"poll", "stopped"}
  BY DEF Polling, Stopped, ProcState
<1>3. OneCopyEach(s) /\ Held(s) = {} /\ Unsent(s) = {}
  BY <1>2, HeldOf DEF OneCopyEach
<1>4. rec' = rec /\ sent' = sent
  BY DEF Stop, Crash, Run
<1>5. \A r \in Records : sent'[r] >= sent[r] /\ (rec'[r].status = "delivered" => sent'[r] > 0)
  BY <1>4, IndTypes
<1>6. CASE Stop(p) \/ Run(p)
  <2>1. proc[p].pc \in {"poll", "stopped"} /\ excused' = excused
    BY <1>6 DEF Stop, Run
  <2>2. Held(proc[p]) = {} /\ Unsent(proc[p]) = {}
    BY <2>1, HeldOf
  <2>3. \A r \in Records : Balanced(r, s, p)
    BY Zenon, <1>1, <1>3, <1>4, <2>1, <2>2, Untouched
  <2>. QED  BY Zenon, <1>1, <1>2, <1>3, <1>5, <2>3, StepOfOne
<1>7. CASE Crash(p)
  <2>1. proc[p].pc \in {"batch", "publish", "report"}
    BY <1>7, IndTypes, ProcFields DEF Crash
  <2>2. ASSUME NEW r \in Records PROVE Balanced(r, s, p)
    <3>1. excused'[r] = excused[r] + IF proc[p].pc = "report" /\ proc[p].ok /\ r = proc[p].cur.id
                                     THEN 1 ELSE 0
      BY <1>7 DEF Crash, Excuse
    <3>2. sent[r] \in Nat /\ excused[r] \in Nat
      BY Zenon, IndTypes
    <3>3. CASE r \notin Held(proc[p])
      <4>1. r \notin Unsent(proc[p]) /\ excused'[r] = excused[r]
        BY <2>1, <3>1, <3>2, <3>3, HeldOf
      <4>. QED  BY Zenon, <1>1, <1>3, <1>4, <3>3, <4>1, Untouched
    <3>4. CASE r \in Held(proc[p])
      <4>1. ~Waiting(r)
        BY Zenon, <1>1, <3>4, WaitingOf DEF Ind
      <4>2. \/ r \in Unsent(proc[p]) /\ excused'[r] >= excused[r]
            \/ excused'[r] = excused[r] + 1
        BY <2>1, <3>1, <3>2, <3>4, HeldOf
      <4>3. excused'[r] \in Nat
        BY DEF TypeInv, TypeOK
      <4>. QED  BY <1>3, <1>4, <3>2, <4>1, <4>2, <4>3 DEF Balanced, Weight
    <3>. QED  BY Zenon, <3>3, <3>4
  <2>. QED  BY Zenon, <1>1, <1>2, <1>3, <1>5, <2>2, StepOfOne
<1>. QED  BY <1>6, <1>7

\* A lost answer of ClaimBatch leases the records, which nobody holds for it.
LEMMA IndClaimFails ==
    ASSUME Ind, TypeInv', NEW p \in Processors, ClaimFails(p)
    PROVE  Ind'
<1>1. \A r \in Records : rec'[r].status = rec[r].status
  BY IndTypes DEF ClaimFails, Claimed, RecState
<1>2. proc' = proc /\ sent' = sent /\ excused' = excused
  BY DEF ClaimFails
<1>3. proc' = [proc EXCEPT ![p] = proc[p]]
  BY <1>2, IndTypes
<1>4. proc[p] \in ProcState /\ OneCopyEach(proc[p]) /\ proc[p].pc = "poll"
  BY IndTypes DEF Ind, ClaimFails
<1>5. \A r \in Records : Balanced(r, proc[p], p)
  BY Zenon, <1>1, <1>2, <1>3, Untouched
<1>6. \A r \in Records : sent'[r] >= sent[r] /\ (rec'[r].status = "delivered" => sent'[r] > 0)
  BY <1>1, <1>2, IndTypes
<1>. QED  BY Zenon, <1>3, <1>4, <1>5, <1>6, StepOfOne

\* The passing of time changes no holding.
LEMMA IndTick ==
    ASSUME Ind, TypeInv', Tick
    PROVE  Ind'
<1>1. \A r \in Records : rec'[r].status = rec[r].status
  BY Zenon, IndTypes DEF Tick, RecState
<1>2. sent' = sent /\ excused' = excused
  BY Zenon DEF Tick
<1>3. ASSUME NEW p \in Processors
      PROVE  /\ proc'[p].pc = proc[p].pc
             /\ proc[p].pc \in {"batch", "publish", "report"} => proc'[p].todo = proc[p].todo
             /\ proc[p].pc \in {"publish", "report"} => proc'[p].cur = proc[p].cur
             /\ proc[p].pc = "report" => proc'[p].ok = proc[p].ok
  <2>1. proc'[p] = Older(proc[p]) /\ proc[p] \in ProcState
    BY Zenon, IndTypes DEF Tick
  <2>. QED  BY Zenon, <2>1 DEF Older, ProcState
<1>4. ASSUME NEW p \in Processors
      PROVE  /\ Held(proc'[p]) = Held(proc[p]) /\ Unsent(proc'[p]) = Unsent(proc[p])
             /\ OneCopyEach(proc'[p])
  <2>1. OneCopyEach(proc[p])
    BY DEF Ind
  <2>. QED  BY Zenon, <1>3, <2>1 DEF Held, Unsent, OneCopyEach
<1>5. \A r \in Records : Senders(r)' = Senders(r) /\ (Waiting(r)' <=> Waiting(r))
  BY Zenon, <1>1, <1>4 DEF Senders, Waiting, Holding
<1>6. \A r \in Records : Accounted(r)'
  BY Zenon, <1>2, <1>5 DEF Ind, Accounted, Weight
<1>7. PublishedWasSent'
  BY <1>2, <1>3 DEF Ind, PublishedWasSent
<1>8. DeliveredWasSent'
  BY <1>1, <1>2, IndTypes DEF DeliveredWasSent
<1>. QED  BY <1>4, <1>6, <1>7, <1>8 DEF Ind

LEMMA IndInit == Init => Ind
<1>. SUFFICES ASSUME Init PROVE Ind
  OBVIOUS
<1>1. TypeInv
  BY TypeInit
<1>2. \A p \in Processors : proc[p].pc = "poll"
  BY Zenon DEF Init, Polling
<1>3. \A p \in Processors : OneCopyEach(proc[p]) /\ Unsent(proc[p]) = {}
  BY <1>2, HeldOf DEF OneCopyEach
<1>4. PublishedWasSent /\ DeliveredWasSent
  BY <1>2 DEF PublishedWasSent, DeliveredWasSent, Init, Fresh
<1>5. ASSUME NEW r \in Records PROVE Accounted(r)
  <2>1. Senders(r) = {}
    BY <1>3 DEF Senders
  <2>2. Cardinality(Senders(r)) = 0
    BY <2>1, FS_EmptySet
  <2>. QED  BY <2>2 DEF Accounted, Init, Weight
<1>. QED  BY <1>1, <1>3, <1>4, <1>5 DEF Ind

LEMMA IndNext == Ind /\ [Next]_vars => Ind'
<1>. SUFFICES ASSUME Ind, [Next]_vars PROVE Ind'
  OBVIOUS
<1>1. TypeInv'
  BY TypeNext DEF Ind
<1>2. CASE UNCHANGED vars
  <2>1. Ind' <=> OutboxInv'
    BY IndIsOutboxInv, PTL
  <2>2. OutboxInv' <=> OutboxInv
    BY <1>2 DEF vars, OutboxInv, TypeOK, PublishedWasSent, DeliveredWasSent, CopiesAccounted,
                Senders, Waiting, Holding
  <2>. QED  BY <2>1, <2>2, IndIsOutboxInv
<1>3. CASE Tick
  BY <1>1, <1>3, IndTick
<1>4. ASSUME NEW p \in Processors, Work(p) PROVE Ind'
  BY <1>1, <1>4, IndClaim, IndBegin, IndPublish, IndReport, Zenon DEF Work
<1>5. ASSUME NEW p \in Processors, ClaimFails(p) \/ ReportFails(p) PROVE Ind'
  BY <1>1, <1>5, IndClaimFails, IndReportFails, Zenon
<1>6. ASSUME NEW p \in Processors, Stop(p) \/ Crash(p) \/ Run(p) PROVE Ind'
  BY <1>1, <1>6, IndRestart, Zenon
<1>. QED  BY <1>2, <1>3, <1>4, <1>5, <1>6, Zenon DEF Next

-----------------------------------------------------------------------------
(* The theorems.                                                           *)

\* The outbox keeps its invariant: every copy of an event that was or may still
\* be sent is the first one or has a cause of its own.
THEOREM OutboxInvariance == Spec => []OutboxInv
<1>1. Init => OutboxInv
  BY IndInit, IndIsOutboxInv
<1>2. OutboxInv /\ [Next]_vars => OutboxInv'
  <2>1. Ind' <=> OutboxInv'
    BY IndIsOutboxInv, PTL
  <2>. QED  BY <2>1, IndNext, IndIsOutboxInv
<1>. QED  BY <1>1, <1>2, PTL DEF Spec

\* At-least-once is at most once more per cause: an event is sent again only
\* after a lease ran out under its holder, a crash or failed MarkDelivered after
\* Publish, or a Publish that failed after taking effect.
THEOREM DuplicatesAccounted == Spec => []DuplicatesHaveACause
<1>1. OutboxInv => DuplicatesHaveACause
  <2>. SUFFICES ASSUME OutboxInv, NEW r \in Records PROVE sent[r] <= 1 + excused[r]
    BY DEF DuplicatesHaveACause
  <2>1. Cardinality(Senders(r)) \in Nat
    BY OutboxConstants, FS_Subset, FS_CardinalityType DEF Senders
  <2>2. Accounted(r) /\ sent[r] \in Nat /\ excused[r] \in Nat
    BY IndIsOutboxInv, IndTypes DEF Ind
  <2>. QED  BY <2>1, <2>2 DEF Accounted, Weight
<1>. QED  BY <1>1, OutboxInvariance, PTL

\* No event is lost: a record marked delivered was taken by the transport.
THEOREM NothingLost == Spec => []DeliveredWasSent
<1>1. OutboxInv => DeliveredWasSent
  BY DEF OutboxInv
<1>. QED  BY <1>1, OutboxInvariance, PTL
=============================================================================
