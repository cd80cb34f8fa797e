----------------------------- MODULE AuditTrail -----------------------------
(***************************************************************************)
(* The way of an audit event (pkg/audit/kafka.go, consumer.go): Publish    *)
(* puts it on the publisher's bounded queue without waiting, one goroutine *)
(* per publisher writes it to the Kafka topic, and one consumer appends    *)
(* every message of the topic to the audit store before it commits the     *)
(* message's offset.  Kafka and the store are external.                    *)
(***************************************************************************)
EXTENDS Processes, Integers, Sequences, FiniteSets, SequencesExt

CONSTANTS Events,      \* audit events
          Garbage,     \* a message that does not decode
          QueueSize    \* AuditQueueSize

ASSUME QueueAssumption == QueueSize \in Nat \ {0}

VARIABLES pub,         \* [Procs -> "none", "noop", "open", "closing", "closed"]
          queue,       \* [Procs -> Seq(Events)]
          hand,        \* [Procs -> events the run goroutine is writing (at most one)]
          topic,       \* messages in the topic
          committed,   \* number of messages committed by the consumer group
          consumer,    \* the consumer's goroutine
          stored,      \* [Events -> number of copies appended to the store]
          accepted,    \* history: events Publish accepted
          unwritten,   \* history: accepted events whose write failed, or that died queued
          panicked,    \* history: events published on a closed queue
          repeats      \* history: restarts of the consumer, appends reported as failed

auditVars == <<pub, queue, hand, topic, committed, consumer, stored, accepted, unwritten,
               panicked, repeats>>
publisherVars == <<pub, queue, hand, accepted, unwritten, panicked>>
consumerVars == <<committed, consumer, stored, repeats>>

-----------------------------------------------------------------------------
(* Init: a topic that may hold messages of others; the consumer may be
   disabled (NoopConsumer). *)
AuditInit(messages, consuming) ==
    /\ pub = [p \in Procs |-> "none"]
    /\ queue = [p \in Procs |-> << >>]
    /\ hand = [p \in Procs |-> {}]
    /\ topic = messages
    /\ committed = 0
    /\ consumer = [pc |-> IF consuming THEN "down" ELSE "noop", at |-> 0, cancelled |-> FALSE]
    /\ stored = [e \in Events |-> 0]
    /\ accepted = {}
    /\ unwritten = {}
    /\ panicked = {}
    /\ repeats = 0

(* NewKafkaPublisher: without brokers, or disabled, events are discarded. *)
NewKafkaPublisher(p, brokers) ==
    /\ pub' = [pub EXCEPT ![p] = IF brokers THEN "open" ELSE "noop"]
    /\ UNCHANGED <<queue, hand, topic, accepted, unwritten, panicked, consumerVars>>

(* Publish never waits: a full queue drops the event with an error, and a
   send on the closed queue panics. *)
Publish(p, e) ==
    LET room == Len(queue[p]) < QueueSize
    IN  /\ pub[p] # "none"
        /\ queue' = IF pub[p] = "open" /\ room
                    THEN [queue EXCEPT ![p] = Append(@, e)] ELSE queue
        /\ accepted' = IF pub[p] = "open" /\ room THEN accepted \cup {e} ELSE accepted
        /\ panicked' = IF pub[p] \in {"closing", "closed"} THEN panicked \cup {e} ELSE panicked
        /\ UNCHANGED <<pub, hand, topic, unwritten, consumerVars>>

(* Mutant: the goroutine stops when the publisher is closed. *)
TakeWhileOpen(p) ==
    /\ pub[p] = "open"
    /\ hand[p] = {}
    /\ queue[p] # << >>
    /\ hand' = [hand EXCEPT ![p] = {Head(queue[p])}]
    /\ queue' = [queue EXCEPT ![p] = Tail(@)]
    /\ UNCHANGED <<pub, topic, accepted, unwritten, panicked, consumerVars>>

(* run: take the next event; the range loop ends when the closed queue is
   empty, which is what Close waits for. *)
Take(p) ==
    /\ pub[p] \in {"open", "closing"}
    /\ hand[p] = {}
    /\ queue[p] # << >>
    /\ hand' = [hand EXCEPT ![p] = {Head(queue[p])}]
    /\ queue' = [queue EXCEPT ![p] = Tail(@)]
    /\ UNCHANGED <<pub, topic, accepted, unwritten, panicked, consumerVars>>

Write(p) ==
    \E e \in hand[p] :
        /\ topic' = Append(topic, e)
        /\ hand' = [hand EXCEPT ![p] = {}]
        /\ UNCHANGED <<pub, queue, accepted, unwritten, panicked, consumerVars>>

(* WriteMessages fails or times out: the error is logged, the event dropped;
   the brokers may have the message all the same. *)
WriteFails(p) ==
    \E e \in hand[p] :
        /\ topic' \in {topic, Append(topic, e)}
        /\ hand' = [hand EXCEPT ![p] = {}]
        /\ unwritten' = unwritten \cup {e}
        /\ UNCHANGED <<pub, queue, accepted, panicked, consumerVars>>

ClosePublisher(p) ==
    /\ pub' = [pub EXCEPT ![p] = IF @ = "open" THEN "closing" ELSE @]
    /\ UNCHANGED <<queue, hand, topic, accepted, unwritten, panicked, consumerVars>>

(* Mutant: Close does not wait for the event being written. *)
DrainedQueue(p) == queue[p] = << >>

(* Close returns once the goroutine has left its loop. *)
Drained(p) == queue[p] = << >> /\ hand[p] = {}

CloseReturns(p) ==
    /\ pub[p] = "closing"
    /\ Drained(p)
    /\ pub' = [pub EXCEPT ![p] = "closed"]
    /\ UNCHANGED <<queue, hand, topic, accepted, unwritten, panicked, consumerVars>>

(* The process ends: what is still queued or being written is gone. *)
ForgetPublisher(p) ==
    /\ pub' = [pub EXCEPT ![p] = "none"]
    /\ unwritten' = unwritten \cup ToSet(queue[p]) \cup hand[p]
    /\ queue' = [queue EXCEPT ![p] = << >>]
    /\ hand' = [hand EXCEPT ![p] = {}]
    /\ UNCHANGED <<topic, accepted, panicked, consumerVars>>

-----------------------------------------------------------------------------
(* The consumer.  A new reader starts behind the committed offset. *)
NewKafkaConsumer ==
    /\ consumer.pc = "down"
    /\ consumer' = [pc |-> "fetch", at |-> committed, cancelled |-> FALSE]
    /\ UNCHANGED <<topic, committed, stored, repeats, publisherVars>>

Fetch ==
    /\ consumer.pc = "fetch"
    /\ ~consumer.cancelled
    /\ consumer.at < Len(topic)
    /\ consumer' = [consumer EXCEPT !.at = @ + 1,
                        !.pc = IF topic[consumer.at + 1] = Garbage THEN "commit" ELSE "append"]
    /\ UNCHANGED <<topic, committed, stored, repeats, publisherVars>>

(* FetchMessage returns an error once the context is cancelled. *)
FetchCancelled ==
    /\ consumer.pc = "fetch"
    /\ consumer.cancelled
    /\ consumer' = [consumer EXCEPT !.pc = "down"]
    /\ repeats' = repeats + 1
    /\ UNCHANGED <<topic, committed, stored, publisherVars>>

AppendEvent ==
    /\ consumer.pc = "append"
    /\ stored' = [stored EXCEPT ![topic[consumer.at]] = @ + 1]
    /\ consumer' = [consumer EXCEPT !.pc = "commit"]
    /\ UNCHANGED <<topic, committed, repeats, publisherVars>>

(* Append fails: retried for ever, unless the consumer is closing.  The
   store may have kept the event. *)
AppendFails ==
    /\ consumer.pc = "append"
    /\ stored' \in {stored, [stored EXCEPT ![topic[consumer.at]] = @ + 1]}
    /\ consumer' = IF consumer.cancelled THEN [consumer EXCEPT !.pc = "down"] ELSE consumer
    /\ repeats' = repeats + 1
    /\ UNCHANGED <<topic, committed, publisherVars>>

(* CommitMessages fails under a cancelled context; a failure is only logged
   and the next message is fetched. *)
Commit ==
    /\ consumer.pc = "commit"
    /\ committed' = IF consumer.cancelled THEN committed ELSE consumer.at
    /\ consumer' = [consumer EXCEPT !.pc = "fetch"]
    /\ UNCHANGED <<topic, stored, repeats, publisherVars>>

CommitFails ==
    /\ consumer.pc = "commit"
    /\ consumer' = [consumer EXCEPT !.pc = "fetch"]
    /\ UNCHANGED <<topic, committed, stored, repeats, publisherVars>>

CloseConsumer ==
    /\ consumer.pc \notin {"down", "noop"}
    /\ ~consumer.cancelled
    /\ consumer' = [consumer EXCEPT !.cancelled = TRUE]
    /\ UNCHANGED <<topic, committed, stored, repeats, publisherVars>>

ConsumerCrash ==
    /\ consumer.pc \notin {"down", "noop"}
    /\ consumer' = [consumer EXCEPT !.pc = "down"]
    /\ repeats' = repeats + 1
    /\ UNCHANGED <<topic, committed, stored, publisherVars>>

-----------------------------------------------------------------------------
\* The audit variables hold values of their types; the queue keeps to its size.
AuditTypeOK ==
    /\ pub \in [Procs -> {"none", "noop", "open", "closing", "closed"}]
    /\ \A p \in Procs : queue[p] \in Seq(Events) /\ Len(queue[p]) <= QueueSize
    /\ \A p \in Procs : hand[p] \subseteq Events /\ Cardinality(hand[p]) <= 1
    /\ topic \in Seq(Events \cup {Garbage})
    /\ consumer.pc \in {"noop", "down", "fetch", "append", "commit"}
    /\ committed \in 0 .. Len(topic)
    /\ consumer.at \in 0 .. Len(topic)
    /\ stored \in [Events -> Nat]
    /\ accepted \cup unwritten \cup panicked \subseteq Events

(* An event that Publish accepted is queued, being written, in the topic, or
   its loss is known (a write that failed and was logged, a process that
   died); in particular Close does not return before the queue is flushed
   ("Close gracefully shuts down the publisher, flushing pending events"). *)
AcceptedAccounted ==
    \A e \in accepted :
        \/ e \in ToSet(topic) \cup unwritten
        \/ \E p \in Procs : pub[p] \in {"open", "closing"} /\ e \in ToSet(queue[p]) \cup hand[p]

(* Every message below the committed offset that decodes is in the store:
   an offset is never committed before the append it stands for succeeded,
   whatever was closed, crashed or retried in between. *)
CommittedWasStored ==
    \A i \in 1 .. committed : topic[i] = Garbage \/ stored[topic[i]] > 0

(* A message is appended more often than it was written only when the
   consumer was restarted or an append was reported as failed. *)
RepeatsHaveACause ==
    \A e \in Events : stored[e] <= Len(SelectSeq(topic, LAMBDA m : m = e)) * (1 + repeats)
=============================================================================
