------------------------------- MODULE Service -------------------------------
(***************************************************************************)
(* The life of a service process (pkg/app Run, pkg/server Start), composed *)
(* with the parts it starts: where its configuration comes from            *)
(* (RuntimeConfig), what it registers in the control plane during setup    *)
(* (Provisioning), its audit publisher and the consumer behind it          *)
(* (AuditTrail), and the exporter of its logs (pkg/observability/logs.go,  *)
(* below).  A process starts, serves requests concurrently, is signalled,  *)
(* drains, runs its shutdown hooks and closes what it opened in reverse    *)
(* order; it may also crash anywhere and be started again on the files and *)
(* the control plane it left behind.                                       *)
(***************************************************************************)
EXTENDS RuntimeConfig, Provisioning, AuditTrail

CONSTANTS Configs,      \* the deployments to start from: sets of records (see Init)
          Requests,     \* requests; the audit event of a request is the request
          AppHooks,     \* OnShutdown hooks in the order they are registered
          SetupHooks,   \* SetupResult.Shutdown, in order; a hook is the event it
                        \* publishes, or Quiet
          Quiet,
          BufferSize    \* entries that make EmitLog flush

ASSUME ServiceAssumption == /\ Requests \subseteq Events
                            /\ BufferSize \in Nat \ {0}

VARIABLES conf,         \* [Procs -> which parts the application enables, the requests it
                        \* gets, and maxStarts, a bound on its starts]
          pc,           \* [Procs -> where Run is]
          starts,       \* [Procs -> number of times it was started]
          listening,    \* [Procs -> "no", "pending", "yes", "deaf", "closed"]
          obs,          \* [Procs -> observability.New succeeded]
          hooks,        \* [Procs -> hooks still to run]
          ran,          \* history: [Procs -> hooks run by this start]
          request,      \* [Requests -> [at, proc]]
          overdue,      \* history: requests in flight when the drain timed out
          log,          \* [Procs -> the log exporter of the process's logger]
          logged        \* history: what became of the log entries

lifeVars == <<conf, pc, starts, listening, obs, hooks, ran, request, overdue, log, logged>>
vars == <<faults, configVars, provVars, auditVars, lifeVars>>

NoLog == [on |-> FALSE, buffer |-> 0, due |-> 0, batches |-> << >>]
NoRequest == [at |-> "new", proc |-> "none"]

Init ==
    /\ \E c \in Configs : /\ faults = c.faults
                          /\ conf = c.conf
                          /\ ConfigInit(c.opts, c.release, c.cache)
                          /\ ProvInit(c.known, c.granted)
                          /\ AuditInit(c.topic, c.consuming)
    /\ pc = [p \in Procs |-> "down"]
    /\ starts = [p \in Procs |-> 0]
    /\ listening = [p \in Procs |-> "no"]
    /\ obs = [p \in Procs |-> FALSE]
    /\ hooks = [p \in Procs |-> << >>]
    /\ ran = [p \in Procs |-> << >>]
    /\ request = [r \in Requests |-> NoRequest]
    /\ overdue = {}
    /\ log = [p \in Procs |-> NoLog]
    /\ logged = [emitted |-> 0, sent |-> 0, dropped |-> 0, abandoned |-> 0]

At(p, from) == pc[p] = from
Goto(p, to) == pc' = [pc EXCEPT ![p] = to]

-----------------------------------------------------------------------------
(* The log exporter.  EmitLog appends under the lock and decides under the
   lock whether the buffer is full; the flush it then makes takes the lock
   again, as does the flush loop's. *)
EmitLog(p) ==
    IF ~log[p].on THEN UNCHANGED <<log, logged>>
    ELSE /\ log' = [log EXCEPT ![p].buffer = @ + 1,
                       ![p].due = IF log[p].buffer + 1 >= BufferSize THEN @ + 1 ELSE @]
         /\ logged' = [logged EXCEPT !.emitted = @ + 1]

(* Mutant: the buffer is copied but not emptied. *)
TakeBatchKeeping(p, due) ==
    log' = [log EXCEPT ![p].due = @ - due,
               ![p].batches = IF log[p].buffer = 0 THEN @ ELSE Append(@, log[p].buffer)]

(* Flush copies and empties the buffer in one critical section. *)
TakeBatch(p, due) ==
    log' = [log EXCEPT ![p].buffer = 0, ![p].due = @ - due,
               ![p].batches = IF log[p].buffer = 0 THEN @ ELSE Append(@, log[p].buffer)]

Flush(p) ==
    /\ log[p].due > 0
    /\ TakeBatch(p, 1)
    /\ UNCHANGED <<faults, configVars, provVars, auditVars, conf, pc, starts, listening, obs,
                   hooks, ran, request, overdue, logged>>

FlushLoop(p) ==
    /\ log[p].on
    /\ log[p].buffer > 0
    /\ TakeBatch(p, 0)
    /\ UNCHANGED <<faults, configVars, provVars, auditVars, conf, pc, starts, listening, obs,
                   hooks, ran, request, overdue, logged>>

(* The batch is posted; any failure loses it. *)
Send(p) ==
    /\ log[p].batches # << >>
    /\ log' = [log EXCEPT ![p].batches = Tail(@)]
    /\ \/ logged' = [logged EXCEPT !.sent = @ + Head(log[p].batches)] /\ UNCHANGED faults
       \/ logged' = [logged EXCEPT !.dropped = @ + Head(log[p].batches)] /\ Fault
    /\ UNCHANGED <<configVars, provVars, auditVars, conf, pc, starts, listening, obs, hooks, ran,
                   request, overdue>>

Pending(l) == l.buffer + FoldLeft(LAMBDA a, b : a + b, 0, l.batches)

-----------------------------------------------------------------------------
(* Run, step by step.  The parts that are off are passed over. *)
Start(p) ==
    /\ At(p, "down")
    /\ starts[p] < conf[p].maxStarts
    /\ starts' = [starts EXCEPT ![p] = @ + 1]
    /\ ran' = [ran EXCEPT ![p] = << >>]
    /\ Goto(p, IF conf[p].runtime THEN "config" ELSE "validate")
    /\ UNCHANGED <<faults, configVars, provVars, auditVars, conf, listening, obs, hooks, request,
                   overdue, log, logged>>

Configure(p) ==
    /\ At(p, "config")
    /\ \/ /\ ResolveInto(p) \/ ResolveNamespace(p) \/ ReadCacheFile(p) \/ Unavailable(p)
             \/ WriteJSONFile(p) \/ (ResolveImpossible(p) /\ ResolveFails(p))
          /\ UNCHANGED <<faults, pc>>
       \/ (ResolveFails(p) \/ FileWriteFails(p)) /\ Fault /\ UNCHANGED pc
       \/ /\ run[p].pc = "done"
          /\ Goto(p, "validate")
          /\ UNCHANGED <<faults, configVars>>
       \/ /\ run[p].pc = "failed"
          /\ Goto(p, "exit")
          /\ UNCHANGED <<faults, configVars>>
    /\ UNCHANGED <<provVars, auditVars, conf, starts, listening, obs, hooks, ran, request, overdue,
                   log, logged>>

(* The configuration validator returns before anything was opened. *)
Validate(p) ==
    /\ At(p, "validate")
    /\ \/ Goto(p, "observe") /\ UNCHANGED faults
       \/ Goto(p, "exit") /\ Fault
    /\ UNCHANGED <<configVars, provVars, auditVars, conf, starts, listening, obs, hooks, ran,
                   request, overdue, log, logged>>

(* The SigNoz logger and observability.New each have an exporter; only the
   logger's ever receives an entry.  A failure of either is only logged. *)
Observe(p) ==
    /\ At(p, "observe")
    /\ \/ /\ obs' = [obs EXCEPT ![p] = conf[p].observability]
          /\ UNCHANGED faults
       \/ /\ conf[p].observability
          /\ UNCHANGED obs
          /\ Fault
    /\ log' = [log EXCEPT ![p].on = conf[p].observability]
    /\ Goto(p, "audit")
    /\ UNCHANGED <<configVars, provVars, auditVars, conf, starts, listening, hooks, ran, request,
                   overdue, logged>>

OpenAudit(p) ==
    /\ At(p, "audit")
    /\ IF conf[p].audit = "off" THEN UNCHANGED auditVars
       ELSE NewKafkaPublisher(p, conf[p].audit = "kafka")
    /\ Goto(p, "setup")
    /\ UNCHANGED <<faults, configVars, provVars, conf, starts, listening, obs, hooks, ran, request,
                   overdue, log, logged>>

(* The setup function.  When it fails, Run returns before the deferred call
   that runs the hooks exists; otherwise that call is in place from here on:
   the application's hooks, newest first, then the setup's. *)
ShutdownHooks(p) ==
    Reverse(AppHooks) \o (IF conf[p].setup THEN Reverse(SetupHooks) ELSE << >>)

Setup(p) ==
    /\ At(p, "setup")
    /\ \/ /\ conf[p].setup
          /\ \/ /\ BeginSetup(p) \/ EnsurePermissions(p) \/ LoadPermissions(p)
                   \/ ValidateRoleIDs(p) \/ GetPermissionsByCode(p) \/ SyncPermissionsToRole(p)
                /\ UNCHANGED faults
             \/ CallFails(p) /\ Fault
          /\ UNCHANGED <<pc, hooks>>
       \/ /\ ~conf[p].setup \/ prov[p].pc = "done"
          /\ hooks' = [hooks EXCEPT ![p] = ShutdownHooks(p)]
          /\ Goto(p, "listen")
          /\ UNCHANGED <<faults, provVars>>
       \/ /\ prov[p].pc = "failed"
          /\ Goto(p, "closeAudit")
          /\ UNCHANGED <<faults, provVars, hooks>>
    /\ UNCHANGED <<configVars, auditVars, conf, starts, listening, obs, ran, request, overdue, log,
                   logged>>

(* server.Start probes the port, then serves from a goroutine of its own and
   waits for a signal. *)
ListenProbe(p) ==
    /\ At(p, "listen")
    /\ \/ /\ Goto(p, "serve")
          /\ listening' = [listening EXCEPT ![p] = "pending"]
          /\ UNCHANGED faults
       \/ /\ Goto(p, "hooks")
          /\ Fault
          /\ UNCHANGED listening
    /\ UNCHANGED <<configVars, provVars, auditVars, conf, starts, obs, hooks, ran, request, overdue,
                   log, logged>>

(* The goroutine: an error of ListenAndServe is only logged, and the process
   goes on waiting for a signal without listening. *)
ListenAndServe(p) ==
    /\ listening[p] = "pending"
    /\ \/ listening' = [listening EXCEPT ![p] = "yes"] /\ UNCHANGED faults
       \/ listening' = [listening EXCEPT ![p] = "deaf"] /\ Fault
    /\ UNCHANGED <<configVars, provVars, auditVars, conf, pc, starts, obs, hooks, ran, request,
                   overdue, log, logged>>

Signal(p) ==
    /\ At(p, "serve")
    /\ Goto(p, "drain")
    /\ listening' = [listening EXCEPT ![p] = "closed"]
    /\ EmitLog(p)
    /\ UNCHANGED <<faults, configVars, provVars, auditVars, conf, starts, obs, hooks, ran, request,
                   overdue>>

InFlight(p) == {r \in Requests : request[r].proc = p /\ request[r].at \in {"handling", "logging"}}

(* http.Server.Shutdown waits for the requests in flight, or for its
   timeout; either way Run goes on to its deferred calls. *)
Shutdown(p) ==
    /\ At(p, "drain")
    /\ overdue' = overdue \cup InFlight(p)
    /\ Goto(p, "hooks")
    /\ UNCHANGED <<faults, configVars, provVars, auditVars, conf, starts, listening, obs, hooks, ran,
                   request, log, logged>>

(* Mutant: the hooks run in the order they were registered. *)
RunShutdownHooksForward(p) ==
    /\ At(p, "hooks")
    /\ IF hooks[p] = << >>
       THEN Goto(p, "closeAudit") /\ UNCHANGED <<hooks, ran, auditVars>>
       ELSE /\ ran' = [ran EXCEPT ![p] = Append(@, Last(hooks[p]))]
            /\ hooks' = [hooks EXCEPT ![p] = Front(@)]
            /\ UNCHANGED <<pc, auditVars>>
    /\ UNCHANGED <<faults, configVars, provVars, conf, starts, listening, obs, request, overdue,
                   log, logged>>

RunShutdownHooks(p) ==
    /\ At(p, "hooks")
    /\ IF hooks[p] = << >>
       THEN Goto(p, "closeAudit") /\ UNCHANGED <<hooks, ran, auditVars>>
       ELSE /\ ran' = [ran EXCEPT ![p] = Append(@, Head(hooks[p]))]
            /\ hooks' = [hooks EXCEPT ![p] = Tail(@)]
            /\ IF Head(hooks[p]) # Quiet /\ pub[p] # "none"
               THEN Publish(p, Head(hooks[p])) ELSE UNCHANGED auditVars
            /\ UNCHANGED pc
    /\ UNCHANGED <<faults, configVars, provVars, conf, starts, listening, obs, request, overdue,
                   log, logged>>

(* The deferred Close of the audit publisher, then the deferred Shutdown of
   observability. *)
CloseAudit(p) ==
    /\ \/ At(p, "closeAudit") /\ pub[p] # "none" /\ ClosePublisher(p) /\ Goto(p, "waitAudit")
       \/ At(p, "waitAudit") /\ CloseReturns(p) /\ UNCHANGED pc
       \/ At(p, "waitAudit") /\ pub[p] \in {"noop", "closed"} /\ Goto(p, "obs") /\ UNCHANGED auditVars
       \/ At(p, "closeAudit") /\ pub[p] = "none" /\ Goto(p, "obs") /\ UNCHANGED auditVars
    /\ UNCHANGED <<faults, configVars, provVars, conf, starts, listening, obs, hooks, ran, request,
                   overdue, log, logged>>

(* The tracer provider is shut down, and with it an exporter that holds no
   entries; the logger's exporter is left as it is. *)
ObservabilityShutdown(p) ==
    /\ At(p, "obs")
    /\ Goto(p, "exit")
    /\ UNCHANGED <<faults, configVars, provVars, auditVars, conf, starts, listening, obs, hooks, ran,
                   request, overdue, log, logged>>

(* The process ends, by returning from Run or by a crash. *)
EndProcess(p) ==
    /\ Goto(p, "down")
    /\ ForgetConfig(p)
    /\ ForgetSetup(p)
    /\ ForgetPublisher(p)
    /\ request' = [r \in Requests |-> IF r \in InFlight(p)
                                      THEN [request[r] EXCEPT !.at = "cut"] ELSE request[r]]
    /\ logged' = [logged EXCEPT !.abandoned = @ + Pending(log[p])]
    /\ log' = [log EXCEPT ![p] = NoLog]
    /\ listening' = [listening EXCEPT ![p] = "no"]
    /\ obs' = [obs EXCEPT ![p] = FALSE]
    /\ hooks' = [hooks EXCEPT ![p] = << >>]
    /\ UNCHANGED <<opts, release, cacheFile, stateFile, resolved, unsaved, registered, known,
                   grants, conf, starts, ran, overdue>>

Exit(p) == At(p, "exit") /\ EndProcess(p) /\ UNCHANGED faults
Crash(p) == ~At(p, "down") /\ EndProcess(p) /\ Fault

-----------------------------------------------------------------------------
(* A request: the handler runs, the audit middleware publishes on the way
   out, the access logger writes its line last. *)
Arrive(r, p) ==
    /\ listening[p] = "yes"
    /\ request[r] = NoRequest
    /\ r \in conf[p].requests
    /\ request' = [request EXCEPT ![r] = [at |-> "handling", proc |-> p]]
    /\ UNCHANGED <<faults, configVars, provVars, auditVars, conf, pc, starts, listening, obs, hooks,
                   ran, overdue, log, logged>>

(* A panic in Publish is beyond the recovery middleware, and ends the
   request without its log line. *)
PublishEvent(r) ==
    LET p == request[r].proc IN
    /\ request[r].at = "handling"
    /\ IF pub[p] = "none" THEN UNCHANGED auditVars ELSE Publish(p, r)
    /\ request' = [request EXCEPT ![r].at =
          IF pub[p] \in {"closing", "closed"} THEN "done" ELSE "logging"]
    /\ UNCHANGED <<faults, configVars, provVars, conf, pc, starts, listening, obs, hooks, ran,
                   overdue, log, logged>>

AccessLog(r) ==
    /\ request[r].at = "logging"
    /\ EmitLog(request[r].proc)
    /\ request' = [request EXCEPT ![r].at = "done"]
    /\ UNCHANGED <<faults, configVars, provVars, auditVars, conf, pc, starts, listening, obs, hooks,
                   ran, overdue>>

PublisherStep(p) ==
    /\ \/ (Take(p) \/ Write(p)) /\ UNCHANGED faults
       \/ WriteFails(p) /\ Fault
    /\ UNCHANGED <<configVars, provVars, lifeVars>>

ConsumerStep ==
    /\ NewKafkaConsumer \/ Fetch \/ FetchCancelled \/ AppendEvent \/ Commit
    /\ UNCHANGED <<faults, configVars, provVars, lifeVars>>

ConsumerFault ==
    /\ AppendFails \/ CommitFails \/ CloseConsumer \/ ConsumerCrash
    /\ Fault
    /\ UNCHANGED <<configVars, provVars, lifeVars>>

ControlPlaneStep ==
    /\ \/ PublishRelease /\ UNCHANGED provVars
       \/ \E p \in Procs, v \in 1 .. MaxRelease : Deploy(p, v) /\ UNCHANGED provVars
       \/ CreateRoles /\ UNCHANGED configVars
    /\ UNCHANGED <<faults, auditVars, lifeVars>>

RunStep(p) ==
    \/ Configure(p) \/ Validate(p) \/ Observe(p) \/ OpenAudit(p) \/ Setup(p) \/ ListenProbe(p)
    \/ ListenAndServe(p) \/ Shutdown(p) \/ RunShutdownHooks(p) \/ CloseAudit(p)
    \/ ObservabilityShutdown(p) \/ Exit(p)

LogStep(p) == Flush(p) \/ FlushLoop(p) \/ Send(p)
RequestStep(r) == PublishEvent(r) \/ AccessLog(r)

Next ==
    \/ \E p \in Procs : \/ Start(p) \/ RunStep(p) \/ Signal(p) \/ Crash(p) \/ LogStep(p)
                        \/ PublisherStep(p)
                        \/ \E r \in Requests : Arrive(r, p)
    \/ \E r \in Requests : RequestStep(r)
    \/ ConsumerStep \/ ConsumerFault
    \/ ControlPlaneStep

Spec == Init /\ [][Next]_vars

(* Goroutines that can run do run; nothing makes a process start, a signal,
   a request or a fault happen. *)
Fairness ==
    /\ \A p \in Procs : WF_vars(RunStep(p)) /\ WF_vars(PublisherStep(p))
    /\ WF_vars(ConsumerStep)

FairSpec == Spec /\ Fairness

-----------------------------------------------------------------------------
\* Every variable holds a value of its type: a process is at a step of app.Run
\* or server.Start, and its queues, buffers and the shared services hold what
\* the code may put there.
TypeOK ==
    /\ faults \in 0 .. MaxFaults
    /\ ConfigTypeOK /\ ProvTypeOK /\ AuditTypeOK
    /\ pc \in [Procs -> {"down", "config", "validate", "observe", "audit", "setup", "listen",
                         "serve", "drain", "hooks", "closeAudit", "waitAudit", "obs", "exit"}]
    /\ \A p \in Procs : starts[p] \in 0 .. conf[p].maxStarts
    /\ listening \in [Procs -> {"no", "pending", "yes", "deaf", "closed"}]
    /\ \A r \in Requests : request[r].at \in {"new", "handling", "logging", "done", "cut"}
    /\ \A p \in Procs : log[p].buffer \in Nat /\ log[p].due \in Nat
    /\ overdue \subseteq Requests

(* Only a request that the server's shutdown stopped waiting for can find
   the audit queue closed: neither a request that was drained nor a shutdown
   hook publishes on a closed queue (a send that panics in Publish), because
   the hooks run before the publisher is closed and after the drain. *)
PanicsOnlyOverdue == panicked \subseteq overdue

(* A start that gets as far as closing its publisher has run every hook of
   the application, newest first, and then every hook of its setup, newest
   first, each once ("Hooks are executed in reverse registration order"); a
   start whose setup failed has run none. *)
HooksRanInReverse ==
    \A p \in Procs :
        pc[p] \in {"closeAudit", "waitAudit", "obs"} =>
            ran[p] = IF prov[p].pc = "failed" THEN << >> ELSE ShutdownHooks(p)

(* Every log entry given to an exporter is in its buffer, in a batch being
   posted, posted, dropped with a batch that failed, or was left behind by a
   process that ended: concurrent flushes (the loop's and the ones a full
   buffer causes) neither lose nor repeat an entry. *)
LogsAccounted ==
    logged.emitted = logged.sent + logged.dropped + logged.abandoned
                     + FoldLeft(LAMBDA a, p : a + Pending(log[p]), 0, SetToSeq(Procs))

(* The exporter's buffer passes its size only by entries of goroutines that
   are about to flush it. *)
BufferBounded == \A p \in Procs : log[p].buffer < BufferSize + log[p].due

(* Neither a start nor a shutdown hangs: over and over, every process is
   serving or down.  A start that lost the control plane falls back or ends;
   after a signal the drain has a timeout, the hooks are finitely many and
   the audit publisher's Close waits for a finite queue. *)
ProcessesSettle == []<>(\A p \in Procs : pc[p] \in {"serve", "down"})

(* The audit events in the topic reach the store, however often the consumer
   is closed, crashes or fails to append on the way. *)
WrittenIsStored ==
    []<>(consumer.pc # "noop" => \A e \in Events : e \in ToSet(topic) => stored[e] > 0)

-----------------------------------------------------------------------------
(* What the runs check of each part.                                       *)

(* What a start makes of its configuration: during an outage the release it
   resolved last, and a state file that describes the start it belongs to. *)
ConfigOfTheStart == OutageServesLastResolved /\ StateFileDescribesTheStart

(* A process serves with the codes it defines, and a role that was synchronised
   has exactly the permissions its definitions give it, although two services
   synchronise it at once. *)
ProvisionedExactly == StoreHasOwnCodes /\ SyncedRolesAreExact

(* No audit event is lost unnoticed between Publish and the consumer's store:
   accepted events are accounted for, committed ones were stored, and stored
   ones were repeated only for a cause. *)
AuditAccounted == AcceptedAccounted /\ CommittedWasStored /\ RepeatsHaveACause

(* Shutdown keeps its order: hooks after the drain and before the publisher is
   closed, newest first, and buffers within their bounds up to the end. *)
ShutdownInOrder == TypeOK /\ PanicsOnlyOverdue /\ HooksRanInReverse /\ BufferBounded

(* Processes settle and what was written is stored in the end. *)
EverythingSettles == ProcessesSettle /\ WrittenIsStored
=============================================================================
