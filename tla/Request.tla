------------------------------ MODULE Request -------------------------------
(***************************************************************************)
(* A request on its way through an engine of pkg/server: the middleware    *)
(* that NewEngine installs, in its order; the middleware a service adds    *)
(* (authentication, permission, tenant scope, authorization, enrichment,   *)
(* feature flags) in an order of its own; the handler; and the way back    *)
(* out, where errors become replies, the in-flight gauge is lowered, and   *)
(* the audit event and the access log line are written.  A panic unwinds   *)
(* past everything outside the Recovery middleware.                        *)
(*                                                                         *)
(* Requests run concurrently and share the gauge.  Verification of the     *)
(* token and the answers of Sentinel are modelled in Inbound.tla and are   *)
(* inputs here.                                                            *)
(***************************************************************************)
EXTENDS RequestScope, FiniteSets

CONSTANTS
    Slots,      \* requests
    Configs,    \* how services build their engines, as records
    Inputs,     \* the requests that may arrive, by the name a config gives for them
    IdKeys      \* the names of parameters that end in _id

VARIABLES config, req, gauge

vars == <<config, req, gauge>>

NoQuestion == [made |-> FALSE, tenant |-> "", scoped |-> "", resource |-> ""]
NoScope == [done |-> FALSE, tenant |-> ""]
NoVisit == [ran |-> FALSE, db |-> "", ginDb |-> "", envelope |-> NewEnvelope(NoContext, "", ""),
            key |-> "", body |-> FALSE]
NoEvent == [made |-> FALSE, tenant |-> "", user |-> "", id |-> "", status |-> "", resource |-> "",
            action |-> <<>>, metadata |-> <<>>]

\* writer: gin's ResponseWriter; errors: the statuses of c.Errors; spent: the
\* body's stream is at its end; handler: what the handler saw.
Fresh ==
    [pc |-> "idle", i |-> 0, in |-> <<>>, writer |-> [status |-> 200, written |-> FALSE],
     errors |-> <<>>, gin |-> NoKeys, ctx |-> NoContext, spent |-> FALSE, scope |-> NoScope,
     permission |-> NoQuestion, authz |-> NoQuestion, handler |-> NoVisit, event |-> NoEvent,
     logged |-> ""]

Init ==
    /\ config \in Configs
    /\ req = [r \in Slots |-> Fresh]
    /\ gauge = 0

Stay == UNCHANGED <<config, gauge>>

\* The status of a reply that has been written stays what it is.
Reply(q, code) ==
    [q EXCEPT !.writer = IF @.written THEN @ ELSE [status |-> code, written |-> TRUE]]

Abort(q, code) == [Reply(q, code) EXCEPT !.pc = "errors"]

Next1(q) == [q EXCEPT !.i = @ + 1]

At(r, step) ==
    req[r].pc = "chain" /\ req[r].i <= Len(config.chain) /\ config.chain[req[r].i] = step

AtHandler(r) == req[r].pc = "chain" /\ req[r].i > Len(config.chain)

-----------------------------------------------------------------------------
(* The engine.                                                             *)

\* RequestIDMiddleware: the client's id, or a generated one.
Arrive(r) ==
    /\ req[r].pc = "idle" /\ r \in config.slots
    /\ \E in \in Inputs[config.inputs] :
          LET id == First(<<in.id, "generated">>)
          IN  req' = [req EXCEPT ![r] = [Fresh EXCEPT !.pc = "engine", !.in = in,
                                                      !.gin.id = id, !.ctx.id = id]]
    /\ Stay

\* TenantStatusMiddleware, which reads the claims in the gin.Context.
TenantStatusBlocks(claims) ==
    /\ claims # NoClaims /\ ~IsServiceToken(claims)
    /\ ClaimString(claims.Raw, "tenant_status") \in DefaultTenantAccessConfig.Blocked

\* The middleware between the audit and the Prometheus one.
EngineRefusal(q, limited) ==
    Refusal(<< <<config.cors /\ q.in.method = "OPTIONS", 204>>,
               <<limited, 429>>,
               <<config.status /\ TenantStatusBlocks(q.gin.claims), 403>> >>)

NewEngine(r) ==
    /\ req[r].pc = "engine"
    /\ \E limited \in config.limited :
          LET code == EngineRefusal(req[r], limited)
          IN  IF code # 0
              THEN /\ req' = [req EXCEPT ![r] = [Reply(@, code) EXCEPT !.pc = "audit"]]
                   /\ gauge' = gauge
              ELSE /\ req' = [req EXCEPT ![r].pc = "chain", ![r].i = 1]
                   /\ gauge' = IF config.prometheus THEN gauge + 1 ELSE gauge
    /\ UNCHANGED config

-----------------------------------------------------------------------------
(* The middleware of the service.                                          *)

\* authenticate: the claims go to the gin.Context and to the request's context.
Authenticated(q) ==
    IF q.gin.claims # NoClaims \/ ~q.in.valid THEN q
    ELSE LET claims == MapClaimsToAuthClaims(q.in.token)
         IN  [q EXCEPT !.gin.claims = claims, !.ctx = ContextWithClaims(@, claims)]

RequireAuthenticated(r) ==
    /\ At(r, "authenticate")
    /\ LET q == Authenticated(req[r])
       IN  req' = [req EXCEPT ![r] = IF q.gin.claims = NoClaims THEN Abort(q, 401) ELSE Next1(q)]
    /\ Stay

\* Mutant: the stream is not put back.
RequestBodyBytesSpent(q, key) ==
    IF key \in q.gin.body THEN q ELSE [q EXCEPT !.gin.body = @ \cup {key}, !.spent = TRUE]

\* requestBodyBytes: the body is read once per package, kept under the
\* package's own key, and the stream is put back.  A read that fails leaves
\* the stream where it stopped.
RequestBodyBytes(q, key) ==
    IF key \in q.gin.body THEN q
    ELSE IF q.in.broken THEN [q EXCEPT !.spent = TRUE]
    ELSE [q EXCEPT !.gin.body = @ \cup {key}]

Body(q, key) ==
    IF key \in q.gin.body /\ ~q.spent THEN q.in.body ELSE <<>>

Answers == {"allow", "deny", "fail"}

Decided(q, answer) ==
    CASE answer = "allow" -> Next1(q) [] answer = "deny" -> Abort(q, 403) [] OTHER -> Abort(q, 503)

\* Service tokens pass: BypassServiceTokenPermissions is on by default.
RequirePermission(r) ==
    /\ At(r, "permission")
    /\ LET q == Authenticated(req[r])
           read == RequestBodyBytes(q, "auth")
           input == BuildPermissionDecisionRequest(q.in, Body(read, "auth"), q.gin, q.ctx,
                                                   q.gin.claims, config.code, IdKeys)
           asked == [read EXCEPT !.permission =
                        [made |-> TRUE, tenant |-> input.tenant, scoped |-> q.scope.tenant,
                         resource |-> input.resource]]
       IN  \/ /\ q.gin.claims = NoClaims
              /\ req' = [req EXCEPT ![r] = Abort(q, 401)]
           \/ /\ IsServiceToken(q.gin.claims)
              /\ req' = [req EXCEPT ![r] = Next1(q)]
           \/ /\ q.gin.claims # NoClaims /\ ~IsServiceToken(q.gin.claims)
              /\ IF ParsePermissionCode(config.code) /\ input.subject # ""
                 THEN \E answer \in Answers : req' = [req EXCEPT ![r] = Decided(asked, answer)]
                 ELSE req' = [req EXCEPT ![r] = Abort(q, 500)]
    /\ Stay

\* Mutant: the request's context is forgotten.
SetTenantIDGinOnly(q, id) == IF id = "" THEN q ELSE [q EXCEPT !.gin.tenant = id]

SetTenantID(q, id) ==
    IF id = "" THEN q ELSE [q EXCEPT !.gin.tenant = id, !.ctx = ContextWithTenantID(@, id)]

SetUserID(q, id) ==
    IF id = "" THEN q ELSE [q EXCEPT !.gin.user = id, !.ctx = ContextWithUserID(@, id)]

\* The claims a guard works with: gin's, else the request context's.
Claims(q) == IF q.gin.claims # NoClaims THEN q.gin.claims ELSE q.ctx.claims

\* The user is set for users only: the service branch returns before it.
Scoped(q, explicit) ==
    LET scope == ResolveTenantUserScope(q.in, Claims(q), explicit, config.access)
        placed == SetTenantID(q, scope.tenant)
    IN  IF scope.code # 0 THEN Abort(q, scope.code)
        ELSE [IF IsServiceToken(Claims(q)) THEN placed ELSE SetUserID(placed, scope.user)
              EXCEPT !.scope = [done |-> TRUE, tenant |-> scope.tenant]]

TenantAccessMiddleware(r) ==
    /\ At(r, "scope")
    /\ LET q == Scoped(req[r], "")
       IN  req' = [req EXCEPT ![r] = IF q.pc = "errors" THEN q ELSE Next1(q)]
    /\ Stay

\* The cache and the fail-open switch of the decision are in Inbound.tla.
AuthzMiddleware(r) ==
    /\ At(r, "authz")
    /\ LET q == req[r]
           claims == Claims(q)
           read == RequestBodyBytes(q, "authz")
           input == BuildDecisionRequest(q.in, Body(read, "authz"), q.ctx, claims, config.authz)
           asked == [read EXCEPT !.authz =
                        [made |-> TRUE, tenant |-> input.tenant, scoped |-> q.scope.tenant,
                         resource |-> input.resource]]
           code == Refusal(<< <<claims = NoClaims, 401>>,
                              <<IsServiceToken(claims), 0>>,
                              <<claims.TokenUse # "access", 401>>,
                              <<DecisionRequestInvalid(input, config.authz), 500>> >>)
       IN  IF code # 0 THEN req' = [req EXCEPT ![r] = Abort(IF code = 500 THEN read ELSE q, code)]
           ELSE IF IsServiceToken(claims) THEN req' = [req EXCEPT ![r] = Next1(q)]
           ELSE \E answer \in Answers : req' = [req EXCEPT ![r] = Decided(asked, answer)]
    /\ Stay

\* A middleware of the service: it records the request id as the correlation
\* id and itself as the service.
Enrich(r) ==
    /\ At(r, "enrich")
    /\ req' = [req EXCEPT ![r] = Next1([@ EXCEPT !.ctx =
                  ContextWithServiceID(ContextWithCorrelationID(@, req[r].ctx.id), "svc")])]
    /\ Stay

\* A middleware of the service: it publishes the claims as claims_raw, where
\* featureflags and quota look for them.
Publish(r) ==
    /\ At(r, "publish")
    /\ req' = [req EXCEPT ![r] = Next1([@ EXCEPT !.gin.raw = req[r].gin.claims.Raw])]
    /\ Stay

FlagsMiddleware(r) ==
    /\ At(r, "flags")
    /\ req' = [req EXCEPT ![r] = Next1(
                  IF "feature_flags" \in DOMAIN @.gin.raw
                  THEN [@ EXCEPT !.gin.flags = [new_ui |-> req[r].gin.raw.feature_flags]] ELSE @)]
    /\ Stay

\* isTruthy, for a flag that is missing, an empty text, the JSON value false
\* (written "false" here), or anything else.
Enabled(flags) == "new_ui" \in DOMAIN flags /\ flags.new_ui \notin {"", "false"}

RequireFeature(r) ==
    /\ At(r, "feature")
    /\ req' = [req EXCEPT ![r] = IF Enabled(@.gin.flags) THEN Next1(@) ELSE Abort(@, 403)]
    /\ Stay

-----------------------------------------------------------------------------
(* The handler and the way out.                                            *)

\* What the handler finds: the tenant of its queries, whether it passes the
\* request's context or the gin.Context; its event; and the body.
Visited(q) ==
    LET envelope == NewEnvelope(q.ctx, "", "svc")
    IN  [q EXCEPT !.handler =
            [ran |-> TRUE, db |-> TenantScope(q.ctx), ginDb |-> TenantScope(GinContext(q.gin)),
             envelope |-> envelope, key |-> PartitionKey(envelope, "", "type"), body |-> ~q.spent]]

\* A handler may resolve a tenant of its own choice first, which may refuse.
\* It replies, records errors and sets the audit keys.
Handler(r) ==
    /\ AtHandler(r)
    /\ \E explicit \in config.explicit, does \in config.does :
          LET q == IF explicit = "" THEN req[r] ELSE Scoped(req[r], explicit)
              v == Visited(q)
              replied == IF does.reply = 0 THEN v ELSE Reply(v, does.reply)
          IN  req' = [req EXCEPT ![r] =
                         IF q.pc = "errors" THEN q
                         ELSE [replied EXCEPT !.pc = "errors", !.errors = does.errors,
                                              !.gin.audit = does.audit]]
    /\ Stay

\* Recovery is the last middleware of the engine: it covers the route's own
\* middleware and the handler, not the middleware given to the engine.
Panic(r) ==
    /\ req[r].pc = "chain" /\ config.panics
    /\ LET q == IF AtHandler(r) THEN Visited(req[r]) ELSE req[r]
       IN  req' = [req EXCEPT ![r] = IF config.recovery /\ q.i > config.global
                                     THEN Abort(q, 500) ELSE [q EXCEPT !.pc = "gone"]]
    /\ Stay

\* HandleError: an AppError keeps its status, any other error is a 500.
HandleError(error) == IF error.app THEN error.status ELSE 500

ErrorHandler(r) ==
    /\ req[r].pc = "errors"
    /\ req' = [req EXCEPT ![r] =
                  [IF @.errors = <<>> THEN @ ELSE Reply(@, HandleError(@.errors[Len(@.errors)]))
                   EXCEPT !.pc = "metrics"]]
    /\ Stay

PrometheusMiddleware(r) ==
    /\ req[r].pc = "metrics"
    /\ gauge' = IF config.prometheus THEN gauge - 1 ELSE gauge
    /\ req' = [req EXCEPT ![r].pc = "audit"]
    /\ UNCHANGED config

AuditedMethods == {"POST", "PUT", "PATCH", "DELETE"}

\* The default suffix /quota/check.
Suffixed(path) ==
    Len(path) > 1 /\ path[Len(path) - 1].name = "quota" /\ path[Len(path)].name = "check"

\* Mutant: only what succeeded is audited.
ShouldAuditSuccess(q) ==
    q.gin.audit # "skip" /\ q.in.method \in AuditedMethods /\ q.writer.status < 400

ShouldAudit(q) ==
    /\ q.gin.audit # "skip"
    /\ \/ q.gin.audit = "force"
       \/ q.in.method \in AuditedMethods /\ ~Suffixed(q.in.path) /\ q.in.routed

AuditMiddleware(r) ==
    /\ req[r].pc = "audit"
    /\ LET q == req[r]
           event == NewEvent(q.in, q.gin, q.ctx) @@
                    [made |-> TRUE, status |-> ResolveOutcomeStatus(q.writer.status),
                     action |-> ResolveAction(q.in.method, ResolveResource(q.in.path)),
                     resource |-> ResolveResourceID(q.in.path, IdKeys),
                     metadata |-> BuildMetadata(q.gin, q.ctx)]
       IN  req' = [req EXCEPT ![r] = [IF ShouldAudit(q) THEN [q EXCEPT !.event = event] ELSE q
                                      EXCEPT !.pc = "log"]]
    /\ Stay

\* requestIDFromContext
AccessLogger(r) ==
    /\ req[r].pc = "log"
    /\ req' = [req EXCEPT ![r].pc = "done", ![r].logged = First(<<req[r].gin.id, req[r].in.id>>)]
    /\ Stay

Step(r) ==
    \/ Arrive(r) \/ NewEngine(r)
    \/ RequireAuthenticated(r) \/ RequirePermission(r) \/ TenantAccessMiddleware(r)
    \/ AuthzMiddleware(r) \/ Enrich(r) \/ Publish(r) \/ FlagsMiddleware(r) \/ RequireFeature(r)
    \/ Handler(r) \/ Panic(r)
    \/ ErrorHandler(r) \/ PrometheusMiddleware(r) \/ AuditMiddleware(r) \/ AccessLogger(r)

Next == \E r \in Slots : Step(r)

Spec == Init /\ [][Next]_vars

-----------------------------------------------------------------------------
(* Properties.                                                             *)

Stages == {"idle", "engine", "chain", "errors", "metrics", "audit", "log", "done", "gone"}

\* Every request is at a stage of the engine with a status an HTTP reply may
\* have, and the in-flight gauge is never negative.
TypeOK ==
    /\ config \in Configs
    /\ \A r \in Slots :
          /\ req[r].pc \in Stages
          /\ req[r].i \in 0..(Len(config.chain) + 1)
          /\ req[r].writer \in [status : 200..599, written : BOOLEAN]
          /\ req[r].gin.body \subseteq {"auth", "authz"}
    /\ gauge \in 0..Cardinality(Slots)

\* Once TenantAccessMiddleware (or a handler's ResolveTenantScope) has settled
\* on a tenant, everything after it works for that tenant: the decisions asked
\* for, the database scope, the business event and its partition.  Without one,
\* a user's request has no tenant at all; a service's keeps the tenant of its
\* own token in the request's context.
ScopeSeenByAll ==
    \A r \in Slots :
       LET q == req[r]
           s == IF q.scope.tenant = "" /\ IsServiceToken(q.gin.claims)
                THEN TenantID(q.gin.claims) ELSE q.scope.tenant
       IN  /\ \A asked \in {q.permission, q.authz} : asked.scoped # "" => asked.tenant = asked.scoped
           /\ q.handler.ran /\ q.scope.done =>
                 /\ q.handler.db = s /\ q.handler.envelope.rc.tenant = s
                 /\ q.handler.key = First(<<s, "type">>)

\* A handler may pass the gin.Context or the request's context to pkg/postgres:
\* both give the same tenant, except for the tenant of a service's own token,
\* which only the request's context carries.
ContextsScopeAlike ==
    \A r \in Slots :
       LET q == req[r]
       IN  q.handler.ran /\ q.handler.db # q.handler.ginDb =>
              /\ IsServiceToken(q.gin.claims) /\ q.gin.tenant = ""
              /\ q.handler.ginDb = "" /\ q.handler.db = TenantID(q.gin.claims)

\* RequirePermission and the authz middleware of one request ask about the same
\* tenant, unless the token names none and the first was asked before a scope was
\* settled: only RequirePermission then looks at the path, the query and the body.
GuardsAskAlike ==
    \A r \in Slots :
       LET q == req[r]
       IN  q.permission.made /\ q.authz.made /\ q.permission.tenant # q.authz.tenant =>
              TenantID(q.gin.claims) = "" /\ q.permission.scoped = ""

\* The resource a permission was decided for is the one the audit event names,
\* unless the path has a parameter of the category's own, or leaves the choice
\* between two ids: the decision takes the first of them and the event the last.
AuditNamesTheDecided ==
    \A r \in Slots :
       LET q == req[r]
           ids == SelectSeq(Params(q.in.path), LAMBDA s : s.name \in IdKeys)
           others == SelectSeq(ids, LAMBDA s : s.name \notin {"tenant_id", "user_id"})
       IN  /\ q.permission.made /\ q.event.made
           /\ Param(q.in.path, Query(PrimaryKeys, config.code[2])) = ""
           /\ Len(others) = 1 \/ Len(ids) < 2
           => q.event.resource = q.permission.resource

\* A handler that changed something leaves an audit event with the outcome the
\* client was told, whatever refused, failed or panicked after it; only a handler
\* that asked to be skipped, or a panic without Recovery, leaves none.
HandledChangeIsAudited ==
    \A r \in Slots :
       LET q == req[r]
       IN  q.handler.ran /\ q.pc \in {"done", "gone"} /\ q.in.method \in AuditedMethods =>
              \/ q.event.made /\ q.event.status = ResolveOutcomeStatus(q.writer.status)
              \/ q.gin.audit = "skip" \/ ~q.in.routed \/ Suffixed(q.in.path)
              \/ q.pc = "gone" /\ ~config.recovery

\* The audit event and the handler's business event name the same tenant, the same
\* actor and the same super-admin mark, and the tenant is that of the queries.
EventsNameTheSameActor ==
    \A r \in Slots :
       LET q == req[r]
       IN  q.handler.ran /\ q.event.made =>
              /\ q.event.tenant = q.handler.db
              /\ q.event.tenant = q.handler.envelope.rc.tenant
              /\ q.event.user = q.handler.envelope.rc.user
              /\ Query(q.event.metadata, "super") = Query(q.handler.envelope.metadata, "super")
              /\ Query(q.event.metadata, "tenant") = Query(q.handler.envelope.metadata, "tenant")

\* The error a handler recorded last decides the reply unless one was written
\* before; only an AppError keeps its own status.
RecordedErrorIsTheReply ==
    \A r \in Slots :
       LET q == req[r]
       IN  q.pc = "done" /\ q.errors # <<>> =>
              \/ \E does \in config.does : does.errors = q.errors /\ does.reply = q.writer.status
              \/ q.writer.status = IF q.errors[Len(q.errors)].app
                                   THEN q.errors[Len(q.errors)].status ELSE 500

Position(step) == {i \in DOMAIN config.chain : config.chain[i] = step}

\* The correlation id a service puts into the context reaches the handler's event,
\* unless the request was authenticated after it: ContextWithClaims replaces the
\* whole request context.
CorrelationLostOnlyToAuthentication ==
    \A r \in Slots :
       LET q == req[r]
           authenticating == Position("authenticate") \cup Position("permission")
       IN  q.handler.ran /\ Position("enrich") # {} /\ q.gin.claims # NoClaims =>
              (q.handler.envelope.rc.correlation = "" <=>
                 \A e \in Position("enrich") : \A a \in authenticating : e < a)

\* The handler can read the whole body, however many guards read it before, unless
\* the client's body could not be read.
BodyReachesHandler ==
    \A r \in Slots : req[r].handler.ran => (req[r].handler.body \/ req[r].in.broken)

\* The in-flight gauge counts the requests between the middleware's two ends, plus
\* one for good for every panic that passed through it.
GaugeLeaksOnlyByPanic ==
    gauge = IF config.prometheus
            THEN Cardinality({r \in Slots : req[r].pc \in {"chain", "errors", "metrics", "gone"}})
            ELSE 0

\* The audit event and the access log line of a request carry the same id, unless
\* the client sent none and no correlation id was kept: NewEvent does not find the
\* generated one.
RequestIdsAgree ==
    \A r \in Slots :
       LET q == req[r]
       IN  q.pc = "done" /\ q.event.made /\ q.event.id # q.logged =>
              q.in.id = "" /\ q.ctx.rc.correlation = "" /\ q.event.id = ""

\* What a feature gates is reached only with a token whose flag is set.
FeatureGated ==
    \A r \in Slots :
       req[r].handler.ran /\ Position("feature") # {} =>
          Query(req[r].in.token, "feature_flags") \notin {"", "false"}

\* WithTenantStatus blocks the requests of suspended, cancelled and inactive tenants.
TenantStatusIsEnforced ==
    \A r \in Slots : config.status => ~(req[r].handler.ran /\ TenantStatusBlocks(req[r].gin.claims))

-----------------------------------------------------------------------------
(* What the runs check of the middleware together.                         *)

\* One tenant per request: whoever reads it, from the gin context, the request's
\* context or the token, works for the same one, save for the cases named above.
TenantSeenAlike == ScopeSeenByAll /\ ContextsScopeAlike /\ GuardsAskAlike

\* The audit event tells what happened: it is there when a handler changed
\* something, with the outcome the client saw, the resource that was decided on
\* and the actor the business event names.
AuditTellsWhatHappened ==
    HandledChangeIsAudited /\ AuditNamesTheDecided /\ EventsNameTheSameActor

\* The ids that tie a request's records together are lost only where the context
\* is replaced.
RecordsCorrelate == CorrelationLostOnlyToAuthentication /\ RequestIdsAgree

\* No middleware spoils what another one left for later: the body, the in-flight
\* gauge, the recorded errors, the flags of the token.
MiddlewareKeepApart ==
    /\ TypeOK /\ BodyReachesHandler /\ GaugeLeaksOnlyByPanic
    /\ RecordedErrorIsTheReply /\ FeatureGated
=============================================================================
