---------------------------- MODULE RequestScope ----------------------------
(***************************************************************************)
(* What a request says about its caller and its tenant, and how the        *)
(* packages of the library read it: the claims of a verified token         *)
(* (pkg/auth), the request context that pkg/tenant defines, the tenant     *)
(* scope of pkg/auth, the two authorization requests (pkg/auth,            *)
(* pkg/authz), and what pkg/audit, pkg/events and pkg/postgres make of it. *)
(*                                                                         *)
(* Texts are trimmed strings, "" being the absent one.  The operators are  *)
(* pure; Request.tla is the machine that calls them.                       *)
(***************************************************************************)
EXTENDS Naturals, Sequences, TLC

\* The first text of the sequence that is not empty: the shape of every
\* "if x == "" { x = y }" of these packages.
First(texts) ==
    LET some == SelectSeq(texts, LAMBDA t : t # "") IN IF some = <<>> THEN "" ELSE Head(some)

\* The first refusal of a sequence of <<condition, status>> that applies, 0 for none.
Refusal(checks) ==
    LET hits == SelectSeq(checks, LAMBDA c : c[1]) IN IF hits = <<>> THEN 0 ELSE Head(hits)[2]

-----------------------------------------------------------------------------
(* The claims of a token: raw has a value for every claim it carries.      *)

ClaimString(raw, key) == IF key \in DOMAIN raw THEN raw[key] ELSE ""

\* fmt.Sprint of a claim: a missing one is printed as the text "<nil>".
Sprint(raw, key) == IF key \in DOMAIN raw THEN raw[key] ELSE "<nil>"

MapClaimsToAuthClaims(raw) ==
    [Subject |-> Sprint(raw, "sub"), IdentityID |-> Sprint(raw, "identity_id"),
     TokenUse |-> First(<<Sprint(raw, "token_use"), "access">>), Raw |-> raw]

NoClaims == [Subject |-> "", IdentityID |-> "", TokenUse |-> "", Raw |-> <<>>]

IsServiceToken(claims) == claims.TokenUse = "service"

UserID(claims) == First(<<claims.IdentityID, claims.Subject>>)

TenantID(claims) == ClaimString(claims.Raw, "tenant_id")

IsSuperAdmin(claims) ==
    IF ClaimString(claims.Raw, "is_super_admin") \in {"true", "1"} THEN "true" ELSE ""

-----------------------------------------------------------------------------
(* The request context.  ctx is the context.Context of the http.Request,   *)
(* gin the keys of the gin.Context.                                        *)

NoRequestContext == [tenant |-> "", user |-> "", service |-> "", correlation |-> "", super |-> ""]

\* tenant and user are the plain context keys resolved_tenant_id and resolved_user_id.
NoContext ==
    [rc |-> NoRequestContext, claims |-> NoClaims, tenant |-> "", user |-> "", id |-> ""]

\* raw: somebody has set claims_raw; flags: featureflags' key; audit: audit/context.go's keys.
NoKeys ==
    [claims |-> NoClaims, raw |-> <<>>, tenant |-> "", user |-> "", id |-> "", flags |-> <<>>,
     audit |-> "", body |-> {}]

\* Mutant: the merge forgets a field.
WithFallbacksNoCorrelation(rc, other) ==
    [f \in DOMAIN rc |-> IF f = "correlation" THEN rc[f] ELSE First(<<rc[f], other[f]>>)]

WithFallbacks(rc, other) == [f \in DOMAIN rc |-> First(<<rc[f], other[f]>>)]

ContextWithRequestContext(ctx, rc) ==
    IF rc = NoRequestContext THEN ctx ELSE [ctx EXCEPT !.rc = rc]

ContextWithClaims(ctx, claims) ==
    ContextWithRequestContext([ctx EXCEPT !.claims = claims],
        [tenant |-> TenantID(claims), user |-> UserID(claims),
         service |-> ClaimString(claims.Raw, "service_id"), correlation |-> "",
         super |-> IsSuperAdmin(claims)])

\* What ContextWithTenantID, ...UserID, ...ServiceID and ...CorrelationID share.
Enriched(ctx, field, value) ==
    ContextWithRequestContext(ctx, WithFallbacks([NoRequestContext EXCEPT ![field] = value], ctx.rc))

ContextWithTenantID(ctx, id) ==
    IF id = "" THEN ctx ELSE [Enriched(ctx, "tenant", id) EXCEPT !.tenant = id]

ContextWithUserID(ctx, id) ==
    IF id = "" THEN ctx ELSE [Enriched(ctx, "user", id) EXCEPT !.user = id]

ContextWithServiceID(ctx, id) == Enriched(ctx, "service", id)

ContextWithCorrelationID(ctx, id) == Enriched(ctx, "correlation", id)

TenantIDFromContext(ctx) == First(<<ctx.rc.tenant, ctx.tenant>>)

\* A gin.Context used as a context.Context answers for its own text keys
\* only: what is stored under a typed key of the request's context is out of
\* its sight.
GinContext(gin) ==
    [NoContext EXCEPT !.claims = gin.claims, !.tenant = gin.tenant, !.user = gin.user]

\* The tenant pkg/postgres puts into app.current_tenant_id.
TenantScope(ctx) ==
    First(<<TenantIDFromContext(ctx), IF IsServiceToken(ctx.claims) THEN "" ELSE TenantID(ctx.claims)>>)

-----------------------------------------------------------------------------
(* Tenant access: what a route demands is a TenantAccessConfig.            *)

DefaultTenantAccessConfig ==
    [RequireTenant |-> FALSE, AllowServiceTokens |-> TRUE, AllowPlatformUsers |-> TRUE,
     TenantPathParam |-> "", TenantQueryParam |-> "", UserPathParam |-> "",
     Blocked |-> {"suspended", "cancelled", "inactive"}]

DefaultTenantAppConfig ==
    [DefaultTenantAccessConfig EXCEPT !.RequireTenant = TRUE, !.AllowPlatformUsers = FALSE]

TenantScopeFromPath(param) ==
    [DefaultTenantAccessConfig EXCEPT !.TenantPathParam = param, !.RequireTenant = TRUE]

\* A path is a sequence of segments, some of them parameters with a value.
Segment(name) == [name |-> name, param |-> FALSE, value |-> ""]
Parameter(name, value) == [name |-> name, param |-> TRUE, value |-> value]

Params(path) == SelectSeq(path, LAMBDA s : s.param)

Param(path, key) ==
    LET hits == SelectSeq(Params(path), LAMBDA s : s.name = key)
    IN  IF hits = <<>> THEN "" ELSE Head(hits).value

Query(query, key) == IF key \in DOMAIN query THEN query[key] ELSE ""

RequestedScopeValue(in, pathParam, queryParam) ==
    First(<<Param(in.path, pathParam), Query(in.query, queryParam)>>)

ScopeConflict(explicit, inferred) == explicit # "" /\ inferred # "" /\ explicit # inferred

IsBlockedTenantAccessStatus(status, blocked) == status # "" /\ status \in blocked

\* The outcome of ResolveTenantUserScope: code is the status it aborts with,
\* or 0; tenant and user are what it returns.
ResolveTenantUserScope(in, claims, explicit, cfg) ==
    LET inferred == RequestedScopeValue(in, cfg.TenantPathParam, cfg.TenantQueryParam)
        asked == First(<<explicit, inferred>>)
        askedUser == RequestedScopeValue(in, cfg.UserPathParam, "")
        service == IsServiceToken(claims)
        own == IF service THEN "" ELSE TenantID(claims)
        ownUser == IF service THEN "" ELSE UserID(claims)
        tenant == First(<<own, asked>>)
        status == ClaimString(claims.Raw, "tenant_status")
        member == ClaimString(claims.Raw, "tenant_membership_status")
    IN  [code |-> Refusal(<<
            <<claims = NoClaims, 401>>,
            <<ScopeConflict(explicit, inferred), 400>>,
            <<service /\ ~cfg.AllowServiceTokens, 403>>,
            <<own # "" /\ IsBlockedTenantAccessStatus(status, cfg.Blocked), 403>>,
            <<own # "" /\ IsBlockedTenantAccessStatus(member, cfg.Blocked), 403>>,
            <<own # "" /\ ScopeConflict(asked, own), 403>>,
            <<~service /\ own = "" /\ ~cfg.AllowPlatformUsers /\ (cfg.RequireTenant \/ asked = ""), 403>>,
            <<cfg.RequireTenant /\ tenant = "", 403>>,
            <<ScopeConflict(askedUser, ownUser), 403>> >>),
         tenant |-> tenant, user |-> First(<<ownUser, askedUser>>)]

-----------------------------------------------------------------------------
(* The request pkg/auth sends to the decision endpoint.                    *)

\* A permission code split at its first two hyphens.
ParsePermissionCode(code) == Len(code) = 3 /\ \A i \in 1..3 : code[i] # ""

NonEmpty(map) == [k \in {x \in DOMAIN map : map[x] # ""} |-> map[k]]

ParamMap(path) == [k \in {Params(path)[i].name : i \in DOMAIN Params(path)} |-> Param(path, k)]

\* The body wins over the query, the query over the path.
CollectPermissionDecisionContext(in, body) ==
    NonEmpty(body) @@ NonEmpty(in.query) @@ NonEmpty(ParamMap(in.path))

ResolvePermissionDecisionTenantID(in, body, gin, ctx, claims) ==
    First(<<TenantIDFromContext(ctx), gin.tenant, Param(in.path, "tenant_id"),
            Query(in.query, "tenant_id"),
            Query(CollectPermissionDecisionContext(in, body), "tenant_id"), TenantID(claims)>>)

PrimaryKeys == [tenants |-> "tenant_id", users |-> "user_id"]

\* The parameter named for the category, else the first id that is neither
\* the tenant's nor the user's, else the first id.
ResolvePermissionDecisionResourceID(path, category, idKeys) ==
    LET ids == SelectSeq(Params(path), LAMBDA s : s.name \in idKeys)
        others == SelectSeq(ids, LAMBDA s : s.name \notin {"tenant_id", "user_id"})
        Values(segments) == [i \in DOMAIN segments |-> segments[i].value]
    IN  First(<<Param(path, Query(PrimaryKeys, category)), First(Values(others)), First(Values(ids))>>)

InferPermissionDecisionResourceType(category, action, resourceID) ==
    CASE action = "authentication" -> <<"user_session">>
      [] action = "registration"   -> <<"user_registration">>
      [] action = "switch-tenant"  -> <<"tenant_membership">>
      [] action \in {"list", "create", "tenant-list"} -> <<category, "collection">>
      [] OTHER -> IF resourceID = "" THEN <<category, "collection">> ELSE <<category, "one">>

BuildPermissionDecisionRequest(in, body, gin, ctx, claims, code, idKeys) ==
    LET id == ResolvePermissionDecisionResourceID(in.path, code[2], idKeys)
    IN  [subject |-> UserID(claims),
         tenant |-> ResolvePermissionDecisionTenantID(in, body, gin, ctx, claims),
         code |-> code, resource |-> id,
         type |-> InferPermissionDecisionResourceType(code[2], code[3], id),
         context |-> CollectPermissionDecisionContext(in, body)]

-----------------------------------------------------------------------------
(* The request pkg/authz sends; the resolvers are those a route is built   *)
(* with.                                                                   *)

TenantFromContextOrClaims(ctx, claims) == First(<<TenantIDFromContext(ctx), TenantID(claims)>>)

MethodActionResolver(method) ==
    CASE method \in {"GET", "HEAD"}  -> "read"
      [] method = "POST"             -> "create"
      [] method \in {"PUT", "PATCH"} -> "update"
      [] method = "DELETE"           -> "delete"
      [] OTHER                       -> ""

\* MergeContextResolvers(Query..., JSONBody...): a later resolver wins.
MergeContextResolvers(in, body, names) ==
    LET Only(map) == [k \in names \cap DOMAIN map |-> map[k]]
    IN  NonEmpty(Only(body)) @@ NonEmpty(Only(in.query))

BuildDecisionRequest(in, body, ctx, claims, cfg) ==
    [subject |-> UserID(claims), tenant |-> TenantFromContextOrClaims(ctx, claims),
     category |-> cfg.category, action |-> MethodActionResolver(in.method),
     resource |-> Param(in.path, cfg.param), context |-> MergeContextResolvers(in, body, cfg.names)]

\* The error of buildDecisionRequest.
DecisionRequestInvalid(input, cfg) ==
    \/ input.subject = "" \/ input.category = "" \/ input.action = ""
    \/ cfg.RequireTenant /\ input.tenant = ""

-----------------------------------------------------------------------------
(* The audit event of a request and the business event of a handler.       *)

ResolveOutcomeStatus(status) ==
    IF status \in 200..399 THEN "success" ELSE IF status \in {401, 403} THEN "denied" ELSE "failure"

ResolveResource(path) ==
    LET names == SelectSeq(path, LAMBDA s : ~s.param)
    IN  IF names = <<>> THEN "request" ELSE names[Len(names)].name

ResolveAction(method, resource) ==
    <<resource, CASE method = "POST" -> "create" [] method \in {"PUT", "PATCH"} -> "update"
                  [] method = "DELETE" -> "delete" [] method = "GET" -> "read" [] OTHER -> "change">>

\* The last parameter called id or ..._id.
ResolveResourceID(path, idKeys) ==
    LET ids == SelectSeq(Params(path), LAMBDA s : s.name \in idKeys \cup {"id"})
    IN  IF ids = <<>> THEN "" ELSE ids[Len(ids)].value

\* c.Value is asked for the request id under its typed key, which GinContext hides.
NewEvent(in, gin, ctx) ==
    [tenant |-> First(<<ctx.rc.tenant, TenantID(gin.claims)>>),
     user |-> First(<<ctx.rc.user, IF IsServiceToken(gin.claims) THEN ""
                                   ELSE First(<<gin.claims.IdentityID, gin.claims.Subject>>)>>),
     id |-> First(<<GinContext(gin).id, ctx.rc.correlation, in.id>>)]

\* The context keys of an audit event's metadata.
BuildMetadata(gin, ctx) ==
    NonEmpty(ctx.rc) @@
    NonEmpty([token_use |-> gin.claims.TokenUse,
              actor_type |-> IF IsServiceToken(gin.claims) THEN "service"
                             ELSE IF gin.claims.Subject # "" THEN "user" ELSE "",
              tenant_status |-> ClaimString(gin.claims.Raw, "tenant_status")])

\* The metadata NewEnvelope adds, over the publisher's own.
MergeMetadata(metadata, rc) ==
    metadata @@ NonEmpty(rc) @@
    NonEmpty([source |-> rc.service,
              initiator |-> First(<<rc.user, rc.service, IF rc.super = "" THEN "" ELSE "super-admin">>)])

NewEnvelope(ctx, tenant, service) ==
    LET rc == WithFallbacks([NoRequestContext EXCEPT !.tenant = tenant, !.service = service], ctx.rc)
    IN  [rc |-> rc, metadata |-> MergeMetadata(<<>>, rc)]

PartitionKey(envelope, resource, type) == First(<<envelope.rc.tenant, resource, type>>)
=============================================================================
