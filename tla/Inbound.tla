------------------------------- MODULE Inbound -------------------------------
(***************************************************************************)
(* How a request is authenticated and authorised: the JWKS key cache       *)
(* (auth/jwks.go), token verification and the route guards                 *)
(* (auth/authorizer.go, auth/claims.go), the remote permission decision    *)
(* (auth/permission_decision.go, authz/client.go) and the authorization    *)
(* middleware with its decision cache (authz/middleware.go).               *)
(*                                                                         *)
(* Keys are numbers; the issuer publishes and retires them.  Key 0 is the  *)
(* static key of the configuration.  A token without a kid header has kid  *)
(* 0: the code looks for a key named "<nil>", which no set has.            *)
(***************************************************************************)
EXTENDS Integers, Sequences

CONSTANTS
    Slots,          \* requests in flight at a time
    MaxKey,         \* bound: keys the issuer ever publishes
    Configs,        \* [static, explicit, fallback, bypass, decisions, failOpen,
                    \*  issuer, audiences, route] of a service, and its surroundings:
                    \*  the tokens it meets and whether keys are rotated
    TTL,            \* lifetime of a fetched key set, in ticks
    DecisionTTL,    \* lifetime of a cached decision, in ticks
    RangeBits,      \* permissions per range of a mask, 63 in the code
    MaxRequests, MaxTicks, MaxFaults    \* bounds

Keys == 1..MaxKey
Routes == {"authenticated", "service", "permission", "authz"}

ASSUME InboundConstants ==
    /\ MaxKey \in Nat \ {0} /\ RangeBits \in Nat \ {0}
    /\ TTL \in Nat /\ DecisionTTL \in Int
    /\ MaxRequests \in Nat /\ MaxTicks \in Nat /\ MaxFaults \in Nat
    /\ \A c \in Configs :
         /\ c.route \in Routes /\ c.bypass \in {"", "true", "false"}
         /\ c.tokens # {}
         /\ \A t \in c.tokens : t.kid \in 0..MaxKey /\ t.key \in 0..MaxKey

VARIABLES
    cfg,        \* the service's configuration
    published,  \* keys the issuer publishes now
    retired,    \* key -> ticks since it was retired, -1 when it was not
    keyset,     \* cachedKeys: [keys, left], left = -2 when there is none
    url,        \* cachedJWKSURL is set
    policy,     \* what the decision endpoint answers now
    denied,     \* ticks since the policy turned to deny
    decision,   \* the decision cache's entry: [allowed, left], left -2: none
    req,        \* slot -> request
    arrivals, ticks, faults

vars == <<cfg, published, retired, keyset, url, policy, denied, decision, req,
          arrivals, ticks, faults>>

NoKeys == [keys |-> {}, left |-> -2]

\* always: the keys published ever since the request came in; failed: a load
\* of keys failed for it; set: the key set a fetch read.
Free(out) == [pc |-> "idle", token |-> CHOOSE t \in cfg.tokens : TRUE, force |-> FALSE,
              set |-> {}, always |-> {}, failed |-> FALSE, answer |-> FALSE, out |-> out]

Init ==
    /\ cfg \in Configs
    /\ published = {1}
    /\ retired = [k \in Keys |-> -1]
    /\ keyset = NoKeys /\ url = FALSE
    /\ policy = TRUE /\ denied = 0
    /\ decision = [allowed |-> FALSE, left |-> -2]
    /\ req = [r \in Slots |-> Free(0)]
    /\ arrivals = 0 /\ ticks = 0 /\ faults = 0

EnvUnchanged == UNCHANGED <<cfg, published, retired, policy, denied, arrivals, ticks>>

Arrive(r) ==
    /\ req[r].pc = "idle" /\ arrivals < MaxRequests
    /\ arrivals' = arrivals + 1
    /\ \E t \in cfg.tokens :
         req' = [req EXCEPT ![r] = [Free(0) EXCEPT !.pc = "load", !.token = t, !.always = published]]
    /\ UNCHANGED <<cfg, published, retired, keyset, url, policy, denied, decision, ticks, faults>>

-----------------------------------------------------------------------------
(* Verification.                                                           *)

\* Key types: odd keys are RSA, even ones ECDSA, the static key RSA.
Alg(k) == IF k = 0 \/ k % 2 = 1 THEN "RS" ELSE "ES"

ValidateIssuer(t) == cfg.issuer = "" \/ t.iss = cfg.issuer

ValidateAudience(t) == cfg.audiences = {} \/ t.aud \cap cfg.audiences # {}

\* verifyWithKey: method, signature, then issuer and audience.
VerifyWithKey(t, k) ==
    /\ t.alg = Alg(k) /\ t.key = k
    /\ ValidateIssuer(t) /\ ValidateAudience(t)

\* lookupVerificationKeys: the remote keys that were found, then the static one.
WithStaticKey(keys) == IF cfg.static THEN keys \cup {0} ELSE keys

\* Verify: one key that fits is enough; otherwise 401.
Verify(r, keys) ==
    IF \E k \in WithStaticKey(keys) : VerifyWithKey(req[r].token, k)
    THEN [req[r] EXCEPT !.pc = "authorize", !.set = {}, !.force = FALSE]
    ELSE [Free(401) EXCEPT !.token = req[r].token, !.always = req[r].always,
                           !.failed = req[r].failed]

\* Mutant: an unknown kid is not looked for in a fresh set.
SelectKeysOnce(r, keys) == Verify(r, keys \cap {req[r].token.kid})

\* LookupKeys with a set in hand: the key of the token's kid; when there is
\* none, once more with a forced load.
SelectKeys(r, keys) ==
    LET found == keys \cap {req[r].token.kid} IN
    IF found = {} /\ ~req[r].force
    THEN [req[r] EXCEPT !.pc = "resolve", !.force = TRUE, !.set = {}]
    ELSE Verify(r, found)

-----------------------------------------------------------------------------
(* The key cache.                                                          *)

\* Mutant: the snapshot is used without a look at its age.
LoadAnyAge(r) ==
    /\ req[r].pc = "load"
    /\ req' = [req EXCEPT ![r] = IF keyset # NoKeys THEN SelectKeys(r, keyset.keys)
                                 ELSE [@ EXCEPT !.pc = "resolve"]]
    /\ UNCHANGED <<keyset, url, decision, faults>> /\ EnvUnchanged

\* loadKeySet(false): a snapshot that has not expired, or on to a fetch.
Load(r) ==
    /\ req[r].pc = "load"
    /\ req' = [req EXCEPT ![r] = IF keyset.left >= 0 THEN SelectKeys(r, keyset.keys)
                                 ELSE [@ EXCEPT !.pc = "resolve"]]
    /\ UNCHANGED <<keyset, url, decision, faults>> /\ EnvUnchanged

\* resolveJWKSURL needs no discovery.
UrlKnown(r) == cfg.explicit \/ (url /\ ~req[r].force)

Resolve(r) ==
    /\ req[r].pc = "resolve"
    /\ url' = (url \/ ~cfg.explicit)
    /\ req' = [req EXCEPT ![r].pc = "fetch"]
    /\ UNCHANGED <<keyset, decision, faults>> /\ EnvUnchanged

\* A load fails: a snapshot of any age does; without one there are no keys.
StaleSnapshot(r) ==
    IF keyset = NoKeys THEN Verify(r, {})
    ELSE IF req[r].force THEN Verify(r, keyset.keys \cap {req[r].token.kid})
    ELSE SelectKeys(r, keyset.keys)

Failing(r) == [StaleSnapshot(r) EXCEPT !.failed = TRUE]

\* Discovery fails: the fallback URL, or the load fails.
ResolveFails(r) ==
    /\ req[r].pc = "resolve" /\ ~UrlKnown(r) /\ faults < MaxFaults
    /\ faults' = faults + 1
    /\ req' = [req EXCEPT ![r] = IF cfg.fallback THEN [@ EXCEPT !.pc = "fetch"] ELSE Failing(r)]
    /\ UNCHANGED <<keyset, url, decision>> /\ EnvUnchanged

\* fetchKeySet reads what is published at this moment ...
FetchRead(r) ==
    /\ req[r].pc = "fetch"
    /\ req' = [req EXCEPT ![r].pc = "fetched", ![r].set = published]
    /\ UNCHANGED <<keyset, url, decision, faults>> /\ EnvUnchanged

\* ... fails (also when one key of the set cannot be parsed) ...
FetchFails(r) ==
    /\ req[r].pc = "fetch" /\ faults < MaxFaults
    /\ faults' = faults + 1
    /\ req' = [req EXCEPT ![r] = Failing(r)]
    /\ UNCHANGED <<keyset, url, decision>> /\ EnvUnchanged

StoreKeySet(set) == [keys |-> set, left |-> TTL]

\* ... and stores the set, over whatever was stored since.
FetchStore(r) ==
    /\ req[r].pc = "fetched"
    /\ keyset' = StoreKeySet(req[r].set)
    /\ req' = [req EXCEPT ![r] = SelectKeys(r, req[r].set)]
    /\ UNCHANGED <<url, decision, faults>> /\ EnvUnchanged

-----------------------------------------------------------------------------
(* Permission masks.  A token's svc_perm is a sequence of entries, each a  *)
(* service and its ranges; a range is the set of bits it has, and one that *)
(* cannot be parsed is marked bad.                                         *)

\* decodeServicePermissionsMultiRange: bad ranges are skipped, and what
\* follows moves up; an entry without ranges is skipped, a later entry of the
\* same service replaces an earlier one.
DecodeRanges(perms, service) ==
    LET Good(range) == ~range.bad
        Usable(e) == e.service = service /\ SelectSeq(e.ranges, Good) # <<>>
        mine == SelectSeq(perms, Usable) IN
    IF mine = <<>> THEN <<>> ELSE SelectSeq(mine[Len(mine)].ranges, Good)

\* Mutant: the position is taken in the next range.
HasPermissionOffByOne(ranges, bit) ==
    /\ bit >= 0
    /\ (bit + 1) \div RangeBits < Len(ranges)
    /\ bit % RangeBits \in ranges[(bit + 1) \div RangeBits + 1].bits

HasPermission(ranges, bit) ==
    /\ bit >= 0
    /\ bit \div RangeBits < Len(ranges)
    /\ bit % RangeBits \in ranges[bit \div RangeBits + 1].bits

-----------------------------------------------------------------------------
(* The route guards.                                                       *)

\* parseBypassServiceTokenPermissions
Bypass == cfg.bypass # "false"

IsServiceToken(t) == t.use = "service"

\* RequirePermission with the masks: the permission must be registered (the
\* store knows its bit) and set.
CheckMasks(t) ==
    IF t.bit = -1 \/ ~HasPermission(DecodeRanges(t.perms, "svc"), t.bit) THEN 403 ELSE 200

\* What a guard makes of the token before it asks the decision endpoint; 0
\* when it has to ask.
Guard(t) ==
    CASE cfg.route = "authenticated" -> 200
      [] cfg.route = "service" -> IF IsServiceToken(t) THEN 200 ELSE 403
      [] cfg.route = "permission" ->
           IF IsServiceToken(t) THEN (IF Bypass THEN 200 ELSE CheckMasks(t))
           ELSE IF cfg.decisions THEN 0 ELSE CheckMasks(t)
      [] cfg.route = "authz" ->
           IF IsServiceToken(t) THEN 200
           ELSE IF t.use \notin {"", "access"} THEN 401 ELSE 0

Authorize(r) ==
    /\ req[r].pc = "authorize"
    /\ LET status == Guard(req[r].token) IN
       req' = [req EXCEPT ![r] = IF status = 0 THEN [@ EXCEPT !.pc = "ask"]
                                 ELSE [Free(status) EXCEPT !.token = req[r].token]]
    /\ UNCHANGED <<keyset, url, decision, faults>> /\ EnvUnchanged

\* The decision endpoint (external) answers with the policy of the moment.
Answer(r) ==
    /\ req[r].pc = "ask"
    /\ req' = [req EXCEPT ![r].pc = "answered", ![r].answer = policy]
    /\ UNCHANGED <<keyset, url, decision, faults>> /\ EnvUnchanged

Decided(allowed) == Free(IF allowed THEN 200 ELSE 403)

\* decisionCache.store
StoreDecision(allowed) ==
    IF cfg.route = "authz" /\ DecisionTTL > 0 THEN [allowed |-> allowed, left |-> DecisionTTL]
    ELSE decision

Receive(r) ==
    /\ req[r].pc = "answered"
    /\ decision' = StoreDecision(req[r].answer)
    /\ req' = [req EXCEPT ![r] = Decided(req[r].answer)]
    /\ UNCHANGED <<keyset, url, faults>> /\ EnvUnchanged

\* Mutant: expiry is not looked at.
CachedForever == decision.left # -2

\* decisionCache.lookup
Cached == decision.left >= 0

\* Decide fails.  RequirePermission answers 503; the middleware takes the
\* cached decision, else FailOpen decides.
DecideFails(r) ==
    /\ req[r].pc \in {"ask", "answered"} /\ faults < MaxFaults
    /\ faults' = faults + 1
    /\ req' = [req EXCEPT ![r] =
         IF cfg.route = "authz" /\ Cached THEN Decided(decision.allowed)
         ELSE IF cfg.route = "authz" /\ cfg.failOpen THEN Decided(TRUE)
         ELSE Free(503)]
    /\ UNCHANGED <<keyset, url, decision>> /\ EnvUnchanged

-----------------------------------------------------------------------------
(* The environment.                                                        *)

PublishKey ==
    /\ cfg.rotates
    /\ \E k \in Keys : k \notin published /\ retired[k] = -1 /\ published' = published \cup {k}
    /\ UNCHANGED <<cfg, retired, keyset, url, policy, denied, decision, req, arrivals, ticks, faults>>

RetireKey ==
    /\ \E k \in published :
         /\ published' = published \ {k} /\ published' # {}
         /\ retired' = [retired EXCEPT ![k] = 0]
         /\ req' = [r \in Slots |-> [req[r] EXCEPT !.always = @ \ {k}]]
    /\ UNCHANGED <<cfg, keyset, url, policy, denied, decision, arrivals, ticks, faults>>

\* (The policy changes once.)
Deny ==
    /\ policy /\ policy' = FALSE
    /\ UNCHANGED <<cfg, published, retired, keyset, url, denied, decision, req, arrivals, ticks, faults>>

Older(n) == IF n < 0 THEN n ELSE n + 1

\* A tick is longer than an HTTP exchange (client timeouts of seconds against
\* lifetimes of minutes).
Tick ==
    /\ ticks < MaxTicks
    /\ \A r \in Slots : req[r].pc \notin {"fetched", "answered"}
    /\ ticks' = ticks + 1
    /\ retired' = [k \in Keys |-> Older(retired[k])]
    /\ keyset' = IF keyset.left >= 0 THEN [keyset EXCEPT !.left = @ - 1] ELSE keyset
    /\ decision' = IF decision.left >= 0 THEN [decision EXCEPT !.left = @ - 1] ELSE decision
    /\ denied' = IF policy THEN 0 ELSE denied + 1
    /\ UNCHANGED <<cfg, published, url, policy, req, arrivals, faults>>

Step(r) ==
    \/ Load(r) \/ Resolve(r) \/ ResolveFails(r)
    \/ FetchRead(r) \/ FetchFails(r) \/ FetchStore(r)
    \/ Authorize(r) \/ Answer(r) \/ Receive(r) \/ DecideFails(r)

Next ==
    \/ \E r \in Slots : Arrive(r) \/ Step(r)
    \/ PublishKey \/ RetireKey \/ Deny \/ Tick

Spec == Init /\ [][Next]_vars

-----------------------------------------------------------------------------
(* Properties.                                                             *)

Request ==
    [pc : {"idle", "load", "resolve", "fetch", "fetched", "authorize", "ask", "answered"},
     token : cfg.tokens, force : BOOLEAN, set : SUBSET Keys, always : SUBSET Keys,
     failed : BOOLEAN, answer : BOOLEAN, out : {0, 200, 401, 403, 503}]

\* Every variable holds a value of its type.
TypeOK ==
    /\ cfg \in Configs
    /\ published \in SUBSET Keys /\ published # {}
    /\ retired \in [Keys -> Nat \cup {-1}]
    /\ keyset \in [keys : SUBSET Keys, left : -2..TTL]
    /\ url \in BOOLEAN /\ policy \in BOOLEAN /\ denied \in Nat
    /\ decision \in [allowed : BOOLEAN, left : Int]
    /\ req \in [Slots -> Request]
    /\ arrivals \in 0..MaxRequests /\ ticks \in 0..MaxTicks /\ faults \in 0..MaxFaults

\* A token whose key was published for as long as its request ran is not
\* rejected for want of the key, however old the cached set is and whatever
\* other requests store, unless a fetch made for this request failed.
PublishedKeyNotRejected ==
    \A r \in Slots :
        req[r].out = 401 /\ req[r].token.kid # 0 /\ req[r].token.kid \in req[r].always
            /\ VerifyWithKey(req[r].token, req[r].token.kid)
        => req[r].failed

\* A token signed with a key that was retired more than TTL ago is accepted
\* only by a request whose own load of the keys failed, although a fetch that
\* started before the retirement may overwrite a later set.
RetiredKeyDiesOut ==
    [][\A r \in Slots :
          req[r].pc # "authorize" /\ req'[r].pc = "authorize" /\ req[r].token.key # 0
        => retired[req[r].token.key] <= TTL \/ req'[r].failed]_vars

\* A token of the static key is accepted whatever state the JWKS endpoint and
\* the cache are in.
StaticKeyAlwaysServes ==
    \A r \in Slots : cfg.static /\ req[r].token.key = 0 /\ VerifyWithKey(req[r].token, 0)
            /\ req[r].token.use \in {"", "access", "service"}
        => req[r].out # 401

\* When the decision endpoint cannot be reached, an approval is reused only
\* until DecisionTTL after the policy turned to deny, although an approval
\* given before may be stored after a later refusal.
StaleApprovalExpires ==
    [][\A r \in Slots :
          cfg.route = "authz" /\ ~cfg.failOpen /\ faults' # faults
            /\ req[r].pc \in {"ask", "answered"} /\ req'[r].out = 200
        => denied <= DecisionTTL]_vars

\* The bit of a permission, as the issuer encoded it.
IssuedBit(entry, bit) ==
    /\ bit \div RangeBits < Len(entry.ranges)
    /\ bit % RangeBits \in entry.ranges[bit \div RangeBits + 1].bits

\* A permission is granted only if the issuer set its bit, except behind a
\* range that could not be parsed: such a range is skipped, and the following
\* ones then stand for the permissions of the range before.
GrantedWasIssued ==
    \A r \in Slots : LET perms == req[r].token.perms IN
        \A bit \in 0..(3 * RangeBits) :
            HasPermission(DecodeRanges(perms, "svc"), bit) =>
                \E i \in DOMAIN perms :
                    /\ perms[i].service = "svc"
                    /\ \/ IssuedBit(perms[i], bit)
                       \/ \E j \in DOMAIN perms[i].ranges :
                            j <= bit \div RangeBits + 1 /\ perms[i].ranges[j].bad

-----------------------------------------------------------------------------
(* The inductive invariant of the proofs.                                  *)

\* A request in flight has no outcome yet, and looks for keys in a forced load
\* only after the cached set had none.
RequestsInOrder ==
    \A r \in Slots : /\ req[r].pc # "idle" => req[r].out = 0
                     /\ req[r].pc = "load" => ~req[r].force

\* No key of a set that still counts as fresh was retired longer ago than the
\* set has been there.
KeysAge ==
    /\ \A k \in published : retired[k] = -1
    /\ keyset.left >= 0 => \A k \in keyset.keys : retired[k] + keyset.left <= TTL

\* A set on its way into the cache has every key that was published throughout
\* the request, and none that was retired before this tick.
FetchedIsFresh ==
    \A r \in Slots :
        /\ req[r].always \subseteq published
        /\ req[r].pc = "fetched" => /\ req[r].always \subseteq req[r].set
                                    /\ \A k \in req[r].set : retired[k] <= 0

\* An approval in the cache or on its way there is no older than it says.
ApprovalsAge ==
    /\ policy => denied = 0
    /\ decision.left >= 0 => decision.left <= DecisionTTL
    /\ decision.left >= 0 /\ decision.allowed => denied + decision.left <= DecisionTTL
    /\ \A r \in Slots : req[r].pc = "answered" /\ req[r].answer => denied = 0

InboundInv ==
    /\ TypeOK /\ RequestsInOrder
    /\ KeysAge /\ FetchedIsFresh /\ ApprovalsAge
    /\ PublishedKeyNotRejected /\ StaticKeyAlwaysServes
=============================================================================
