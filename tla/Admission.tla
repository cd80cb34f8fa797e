------------------------------ MODULE Admission ------------------------------
(***************************************************************************)
(* The middleware that decides whether a request of a tenant is admitted:  *)
(* the per-IP rate limiter and the tenant status check of                  *)
(* pkg/server/middleware, the Sentinel quota check with its fallback cache *)
(* (pkg/quota/sentinel.go) and the in-memory quota (pkg/quota/quota.go).   *)
(*                                                                         *)
(* A service installs the gates as a chain.  The requests are those of one *)
(* tenant from one address; each passes the gates in order, and between    *)
(* two steps of one request any other request may run.                     *)
(***************************************************************************)
EXTENDS Integers, Sequences, FiniteSets

CONSTANTS
    Slots,          \* requests in flight at a time
    Chains,         \* sequences of gates that services install
    Kinds,          \* who asks: [claims, service, access, tenant, status, limit]
    BlockedStatuses,
    Burst,          \* size of a limiter's bucket; one token a tick comes back
    Interval,       \* CleanupInterval of the limiter and of the quota, in ticks
    TTL,            \* CacheTTL of the Sentinel decisions, in ticks
    FailOpen,
    MaxRequests, MaxTicks, MaxDay   \* bounds

Gates == {"rate", "status", "sentinel", "local"}
Unlimited == -1

ASSUME AdmissionConstants ==
    /\ IsFiniteSet(Slots) /\ Slots # {}
    /\ Chains \subseteq Seq(Gates) \ {<<>>}
    /\ Kinds \subseteq [claims : BOOLEAN, service : BOOLEAN, access : BOOLEAN,
                        tenant : BOOLEAN, status : STRING, limit : Nat \cup {Unlimited}]
    /\ Kinds # {}
    /\ MaxRequests \in Nat /\ MaxTicks \in Nat /\ MaxDay \in Nat \ {0}
    /\ Burst \in Nat /\ Interval \in Nat /\ TTL \in Int /\ FailOpen \in BOOLEAN

VARIABLES
    chain,      \* the installed gates
    req,        \* slot -> the request in it
    limiters,   \* tokens of every limiter ever created for the address
    entry,      \* rl.clients: [id, idle], id 0 when there is none
    sweep,      \* cleanupLoop found the entry stale and is about to delete it
    used,       \* Sentinel's count of the day
    cache,      \* the decision cache's entry, absent when left < 0
    bucket,     \* the Enforcer's bucket, absent when day = 0
    day, ticks, arrivals,
    hist        \* history, see the properties

vars == <<chain, req, limiters, entry, sweep, used, cache, bucket, day, ticks, arrivals, hist>>

NoAnswer == [allowed |-> FALSE, status |-> 0, remaining |-> 0, reset |-> FALSE]
NoDecision == [result |-> NoAnswer, left |-> -1]
NoBucket == [day |-> 0, count |-> 0, idle |-> 0]

Served == 1

\* out is the outcome of the slot's last request: the status it was refused
\* with, or Served when the handler ran.  late: another check ended since
\* Sentinel answered this one.
Free(out) == [pc |-> "idle", i |-> 0, kind |-> CHOOSE k \in Kinds : TRUE, lim |-> 0,
              today |-> 0, answer |-> NoAnswer, late |-> FALSE, out |-> out]

Init ==
    /\ chain \in Chains
    /\ req = [r \in Slots |-> Free(0)]
    /\ limiters = <<>> /\ entry = [id |-> 0, idle |-> 0] /\ sweep = FALSE
    /\ used = 0 /\ cache = NoDecision
    /\ bucket = NoBucket
    /\ day = 1 /\ ticks = 0 /\ arrivals = 0
    /\ hist = [created |-> 0, overtaken |-> FALSE, served |-> [d \in 1..MaxDay |-> 0],
               rolledBack |-> FALSE, swept |-> FALSE]

Arrive(r) ==
    /\ req[r].pc = "idle" /\ arrivals < MaxRequests
    /\ arrivals' = arrivals + 1
    /\ \E k \in Kinds : req' = [req EXCEPT ![r] = [Free(0) EXCEPT !.pc = "gate", !.i = 1, !.kind = k]]
    /\ UNCHANGED <<chain, limiters, entry, sweep, used, cache, bucket, day, ticks, hist>>

At(r, gate) == req[r].pc = "gate" /\ chain[req[r].i] = gate

\* c.Next(): the next gate, or the handler.
Forward(r) ==
    IF req[r].i < Len(chain)
    THEN [Free(0) EXCEPT !.pc = "gate", !.i = req[r].i + 1, !.kind = req[r].kind]
    ELSE Free(Served)

Pass(r) == req' = [req EXCEPT ![r] = Forward(r)]

Deny(r, status) == req' = [req EXCEPT ![r] = Free(status)]

-----------------------------------------------------------------------------
(* The rate limiter.                                                       *)

RateUnchanged == UNCHANGED <<chain, used, cache, bucket, day, ticks, arrivals>>

\* getLimiter, first half: the entry is loaded and marked as seen.
LoadLimiter(r) ==
    /\ At(r, "rate")
    /\ IF entry.id # 0
       THEN /\ req' = [req EXCEPT ![r].pc = "allow", ![r].lim = entry.id]
            /\ entry' = [entry EXCEPT !.idle = 0]
       ELSE req' = [req EXCEPT ![r].pc = "store"] /\ UNCHANGED entry
    /\ UNCHANGED <<limiters, sweep, hist>> /\ RateUnchanged

\* Mutant: the new limiter is not kept.
StoreLimiterNowhere(r) ==
    /\ req[r].pc = "store"
    /\ limiters' = Append(limiters, Burst)
    /\ hist' = [hist EXCEPT !.created = @ + 1]
    /\ req' = [req EXCEPT ![r].pc = "allow", ![r].lim = Len(limiters')]
    /\ UNCHANGED <<entry, sweep>> /\ RateUnchanged

\* getLimiter, second half: a new limiter replaces whatever was stored since.
StoreLimiter(r) ==
    /\ req[r].pc = "store"
    /\ limiters' = Append(limiters, Burst)
    /\ entry' = [id |-> Len(limiters'), idle |-> 0]
    /\ hist' = [hist EXCEPT !.created = @ + 1]
    /\ req' = [req EXCEPT ![r].pc = "allow", ![r].lim = Len(limiters')]
    /\ UNCHANGED sweep /\ RateUnchanged

\* The middleware of all routes or of one endpoint: a token, or 429.
Allow(r) ==
    /\ req[r].pc = "allow"
    /\ IF limiters[req[r].lim] > 0
       THEN limiters' = [limiters EXCEPT ![req[r].lim] = @ - 1] /\ Pass(r)
       ELSE Deny(r, 429) /\ UNCHANGED limiters
    /\ UNCHANGED <<entry, sweep, hist>> /\ RateUnchanged

\* cleanupLoop looks at lastSeen ...
SweepLimiter ==
    /\ ~sweep /\ entry.id # 0 /\ entry.idle > 2 * Interval
    /\ sweep' = TRUE
    /\ UNCHANGED <<req, limiters, entry, hist>> /\ RateUnchanged

\* ... and deletes the key, whatever entry it has by then.
DeleteLimiter ==
    /\ sweep
    /\ sweep' = FALSE
    /\ entry' = [id |-> 0, idle |-> 0]
    /\ hist' = [hist EXCEPT !.created = 0]
    /\ UNCHANGED <<req, limiters>> /\ RateUnchanged

-----------------------------------------------------------------------------
(* The tenant status check.                                                *)

\* Requests without claims, service tokens and tokens without a status pass.
StatusBlocks(k) == k.claims /\ ~k.service /\ k.status # "" /\ k.status \in BlockedStatuses

TenantStatusMiddleware(r) ==
    /\ At(r, "status")
    /\ IF StatusBlocks(req[r].kind) THEN Deny(r, 403) ELSE Pass(r)
    /\ UNCHANGED <<chain, limiters, entry, sweep, used, cache, bucket, day, ticks, arrivals, hist>>

-----------------------------------------------------------------------------
(* The Sentinel quota check.                                               *)

SentinelUnchanged == UNCHANGED <<chain, limiters, entry, sweep, bucket, day, ticks, arrivals>>

\* The middleware's early returns: only access tokens of a tenant's users count.
SentinelApplies(k) == k.claims /\ ~k.service /\ k.access /\ k.tenant

SentinelMiddleware(r) ==
    /\ At(r, "sentinel")
    /\ IF SentinelApplies(req[r].kind) THEN req' = [req EXCEPT ![r].pc = "asked"] ELSE Pass(r)
    /\ UNCHANGED <<used, cache, hist>> /\ SentinelUnchanged

Remaining(k, n) == IF k.limit = Unlimited THEN Unlimited ELSE k.limit - n

SentinelAllows(k) == k.limit = Unlimited \/ used < k.limit

Verdict(allowed, remaining, reset) ==
    [allowed |-> allowed, status |-> IF allowed THEN 200 ELSE 429,
     remaining |-> remaining, reset |-> reset]

\* Sentinel (external) counts a request it allows; a refusal is a 429.  Its
\* answer may name the time at which the count resets.
SentinelAnswers(r) ==
    LET k == req[r].kind IN
    /\ req[r].pc = "asked"
    /\ used' = used + IF SentinelAllows(k) THEN 1 ELSE 0
    /\ \E reset \in BOOLEAN :
         req' = [req EXCEPT ![r].pc = "answered",
                            ![r].answer = Verdict(SentinelAllows(k), Remaining(k, used'), reset)]
    /\ UNCHANGED <<cache, hist>> /\ SentinelUnchanged

\* History: another check ended while an answer was on its way.
Overtake(calls, r) ==
    [q \in Slots |-> IF q # r /\ calls[q].pc = "answered"
                     THEN [calls[q] EXCEPT !.late = TRUE] ELSE calls[q]]

\* decisionCache.store: for TTL, or until the count resets if that is earlier.
Store(result) == IF TTL <= 0 THEN cache ELSE [result |-> result, left |-> TTL]

Decide(r, result) ==
    IF result.allowed THEN Forward(r) ELSE Free(result.status)

\* The answer arrives, is cached and decides.
SentinelReceive(r) ==
    /\ req[r].pc = "answered"
    /\ cache' = Store(req[r].answer)
    /\ hist' = [hist EXCEPT !.overtaken = @ \/ req[r].late]
    /\ req' = Overtake([req EXCEPT ![r] = Decide(r, req[r].answer)], r)
    /\ UNCHANGED used /\ SentinelUnchanged

\* Mutant: the remainder is not taken down.
FallbackUncounted(d) ==
    IF ~d.allowed \/ d.remaining = Unlimited THEN d
    ELSE IF d.remaining < 1 THEN [d EXCEPT !.allowed = FALSE, !.remaining = 0, !.status = 429]
    ELSE d

\* decisionCache.fallback: a cached approval is used up one request at a time.
Fallback(d) ==
    IF ~d.allowed \/ d.remaining = Unlimited THEN d
    ELSE IF d.remaining < 1 THEN [d EXCEPT !.allowed = FALSE, !.remaining = 0, !.status = 429]
    ELSE [d EXCEPT !.remaining = @ - 1]

\* The check fails, before or after Sentinel counted it: the cached decision
\* decides, else FailOpen.
SentinelFails(r) ==
    /\ req[r].pc \in {"asked", "answered"}
    /\ IF cache.left >= 0
       THEN /\ cache' = [cache EXCEPT !.result = Fallback(@)]
            /\ req' = Overtake([req EXCEPT ![r] = Decide(r, Fallback(cache.result))], r)
       ELSE /\ UNCHANGED cache
            /\ req' = Overtake([req EXCEPT ![r] = IF FailOpen THEN Forward(r) ELSE Free(503)], r)
    /\ UNCHANGED <<used, hist>> /\ SentinelUnchanged

-----------------------------------------------------------------------------
(* The in-memory quota.                                                    *)

LocalUnchanged ==
    UNCHANGED <<chain, limiters, entry, sweep, used, cache, day, ticks, arrivals>>

\* The day is read before the lock is taken.
LocalStamp(r) ==
    /\ At(r, "local")
    /\ IF req[r].kind.tenant THEN req' = [req EXCEPT ![r].pc = "stamped", ![r].today = day]
       ELSE Pass(r)
    /\ UNCHANGED <<bucket, hist>> /\ LocalUnchanged

\* getOrCreateBucket: a bucket of any other day, also of a later one, is
\* replaced.
GetOrCreateBucket(today) ==
    IF bucket.day # today THEN [day |-> today, count |-> 0, idle |-> 0]
    ELSE [bucket EXCEPT !.idle = 0]

\* Mutant: the limit may be passed by one.
WithinLimitLoose(b, limit) == limit = Unlimited \/ b.count <= limit

WithinLimit(b, limit) == limit = Unlimited \/ b.count < limit

\* Under the lock: the request is counted, or refused at the limit.  History:
\* a later day's count was thrown away.
LocalCount(r) ==
    LET b == GetOrCreateBucket(req[r].today)
        limit == req[r].kind.limit IN
    /\ req[r].pc = "stamped"
    /\ IF WithinLimit(b, limit)
       THEN /\ bucket' = [b EXCEPT !.count = @ + IF limit = Unlimited THEN 0 ELSE 1]
            /\ Pass(r)
            /\ hist' = [hist EXCEPT
                 !.served[req[r].today] = @ + IF limit = Unlimited THEN 0 ELSE 1,
                 !.rolledBack = @ \/ req[r].today < bucket.day]
       ELSE /\ bucket' = b
            /\ Deny(r, 429)
            /\ hist' = [hist EXCEPT !.rolledBack = @ \/ req[r].today < bucket.day]
    /\ LocalUnchanged

\* cleanupLoop of the Enforcer: an idle bucket goes, today's count with it.
SweepBucket ==
    /\ bucket.day # 0 /\ bucket.idle > 2 * Interval
    /\ bucket' = NoBucket
    /\ hist' = [hist EXCEPT !.swept = TRUE]
    /\ UNCHANGED req /\ LocalUnchanged

-----------------------------------------------------------------------------
MinNat(a, b) == IF a < b THEN a ELSE b

\* Time passes: limiters refill, decisions age, entries and buckets grow idle.
Tick ==
    /\ ticks < MaxTicks
    /\ ticks' = ticks + 1
    /\ limiters' = [l \in DOMAIN limiters |-> MinNat(Burst, limiters[l] + 1)]
    /\ entry' = [entry EXCEPT !.idle = IF entry.id = 0 THEN 0 ELSE @ + 1]
    /\ cache' = IF cache.left > 0 THEN [cache EXCEPT !.left = @ - 1] ELSE NoDecision
    /\ bucket' = [bucket EXCEPT !.idle = IF bucket.day = 0 THEN 0 ELSE @ + 1]
    /\ UNCHANGED <<chain, req, sweep, used, day, arrivals, hist>>

\* Midnight: Sentinel starts a new count, and decisions that named the reset
\* expire.
Midnight ==
    /\ day < MaxDay
    /\ day' = day + 1
    /\ used' = 0
    /\ cache' = IF cache.result.reset THEN NoDecision ELSE cache
    /\ UNCHANGED <<chain, req, limiters, entry, sweep, bucket, ticks, arrivals, hist>>

Next ==
    \/ \E r \in Slots :
         \/ Arrive(r) \/ LoadLimiter(r) \/ StoreLimiter(r) \/ Allow(r)
         \/ TenantStatusMiddleware(r)
         \/ SentinelMiddleware(r) \/ SentinelAnswers(r) \/ SentinelReceive(r) \/ SentinelFails(r)
         \/ LocalStamp(r) \/ LocalCount(r)
    \/ SweepLimiter \/ DeleteLimiter \/ SweepBucket \/ Tick \/ Midnight

Spec == Init /\ [][Next]_vars

-----------------------------------------------------------------------------
(* Properties.                                                             *)

Answer == [allowed : BOOLEAN, status : {0, 200, 429}, remaining : Int, reset : BOOLEAN]

Request ==
    [pc : {"idle", "gate", "store", "allow", "asked", "answered", "stamped"}, i : Nat,
     kind : Kinds, lim : Nat, today : Nat, answer : Answer, late : BOOLEAN, out : Nat]

\* Every variable holds a value of its type.
TypeOK ==
    /\ chain \in Chains
    /\ req \in [Slots -> Request]
    /\ \A r \in Slots :
         /\ req[r].pc # "idle" => req[r].i \in 1..Len(chain)
         /\ req[r].pc = "allow" => req[r].lim \in 1..Len(limiters)
         /\ req[r].pc = "stamped" => req[r].today \in 1..day
    /\ limiters \in Seq(0..Burst)
    /\ entry \in [id : Nat, idle : Nat] /\ entry.id <= Len(limiters)
    /\ sweep \in BOOLEAN
    /\ cache \in [result : Answer, left : Int]
    /\ bucket \in [day : Nat, count : Nat, idle : Nat] /\ bucket.day <= day
    /\ used \in Nat
    /\ day \in 1..MaxDay /\ ticks \in 0..MaxTicks /\ arrivals \in 0..MaxRequests
    /\ hist \in [created : Nat, overtaken : BOOLEAN, served : [1..MaxDay -> Nat],
                 rolledBack : BOOLEAN, swept : BOOLEAN]

\* Two first requests may each create a limiter for one address, because
\* getLimiter loads and stores separately, but there are never more limiters
\* between two clean-ups than requests that ran at the same time.
FirstRequestRaceBounded == hist.created <= Cardinality(Slots)

\* The answers on their way that Sentinel has counted.
OnTheirWay == {r \in Slots : req[r].pc = "answered" /\ req[r].answer.allowed}

IsDailyLimit(n) == n \in Nat /\ \A k \in Kinds : n >= k.limit

\* The limit of the plan, the largest one when the kinds differ.
DailyLimit ==
    CHOOSE n \in {k.limit : k \in Kinds} \cup {0} : IsDailyLimit(n)

\* (There are finitely many plans.)
ASSUME SomeLimitIsTheLargest ==
    \E n \in {k.limit : k \in Kinds} \cup {0} : IsDailyLimit(n)

\* The cached decision never promises more than Sentinel has left, save for the
\* requests whose answers are on their way, unless an answer was stored after
\* a check that Sentinel saw later had already ended: store overwrites blindly.
CacheOptimisticOnlyByOvertaking ==
    ~hist.overtaken /\ cache.left >= 0 /\ cache.result.allowed
      /\ cache.result.remaining # Unlimited =>
        cache.result.remaining <= DailyLimit - used + Cardinality(OnTheirWay)

\* A refused request is answered with an error status, whether Sentinel, the
\* fallback cache or a local gate refused it: a refusal made from a cached
\* approval does not carry the approval's 200.
RefusalIsAnError == \A r \in Slots : req[r].out \in {0, Served} \/ req[r].out >= 400

\* More requests than the limit are served on a day only after the day's count
\* was lost: to a request stamped before midnight that replaced the new day's
\* bucket, or to the clean-up of a bucket that was idle for two intervals.
OverrunHasACause ==
    \A d \in 1..MaxDay : hist.served[d] > DailyLimit => hist.rolledBack \/ hist.swept

-----------------------------------------------------------------------------
(* The inductive invariant of the proofs.                                  *)

\* The requests that are about to store a limiter of their own.
Storers == {r \in Slots : req[r].pc = "store"}

\* Only requests that ran before the first limiter was stored create one.
LimitersBounded ==
    /\ entry.id = 0 => hist.created = 0
    /\ hist.created + Cardinality(Storers) <= Cardinality(Slots)

\* A refusal, on its way or cached, has a status that says so.
RefusalsSaySo ==
    /\ \A r \in Slots : req[r].pc = "answered" /\ ~req[r].answer.allowed
                          => req[r].answer.status = 429
    /\ cache.left >= 0 /\ ~cache.result.allowed => cache.result.status = 429

\* Without a lifetime nothing is cached.
NothingCached == TTL <= 0 => cache.left < 0

\* An answer on its way that nothing overtook promises no more than Sentinel
\* has left for those who are not on their way.
AnswersHonest ==
    \A r \in Slots :
        req[r].pc = "answered" /\ ~req[r].late /\ req[r].answer.allowed
          /\ req[r].answer.remaining # Unlimited =>
            req[r].answer.remaining <= DailyLimit - used + Cardinality(OnTheirWay \ {r})

\* Until a count is lost the bucket has what was served on its day, and no
\* other day was overrun.
BucketCounts ==
    ~hist.rolledBack /\ ~hist.swept =>
        /\ bucket.count <= DailyLimit
        /\ \A d \in 1..MaxDay :
             /\ d = bucket.day => hist.served[d] = bucket.count
             /\ d > bucket.day => hist.served[d] = 0
             /\ d < bucket.day => hist.served[d] <= DailyLimit

AdmissionInv ==
    /\ TypeOK
    /\ LimitersBounded /\ FirstRequestRaceBounded
    /\ RefusalsSaySo /\ RefusalIsAnError
    /\ NothingCached /\ AnswersHonest /\ CacheOptimisticOnlyByOvertaking
    /\ BucketCounts /\ OverrunHasACause
=============================================================================
