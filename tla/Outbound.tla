------------------------------ MODULE Outbound ------------------------------
(***************************************************************************)
(* The outbound HTTP client of pkg/http: Do with its retry loop            *)
(* (client.go), the token cache that all calls of a client share           *)
(* (token.go), the token providers (provider.go, service_token_client.go)  *)
(* and the circuit breaker (the gobreaker library).                        *)
(*                                                                         *)
(* Tokens are numbered in the order they are issued.  The authentication   *)
(* service may revoke every token issued so far, which is what a 401 from  *)
(* the server means.  The cached token's validity is the number of ticks   *)
(* left until expiresAt - refreshBuffer.                                   *)
(***************************************************************************)
EXTENDS Integers

CONSTANTS
    Callers,        \* concurrent calls of Do on one client
    Options,        \* [retryMax, breaker, provider]: how services build clients
    Threshold,      \* ReadyToTrip: consecutive failures that open the breaker
    MaxRequests,    \* requests let through while half-open
    Answers,        \* [field, ticks]: what token answers say of the lifetime
    DefaultLifetime,\* one hour, used when an answer says nothing
    Margin,         \* what the OAuth2 provider takes off expires_in
    RefreshBuffer,
    MaxFaults,      \* bound: failing calls
    MaxRevocations, \* bound: revocations by the authentication service
    MaxTicks        \* bound: ticks of the clock

Providers == {"oauth2", "service", "none"}

ASSUME OutboundConstants ==
    /\ Options \subseteq [retryMax : Int, breaker : BOOLEAN, provider : Providers]
    /\ Threshold \in Nat \ {0} /\ MaxRequests \in Nat \ {0}
    /\ Answers \subseteq [field : {"none", "expires_in", "expires_at"}, ticks : Int]
    /\ DefaultLifetime \in Nat /\ Margin \in Nat /\ RefreshBuffer \in Nat
    /\ MaxFaults \in Nat /\ MaxRevocations \in Nat /\ MaxTicks \in Nat
    /\ "free" \notin Callers

VARIABLES
    client,         \* the options of the client: [retryMax, breaker, provider]
    cache,          \* TokenCache: [token, left], token 0 when empty
    lock,           \* the caller that holds tc.mu, or "free"
    call,           \* caller -> where its Do is
    breaker,        \* [state, failures, successes, requests]
    issued,         \* number of tokens issued
    revoked,        \* tokens up to this one are refused by the server
    bodies,         \* response bodies received and neither closed nor returned
    history,        \* [fetches, causes, dropped, broken], see the properties
    faults, revocations, ticks

vars == <<client, cache, lock, call, breaker, issued, revoked, bodies, history,
          faults, revocations, ticks>>

Bounds == <<faults, revocations, ticks>>

WithRetry(max) == IF max <= 0 THEN 1 ELSE max

EmptyCache == [token |-> 0, left |-> 0]

Closed == [state |-> "closed", failures |-> 0, successes |-> 0, requests |-> 0]

\* A call: attempt counts from 0, token is the one in its header, refused the
\* last token the server answered 401 to, counted whether the breaker still
\* counts its outcome.
NoCall == [pc |-> "idle", attempt |-> 0, token |-> 0, refused |-> 0, counted |-> FALSE,
           result |-> "none"]

Init ==
    /\ client \in {[o EXCEPT !.retryMax = WithRetry(@)] : o \in Options}
    /\ cache = EmptyCache
    /\ lock = "free"
    /\ call = [c \in Callers |-> NoCall]
    /\ breaker = Closed
    /\ issued = 0 /\ revoked = 0 /\ bodies = 0
    /\ history = [fetches |-> 0, causes |-> 0, dropped |-> 0, broken |-> 0]
    /\ faults = 0 /\ revocations = 0 /\ ticks = 0

Fault == faults < MaxFaults /\ faults' = faults + 1 /\ UNCHANGED <<revocations, ticks>>

Goto(c, pc) == call' = [call EXCEPT ![c].pc = pc]

\* Do returns; the JSON helpers turn a status outside 2xx into an error.
DoJSON(status) == IF status = "2xx" THEN "ok" ELSE "status_error"

Return(c, result) == [call[c] EXCEPT !.pc = "done", !.result = result]

\* The loop goes on with the next attempt, or gives up with lastErr.
Continue(c) ==
    IF call[c].attempt + 1 < client.retryMax
    THEN [call[c] EXCEPT !.pc = "wait", !.attempt = @ + 1]
    ELSE Return(c, "error")

-----------------------------------------------------------------------------
(* The token cache.                                                        *)

Valid == cache.token # 0 /\ cache.left > 0

\* The token goes into the header and the request is ready to be sent.
WithToken(c, token) == [call[c] EXCEPT !.pc = "send", !.token = token]

\* GetToken fails: Do returns before the first attempt, later ones go on.
TokenError(c) == IF call[c].attempt = 0 THEN Return(c, "error") ELSE Continue(c)

\* GetToken under the read lock: the cached token, or on to refreshToken.
GetToken(c) ==
    /\ call[c].pc = "get" /\ lock = "free"
    /\ call' = [call EXCEPT ![c] = IF Valid THEN WithToken(c, cache.token)
                                   ELSE [@ EXCEPT !.pc = "refresh"]]
    /\ UNCHANGED <<client, cache, lock, breaker, issued, revoked, bodies, history, Bounds>>

\* Mutant: no second look at the cache once the lock is held.
RefreshUnchecked(c) ==
    /\ call[c].pc = "refresh" /\ lock = "free"
    /\ lock' = c
    /\ Goto(c, "fetch")
    /\ UNCHANGED <<client, cache, breaker, issued, revoked, bodies, history, Bounds>>

\* refreshToken takes the write lock and checks again.
Refresh(c) ==
    /\ call[c].pc = "refresh" /\ lock = "free"
    /\ IF Valid
       THEN UNCHANGED lock /\ call' = [call EXCEPT ![c] = WithToken(c, cache.token)]
       ELSE lock' = c /\ Goto(c, "fetch")
    /\ UNCHANGED <<client, cache, breaker, issued, revoked, bodies, history, Bounds>>

\* expires_in less the margin, or the default.
OAuth2Lifetime(a) ==
    IF a.field = "expires_in" /\ a.ticks > 0 THEN a.ticks - Margin ELSE DefaultLifetime

\* parseExpirationTime: expires_at, else expires_in, else the default.
ParseExpirationTime(a) ==
    CASE a.field = "expires_at" -> a.ticks
      [] a.field = "expires_in" /\ a.ticks > 0 -> a.ticks
      [] OTHER -> DefaultLifetime

Lifetime(a) ==
    IF client.provider = "oauth2" THEN OAuth2Lifetime(a) ELSE ParseExpirationTime(a)

\* FetchToken succeeds under the lock.  History: a token that is already due
\* for a refresh is the cause of the next fetch.
FetchToken(c) ==
    /\ call[c].pc = "fetch"
    /\ issued' = issued + 1
    /\ \E a \in Answers :
         /\ cache' = [token |-> issued', left |-> Lifetime(a) - RefreshBuffer]
         /\ history' = [history EXCEPT !.fetches = @ + 1,
                                       !.causes = @ + IF cache'.left <= 0 THEN 1 ELSE 0]
    /\ lock' = "free"
    /\ call' = [call EXCEPT ![c] = WithToken(c, issued')]
    /\ UNCHANGED <<client, breaker, revoked, bodies, Bounds>>

\* Mutant: the error path forgets the lock.
FetchFailsLocked(c) ==
    /\ call[c].pc = "fetch"
    /\ Fault
    /\ call' = [call EXCEPT ![c] = TokenError(c)]
    /\ UNCHANGED <<client, cache, lock, breaker, issued, revoked, bodies, history>>

\* FetchToken fails (transport, status, or an empty token): the cache is left
\* as it was.
FetchFails(c) ==
    /\ call[c].pc = "fetch"
    /\ Fault
    /\ lock' = "free"
    /\ call' = [call EXCEPT ![c] = TokenError(c)]
    /\ UNCHANGED <<client, cache, breaker, issued, revoked, bodies, history>>

\* Mutant: the cached token survives a 401.
InvalidateNothing(c) ==
    /\ call[c].pc = "invalidate" /\ lock = "free"
    /\ call' = [call EXCEPT ![c] = Continue(c)]
    /\ UNCHANGED <<client, cache, lock, breaker, issued, revoked, bodies, history, Bounds>>

\* handle401: Invalidate clears whatever token is cached, also one that was
\* fetched after the refused one.
Invalidate(c) ==
    /\ call[c].pc = "invalidate" /\ lock = "free"
    /\ cache' = EmptyCache
    /\ history' = [history EXCEPT !.causes = @ + IF Valid THEN 1 ELSE 0]
    /\ call' = [call EXCEPT ![c] = Continue(c)]
    /\ UNCHANGED <<client, lock, breaker, issued, revoked, bodies, Bounds>>

-----------------------------------------------------------------------------
(* The circuit breaker (external): a change of state starts a new          *)
(* generation, and outcomes of requests of an earlier one are ignored.     *)

Tripped == [Closed EXCEPT !.state = "open"]

\* The breaker refuses the request.
Refuses ==
    /\ client.breaker
    /\ \/ breaker.state = "open"
       \/ breaker.state = "half-open" /\ breaker.requests >= MaxRequests

AfterFailure ==
    IF breaker.state = "half-open" \/ breaker.failures + 1 >= Threshold THEN Tripped
    ELSE [breaker EXCEPT !.failures = @ + 1, !.successes = 0]

AfterSuccess ==
    IF breaker.state = "half-open" /\ breaker.successes + 1 >= MaxRequests THEN Closed
    ELSE [breaker EXCEPT !.failures = 0, !.successes = @ + 1]

\* (Bound: successes are only compared with MaxRequests.)
Capped(b) == [b EXCEPT !.successes = IF @ > MaxRequests THEN MaxRequests ELSE @,
                       !.requests = IF @ > MaxRequests THEN MaxRequests ELSE @]

Outcome(c, failed) ==
    Capped(IF ~client.breaker \/ ~call[c].counted THEN breaker
           ELSE IF failed THEN AfterFailure ELSE AfterSuccess)

\* A change of state: nobody's outcome counts any more.
Recount(calls) ==
    IF breaker'.state = breaker.state THEN calls
    ELSE [d \in Callers |-> [calls[d] EXCEPT !.counted = FALSE]]

\* The open timeout or the closed interval runs out.
BreakerTimer ==
    /\ client.breaker
    /\ breaker' \in {IF breaker.state = "open" THEN [Closed EXCEPT !.state = "half-open"]
                     ELSE IF breaker.state = "closed" THEN Closed ELSE breaker}
    /\ breaker' # breaker
    /\ call' = [d \in Callers |-> [call[d] EXCEPT !.counted = FALSE]]
    /\ UNCHANGED <<client, cache, lock, issued, revoked, bodies, history, Bounds>>

-----------------------------------------------------------------------------
(* Do.                                                                     *)

\* prepareRequest: the hooks run, then the token is injected.  Without a
\* provider there is no token cache and the request goes out as it is.
Do(c) ==
    /\ call[c].pc = "idle"
    /\ Goto(c, IF client.provider = "none" THEN "send" ELSE "get")
    /\ UNCHANGED <<client, cache, lock, breaker, issued, revoked, bodies, history, Bounds>>

\* A request hook fails or, once the token is there, the body cannot be read.
PrepareFails(c) ==
    /\ call[c].pc = "idle" \/ (call[c].pc = "send" /\ call[c].attempt = 0)
    /\ Fault
    /\ call' = [call EXCEPT ![c] = Return(c, "error")]
    /\ UNCHANGED <<client, cache, lock, breaker, issued, revoked, bodies, history>>

\* waitForRetry: the delay is over ...
Retry(c) ==
    /\ call[c].pc = "wait"
    /\ Goto(c, IF client.provider = "none" THEN "send" ELSE "get")
    /\ UNCHANGED <<client, cache, lock, breaker, issued, revoked, bodies, history, Bounds>>

\* ... or the caller's context is done first.
WaitCancelled(c) ==
    /\ call[c].pc = "wait"
    /\ call' = [call EXCEPT ![c] = Return(c, "error")]
    /\ UNCHANGED <<client, cache, lock, breaker, issued, revoked, bodies, history, Bounds>>

\* Mutant: a call waits for the breaker without counting an attempt.
SendWhenClosed(c) ==
    /\ call[c].pc = "send"
    /\ IF Refuses
       THEN Goto(c, "wait") /\ UNCHANGED breaker
       ELSE /\ call' = [call EXCEPT ![c].pc = "flight", ![c].counted = TRUE]
            /\ breaker' = IF client.breaker THEN Capped([breaker EXCEPT !.requests = @ + 1])
                          ELSE breaker
    /\ UNCHANGED <<client, cache, lock, issued, revoked, bodies, history, Bounds>>

\* executeRequest: an open breaker ends the loop at once.
Send(c) ==
    /\ call[c].pc = "send"
    /\ IF Refuses
       THEN call' = [call EXCEPT ![c] = Return(c, "open")] /\ UNCHANGED breaker
       ELSE /\ call' = [call EXCEPT ![c].pc = "flight", ![c].counted = TRUE]
            /\ breaker' = IF client.breaker THEN Capped([breaker EXCEPT !.requests = @ + 1])
                          ELSE breaker
    /\ UNCHANGED <<client, cache, lock, issued, revoked, bodies, history, Bounds>>

\* No answer arrives: the attempt failed.
TransportError(c) ==
    /\ call[c].pc = "flight"
    /\ Fault
    /\ breaker' = Outcome(c, TRUE)
    /\ call' = Recount([call EXCEPT ![c] = Continue(c)])
    /\ history' = [history EXCEPT !.broken = @ + 1]
    /\ UNCHANGED <<client, cache, lock, issued, revoked, bodies>>

\* Mutant: every status from 400 on counts as a failure of the server.
FailureStatusLow(status) == client.breaker /\ status \in {"401", "4xx", "5xx"}

\* Through the breaker a 5xx is an error; otherwise it is a response.
FailureStatus(status) == client.breaker /\ status = "5xx"

\* The server refuses a revoked token and may fail.
Statuses(c) ==
    (IF client.provider # "none" /\ call[c].token <= revoked THEN {"401"} ELSE {"2xx", "4xx"})
      \cup IF faults < MaxFaults THEN {"5xx"} ELSE {}

\* A 5xx through the breaker: its response is dropped, body and all.
ServerError(c) ==
    /\ call[c].pc = "flight"
    /\ \E status \in Statuses(c) :
         /\ FailureStatus(status)
         /\ history' = [history EXCEPT !.dropped = @ + 1,
                                       !.broken = @ + IF status = "5xx" THEN 1 ELSE 0]
         /\ faults' = faults + IF status = "5xx" THEN 1 ELSE 0
    /\ breaker' = Outcome(c, TRUE)
    /\ call' = Recount([call EXCEPT ![c] = Continue(c)])
    /\ bodies' = bodies + 1
    /\ UNCHANGED <<client, cache, lock, issued, revoked, revocations, ticks>>

ShouldRetryOn401(c, status) ==
    status = "401" /\ client.provider # "none" /\ call[c].attempt < client.retryMax - 1

\* A retried response is closed, any other is handed to the caller.
BodiesAfter(c, status) == bodies

\* Any other response.
Response(c) ==
    /\ call[c].pc = "flight"
    /\ \E status \in Statuses(c) :
         /\ ~FailureStatus(status)
         /\ breaker' = Outcome(c, FALSE)
         /\ call' = Recount([call EXCEPT ![c] =
              IF ShouldRetryOn401(c, status)
              THEN [@ EXCEPT !.pc = "invalidate", !.refused = call[c].token]
              ELSE Return(c, IF status = "401" THEN "401" ELSE DoJSON(status))])
         /\ faults' = faults + IF status = "5xx" THEN 1 ELSE 0
         /\ bodies' = BodiesAfter(c, status)
    /\ UNCHANGED <<client, cache, lock, issued, revoked, history, revocations, ticks>>

\* A response hook fails: the body is closed and Do returns the error.
ResponseHookFails(c) ==
    /\ call[c].pc = "flight"
    /\ Fault
    /\ breaker' = Outcome(c, FALSE)
    /\ call' = Recount([call EXCEPT ![c] = Return(c, "error")])
    /\ UNCHANGED <<client, cache, lock, issued, revoked, bodies, history>>

-----------------------------------------------------------------------------
\* The authentication service revokes what it issued so far.
Revoke ==
    /\ revocations < MaxRevocations /\ revoked < issued
    /\ revocations' = revocations + 1
    /\ revoked' = issued
    /\ UNCHANGED <<client, cache, lock, call, breaker, issued, bodies, history, faults, ticks>>

\* History: a token whose time runs out is the cause of the next fetch.
Tick ==
    /\ ticks < MaxTicks /\ cache.token # 0 /\ lock = "free"
    /\ ticks' = ticks + 1
    /\ cache' = [cache EXCEPT !.left = @ - 1]
    /\ history' = [history EXCEPT !.causes = @ + IF cache.left = 1 THEN 1 ELSE 0]
    /\ UNCHANGED <<client, lock, call, breaker, issued, revoked, bodies, faults, revocations>>

Progress(c) ==
    \/ Do(c) \/ GetToken(c) \/ Refresh(c) \/ FetchToken(c)
    \/ Send(c) \/ Response(c) \/ Invalidate(c) \/ Retry(c)

Failure(c) ==
    \/ PrepareFails(c) \/ FetchFails(c) \/ TransportError(c) \/ ServerError(c)
    \/ ResponseHookFails(c) \/ WaitCancelled(c)

\* (Bound: the callers are done.)
AllDone == (\A c \in Callers : call[c].pc = "done") /\ UNCHANGED vars

Next ==
    \/ \E c \in Callers : Progress(c) \/ Failure(c)
    \/ BreakerTimer \/ Revoke \/ Tick \/ AllDone

Spec == Init /\ [][Next]_vars

(***************************************************************************)
(* Fairness: callers run, retry timers fire, the server and the token      *)
(* service answer or time out (http.Client.Timeout).                       *)
(***************************************************************************)
FairSpec ==
    Spec /\ \A c \in Callers : WF_vars(Progress(c) \/ Failure(c))

-----------------------------------------------------------------------------
(* Properties.                                                             *)

CallState ==
    [pc : {"idle", "get", "refresh", "fetch", "send", "flight", "invalidate", "wait", "done"},
     attempt : Nat, token : Nat, refused : Nat, counted : BOOLEAN,
     result : {"none", "ok", "status_error", "401", "open", "error"}]

\* Every variable holds a value of its type.
TypeOK ==
    /\ client \in [retryMax : Nat \ {0}, breaker : BOOLEAN, provider : Providers]
    /\ cache \in [token : Nat, left : Int]
    /\ lock \in Callers \cup {"free"}
    /\ call \in [Callers -> CallState]
    /\ \A c \in Callers : call[c].attempt < client.retryMax
    /\ breaker \in [state : {"closed", "open", "half-open"}, failures : Nat,
                    successes : Nat, requests : Nat]
    /\ issued \in Nat /\ revoked \in 0..issued /\ bodies \in Nat
    /\ history \in [fetches : Nat, causes : Nat, dropped : Nat, broken : Nat]
    /\ faults \in 0..MaxFaults /\ revocations \in 0..MaxRevocations /\ ticks \in 0..MaxTicks

\* The write lock is held exactly by the caller that is fetching, so a fetch
\* that fails cannot leave the cache locked for the calls behind it.
LockMeansFetching ==
    \A c \in Callers : lock = c <=> call[c].pc = "fetch"

\* A token the server refused is never presented again by the same call: the
\* next attempt uses another one, whatever the other callers do to the shared
\* cache in between.
RefusedNotReused ==
    \A c \in Callers : call[c].pc \in {"send", "flight"} /\ call[c].refused # 0
        => call[c].token # call[c].refused

\* No stampede: however many callers find the token gone, one fetch replaces
\* it.  A further fetch has its own cause: the token expired, was refused, or
\* was born too close to its expiry.
FetchesHaveACause == history.fetches <= 1 + history.causes

\* Only failures of the transport or the server open the breaker; a 401, a 4xx
\* or a token that cannot be fetched does not.
BreakerTripsOnServerFailures ==
    breaker.state # "closed" => history.broken >= Threshold

\* Every response is closed or handed to the caller, except the 5xx responses
\* a breaker turns into errors: their bodies are dropped unclosed.
OnlyDroppedBodiesLeak == bodies = history.dropped

\* A 401 reaches the caller of a client with tokens only from the last attempt
\* of the loop; before that it costs the cached token and a retry.
UnauthorizedIsFinal ==
    \A c \in Callers : call[c].result = "401" /\ client.provider # "none"
        => call[c].attempt = client.retryMax - 1

\* Every call returns, also when it has to wait for another one's fetch.
EveryCallReturns == \A c \in Callers : <>(call[c].pc = "done")

-----------------------------------------------------------------------------
(* The inductive invariant of the proofs.                                  *)

\* A caller fetches only while there is nothing usable in the cache.
FetchingMeansInvalid == \A c \in Callers : call[c].pc = "fetch" => ~Valid

\* Once handle401 ran, the refused token is out of the cache for good: tokens
\* only get newer.
RefusedIsGone ==
    /\ cache.token <= issued
    /\ \A c \in Callers :
         /\ call[c].token <= issued /\ call[c].refused <= issued
         /\ call[c].refused # 0 => client.provider # "none"
         /\ call[c].refused # 0 /\ call[c].pc # "invalidate" => cache.token # call[c].refused

\* While the cache holds a usable token one fetch is still to be paid for.
FetchesPaid == history.fetches <= history.causes + IF Valid THEN 1 ELSE 0

\* The breaker counts no more failures than there were.
FailuresCounted == breaker.failures <= history.broken

\* A call has no result until it is done.
ResultsAreFinal == \A c \in Callers : call[c].pc # "done" => call[c].result = "none"

OutboundInv ==
    /\ TypeOK
    /\ LockMeansFetching /\ FetchingMeansInvalid
    /\ RefusedIsGone /\ RefusedNotReused
    /\ FetchesPaid
    /\ FailuresCounted /\ BreakerTripsOnServerFailures /\ OnlyDroppedBodiesLeak
    /\ ResultsAreFinal /\ UnauthorizedIsFinal
=============================================================================
