--------------------------- MODULE OutboundProofs ---------------------------
(* The outbound client's shared token cache and breaker, for any number of *)
(* concurrent calls and any bounds on failures, revocations and ticks.     *)
EXTENDS Outbound, TLAPS

(***************************************************************************)
(* The records of the state, field by field.                               *)
(***************************************************************************)

\* The fields of a call.
LEMMA CallFields ==
    ASSUME NEW s \in CallState
    PROVE  /\ s.pc \in {"idle", "get", "refresh", "fetch", "send", "flight", "invalidate",
                        "wait", "done"}
           /\ s.attempt \in Nat /\ s.token \in Nat /\ s.refused \in Nat
           /\ s.counted \in BOOLEAN
           /\ s.result \in {"none", "ok", "status_error", "401", "open", "error"}
BY DEF CallState

\* Everything of a call but whether the breaker counts it.
Same(s, t) ==
    /\ s.pc = t.pc /\ s.attempt = t.attempt /\ s.token = t.token
    /\ s.refused = t.refused /\ s.result = t.result

\* What the types say of the parts of the state.
LEMMA Types ==
    ASSUME TypeOK
    PROVE  /\ client.retryMax \in Nat \ {0} /\ client.breaker \in BOOLEAN
           /\ client.provider \in Providers
           /\ cache.token \in Nat /\ cache.left \in Int
           /\ \A c \in Callers : call[c] \in CallState /\ call[c].attempt < client.retryMax
           /\ breaker.state \in {"closed", "open", "half-open"} /\ breaker.failures \in Nat
           /\ history.fetches \in Nat /\ history.causes \in Nat
           /\ history.dropped \in Nat /\ history.broken \in Nat
           /\ issued \in Nat /\ bodies \in Nat
BY Zenon DEF TypeOK

\* A token that goes into the header.
LEMMA WithTokenFields ==
    ASSUME TypeOK, NEW c \in Callers, NEW t \in Nat
    PROVE  /\ WithToken(c, t) \in CallState
           /\ WithToken(c, t).pc = "send" /\ WithToken(c, t).token = t
           /\ WithToken(c, t).attempt = call[c].attempt
           /\ WithToken(c, t).refused = call[c].refused
           /\ WithToken(c, t).result = call[c].result
<1>1. call[c] \in CallState
  BY DEF TypeOK
<1>2. \A s \in CallState : LET u == [s EXCEPT !.pc = "send", !.token = t]
                           IN  /\ u \in CallState /\ u.pc = "send" /\ u.token = t
                               /\ u.attempt = s.attempt /\ u.refused = s.refused
                               /\ u.result = s.result
  BY Zenon DEF CallState
<1>. QED  BY Zenon, <1>1, <1>2 DEF WithToken

\* A call that returns.
LEMMA ReturnFields ==
    ASSUME TypeOK, NEW c \in Callers,
           NEW r \in {"none", "ok", "status_error", "401", "open", "error"}
    PROVE  /\ Return(c, r) \in CallState
           /\ Return(c, r).pc = "done" /\ Return(c, r).result = r
           /\ Return(c, r).attempt = call[c].attempt
           /\ Return(c, r).token = call[c].token /\ Return(c, r).refused = call[c].refused
<1>1. call[c] \in CallState
  BY DEF TypeOK
<1>2. \A s \in CallState : LET u == [s EXCEPT !.pc = "done", !.result = r]
                           IN  /\ u \in CallState /\ u.pc = "done" /\ u.result = r
                               /\ u.attempt = s.attempt /\ u.token = s.token
                               /\ u.refused = s.refused
  BY Zenon DEF CallState
<1>. QED  BY Zenon, <1>1, <1>2 DEF Return

\* A call that goes on with its loop or gives up.
LEMMA ContinueFields ==
    ASSUME TypeOK, NEW c \in Callers
    PROVE  /\ Continue(c) \in CallState
           /\ Continue(c).attempt < client.retryMax
           /\ Continue(c).token = call[c].token /\ Continue(c).refused = call[c].refused
           /\ \/ Continue(c).pc = "wait" /\ Continue(c).result = call[c].result
              \/ Continue(c).pc = "done" /\ Continue(c).result = "error"
<1>1. CASE call[c].attempt + 1 < client.retryMax
  <2>1. Continue(c) = [call[c] EXCEPT !.pc = "wait", !.attempt = call[c].attempt + 1]
    BY <1>1 DEF Continue
  <2>2. call[c] \in CallState /\ call[c].attempt + 1 \in Nat
    BY Types, CallFields
  <2>. QED  BY Zenon, <1>1, <2>1, <2>2 DEF CallState
<1>2. CASE ~(call[c].attempt + 1 < client.retryMax)
  <2>1. Continue(c) = Return(c, "error")
    BY <1>2 DEF Continue
  <2>. QED  BY <2>1, ReturnFields, Types
<1>. QED  BY <1>1, <1>2

\* A call whose token could not be fetched.
LEMMA TokenErrorFields ==
    ASSUME TypeOK, NEW c \in Callers
    PROVE  /\ TokenError(c) \in CallState
           /\ TokenError(c).attempt < client.retryMax
           /\ TokenError(c).token = call[c].token /\ TokenError(c).refused = call[c].refused
           /\ \/ TokenError(c).pc = "wait" /\ TokenError(c).result = call[c].result
              \/ TokenError(c).pc = "done" /\ TokenError(c).result = "error"
BY ContinueFields, ReturnFields, Types DEF TokenError

\* A change of the breaker's state touches only what it counts.
LEMMA RecountFields ==
    ASSUME NEW calls \in [Callers -> CallState], call' = Recount(calls)
    PROVE  /\ call' \in [Callers -> CallState]
           /\ \A d \in Callers : Same(call'[d], calls[d])
BY DEF Recount, CallState, Same

(***************************************************************************)
(* How a step of a caller moves it: everybody else stays where it is.      *)
(***************************************************************************)

\* The calls after a step of c, up to what the breaker counts.
Moves(c, s) ==
    /\ call' \in [Callers -> CallState]
    /\ Same(call'[c], s)
    /\ \A d \in Callers \ {c} : Same(call'[d], call[d])

\* An assignment to the call of c is a move of c.
LEMMA MovesPlainly ==
    ASSUME TypeOK, NEW c \in Callers, NEW s \in CallState, call' = [call EXCEPT ![c] = s]
    PROVE  Moves(c, s)
BY DEF TypeOK, Moves, Same

\* So is one that is followed by a recount.
LEMMA MovesRecounted ==
    ASSUME TypeOK, NEW c \in Callers, NEW s \in CallState,
           call' = Recount([call EXCEPT ![c] = s])
    PROVE  Moves(c, s)
<1>. DEFINE calls == [call EXCEPT ![c] = s]
<1>1. /\ calls \in [Callers -> CallState] /\ calls[c] = s
      /\ \A d \in Callers \ {c} : calls[d] = call[d]
  BY DEF TypeOK
<1>2. call' = Recount(calls)
  OBVIOUS
<1>. HIDE DEF calls
<1>. QED  BY Zenon, <1>1, <1>2, RecountFields DEF Moves

\* Moving to another point of the loop changes nothing else of the call.
LEMMA GotoMoves ==
    ASSUME TypeOK, NEW c \in Callers,
           NEW pc \in {"get", "refresh", "fetch", "send", "flight", "invalidate", "wait"},
           Goto(c, pc)
    PROVE  Moves(c, [call[c] EXCEPT !.pc = pc])
<1>1. [call[c] EXCEPT !.pc = pc] \in CallState
  BY DEF TypeOK, CallState
<1>2. call' = [call EXCEPT ![c] = [call[c] EXCEPT !.pc = pc]]
  BY DEF Goto
<1>. QED  BY Zenon, <1>1, <1>2, MovesPlainly

(***************************************************************************)
(* What a step of a caller has to show, part by part.                      *)
(***************************************************************************)

Breakers == [state : {"closed", "open", "half-open"}, failures : Nat, successes : Nat,
             requests : Nat]

Histories == [fetches : Nat, causes : Nat, dropped : Nat, broken : Nat]

\* The types of everything but the calls after a step.
RestTyped ==
    /\ client' = client
    /\ cache' \in [token : Nat, left : Int] /\ lock' \in Callers \cup {"free"}
    /\ breaker' \in Breakers
    /\ issued' \in Nat /\ revoked' \in 0..issued' /\ bodies' \in Nat
    /\ history' \in Histories
    /\ faults' \in 0..MaxFaults /\ revocations' \in 0..MaxRevocations /\ ticks' \in 0..MaxTicks

\* The invariants on the counters of the client.
Counters ==
    /\ FetchesPaid
    /\ FailuresCounted /\ BreakerTripsOnServerFailures /\ OnlyDroppedBodiesLeak

\* The lock is kept, taken or given back along with the fetch.
LockMove(c, s) ==
    \/ lock' = lock /\ s.pc # "fetch" /\ call[c].pc # "fetch" /\ (Valid' => Valid)
    \/ lock = "free" /\ lock' = c /\ s.pc = "fetch" /\ ~Valid'
    \/ lock' = "free" /\ s.pc # "fetch" /\ call[c].pc = "fetch"

\* The cache gets emptier or newer, and the call honours the refusal.
TokenMove(c, s) ==
    /\ issued' >= issued /\ cache'.token <= issued'
    /\ cache'.token \in {cache.token, 0} \/ cache'.token > issued
    /\ s.token <= issued' /\ s.refused <= issued'
    /\ s.refused # 0 => client.provider # "none"
    /\ s.refused # 0 /\ s.pc # "invalidate" => cache'.token # s.refused
    /\ s.refused # 0 /\ s.pc \in {"send", "flight"} => s.token # s.refused

\* The call gets its result when it returns.
ResultMove(s) ==
    /\ s.attempt < client.retryMax
    /\ s.pc # "done" => s.result = "none"
    /\ s.result = "401" /\ client.provider # "none" => s.attempt = client.retryMax - 1

\* A step of one caller.
LEMMA CallStep ==
    ASSUME OutboundInv, NEW c \in Callers, NEW s \in CallState, Moves(c, s),
           RestTyped, Counters', LockMove(c, s), TokenMove(c, s), ResultMove(s)
    PROVE  OutboundInv'
<1>0. TypeOK
  BY DEF OutboundInv
<1>1. /\ Same(call'[c], s) /\ \A d \in Callers \ {c} : Same(call'[d], call[d])
      /\ \A d \in Callers : call'[d] \in CallState /\ call[d] \in CallState
  BY <1>0 DEF Moves, TypeOK
<1>2. TypeOK'
  <2>1. \A d \in Callers : call'[d].attempt < client'.retryMax
    BY <1>0, <1>1 DEF RestTyped, ResultMove, Same, TypeOK
  <2>. QED  BY <2>1 DEF RestTyped, Moves, TypeOK, Breakers, Histories, OutboundInv
<1>3. (LockMeansFetching /\ FetchingMeansInvalid)'
  <2>1. LockMeansFetching /\ FetchingMeansInvalid /\ c # "free"
    BY OutboundConstants DEF OutboundInv
  <2>2. \A d \in Callers : lock' = d <=> call'[d].pc = "fetch"
    BY <1>1, <2>1, OutboundConstants DEF LockMove, Same, LockMeansFetching
  <2>3. ASSUME NEW d \in Callers, call'[d].pc = "fetch" PROVE ~Valid'
    BY <1>1, <2>1, <2>3, OutboundConstants DEF LockMove, Same, LockMeansFetching,
                                               FetchingMeansInvalid
  <2>. QED  BY <2>2, <2>3 DEF LockMeansFetching, FetchingMeansInvalid
<1>4. (RefusedIsGone /\ RefusedNotReused)'
  <2>1. RefusedIsGone /\ RefusedNotReused /\ client' = client
    BY DEF OutboundInv, RestTyped
  <2>2. cache.token \in Nat /\ cache'.token \in Nat /\ issued \in Nat /\ issued' \in Nat
    BY <1>0 DEF RestTyped, TypeOK
  <2>3. ASSUME NEW d \in Callers
        PROVE  /\ call'[d].token <= issued' /\ call'[d].refused <= issued'
               /\ call'[d].refused # 0 => client'.provider # "none"
               /\ call'[d].refused # 0 /\ call'[d].pc # "invalidate"
                    => cache'.token # call'[d].refused
               /\ call'[d].pc \in {"send", "flight"} /\ call'[d].refused # 0
                    => call'[d].token # call'[d].refused
    <3>1. CASE d = c
      BY <1>1, <2>1, <3>1 DEF Same, TokenMove
    <3>2. CASE d # c
      <4>1. Same(call'[d], call[d])
        BY <1>1, <3>2
      <4>2. call[d].token \in Nat /\ call[d].refused \in Nat
        BY <1>1, CallFields
      <4>3. call[d].token <= issued' /\ call[d].refused <= issued /\ call[d].refused <= issued'
        BY <2>1, <2>2, <4>2 DEF RefusedIsGone, TokenMove
      <4>4. call[d].refused # 0 /\ call[d].pc # "invalidate" => cache'.token # call[d].refused
        BY <2>1, <2>2, <4>2, <4>3 DEF RefusedIsGone, TokenMove
      <4>5. /\ call[d].refused # 0 => client.provider # "none"
            /\ call[d].pc \in {"send", "flight"} /\ call[d].refused # 0
                 => call[d].token # call[d].refused
        BY <2>1 DEF RefusedIsGone, RefusedNotReused
      <4>. QED  BY <2>1, <4>1, <4>3, <4>4, <4>5 DEF Same
    <3>. QED  BY <3>1, <3>2
  <2>4. cache'.token <= issued'
    BY DEF TokenMove
  <2>. QED  BY <2>3, <2>4 DEF RefusedIsGone, RefusedNotReused
<1>5. (ResultsAreFinal /\ UnauthorizedIsFinal)'
  <2>1. ResultsAreFinal /\ UnauthorizedIsFinal /\ client' = client
    BY DEF OutboundInv, RestTyped
  <2>. QED  BY <1>1, <2>1 DEF Same, ResultMove, ResultsAreFinal, UnauthorizedIsFinal
<1>. QED  BY <1>2, <1>3, <1>4, <1>5 DEF OutboundInv, Counters

\* A failing call is counted.
LEMMA Bounded ==
    ASSUME TypeOK, UNCHANGED Bounds \/ Fault
    PROVE  faults' \in 0..MaxFaults /\ revocations' \in 0..MaxRevocations /\ ticks' \in 0..MaxTicks
BY OutboundConstants DEF TypeOK, Bounds, Fault

\* A step that touches neither the cache nor the breaker.
LEMMA QuietStep ==
    ASSUME OutboundInv, UNCHANGED <<client, cache, breaker, issued, revoked, bodies, history>>,
           lock' \in Callers \cup {"free"}, UNCHANGED Bounds \/ Fault
    PROVE  RestTyped /\ Counters' /\ (Valid' <=> Valid)
<1>1. TypeOK
  BY DEF OutboundInv
<1>2. RestTyped
  BY <1>1, Bounded DEF RestTyped, TypeOK, Breakers, Histories
<1>3. Valid' <=> Valid
  BY DEF Valid
<1>4. Counters'
  BY <1>3 DEF OutboundInv, Counters, FetchesPaid, FailuresCounted, BreakerTripsOnServerFailures,
              OnlyDroppedBodiesLeak
<1>. QED  BY <1>2, <1>3, <1>4

\* A breaker after the outcome of a request: it opens only when enough of the
\* failures counted so far, this one included, are failures of the server.
LEMMA OutcomeFields ==
    ASSUME TypeOK, NEW c \in Callers, NEW failed \in BOOLEAN,
           NEW n \in Nat, breaker.failures <= n, breaker.state # "closed" => n >= Threshold
    PROVE  LET b == Outcome(c, failed)
               m == n + IF failed THEN 1 ELSE 0
           IN  b \in Breakers /\ b.failures <= m /\ (b.state # "closed" => m >= Threshold)
<1>. DEFINE b == IF ~client.breaker \/ ~call[c].counted THEN breaker
                 ELSE IF failed THEN AfterFailure ELSE AfterSuccess
            m == n + IF failed THEN 1 ELSE 0
<1>1. breaker \in Breakers /\ Threshold \in Nat /\ MaxRequests \in Nat
  BY OutboundConstants DEF TypeOK, Breakers
<1>2. Tripped \in Breakers /\ Closed \in Breakers /\ Tripped.failures = 0 /\ Closed.failures = 0
  BY DEF Tripped, Closed, Breakers
<1>3. ASSUME failed
      PROVE  /\ AfterFailure \in Breakers /\ AfterFailure.failures <= n + 1
             /\ AfterFailure.state # "closed" => n + 1 >= Threshold
  <2>1. CASE breaker.state = "half-open" \/ breaker.failures + 1 >= Threshold
    <3>1. AfterFailure = Tripped
      BY <2>1 DEF AfterFailure
    <3>2. breaker.failures \in Nat
      BY <1>1 DEF Breakers
    <3>. QED  BY <1>1, <1>2, <2>1, <3>1, <3>2
  <2>2. CASE ~(breaker.state = "half-open" \/ breaker.failures + 1 >= Threshold)
    <3>1. breaker.failures \in Nat /\ breaker.failures + 1 \in Nat
      BY <1>1 DEF Breakers
    <3>. PICK f \in Nat : f = breaker.failures + 1
      BY <3>1
    <3>2. AfterFailure = [breaker EXCEPT !.failures = f, !.successes = 0]
      BY <2>2 DEF AfterFailure
    <3>3. /\ AfterFailure \in Breakers /\ AfterFailure.failures = f
          /\ AfterFailure.state = breaker.state
      BY <1>1, <3>2 DEF Breakers
    <3>. QED  BY <1>1, <3>1, <3>3
  <2>. QED  BY <2>1, <2>2
<1>4. /\ AfterSuccess \in Breakers /\ AfterSuccess.failures <= n
      /\ AfterSuccess.state # "closed" => n >= Threshold
  <2>1. CASE breaker.state = "half-open" /\ breaker.successes + 1 >= MaxRequests
    <3>1. AfterSuccess = Closed
      BY <2>1 DEF AfterSuccess
    <3>. QED  BY <1>2, <3>1 DEF Closed
  <2>2. CASE ~(breaker.state = "half-open" /\ breaker.successes + 1 >= MaxRequests)
    <3>1. breaker.successes + 1 \in Nat
      BY <1>1 DEF Breakers
    <3>. PICK z \in Nat : z = breaker.successes + 1
      BY <3>1
    <3>2. AfterSuccess = [breaker EXCEPT !.failures = 0, !.successes = z]
      BY <2>2 DEF AfterSuccess
    <3>3. /\ AfterSuccess \in Breakers /\ AfterSuccess.failures = 0
          /\ AfterSuccess.state = breaker.state
      BY <1>1, <3>2 DEF Breakers
    <3>. QED  BY <1>1, <3>3
  <2>. QED  BY <2>1, <2>2
<1>5. b \in Breakers /\ b.failures <= m /\ (b.state # "closed" => m >= Threshold)
  <2>1. breaker.failures \in Nat
    BY <1>1 DEF Breakers
  <2>2. CASE ~client.breaker \/ ~call[c].counted
    BY <1>1, <2>1, <2>2
  <2>3. CASE ~(~client.breaker \/ ~call[c].counted) /\ failed
    BY <1>3, <2>3
  <2>4. CASE ~(~client.breaker \/ ~call[c].counted) /\ ~failed
    BY <1>4, <2>4
  <2>. QED  BY <2>2, <2>3, <2>4
<1>6. Outcome(c, failed) = Capped(b)
  BY DEF Outcome
<1>. HIDE DEF b, m
<1>7. Capped(b) \in Breakers /\ Capped(b).failures = b.failures /\ Capped(b).state = b.state
  BY Zenon, <1>1, <1>5 DEF Capped, Breakers
<1>. QED  BY <1>5, <1>6, <1>7 DEF m

\* The step of a request whose outcome the breaker is told.
LEMMA OutcomeStep ==
    ASSUME OutboundInv, NEW c \in Callers, NEW failed \in BOOLEAN,
           UNCHANGED <<client, cache, lock, issued, revoked>>,
           breaker' = Outcome(c, failed), history' \in Histories, bodies' \in Nat,
           history'.fetches = history.fetches, history'.causes = history.causes,
           history'.broken = history.broken + IF failed THEN 1 ELSE 0,
           bodies' = history'.dropped,
           faults' \in 0..MaxFaults, UNCHANGED <<revocations, ticks>>
    PROVE  RestTyped /\ Counters' /\ (Valid' <=> Valid)
<1>1. TypeOK /\ history.broken \in Nat
  BY DEF OutboundInv, TypeOK
<1>2. /\ breaker' \in Breakers /\ breaker'.failures <= history'.broken
      /\ breaker'.state # "closed" => history'.broken >= Threshold
  BY <1>1, OutcomeFields DEF OutboundInv, FailuresCounted, BreakerTripsOnServerFailures
<1>3. RestTyped
  BY <1>1, <1>2 DEF RestTyped, TypeOK
<1>4. Valid' <=> Valid
  BY DEF Valid
<1>5. FetchesPaid'
  BY <1>4 DEF OutboundInv, FetchesPaid
<1>6. Counters'
  BY <1>2, <1>5 DEF Counters, FailuresCounted, BreakerTripsOnServerFailures, OnlyDroppedBodiesLeak
<1>. QED  BY <1>3, <1>4, <1>6

(***************************************************************************)
(* The actions.                                                            *)
(***************************************************************************)

\* The invariant's facts about one call.
LEMMA CallFacts ==
    ASSUME OutboundInv, NEW c \in Callers
    PROVE  /\ call[c] \in CallState /\ call[c].attempt < client.retryMax
           /\ call[c].token \in Nat /\ call[c].refused \in Nat
           /\ cache.token \in Nat /\ issued \in Nat /\ cache.token <= issued
           /\ call[c].token <= issued /\ call[c].refused <= issued
           /\ call[c].refused # 0 => client.provider # "none"
           /\ call[c].refused # 0 /\ call[c].pc # "invalidate" => cache.token # call[c].refused
           /\ call[c].refused # 0 /\ call[c].pc \in {"send", "flight"}
                => call[c].token # call[c].refused
           /\ call[c].pc # "done" => call[c].result = "none"
           /\ call[c].pc = "fetch" <=> lock = c
<1>1. TypeOK /\ call[c] \in CallState
  BY DEF OutboundInv, TypeOK
<1>2. /\ call[c].token \in Nat /\ call[c].refused \in Nat
      /\ call[c].attempt < client.retryMax /\ cache.token \in Nat /\ issued \in Nat
  BY <1>1, CallFields, Types
<1>3. RefusedIsGone /\ RefusedNotReused /\ ResultsAreFinal /\ LockMeansFetching
  BY DEF OutboundInv
<1>. QED  BY <1>1, <1>2, <1>3 DEF RefusedIsGone, RefusedNotReused, ResultsAreFinal,
                                   LockMeansFetching

\* A call that stays outside the cache: everything it carries is as before.
LEMMA LoopStep ==
    ASSUME OutboundInv, NEW c \in Callers, NEW s \in CallState, Moves(c, s),
           RestTyped, Counters', Valid' <=> Valid, UNCHANGED <<cache, lock, issued>>,
           call[c].pc \notin {"fetch", "invalidate", "done"}, s.pc \notin {"fetch", "invalidate"},
           s.token = call[c].token, s.refused = call[c].refused,
           s.pc \in {"send", "flight"} =>
               client.provider = "none" \/ call[c].pc \in {"send", "flight"},
           ResultMove(s)
    PROVE  OutboundInv'
<1>1. LockMove(c, s)
  BY DEF LockMove
<1>2. TokenMove(c, s)
  BY CallFacts DEF TokenMove
<1>. QED  BY <1>1, <1>2, CallStep

\* Entering the loop, by Do or after waitForRetry.
LEMMA EnterStep ==
    ASSUME OutboundInv, NEW c \in Callers, Do(c) \/ Retry(c)
    PROVE  OutboundInv'
<1>. DEFINE pc == IF client.provider = "none" THEN "send" ELSE "get"
            s == [call[c] EXCEPT !.pc = pc]
<1>1. TypeOK /\ call[c] \in CallState /\ call[c].result = "none"
  BY CallFacts DEF OutboundInv, Do, Retry
<1>2. Goto(c, pc) /\ pc \in {"send", "get"}
  BY DEF Do, Retry
<1>3. Moves(c, s)
  BY Zenon, <1>1, <1>2, GotoMoves
<1>4. /\ s \in CallState /\ s.pc = pc /\ s.attempt = call[c].attempt
      /\ s.token = call[c].token /\ s.refused = call[c].refused /\ s.result = "none"
  BY <1>1, <1>2 DEF CallState
<1>5. RestTyped /\ Counters' /\ (Valid' <=> Valid)
  <2>1. lock' \in Callers \cup {"free"}
    BY <1>1 DEF Do, Retry, TypeOK
  <2>. QED  BY <2>1, QuietStep DEF Do, Retry
<1>6. UNCHANGED <<cache, lock, issued>> /\ call[c].pc \in {"idle", "wait"}
  BY DEF Do, Retry
<1>7. s.pc = "send" => client.provider = "none"
  BY <1>4
<1>. HIDE DEF s, pc
<1>8. ResultMove(s)
  BY <1>2, <1>4, CallFacts DEF ResultMove
<1>. QED  BY <1>2, <1>3, <1>4, <1>5, <1>6, <1>7, <1>8, LoopStep

\* The call returns without having touched cache or breaker.
LEMMA GiveUpStep ==
    ASSUME OutboundInv, NEW c \in Callers, PrepareFails(c) \/ WaitCancelled(c)
    PROVE  OutboundInv'
<1>. DEFINE s == Return(c, "error")
<1>1. TypeOK
  BY DEF OutboundInv
<1>2. /\ s \in CallState /\ s.pc = "done" /\ s.result = "error" /\ s.attempt = call[c].attempt
      /\ s.token = call[c].token /\ s.refused = call[c].refused
  BY <1>1, ReturnFields
<1>3. call' = [call EXCEPT ![c] = s]
  BY DEF PrepareFails, WaitCancelled
<1>. HIDE DEF s
<1>4. Moves(c, s)
  BY Zenon, <1>1, <1>2, <1>3, MovesPlainly
<1>5. RestTyped /\ Counters' /\ (Valid' <=> Valid)
  <2>1. lock' \in Callers \cup {"free"}
    BY <1>1 DEF PrepareFails, WaitCancelled, TypeOK
  <2>. QED  BY <2>1, QuietStep DEF PrepareFails, WaitCancelled
<1>6. UNCHANGED <<cache, lock, issued>> /\ call[c].pc \in {"idle", "send", "wait"}
  BY DEF PrepareFails, WaitCancelled
<1>7. ResultMove(s)
  BY <1>2, CallFacts DEF ResultMove
<1>. QED  BY <1>2, <1>4, <1>5, <1>6, <1>7, LoopStep

\* A caller that finds a usable token, under the read or the write lock.
LEMMA CachedStep ==
    ASSUME OutboundInv, NEW c \in Callers, call[c].pc \in {"get", "refresh"}, Valid,
           call' = [call EXCEPT ![c] = WithToken(c, cache.token)],
           UNCHANGED <<client, cache, lock, breaker, issued, revoked, bodies, history, Bounds>>
    PROVE  OutboundInv'
<1>. DEFINE s == WithToken(c, cache.token)
<1>1. TypeOK /\ cache.token \in Nat
  BY Types DEF OutboundInv
<1>2. /\ s \in CallState /\ s.pc = "send" /\ s.token = cache.token
      /\ s.attempt = call[c].attempt /\ s.refused = call[c].refused /\ s.result = call[c].result
  BY <1>1, WithTokenFields
<1>3. call' = [call EXCEPT ![c] = s]
  OBVIOUS
<1>. HIDE DEF s
<1>4. Moves(c, s)
  BY Zenon, <1>1, <1>2, <1>3, MovesPlainly
<1>5. RestTyped /\ Counters' /\ (Valid' <=> Valid)
  <2>1. lock' \in Callers \cup {"free"}
    BY <1>1 DEF TypeOK
  <2>. QED  BY <2>1, QuietStep
<1>6. LockMove(c, s)
  BY <1>2, <1>5 DEF LockMove
<1>7. TokenMove(c, s)
  BY <1>2, CallFacts DEF TokenMove
<1>8. ResultMove(s)
  BY <1>2, CallFacts DEF ResultMove
<1>. QED  BY <1>2, <1>4, <1>5, <1>6, <1>7, <1>8, CallStep

\* A caller that finds none goes on to refreshToken, and there to the fetch.
LEMMA MissStep ==
    ASSUME OutboundInv, NEW c \in Callers, ~Valid, lock = "free",
           UNCHANGED <<client, cache, breaker, issued, revoked, bodies, history, Bounds>>,
           \/ call[c].pc = "get" /\ Goto(c, "refresh") /\ UNCHANGED lock
           \/ call[c].pc = "refresh" /\ Goto(c, "fetch") /\ lock' = c
    PROVE  OutboundInv'
<1>. PICK pc \in {"refresh", "fetch"} :
        /\ Goto(c, pc) /\ call[c].pc \in {"get", "refresh"}
        /\ lock' = IF pc = "fetch" THEN c ELSE lock
  BY Zenon
<1>. DEFINE s == [call[c] EXCEPT !.pc = pc]
<1>1. TypeOK /\ call[c] \in CallState
  BY CallFacts DEF OutboundInv
<1>2. Moves(c, s)
  BY Zenon, <1>1, GotoMoves
<1>3. /\ s \in CallState /\ s.pc = pc /\ s.attempt = call[c].attempt
      /\ s.token = call[c].token /\ s.refused = call[c].refused /\ s.result = call[c].result
  BY <1>1 DEF CallState
<1>. HIDE DEF s
<1>4. RestTyped /\ Counters' /\ (Valid' <=> Valid)
  <2>1. lock' \in Callers \cup {"free"}
    BY <1>1 DEF TypeOK
  <2>. QED  BY <2>1, QuietStep
<1>5. LockMove(c, s)
  BY <1>3, <1>4 DEF LockMove
<1>6. TokenMove(c, s)
  BY <1>3, CallFacts DEF TokenMove
<1>7. ResultMove(s)
  BY <1>3, CallFacts DEF ResultMove
<1>. QED  BY <1>2, <1>3, <1>4, <1>5, <1>6, <1>7, CallStep

LEMMA CacheStep ==
    ASSUME OutboundInv, NEW c \in Callers, GetToken(c) \/ Refresh(c)
    PROVE  OutboundInv'
<1>1. CASE Valid
  <2>1. /\ call[c].pc \in {"get", "refresh"}
        /\ call' = [call EXCEPT ![c] = WithToken(c, cache.token)]
        /\ UNCHANGED <<client, cache, lock, breaker, issued, revoked, bodies, history, Bounds>>
    BY <1>1 DEF GetToken, Refresh
  <2>. QED  BY Zenon, <1>1, <2>1, CachedStep
<1>2. CASE ~Valid
  <2>1. /\ lock = "free"
        /\ UNCHANGED <<client, cache, breaker, issued, revoked, bodies, history, Bounds>>
    BY <1>2 DEF GetToken, Refresh
  <2>2. CASE GetToken(c)
    <3>1. call' = [call EXCEPT ![c] = [call[c] EXCEPT !.pc = "refresh"]]
      BY <1>2, <2>2 DEF GetToken
    <3>2. call[c].pc = "get" /\ Goto(c, "refresh") /\ UNCHANGED lock
      BY Zenon, <2>2, <3>1 DEF GetToken, Goto
    <3>. QED  BY <1>2, <2>1, <3>2, MissStep
  <2>3. CASE Refresh(c)
    <3>1. call[c].pc = "refresh" /\ Goto(c, "fetch") /\ lock' = c
      BY <1>2, <2>3 DEF Refresh
    <3>. QED  BY <1>2, <2>1, <3>1, MissStep
  <2>. QED  BY <2>2, <2>3
<1>. QED  BY <1>1, <1>2

\* The answer's lifetime is a number of ticks.
LEMMA LifetimeType == ASSUME NEW a \in Answers PROVE Lifetime(a) \in Int
<1>1. a.ticks \in Int /\ DefaultLifetime \in Int /\ Margin \in Int
  BY OutboundConstants
<1>. QED  BY <1>1 DEF Lifetime, OAuth2Lifetime, ParseExpirationTime

\* A fetched token pays for the one that was gone.
LEMMA FetchStep ==
    ASSUME OutboundInv, NEW c \in Callers, FetchToken(c)
    PROVE  OutboundInv'
<1>. DEFINE s == WithToken(c, issued + 1)
<1>1. TypeOK /\ issued \in Nat /\ issued + 1 \in Nat
  BY Types DEF OutboundInv
<1>2. /\ s \in CallState /\ s.pc = "send" /\ s.token = issued + 1
      /\ s.attempt = call[c].attempt /\ s.refused = call[c].refused /\ s.result = call[c].result
  BY <1>1, WithTokenFields
<1>3. /\ call' = [call EXCEPT ![c] = s] /\ issued' = issued + 1 /\ lock' = "free"
      /\ call[c].pc = "fetch"
      /\ UNCHANGED <<client, breaker, revoked, bodies, Bounds>>
  BY DEF FetchToken
<1>4. PICK a \in Answers :
         /\ cache' = [token |-> issued', left |-> Lifetime(a) - RefreshBuffer]
         /\ history' = [history EXCEPT !.fetches = @ + 1,
                                       !.causes = @ + IF cache'.left <= 0 THEN 1 ELSE 0]
  BY DEF FetchToken
<1>. HIDE DEF s
<1>5. Moves(c, s)
  BY Zenon, <1>1, <1>2, <1>3, MovesPlainly
<1>6. cache' \in [token : Nat, left : Int] /\ cache'.token = issued + 1 /\ cache'.left \in Int
  BY <1>1, <1>3, <1>4, LifetimeType, OutboundConstants
<1>7. /\ history' \in Histories /\ history'.dropped = history.dropped
      /\ history'.broken = history.broken /\ history'.fetches = history.fetches + 1
      /\ history'.causes = history.causes + IF cache'.left <= 0 THEN 1 ELSE 0
  <2>1. history \in Histories /\ history.fetches \in Nat /\ history.causes \in Nat
    BY <1>1 DEF TypeOK, Histories
  <2>2. ASSUME NEW n \in Nat, NEW m \in Nat,
               history' = [history EXCEPT !.fetches = n, !.causes = m]
        PROVE  /\ history' \in Histories /\ history'.dropped = history.dropped
               /\ history'.broken = history.broken /\ history'.fetches = n
               /\ history'.causes = m
    BY Zenon, <2>1, <2>2 DEF Histories
  <2>3. /\ history.fetches + 1 \in Nat
        /\ history.causes + (IF cache'.left <= 0 THEN 1 ELSE 0) \in Nat
    BY <2>1
  <2>. QED  BY Zenon, <1>4, <2>2, <2>3
<1>8. RestTyped
  <2>1. faults' \in 0..MaxFaults /\ revocations' \in 0..MaxRevocations /\ ticks' \in 0..MaxTicks
    BY <1>1, <1>3, Bounded
  <2>2. revoked' \in 0..issued'
    BY <1>1, <1>3 DEF TypeOK
  <2>. QED  BY <1>1, <1>3, <1>6, <1>7, <2>1, <2>2 DEF RestTyped, TypeOK, Breakers
<1>9. Counters'
  <2>1. ~Valid
    BY <1>3 DEF OutboundInv, FetchingMeansInvalid
  <2>2. history.fetches <= history.causes /\ history.fetches \in Nat /\ history.causes \in Nat
    BY <1>1, <2>1, Types DEF OutboundInv, FetchesPaid
  <2>3. Valid' <=> cache'.left > 0
    BY <1>1, <1>6 DEF Valid
  <2>4. FetchesPaid'
    BY <1>6, <1>7, <2>2, <2>3 DEF FetchesPaid
  <2>. QED  BY <1>3, <1>7, <2>4 DEF OutboundInv, Counters, FailuresCounted,
                                    BreakerTripsOnServerFailures, OnlyDroppedBodiesLeak
<1>10. LockMove(c, s)
  BY <1>2, <1>3 DEF LockMove
<1>11. TokenMove(c, s)
  BY <1>1, <1>2, <1>3, <1>6, CallFacts DEF TokenMove
<1>12. ResultMove(s)
  BY Zenon, <1>2, <1>3, CallFacts DEF ResultMove
<1>. QED  BY <1>2, <1>5, <1>8, <1>9, <1>10, <1>11, <1>12, CallStep

\* A failed fetch gives the lock back.
LEMMA FetchFailsStep ==
    ASSUME OutboundInv, NEW c \in Callers, FetchFails(c)
    PROVE  OutboundInv'
<1>. DEFINE s == TokenError(c)
<1>1. TypeOK
  BY DEF OutboundInv
<1>2. /\ s \in CallState /\ s.attempt < client.retryMax
      /\ s.token = call[c].token /\ s.refused = call[c].refused
      /\ \/ s.pc = "wait" /\ s.result = call[c].result
         \/ s.pc = "done" /\ s.result = "error"
  BY <1>1, TokenErrorFields
<1>3. call' = [call EXCEPT ![c] = s] /\ lock' = "free" /\ call[c].pc = "fetch"
  BY DEF FetchFails
<1>. HIDE DEF s
<1>4. Moves(c, s)
  BY Zenon, <1>1, <1>2, <1>3, MovesPlainly
<1>5. RestTyped /\ Counters' /\ (Valid' <=> Valid)
  BY <1>3, QuietStep DEF FetchFails
<1>6. UNCHANGED <<cache, issued>>
  BY DEF FetchFails
<1>7. LockMove(c, s)
  BY <1>2, <1>3 DEF LockMove
<1>8. TokenMove(c, s)
  BY <1>2, <1>3, <1>6, CallFacts DEF TokenMove
<1>9. ResultMove(s)
  BY <1>2, <1>3, CallFacts DEF ResultMove
<1>. QED  BY <1>2, <1>4, <1>5, <1>7, <1>8, <1>9, CallStep

\* Clearing a usable token is the cause of the next fetch.
LEMMA InvalidateStep ==
    ASSUME OutboundInv, NEW c \in Callers, Invalidate(c)
    PROVE  OutboundInv'
<1>. DEFINE s == Continue(c)
<1>1. TypeOK
  BY DEF OutboundInv
<1>2. /\ s \in CallState /\ s.attempt < client.retryMax
      /\ s.token = call[c].token /\ s.refused = call[c].refused
      /\ \/ s.pc = "wait" /\ s.result = call[c].result
         \/ s.pc = "done" /\ s.result = "error"
  BY <1>1, ContinueFields
<1>3. /\ call' = [call EXCEPT ![c] = s] /\ lock' = lock /\ call[c].pc = "invalidate"
      /\ cache' = EmptyCache /\ UNCHANGED <<client, lock, breaker, issued, revoked, bodies, Bounds>>
      /\ history' = [history EXCEPT !.causes = @ + IF Valid THEN 1 ELSE 0]
  BY DEF Invalidate
<1>. HIDE DEF s
<1>4. Moves(c, s)
  BY Zenon, <1>1, <1>2, <1>3, MovesPlainly
<1>5. cache' \in [token : Nat, left : Int] /\ cache'.token = 0 /\ ~Valid'
  BY <1>3 DEF EmptyCache, Valid
<1>6. /\ history' \in Histories /\ history'.dropped = history.dropped
      /\ history'.broken = history.broken /\ history'.fetches = history.fetches
      /\ history'.causes = history.causes + IF Valid THEN 1 ELSE 0
  BY <1>1, <1>3 DEF TypeOK, Histories
<1>7. RestTyped
  BY <1>1, <1>3, <1>5, <1>6, Bounded DEF RestTyped, TypeOK, Breakers
<1>8. Counters'
  <2>1. FetchesPaid'
    BY <1>1, <1>5, <1>6, Types DEF OutboundInv, FetchesPaid
  <2>. QED  BY <1>3, <1>6, <2>1 DEF OutboundInv, Counters, FailuresCounted,
                                    BreakerTripsOnServerFailures, OnlyDroppedBodiesLeak
<1>9. LockMove(c, s)
  BY <1>2, <1>3, <1>5 DEF LockMove
<1>10. TokenMove(c, s)
  BY <1>2, <1>3, <1>5, CallFacts DEF TokenMove
<1>11. ResultMove(s)
  BY <1>2, <1>3, CallFacts DEF ResultMove
<1>. QED  BY <1>2, <1>4, <1>7, <1>8, <1>9, <1>10, <1>11, CallStep

\* The request is sent, or the breaker refuses it.
LEMMA SendStep ==
    ASSUME OutboundInv, NEW c \in Callers, Send(c)
    PROVE  OutboundInv'
<1>1. TypeOK /\ call[c].pc = "send"
  BY DEF OutboundInv, Send
<1>2. /\ UNCHANGED <<client, cache, lock, issued, revoked, bodies, history, Bounds>>
      /\ lock' \in Callers \cup {"free"}
  BY <1>1 DEF Send, TypeOK
<1>3. CASE Refuses
  <2>. DEFINE s == Return(c, "open")
  <2>1. /\ s \in CallState /\ s.pc = "done" /\ s.result = "open" /\ s.attempt = call[c].attempt
        /\ s.token = call[c].token /\ s.refused = call[c].refused
    BY <1>1, ReturnFields
  <2>2. call' = [call EXCEPT ![c] = s] /\ UNCHANGED breaker
    BY <1>3 DEF Send
  <2>. HIDE DEF s
  <2>3. Moves(c, s)
    BY Zenon, <1>1, <2>1, <2>2, MovesPlainly
  <2>4. RestTyped /\ Counters' /\ (Valid' <=> Valid)
    BY <1>2, <2>2, QuietStep
  <2>5. ResultMove(s)
    BY <2>1, CallFacts DEF ResultMove
  <2>. QED  BY <1>1, <1>2, <2>1, <2>3, <2>4, <2>5, LoopStep
<1>4. CASE ~Refuses
  <2>. DEFINE s == [call[c] EXCEPT !.pc = "flight", !.counted = TRUE]
  <2>1. /\ s \in CallState /\ s.pc = "flight" /\ s.result = call[c].result
        /\ s.attempt = call[c].attempt /\ s.token = call[c].token /\ s.refused = call[c].refused
    <3>1. call[c] \in CallState
      BY CallFacts
    <3>2. \A x \in CallState :
             LET u == [x EXCEPT !.pc = "flight", !.counted = TRUE]
             IN  /\ u \in CallState /\ u.pc = "flight" /\ u.result = x.result
                 /\ u.attempt = x.attempt /\ u.token = x.token /\ u.refused = x.refused
      BY Zenon DEF CallState
    <3>. QED  BY Zenon, <3>1, <3>2
  <2>2. call' = [call EXCEPT ![c] = s]
    BY Zenon, <1>1, <1>4 DEF Send, TypeOK
  <2>3. /\ breaker' \in Breakers /\ breaker'.failures = breaker.failures
        /\ breaker'.state = breaker.state
    <3>1. breaker \in Breakers /\ MaxRequests \in Nat
      BY <1>1, OutboundConstants DEF TypeOK, Breakers
    <3>2. breaker' = IF client.breaker THEN Capped([breaker EXCEPT !.requests = @ + 1])
                     ELSE breaker
      BY <1>4 DEF Send
    <3>3. [breaker EXCEPT !.requests = @ + 1] \in Breakers
      BY <3>1 DEF Breakers
    <3>4. \A b \in Breakers : /\ Capped(b) \in Breakers /\ Capped(b).failures = b.failures
                              /\ Capped(b).state = b.state
      BY Zenon, <3>1 DEF Capped, Breakers
    <3>5. /\ [breaker EXCEPT !.requests = @ + 1].failures = breaker.failures
          /\ [breaker EXCEPT !.requests = @ + 1].state = breaker.state
      BY <3>1 DEF Breakers
    <3>. QED  BY Zenon, <3>1, <3>2, <3>3, <3>4, <3>5
  <2>. HIDE DEF s
  <2>4. Moves(c, s)
    BY Zenon, <1>1, <2>1, <2>2, MovesPlainly
  <2>5. RestTyped
    BY <1>1, <1>2, <2>3, Bounded DEF RestTyped, TypeOK, Histories
  <2>6. (Valid' <=> Valid) /\ Counters'
    <3>1. Valid' <=> Valid
      BY <1>2 DEF Valid
    <3>2. FetchesPaid'
      BY <1>2, <3>1 DEF OutboundInv, FetchesPaid
    <3>3. (FailuresCounted /\ BreakerTripsOnServerFailures /\ OnlyDroppedBodiesLeak)'
      BY <1>2, <2>3 DEF OutboundInv, FailuresCounted, BreakerTripsOnServerFailures,
                        OnlyDroppedBodiesLeak
    <3>. QED  BY <3>1, <3>2, <3>3 DEF Counters
  <2>7. ResultMove(s)
    BY <1>1, <2>1, CallFacts DEF ResultMove
  <2>. QED  BY <1>1, <1>2, <2>1, <2>4, <2>5, <2>6, <2>7, LoopStep
<1>. QED  BY <1>3, <1>4

\* A request that failed: the loop goes on or gives up.
LEMMA FailedStep ==
    ASSUME OutboundInv, NEW c \in Callers, TransportError(c) \/ ServerError(c)
    PROVE  OutboundInv'
<1>. DEFINE s == Continue(c)
<1>1. TypeOK /\ call[c].pc = "flight"
  BY Zenon DEF OutboundInv, TransportError, ServerError
<1>2. /\ s \in CallState /\ s.attempt < client.retryMax
      /\ s.token = call[c].token /\ s.refused = call[c].refused
      /\ \/ s.pc = "wait" /\ s.result = call[c].result
         \/ s.pc = "done" /\ s.result = "error"
  BY Zenon, <1>1, ContinueFields
<1>3. /\ call' = Recount([call EXCEPT ![c] = s]) /\ breaker' = Outcome(c, TRUE)
      /\ UNCHANGED <<client, cache, lock, issued, revoked, revocations, ticks>>
  BY Zenon DEF TransportError, ServerError, Fault
<1>. HIDE DEF s
<1>4. Moves(c, s)
  BY Zenon, <1>1, <1>2, <1>3, MovesRecounted
<1>5. /\ history \in Histories /\ history.dropped \in Nat /\ history.broken \in Nat
      /\ bodies \in Nat /\ bodies = history.dropped /\ faults \in 0..MaxFaults
  BY Zenon, <1>1, Types DEF OutboundInv, TypeOK, Histories, OnlyDroppedBodiesLeak
<1>6. /\ history' \in Histories /\ bodies' \in Nat /\ faults' \in 0..MaxFaults
      /\ history'.fetches = history.fetches /\ history'.causes = history.causes
      /\ history'.broken = history.broken + 1 /\ bodies' = history'.dropped
  <2>1. CASE TransportError(c)
    <3>1. history' = [history EXCEPT !.broken = @ + 1] /\ bodies' = bodies
      BY <2>1 DEF TransportError
    <3>2. faults' \in 0..MaxFaults
      BY <1>5, <2>1, OutboundConstants DEF TransportError, Fault
    <3>. QED  BY <1>5, <3>1, <3>2 DEF Histories
  <2>2. CASE ServerError(c)
    <3>1. PICK status \in Statuses(c) :
             /\ FailureStatus(status)
             /\ history' = [history EXCEPT !.dropped = @ + 1,
                                           !.broken = @ + IF status = "5xx" THEN 1 ELSE 0]
             /\ faults' = faults + IF status = "5xx" THEN 1 ELSE 0
      BY Zenon, <2>2 DEF ServerError
    <3>2. status = "5xx" /\ faults < MaxFaults /\ bodies' = bodies + 1
      BY Zenon, <2>2, <3>1 DEF FailureStatus, Statuses, ServerError
    <3>3. history.dropped + 1 \in Nat /\ history.broken + 1 \in Nat
      BY <1>5
    <3>. PICK n \in Nat, m \in Nat : n = history.dropped + 1 /\ m = history.broken + 1
      BY <3>3
    <3>4. history' = [history EXCEPT !.dropped = n, !.broken = m]
      BY <3>1, <3>2
    <3>5. /\ history' \in Histories /\ history'.fetches = history.fetches
          /\ history'.causes = history.causes /\ history'.dropped = history.dropped + 1
          /\ history'.broken = history.broken + 1
      BY <1>5, <3>4 DEF Histories
    <3>6. faults' \in 0..MaxFaults
      BY <1>5, <3>1, <3>2, OutboundConstants
    <3>. QED  BY <1>5, <3>2, <3>5, <3>6
  <2>. QED  BY <2>1, <2>2
<1>7. RestTyped /\ Counters' /\ (Valid' <=> Valid)
  BY Zenon, <1>3, <1>6, OutcomeStep
<1>8. ResultMove(s)
  BY <1>1, <1>2, CallFacts DEF ResultMove
<1>. QED  BY Zenon, <1>1, <1>2, <1>3, <1>4, <1>7, <1>8, LoopStep

\* A response: a 401 that may be retried sends the call to handle401.
LEMMA ResponseStep ==
    ASSUME OutboundInv, NEW c \in Callers, Response(c) \/ ResponseHookFails(c)
    PROVE  OutboundInv'
<1>1. TypeOK /\ call[c].pc = "flight"
  BY Zenon DEF OutboundInv, Response, ResponseHookFails
<1>2. /\ breaker' = Outcome(c, FALSE)
      /\ UNCHANGED <<client, cache, lock, issued, revoked, bodies, history, revocations, ticks>>
  BY Zenon DEF Response, ResponseHookFails, Fault, BodiesAfter
<1>3. faults' \in 0..MaxFaults
  <2>1. faults \in 0..MaxFaults
    BY <1>1 DEF TypeOK
  <2>2. CASE ResponseHookFails(c)
    BY <2>1, <2>2, OutboundConstants DEF ResponseHookFails, Fault
  <2>3. CASE Response(c)
    <3>1. PICK status \in Statuses(c) : faults' = faults + IF status = "5xx" THEN 1 ELSE 0
      BY <2>3 DEF Response
    <3>2. status = "5xx" => faults < MaxFaults
      BY DEF Statuses
    <3>. QED  BY <2>1, <3>1, <3>2, OutboundConstants
  <2>. QED  BY <2>2, <2>3
<1>4. RestTyped /\ Counters' /\ (Valid' <=> Valid)
  <2>1. /\ history' \in Histories /\ bodies' \in Nat /\ bodies' = history'.dropped
        /\ history.broken \in Nat
    BY <1>1, <1>2 DEF OutboundInv, TypeOK, Histories, OnlyDroppedBodiesLeak
  <2>2. history'.broken = history.broken + 0
    BY <1>2, <2>1
  <2>. QED  BY Zenon, <1>2, <1>3, <2>1, <2>2, OutcomeStep
<1>5. ASSUME NEW r \in {"ok", "status_error", "401", "error"},
             call' = Recount([call EXCEPT ![c] = Return(c, r)]),
             r = "401" => client.provider = "none" \/ call[c].attempt = client.retryMax - 1
      PROVE  OutboundInv'
  <2>. DEFINE s == Return(c, r)
  <2>1. /\ s \in CallState /\ s.pc = "done" /\ s.result = r /\ s.attempt = call[c].attempt
        /\ s.token = call[c].token /\ s.refused = call[c].refused
    BY <1>1, ReturnFields
  <2>2. call' = Recount([call EXCEPT ![c] = s])
    BY <1>5
  <2>. HIDE DEF s
  <2>3. Moves(c, s)
    BY Zenon, <1>1, <2>1, <2>2, MovesRecounted
  <2>4. ResultMove(s)
    BY <1>5, <2>1, CallFacts DEF ResultMove
  <2>. QED  BY <1>1, <1>2, <1>4, <2>1, <2>3, <2>4, LoopStep
<1>6. CASE ResponseHookFails(c)
  <2>1. call' = Recount([call EXCEPT ![c] = Return(c, "error")])
    BY <1>6 DEF ResponseHookFails
  <2>. QED  BY <1>5, <2>1
<1>7. CASE Response(c)
  <2>1. PICK status \in Statuses(c) :
           call' = Recount([call EXCEPT ![c] =
              IF ShouldRetryOn401(c, status)
              THEN [call[c] EXCEPT !.pc = "invalidate", !.refused = call[c].token]
              ELSE Return(c, IF status = "401" THEN "401" ELSE DoJSON(status))])
    BY Zenon, <1>7 DEF Response
  <2>2. CASE ShouldRetryOn401(c, status)
    <3>. DEFINE s == [call[c] EXCEPT !.pc = "invalidate", !.refused = call[c].token]
    <3>1. /\ s \in CallState /\ s.pc = "invalidate" /\ s.result = call[c].result
          /\ s.attempt = call[c].attempt /\ s.token = call[c].token
          /\ s.refused = call[c].token
      <4>1. call[c] \in CallState
        BY CallFacts
      <4>2. \A x \in CallState :
               LET u == [x EXCEPT !.pc = "invalidate", !.refused = x.token]
               IN  /\ u \in CallState /\ u.pc = "invalidate" /\ u.result = x.result
                   /\ u.attempt = x.attempt /\ u.token = x.token /\ u.refused = x.token
        BY Zenon DEF CallState
      <4>. QED  BY Zenon, <4>1, <4>2
    <3>2. call' = Recount([call EXCEPT ![c] = s])
      BY <2>1, <2>2
    <3>3. client.provider # "none"
      BY <2>2 DEF ShouldRetryOn401
    <3>. HIDE DEF s
    <3>4. Moves(c, s)
      BY <1>1, <3>1, <3>2, MovesRecounted
    <3>5. LockMove(c, s)
      BY <1>1, <1>2, <1>4, <3>1 DEF LockMove
    <3>6. TokenMove(c, s)
      <4>1. /\ call[c].token <= issued /\ cache.token <= issued
            /\ issued \in Nat /\ cache' = cache /\ issued' = issued
        BY <1>2, CallFacts
      <4>. QED  BY <3>1, <3>3, <4>1 DEF TokenMove
    <3>7. ResultMove(s)
      BY <1>1, <3>1, CallFacts DEF ResultMove
    <3>. QED  BY <1>4, <3>1, <3>4, <3>5, <3>6, <3>7, CallStep
  <2>3. CASE ~ShouldRetryOn401(c, status)
    <3>. DEFINE r == IF status = "401" THEN "401" ELSE DoJSON(status)
    <3>1. call' = Recount([call EXCEPT ![c] = Return(c, r)])
      BY <2>1, <2>3
    <3>2. r \in {"ok", "status_error", "401", "error"} /\ (r = "401" => status = "401")
      BY DEF DoJSON
    <3>. HIDE DEF r
    <3>3. r = "401" => client.provider = "none" \/ call[c].attempt = client.retryMax - 1
      <4>1. call[c].attempt \in Nat /\ client.retryMax \in Nat /\ call[c].attempt < client.retryMax
        BY <1>1, Types, CallFields
      <4>2. call[c].attempt < client.retryMax - 1 \/ call[c].attempt = client.retryMax - 1
        BY <4>1
      <4>. QED  BY <2>3, <3>2, <4>2 DEF ShouldRetryOn401
    <3>. QED  BY Zenon, <1>5, <3>1, <3>2, <3>3
  <2>. QED  BY <2>2, <2>3
<1>. QED  BY <1>6, <1>7

\* The breaker's timers forget counts; they never open it.
LEMMA TimerStep ==
    ASSUME OutboundInv, BreakerTimer
    PROVE  OutboundInv'
<1>1. TypeOK /\ call \in [Callers -> CallState]
  BY DEF OutboundInv, TypeOK
<1>2. UNCHANGED <<client, cache, lock, issued, revoked, bodies, history, Bounds>>
  BY DEF BreakerTimer
<1>3. /\ call' \in [Callers -> CallState]
      /\ \A d \in Callers : Same(call'[d], call[d])
  BY Zenon, <1>1 DEF BreakerTimer, CallState, Same
<1>4. /\ breaker' \in Breakers /\ breaker'.failures <= history.broken
      /\ breaker'.state # "closed" => breaker.state # "closed"
  <2>1. history.broken \in Nat /\ breaker.failures <= history.broken /\ breaker \in Breakers
    BY <1>1 DEF OutboundInv, TypeOK, FailuresCounted, Breakers
  <2>2. /\ Closed \in Breakers /\ Closed.failures = 0 /\ Closed.state = "closed"
        /\ [Closed EXCEPT !.state = "half-open"] \in Breakers
        /\ [Closed EXCEPT !.state = "half-open"].failures = 0
    BY DEF Closed, Breakers
  <2>3. CASE breaker.state = "open"
    <3>1. breaker' = [Closed EXCEPT !.state = "half-open"]
      BY <2>3 DEF BreakerTimer
    <3>. QED  BY <2>1, <2>2, <2>3, <3>1
  <2>4. CASE breaker.state = "closed"
    <3>1. breaker' = Closed
      BY <2>4 DEF BreakerTimer
    <3>. QED  BY <2>1, <2>2, <3>1
  <2>5. CASE breaker.state \notin {"open", "closed"}
    <3>1. breaker' = breaker
      BY <2>5 DEF BreakerTimer
    <3>. QED  BY <2>1, <3>1
  <2>. QED  BY <2>3, <2>4, <2>5
<1>5. TypeOK'
  <2>1. \A d \in Callers : call'[d].attempt < client'.retryMax
    BY <1>1, <1>2, <1>3, Types DEF Same
  <2>. QED  BY <1>1, <1>2, <1>3, <1>4, <2>1 DEF TypeOK, Breakers, Bounds
<1>6. Valid' <=> Valid
  BY <1>2 DEF Valid
<1>7. (LockMeansFetching /\ FetchingMeansInvalid)'
  BY <1>2, <1>3, <1>6 DEF OutboundInv, Same, LockMeansFetching, FetchingMeansInvalid
<1>8. (RefusedIsGone /\ RefusedNotReused)'
  BY <1>2, <1>3 DEF OutboundInv, Same, RefusedIsGone, RefusedNotReused
<1>9. (FetchesPaid /\ FailuresCounted /\ BreakerTripsOnServerFailures /\ OnlyDroppedBodiesLeak)'
  BY <1>2, <1>4, <1>6 DEF OutboundInv, FetchesPaid, FailuresCounted,
                          BreakerTripsOnServerFailures, OnlyDroppedBodiesLeak
<1>10. (ResultsAreFinal /\ UnauthorizedIsFinal)'
  BY <1>2, <1>3 DEF OutboundInv, Same, ResultsAreFinal, UnauthorizedIsFinal
<1>. QED  BY <1>5, <1>7, <1>8, <1>9, <1>10 DEF OutboundInv

\* Revoking a token and the passing of time touch no call; a token whose time
\* runs out is the cause of the next fetch.
LEMMA EnvironmentStep ==
    ASSUME OutboundInv, Revoke \/ Tick
    PROVE  OutboundInv'
<1>1. TypeOK /\ cache.token \in Nat /\ cache.left \in Int /\ issued \in Nat
  BY Types DEF OutboundInv
<1>2. UNCHANGED <<client, lock, call, breaker, issued, bodies>>
  BY DEF Revoke, Tick
<1>3. /\ cache' \in [token : Nat, left : Int] /\ cache'.token = cache.token
      /\ Valid' => Valid
      /\ history' \in Histories /\ history'.dropped = history.dropped
      /\ history'.broken = history.broken /\ FetchesPaid'
  <2>1. CASE Revoke
    <3>1. cache' = cache /\ history' = history /\ ~Tick
      BY <1>1, <2>1 DEF Revoke, Tick, TypeOK
    <3>2. Valid' <=> Valid
      BY <3>1 DEF Valid
    <3>. QED  BY <1>1, <3>1, <3>2 DEF TypeOK, Histories, OutboundInv, FetchesPaid
  <2>2. CASE Tick
    <3>1. cache' = [cache EXCEPT !.left = cache.left - 1] /\ lock = "free"
      BY <2>2 DEF Tick
    <3>2. /\ cache' \in [token : Nat, left : Int] /\ cache'.token = cache.token
          /\ cache'.left = cache.left - 1 /\ cache.token # 0
      BY <1>1, <2>2, <3>1 DEF TypeOK, Tick
    <3>3. history \in Histories /\ history.causes \in Nat /\ history.fetches \in Nat
      BY <1>1 DEF TypeOK, Histories
    <3>4. /\ history' \in Histories /\ history'.dropped = history.dropped
          /\ history'.broken = history.broken /\ history'.fetches = history.fetches
          /\ history'.causes = history.causes + IF cache.left = 1 THEN 1 ELSE 0
      BY <2>2, <3>3 DEF Tick, Histories
    <3>5. (Valid <=> cache.left > 0) /\ (Valid' <=> cache.left > 1)
      BY <1>1, <3>2 DEF Valid
    <3>6. FetchesPaid'
      BY <1>1, <3>3, <3>4, <3>5 DEF OutboundInv, FetchesPaid
    <3>. QED  BY <1>1, <3>1, <3>2, <3>4, <3>5, <3>6
  <2>. QED  BY Zenon, <2>1, <2>2
<1>4. TypeOK'
  <2>1. revoked' \in 0..issued'
    BY <1>1 DEF Revoke, Tick, TypeOK
  <2>2. faults' \in 0..MaxFaults /\ revocations' \in 0..MaxRevocations /\ ticks' \in 0..MaxTicks
    BY <1>1, OutboundConstants DEF Revoke, Tick, TypeOK
  <2>. QED  BY <1>1, <1>2, <1>3, <2>1, <2>2 DEF TypeOK, Histories
<1>5. (LockMeansFetching /\ FetchingMeansInvalid)'
  BY Zenon, <1>2, <1>3 DEF OutboundInv, LockMeansFetching, FetchingMeansInvalid
<1>6. (RefusedIsGone /\ RefusedNotReused)'
  BY <1>2, <1>3 DEF OutboundInv, RefusedIsGone, RefusedNotReused
<1>7. (FailuresCounted /\ BreakerTripsOnServerFailures /\ OnlyDroppedBodiesLeak)'
  BY <1>2, <1>3 DEF OutboundInv, FailuresCounted, BreakerTripsOnServerFailures,
                    OnlyDroppedBodiesLeak
<1>8. (ResultsAreFinal /\ UnauthorizedIsFinal)'
  BY <1>2 DEF OutboundInv, ResultsAreFinal, UnauthorizedIsFinal
<1>. QED  BY <1>3, <1>4, <1>5, <1>6, <1>7, <1>8 DEF OutboundInv

LEMMA InvInit == Init => OutboundInv
<1>. SUFFICES ASSUME Init PROVE OutboundInv
  OBVIOUS
<1>1. client \in [retryMax : Nat \ {0}, breaker : BOOLEAN, provider : Providers]
  <2>1. PICK o \in Options : client = [o EXCEPT !.retryMax = WithRetry(o.retryMax)]
    BY DEF Init
  <2>2. o \in [retryMax : Int, breaker : BOOLEAN, provider : Providers]
    BY OutboundConstants
  <2>3. WithRetry(o.retryMax) \in Nat \ {0}
    BY <2>2 DEF WithRetry
  <2>. QED  BY <2>1, <2>2, <2>3
<1>2. \A c \in Callers : call[c] = NoCall
  BY Zenon DEF Init
<1>3. NoCall \in CallState /\ NoCall.attempt = 0 /\ NoCall.pc = "idle" /\ NoCall.token = 0
      /\ NoCall.refused = 0 /\ NoCall.result = "none"
  BY DEF NoCall, CallState
<1>4. ~Valid
  BY DEF Valid, Init, EmptyCache
<1>5. TypeOK
  <2>1. call \in [Callers -> CallState] /\ \A c \in Callers : call[c].attempt < client.retryMax
    BY <1>1, <1>2, <1>3 DEF Init
  <2>2. cache \in [token : Nat, left : Int] /\ breaker \in Breakers
    BY DEF Init, EmptyCache, Closed, Breakers
  <2>3. /\ issued \in Nat /\ revoked \in 0..issued /\ bodies \in Nat /\ history \in Histories
        /\ faults \in 0..MaxFaults /\ revocations \in 0..MaxRevocations /\ ticks \in 0..MaxTicks
    BY OutboundConstants DEF Init, Histories
  <2>4. lock \in Callers \cup {"free"}
    BY DEF Init
  <2>. QED  BY <1>1, <2>1, <2>2, <2>3, <2>4 DEF TypeOK, Breakers, Histories
<1>6. LockMeansFetching /\ FetchingMeansInvalid
  BY <1>2, <1>3, OutboundConstants DEF Init, LockMeansFetching, FetchingMeansInvalid
<1>7. RefusedIsGone /\ RefusedNotReused
  BY <1>2, <1>3 DEF Init, EmptyCache, RefusedIsGone, RefusedNotReused
<1>8. /\ FetchesPaid /\ FailuresCounted /\ BreakerTripsOnServerFailures
      /\ OnlyDroppedBodiesLeak
  BY <1>4 DEF Init, Closed, FetchesPaid, FailuresCounted, BreakerTripsOnServerFailures,
              OnlyDroppedBodiesLeak
<1>9. ResultsAreFinal /\ UnauthorizedIsFinal
  BY <1>2, <1>3 DEF ResultsAreFinal, UnauthorizedIsFinal
<1>. QED  BY <1>5, <1>6, <1>7, <1>8, <1>9 DEF OutboundInv

LEMMA InvNext == OutboundInv /\ [Next]_vars => OutboundInv'
<1>. SUFFICES ASSUME OutboundInv, [Next]_vars PROVE OutboundInv'
  OBVIOUS
<1>1. ASSUME NEW c \in Callers, Progress(c) PROVE OutboundInv'
  BY <1>1, EnterStep, CacheStep, FetchStep, SendStep, ResponseStep, InvalidateStep, Zenon
     DEF Progress
<1>2. ASSUME NEW c \in Callers, Failure(c) PROVE OutboundInv'
  BY Zenon, <1>2, GiveUpStep, FetchFailsStep, FailedStep, ResponseStep, Zenon DEF Failure
<1>3. CASE UNCHANGED vars
  BY Zenon, <1>3 DEF vars, OutboundInv, TypeOK, LockMeansFetching, FetchingMeansInvalid, RefusedIsGone,
              RefusedNotReused, FetchesPaid, FailuresCounted, BreakerTripsOnServerFailures,
              OnlyDroppedBodiesLeak, ResultsAreFinal, UnauthorizedIsFinal, Valid
<1>4. CASE AllDone
  BY <1>3, <1>4 DEF AllDone
<1>. QED  BY <1>1, <1>2, <1>3, <1>4, TimerStep, EnvironmentStep, Zenon DEF Next

-----------------------------------------------------------------------------
(* The theorems.                                                           *)

\* The client keeps its invariant, whatever its callers, the server and the
\* token service do.
THEOREM OutboundInvariance == Spec => []OutboundInv
BY InvInit, InvNext, PTL DEF Spec

\* A token the server refused is never presented again by the same call.
THEOREM RefusedStaysRefused == Spec => []RefusedNotReused
<1>1. OutboundInv => RefusedNotReused
  BY DEF OutboundInv
<1>. QED  BY <1>1, OutboundInvariance, PTL

\* However many callers find the token gone, one fetch replaces it.
THEOREM NoStampede == Spec => []FetchesHaveACause
<1>1. OutboundInv => FetchesHaveACause
  <2>. SUFFICES ASSUME OutboundInv PROVE FetchesHaveACause
    OBVIOUS
  <2>1. history.fetches \in Nat /\ history.causes \in Nat
    BY Types DEF OutboundInv
  <2>. QED  BY <2>1 DEF OutboundInv, FetchesPaid, FetchesHaveACause
<1>. QED  BY <1>1, OutboundInvariance, PTL

\* Only failures of the transport or the server open the breaker.
THEOREM BreakerNeedsFailures == Spec => []BreakerTripsOnServerFailures
<1>1. OutboundInv => BreakerTripsOnServerFailures
  BY DEF OutboundInv
<1>. QED  BY <1>1, OutboundInvariance, PTL

\* A fetch that fails leaves no lock behind, and a 401 is the caller's business
\* only when the attempts are used up.
THEOREM FailuresLeaveNoTrace == Spec => [](LockMeansFetching /\ UnauthorizedIsFinal)
<1>1. OutboundInv => LockMeansFetching /\ UnauthorizedIsFinal
  BY DEF OutboundInv
<1>. QED  BY <1>1, OutboundInvariance, PTL
=============================================================================
