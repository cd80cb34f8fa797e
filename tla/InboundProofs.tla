---------------------------- MODULE InboundProofs ----------------------------
(* The theorems about Inbound, for every value of its constants: which     *)
(* tokens are rejected and accepted while keys rotate and endpoints fail,  *)
(* and for how long a retired key or a withdrawn approval still counts.    *)
EXTENDS Inbound, TLAPS

(***************************************************************************)
(* The invariant, request by request.                                      *)
(***************************************************************************)

\* What the invariant says of one request: it is at a stage it can be at, what
\* it has read is as fresh as it should be, and it was not rejected wrongly.
Orderly(s) ==
    /\ s \in Request
    /\ s.pc # "idle" => s.out = 0
    /\ s.pc = "load" => ~s.force

Fresh(s) ==
    /\ s.always \subseteq published
    /\ s.pc = "fetched" => s.always \subseteq s.set /\ \A k \in s.set : retired[k] <= 0
    /\ s.pc = "answered" /\ s.answer => denied = 0

FairlyRejected(s) ==
    s.out = 401 /\ s.token.kid # 0 /\ s.token.kid \in s.always
      /\ VerifyWithKey(s.token, s.token.kid) => s.failed

StaticServed(s) ==
    cfg.static /\ s.token.key = 0 /\ VerifyWithKey(s.token, 0)
      /\ s.token.use \in {"", "access", "service"} => s.out # 401

Sound(s) == Orderly(s) /\ Fresh(s) /\ FairlyRejected(s) /\ StaticServed(s)

\* What it says of everything but the requests.
Surroundings ==
    /\ cfg \in Configs
    /\ published \in SUBSET Keys /\ published # {}
    /\ retired \in [Keys -> Nat \cup {-1}]
    /\ keyset \in [keys : SUBSET Keys, left : -2..TTL]
    /\ url \in BOOLEAN /\ policy \in BOOLEAN /\ denied \in Nat
    /\ decision \in [allowed : BOOLEAN, left : Int]
    /\ arrivals \in 0..MaxRequests /\ ticks \in 0..MaxTicks /\ faults \in 0..MaxFaults
    /\ KeysAge
    /\ policy => denied = 0
    /\ decision.left >= 0 => decision.left <= DecisionTTL
    /\ decision.left >= 0 /\ decision.allowed => denied + decision.left <= DecisionTTL

Requests == DOMAIN req = Slots /\ req = [r \in Slots |-> req[r]] /\ \A r \in Slots : Sound(req[r])

\* The two parts are the invariant.
LEMMA Parts == InboundInv <=> Surroundings /\ Requests
<1>1. req \in [Slots -> Request] <=>
        DOMAIN req = Slots /\ req = [r \in Slots |-> req[r]] /\ \A r \in Slots : req[r] \in Request
  OBVIOUS
<1>2. /\ RequestsInOrder /\ (\A r \in Slots : req[r] \in Request) <=> \A r \in Slots : Orderly(req[r])
      /\ PublishedKeyNotRejected <=> \A r \in Slots : FairlyRejected(req[r])
      /\ StaticKeyAlwaysServes <=> \A r \in Slots : StaticServed(req[r])
  BY Zenon DEF RequestsInOrder, Orderly, PublishedKeyNotRejected, FairlyRejected,
               StaticKeyAlwaysServes, StaticServed
<1>3. FetchedIsFresh /\ (\A r \in Slots : req[r].pc = "answered" /\ req[r].answer => denied = 0)
        <=> \A r \in Slots : Fresh(req[r])
  BY Zenon DEF FetchedIsFresh, Fresh
<1>. QED  BY Zenon, <1>1, <1>2, <1>3 DEF InboundInv, TypeOK, ApprovalsAge, Surroundings, Requests, Sound

(***************************************************************************)
(* Updates of one field of a request.                                      *)
(***************************************************************************)

LEMMA SetPc ==
    ASSUME NEW s \in Request,
           NEW p \in {"idle", "load", "resolve", "fetch", "fetched", "authorize", "ask", "answered"}
    PROVE  LET u == [s EXCEPT !.pc = p] IN
           /\ u \in Request /\ u.pc = p /\ u.out = s.out /\ u.token = s.token
           /\ u.always = s.always /\ u.set = s.set /\ u.force = s.force
           /\ u.failed = s.failed /\ u.answer = s.answer
<1>1. [s EXCEPT !.pc = p] \in Request
  BY DEF Request
<1>. QED  BY <1>1 DEF Request

LEMMA SetSet ==
    ASSUME NEW s \in Request, NEW k \in SUBSET Keys
    PROVE  LET u == [s EXCEPT !.set = k] IN
           /\ u \in Request /\ u.pc = s.pc /\ u.out = s.out /\ u.token = s.token
           /\ u.always = s.always /\ u.set = k /\ u.force = s.force
           /\ u.failed = s.failed /\ u.answer = s.answer
<1>1. [s EXCEPT !.set = k] \in Request
  BY DEF Request
<1>. QED  BY <1>1 DEF Request

LEMMA SetAlways ==
    ASSUME NEW s \in Request, NEW k \in SUBSET Keys
    PROVE  LET u == [s EXCEPT !.always = k] IN
           /\ u \in Request /\ u.pc = s.pc /\ u.out = s.out /\ u.token = s.token
           /\ u.always = k /\ u.set = s.set /\ u.force = s.force
           /\ u.failed = s.failed /\ u.answer = s.answer
<1>1. [s EXCEPT !.always = k] \in Request
  BY DEF Request
<1>. QED  BY <1>1 DEF Request

LEMMA SetToken ==
    ASSUME NEW s \in Request, NEW t \in cfg.tokens
    PROVE  LET u == [s EXCEPT !.token = t] IN
           /\ u \in Request /\ u.pc = s.pc /\ u.out = s.out /\ u.token = t
           /\ u.always = s.always /\ u.set = s.set /\ u.force = s.force
           /\ u.failed = s.failed /\ u.answer = s.answer
<1>1. [s EXCEPT !.token = t] \in Request
  BY DEF Request
<1>. QED  BY <1>1 DEF Request

LEMMA SetForce ==
    ASSUME NEW s \in Request, NEW b \in BOOLEAN
    PROVE  LET u == [s EXCEPT !.force = b] IN
           /\ u \in Request /\ u.pc = s.pc /\ u.out = s.out /\ u.token = s.token
           /\ u.always = s.always /\ u.set = s.set /\ u.force = b
           /\ u.failed = s.failed /\ u.answer = s.answer
<1>1. [s EXCEPT !.force = b] \in Request
  BY DEF Request
<1>. QED  BY <1>1 DEF Request

LEMMA SetFailed ==
    ASSUME NEW s \in Request, NEW b \in BOOLEAN
    PROVE  LET u == [s EXCEPT !.failed = b] IN
           /\ u \in Request /\ u.pc = s.pc /\ u.out = s.out /\ u.token = s.token
           /\ u.always = s.always /\ u.set = s.set /\ u.force = s.force
           /\ u.failed = b /\ u.answer = s.answer
<1>1. [s EXCEPT !.failed = b] \in Request
  BY DEF Request
<1>. QED  BY <1>1 DEF Request

LEMMA SetAnswer ==
    ASSUME NEW s \in Request, NEW b \in BOOLEAN
    PROVE  LET u == [s EXCEPT !.answer = b] IN
           /\ u \in Request /\ u.pc = s.pc /\ u.out = s.out /\ u.token = s.token
           /\ u.always = s.always /\ u.set = s.set /\ u.force = s.force
           /\ u.failed = s.failed /\ u.answer = b
<1>1. [s EXCEPT !.answer = b] \in Request
  BY DEF Request
<1>. QED  BY <1>1 DEF Request

\* A request marked because a load failed for it, or left as it is.
LEMMA Marked ==
    ASSUME NEW v \in Request, NEW u, u = v \/ u = [v EXCEPT !.failed = TRUE]
    PROVE  /\ u \in Request /\ u.pc = v.pc /\ u.out = v.out /\ u.token = v.token
           /\ u.always = v.always /\ (u = v \/ u.failed)
<1>1. CASE u = v
  BY Zenon, <1>1
<1>2. CASE u = [v EXCEPT !.failed = TRUE]
  <2>1. \A b \in BOOLEAN : LET w == [v EXCEPT !.failed = b] IN
          /\ w \in Request /\ w.pc = v.pc /\ w.out = v.out /\ w.token = v.token
          /\ w.always = v.always /\ w.failed = b
    BY Zenon, SetFailed
  <2>2. TRUE \in BOOLEAN
    OBVIOUS
  <2>. QED  BY Zenon, <1>2, <2>1, <2>2
<1>. QED  BY Zenon, <1>1, <1>2

\* A finished request.
LEMMA FreeFields ==
    ASSUME Surroundings, NEW out \in {0, 200, 401, 403, 503}
    PROVE  LET u == Free(out) IN
           /\ u \in Request /\ u.pc = "idle" /\ u.out = out /\ u.always = {}
           /\ u.force = FALSE
<1>1. cfg.tokens # {}
  BY Zenon, InboundConstants DEF Surroundings
<1>2. (CHOOSE t \in cfg.tokens : TRUE) \in cfg.tokens
  BY <1>1
<1>3. ASSUME NEW b \in BOOLEAN, NEW t \in cfg.tokens
      PROVE  [pc |-> "idle", token |-> t, force |-> b, set |-> {}, always |-> {},
              failed |-> b, answer |-> b, out |-> out] \in Request
  BY DEF Request
<1>4. Free(out) \in Request
  BY Zenon, <1>2, <1>3 DEF Free
<1>5. Free(out).pc = "idle" /\ Free(out).out = out /\ Free(out).always = {}
  BY Zenon DEF Free
<1>6. Free(out).force = FALSE
  BY Zenon DEF Free
<1>. QED  BY Zenon, <1>4, <1>5, <1>6

(***************************************************************************)
(* Verification keeps the requests sound.                                  *)
(***************************************************************************)

\* A request that was not rejected was not rejected wrongly.
Unrejected(s) == s.out # 401

LEMMA NotRejected ==
    ASSUME NEW u, Unrejected(u)
    PROVE  FairlyRejected(u) /\ StaticServed(u)
  BY Zenon DEF Unrejected, FairlyRejected, StaticServed

\* A request that goes on, without a set in hand or an answer.
LEMMA UnderWay ==
    ASSUME NEW u \in Request, u.pc \in {"resolve", "fetch", "authorize", "ask"},
           u.out = 0, u.always \subseteq published
    PROVE  Sound(u)
<1>1. u.pc # "load" /\ u.pc # "fetched" /\ u.pc # "answered" /\ Unrejected(u)
  BY DEF Unrejected
<1>. QED  BY Zenon, <1>1, NotRejected DEF Sound, Orderly, Fresh

\* A request that has ended otherwise than with a 401.
LEMMA Ended ==
    ASSUME NEW u \in Request, u.pc = "idle", Unrejected(u), u.always \subseteq published
    PROVE  Sound(u)
<1>1. u.pc # "load" /\ u.pc # "fetched" /\ u.pc # "answered"
  OBVIOUS
<1>. QED  BY Zenon, <1>1, NotRejected DEF Sound, Orderly, Fresh

\* Verify rejects only a token that none of the keys it looked at verifies; u
\* is what becomes of the request, marked when a load failed for it.
LEMMA VerifySound ==
    ASSUME Surroundings, NEW r \in Slots, Sound(req[r]), req[r].pc # "idle",
           NEW keys \in SUBSET Keys, NEW u,
           \/ u = [Verify(r, keys) EXCEPT !.failed = TRUE]
           \/ /\ u = Verify(r, keys)
              /\ req[r].token.kid \in req[r].always => req[r].token.kid \in keys
    PROVE  Sound(u)
<1>. DEFINE s == req[r]
            v == Verify(r, keys)
<1>1. s \in Request /\ s.out = 0 /\ s.always \subseteq published
  BY Zenon DEF Sound, Orderly, Fresh
<1>4. u = v \/ u = [v EXCEPT !.failed = TRUE]
  BY Zenon
<1>. TRUE \in BOOLEAN /\ FALSE \in BOOLEAN /\ {} \in SUBSET Keys
  OBVIOUS
<1>2. CASE \E k \in WithStaticKey(keys) : VerifyWithKey(s.token, k)
  <2>1. v = [s EXCEPT !.pc = "authorize", !.set = {}, !.force = FALSE]
    BY Zenon, <1>2 DEF Verify
  <2>. DEFINE a == [s EXCEPT !.pc = "authorize"]
              b == [a EXCEPT !.set = {}]
  <2>2. a \in Request /\ a.pc = "authorize" /\ a.out = 0 /\ a.always = s.always
    BY Zenon, <1>1, SetPc
  <2>3. b \in Request /\ b.pc = "authorize" /\ b.out = 0 /\ b.always = s.always
    <3>. HIDE DEF a
    <3>. QED  BY Zenon, <2>2, SetSet
  <2>4. v = [b EXCEPT !.force = FALSE]
    BY Zenon, <2>1
  <2>. HIDE DEF a, b, v
  <2>5. v \in Request /\ v.pc = "authorize" /\ v.out = 0 /\ v.always = s.always
    BY Zenon, <2>3, <2>4, SetForce
  <2>6. u \in Request /\ u.pc = "authorize" /\ u.out = 0 /\ u.always = s.always
    BY Zenon, <1>4, <2>5, Marked
  <2>. QED  BY Zenon, <1>1, <2>6, UnderWay
<1>3. CASE ~ \E k \in WithStaticKey(keys) : VerifyWithKey(s.token, k)
  <2>1. v = [Free(401) EXCEPT !.token = s.token, !.always = s.always, !.failed = s.failed]
    BY Zenon, <1>3 DEF Verify
  <2>2. s.token \in cfg.tokens /\ s.always \in SUBSET Keys /\ s.failed \in BOOLEAN
    BY Zenon, <1>1 DEF Request
  <2>. DEFINE a == [Free(401) EXCEPT !.token = s.token]
              b == [a EXCEPT !.always = s.always]
  <2>3. Free(401) \in Request /\ Free(401).pc = "idle"
    BY FreeFields
  <2>4. a \in Request /\ a.pc = "idle" /\ a.token = s.token
    BY <2>2, <2>3, SetToken
  <2>5. b \in Request /\ b.pc = "idle" /\ b.token = s.token /\ b.always = s.always
    <3>. HIDE DEF a
    <3>. QED  BY <2>2, <2>4, SetAlways
  <2>6. v = [b EXCEPT !.failed = s.failed]
    BY Zenon, <2>1
  <2>. HIDE DEF a, b, v
  <2>7. v \in Request /\ v.pc = "idle" /\ v.token = s.token /\ v.always = s.always
    <3>1. ASSUME NEW z \in BOOLEAN
          PROVE  LET w == [b EXCEPT !.failed = z] IN
                 /\ w \in Request /\ w.pc = "idle" /\ w.token = s.token
                 /\ w.always = s.always
      BY <2>5, SetFailed
    <3>. QED  BY Zenon, <2>2, <2>6, <3>1
  <2>8. /\ u \in Request /\ u.pc = "idle" /\ u.token = s.token /\ u.always = s.always
        /\ u.failed \/ (s.token.kid \in s.always => s.token.kid \in keys)
    <3>1. u = v => (s.token.kid \in s.always => s.token.kid \in keys) \/ u.failed
      <4>1. CASE u = [v EXCEPT !.failed = TRUE]
        BY Zenon, <2>7, <4>1, SetFailed
      <4>2. CASE s.token.kid \in s.always => s.token.kid \in keys
        BY Zenon, <4>2
      <4>. QED  BY Zenon, <4>1, <4>2 DEF v
    <3>2. u \in Request /\ u.pc = v.pc /\ u.token = v.token /\ u.always = v.always
      BY <1>4, <2>7, Marked
    <3>3. u = v \/ u.failed
      BY Zenon, <1>4, <2>7, Marked
    <3>. QED  BY Zenon, <2>7, <3>1, <3>2, <3>3
  <2>9. s.token.kid \in keys => ~VerifyWithKey(s.token, s.token.kid)
    BY Zenon, <1>3 DEF WithStaticKey
  <2>10. cfg.static => ~VerifyWithKey(s.token, 0)
    BY Zenon, <1>3 DEF WithStaticKey
  <2>11. u.pc # "load" /\ u.pc # "fetched" /\ u.pc # "answered"
    BY Zenon, <2>8
  <2>12. Orderly(u) /\ Fresh(u)
    BY Zenon, <1>1, <2>8, <2>11 DEF Orderly, Fresh
  <2>13. FairlyRejected(u)
    BY Zenon, <2>8, <2>9 DEF FairlyRejected
  <2>14. StaticServed(u)
    BY Zenon, <2>8, <2>10 DEF StaticServed
  <2>. QED  BY Zenon, <2>12, <2>13, <2>14 DEF Sound
<1>. QED  BY Zenon, <1>2, <1>3

\* The lookup rejects a token only after a load of its own, whose set has every
\* key published throughout, or when that load failed.
LEMMA SelectSound ==
    ASSUME Surroundings, NEW r \in Slots, Sound(req[r]), req[r].pc # "idle",
           NEW keys \in SUBSET Keys, NEW u,
           \/ u = [SelectKeys(r, keys) EXCEPT !.failed = TRUE]
           \/ u = SelectKeys(r, keys) /\ (req[r].force => req[r].always \subseteq keys)
    PROVE  Sound(u)
<1>. DEFINE s == req[r]
            found == keys \cap {s.token.kid}
            v == SelectKeys(r, keys)
<1>1. s \in Request /\ s.out = 0 /\ s.always \subseteq published
  BY Zenon DEF Sound, Orderly, Fresh
<1>4. u = v \/ u = [v EXCEPT !.failed = TRUE]
  BY Zenon
<1>. TRUE \in BOOLEAN /\ {} \in SUBSET Keys
  OBVIOUS
<1>2. CASE found = {} /\ ~s.force
  <2>1. v = [s EXCEPT !.pc = "resolve", !.force = TRUE, !.set = {}]
    BY Zenon, <1>2 DEF SelectKeys
  <2>. DEFINE a == [s EXCEPT !.pc = "resolve"]
              b == [a EXCEPT !.force = TRUE]
  <2>2. a \in Request /\ a.pc = "resolve" /\ a.out = 0 /\ a.always = s.always
    BY Zenon, <1>1, SetPc
  <2>3. b \in Request /\ b.pc = "resolve" /\ b.out = 0 /\ b.always = s.always
    <3>. HIDE DEF a
    <3>. QED  BY Zenon, <2>2, SetForce
  <2>4. v = [b EXCEPT !.set = {}]
    BY Zenon, <2>1
  <2>. HIDE DEF a, b, v
  <2>5. v \in Request /\ v.pc = "resolve" /\ v.out = 0 /\ v.always = s.always
    BY Zenon, <2>3, <2>4, SetSet
  <2>6. u \in Request /\ u.pc = "resolve" /\ u.out = 0 /\ u.always = s.always
    BY Zenon, <1>4, <2>5, Marked
  <2>. QED  BY Zenon, <1>1, <2>6, UnderWay
<1>3. CASE ~(found = {} /\ ~s.force)
  <2>1. SelectKeys(r, keys) = Verify(r, found)
    BY Zenon, <1>3 DEF SelectKeys
  <2>2. found \in SUBSET Keys
    OBVIOUS
  <2>3. (s.force => s.always \subseteq keys) => (s.token.kid \in s.always => s.token.kid \in found)
    BY Zenon, <1>3
  <2>. HIDE DEF found, v
  <2>. QED  BY Zenon, <2>1, <2>2, <2>3, VerifySound
<1>. QED  BY Zenon, <1>2, <1>3

\* A failed load marks the request and goes on with what there is.
LEMMA FailingSound ==
    ASSUME Surroundings, NEW r \in Slots, Sound(req[r]), req[r].pc # "idle"
    PROVE  Sound(Failing(r))
<1>. DEFINE u == Failing(r)
<1>1. keyset.keys \in SUBSET Keys /\ {} \in SUBSET Keys
      /\ keyset.keys \cap {req[r].token.kid} \in SUBSET Keys
  BY Zenon DEF Surroundings
<1>2. \/ u = [Verify(r, {}) EXCEPT !.failed = TRUE]
      \/ u = [Verify(r, keyset.keys \cap {req[r].token.kid}) EXCEPT !.failed = TRUE]
      \/ u = [SelectKeys(r, keyset.keys) EXCEPT !.failed = TRUE]
  BY Zenon DEF Failing, StaleSnapshot
<1>. HIDE DEF u
<1>3. Sound(u)
  BY Zenon, <1>1, <1>2, VerifySound, SelectSound
<1>. QED  BY Zenon, <1>3 DEF u

(***************************************************************************)
(* The steps.                                                              *)
(***************************************************************************)

\* What is said of a request depends on the issuer and the policy only.
LEMMA SoundAfter ==
    ASSUME UNCHANGED <<cfg, published, retired, denied>>, NEW q \in Slots, NEW t, Sound(t),
           req'[q] = t
    PROVE  Sound(req[q])'
<1>1. (t \in Request)' <=> t \in Request
  BY Zenon DEF Request
<1>2. \A k : VerifyWithKey(t.token, k)' <=> VerifyWithKey(t.token, k)
  BY Zenon DEF VerifyWithKey, ValidateIssuer, ValidateAudience
<1>3. Orderly(req[q])'
  BY Zenon, <1>1 DEF Sound, Orderly
<1>4. Fresh(req[q])'
  BY Zenon DEF Sound, Fresh
<1>5. FairlyRejected(req[q])'
  BY Zenon, <1>2 DEF Sound, FairlyRejected, VerifyWithKey, ValidateIssuer, ValidateAudience
<1>6. StaticServed(req[q])'
  BY Zenon, <1>2 DEF Sound, StaticServed, VerifyWithKey, ValidateIssuer, ValidateAudience
<1>. QED  BY Zenon, <1>3, <1>4, <1>5, <1>6 DEF Sound

\* A step of one request that leaves the issuer and the policy alone.
LEMMA OneRequest ==
    ASSUME Requests, NEW r \in Slots, NEW s, Sound(s), req' = [req EXCEPT ![r] = s],
           UNCHANGED <<cfg, published, retired, denied>>
    PROVE  Requests'
<1>1. /\ DOMAIN req' = Slots /\ req' = [q \in Slots |-> req'[q]]
      /\ \A q \in Slots : req'[q] = IF q = r THEN s ELSE req[q]
  BY Zenon DEF Requests
<1>2. ASSUME NEW q \in Slots PROVE Sound(req[q])'
  <2>. PICK t : t = req'[q]
    OBVIOUS
  <2>1. Sound(t)
    BY Zenon, <1>1 DEF Requests
  <2>. QED  BY Zenon, <2>1, SoundAfter
<1>. QED  BY Zenon, <1>1, <1>2 DEF Requests

\* What surrounds the requests depends on the issuer, the policy and the caches.
LEMMA SurroundingsKept ==
    ASSUME Surroundings, UNCHANGED <<cfg, published, retired, keyset, policy, denied, decision, ticks>>,
           url' \in BOOLEAN, arrivals' \in 0..MaxRequests, faults' \in 0..MaxFaults
    PROVE  Surroundings'
  BY Zenon DEF Surroundings, KeysAge

LEMMA Bounds ==
    /\ TTL \in Nat /\ DecisionTTL \in Int
    /\ MaxRequests \in Nat /\ MaxTicks \in Nat /\ MaxFaults \in Nat
  BY Zenon, InboundConstants

\* One more request, or one more fault, within its bound.
LEMMA OneMore ==
    ASSUME Surroundings
    PROVE  /\ arrivals < MaxRequests => arrivals + 1 \in 0..MaxRequests
           /\ faults < MaxFaults => faults + 1 \in 0..MaxFaults
<1>1. arrivals \in 0..MaxRequests /\ faults \in 0..MaxFaults
  BY Zenon DEF Surroundings
<1>. QED  BY <1>1, Bounds

\* A step that changes one request and none of the caches.
LEMMA RequestOnly ==
    ASSUME Surroundings, Requests, NEW r \in Slots, NEW s, Sound(s), req' = [req EXCEPT ![r] = s],
           UNCHANGED <<cfg, published, retired, keyset, policy, denied, decision, ticks>>,
           url' \in BOOLEAN, arrivals' \in 0..MaxRequests, faults' \in 0..MaxFaults
    PROVE  Surroundings' /\ Requests'
<1>1. UNCHANGED <<cfg, published, retired, denied>>
  OBVIOUS
<1>. QED  BY Zenon, <1>1, OneRequest, SurroundingsKept

LEMMA ArriveStep ==
    ASSUME Surroundings, Requests, NEW r \in Slots, Arrive(r)
    PROVE  Surroundings' /\ Requests'
<1>0. PICK t \in cfg.tokens :
       req' = [req EXCEPT ![r] = [Free(0) EXCEPT !.pc = "load", !.token = t, !.always = published]]
  BY Zenon DEF Arrive
<1>. DEFINE a == [Free(0) EXCEPT !.pc = "load"]
            b == [a EXCEPT !.token = t]
            v == [b EXCEPT !.always = published]
<1>1. published \in SUBSET Keys
  BY Zenon DEF Surroundings
<1>2. a \in Request /\ a.pc = "load" /\ a.out = 0 /\ a.force = FALSE
  <2>1. Free(0) \in Request /\ Free(0).out = 0
    BY FreeFields
  <2>2. Free(0).force = FALSE
    BY Zenon DEF Free
  <2>. QED  BY Zenon, <2>1, <2>2, SetPc
<1>3. b \in Request /\ b.pc = "load" /\ b.out = 0 /\ b.force = FALSE
  <2>. HIDE DEF a
  <2>. QED  BY Zenon, <1>2, SetToken
<1>4. v \in Request /\ v.pc = "load" /\ v.out = 0 /\ v.force = FALSE /\ v.always = published
  <2>. HIDE DEF b
  <2>. QED  BY Zenon, <1>1, <1>3, SetAlways
<1>5. req' = [req EXCEPT ![r] = v]
  BY Zenon, <1>0
<1>. HIDE DEF v
<1>6. v.pc # "fetched" /\ v.pc # "answered" /\ Unrejected(v)
  BY <1>4 DEF Unrejected
<1>7. Sound(v)
  BY Zenon, <1>4, <1>6, NotRejected DEF Sound, Orderly, Fresh
<1>8. /\ UNCHANGED <<cfg, published, retired, keyset, policy, denied, decision, ticks>>
      /\ url' \in BOOLEAN /\ arrivals' \in 0..MaxRequests /\ faults' \in 0..MaxFaults
  BY Zenon, OneMore DEF Arrive, Surroundings
<1>. QED  BY Zenon, <1>5, <1>7, <1>8, RequestOnly

\* A request in flight moves on without a set in hand or an answer.
LEMMA MovesOn ==
    ASSUME NEW r \in Slots, Sound(req[r]), req[r].pc # "idle", NEW u,
           \/ u = [req[r] EXCEPT !.pc = "resolve"]
           \/ u = [req[r] EXCEPT !.pc = "fetch"]
           \/ u = [req[r] EXCEPT !.pc = "ask"]
    PROVE  Sound(u)
<1>1. req[r] \in Request /\ req[r].out = 0 /\ req[r].always \subseteq published
  BY Zenon DEF Sound, Orderly, Fresh
<1>2. CASE u = [req[r] EXCEPT !.pc = "resolve"]
  <2>1. u \in Request /\ u.pc = "resolve" /\ u.out = 0 /\ u.always \subseteq published
    BY Zenon, <1>1, <1>2, SetPc
  <2>. QED  BY Zenon, <2>1, UnderWay
<1>3. CASE u = [req[r] EXCEPT !.pc = "fetch"]
  <2>1. u \in Request /\ u.pc = "fetch" /\ u.out = 0 /\ u.always \subseteq published
    BY Zenon, <1>1, <1>3, SetPc
  <2>. QED  BY Zenon, <2>1, UnderWay
<1>4. CASE u = [req[r] EXCEPT !.pc = "ask"]
  <2>1. u \in Request /\ u.pc = "ask" /\ u.out = 0 /\ u.always \subseteq published
    BY Zenon, <1>1, <1>4, SetPc
  <2>. QED  BY Zenon, <2>1, UnderWay
<1>. QED  BY Zenon, <1>2, <1>3, <1>4

LEMMA LoadSteps ==
    ASSUME Surroundings, Requests, NEW r \in Slots, Load(r) \/ Resolve(r) \/ ResolveFails(r)
    PROVE  Surroundings' /\ Requests'
<1>1. Sound(req[r]) /\ req[r].pc # "idle"
  BY Zenon DEF Requests, Load, Resolve, ResolveFails
<1>2. /\ UNCHANGED <<cfg, published, retired, keyset, policy, denied, decision, ticks>>
      /\ url' \in BOOLEAN /\ arrivals' \in 0..MaxRequests /\ faults' \in 0..MaxFaults
  BY Zenon, OneMore DEF Load, Resolve, ResolveFails, EnvUnchanged, Surroundings
<1>3. PICK s : req' = [req EXCEPT ![r] = s] /\
        \/ s = SelectKeys(r, keyset.keys) /\ req[r].pc = "load"
        \/ s = [req[r] EXCEPT !.pc = "resolve"]
        \/ s = [req[r] EXCEPT !.pc = "fetch"]
        \/ s = Failing(r)
  <2>1. CASE Load(r)
    BY Zenon, <2>1 DEF Load
  <2>2. CASE Resolve(r)
    BY Zenon, <2>2 DEF Resolve
  <2>3. CASE ResolveFails(r)
    BY Zenon, <2>3 DEF ResolveFails
  <2>. QED  BY Zenon, <2>1, <2>2, <2>3
<1>4. Sound(s)
  <2>1. CASE s = SelectKeys(r, keyset.keys) /\ req[r].pc = "load"
    <3>1. keyset.keys \in SUBSET Keys
      BY Zenon DEF Surroundings
    <3>2. ~req[r].force
      BY Zenon, <1>1, <2>1 DEF Sound, Orderly
    <3>. QED  BY Zenon, <1>1, <2>1, <3>1, <3>2, SelectSound
  <2>2. CASE s = [req[r] EXCEPT !.pc = "resolve"] \/ s = [req[r] EXCEPT !.pc = "fetch"]
    BY Zenon, <1>1, <2>2, MovesOn
  <2>3. CASE s = Failing(r)
    BY Zenon, <1>1, <2>3, FailingSound
  <2>. QED  BY Zenon, <1>3, <2>1, <2>2, <2>3
<1>. QED  BY Zenon, <1>2, <1>3, <1>4, RequestOnly

LEMMA FetchReadStep ==
    ASSUME Surroundings, Requests, NEW r \in Slots, FetchRead(r)
    PROVE  Surroundings' /\ Requests'
<1>. DEFINE a == [req[r] EXCEPT !.pc = "fetched"]
            v == [a EXCEPT !.set = published]
<1>1. /\ req[r] \in Request /\ req[r].out = 0 /\ req[r].always \subseteq published
      /\ published \in SUBSET Keys /\ \A k \in published : retired[k] <= 0
  BY DEF FetchRead, Requests, Sound, Orderly, Fresh, Surroundings, KeysAge
<1>2. a \in Request /\ a.pc = "fetched" /\ a.out = 0 /\ a.always = req[r].always
  BY Zenon, <1>1, SetPc
<1>3. /\ v \in Request /\ v.pc = "fetched" /\ v.out = 0 /\ v.always = req[r].always
      /\ v.set = published
  <2>. HIDE DEF a
  <2>. QED  BY Zenon, <1>1, <1>2, SetSet
<1>4. req' = [req EXCEPT ![r] = v]
  BY Zenon DEF FetchRead
<1>. HIDE DEF v
<1>5. v.pc # "load" /\ v.pc # "answered" /\ Unrejected(v)
  BY <1>3 DEF Unrejected
<1>6. Sound(v)
  BY Zenon, <1>1, <1>3, <1>5, NotRejected DEF Sound, Orderly, Fresh
<1>7. /\ UNCHANGED <<cfg, published, retired, keyset, policy, denied, decision, ticks>>
      /\ url' \in BOOLEAN /\ arrivals' \in 0..MaxRequests /\ faults' \in 0..MaxFaults
  BY Zenon DEF FetchRead, EnvUnchanged, Surroundings
<1>. QED  BY Zenon, <1>4, <1>6, <1>7, RequestOnly

LEMMA FetchFailsStep ==
    ASSUME Surroundings, Requests, NEW r \in Slots, FetchFails(r)
    PROVE  Surroundings' /\ Requests'
<1>1. Sound(req[r]) /\ req[r].pc # "idle"
  BY Zenon DEF Requests, FetchFails
<1>2. req' = [req EXCEPT ![r] = Failing(r)]
  BY Zenon DEF FetchFails
<1>3. /\ UNCHANGED <<cfg, published, retired, keyset, policy, denied, decision, ticks>>
      /\ url' \in BOOLEAN /\ arrivals' \in 0..MaxRequests /\ faults' \in 0..MaxFaults
  BY Zenon, OneMore DEF FetchFails, EnvUnchanged, Surroundings
<1>. QED  BY Zenon, <1>1, <1>2, <1>3, FailingSound, RequestOnly

\* The set goes into the cache for TTL, and none of its keys was retired before
\* this tick.
LEMMA FetchStoreStep ==
    ASSUME Surroundings, Requests, NEW r \in Slots, FetchStore(r)
    PROVE  Surroundings' /\ Requests'
<1>1. Sound(req[r]) /\ req[r].pc = "fetched" /\ req[r].pc # "idle"
  BY Zenon DEF Requests, FetchStore
<1>2. /\ req[r].set \in SUBSET Keys /\ req[r].always \subseteq req[r].set
      /\ \A k \in req[r].set : retired[k] <= 0
  BY <1>1 DEF Sound, Orderly, Fresh, Request
<1>3. Requests'
  <2>1. req' = [req EXCEPT ![r] = SelectKeys(r, req[r].set)]
    BY Zenon DEF FetchStore
  <2>2. Sound(SelectKeys(r, req[r].set))
    BY Zenon, <1>1, <1>2, SelectSound
  <2>3. UNCHANGED <<cfg, published, retired, denied>>
    BY Zenon DEF FetchStore, EnvUnchanged
  <2>. QED  BY Zenon, <2>1, <2>2, <2>3, OneRequest
<1>4. keyset' = [keys |-> req[r].set, left |-> TTL]
  BY Zenon DEF FetchStore, StoreKeySet
<1>5. KeysAge'
  <2>1. retired' = retired /\ published' = published
    BY Zenon DEF FetchStore, EnvUnchanged
  <2>2. \A k \in Keys : retired[k] \in Int
    BY DEF Surroundings
  <2>3. \A k \in published : retired[k] = -1
    BY Zenon DEF Surroundings, KeysAge
  <2>4. \A k \in req[r].set : retired[k] + TTL <= TTL
    <3>1. \A k \in req[r].set : retired[k] \in Int /\ retired[k] <= 0
      BY Zenon, <1>2, <2>2
    <3>. QED  BY <3>1, Bounds
  <2>. QED  BY Zenon, <1>4, <2>1, <2>3, <2>4 DEF KeysAge
<1>6. keyset' \in [keys : SUBSET Keys, left : -2..TTL]
  BY <1>2, <1>4, Bounds
<1>. QED  BY Zenon, <1>3, <1>5, <1>6 DEF FetchStore, EnvUnchanged, Surroundings

\* A guard's verdict: it rejects as unauthorised only a token for another use.
OtherUse(t) == t.use \notin {"", "access", "service"}

LEMMA GuardVerdict ==
    ASSUME Surroundings, NEW t
    PROVE  \/ Guard(t) = 0 \/ Guard(t) = 200 \/ Guard(t) = 403
           \/ Guard(t) = 401 /\ OtherUse(t)
<1>1. cfg.route \in {"authenticated", "service", "permission", "authz"}
  <2>1. cfg.route \in Routes
    BY Zenon, InboundConstants DEF Surroundings
  <2>. QED  BY Zenon, <2>1 DEF Routes
<1>2. CheckMasks(t) = 200 \/ CheckMasks(t) = 403
  BY DEF CheckMasks
<1>3. CASE cfg.route = "authenticated"
  BY Zenon, <1>3 DEF Guard
<1>4. CASE cfg.route = "service"
  BY <1>4 DEF Guard
<1>5. CASE cfg.route = "permission"
  BY <1>2, <1>5 DEF Guard
<1>6. CASE cfg.route = "authz"
  <2>1. Guard(t) = IF IsServiceToken(t) THEN 200 ELSE IF t.use \notin {"", "access"} THEN 401 ELSE 0
    BY Zenon, <1>6 DEF Guard
  <2>. QED  BY Zenon, <2>1 DEF IsServiceToken, OtherUse
<1>. QED  BY Zenon, <1>1, <1>3, <1>4, <1>5, <1>6

LEMMA AuthorizeStep ==
    ASSUME Surroundings, Requests, NEW r \in Slots, Authorize(r)
    PROVE  Surroundings' /\ Requests'
<1>. DEFINE status == Guard(req[r].token)
            v == [Free(status) EXCEPT !.token = req[r].token]
<1>1. Sound(req[r]) /\ req[r].pc # "idle"
  BY Zenon DEF Requests, Authorize
<1>2. PICK s : req' = [req EXCEPT ![r] = s] /\
        \/ status = 0 /\ s = [req[r] EXCEPT !.pc = "ask"]
        \/ status # 0 /\ s = v
  BY Zenon DEF Authorize
<1>3. Sound(v)
  <2>1. \/ status = 0 \/ status = 200 \/ status = 403
        \/ status = 401 /\ OtherUse(req[r].token)
    <3>1. \A t : Guard(t) = 0 \/ Guard(t) = 200 \/ Guard(t) = 403 \/ (Guard(t) = 401 /\ OtherUse(t))
      BY Zenon, GuardVerdict
    <3>. QED  BY <3>1
  <2>2. req[r].token \in cfg.tokens
    BY <1>1 DEF Sound, Orderly, Request
  <2>3. /\ Free(status) \in Request /\ Free(status).pc = "idle"
        /\ Free(status).out = status /\ Free(status).always = {}
    <3>. HIDE DEF status
    <3>1. status \in {0, 200, 401, 403, 503}
      BY <2>1
    <3>. QED  BY <3>1, FreeFields
  <2>4. /\ v \in Request /\ v.pc = "idle" /\ v.out = status /\ v.always = {}
        /\ v.token = req[r].token
    <3>. HIDE DEF status
    <3>. QED  BY Zenon, <2>2, <2>3, SetToken
  <2>. HIDE DEF v, status
  <2>5. v.pc # "load" /\ v.pc # "fetched" /\ v.pc # "answered" /\ v.always \subseteq published
        /\ v.token.kid \notin v.always
    BY Zenon, <2>4
  <2>6. v.out = 401 => OtherUse(v.token)
    BY <2>1, <2>4
  <2>7. Orderly(v) /\ Fresh(v)
    BY Zenon, <2>4, <2>5 DEF Orderly, Fresh
  <2>8. FairlyRejected(v)
    BY Zenon, <2>5 DEF FairlyRejected
  <2>9. StaticServed(v)
    BY Zenon, <2>6 DEF StaticServed, OtherUse
  <2>. QED  BY Zenon, <2>7, <2>8, <2>9 DEF Sound
<1>4. Sound(s)
  <2>. HIDE DEF v, status
  <2>. QED  BY Zenon, <1>1, <1>2, <1>3, MovesOn
<1>5. /\ UNCHANGED <<cfg, published, retired, keyset, policy, denied, decision, ticks>>
      /\ url' \in BOOLEAN /\ arrivals' \in 0..MaxRequests /\ faults' \in 0..MaxFaults
  BY Zenon DEF Authorize, EnvUnchanged, Surroundings
<1>. QED  BY Zenon, <1>2, <1>4, <1>5, RequestOnly

(***************************************************************************)
(* Decisions.                                                              *)
(***************************************************************************)

LEMMA AnswerStep ==
    ASSUME Surroundings, Requests, NEW r \in Slots, Answer(r)
    PROVE  Surroundings' /\ Requests'
<1>. DEFINE a == [req[r] EXCEPT !.pc = "answered"]
            v == [a EXCEPT !.answer = policy]
<1>1. /\ req[r] \in Request /\ req[r].out = 0 /\ req[r].always \subseteq published
      /\ policy \in BOOLEAN /\ (policy => denied = 0)
  BY Zenon DEF Answer, Requests, Sound, Orderly, Fresh, Surroundings
<1>2. a \in Request /\ a.pc = "answered" /\ a.out = 0 /\ a.always = req[r].always
  BY Zenon, <1>1, SetPc
<1>3. /\ v \in Request /\ v.pc = "answered" /\ v.out = 0 /\ v.always = req[r].always
      /\ v.answer = policy
  <2>. HIDE DEF a
  <2>. QED  BY Zenon, <1>1, <1>2, SetAnswer
<1>4. req' = [req EXCEPT ![r] = v]
  BY Zenon DEF Answer
<1>. HIDE DEF v
<1>5. v.pc # "load" /\ v.pc # "fetched" /\ Unrejected(v)
  BY <1>3 DEF Unrejected
<1>6. Sound(v)
  BY Zenon, <1>1, <1>3, <1>5, NotRejected DEF Sound, Orderly, Fresh
<1>7. /\ UNCHANGED <<cfg, published, retired, keyset, policy, denied, decision, ticks>>
      /\ url' \in BOOLEAN /\ arrivals' \in 0..MaxRequests /\ faults' \in 0..MaxFaults
  BY Zenon DEF Answer, EnvUnchanged, Surroundings
<1>. QED  BY Zenon, <1>4, <1>6, <1>7, RequestOnly

\* A request that ends with a decision, or for want of one.
LEMMA DecidedSound ==
    ASSUME Surroundings
    PROVE  (\A b : Sound(Decided(b))) /\ Sound(Free(503))
<1>1. ASSUME NEW out \in {200, 403, 503} PROVE Sound(Free(out))
  <2>1. /\ Free(out) \in Request /\ Free(out).pc = "idle" /\ Free(out).out = out
        /\ Free(out).always = {}
    BY FreeFields
  <2>2. Unrejected(Free(out)) /\ Free(out).always \subseteq published
    BY <2>1 DEF Unrejected
  <2>. QED  BY <2>1, <2>2, Ended
<1>2. ASSUME NEW b PROVE Sound(Decided(b))
  <2>1. CASE b
    BY <1>1, <2>1 DEF Decided
  <2>2. CASE ~b
    BY <1>1, <2>2 DEF Decided
  <2>. QED  BY Zenon, <2>1, <2>2
<1>. QED  BY <1>1, <1>2

LEMMA DecideFailsStep ==
    ASSUME Surroundings, Requests, NEW r \in Slots, DecideFails(r)
    PROVE  Surroundings' /\ Requests'
<1>. DEFINE s == IF cfg.route = "authz" /\ Cached THEN Decided(decision.allowed)
                 ELSE IF cfg.route = "authz" /\ cfg.failOpen THEN Decided(TRUE) ELSE Free(503)
<1>1. req' = [req EXCEPT ![r] = s]
  BY Zenon DEF DecideFails
<1>2. Sound(s)
  BY Zenon, DecidedSound
<1>. HIDE DEF s
<1>3. /\ UNCHANGED <<cfg, published, retired, keyset, policy, denied, decision, ticks>>
      /\ url' \in BOOLEAN /\ arrivals' \in 0..MaxRequests /\ faults' \in 0..MaxFaults
  BY Zenon, OneMore DEF DecideFails, EnvUnchanged, Surroundings
<1>. QED  BY Zenon, <1>1, <1>2, <1>3, RequestOnly

\* An approval that is stored was given in this tick by a policy that had not
\* turned before it.
LEMMA ReceiveStep ==
    ASSUME Surroundings, Requests, NEW r \in Slots, Receive(r)
    PROVE  Surroundings' /\ Requests'
<1>. DEFINE s == Decided(req[r].answer)
<1>1. req' = [req EXCEPT ![r] = s]
  BY Zenon DEF Receive
<1>2. Requests'
  <2>1. Sound(s)
    BY Zenon, DecidedSound
  <2>2. UNCHANGED <<cfg, published, retired, denied>>
    BY Zenon DEF Receive, EnvUnchanged
  <2>. QED  BY Zenon, <1>1, <2>1, <2>2, OneRequest
<1>3. req[r].answer \in BOOLEAN /\ (req[r].answer => denied = 0)
  <2>1. req[r] \in Request /\ req[r].pc = "answered" /\ Fresh(req[r])
    BY Zenon DEF Receive, Requests, Sound, Orderly
  <2>2. req[r].answer \in BOOLEAN
    BY <2>1 DEF Request
  <2>. QED  BY Zenon, <2>1, <2>2 DEF Fresh
<1>4. \/ decision' = decision
      \/ decision' = [allowed |-> req[r].answer, left |-> DecisionTTL]
  BY Zenon DEF Receive, StoreDecision
<1>5. /\ decision' \in [allowed : BOOLEAN, left : Int]
      /\ decision'.left >= 0 => decision'.left <= DecisionTTL
      /\ decision'.left >= 0 /\ decision'.allowed => denied + decision'.left <= DecisionTTL
  <2>1. CASE decision' = decision
    BY Zenon, <2>1 DEF Surroundings
  <2>2. CASE decision' = [allowed |-> req[r].answer, left |-> DecisionTTL]
    <3>1. decision'.allowed = req[r].answer /\ decision'.left = DecisionTTL
      BY Zenon, <2>2
    <3>2. decision' \in [allowed : BOOLEAN, left : Int]
      BY Zenon, <1>3, <2>2, Bounds
    <3>3. denied \in Nat /\ DecisionTTL \in Int
      BY Zenon, Bounds DEF Surroundings
    <3>4. DecisionTTL <= DecisionTTL /\ (denied = 0 => denied + DecisionTTL <= DecisionTTL)
      BY <3>3
    <3>. QED  BY Zenon, <1>3, <3>1, <3>2, <3>4
  <2>. QED  BY Zenon, <1>4, <2>1, <2>2
<1>6. UNCHANGED <<cfg, published, retired, keyset, url, policy, denied, arrivals, ticks, faults>>
  BY Zenon DEF Receive, EnvUnchanged
<1>7. Surroundings'
  BY Zenon, <1>5, <1>6 DEF Surroundings, KeysAge
<1>. QED  BY Zenon, <1>2, <1>7

(***************************************************************************)
(* The environment.                                                        *)
(***************************************************************************)

\* A verdict stands while the configuration and what it says of the token do.
LEMMA VerdictKept ==
    ASSUME cfg' = cfg, NEW q \in Slots, NEW s, NEW t, req'[q] = t, FairlyRejected(s), StaticServed(s),
           t.out = s.out, t.token = s.token, t.failed = s.failed,
           t.token.kid \in t.always => s.token.kid \in s.always
    PROVE  FairlyRejected(req[q])' /\ StaticServed(req[q])'
<1>1. \A k : VerifyWithKey(req[q].token, k)' <=> VerifyWithKey(s.token, k)
  BY Zenon DEF VerifyWithKey, ValidateIssuer, ValidateAudience
<1>2. FairlyRejected(req[q])'
  BY <1>1 DEF FairlyRejected
<1>3. StaticServed(req[q])'
  BY Zenon, <1>1 DEF StaticServed
<1>. QED  BY Zenon, <1>2, <1>3

LEMMA PublishKeyStep ==
    ASSUME Surroundings, Requests, PublishKey
    PROVE  Surroundings' /\ Requests'
<1>1. PICK k \in Keys : k \notin published /\ retired[k] = -1 /\ published' = published \cup {k}
  BY Zenon DEF PublishKey
<1>2. UNCHANGED <<cfg, retired, keyset, url, policy, denied, decision, req, arrivals, ticks, faults>>
  BY Zenon DEF PublishKey
<1>3. Surroundings'
  <2>1. KeysAge'
    BY Zenon, <1>1, <1>2 DEF Surroundings, KeysAge
  <2>2. published' \in SUBSET Keys /\ published' # {}
    BY Zenon, <1>1 DEF Surroundings
  <2>. QED  BY Zenon, <1>2, <2>1, <2>2 DEF Surroundings
<1>4. ASSUME NEW r \in Slots PROVE Sound(req[r])'
  <2>1. Sound(req[r]) /\ req'[r] = req[r]
    BY Zenon, <1>2 DEF Requests
  <2>2. Fresh(req[r])'
    BY Zenon, <1>1, <1>2, <2>1 DEF Sound, Fresh
  <2>3. Orderly(req[r])'
    BY <1>2, <2>1 DEF Sound, Orderly, Request
  <2>4. FairlyRejected(req[r])' /\ StaticServed(req[r])'
    <3>1. PICK before : before = req[r]
      BY Zenon
    <3>. QED  BY Zenon, <1>2, <2>1, <3>1, VerdictKept DEF Sound
  <2>. QED  BY Zenon, <2>2, <2>3, <2>4 DEF Sound
<1>. QED  BY Zenon, <1>2, <1>3, <1>4 DEF Requests

LEMMA DenyStep ==
    ASSUME Surroundings, Requests, Deny
    PROVE  Surroundings' /\ Requests'
<1>1. /\ UNCHANGED <<cfg, published, retired, keyset, url, denied, decision, req, arrivals, ticks, faults>>
      /\ policy' = FALSE
  BY Zenon DEF Deny
<1>2. Surroundings'
  BY Zenon, <1>1 DEF Surroundings, KeysAge
<1>3. ASSUME NEW r \in Slots PROVE Sound(req[r])'
  <2>1. Sound(req[r]) /\ req'[r] = req[r] /\ UNCHANGED <<cfg, published, retired, denied>>
    BY Zenon, <1>1 DEF Requests
  <2>. QED  BY Zenon, <2>1, SoundAfter
<1>. QED  BY Zenon, <1>1, <1>2, <1>3 DEF Requests

\* A retired key is published no more, so a request stops relying on it; a set
\* that was read before may still hold it, until the next tick for sure.
LEMMA RetireKeyStep ==
    ASSUME Surroundings, Requests, RetireKey
    PROVE  Surroundings' /\ Requests'
<1>1. PICK k \in published :
        /\ published' = published \ {k} /\ published' # {}
        /\ retired' = [retired EXCEPT ![k] = 0]
        /\ req' = [r \in Slots |-> [req[r] EXCEPT !.always = @ \ {k}]]
  BY Zenon DEF RetireKey
<1>2. UNCHANGED <<cfg, keyset, url, policy, denied, decision, arrivals, ticks, faults>>
  BY Zenon DEF RetireKey
<1>3. /\ k \in Keys /\ retired[k] = -1 /\ retired \in [Keys -> Nat \cup {-1}]
      /\ published \in SUBSET Keys
  BY Zenon DEF Surroundings, KeysAge
<1>4. /\ retired'[k] = 0 /\ \A j \in Keys : j # k => retired'[j] = retired[j]
      /\ retired' \in [Keys -> Nat \cup {-1}]
  BY Zenon, <1>1, <1>3
<1>5. Surroundings'
  <2>1. /\ keyset \in [keys : SUBSET Keys, left : -2..TTL]
        /\ (\A j \in published : retired[j] = -1)
        /\ (keyset.left >= 0 => \A j \in keyset.keys : retired[j] + keyset.left <= TTL)
    BY Zenon DEF Surroundings, KeysAge
  <2>2. keyset.left \in Int /\ keyset.left <= TTL /\ keyset.keys \subseteq Keys
    BY <2>1, Bounds
  <2>3. \A j \in published' : retired'[j] = -1
    BY Zenon, <1>1, <1>3, <1>4, <2>1
  <2>4. ASSUME keyset.left >= 0, NEW j \in keyset.keys PROVE retired'[j] + keyset.left <= TTL
    <3>1. CASE j = k
      BY <1>4, <2>2, <3>1, Bounds
    <3>2. CASE j # k
      BY Zenon, <1>4, <2>1, <2>2, <2>4, <3>2
    <3>. QED  BY Zenon, <3>1, <3>2
  <2>5. KeysAge'
    BY Zenon, <1>2, <2>3, <2>4 DEF KeysAge
  <2>6. published' \in SUBSET Keys /\ published' # {}
    BY Zenon, <1>1, <1>3
  <2>. QED  BY Zenon, <1>2, <1>4, <2>5, <2>6 DEF Surroundings
<1>6. ASSUME NEW r \in Slots PROVE Sound(req[r])'
  <2>. DEFINE s == req[r]
              u == [s EXCEPT !.always = s.always \ {k}]
  <2>1. Sound(s) /\ s \in Request /\ s.always \in SUBSET Keys
    BY DEF Requests, Sound, Orderly, Request
  <2>2. s.always \ {k} \in SUBSET Keys
    BY Zenon, <2>1
  <2>3. /\ u \in Request /\ u.pc = s.pc /\ u.out = s.out /\ u.token = s.token
        /\ u.always = s.always \ {k} /\ u.set = s.set /\ u.force = s.force
        /\ u.failed = s.failed /\ u.answer = s.answer
    <3>. HIDE DEF s
    <3>. QED  BY Zenon, <2>1, <2>2, SetAlways
  <2>4. req'[r] = u
    BY Zenon, <1>1
  <2>5. s.set \subseteq Keys
    BY Zenon, <2>1 DEF Request
  <2>. HIDE DEF s, u
  <2>6. Orderly(req[r])'
    <3>1. Request' = Request
      BY Zenon, <1>2 DEF Request
    <3>. QED  BY Zenon, <2>1, <2>3, <2>4, <3>1 DEF Sound, Orderly
  <2>7. Fresh(req[r])'
    <3>1. u.always \subseteq published'
      BY Zenon, <1>1, <2>1, <2>3 DEF Sound, Fresh
    <3>2. ASSUME u.pc = "fetched"
          PROVE  u.always \subseteq u.set /\ \A j \in u.set : retired'[j] <= 0
      <4>1. s.always \subseteq s.set /\ \A j \in s.set : retired[j] <= 0
        BY Zenon, <2>1, <2>3, <3>2 DEF Sound, Fresh
      <4>2. \A j \in s.set : retired'[j] <= 0
        BY <1>4, <2>5, <4>1
      <4>3. u.always \subseteq s.set
        BY Zenon, <2>3, <4>1
      <4>. QED  BY Zenon, <2>3, <4>2, <4>3
    <3>3. u.pc = "answered" /\ u.answer => denied' = 0
      BY Zenon, <1>2, <2>1, <2>3 DEF Sound, Fresh
    <3>. QED  BY Zenon, <2>4, <3>1, <3>2, <3>3 DEF Fresh
  <2>8. u.token.kid \in u.always => s.token.kid \in s.always
    BY Zenon, <2>3
  <2>9. FairlyRejected(req[r])' /\ StaticServed(req[r])'
    <3>1. FairlyRejected(s) /\ StaticServed(s) /\ cfg' = cfg
      BY Zenon, <1>2, <2>1 DEF Sound
    <3>2. PICK before, after : before = s /\ after = u
      BY Zenon
    <3>. QED  BY Zenon, <2>3, <2>4, <2>8, <3>1, <3>2, VerdictKept
  <2>. QED  BY Zenon, <2>6, <2>7, <2>9 DEF Sound
<1>7. DOMAIN req' = Slots /\ req' = [r \in Slots |-> req'[r]]
  BY Zenon, <1>1
<1>. QED  BY Zenon, <1>5, <1>6, <1>7 DEF Requests

\* Time passes: a set and a decision lose as much of their lifetime as keys and
\* refusals gain in age, and nothing that was just read is on its way.
LEMMA TickStep ==
    ASSUME Surroundings, Requests, Tick
    PROVE  Surroundings' /\ Requests'
<1>1. UNCHANGED <<cfg, published, url, policy, req, arrivals, faults>>
  BY Zenon DEF Tick
<1>2. /\ retired' = [k \in Keys |-> Older(retired[k])]
      /\ retired \in [Keys -> Nat \cup {-1}] /\ published \in SUBSET Keys
  BY Zenon DEF Tick, Surroundings
<1>3. /\ retired' \in [Keys -> Nat \cup {-1}]
      /\ \A k \in Keys : retired[k] \in Int /\ retired'[k] \in Int /\ retired'[k] <= retired[k] + 1
      /\ \A k \in Keys : retired[k] = -1 => retired'[k] = -1
  BY <1>2 DEF Older
<1>4. keyset' \in [keys : SUBSET Keys, left : -2..TTL] /\ KeysAge'
  <2>1. /\ keyset \in [keys : SUBSET Keys, left : -2..TTL]
        /\ keyset' = IF keyset.left >= 0 THEN [keyset EXCEPT !.left = @ - 1] ELSE keyset
    BY Zenon DEF Tick, Surroundings
  <2>2. \A k \in published' : retired'[k] = -1
    BY Zenon, <1>1, <1>2, <1>3 DEF Surroundings, KeysAge
  <2>3. CASE keyset.left >= 0
    <3>1. keyset.left \in 0..TTL /\ keyset.keys \in SUBSET Keys
      BY <2>1, <2>3, Bounds
    <3>2. keyset' = [keys |-> keyset.keys, left |-> keyset.left - 1]
      BY Zenon, <2>1, <2>3
    <3>3. keyset' \in [keys : SUBSET Keys, left : -2..TTL]
      BY <3>1, <3>2, Bounds
    <3>4. keyset'.keys = keyset.keys /\ keyset'.left = keyset.left - 1
      BY Zenon, <3>2
    <3>5. \A k \in keyset.keys : retired[k] + keyset.left <= TTL
      BY Zenon, <2>3 DEF Surroundings, KeysAge
    <3>6. \A k \in keyset.keys : retired'[k] + (keyset.left - 1) <= TTL
      BY <1>3, <3>1, <3>5, Bounds
    <3>. QED  BY Zenon, <2>2, <3>3, <3>4, <3>6 DEF KeysAge
  <2>4. CASE ~(keyset.left >= 0)
    <3>1. keyset' = keyset
      BY Zenon, <2>1, <2>4
    <3>. QED  BY Zenon, <2>1, <2>2, <2>4, <3>1 DEF KeysAge
  <2>. QED  BY Zenon, <2>3, <2>4
<1>5. denied \in Nat /\ denied' \in Nat /\ denied' <= denied + 1 /\ (policy => denied' = 0)
  BY DEF Tick, Surroundings
<1>6. /\ decision' \in [allowed : BOOLEAN, left : Int]
      /\ decision'.left >= 0 => decision'.left <= DecisionTTL
      /\ decision'.left >= 0 /\ decision'.allowed => denied' + decision'.left <= DecisionTTL
  <2>1. /\ decision \in [allowed : BOOLEAN, left : Int]
        /\ decision' = IF decision.left >= 0 THEN [decision EXCEPT !.left = @ - 1] ELSE decision
        /\ decision.left >= 0 => decision.left <= DecisionTTL
        /\ decision.left >= 0 /\ decision.allowed => denied + decision.left <= DecisionTTL
    BY Zenon DEF Tick, Surroundings
  <2>2. CASE decision.left >= 0
    <3>1. decision' = [allowed |-> decision.allowed, left |-> decision.left - 1]
      BY Zenon, <2>1, <2>2
    <3>2. decision' \in [allowed : BOOLEAN, left : Int] /\ decision.left \in Int
      BY <2>1, <3>1
    <3>3. decision'.allowed = decision.allowed /\ decision'.left = decision.left - 1
      BY Zenon, <3>1
    <3>4. decision.left - 1 <= DecisionTTL
      BY <2>1, <2>2, <3>2, Bounds
    <3>5. denied + decision.left <= DecisionTTL => denied' + (decision.left - 1) <= DecisionTTL
      BY <1>5, <3>2, Bounds
    <3>. QED  BY Zenon, <2>1, <2>2, <3>2, <3>3, <3>4, <3>5
  <2>3. CASE ~(decision.left >= 0)
    BY Zenon, <2>1, <2>3
  <2>. QED  BY Zenon, <2>2, <2>3
<1>7. ticks' \in 0..MaxTicks
  <2>1. ticks \in 0..MaxTicks /\ ticks < MaxTicks /\ ticks' = ticks + 1
    BY Zenon DEF Tick, Surroundings
  <2>. QED  BY <2>1, Bounds
<1>8. Surroundings'
  BY Zenon, <1>1, <1>3, <1>4, <1>5, <1>6, <1>7 DEF Surroundings
<1>9. ASSUME NEW r \in Slots PROVE Sound(req[r])'
  <2>1. /\ Sound(req[r]) /\ req'[r] = req[r]
        /\ req[r].pc # "fetched" /\ req[r].pc # "answered"
    BY Zenon, <1>1 DEF Requests, Tick
  <2>2. Fresh(req[r])'
    BY Zenon, <1>1, <2>1 DEF Sound, Fresh
  <2>3. Orderly(req[r])'
    BY <1>1, <2>1 DEF Sound, Orderly, Request
  <2>4. FairlyRejected(req[r])' /\ StaticServed(req[r])'
    <3>1. PICK before : before = req[r]
      BY Zenon
    <3>. QED  BY Zenon, <1>1, <2>1, <3>1, VerdictKept DEF Sound
  <2>. QED  BY Zenon, <2>2, <2>3, <2>4 DEF Sound
<1>. QED  BY Zenon, <1>1, <1>8, <1>9 DEF Requests

(***************************************************************************)
(* The invariant.                                                          *)
(***************************************************************************)

LEMMA InitSound == Init => InboundInv
<1>. SUFFICES ASSUME Init PROVE Surroundings /\ Requests
  BY Zenon, Parts
<1>1. /\ cfg \in Configs /\ published = {1} /\ retired = [k \in Keys |-> -1]
      /\ keyset = NoKeys /\ url = FALSE /\ policy = TRUE /\ denied = 0
      /\ decision = [allowed |-> FALSE, left |-> -2]
      /\ req = [r \in Slots |-> Free(0)] /\ arrivals = 0 /\ ticks = 0 /\ faults = 0
  BY Zenon DEF Init
<1>2. 1 \in Keys
  <2>1. MaxKey \in Nat \ {0}
    BY Zenon, InboundConstants
  <2>. QED  BY <2>1 DEF Keys
<1>3. Surroundings
  <2>1. keyset \in [keys : SUBSET Keys, left : -2..TTL] /\ keyset.left = -2
    BY <1>1, Bounds DEF NoKeys
  <2>2. decision.left = -2
    BY Zenon, <1>1
  <2>3. decision \in [allowed : BOOLEAN, left : Int]
    <3>1. ASSUME NEW b \in BOOLEAN PROVE [allowed |-> b, left |-> -2] \in [allowed : BOOLEAN, left : Int]
      OBVIOUS
    <3>. QED  BY Zenon, <1>1, <3>1
  <2>4. KeysAge
    BY <1>1, <1>2, <2>1 DEF KeysAge
  <2>5. /\ published \in SUBSET Keys /\ published # {}
        /\ retired \in [Keys -> Nat \cup {-1}] /\ denied \in Nat
        /\ arrivals \in 0..MaxRequests /\ ticks \in 0..MaxTicks /\ faults \in 0..MaxFaults
    BY <1>1, <1>2, Bounds
  <2>6. ~(decision.left >= 0)
    BY <2>2
  <2>7. url \in BOOLEAN /\ policy \in BOOLEAN
    BY Zenon, <1>1
  <2>. QED  BY Zenon, <1>1, <2>1, <2>3, <2>4, <2>5, <2>6, <2>7 DEF Surroundings
<1>4. Requests
  <2>1. Free(0) \in Request /\ Free(0).pc = "idle" /\ Free(0).out = 0 /\ Free(0).always = {}
    BY <1>3, FreeFields
  <2>2. Unrejected(Free(0)) /\ Free(0).always \subseteq published
    BY <2>1 DEF Unrejected
  <2>3. Sound(Free(0))
    BY Zenon, <2>1, <2>2, Ended
  <2>. QED  BY Zenon, <1>1, <2>3 DEF Requests
<1>. QED  BY Zenon, <1>3, <1>4

LEMMA Stuttering ==
    ASSUME Surroundings, Requests, UNCHANGED vars
    PROVE  Surroundings' /\ Requests'
<1>1. UNCHANGED <<cfg, published, retired, keyset, url, policy, denied, decision, req, arrivals, ticks, faults>>
  BY Zenon DEF vars
<1>2. Surroundings'
  BY Zenon, <1>1 DEF Surroundings, KeysAge
<1>3. ASSUME NEW r \in Slots PROVE Sound(req[r])'
  <2>1. Sound(req[r]) /\ req'[r] = req[r] /\ UNCHANGED <<cfg, published, retired, denied>>
    BY Zenon, <1>1 DEF Requests
  <2>. QED  BY Zenon, <2>1, SoundAfter
<1>. QED  BY Zenon, <1>1, <1>2, <1>3 DEF Requests

LEMMA InboundNext == InboundInv /\ [Next]_vars => InboundInv'
<1>. SUFFICES ASSUME Surroundings, Requests, [Next]_vars PROVE Surroundings' /\ Requests'
  <2>1. InboundInv => Surroundings /\ Requests
    BY Zenon, Parts
  <2>2. Surroundings' /\ Requests' => InboundInv'
    BY Parts, PTL
  <2>. QED  BY Zenon, <2>1, <2>2
<1>1. ASSUME NEW r \in Slots, Arrive(r) PROVE Surroundings' /\ Requests'
  BY Zenon, <1>1, ArriveStep
<1>2. ASSUME NEW r \in Slots, Step(r) PROVE Surroundings' /\ Requests'
  BY Zenon, <1>2, LoadSteps, FetchReadStep, FetchFailsStep, FetchStoreStep, AuthorizeStep,
     AnswerStep, ReceiveStep, DecideFailsStep DEF Step
<1>3. CASE PublishKey
  BY Zenon, <1>3, PublishKeyStep
<1>4. CASE RetireKey
  BY Zenon, <1>4, RetireKeyStep
<1>5. CASE Deny
  BY Zenon, <1>5, DenyStep
<1>6. CASE Tick
  BY Zenon, <1>6, TickStep
<1>7. CASE UNCHANGED vars
  BY Zenon, <1>7, Stuttering
<1>. QED  BY Zenon, <1>1, <1>2, <1>3, <1>4, <1>5, <1>6, <1>7 DEF Next

\* However requests, key rotations, changes of policy and failing endpoints
\* interleave: a token whose key stayed published is not rejected for want of
\* it unless its own load failed, the static key always serves, and the key
\* set, the sets being fetched and the cached decision are no older than their
\* lifetimes say.
THEOREM InboundInvariance == Spec => []InboundInv
<1>1. Init => InboundInv
  BY Zenon, InitSound
<1>2. InboundInv /\ [Next]_vars => InboundInv'
  BY Zenon, InboundNext
<1>. QED  BY <1>1, <1>2, PTL DEF Spec

(***************************************************************************)
(* Which keys a token is accepted by.                                      *)
(***************************************************************************)

\* Verify accepts a token only for a key it was given, or the static one.
LEMMA VerifyAccepts ==
    ASSUME Surroundings, NEW r \in Slots, req[r] \in Request, NEW keys \in SUBSET Keys
    PROVE  /\ Verify(r, keys) \in Request
           /\ Verify(r, keys).pc = "authorize" /\ req[r].token.key # 0 => req[r].token.key \in keys
<1>. DEFINE s == req[r]
            v == Verify(r, keys)
<1>. TRUE \in BOOLEAN /\ FALSE \in BOOLEAN /\ {} \in SUBSET Keys
  OBVIOUS
<1>1. CASE \E k \in WithStaticKey(keys) : VerifyWithKey(s.token, k)
  <2>. DEFINE a == [s EXCEPT !.pc = "authorize"]
              b == [a EXCEPT !.set = {}]
  <2>1. v = [b EXCEPT !.force = FALSE]
    BY Zenon, <1>1 DEF Verify
  <2>2. a \in Request
    BY Zenon, SetPc
  <2>3. b \in Request
    <3>. HIDE DEF a
    <3>. QED  BY Zenon, <2>2, SetSet
  <2>4. v \in Request
    <3>. HIDE DEF a, b, v
    <3>. QED  BY Zenon, <2>1, <2>3, SetForce
  <2>5. s.token.key # 0 => s.token.key \in keys
    BY Zenon, <1>1 DEF WithStaticKey, VerifyWithKey
  <2>. QED  BY Zenon, <2>4, <2>5
<1>2. CASE ~ \E k \in WithStaticKey(keys) : VerifyWithKey(s.token, k)
  <2>. DEFINE a == [Free(401) EXCEPT !.token = s.token]
              b == [a EXCEPT !.always = s.always]
  <2>1. v = [b EXCEPT !.failed = s.failed]
    BY Zenon, <1>2 DEF Verify
  <2>2. s.token \in cfg.tokens /\ s.always \in SUBSET Keys /\ s.failed \in BOOLEAN
    BY DEF Request
  <2>3. Free(401) \in Request /\ Free(401).pc = "idle"
    BY FreeFields
  <2>4. a \in Request /\ a.pc = "idle"
    BY <2>2, <2>3, SetToken
  <2>5. b \in Request /\ b.pc = "idle"
    <3>. HIDE DEF a
    <3>. QED  BY Zenon, <2>2, <2>4, SetAlways
  <2>6. v \in Request /\ v.pc = "idle"
    <3>. HIDE DEF a, b, v
    <3>1. ASSUME NEW z \in BOOLEAN
          PROVE  [b EXCEPT !.failed = z] \in Request /\ [b EXCEPT !.failed = z].pc = "idle"
      BY Zenon, <2>5, SetFailed
    <3>. QED  BY Zenon, <2>1, <2>2, <3>1
  <2>7. v.pc # "authorize"
    BY Zenon, <2>6
  <2>. QED  BY Zenon, <2>6, <2>7
<1>. QED  BY Zenon, <1>1, <1>2

LEMMA SelectAccepts ==
    ASSUME Surroundings, NEW r \in Slots, req[r] \in Request, NEW keys \in SUBSET Keys
    PROVE  /\ SelectKeys(r, keys) \in Request
           /\ SelectKeys(r, keys).pc = "authorize" /\ req[r].token.key # 0 => req[r].token.key \in keys
<1>. DEFINE s == req[r]
            found == keys \cap {s.token.kid}
            v == SelectKeys(r, keys)
<1>. TRUE \in BOOLEAN /\ {} \in SUBSET Keys
  OBVIOUS
<1>1. CASE found = {} /\ ~s.force
  <2>. DEFINE a == [s EXCEPT !.pc = "resolve"]
              b == [a EXCEPT !.force = TRUE]
  <2>1. v = [b EXCEPT !.set = {}]
    BY Zenon, <1>1 DEF SelectKeys
  <2>2. a \in Request /\ a.pc = "resolve"
    BY Zenon, SetPc
  <2>3. b \in Request /\ b.pc = "resolve"
    <3>. HIDE DEF a
    <3>. QED  BY Zenon, <2>2, SetForce
  <2>4. v \in Request /\ v.pc = "resolve"
    <3>. HIDE DEF a, b, v
    <3>. QED  BY Zenon, <2>1, <2>3, SetSet
  <2>5. v.pc # "authorize"
    BY Zenon, <2>4
  <2>. QED  BY Zenon, <2>4, <2>5
<1>2. CASE ~(found = {} /\ ~s.force)
  <2>1. v = Verify(r, found)
    BY Zenon, <1>2 DEF SelectKeys
  <2>2. found \in SUBSET Keys /\ found \subseteq keys
    OBVIOUS
  <2>3. v \in Request /\ (v.pc = "authorize" /\ s.token.key # 0 => s.token.key \in found)
    <3>. HIDE DEF found
    <3>. QED  BY Zenon, <2>1, <2>2, VerifyAccepts
  <2>. QED  BY Zenon, <2>2, <2>3
<1>. QED  BY Zenon, <1>1, <1>2

\* A load that failed leaves its mark on the request.
LEMMA FailingMarks ==
    ASSUME Surroundings, NEW r \in Slots, req[r] \in Request
    PROVE  Failing(r).failed
<1>1. keyset.keys \in SUBSET Keys /\ {} \in SUBSET Keys
      /\ keyset.keys \cap {req[r].token.kid} \in SUBSET Keys
  BY Zenon DEF Surroundings
<1>2. StaleSnapshot(r) \in Request
  BY Zenon, <1>1, VerifyAccepts, SelectAccepts DEF StaleSnapshot
<1>3. TRUE \in BOOLEAN
  OBVIOUS
<1>. QED  BY Zenon, <1>2, <1>3, SetFailed DEF Failing

\* A step of one request leaves the others alone.
LEMMA Others ==
    ASSUME Requests, NEW q \in Slots, Arrive(q) \/ Step(q), NEW r \in Slots, r # q
    PROVE  req'[r] = req[r]
<1>1. \E s : req' = [req EXCEPT ![q] = s]
  <2>1. CASE Arrive(q)
    BY Zenon, <2>1 DEF Arrive
  <2>2. CASE Load(q) \/ Resolve(q) \/ ResolveFails(q)
    BY Zenon, <2>2 DEF Load, Resolve, ResolveFails
  <2>3. CASE FetchRead(q) \/ FetchFails(q) \/ FetchStore(q)
    <3>1. CASE FetchRead(q)
      BY Zenon, <3>1 DEF FetchRead
    <3>. QED  BY Zenon, <2>3, <3>1 DEF FetchFails, FetchStore
  <2>4. CASE Authorize(q) \/ Receive(q)
    BY Zenon, <2>4 DEF Authorize, Receive
  <2>5. CASE Answer(q)
    BY Zenon, <2>5 DEF Answer
  <2>6. CASE DecideFails(q)
    BY Zenon, <2>6 DEF DecideFails
  <2>. QED  BY Zenon, <2>1, <2>2, <2>3, <2>4, <2>5, <2>6 DEF Step
<1>. QED  BY Zenon, <1>1 DEF Requests

\* A request gets to "authorize" from a fresh set, from the set it fetched, or
\* after its own load failed.
LEMMA AcceptedHow ==
    ASSUME Surroundings, Requests, NEW r \in Slots, Arrive(r) \/ Step(r),
           req[r].pc # "authorize", req'[r].pc = "authorize"
    PROVE  \/ Load(r) /\ keyset.left >= 0 /\ req'[r] = SelectKeys(r, keyset.keys)
           \/ FetchStore(r) /\ req'[r] = SelectKeys(r, req[r].set)
           \/ req'[r] = Failing(r)
<1>1. req[r] \in Request /\ DOMAIN req = Slots
  BY Zenon DEF Requests, Sound, Orderly
<1>2. CASE Arrive(r)
  <2>1. PICK t \in cfg.tokens :
          req' = [req EXCEPT ![r] = [Free(0) EXCEPT !.pc = "load", !.token = t, !.always = published]]
    BY Zenon, <1>2 DEF Arrive
  <2>2. req'[r].pc = "load"
    BY Zenon, <1>1, <2>1 DEF Free
  <2>. QED  BY Zenon, <2>2
<1>3. ASSUME NEW s, req' = [req EXCEPT ![r] = s] PROVE req'[r] = s
  BY Zenon, <1>1, <1>3
<1>4. ASSUME NEW s, s = [req[r] EXCEPT !.pc = "resolve"] \/ s = [req[r] EXCEPT !.pc = "fetch"]
                    \/ s = [req[r] EXCEPT !.pc = "ask"]
      PROVE  s.pc # "authorize"
  <2>1. s.pc = "resolve" \/ s.pc = "fetch" \/ s.pc = "ask"
    <3>1. /\ [req[r] EXCEPT !.pc = "resolve"].pc = "resolve"
          /\ [req[r] EXCEPT !.pc = "fetch"].pc = "fetch"
          /\ [req[r] EXCEPT !.pc = "ask"].pc = "ask"
      BY <1>1 DEF Request
    <3>. QED  BY Zenon, <1>4, <3>1
  <2>. QED  BY Zenon, <2>1
<1>5. CASE Load(r)
  BY Zenon, <1>3, <1>4, <1>5 DEF Load
<1>6. CASE Resolve(r)
  <2>1. req' = [req EXCEPT ![r] = [req[r] EXCEPT !.pc = "fetch"]]
    BY Zenon, <1>6 DEF Resolve
  <2>. QED  BY Zenon, <1>3, <1>4, <2>1
<1>7. CASE ResolveFails(r)
  BY Zenon, <1>3, <1>4, <1>7 DEF ResolveFails
<1>8. CASE FetchRead(r)
  <2>1. req'[r].pc = "fetched"
    BY <1>1, <1>8 DEF FetchRead, Request
  <2>. QED  BY Zenon, <2>1
<1>9. CASE FetchFails(r)
  BY Zenon, <1>3, <1>9 DEF FetchFails
<1>10. CASE FetchStore(r)
  BY Zenon, <1>3, <1>10 DEF FetchStore
<1>11. CASE Authorize(r)
  BY Zenon, <1>11 DEF Authorize
<1>12. CASE Answer(r)
  <2>1. req'[r].pc = "answered"
    BY <1>1, <1>12 DEF Answer, Request
  <2>. QED  BY Zenon, <2>1
<1>13. CASE Receive(r)
  <2>1. req'[r] = Decided(req[r].answer)
    BY Zenon, <1>3, <1>13 DEF Receive
  <2>2. req'[r].pc = "idle"
    BY <2>1 DEF Decided, Free
  <2>. QED  BY Zenon, <2>2
<1>14. CASE DecideFails(r)
  <2>1. req'[r].pc = "idle"
    BY Zenon, <1>1, <1>14 DEF DecideFails, Decided, Free
  <2>. QED  BY Zenon, <2>1
<1>. QED  BY Zenon, <1>2, <1>5, <1>6, <1>7, <1>8, <1>9, <1>10, <1>11, <1>12, <1>13, <1>14 DEF Step

LEMMA AcceptedInTime ==
    ASSUME InboundInv, Next, NEW r \in Slots,
           req[r].pc # "authorize", req'[r].pc = "authorize", req[r].token.key # 0
    PROVE  retired[req[r].token.key] <= TTL \/ req'[r].failed
<1>1. Surroundings /\ Requests
  BY Zenon, Parts
<1>2. req[r] \in Request /\ Fresh(req[r])
  BY Zenon, <1>1 DEF Requests, Sound, Orderly
<1>3. /\ keyset.keys \in SUBSET Keys /\ keyset.left \in Int
      /\ \A k \in Keys : retired[k] \in Int
      /\ keyset.left >= 0 => \A k \in keyset.keys : retired[k] + keyset.left <= TTL
  <2>1. keyset \in [keys : SUBSET Keys, left : -2..TTL] /\ retired \in [Keys -> Nat \cup {-1}]
    BY Zenon, <1>1 DEF Surroundings
  <2>2. keyset.keys \in SUBSET Keys /\ keyset.left \in Int /\ \A k \in Keys : retired[k] \in Int
    BY <2>1, Bounds
  <2>. QED  BY Zenon, <1>1, <2>2 DEF Surroundings, KeysAge
<1>4. req[r].set \in SUBSET Keys
  BY <1>2 DEF Request
<1>5. CASE Load(r) /\ keyset.left >= 0 /\ req'[r] = SelectKeys(r, keyset.keys)
  <2>1. req[r].token.key \in keyset.keys
    BY Zenon, <1>1, <1>2, <1>3, <1>5, SelectAccepts
  <2>. QED  BY <1>3, <1>5, <2>1, Bounds
<1>6. CASE FetchStore(r) /\ req'[r] = SelectKeys(r, req[r].set)
  <2>1. req[r].token.key \in req[r].set
    BY Zenon, <1>1, <1>2, <1>4, <1>6, SelectAccepts
  <2>2. retired[req[r].token.key] <= 0
    BY Zenon, <1>2, <1>6, <2>1 DEF Fresh, FetchStore
  <2>. QED  BY <1>3, <1>4, <2>1, <2>2, Bounds
<1>7. CASE req'[r] = Failing(r)
  BY Zenon, <1>1, <1>2, <1>7, FailingMarks
<1>8. CASE \E q \in Slots : Arrive(q) \/ Step(q)
  BY Zenon, <1>1, <1>5, <1>6, <1>7, <1>8, Others, AcceptedHow
<1>9. CASE PublishKey \/ Deny \/ Tick
  BY Zenon, <1>9 DEF PublishKey, Deny, Tick
<1>10. CASE RetireKey
  <2>1. PICK k : req' = [q \in Slots |-> [req[q] EXCEPT !.always = @ \ {k}]]
    BY Zenon, <1>10 DEF RetireKey
  <2>2. req'[r].pc = req[r].pc
    BY <1>2, <2>1 DEF Request
  <2>. QED  BY Zenon, <2>2
<1>. QED  BY Zenon, <1>8, <1>9, <1>10 DEF Next

\* A retired key is accepted for at most TTL after its retirement, by whatever
\* route its key set came into the cache, except by a request whose own load of
\* the keys failed (loadKeySet falls back to a snapshot of any age).
THEOREM RetiredKeyIsDropped == Spec => RetiredKeyDiesOut
<1>1. InboundInv /\ [Next]_vars =>
        [\A r \in Slots :
           req[r].pc # "authorize" /\ req'[r].pc = "authorize" /\ req[r].token.key # 0
         => retired[req[r].token.key] <= TTL \/ req'[r].failed]_vars
  BY Zenon, AcceptedInTime
<1>. QED  BY <1>1, InboundInvariance, PTL DEF Spec, RetiredKeyDiesOut

(***************************************************************************)
(* How long a withdrawn approval counts.                                   *)
(***************************************************************************)

\* A fault hits one request.
LEMMA OneFails ==
    ASSUME Requests, Next, faults' # faults
    PROVE  \E q \in Slots : /\ ResolveFails(q) \/ FetchFails(q) \/ DecideFails(q)
                            /\ \A p \in Slots : p # q => req'[p] = req[p]
<1>1. PICK q \in Slots : ResolveFails(q) \/ FetchFails(q) \/ DecideFails(q)
  BY Zenon DEF Next, Arrive, Step, Load, Resolve, FetchRead, FetchStore, Authorize, Answer, Receive,
         PublishKey, RetireKey, Deny, Tick
<1>2. Step(q)
  BY Zenon, <1>1 DEF Step
<1>. QED  BY Zenon, <1>1, <1>2, Others

LEMMA ApprovalInTime ==
    ASSUME InboundInv, Next, NEW r \in Slots, cfg.route = "authz", ~cfg.failOpen, faults' # faults,
           req[r].pc \in {"ask", "answered"}, req'[r].out = 200
    PROVE  denied <= DecisionTTL
<1>1. Surroundings /\ Requests
  BY Zenon, Parts
<1>2. DOMAIN req = Slots /\ req[r] \in Request /\ req[r].out # 200
  <2>1. DOMAIN req = Slots /\ req[r] \in Request /\ (req[r].pc # "idle" => req[r].out = 0)
    BY Zenon, <1>1 DEF Requests, Sound, Orderly
  <2>. QED  BY <2>1
<1>3. DecideFails(r)
  <2>1. PICK q \in Slots : /\ ResolveFails(q) \/ FetchFails(q) \/ DecideFails(q)
                           /\ \A p \in Slots : p # q => req'[p] = req[p]
    BY Zenon, <1>1, OneFails
  <2>2. q = r
    BY Zenon, <1>2, <2>1
  <2>. QED  BY Zenon, <2>1, <2>2 DEF ResolveFails, FetchFails
<1>4. /\ denied \in Nat /\ decision.left \in Int
      /\ decision.left >= 0 /\ decision.allowed => denied + decision.left <= DecisionTTL
  BY Zenon, <1>1 DEF Surroundings
<1>5. Cached /\ decision.allowed
  <2>1. req'[r] = IF Cached THEN Decided(decision.allowed) ELSE Free(503)
    BY Zenon, <1>2, <1>3 DEF DecideFails
  <2>2. Free(503).out # 200 /\ Free(403).out # 200
    BY DEF Free
  <2>3. ~decision.allowed => Decided(decision.allowed) = Free(403)
    BY Zenon DEF Decided
  <2>. QED  BY <2>1, <2>2, <2>3
<1>. QED  BY <1>4, <1>5, Bounds DEF Cached

\* While the decision endpoint cannot be reached, an approval is reused for at
\* most DecisionTTL after the policy turned to deny, although answers may be
\* stored in another order than they were given.
THEOREM WithdrawnApprovalExpires == Spec => StaleApprovalExpires
<1>1. InboundInv /\ [Next]_vars =>
        [\A r \in Slots :
           cfg.route = "authz" /\ ~cfg.failOpen /\ faults' # faults
             /\ req[r].pc \in {"ask", "answered"} /\ req'[r].out = 200
         => denied <= DecisionTTL]_vars
  BY Zenon, ApprovalInTime
<1>. QED  BY <1>1, InboundInvariance, PTL DEF Spec, StaleApprovalExpires
=============================================================================
