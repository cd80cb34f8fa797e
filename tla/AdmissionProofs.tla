--------------------------- MODULE AdmissionProofs ---------------------------
(* The theorems about Admission, for every value of its constants: how     *)
(* many limiters an address gets, how far the fallback cache may promise   *)
(* more than Sentinel has left, and when a day's limit can be passed.      *)
EXTENDS Admission, FiniteSetTheorems, TLAPS

(***************************************************************************)
(* The invariant in parts: what it says of one request, of what they       *)
(* share, and the three counts.                                            *)
(***************************************************************************)

IsOutcome(n) == n \in Nat /\ (n \in {0, Served} \/ n >= 400)

SaysSo(a) == a.allowed \/ a.status = 429

Sound(s) ==
    /\ s \in Request
    /\ s.pc # "idle" => s.i \in 1..Len(chain)
    /\ s.pc = "allow" => s.lim \in 1..Len(limiters)
    /\ s.pc = "stamped" => s.today \in 1..day
    /\ s.pc = "answered" => SaysSo(s.answer)
    /\ IsOutcome(s.out)

Requests == DOMAIN req = Slots /\ req = [r \in Slots |-> req[r]] /\ \A r \in Slots : Sound(req[r])

Shared ==
    /\ chain \in Chains
    /\ limiters \in Seq(0..Burst)
    /\ entry \in [id : Nat, idle : Nat] /\ entry.id <= Len(limiters)
    /\ sweep \in BOOLEAN
    /\ cache \in [result : Answer, left : Int]
    /\ bucket \in [day : Nat, count : Nat, idle : Nat] /\ bucket.day <= day
    /\ used \in Nat
    /\ day \in 1..MaxDay /\ ticks \in 0..MaxTicks /\ arrivals \in 0..MaxRequests
    /\ hist \in [created : Nat, overtaken : BOOLEAN, served : [1..MaxDay -> Nat],
                 rolledBack : BOOLEAN, swept : BOOLEAN]
    /\ cache.left >= 0 => SaysSo(cache.result)
    /\ NothingCached

Promises == AnswersHonest /\ CacheOptimisticOnlyByOvertaking

Counts == LimitersBounded /\ Promises /\ BucketCounts

Strengthened == Requests /\ Shared /\ Counts

\* A finite set of slots bounds the sets of requests.
LEMMA Sizes ==
    ASSUME NEW S \in SUBSET Slots
    PROVE  IsFiniteSet(S) /\ Cardinality(S) \in Nat /\ Cardinality(S) <= Cardinality(Slots)
           /\ Cardinality(Slots) \in Nat
<1>1. IsFiniteSet(Slots)
  BY Zenon, AdmissionConstants
<1>2. IsFiniteSet(S) /\ Cardinality(S) <= Cardinality(Slots)
  BY Zenon, <1>1, FS_Subset
<1>. QED  BY Zenon, <1>1, <1>2, FS_CardinalityType

LEMMA Bounds ==
    /\ MaxRequests \in Nat /\ MaxTicks \in Nat /\ MaxDay \in Nat \ {0}
    /\ Burst \in Nat /\ Interval \in Nat /\ TTL \in Int
  BY Zenon, AdmissionConstants

LEMMA Limits ==
    DailyLimit \in Nat /\ \A k \in Kinds : k.limit \in Int /\ k.limit <= DailyLimit
<1>1. IsDailyLimit(DailyLimit)
  BY Zenon, SomeLimitIsTheLargest DEF DailyLimit
<1>2. \A k \in Kinds : k.limit \in Int
  BY AdmissionConstants DEF Unlimited
<1>. QED  BY Zenon, <1>1, <1>2 DEF IsDailyLimit

\* The parts are the invariant: what AdmissionInv says besides follows.
LEMMA PartsImply == Strengthened => AdmissionInv
<1>. SUFFICES ASSUME Strengthened PROVE AdmissionInv
  OBVIOUS
<1>1. TypeOK
  <2>1. req \in [Slots -> Request] /\ \A r \in Slots : Sound(req[r])
    BY Zenon DEF Strengthened, Requests, Sound
  <2>. QED  BY Zenon, <2>1 DEF TypeOK, Strengthened, Shared, Sound
<1>2. RefusalIsAnError
  BY Zenon DEF RefusalIsAnError, Strengthened, Requests, Sound, IsOutcome
<1>3. RefusalsSaySo
  BY Zenon DEF RefusalsSaySo, SaysSo, Strengthened, Requests, Shared, Sound
<1>4. FirstRequestRaceBounded
  <2>1. hist.created \in Nat /\ hist.created + Cardinality(Storers) <= Cardinality(Slots)
    BY Zenon DEF Strengthened, Shared, Counts, LimitersBounded
  <2>2. Cardinality(Storers) \in Nat /\ Cardinality(Slots) \in Nat
    BY Zenon, Sizes DEF Storers
  <2>. QED  BY <2>1, <2>2 DEF FirstRequestRaceBounded
<1>5. OverrunHasACause
  <2>1. /\ DailyLimit \in Nat /\ bucket.count \in Nat /\ bucket.day \in Nat
        /\ hist.served \in [1..MaxDay -> Nat]
    BY Zenon, Limits DEF Strengthened, Shared
  <2>2. BucketCounts
    BY Zenon DEF Strengthened, Counts
  <2>3. ASSUME NEW d \in 1..MaxDay, ~hist.rolledBack, ~hist.swept PROVE hist.served[d] <= DailyLimit
    <3>1. \/ d = bucket.day \/ d > bucket.day \/ d < bucket.day
      BY <2>1, Bounds
    <3>. QED  BY <2>1, <2>2, <2>3, <3>1 DEF BucketCounts
  <2>4. ASSUME NEW d \in 1..MaxDay, hist.served[d] <= DailyLimit PROVE ~(hist.served[d] > DailyLimit)
    <3>1. hist.served[d] \in Nat
      BY Zenon, <2>1
    <3>. QED  BY <2>1, <2>4, <3>1
  <2>. QED  BY Zenon, <2>3, <2>4 DEF OverrunHasACause
<1>. QED  BY Zenon, <1>1, <1>2, <1>3, <1>4, <1>5 DEF AdmissionInv, Strengthened, Shared, Counts, Promises

(***************************************************************************)
(* Updates of one field of a request.                                      *)
(***************************************************************************)

LEMMA SetPc ==
    ASSUME NEW s \in Request, NEW x \in {"idle", "gate", "store", "allow", "asked", "answered", "stamped"}
    PROVE  LET u == [s EXCEPT !.pc = x] IN
           /\ u \in Request /\ u.pc = x /\ u.i = s.i /\ u.kind = s.kind
           /\ u.lim = s.lim /\ u.today = s.today /\ u.answer = s.answer
           /\ u.late = s.late /\ u.out = s.out
<1>1. [s EXCEPT !.pc = x] \in Request
  BY Zenon DEF Request
<1>. QED  BY Zenon, <1>1 DEF Request

LEMMA SetI ==
    ASSUME NEW s \in Request, NEW x \in Nat
    PROVE  LET u == [s EXCEPT !.i = x] IN
           /\ u \in Request /\ u.pc = s.pc /\ u.i = x /\ u.kind = s.kind
           /\ u.lim = s.lim /\ u.today = s.today /\ u.answer = s.answer
           /\ u.late = s.late /\ u.out = s.out
<1>1. [s EXCEPT !.i = x] \in Request
  BY Zenon DEF Request
<1>. QED  BY Zenon, <1>1 DEF Request

LEMMA SetKind ==
    ASSUME NEW s \in Request, NEW x \in Kinds
    PROVE  LET u == [s EXCEPT !.kind = x] IN
           /\ u \in Request /\ u.pc = s.pc /\ u.i = s.i /\ u.kind = x
           /\ u.lim = s.lim /\ u.today = s.today /\ u.answer = s.answer
           /\ u.late = s.late /\ u.out = s.out
<1>1. [s EXCEPT !.kind = x] \in Request
  BY Zenon DEF Request
<1>. QED  BY Zenon, <1>1 DEF Request

LEMMA SetLim ==
    ASSUME NEW s \in Request, NEW x \in Nat
    PROVE  LET u == [s EXCEPT !.lim = x] IN
           /\ u \in Request /\ u.pc = s.pc /\ u.i = s.i /\ u.kind = s.kind
           /\ u.lim = x /\ u.today = s.today /\ u.answer = s.answer
           /\ u.late = s.late /\ u.out = s.out
<1>1. [s EXCEPT !.lim = x] \in Request
  BY Zenon DEF Request
<1>. QED  BY Zenon, <1>1 DEF Request

LEMMA SetToday ==
    ASSUME NEW s \in Request, NEW x \in Nat
    PROVE  LET u == [s EXCEPT !.today = x] IN
           /\ u \in Request /\ u.pc = s.pc /\ u.i = s.i /\ u.kind = s.kind
           /\ u.lim = s.lim /\ u.today = x /\ u.answer = s.answer
           /\ u.late = s.late /\ u.out = s.out
<1>1. [s EXCEPT !.today = x] \in Request
  BY Zenon DEF Request
<1>. QED  BY Zenon, <1>1 DEF Request

LEMMA SetAnswer ==
    ASSUME NEW s \in Request, NEW x \in Answer
    PROVE  LET u == [s EXCEPT !.answer = x] IN
           /\ u \in Request /\ u.pc = s.pc /\ u.i = s.i /\ u.kind = s.kind
           /\ u.lim = s.lim /\ u.today = s.today /\ u.answer = x
           /\ u.late = s.late /\ u.out = s.out
<1>1. [s EXCEPT !.answer = x] \in Request
  BY Zenon DEF Request
<1>. QED  BY Zenon, <1>1 DEF Request

LEMMA SetLate ==
    ASSUME NEW s \in Request, NEW x \in BOOLEAN
    PROVE  LET u == [s EXCEPT !.late = x] IN
           /\ u \in Request /\ u.pc = s.pc /\ u.i = s.i /\ u.kind = s.kind
           /\ u.lim = s.lim /\ u.today = s.today /\ u.answer = s.answer
           /\ u.late = x /\ u.out = s.out
<1>1. [s EXCEPT !.late = x] \in Request
  BY Zenon DEF Request
<1>. QED  BY Zenon, <1>1 DEF Request

\* An outcome: a request that was served, or refused with a status.
LEMMA Outcomes ==
    IsOutcome(0) /\ IsOutcome(Served) /\ IsOutcome(429) /\ IsOutcome(403) /\ IsOutcome(503)
  BY DEF IsOutcome, Served

LEMMA FreeFields ==
    ASSUME NEW n \in Nat
    PROVE  /\ Free(n) \in Request /\ Free(n).pc = "idle" /\ Free(n).out = n
<1>1. Kinds # {}
  BY Zenon, AdmissionConstants
<1>2. (CHOOSE k \in Kinds : TRUE) \in Kinds
  BY Zenon, <1>1
<1>3. ASSUME NEW b \in BOOLEAN
      PROVE  [allowed |-> b, status |-> 0, remaining |-> 0, reset |-> b] \in Answer
  BY DEF Answer
<1>4. NoAnswer \in Answer
  BY Zenon, <1>3 DEF NoAnswer
<1>5. ASSUME NEW k \in Kinds, NEW b \in BOOLEAN, NEW a \in Answer
      PROVE  [pc |-> "idle", i |-> 0, kind |-> k, lim |-> 0, today |-> 0, answer |-> a,
              late |-> b, out |-> n] \in Request
  BY Zenon DEF Request
<1>6. Free(n) \in Request
  BY Zenon, <1>2, <1>4, <1>5 DEF Free
<1>7. Free(n).pc = "idle" /\ Free(n).out = n
  BY Zenon DEF Free
<1>. QED  BY Zenon, <1>6, <1>7

LEMMA FreeSound ==
    ASSUME NEW n, IsOutcome(n)
    PROVE  Sound(Free(n)) /\ Free(n).pc = "idle"
<1>1. n \in Nat
  BY Zenon DEF IsOutcome
<1>2. Free(n) \in Request /\ Free(n).pc = "idle" /\ Free(n).out = n
  BY Zenon, <1>1, FreeFields
<1>. QED  BY Zenon, <1>2 DEF Sound

\* c.Next(): the request is at the next gate or has ended.
LEMMA ForwardSound ==
    ASSUME Shared, NEW r \in Slots, Sound(req[r]), req[r].pc # "idle"
    PROVE  Sound(Forward(r)) /\ (Forward(r).pc = "gate" \/ Forward(r).pc = "idle")
<1>1. CASE ~(req[r].i < Len(chain))
  BY Zenon, <1>1, FreeSound, Outcomes DEF Forward
<1>2. CASE req[r].i < Len(chain)
  <2>. DEFINE a == [Free(0) EXCEPT !.pc = "gate"]
              b == [a EXCEPT !.i = req[r].i + 1]
              v == [b EXCEPT !.kind = req[r].kind]
  <2>1. Forward(r) = v
    BY Zenon, <1>2 DEF Forward
  <2>2. req[r] \in Request /\ req[r].i \in 1..Len(chain)
    BY Zenon DEF Sound
  <2>3. req[r].i + 1 \in 1..Len(chain) /\ req[r].i + 1 \in Nat /\ req[r].kind \in Kinds
    <3>1. req[r].i \in Nat /\ req[r].kind \in Kinds
      BY Zenon, <2>2 DEF Request
    <3>2. Len(chain) \in Nat
      <4>1. chain \in Seq(Gates)
        BY Zenon, AdmissionConstants DEF Shared
      <4>. QED  BY <4>1
    <3>. QED  BY <1>2, <2>2, <3>1, <3>2
  <2>4. Free(0) \in Request /\ Free(0).out = 0
    BY Zenon, FreeFields
  <2>5. a \in Request /\ a.pc = "gate" /\ a.out = 0
    BY Zenon, <2>4, SetPc
  <2>6. b \in Request /\ b.pc = "gate" /\ b.i = req[r].i + 1 /\ b.out = 0
    <3>. HIDE DEF a
    <3>. QED  BY Zenon, <2>3, <2>5, SetI
  <2>7. v \in Request /\ v.pc = "gate" /\ v.i = req[r].i + 1 /\ v.out = 0
    <3>. HIDE DEF b
    <3>. QED  BY Zenon, <2>3, <2>6, SetKind
  <2>. HIDE DEF v
  <2>8. v.pc # "allow" /\ v.pc # "stamped" /\ v.pc # "answered"
    BY Zenon, <2>7
  <2>9. Sound(v)
    BY Zenon, <2>3, <2>7, <2>8, Outcomes DEF Sound
  <2>. QED  BY Zenon, <2>1, <2>7, <2>9
<1>. QED  BY Zenon, <1>1, <1>2

(***************************************************************************)
(* A step of one request: r becomes s, and of the others at most the       *)
(* history of the answered ones changes.                                   *)
(***************************************************************************)

Marked(t) == [t EXCEPT !.late = TRUE]

Touches(r, s) ==
    /\ DOMAIN req' = Slots /\ req' = [q \in Slots |-> req'[q]] /\ req'[r] = s
    /\ \A q \in Slots : q # r =>
         \/ req'[q] = req[q]
         \/ req[q].pc = "answered" /\ req'[q] = Marked(req[q])

LEMMA TouchOne ==
    ASSUME Requests, NEW r \in Slots, NEW s, req' = [req EXCEPT ![r] = s]
    PROVE  Touches(r, s)
  BY Zenon DEF Requests, Touches

\* Overtake marks the answers on their way, and only those.
LEMMA TouchOvertake ==
    ASSUME Requests, NEW r \in Slots, NEW s, req' = Overtake([req EXCEPT ![r] = s], r)
    PROVE  /\ Touches(r, s)
           /\ \A q \in Slots : q # r /\ req[q].pc = "answered" => req'[q].late
<1>1. DOMAIN req = Slots /\ \A q \in Slots : req[q] \in Request
  BY Zenon DEF Requests, Sound
<1>. PICK calls : calls = [req EXCEPT ![r] = s]
  BY Zenon
<1>2. calls[r] = s /\ \A q \in Slots : q # r => calls[q] = req[q]
  BY Zenon, <1>1
<1>3. req' = [q \in Slots |-> IF q # r /\ calls[q].pc = "answered" THEN Marked(calls[q]) ELSE calls[q]]
  <2>1. req' = Overtake(calls, r)
    BY Zenon
  <2>. QED  BY Zenon, <2>1 DEF Overtake, Marked
<1>4. /\ DOMAIN req' = Slots /\ req' = [q \in Slots |-> req'[q]]
      /\ req'[r] = s
      /\ \A q \in Slots : q # r /\ req[q].pc = "answered" => req'[q] = Marked(req[q])
      /\ \A q \in Slots : q # r /\ req[q].pc # "answered" => req'[q] = req[q]
  <2>1. DOMAIN req' = Slots /\ req' = [q \in Slots |-> req'[q]]
    BY Zenon, <1>3
  <2>2. \A q \in Slots : req'[q] = IF q # r /\ calls[q].pc = "answered" THEN Marked(calls[q]) ELSE calls[q]
    BY Zenon, <1>3
  <2>3. req'[r] = s
    BY Zenon, <1>2, <2>2
  <2>4. ASSUME NEW q \in Slots, q # r
        PROVE  /\ req[q].pc = "answered" => req'[q] = Marked(req[q])
               /\ req[q].pc # "answered" => req'[q] = req[q]
    BY Zenon, <1>2, <2>2, <2>4
  <2>. QED  BY Zenon, <2>1, <2>3, <2>4
<1>5. TRUE \in BOOLEAN
  OBVIOUS
<1>6. \A q \in Slots : Marked(req[q]).late
  BY Zenon, <1>1, <1>5, SetLate DEF Marked
<1>. QED  BY Zenon, <1>4, <1>6 DEF Touches

\* What the others keep.
LEMMA OthersKeep ==
    ASSUME Requests, NEW r \in Slots, NEW s, Touches(r, s), NEW q \in Slots, q # r
    PROVE  /\ req'[q].pc = req[q].pc /\ req'[q].answer = req[q].answer
           /\ req[q].late => req'[q].late
<1>1. req[q] \in Request /\ TRUE \in BOOLEAN
  BY Zenon DEF Requests, Sound
<1>2. LET u == Marked(req[q]) IN
      u.pc = req[q].pc /\ u.answer = req[q].answer /\ u.late
  BY Zenon, <1>1, SetLate DEF Marked
<1>. QED  BY Zenon, <1>2 DEF Touches

LEMMA StorersAfter ==
    ASSUME Requests, NEW r \in Slots, NEW s, Touches(r, s)
    PROVE  Storers' = IF s.pc = "store" THEN Storers \cup {r} ELSE Storers \ {r}
<1>1. \A q \in Slots : q # r => req'[q].pc = req[q].pc
  BY Zenon, OthersKeep
<1>2. req'[r] = s
  BY Zenon DEF Touches
<1>. QED  BY Zenon, <1>1, <1>2 DEF Storers

LEMMA OnTheirWayAfter ==
    ASSUME Requests, NEW r \in Slots, NEW s, Touches(r, s)
    PROVE  OnTheirWay' = IF s.pc = "answered" /\ s.answer.allowed THEN OnTheirWay \cup {r}
                         ELSE OnTheirWay \ {r}
<1>1. \A q \in Slots : q # r => req'[q].pc = req[q].pc /\ req'[q].answer = req[q].answer
  BY Zenon, OthersKeep
<1>2. req'[r] = s
  BY Zenon DEF Touches
<1>. QED  BY Zenon, <1>1, <1>2 DEF OnTheirWay

\* What is said of a request stays true while limiters and days only grow.
LEMMA SoundAfter ==
    ASSUME chain' = chain, Len(limiters) \in Nat, Len(limiters') \in Nat, day \in Nat, day' \in Nat,
           Len(limiters) <= Len(limiters'), day <= day',
           NEW q \in Slots, NEW t, Sound(t), req'[q] = t
    PROVE  Sound(req[q])'
<1>1. /\ t.lim \in 1..Len(limiters) => t.lim \in 1..Len(limiters')
      /\ t.today \in 1..day => t.today \in 1..day'
  OBVIOUS
<1>. QED  BY Zenon, <1>1 DEF Sound

\* A request marked late is as sound as it was.
LEMMA LateSound ==
    ASSUME NEW t, Sound(t)
    PROVE  Sound(Marked(t))
<1>1. t \in Request /\ TRUE \in BOOLEAN
  BY Zenon DEF Sound
<1>2. LET u == Marked(t) IN
      /\ u \in Request /\ u.pc = t.pc /\ u.i = t.i /\ u.lim = t.lim /\ u.today = t.today
      /\ u.answer = t.answer /\ u.out = t.out
  BY Zenon, <1>1, SetLate DEF Marked
<1>. QED  BY Zenon, <1>2 DEF Sound

LEMMA OneRequest ==
    ASSUME Requests, NEW r \in Slots, NEW s, Sound(s), Touches(r, s),
           chain' = chain, Len(limiters) \in Nat, Len(limiters') \in Nat, day \in Nat, day' \in Nat,
           Len(limiters) <= Len(limiters'), day <= day'
    PROVE  Requests'
<1>1. ASSUME NEW q \in Slots PROVE Sound(req[q])'
  <2>. PICK t : t = req'[q]
    BY Zenon
  <2>1. Sound(t)
    <3>1. CASE q = r
      BY Zenon, <3>1 DEF Touches
    <3>2. CASE q # r
      BY Zenon, <3>2, LateSound DEF Requests, Touches
    <3>. QED  BY Zenon, <3>1, <3>2
  <2>. QED  BY Zenon, <2>1, SoundAfter
<1>. QED  BY Zenon, <1>1 DEF Requests, Touches

(***************************************************************************)
(* The counts, under steps that do not touch them.                         *)
(***************************************************************************)

LEMMA LimitersQuiet ==
    ASSUME Requests, LimitersBounded, NEW r \in Slots, NEW s, Touches(r, s),
           req[r].pc # "store", s.pc # "store",
           hist'.created = hist.created, entry'.id = entry.id
    PROVE  LimitersBounded'
<1>1. Storers' = Storers
  <2>1. Storers' = Storers \ {r}
    BY Zenon, StorersAfter
  <2>2. r \notin Storers
    BY Zenon DEF Storers
  <2>. QED  BY Zenon, <2>1, <2>2
<1>. QED  BY Zenon, <1>1 DEF LimitersBounded

LEMMA PromisesQuiet ==
    ASSUME Requests, Promises, NEW r \in Slots, NEW s, Touches(r, s),
           req[r].pc # "answered", s.pc # "answered",
           used' = used, cache' = cache, hist'.overtaken = hist.overtaken
    PROVE  Promises'
<1>1. OnTheirWay' = OnTheirWay
  <2>1. OnTheirWay' = OnTheirWay \ {r}
    BY Zenon, OnTheirWayAfter
  <2>2. r \notin OnTheirWay
    BY Zenon DEF OnTheirWay
  <2>. QED  BY Zenon, <2>1, <2>2
<1>2. CacheOptimisticOnlyByOvertaking'
  BY Zenon, <1>1 DEF Promises, CacheOptimisticOnlyByOvertaking
<1>3. ASSUME NEW q \in Slots, req'[q].pc = "answered", ~req'[q].late, req'[q].answer.allowed,
             req'[q].answer.remaining # Unlimited
      PROVE  req'[q].answer.remaining <= DailyLimit - used' + Cardinality(OnTheirWay' \ {q})
  <2>1. q # r
    BY Zenon, <1>3 DEF Touches
  <2>2. req[q].pc = "answered" /\ ~req[q].late /\ req'[q].answer = req[q].answer
    BY Zenon, <1>3, <2>1, OthersKeep
  <2>. QED  BY Zenon, <1>1, <1>3, <2>2 DEF Promises, AnswersHonest
<1>. QED  BY Zenon, <1>2, <1>3 DEF Promises, AnswersHonest

LEMMA BucketQuiet ==
    ASSUME BucketCounts, bucket'.day = bucket.day, bucket'.count = bucket.count,
           hist'.served = hist.served, hist'.rolledBack = hist.rolledBack, hist'.swept = hist.swept
    PROVE  BucketCounts'
  BY Zenon DEF BucketCounts

LEMMA CountsTyped ==
    ASSUME Shared
    PROVE  /\ Len(limiters) \in Nat /\ day \in Nat /\ used \in Nat /\ DOMAIN limiters = 1..Len(limiters)
           /\ \A l \in 1..Len(limiters) : limiters[l] \in 0..Burst
<1>1. limiters \in Seq(0..Burst) /\ day \in 1..MaxDay /\ used \in Nat
  BY Zenon DEF Shared
<1>. QED  BY <1>1, Bounds

\* A step of one request that counts nothing.
LEMMA QuietStep ==
    ASSUME Requests, Shared, Counts, NEW r \in Slots, NEW s, Sound(s), req' = [req EXCEPT ![r] = s],
           req[r].pc # "store", s.pc # "store", req[r].pc # "answered", s.pc # "answered",
           limiters' \in Seq(0..Burst), Len(limiters') = Len(limiters),
           entry' \in [id : Nat, idle : Nat], entry'.id = entry.id, arrivals' \in 0..MaxRequests,
           UNCHANGED <<chain, sweep, used, cache, bucket, day, ticks, hist>>
    PROVE  Requests' /\ Shared' /\ Counts'
<1>1. Touches(r, s)
  BY Zenon, TouchOne
<1>2. Requests'
  <2>1. Len(limiters) \in Nat /\ Len(limiters) <= Len(limiters') /\ day \in Nat /\ day <= day'
        /\ Len(limiters') \in Nat /\ day' \in Nat
    BY CountsTyped
  <2>. QED  BY Zenon, <1>1, <2>1, OneRequest
<1>3. Shared'
  BY Zenon DEF Shared, NothingCached
<1>4. hist'.created = hist.created /\ hist'.overtaken = hist.overtaken /\ hist'.served = hist.served
      /\ hist'.rolledBack = hist.rolledBack /\ hist'.swept = hist.swept
      /\ bucket'.day = bucket.day /\ bucket'.count = bucket.count /\ used' = used /\ cache' = cache
  BY Zenon
<1>5. Counts'
  BY Zenon, <1>1, <1>4, LimitersQuiet, PromisesQuiet, BucketQuiet DEF Counts
<1>. QED  BY Zenon, <1>2, <1>3, <1>5

\* The shared part of a step that changes nothing shared.
LEMMA Still ==
    ASSUME Shared, UNCHANGED <<limiters, entry, arrivals>>
    PROVE  /\ limiters' \in Seq(0..Burst) /\ Len(limiters') = Len(limiters)
           /\ entry' \in [id : Nat, idle : Nat] /\ entry'.id = entry.id /\ arrivals' \in 0..MaxRequests
  BY Zenon DEF Shared

LEMMA ArriveStep ==
    ASSUME Requests, Shared, Counts, NEW r \in Slots, Arrive(r)
    PROVE  Requests' /\ Shared' /\ Counts'
<1>1. PICK k \in Kinds : req' = [req EXCEPT ![r] = [Free(0) EXCEPT !.pc = "gate", !.i = 1, !.kind = k]]
  BY Zenon DEF Arrive
<1>. DEFINE a == [Free(0) EXCEPT !.pc = "gate"]
            b == [a EXCEPT !.i = 1]
            v == [b EXCEPT !.kind = k]
<1>2. Free(0) \in Request /\ Free(0).out = 0 /\ 1 \in Nat
  BY Zenon, FreeFields
<1>3. a \in Request /\ a.pc = "gate" /\ a.out = 0
  BY Zenon, <1>2, SetPc
<1>4. b \in Request /\ b.pc = "gate" /\ b.i = 1 /\ b.out = 0
  <2>. HIDE DEF a
  <2>. QED  BY Zenon, <1>2, <1>3, SetI
<1>5. v \in Request /\ v.pc = "gate" /\ v.i = 1 /\ v.out = 0
  <2>. HIDE DEF b
  <2>. QED  BY Zenon, <1>4, SetKind
<1>6. req' = [req EXCEPT ![r] = v]
  BY Zenon, <1>1
<1>. HIDE DEF v
<1>7. 1 \in 1..Len(chain)
  <2>1. chain \in Seq(Gates) /\ chain # <<>>
    BY Zenon, AdmissionConstants DEF Shared
  <2>. QED  BY <2>1
<1>8. v.pc # "allow" /\ v.pc # "stamped" /\ v.pc # "answered" /\ v.pc # "store"
  BY Zenon, <1>5
<1>9. Sound(v)
  BY Zenon, <1>5, <1>7, <1>8, Outcomes DEF Sound
<1>10. req[r].pc # "store" /\ req[r].pc # "answered"
  BY Zenon DEF Arrive
<1>11. /\ UNCHANGED <<chain, limiters, entry, sweep, used, cache, bucket, day, ticks, hist>>
       /\ arrivals' \in 0..MaxRequests
  <2>1. arrivals \in 0..MaxRequests /\ arrivals < MaxRequests /\ arrivals' = arrivals + 1
    BY Zenon DEF Arrive, Shared
  <2>2. arrivals' \in 0..MaxRequests
    BY <2>1, Bounds
  <2>. QED  BY Zenon, <2>2 DEF Arrive
<1>12. /\ limiters' \in Seq(0..Burst) /\ Len(limiters') = Len(limiters)
       /\ entry' \in [id : Nat, idle : Nat] /\ entry'.id = entry.id
  BY Zenon, <1>11 DEF Shared
<1>. QED  BY Zenon, <1>6, <1>8, <1>9, <1>10, <1>11, <1>12, QuietStep

\* A request that passes a gate or is refused.
LEMMA Leaves ==
    ASSUME Requests, Shared, NEW r \in Slots, req[r].pc # "idle", NEW s,
           s = Forward(r) \/ \E n : s = Free(n) /\ IsOutcome(n)
    PROVE  Sound(s) /\ s.pc # "store" /\ s.pc # "answered"
<1>1. Sound(s) /\ (s.pc = "gate" \/ s.pc = "idle")
  BY Zenon, ForwardSound, FreeSound DEF Requests
<1>. QED  BY Zenon, <1>1

LEMMA StatusStep ==
    ASSUME Requests, Shared, Counts, NEW r \in Slots, TenantStatusMiddleware(r)
    PROVE  Requests' /\ Shared' /\ Counts'
<1>1. req[r].pc = "gate" /\ UNCHANGED <<chain, limiters, entry, sweep, used, cache, bucket, day, ticks, arrivals, hist>>
  BY Zenon DEF TenantStatusMiddleware, At
<1>2. req[r].pc # "idle" /\ req[r].pc # "store" /\ req[r].pc # "answered"
  BY Zenon, <1>1
<1>3. PICK s : req' = [req EXCEPT ![r] = s] /\ (s = Forward(r) \/ \E n : s = Free(n) /\ IsOutcome(n))
  <2>1. req' = [req EXCEPT ![r] = Forward(r)] \/ req' = [req EXCEPT ![r] = Free(403)]
    BY Zenon DEF TenantStatusMiddleware, Pass, Deny
  <2>. QED  BY <2>1, Outcomes
<1>4. Sound(s) /\ s.pc # "store" /\ s.pc # "answered"
  BY Zenon, <1>2, <1>3, Leaves
<1>. QED  BY Zenon, <1>1, <1>2, <1>3, <1>4, Still, QuietStep

\* The middleware passes a request on, or asks.
LEMMA SentinelMiddlewareStep ==
    ASSUME Requests, Shared, Counts, NEW r \in Slots, SentinelMiddleware(r)
    PROVE  Requests' /\ Shared' /\ Counts'
<1>1. req[r].pc = "gate" /\ UNCHANGED <<chain, limiters, entry, sweep, used, cache, bucket, day, ticks, arrivals, hist>>
  BY Zenon DEF SentinelMiddleware, SentinelUnchanged, At
<1>2. req[r].pc # "idle" /\ req[r].pc # "store" /\ req[r].pc # "answered"
  BY Zenon, <1>1
<1>3. PICK s : req' = [req EXCEPT ![r] = s] /\ (s = Forward(r) \/ s = [req[r] EXCEPT !.pc = "asked"])
  BY Zenon DEF SentinelMiddleware, Pass
<1>4. Sound(s) /\ s.pc # "store" /\ s.pc # "answered"
  <2>1. CASE s = Forward(r)
    BY Zenon, <1>2, <2>1, Leaves
  <2>2. CASE s = [req[r] EXCEPT !.pc = "asked"]
    <3>1. Sound(req[r]) /\ req[r] \in Request
      BY Zenon DEF Requests, Sound
    <3>2. s \in Request /\ s.pc = "asked" /\ s.i = req[r].i /\ s.out = req[r].out
      BY Zenon, <2>2, <3>1, SetPc
    <3>3. s.pc # "store" /\ s.pc # "answered" /\ s.pc # "allow" /\ s.pc # "stamped"
      BY Zenon, <3>2
    <3>. QED  BY Zenon, <1>2, <3>1, <3>2, <3>3 DEF Sound
  <2>. QED  BY Zenon, <1>3, <2>1, <2>2
<1>. QED  BY Zenon, <1>1, <1>2, <1>3, <1>4, Still, QuietStep

\* The day is stamped on the request.
LEMMA LocalStampStep ==
    ASSUME Requests, Shared, Counts, NEW r \in Slots, LocalStamp(r)
    PROVE  Requests' /\ Shared' /\ Counts'
<1>1. req[r].pc = "gate" /\ UNCHANGED <<chain, limiters, entry, sweep, used, cache, bucket, day, ticks, arrivals, hist>>
  BY Zenon DEF LocalStamp, LocalUnchanged, At
<1>2. req[r].pc # "idle" /\ req[r].pc # "store" /\ req[r].pc # "answered"
  BY Zenon, <1>1
<1>3. PICK s : req' = [req EXCEPT ![r] = s]
               /\ (s = Forward(r) \/ s = [[req[r] EXCEPT !.pc = "stamped"] EXCEPT !.today = day])
  <2>1. CASE req[r].kind.tenant
    <3>1. req' = [req EXCEPT ![r] = [[req[r] EXCEPT !.pc = "stamped"] EXCEPT !.today = day]]
      BY Zenon, <2>1 DEF LocalStamp
    <3>. QED  BY Zenon, <3>1
  <2>. QED  BY Zenon, <2>1 DEF LocalStamp, Pass
<1>4. Sound(s) /\ s.pc # "store" /\ s.pc # "answered"
  <2>1. CASE s = Forward(r)
    BY Zenon, <1>2, <2>1, Leaves
  <2>2. CASE s = [[req[r] EXCEPT !.pc = "stamped"] EXCEPT !.today = day]
    <3>. DEFINE a == [req[r] EXCEPT !.pc = "stamped"]
    <3>1. Sound(req[r]) /\ req[r] \in Request
      BY Zenon DEF Requests, Sound
    <3>2. a \in Request /\ a.pc = "stamped" /\ a.i = req[r].i /\ a.out = req[r].out
      BY Zenon, <3>1, SetPc
    <3>3. s \in Request /\ s.pc = "stamped" /\ s.i = req[r].i /\ s.out = req[r].out /\ s.today = day
      <4>1. day \in Nat
        BY Zenon, CountsTyped
      <4>. HIDE DEF a
      <4>. QED  BY Zenon, <2>2, <3>2, <4>1, SetToday DEF a
    <3>4. s.pc # "store" /\ s.pc # "answered" /\ s.pc # "allow" /\ day \in 1..day
      BY <3>3, Bounds DEF Shared
    <3>. QED  BY Zenon, <1>2, <3>1, <3>3, <3>4 DEF Sound
  <2>. QED  BY Zenon, <1>3, <2>1, <2>2
<1>. QED  BY Zenon, <1>1, <1>2, <1>3, <1>4, Still, QuietStep

\* Updates of one field of the history.
History == [created : Nat, overtaken : BOOLEAN, served : [1..MaxDay -> Nat],
            rolledBack : BOOLEAN, swept : BOOLEAN]

LEMMA SetCreated ==
    ASSUME NEW h \in History, NEW n \in Nat
    PROVE  LET u == [h EXCEPT !.created = n] IN
           /\ u \in History /\ u.created = n /\ u.overtaken = h.overtaken /\ u.served = h.served
           /\ u.rolledBack = h.rolledBack /\ u.swept = h.swept
<1>1. [h EXCEPT !.created = n] \in History
  BY Zenon DEF History
<1>. QED  BY Zenon, <1>1 DEF History

LEMMA SetOvertaken ==
    ASSUME NEW h \in History, NEW x \in BOOLEAN
    PROVE  LET u == [h EXCEPT !.overtaken = x] IN
           /\ u \in History /\ u.created = h.created /\ u.overtaken = x /\ u.served = h.served
           /\ u.rolledBack = h.rolledBack /\ u.swept = h.swept
<1>1. [h EXCEPT !.overtaken = x] \in History
  BY Zenon DEF History
<1>. QED  BY Zenon, <1>1 DEF History

LEMMA SetServed ==
    ASSUME NEW h \in History, NEW f \in [1..MaxDay -> Nat]
    PROVE  LET u == [h EXCEPT !.served = f] IN
           /\ u \in History /\ u.created = h.created /\ u.overtaken = h.overtaken /\ u.served = f
           /\ u.rolledBack = h.rolledBack /\ u.swept = h.swept
<1>1. [h EXCEPT !.served = f] \in History
  BY Zenon DEF History
<1>. QED  BY Zenon, <1>1 DEF History

LEMMA SetRolledBack ==
    ASSUME NEW h \in History, NEW x \in BOOLEAN
    PROVE  LET u == [h EXCEPT !.rolledBack = x] IN
           /\ u \in History /\ u.created = h.created /\ u.overtaken = h.overtaken /\ u.served = h.served
           /\ u.rolledBack = x /\ u.swept = h.swept
<1>1. [h EXCEPT !.rolledBack = x] \in History
  BY Zenon DEF History
<1>. QED  BY Zenon, <1>1 DEF History

LEMMA SetSwept ==
    ASSUME NEW h \in History, NEW x \in BOOLEAN
    PROVE  LET u == [h EXCEPT !.swept = x] IN
           /\ u \in History /\ u.created = h.created /\ u.overtaken = h.overtaken /\ u.served = h.served
           /\ u.rolledBack = h.rolledBack /\ u.swept = x
<1>1. [h EXCEPT !.swept = x] \in History
  BY Zenon DEF History
<1>. QED  BY Zenon, <1>1 DEF History

(***************************************************************************)
(* The rate limiter.                                                       *)
(***************************************************************************)

Holding(t, l) == [[t EXCEPT !.pc = "allow"] EXCEPT !.lim = l]

LEMMA Allowing ==
    ASSUME Requests, NEW r \in Slots, NEW l \in Nat
    PROVE  LET s == Holding(req[r], l) IN
           s \in Request /\ s.pc = "allow" /\ s.lim = l /\ s.i = req[r].i /\ s.out = req[r].out
<1>. DEFINE a == [req[r] EXCEPT !.pc = "allow"]
<1>1. req[r] \in Request
  BY Zenon DEF Requests, Sound
<1>2. a \in Request /\ a.pc = "allow" /\ a.i = req[r].i /\ a.out = req[r].out
  BY Zenon, <1>1, SetPc
<1>. DEFINE v == [a EXCEPT !.lim = l]
<1>3. v \in Request /\ v.pc = "allow" /\ v.lim = l /\ v.i = req[r].i /\ v.out = req[r].out
  <2>. HIDE DEF a
  <2>. QED  BY Zenon, <1>2, SetLim
<1>4. Holding(req[r], l) = v
  BY Zenon DEF Holding
<1>. HIDE DEF v
<1>. QED  BY Zenon, <1>3, <1>4

\* The first half of getLimiter finds a limiter.
LEMMA LoadFinds ==
    ASSUME Requests, Shared, Counts, NEW r \in Slots, LoadLimiter(r), entry.id # 0
    PROVE  Requests' /\ Shared' /\ Counts'
<1>1. /\ req[r].pc = "gate" /\ UNCHANGED <<chain, limiters, sweep, used, cache, bucket, day, ticks, arrivals, hist>>
      /\ entry' = [entry EXCEPT !.idle = 0]
  BY Zenon DEF LoadLimiter, RateUnchanged, At
<1>2. req[r].pc # "idle" /\ req[r].pc # "store" /\ req[r].pc # "answered"
  BY Zenon, <1>1
<1>3. PICK s : req' = [req EXCEPT ![r] = s] /\ s = Holding(req[r], entry.id)
  <2>1. req' = [req EXCEPT ![r] = [[req[r] EXCEPT !.pc = "allow"] EXCEPT !.lim = entry.id]]
    BY Zenon DEF LoadLimiter
  <2>. QED  BY Zenon, <2>1 DEF Holding
<1>4. entry.id \in Nat /\ entry.id \in 1..Len(limiters) /\ entry' \in [id : Nat, idle : Nat] /\ entry'.id = entry.id
  <2>1. entry \in [id : Nat, idle : Nat] /\ entry.id <= Len(limiters) /\ Len(limiters) \in Nat
    BY Zenon, CountsTyped DEF Shared
  <2>. QED  BY <1>1, <2>1
<1>5. s \in Request /\ s.pc = "allow" /\ s.lim = entry.id /\ s.i = req[r].i /\ s.out = req[r].out
  BY Zenon, <1>3, <1>4, Allowing
<1>6. s.pc # "store" /\ s.pc # "answered" /\ s.pc # "stamped"
  BY Zenon, <1>5
<1>7. Sound(s)
  BY Zenon, <1>2, <1>4, <1>5, <1>6 DEF Sound, Requests
<1>8. limiters' \in Seq(0..Burst) /\ Len(limiters') = Len(limiters) /\ arrivals' \in 0..MaxRequests
  BY Zenon, <1>1 DEF Shared
<1>. QED  BY Zenon, <1>1, <1>2, <1>3, <1>4, <1>6, <1>7, <1>8, QuietStep

\* It finds none: the request will store one of its own.
LEMMA LoadMisses ==
    ASSUME Requests, Shared, Counts, NEW r \in Slots, LoadLimiter(r), entry.id = 0
    PROVE  Requests' /\ Shared' /\ Counts'
<1>1. /\ req[r].pc = "gate" /\ UNCHANGED <<chain, limiters, entry, sweep, used, cache, bucket, day, ticks, arrivals, hist>>
      /\ req' = [req EXCEPT ![r] = [req[r] EXCEPT !.pc = "store"]]
  BY Zenon DEF LoadLimiter, RateUnchanged, At
<1>2. req[r].pc # "idle" /\ req[r].pc # "store" /\ req[r].pc # "answered"
  BY Zenon, <1>1
<1>3. PICK s : req' = [req EXCEPT ![r] = s] /\ s = [req[r] EXCEPT !.pc = "store"]
  BY Zenon, <1>1
<1>4. Sound(req[r]) /\ req[r] \in Request
  BY Zenon DEF Requests, Sound
<1>5. s \in Request /\ s.pc = "store" /\ s.i = req[r].i /\ s.out = req[r].out
  BY Zenon, <1>3, <1>4, SetPc
<1>6. s.pc # "answered" /\ s.pc # "stamped" /\ s.pc # "allow"
  BY Zenon, <1>5
<1>7. Sound(s)
  BY Zenon, <1>2, <1>4, <1>5, <1>6 DEF Sound
<1>8. Touches(r, s)
  BY Zenon, <1>3, TouchOne
<1>9. Requests'
  <2>1. Len(limiters) \in Nat /\ Len(limiters) <= Len(limiters') /\ day \in Nat /\ day <= day'
        /\ Len(limiters') \in Nat /\ day' \in Nat
    BY <1>1, CountsTyped
  <2>. QED  BY Zenon, <1>1, <1>7, <1>8, <2>1, OneRequest
<1>10. Shared'
  BY Zenon, <1>1 DEF Shared, NothingCached
<1>11. LimitersBounded'
  <2>1. hist'.created = 0
    BY Zenon, <1>1 DEF Counts, LimitersBounded
  <2>2. Storers' \in SUBSET Slots
    <3>1. Storers' = Storers \cup {r}
      BY Zenon, <1>5, <1>8, StorersAfter
    <3>. QED  BY Zenon, <3>1 DEF Storers
  <2>3. Cardinality(Storers') \in Nat /\ Cardinality(Storers') <= Cardinality(Slots)
    BY Zenon, <2>2, Sizes
  <2>4. hist'.created + Cardinality(Storers') <= Cardinality(Slots)
    BY <2>1, <2>3
  <2>. QED  BY Zenon, <2>1, <2>4 DEF LimitersBounded
<1>12. Promises' /\ BucketCounts'
  BY Zenon, <1>1, <1>2, <1>6, <1>8, PromisesQuiet, BucketQuiet DEF Counts
<1>. QED  BY Zenon, <1>9, <1>10, <1>11, <1>12 DEF Counts

\* The second half: one storer fewer, one limiter more.
LEMMA StoreStep ==
    ASSUME Requests, Shared, Counts, NEW r \in Slots, StoreLimiter(r)
    PROVE  Requests' /\ Shared' /\ Counts'
<1>1. /\ req[r].pc = "store" /\ UNCHANGED <<chain, sweep, used, cache, bucket, day, ticks, arrivals>>
      /\ limiters' = Append(limiters, Burst) /\ entry' = [id |-> Len(limiters'), idle |-> 0]
      /\ hist' = [hist EXCEPT !.created = hist.created + 1]
  BY Zenon DEF StoreLimiter, RateUnchanged
<1>2. req[r].pc # "idle" /\ req[r].pc # "answered"
  BY Zenon, <1>1
<1>3. PICK s : req' = [req EXCEPT ![r] = s] /\ s = Holding(req[r], Len(limiters'))
  <2>1. req' = [req EXCEPT ![r] = [[req[r] EXCEPT !.pc = "allow"] EXCEPT !.lim = Len(limiters')]]
    BY Zenon DEF StoreLimiter
  <2>. QED  BY Zenon, <2>1 DEF Holding
<1>4. /\ Len(limiters) \in Nat /\ Len(limiters') \in Nat /\ Len(limiters) <= Len(limiters')
      /\ Len(limiters') \in 1..Len(limiters') /\ limiters' \in Seq(0..Burst)
  <2>1. limiters \in Seq(0..Burst) /\ Burst \in 0..Burst
    BY Bounds DEF Shared
  <2>. QED  BY <1>1, <2>1
<1>5. s \in Request /\ s.pc = "allow" /\ s.lim = Len(limiters') /\ s.i = req[r].i /\ s.out = req[r].out
  BY Zenon, <1>3, <1>4, Allowing
<1>6. s.pc # "store" /\ s.pc # "answered" /\ s.pc # "stamped"
  BY Zenon, <1>5
<1>7. Touches(r, s)
  BY Zenon, <1>3, TouchOne
<1>8. Requests'
  <2>1. day \in Nat /\ day' \in Nat /\ day <= day'
    BY <1>1, CountsTyped
  <2>2. ASSUME NEW q \in Slots PROVE Sound(req[q])'
    <3>1. CASE q = r
      <4>1. req'[q] = s
        BY Zenon, <3>1, <1>7 DEF Touches
      <4>2. s.i \in 1..Len(chain) /\ IsOutcome(s.out)
        BY Zenon, <1>2, <1>5 DEF Requests, Sound
      <4>. QED  BY Zenon, <1>1, <1>4, <1>5, <1>6, <4>1, <4>2 DEF Sound
    <3>2. CASE q # r
      <4>1. PICK t : t = req[q] /\ req'[q] = t
        BY Zenon, <1>3, <3>2 DEF Requests
      <4>. QED  BY Zenon, <1>1, <1>4, <2>1, <4>1, SoundAfter DEF Requests
    <3>. QED  BY Zenon, <3>1, <3>2
  <2>. QED  BY Zenon, <1>7, <2>2 DEF Requests, Touches
<1>9. entry' \in [id : Nat, idle : Nat] /\ entry'.id = Len(limiters') /\ entry'.id # 0
  BY <1>1, <1>4
<1>10. /\ hist' \in [created : Nat, overtaken : BOOLEAN, served : [1..MaxDay -> Nat],
                     rolledBack : BOOLEAN, swept : BOOLEAN]
       /\ hist'.created = hist.created + 1 /\ hist'.overtaken = hist.overtaken /\ hist'.served = hist.served
       /\ hist'.rolledBack = hist.rolledBack /\ hist'.swept = hist.swept /\ hist.created \in Nat
  <2>1. hist \in History /\ hist.created \in Nat /\ hist.created + 1 \in Nat
    BY DEF Shared, History
  <2>. HIDE DEF History
  <2>. QED  BY Zenon, <1>1, <2>1, SetCreated DEF History
<1>11. Shared'
  <2>1. entry'.id <= Len(limiters')
    BY <1>4, <1>9
  <2>. QED  BY Zenon, <1>1, <1>4, <1>9, <1>10, <2>1 DEF Shared, NothingCached
<1>12. LimitersBounded'
  <2>1. Storers' = Storers \ {r}
    BY Zenon, <1>6, <1>7, StorersAfter
  <2>2. Storers \in SUBSET Slots /\ r \in Storers
    BY Zenon, <1>1 DEF Storers
  <2>3. IsFiniteSet(Storers) /\ Cardinality(Storers) \in Nat /\ Cardinality(Slots) \in Nat
    BY Zenon, <2>2, Sizes
  <2>4. Cardinality(Storers') = Cardinality(Storers) - 1
    BY Zenon, <2>1, <2>2, <2>3, FS_RemoveElement
  <2>5. hist.created + Cardinality(Storers) <= Cardinality(Slots)
    BY Zenon DEF Counts, LimitersBounded
  <2>6. hist'.created + Cardinality(Storers') <= Cardinality(Slots)
    BY <1>10, <2>3, <2>4, <2>5
  <2>. QED  BY Zenon, <1>9, <2>6 DEF LimitersBounded
<1>13. Promises' /\ BucketCounts'
  <2>1. bucket'.day = bucket.day /\ bucket'.count = bucket.count
    BY Zenon, <1>1
  <2>. QED  BY Zenon, <1>1, <1>2, <1>6, <1>7, <1>10, <2>1, PromisesQuiet, BucketQuiet DEF Counts
<1>. QED  BY Zenon, <1>8, <1>11, <1>12, <1>13 DEF Counts

LEMMA AllowStep ==
    ASSUME Requests, Shared, Counts, NEW r \in Slots, Allow(r)
    PROVE  Requests' /\ Shared' /\ Counts'
<1>1. req[r].pc = "allow" /\ UNCHANGED <<chain, entry, sweep, used, cache, bucket, day, ticks, arrivals, hist>>
  BY Zenon DEF Allow, RateUnchanged
<1>2. req[r].pc # "idle" /\ req[r].pc # "store" /\ req[r].pc # "answered"
  BY Zenon, <1>1
<1>3. PICK s : req' = [req EXCEPT ![r] = s] /\ (s = Forward(r) \/ \E n : s = Free(n) /\ IsOutcome(n))
  <2>1. req' = [req EXCEPT ![r] = Forward(r)] \/ req' = [req EXCEPT ![r] = Free(429)]
    BY Zenon DEF Allow, Pass, Deny
  <2>. QED  BY <2>1, Outcomes
<1>4. Sound(s) /\ s.pc # "store" /\ s.pc # "answered"
  BY Zenon, <1>2, <1>3, Leaves
<1>5. limiters' \in Seq(0..Burst) /\ Len(limiters') = Len(limiters)
  <2>. DEFINE l == req[r].lim
  <2>1. l \in 1..Len(limiters) /\ limiters \in Seq(0..Burst)
    BY Zenon, <1>1 DEF Requests, Shared, Sound
  <2>. HIDE DEF l
  <2>2. limiters[l] \in 0..Burst
    BY Zenon, <2>1, CountsTyped
  <2>3. CASE limiters[l] > 0
    <3>1. limiters[l] - 1 \in 0..Burst
      BY <2>2, <2>3, Bounds
    <3>2. limiters' = [limiters EXCEPT ![l] = limiters[l] - 1]
      BY Zenon, <2>3 DEF Allow, l
    <3>3. /\ [limiters EXCEPT ![l] = limiters[l] - 1] \in Seq(0..Burst)
          /\ Len([limiters EXCEPT ![l] = limiters[l] - 1]) = Len(limiters)
      BY <2>1, <3>1
    <3>. QED  BY Zenon, <3>2, <3>3
  <2>4. CASE ~(limiters[l] > 0)
    <3>1. limiters' = limiters
      BY Zenon, <2>4 DEF Allow, l
    <3>. QED  BY Zenon, <2>1, <3>1
  <2>. QED  BY Zenon, <2>3, <2>4
<1>6. entry' \in [id : Nat, idle : Nat] /\ entry'.id = entry.id /\ arrivals' \in 0..MaxRequests
  BY Zenon, <1>1 DEF Shared
<1>. QED  BY Zenon, <1>1, <1>2, <1>3, <1>4, <1>5, <1>6, QuietStep

(***************************************************************************)
(* Sentinel's quota.                                                       *)
(***************************************************************************)

LEMMA SetAllowed ==
    ASSUME NEW a \in Answer, NEW x \in BOOLEAN
    PROVE  LET u == [a EXCEPT !.allowed = x] IN
           u \in Answer /\ u.allowed = x /\ u.status = a.status /\ u.remaining = a.remaining
<1>1. [a EXCEPT !.allowed = x] \in Answer
  BY Zenon DEF Answer
<1>. QED  BY Zenon, <1>1 DEF Answer

LEMMA SetRemaining ==
    ASSUME NEW a \in Answer, NEW x \in Int
    PROVE  LET u == [a EXCEPT !.remaining = x] IN
           u \in Answer /\ u.allowed = a.allowed /\ u.status = a.status /\ u.remaining = x
<1>1. [a EXCEPT !.remaining = x] \in Answer
  BY Zenon DEF Answer
<1>. QED  BY Zenon, <1>1 DEF Answer

LEMMA SetRefused ==
    ASSUME NEW a \in Answer
    PROVE  LET u == [a EXCEPT !.status = 429] IN
           u \in Answer /\ u.allowed = a.allowed /\ SaysSo(u) /\ u.remaining = a.remaining
<1>1. [a EXCEPT !.status = 429] \in Answer
  BY DEF Answer
<1>. QED  BY <1>1 DEF Answer, SaysSo

\* What decisionCache.fallback makes of a decision.
LEMMA FallbackSound ==
    ASSUME NEW d \in Answer, SaysSo(d)
    PROVE  /\ Fallback(d) \in Answer /\ SaysSo(Fallback(d))
           /\ Fallback(d).allowed /\ Fallback(d).remaining # Unlimited =>
                d.allowed /\ d.remaining # Unlimited /\ Fallback(d).remaining = d.remaining - 1
<1>0. FALSE \in BOOLEAN /\ d.remaining \in Int /\ 0 \in Int /\ d.remaining - 1 \in Int
  BY DEF Answer
<1>1. CASE ~d.allowed \/ d.remaining = Unlimited
  BY Zenon, <1>1 DEF Fallback
<1>2. CASE d.allowed /\ d.remaining # Unlimited /\ d.remaining < 1
  <2>. DEFINE a == [d EXCEPT !.allowed = FALSE]
              b == [a EXCEPT !.remaining = 0]
              c == [b EXCEPT !.status = 429]
  <2>1. Fallback(d) = c
    BY Zenon, <1>2 DEF Fallback
  <2>2. a \in Answer /\ a.allowed = FALSE
    BY Zenon, <1>0, SetAllowed
  <2>3. b \in Answer /\ b.allowed = FALSE
    <3>. HIDE DEF a
    <3>. QED  BY Zenon, <1>0, <2>2, SetRemaining
  <2>4. c \in Answer /\ c.allowed = FALSE /\ SaysSo(c)
    <3>. HIDE DEF b
    <3>. QED  BY Zenon, <2>3, SetRefused
  <2>. HIDE DEF c
  <2>. QED  BY Zenon, <2>1, <2>4
<1>3. CASE d.allowed /\ d.remaining # Unlimited /\ ~(d.remaining < 1)
  <2>. DEFINE c == [d EXCEPT !.remaining = d.remaining - 1]
  <2>1. Fallback(d) = c
    BY Zenon, <1>3 DEF Fallback
  <2>2. c \in Answer /\ c.allowed = d.allowed /\ c.remaining = d.remaining - 1
    BY Zenon, <1>0, SetRemaining
  <2>3. SaysSo(c)
    <3>. HIDE DEF c
    <3>. QED  BY Zenon, <1>3, <2>2 DEF SaysSo
  <2>. HIDE DEF c
  <2>. QED  BY Zenon, <1>3, <2>1, <2>2, <2>3
<1>. QED  BY Zenon, <1>1, <1>2, <1>3

\* A decision passes the request on or refuses it with a status.
LEMMA Decides ==
    ASSUME NEW r, NEW d, SaysSo(d)
    PROVE  Decide(r, d) = Forward(r) \/ \E n : Decide(r, d) = Free(n) /\ IsOutcome(n)
<1>1. CASE d.allowed
  BY Zenon, <1>1 DEF Decide
<1>2. CASE ~d.allowed
  <2>1. Decide(r, d) = Free(429)
    BY Zenon, <1>2 DEF Decide, SaysSo
  <2>. QED  BY <2>1, Outcomes
<1>. QED  BY Zenon, <1>1, <1>2

Ended(r, s) == s = Forward(r) \/ \E n : s = Free(n) /\ IsOutcome(n)

Overtakes(r, s) == req' = Overtake([req EXCEPT ![r] = s], r)

\* A check ends: the answers on their way are late now, so what they promise
\* no longer counts.
LEMMA CheckEnds ==
    ASSUME Requests, Shared, NEW r \in Slots, NEW s, req[r].pc # "idle", req[r].pc # "store",
           Ended(r, s), Overtakes(r, s), chain' = chain, limiters' = limiters, day' = day
    PROVE  /\ Requests' /\ AnswersHonest' /\ Touches(r, s) /\ Storers' = Storers
           /\ OnTheirWay' = OnTheirWay \ {r}
<1>2. Sound(s) /\ s.pc # "store" /\ s.pc # "answered"
  BY Zenon, Leaves DEF Ended
<1>3. Touches(r, s) /\ \A q \in Slots : q # r /\ req[q].pc = "answered" => req'[q].late
  BY Zenon, TouchOvertake DEF Overtakes
<1>4. Requests'
  <2>1. Len(limiters) \in Nat /\ Len(limiters) <= Len(limiters') /\ day \in Nat /\ day <= day'
        /\ Len(limiters') \in Nat /\ day' \in Nat
    BY CountsTyped
  <2>. QED  BY Zenon, <1>2, <1>3, <2>1, OneRequest
<1>5. AnswersHonest'
  <2>1. ASSUME NEW q \in Slots, req'[q].pc = "answered", ~req'[q].late PROVE FALSE
    <3>1. q # r
      BY Zenon, <1>2, <1>3, <2>1 DEF Touches
    <3>2. req[q].pc = "answered"
      BY Zenon, <1>3, <2>1, <3>1, OthersKeep
    <3>. QED  BY Zenon, <1>3, <2>1, <3>1, <3>2
  <2>. QED  BY Zenon, <2>1 DEF AnswersHonest
<1>6. Storers' = Storers
  <2>1. Storers' = Storers \ {r}
    BY Zenon, <1>2, <1>3, StorersAfter
  <2>2. r \notin Storers
    BY Zenon DEF Storers
  <2>. QED  BY Zenon, <2>1, <2>2
<1>7. OnTheirWay' = OnTheirWay \ {r}
  BY Zenon, <1>2, <1>3, OnTheirWayAfter
<1>. QED  BY Zenon, <1>3, <1>4, <1>5, <1>6, <1>7

\* The answer arrives.
LEMMA ReceiveStep ==
    ASSUME Requests, Shared, Counts, NEW r \in Slots, SentinelReceive(r)
    PROVE  Requests' /\ Shared' /\ Counts'
<1>1. /\ req[r].pc = "answered" /\ cache' = Store(req[r].answer)
      /\ hist' = [hist EXCEPT !.overtaken = hist.overtaken \/ req[r].late]
      /\ req' = Overtake([req EXCEPT ![r] = Decide(r, req[r].answer)], r)
      /\ UNCHANGED <<used, chain, limiters, entry, sweep, bucket, day, ticks, arrivals>>
  BY Zenon DEF SentinelReceive, SentinelUnchanged
<1>2. SaysSo(req[r].answer) /\ req[r] \in Request
  BY Zenon, <1>1 DEF Requests, Sound
<1>3. PICK s : Overtakes(r, s) /\ Ended(r, s)
  BY Zenon, <1>1, <1>2, Decides DEF Ended, Overtakes
<1>4. /\ Requests' /\ AnswersHonest' /\ Storers' = Storers /\ OnTheirWay' = OnTheirWay \ {r}
  <2>1. req[r].pc # "idle" /\ req[r].pc # "store"
    BY Zenon, <1>1
  <2>2. chain' = chain /\ limiters' = limiters /\ day' = day
    BY Zenon, <1>1
  <2>. QED  BY Zenon, <1>3, <2>1, <2>2, CheckEnds
<1>5. /\ hist' \in History /\ hist'.created = hist.created /\ hist'.served = hist.served
      /\ hist'.rolledBack = hist.rolledBack /\ hist'.swept = hist.swept
      /\ hist'.overtaken = (hist.overtaken \/ req[r].late)
  <2>1. hist \in History /\ (hist.overtaken \/ req[r].late) \in BOOLEAN
    BY Zenon DEF Shared, History
  <2>. HIDE DEF History
  <2>. QED  BY Zenon, <1>1, <2>1, SetOvertaken
<1>6. cache' \in [result : Answer, left : Int] /\ (cache'.left >= 0 => SaysSo(cache'.result)) /\ NothingCached'
  <2>1. CASE TTL <= 0
    <3>1. cache' = cache
      BY Zenon, <1>1, <2>1 DEF Store
    <3>. QED  BY Zenon, <3>1 DEF Shared, NothingCached
  <2>2. CASE ~(TTL <= 0)
    <3>1. cache' = [result |-> req[r].answer, left |-> TTL]
      BY Zenon, <1>1, <2>2 DEF Store
    <3>2. req[r].answer \in Answer
      BY Zenon, <1>2 DEF Request
    <3>3. cache' \in [result : Answer, left : Int] /\ cache'.result = req[r].answer
      BY Zenon, <3>1, <3>2, Bounds
    <3>. QED  BY Zenon, <1>2, <2>2, <3>3 DEF NothingCached
  <2>. QED  BY Zenon, <2>1, <2>2
<1>7. Shared'
  BY Zenon, <1>1, <1>5, <1>6 DEF Shared, History
<1>8. CacheOptimisticOnlyByOvertaking'
  <2>1. CASE TTL <= 0
    <3>1. cache' = cache /\ NothingCached
      BY Zenon, <1>1, <2>1 DEF Store, Shared
    <3>2. cache'.left < 0 /\ cache'.left \in Int
      BY Zenon, <2>1, <3>1 DEF NothingCached, Shared
    <3>3. ~(cache'.left >= 0)
      BY <3>2
    <3>. QED  BY Zenon, <3>3 DEF CacheOptimisticOnlyByOvertaking
  <2>2. CASE ~(TTL <= 0)
    <3>1. cache'.result = req[r].answer
      <4>1. cache' = [result |-> req[r].answer, left |-> TTL]
        BY Zenon, <1>1, <2>2 DEF Store
      <4>. QED  BY Zenon, <4>1
    <3>2. ASSUME ~hist'.overtaken, req[r].answer.allowed, req[r].answer.remaining # Unlimited
          PROVE  req[r].answer.remaining <= DailyLimit - used + Cardinality(OnTheirWay \ {r})
      <4>1. ~req[r].late
        BY Zenon, <1>5, <3>2
      <4>. QED  BY Zenon, <1>1, <3>2, <4>1 DEF Counts, Promises, AnswersHonest
    <3>. QED  BY Zenon, <1>1, <1>4, <3>1, <3>2 DEF CacheOptimisticOnlyByOvertaking
  <2>. QED  BY Zenon, <2>1, <2>2
<1>9. LimitersBounded' /\ BucketCounts'
  <2>1. bucket'.day = bucket.day /\ bucket'.count = bucket.count /\ entry' = entry
    BY Zenon, <1>1
  <2>2. LimitersBounded'
    BY Zenon, <1>4, <1>5, <2>1 DEF Counts, LimitersBounded
  <2>. QED  BY Zenon, <1>5, <2>1, <2>2, BucketQuiet DEF Counts
<1>. QED  BY Zenon, <1>4, <1>7, <1>8, <1>9 DEF Counts, Promises

\* The check fails; the decision it falls back on is worth one request less.
LEMMA FailsStep ==
    ASSUME Requests, Shared, Counts, NEW r \in Slots, SentinelFails(r)
    PROVE  Requests' /\ Shared' /\ Counts'
<1>1. /\ req[r].pc \in {"asked", "answered"}
      /\ UNCHANGED <<used, hist, chain, limiters, entry, sweep, bucket, day, ticks, arrivals>>
  BY Zenon DEF SentinelFails, SentinelUnchanged
<1>2. cache \in [result : Answer, left : Int] /\ cache.result \in Answer /\ cache.left \in Int
      /\ (cache.left >= 0 => SaysSo(cache.result))
  BY Zenon DEF Shared
<1>3. PICK s : Overtakes(r, s) /\ Ended(r, s)
  <2>1. CASE cache.left >= 0
    <3>1. SaysSo(Fallback(cache.result))
      BY Zenon, <1>2, <2>1, FallbackSound
    <3>2. Overtakes(r, Decide(r, Fallback(cache.result)))
      BY Zenon, <2>1 DEF SentinelFails, Overtakes
    <3>. QED  BY Zenon, <3>1, <3>2, Decides DEF Ended
  <2>2. CASE ~(cache.left >= 0)
    <3>1. Overtakes(r, Forward(r)) \/ Overtakes(r, Free(503))
      BY Zenon, <2>2 DEF SentinelFails, Overtakes
    <3>2. PICK n : IsOutcome(n) /\ (Overtakes(r, Forward(r)) \/ Overtakes(r, Free(n)))
      BY Zenon, <3>1, Outcomes
    <3>. QED  BY Zenon, <3>2 DEF Ended
  <2>. QED  BY Zenon, <2>1, <2>2
<1>4. /\ Requests' /\ AnswersHonest' /\ Storers' = Storers /\ OnTheirWay' = OnTheirWay \ {r}
  <2>1. req[r].pc # "idle" /\ req[r].pc # "store"
    BY Zenon, <1>1
  <2>2. chain' = chain /\ limiters' = limiters /\ day' = day
    BY Zenon, <1>1
  <2>. QED  BY Zenon, <1>3, <2>1, <2>2, CheckEnds
<1>5. \/ cache' = cache /\ ~(cache.left >= 0)
      \/ /\ cache.left >= 0 /\ cache' \in [result : Answer, left : Int]
         /\ cache'.result = Fallback(cache.result) /\ cache'.left = cache.left
  <2>1. CASE cache.left >= 0
    <3>1. Fallback(cache.result) \in Answer
      BY Zenon, <1>2, <2>1, FallbackSound
    <3>2. cache' = [cache EXCEPT !.result = Fallback(cache.result)]
      BY Zenon, <2>1 DEF SentinelFails
    <3>. QED  BY Zenon, <1>2, <2>1, <3>1, <3>2
  <2>2. CASE ~(cache.left >= 0)
    BY Zenon, <2>2 DEF SentinelFails
  <2>. QED  BY Zenon, <2>1, <2>2
<1>6. cache' \in [result : Answer, left : Int] /\ (cache'.left >= 0 => SaysSo(cache'.result)) /\ NothingCached'
  BY Zenon, <1>2, <1>5, FallbackSound DEF Shared, NothingCached
<1>7. Shared'
  BY Zenon, <1>1, <1>6 DEF Shared
<1>8. CacheOptimisticOnlyByOvertaking'
  <2>1. CASE cache' = cache /\ ~(cache.left >= 0)
    BY Zenon, <2>1 DEF CacheOptimisticOnlyByOvertaking
  <2>2. CASE cache.left >= 0 /\ cache'.result = Fallback(cache.result) /\ cache'.left = cache.left
    <3>. DEFINE d == cache.result
    <3>1. ASSUME ~hist.overtaken, Fallback(d).allowed, Fallback(d).remaining # Unlimited
          PROVE  Fallback(d).remaining <= DailyLimit - used + Cardinality(OnTheirWay \ {r})
      <4>1. d.allowed /\ d.remaining # Unlimited /\ Fallback(d).remaining = d.remaining - 1
        BY Zenon, <1>2, <2>2, <3>1, FallbackSound
      <4>2. d.remaining <= DailyLimit - used + Cardinality(OnTheirWay)
        BY Zenon, <2>2, <3>1, <4>1 DEF Counts, Promises, CacheOptimisticOnlyByOvertaking
      <4>3. d.remaining \in Int
        BY Zenon, <1>2 DEF Answer
      <4>4. OnTheirWay \in SUBSET Slots
        BY Zenon DEF OnTheirWay
      <4>5. IsFiniteSet(OnTheirWay) /\ Cardinality(OnTheirWay) \in Nat
        BY Zenon, <4>4, Sizes
      <4>6. Cardinality(OnTheirWay \ {r}) \in Int /\ Cardinality(OnTheirWay \ {r}) >= Cardinality(OnTheirWay) - 1
        BY <4>5, FS_RemoveElement
      <4>. HIDE DEF d
      <4>. QED  BY <4>1, <4>2, <4>3, <4>5, <4>6, Limits, CountsTyped
    <3>. QED  BY Zenon, <1>1, <1>4, <2>2, <3>1 DEF CacheOptimisticOnlyByOvertaking
  <2>. QED  BY Zenon, <1>5, <2>1, <2>2
<1>9. LimitersBounded' /\ BucketCounts'
  <2>1. bucket' = bucket /\ entry' = entry /\ hist' = hist
    BY Zenon, <1>1
  <2>. QED  BY Zenon, <1>4, <2>1 DEF Counts, LimitersBounded, BucketCounts
<1>. QED  BY Zenon, <1>4, <1>7, <1>8, <1>9 DEF Counts, Promises

\* Sentinel counts a request and answers, or refuses it.
LEMMA VerdictSound ==
    ASSUME NEW b \in BOOLEAN, NEW n \in Int, NEW x \in BOOLEAN
    PROVE  LET v == Verdict(b, n, x) IN
           v \in Answer /\ v.allowed = b /\ v.remaining = n /\ SaysSo(v)
<1>1. Verdict(b, n, x) \in Answer
  BY DEF Verdict, Answer
<1>. QED  BY Zenon, <1>1 DEF Verdict, Answer, SaysSo

Answering(t, v) == [[t EXCEPT !.pc = "answered"] EXCEPT !.answer = v]

LEMMA AnsweringFields ==
    ASSUME NEW t \in Request, NEW v \in Answer
    PROVE  LET s == Answering(t, v) IN
           s \in Request /\ s.pc = "answered" /\ s.answer = v /\ s.i = t.i /\ s.out = t.out /\ s.late = t.late
<1>. DEFINE a == [t EXCEPT !.pc = "answered"]
            u == [a EXCEPT !.answer = v]
<1>1. a \in Request /\ a.pc = "answered" /\ a.i = t.i /\ a.out = t.out /\ a.late = t.late
  BY Zenon, SetPc
<1>2. u \in Request /\ u.pc = "answered" /\ u.answer = v /\ u.i = t.i /\ u.out = t.out /\ u.late = t.late
  <2>. HIDE DEF a
  <2>. QED  BY Zenon, <1>1, SetAnswer
<1>3. Answering(t, v) = u
  BY Zenon DEF Answering
<1>. HIDE DEF u
<1>. QED  BY Zenon, <1>2, <1>3

\* An allowed request is counted as it sets out, a refused one is not.
LEMMA SetsOut ==
    ASSUME Requests, Shared, NEW r \in Slots, req[r].pc = "asked", NEW s, Touches(r, s),
           s.pc = "answered", NEW b \in BOOLEAN, s.answer.allowed = b,
           used' = used + IF b THEN 1 ELSE 0, NEW q
    PROVE  /\ used' \in Nat
           /\ Cardinality(OnTheirWay \ {q}) \in Nat /\ Cardinality(OnTheirWay) \in Nat
           /\ Cardinality(OnTheirWay' \ {q}) \in Nat /\ Cardinality(OnTheirWay') \in Nat
           /\ Cardinality(OnTheirWay') - used' = Cardinality(OnTheirWay) - used
           /\ q # r => Cardinality(OnTheirWay' \ {q}) - used' = Cardinality(OnTheirWay \ {q}) - used
<1>1. used \in Nat
  BY Zenon DEF Shared
<1>2. r \notin OnTheirWay /\ OnTheirWay \in SUBSET Slots /\ OnTheirWay \ {q} \in SUBSET Slots
  BY Zenon DEF OnTheirWay
<1>3. IsFiniteSet(OnTheirWay) /\ IsFiniteSet(OnTheirWay \ {q})
      /\ Cardinality(OnTheirWay \ {q}) \in Nat /\ Cardinality(OnTheirWay) \in Nat
  BY Zenon, <1>2, Sizes
<1>4. CASE b
  <2>1. used' = used + 1
    BY Zenon, <1>4
  <2>2. OnTheirWay' = OnTheirWay \cup {r}
    BY Zenon, <1>4, OnTheirWayAfter
  <2>3. Cardinality(OnTheirWay') = Cardinality(OnTheirWay) + 1
    BY Zenon, <1>2, <1>3, <2>2, FS_AddElement
  <2>4. OnTheirWay' \ {q} \in SUBSET Slots
    BY Zenon, <1>2, <2>2
  <2>5. Cardinality(OnTheirWay' \ {q}) \in Nat
    BY Zenon, <2>4, Sizes
  <2>6. ASSUME q # r PROVE Cardinality(OnTheirWay' \ {q}) = Cardinality(OnTheirWay \ {q}) + 1
    <3>1. OnTheirWay' \ {q} = (OnTheirWay \ {q}) \cup {r} /\ r \notin OnTheirWay \ {q}
      BY Zenon, <1>2, <2>2, <2>6
    <3>. QED  BY Zenon, <1>3, <3>1, FS_AddElement
  <2>. QED  BY <1>1, <1>3, <2>1, <2>3, <2>5, <2>6
<1>5. CASE ~b
  <2>1. used' = used
    BY <1>1, <1>5
  <2>2. OnTheirWay' = OnTheirWay \ {r}
    BY Zenon, <1>5, OnTheirWayAfter
  <2>3. OnTheirWay' = OnTheirWay
    BY Zenon, <1>2, <2>2
  <2>. QED  BY Zenon, <1>1, <1>3, <2>1, <2>3
<1>. QED  BY Zenon, <1>4, <1>5

LEMMA AnswersStep ==
    ASSUME Requests, Shared, Counts, NEW r \in Slots, SentinelAnswers(r)
    PROVE  Requests' /\ Shared' /\ Counts'
<1>. DEFINE k == req[r].kind
<1>1. /\ req[r].pc = "asked" /\ used' = used + IF SentinelAllows(k) THEN 1 ELSE 0
      /\ UNCHANGED <<cache, hist, chain, limiters, entry, sweep, bucket, day, ticks, arrivals>>
  BY Zenon DEF SentinelAnswers, SentinelUnchanged
<1>2. req[r].pc # "idle" /\ req[r].pc # "store" /\ req[r].pc # "answered"
  BY Zenon, <1>1
<1>3. Sound(req[r]) /\ req[r] \in Request
  BY Zenon DEF Requests, Sound
<1>4. k \in Kinds /\ k.limit \in Int /\ k.limit <= DailyLimit /\ used \in Nat /\ used' \in Nat
  <2>1. k \in Kinds
    BY Zenon, <1>3 DEF Request
  <2>2. used \in Nat
    BY Zenon DEF Shared
  <2>3. used' \in Nat
    BY <1>1, <2>2
  <2>. QED  BY Zenon, <2>1, <2>2, <2>3, Limits
<1>5. PICK b \in BOOLEAN : b = SentinelAllows(k)
  BY Zenon DEF SentinelAllows
<1>6. PICK n \in Int : n = Remaining(k, used')
  BY <1>4 DEF Remaining, Unlimited
<1>7. PICK reset \in BOOLEAN : req' = [req EXCEPT ![r] = Answering(req[r], Verdict(b, n, reset))]
  <2>1. PICK reset \in BOOLEAN :
          req' = [req EXCEPT ![r] = [[req[r] EXCEPT !.pc = "answered"]
                                       EXCEPT !.answer = Verdict(SentinelAllows(k), Remaining(k, used'), reset)]]
    BY Zenon DEF SentinelAnswers
  <2>. QED  BY Zenon, <1>5, <1>6, <2>1 DEF Answering
<1>8. PICK v : v = Verdict(b, n, reset) /\ v \in Answer /\ v.allowed = b /\ v.remaining = n /\ SaysSo(v)
  BY Zenon, VerdictSound
<1>9. PICK s : /\ req' = [req EXCEPT ![r] = s]
               /\ s \in Request /\ s.pc = "answered" /\ s.answer = v /\ s.i = req[r].i /\ s.out = req[r].out
  <2>1. req' = [req EXCEPT ![r] = Answering(req[r], v)]
    BY Zenon, <1>7, <1>8
  <2>2. LET u == Answering(req[r], v) IN
        u \in Request /\ u.pc = "answered" /\ u.answer = v /\ u.i = req[r].i /\ u.out = req[r].out
    BY Zenon, <1>3, <1>8, AnsweringFields
  <2>. QED  BY Zenon, <2>1, <2>2
<1>10. s.pc # "store" /\ s.pc # "allow" /\ s.pc # "stamped"
  BY Zenon, <1>9
<1>11. Sound(s) /\ Touches(r, s)
  BY Zenon, <1>2, <1>3, <1>8, <1>9, <1>10, TouchOne DEF Sound
<1>12. Requests'
  <2>1. Len(limiters) \in Nat /\ Len(limiters) <= Len(limiters') /\ day \in Nat /\ day <= day'
        /\ Len(limiters') \in Nat /\ day' \in Nat
    BY <1>1, CountsTyped
  <2>. QED  BY Zenon, <1>1, <1>11, <2>1, OneRequest
<1>13. Shared'
  BY Zenon, <1>1, <1>4 DEF Shared, NothingCached
<1>14. used' = used + IF b THEN 1 ELSE 0
  BY Zenon, <1>1, <1>5
<1>15. CacheOptimisticOnlyByOvertaking'
  <2>1. /\ Cardinality(OnTheirWay) \in Nat /\ Cardinality(OnTheirWay') \in Nat
        /\ Cardinality(OnTheirWay') - used' = Cardinality(OnTheirWay) - used
    BY Zenon, <1>1, <1>8, <1>9, <1>11, <1>14, SetsOut
  <2>2. DailyLimit - used' + Cardinality(OnTheirWay') = DailyLimit - used + Cardinality(OnTheirWay)
    BY <1>4, <2>1, Limits
  <2>. QED  BY Zenon, <1>1, <2>2 DEF CacheOptimisticOnlyByOvertaking, Counts, Promises
<1>16. AnswersHonest'
  <2>1. ASSUME NEW q \in Slots, req'[q].pc = "answered", ~req'[q].late, req'[q].answer.allowed,
               req'[q].answer.remaining # Unlimited
        PROVE  req'[q].answer.remaining <= DailyLimit - used' + Cardinality(OnTheirWay' \ {q})
    <3>0. /\ Cardinality(OnTheirWay \ {q}) \in Nat /\ Cardinality(OnTheirWay' \ {q}) \in Nat
          /\ q # r => Cardinality(OnTheirWay' \ {q}) - used' = Cardinality(OnTheirWay \ {q}) - used
      BY Zenon, <1>1, <1>8, <1>9, <1>11, <1>14, SetsOut
    <3>1. CASE q = r
      <4>1. req'[q].answer = v
        BY Zenon, <1>9, <1>11, <3>1 DEF Touches
      <4>2. n # Unlimited
        BY Zenon, <1>8, <2>1, <4>1
      <4>3. n <= DailyLimit - used'
        BY <1>4, <1>6, <4>2, Limits DEF Remaining
      <4>4. n <= DailyLimit - used' + Cardinality(OnTheirWay' \ {q})
        BY <1>4, <3>0, <4>3, Limits
      <4>. QED  BY Zenon, <1>8, <4>1, <4>4
    <3>2. CASE q # r
      <4>1. req[q].pc = "answered" /\ ~req[q].late /\ req'[q].answer = req[q].answer
        BY Zenon, <1>11, <2>1, <3>2, OthersKeep
      <4>2. req[q].answer.remaining <= DailyLimit - used + Cardinality(OnTheirWay \ {q})
        BY Zenon, <2>1, <4>1 DEF Counts, Promises, AnswersHonest
      <4>3. DailyLimit - used' + Cardinality(OnTheirWay' \ {q}) = DailyLimit - used + Cardinality(OnTheirWay \ {q})
        BY <1>4, <3>0, <3>2, Limits
      <4>. QED  BY Zenon, <4>1, <4>2, <4>3
    <3>. QED  BY Zenon, <3>1, <3>2
  <2>. QED  BY Zenon, <2>1 DEF AnswersHonest
<1>17. LimitersBounded' /\ BucketCounts'
  <2>1. bucket' = bucket /\ entry' = entry /\ hist' = hist
    BY Zenon, <1>1
  <2>. QED  BY Zenon, <1>2, <1>10, <1>11, <2>1, LimitersQuiet, BucketQuiet DEF Counts
<1>. QED  BY Zenon, <1>12, <1>13, <1>15, <1>16, <1>17 DEF Counts, Promises

(***************************************************************************)
(* The in-memory quota.                                                    *)
(***************************************************************************)

BaseCount(t) == IF bucket.day # t THEN 0 ELSE bucket.count

Grows(t, inc) ==
    /\ inc = 0 \/ BaseCount(t) + inc <= DailyLimit
    /\ bucket' \in [day : Nat, count : Nat, idle : Nat]
    /\ bucket'.day = t /\ bucket'.count = BaseCount(t) + inc
    /\ hist' \in History /\ hist'.created = hist.created /\ hist'.overtaken = hist.overtaken
    /\ \A d \in 1..MaxDay :
         hist'.served[d] = IF d = t THEN hist.served[d] + inc ELSE hist.served[d]
    /\ hist'.rolledBack = (hist.rolledBack \/ t < bucket.day) /\ hist'.swept = hist.swept

\* A count that grows with what was served, or starts anew on a later day.
LEMMA Counted ==
    ASSUME Shared, BucketCounts, NEW t \in 1..day, NEW inc \in Nat, Grows(t, inc)
    PROVE  BucketCounts'
<1>0. PICK base : /\ base = IF bucket.day # t THEN 0 ELSE bucket.count
                  /\ inc = 0 \/ base + inc <= DailyLimit
                  /\ bucket'.day = t /\ bucket'.count = base + inc
  BY Zenon DEF Grows, BaseCount
<1>00. \A d \in 1..MaxDay : hist'.served[d] = IF d = t THEN hist.served[d] + inc ELSE hist.served[d]
  BY Zenon DEF Grows
<1>. SUFFICES ASSUME ~hist'.rolledBack, ~hist'.swept
     PROVE  /\ bucket'.count <= DailyLimit
            /\ \A d \in 1..MaxDay : /\ d = bucket'.day => hist'.served[d] = bucket'.count
                                    /\ d > bucket'.day => hist'.served[d] = 0
                                    /\ d < bucket'.day => hist'.served[d] <= DailyLimit
  BY Zenon DEF BucketCounts
<1>1. ~hist.rolledBack /\ ~hist.swept /\ ~(t < bucket.day)
  BY Zenon DEF Grows
<1>2. /\ bucket.count <= DailyLimit
      /\ \A d \in 1..MaxDay : /\ d = bucket.day => hist.served[d] = bucket.count
                              /\ d > bucket.day => hist.served[d] = 0
                              /\ d < bucket.day => hist.served[d] <= DailyLimit
  BY Zenon, <1>1 DEF BucketCounts
<1>3. /\ bucket.day \in Nat /\ bucket.count \in Nat /\ DailyLimit \in Nat /\ day \in 1..MaxDay /\ MaxDay \in Nat
      /\ hist.served \in [1..MaxDay -> Nat]
  BY Zenon, Limits, Bounds DEF Shared
<1>4. t \in 1..MaxDay /\ base \in Nat /\ base <= DailyLimit /\ hist.served[t] = base
  BY <1>0, <1>1, <1>2, <1>3
<1>5. bucket'.count <= DailyLimit
  BY <1>0, <1>3, <1>4
<1>6. ASSUME NEW d \in 1..MaxDay
      PROVE  /\ d = bucket'.day => hist'.served[d] = bucket'.count
             /\ d > bucket'.day => hist'.served[d] = 0
             /\ d < bucket'.day => hist'.served[d] <= DailyLimit
  <2>1. CASE d = t
    BY <1>0, <1>00, <1>3, <1>4, <2>1
  <2>2. CASE d > t
    <3>1. d # t /\ d > bucket.day /\ ~(d < t)
      BY <1>1, <1>3, <1>4, <2>2
    <3>2. hist'.served[d] = 0
      BY Zenon, <1>00, <1>2, <3>1
    <3>. QED  BY Zenon, <1>0, <3>1, <3>2
  <2>3. CASE d < t
    <3>1. hist'.served[d] = hist.served[d]
      BY <1>00, <1>3, <2>3
    <3>2. d = bucket.day \/ d > bucket.day \/ d < bucket.day
      BY <1>3
    <3>3. hist.served[d] <= DailyLimit
      BY <1>2, <1>3, <3>2
    <3>. QED  BY <1>0, <1>3, <2>3, <3>1, <3>3
  <2>. QED  BY <1>3, <1>4, <2>1, <2>2, <2>3
<1>. QED  BY Zenon, <1>5, <1>6

LEMMA ServeOne ==
    ASSUME NEW h \in [1..MaxDay -> Nat], NEW t \in 1..MaxDay, NEW inc \in Nat
    PROVE  LET f == [h EXCEPT ![t] = h[t] + inc] IN
           /\ f \in [1..MaxDay -> Nat]
           /\ \A d \in 1..MaxDay : f[d] = IF d = t THEN h[d] + inc ELSE h[d]
<1>1. h[t] + inc \in Nat
  <2>1. h[t] \in Nat
    BY Zenon
  <2>. QED  BY <2>1
<1>. QED  BY Zenon, <1>1

\* getOrCreateBucket returns a bucket of the day asked for.
LEMMA BucketOfTheDay ==
    ASSUME Shared, NEW t \in 1..day
    PROVE  /\ GetOrCreateBucket(t) \in [day : Nat, count : Nat, idle : Nat]
           /\ GetOrCreateBucket(t).day = t
           /\ GetOrCreateBucket(t).count = BaseCount(t)
<1>1. bucket \in [day : Nat, count : Nat, idle : Nat] /\ t \in Nat
  BY Bounds DEF Shared
<1>. QED  BY Zenon, <1>1 DEF GetOrCreateBucket, BaseCount

\* What the count does to the bucket and to the history.
LEMMA CountChanges ==
    ASSUME Requests, Shared, NEW r \in Slots, LocalCount(r), NEW t \in 1..day, t = req[r].today
    PROVE  \E inc \in Nat : Grows(t, inc)
<1>. DEFINE limit == req[r].kind.limit
            rolled == hist.rolledBack \/ t < bucket.day
<1>0. PICK base : base = BaseCount(t)
  BY Zenon
<1>1. PICK b : /\ b = GetOrCreateBucket(t) /\ b \in [day : Nat, count : Nat, idle : Nat]
               /\ b.day = t /\ b.count = base
  BY Zenon, <1>0, BucketOfTheDay
<1>2. limit \in Int /\ limit <= DailyLimit
  <2>1. req[r].kind \in Kinds
    BY Zenon DEF Requests, Sound, Request
  <2>. QED  BY Zenon, <2>1, Limits
<1>3. hist \in History /\ rolled \in BOOLEAN /\ hist.served \in [1..MaxDay -> Nat] /\ t \in 1..MaxDay /\ base \in Nat
  <2>1. hist \in History /\ rolled \in BOOLEAN /\ hist.served \in [1..MaxDay -> Nat]
    BY Zenon DEF Shared, History
  <2>2. t \in 1..MaxDay
    <3>1. day \in 1..MaxDay
      BY Zenon DEF Shared
    <3>. QED  BY <3>1, Bounds
  <2>3. bucket.count \in Nat
    BY Zenon DEF Shared
  <2>4. base \in Nat
    BY Zenon, <1>0, <2>3 DEF BaseCount
  <2>. QED  BY Zenon, <2>1, <2>2, <2>4
<1>4. CASE WithinLimit(b, limit)
  <2>1. PICK inc \in Nat : inc = IF limit = Unlimited THEN 0 ELSE 1
    OBVIOUS
  <2>. DEFINE f == [hist.served EXCEPT ![t] = hist.served[t] + inc]
              g == [hist EXCEPT !.served = f]
  <2>2. bucket' = [b EXCEPT !.count = base + inc]
    BY Zenon, <1>1, <1>4, <2>1 DEF LocalCount
  <2>3. hist' = [g EXCEPT !.rolledBack = rolled]
    BY Zenon, <1>1, <1>4, <2>1 DEF LocalCount
  <2>4. f \in [1..MaxDay -> Nat]
        /\ \A d \in 1..MaxDay : f[d] = IF d = t THEN hist.served[d] + inc ELSE hist.served[d]
    BY Zenon, <1>3, ServeOne
  <2>. HIDE DEF f, rolled
  <2>5. g \in History /\ g.created = hist.created /\ g.overtaken = hist.overtaken /\ g.served = f /\ g.swept = hist.swept
    BY Zenon, <1>3, <2>4, SetServed
  <2>. HIDE DEF g
  <2>6. /\ hist' \in History /\ hist'.created = hist.created /\ hist'.overtaken = hist.overtaken
        /\ hist'.served = f /\ hist'.swept = hist.swept /\ hist'.rolledBack = rolled
    BY Zenon, <1>3, <2>3, <2>5, SetRolledBack
  <2>7. bucket' \in [day : Nat, count : Nat, idle : Nat] /\ bucket'.day = t /\ bucket'.count = base + inc
    BY <1>1, <1>3, <2>2
  <2>8. inc = 0 \/ base + inc <= DailyLimit
    BY <1>1, <1>2, <1>3, <1>4, <2>1, Limits DEF WithinLimit
  <2>. QED  BY Zenon, <2>4, <2>6, <2>7, <2>8, <1>0 DEF rolled, Grows
<1>5. CASE ~WithinLimit(b, limit)
  <2>1. bucket' = b /\ hist' = [hist EXCEPT !.rolledBack = rolled]
    BY Zenon, <1>1, <1>5 DEF LocalCount
  <2>. HIDE DEF rolled
  <2>2. /\ hist' \in History /\ hist'.created = hist.created /\ hist'.overtaken = hist.overtaken
        /\ hist'.served = hist.served /\ hist'.swept = hist.swept /\ hist'.rolledBack = rolled
    BY Zenon, <1>3, <2>1, SetRolledBack
  <2>3. 0 \in Nat /\ base = base + 0 /\ \A d \in 1..MaxDay : hist.served[d] = hist.served[d] + 0
    <3>1. base \in Nat /\ \A d \in 1..MaxDay : hist.served[d] \in Nat
      BY Zenon, <1>3
    <3>. QED  BY <3>1
  <2>4. PICK inc \in Nat : inc = 0 /\ bucket'.count = base + inc
                 /\ \A d \in 1..MaxDay : hist'.served[d] = IF d = t THEN hist.served[d] + inc ELSE hist.served[d]
    <3>1. bucket'.count = base + 0
          /\ \A d \in 1..MaxDay : hist'.served[d] = hist.served[d] /\ hist.served[d] = hist.served[d] + 0
      BY Zenon, <1>1, <2>1, <2>2, <2>3
    <3>. QED  BY Zenon, <2>3, <3>1
  <2>. QED  BY Zenon, <1>1, <2>1, <2>2, <2>4, <1>0 DEF rolled, Grows
<1>. QED  BY Zenon, <1>4, <1>5

LEMMA LocalCountStep ==
    ASSUME Requests, Shared, Counts, NEW r \in Slots, LocalCount(r)
    PROVE  Requests' /\ Shared' /\ Counts'
<1>1. req[r].pc = "stamped" /\ UNCHANGED <<chain, limiters, entry, sweep, used, cache, day, ticks, arrivals>>
  BY Zenon DEF LocalCount, LocalUnchanged
<1>2. req[r].pc # "idle" /\ req[r].pc # "store" /\ req[r].pc # "answered"
  BY Zenon, <1>1
<1>3. PICK s : req' = [req EXCEPT ![r] = s] /\ (s = Forward(r) \/ \E n : s = Free(n) /\ IsOutcome(n))
  <2>1. req' = [req EXCEPT ![r] = Forward(r)] \/ req' = [req EXCEPT ![r] = Free(429)]
    BY Zenon DEF LocalCount, Pass, Deny
  <2>. QED  BY <2>1, Outcomes
<1>4. Sound(s) /\ s.pc # "store" /\ s.pc # "answered"
  BY Zenon, <1>2, <1>3, Leaves
<1>5. Touches(r, s)
  BY Zenon, <1>3, TouchOne
<1>6. PICK t \in 1..day : t = req[r].today
  BY Zenon, <1>1 DEF Requests, Sound
<1>7. PICK inc \in Nat : Grows(t, inc)
  BY Zenon, <1>6, CountChanges
<1>8. /\ bucket' \in [day : Nat, count : Nat, idle : Nat] /\ bucket'.day = t
      /\ hist' \in History /\ hist'.created = hist.created /\ hist'.overtaken = hist.overtaken
  BY Zenon, <1>7 DEF Grows
<1>9. BucketCounts'
  BY Zenon, <1>6, <1>7, Counted DEF Counts
<1>10. LimitersBounded' /\ Promises'
  BY Zenon, <1>1, <1>2, <1>4, <1>5, <1>8, LimitersQuiet, PromisesQuiet DEF Counts
<1>11. Requests'
  <2>1. Len(limiters) \in Nat /\ Len(limiters) <= Len(limiters') /\ day \in Nat /\ day <= day'
        /\ Len(limiters') \in Nat /\ day' \in Nat
    BY <1>1, CountsTyped
  <2>. QED  BY Zenon, <1>1, <1>4, <1>5, <2>1, OneRequest
<1>12. Shared'
  <2>1. bucket'.day <= day'
    <3>1. bucket'.day = t /\ day' = day /\ day \in Nat
      BY Zenon, <1>1, <1>8, CountsTyped
    <3>. QED  BY <1>6, <3>1
  <2>. QED  BY Zenon, <1>1, <1>8, <2>1 DEF Shared, History, NothingCached
<1>. QED  BY Zenon, <1>9, <1>10, <1>11, <1>12 DEF Counts

(***************************************************************************)
(* Clean-up and time.                                                      *)
(***************************************************************************)

\* The requests stay as they are.
LEMMA RequestsStay ==
    ASSUME Requests, req' = req, chain' = chain, Len(limiters) \in Nat, Len(limiters') \in Nat,
           day \in Nat, day' \in Nat, Len(limiters) <= Len(limiters'), day <= day'
    PROVE  Requests' /\ Storers' = Storers /\ OnTheirWay' = OnTheirWay
<1>1. ASSUME NEW q \in Slots PROVE Sound(req[q])'
  <2>1. PICK t : t = req[q] /\ req'[q] = t
    BY Zenon
  <2>. QED  BY Zenon, <2>1, SoundAfter DEF Requests
<1>2. Storers' = Storers /\ OnTheirWay' = OnTheirWay
  BY Zenon DEF Storers, OnTheirWay
<1>. QED  BY Zenon, <1>1, <1>2 DEF Requests

LEMMA SweepStep ==
    ASSUME Requests, Shared, Counts, SweepLimiter
    PROVE  Requests' /\ Shared' /\ Counts'
<1>1. UNCHANGED <<req, chain, limiters, entry, hist, used, cache, bucket, day, ticks, arrivals>> /\ sweep' = TRUE
  BY Zenon DEF SweepLimiter, RateUnchanged
<1>2. Requests' /\ Storers' = Storers /\ OnTheirWay' = OnTheirWay
  <2>1. Len(limiters) \in Nat /\ Len(limiters) <= Len(limiters') /\ day \in Nat /\ day <= day'
        /\ Len(limiters') \in Nat /\ day' \in Nat
    BY <1>1, CountsTyped
  <2>. QED  BY Zenon, <1>1, <2>1, RequestsStay
<1>3. Shared'
  BY Zenon, <1>1 DEF Shared, NothingCached
<1>4. Counts'
  BY Zenon, <1>1, <1>2 DEF Counts, LimitersBounded, Promises, AnswersHonest, CacheOptimisticOnlyByOvertaking,
                           BucketCounts
<1>. QED  BY Zenon, <1>2, <1>3, <1>4

LEMMA DeleteStep ==
    ASSUME Requests, Shared, Counts, DeleteLimiter
    PROVE  Requests' /\ Shared' /\ Counts'
<1>1. /\ UNCHANGED <<req, chain, limiters, used, cache, bucket, day, ticks, arrivals>> /\ sweep' = FALSE
      /\ entry' = [id |-> 0, idle |-> 0] /\ hist' = [hist EXCEPT !.created = 0]
  BY Zenon DEF DeleteLimiter, RateUnchanged
<1>2. Requests' /\ Storers' = Storers /\ OnTheirWay' = OnTheirWay
  <2>1. Len(limiters) \in Nat /\ Len(limiters) <= Len(limiters') /\ day \in Nat /\ day <= day'
        /\ Len(limiters') \in Nat /\ day' \in Nat
    BY <1>1, CountsTyped
  <2>. QED  BY Zenon, <1>1, <2>1, RequestsStay
<1>3. /\ hist' \in History /\ hist'.created = 0 /\ hist'.overtaken = hist.overtaken
      /\ hist'.served = hist.served /\ hist'.rolledBack = hist.rolledBack /\ hist'.swept = hist.swept
  <2>1. hist \in History /\ 0 \in Nat
    BY Zenon DEF Shared, History
  <2>. QED  BY Zenon, <1>1, <2>1, SetCreated
<1>4. Shared'
  <2>1. entry' \in [id : Nat, idle : Nat] /\ entry'.id <= Len(limiters')
    BY <1>1, CountsTyped
  <2>. QED  BY Zenon, <1>1, <1>3, <2>1 DEF Shared, History, NothingCached
<1>5. LimitersBounded'
  <2>1. Storers \in SUBSET Slots
    BY Zenon DEF Storers
  <2>2. Cardinality(Storers) \in Nat /\ Cardinality(Storers) <= Cardinality(Slots)
    BY Zenon, <2>1, Sizes
  <2>3. hist'.created + Cardinality(Storers') <= Cardinality(Slots)
    BY <1>2, <1>3, <2>2
  <2>. QED  BY Zenon, <1>3, <2>3 DEF LimitersBounded
<1>6. Promises' /\ BucketCounts'
  BY Zenon, <1>1, <1>2, <1>3 DEF Counts, Promises, AnswersHonest, CacheOptimisticOnlyByOvertaking, BucketCounts
<1>. QED  BY Zenon, <1>2, <1>4, <1>5, <1>6 DEF Counts

LEMMA SweepBucketStep ==
    ASSUME Requests, Shared, Counts, SweepBucket
    PROVE  Requests' /\ Shared' /\ Counts'
<1>1. /\ UNCHANGED <<req, chain, limiters, entry, sweep, used, cache, day, ticks, arrivals>>
      /\ bucket' = NoBucket /\ hist' = [hist EXCEPT !.swept = TRUE]
  BY Zenon DEF SweepBucket, LocalUnchanged
<1>2. Requests' /\ Storers' = Storers /\ OnTheirWay' = OnTheirWay
  <2>1. Len(limiters) \in Nat /\ Len(limiters) <= Len(limiters') /\ day \in Nat /\ day <= day'
        /\ Len(limiters') \in Nat /\ day' \in Nat
    BY <1>1, CountsTyped
  <2>. QED  BY Zenon, <1>1, <2>1, RequestsStay
<1>3. hist' \in History /\ hist'.created = hist.created /\ hist'.overtaken = hist.overtaken /\ hist'.swept = TRUE
  <2>1. hist \in History /\ TRUE \in BOOLEAN
    BY Zenon DEF Shared, History
  <2>. QED  BY Zenon, <1>1, <2>1, SetSwept
<1>4. Shared'
  <2>1. bucket' \in [day : Nat, count : Nat, idle : Nat] /\ bucket'.day <= day'
    BY <1>1, CountsTyped DEF NoBucket
  <2>. QED  BY Zenon, <1>1, <1>3, <2>1 DEF Shared, History, NothingCached
<1>5. BucketCounts'
  BY Zenon, <1>3 DEF BucketCounts
<1>6. LimitersBounded' /\ Promises'
  BY Zenon, <1>1, <1>2, <1>3 DEF Counts, LimitersBounded, Promises, AnswersHonest, CacheOptimisticOnlyByOvertaking
<1>. QED  BY Zenon, <1>2, <1>4, <1>5, <1>6 DEF Counts

\* No decision is cached.
LEMMA NoDecisionFields ==
    /\ NoDecision \in [result : Answer, left : Int] /\ ~(NoDecision.left >= 0) /\ NoDecision.left < 0
<1>1. ASSUME NEW b \in BOOLEAN
      PROVE  [allowed |-> b, status |-> 0, remaining |-> 0, reset |-> b] \in Answer
  BY DEF Answer
<1>2. NoAnswer \in Answer
  BY Zenon, <1>1 DEF NoAnswer
<1>3. -1 \in Int /\ NoDecision.left = -1
  BY DEF NoDecision
<1>4. NoDecision \in [result : Answer, left : Int]
  BY <1>2 DEF NoDecision
<1>. QED  BY <1>3, <1>4

\* Refilled limiters are still limiters, and as many.
LEMMA Refill ==
    ASSUME Shared, limiters' = [l \in DOMAIN limiters |-> MinNat(Burst, limiters[l] + 1)]
    PROVE  limiters' \in Seq(0..Burst) /\ Len(limiters') = Len(limiters) /\ Len(limiters) \in Nat
<1>1. Len(limiters) \in Nat /\ DOMAIN limiters = 1..Len(limiters) /\ \A l \in 1..Len(limiters) : limiters[l] \in 0..Burst
  BY Zenon, CountsTyped
<1>2. ASSUME NEW l \in 1..Len(limiters) PROVE MinNat(Burst, limiters[l] + 1) \in 0..Burst
  <2>1. limiters[l] \in 0..Burst
    BY Zenon, <1>1
  <2>. QED  BY <2>1, Bounds DEF MinNat
<1>3. limiters' \in [1..Len(limiters) -> 0..Burst] /\ DOMAIN limiters' = 1..Len(limiters)
  BY Zenon, <1>1, <1>2
<1>4. limiters' \in Seq(0..Burst)
  <2>1. PICK f : f = limiters' /\ \E n \in Nat : f \in [1..n -> 0..Burst]
    BY Zenon, <1>1, <1>3
  <2>2. f \in Seq(0..Burst)
    BY <2>1
  <2>. QED  BY Zenon, <2>1, <2>2
<1>. QED  BY <1>1, <1>3, <1>4

LEMMA TickStep ==
    ASSUME Requests, Shared, Counts, Tick
    PROVE  Requests' /\ Shared' /\ Counts'
<1>1. /\ UNCHANGED <<chain, req, sweep, used, day, arrivals, hist>> /\ ticks < MaxTicks /\ ticks' = ticks + 1
      /\ limiters' = [l \in DOMAIN limiters |-> MinNat(Burst, limiters[l] + 1)]
      /\ entry' = [entry EXCEPT !.idle = IF entry.id = 0 THEN 0 ELSE entry.idle + 1]
      /\ cache' = (IF cache.left > 0 THEN [cache EXCEPT !.left = cache.left - 1] ELSE NoDecision)
      /\ bucket' = [bucket EXCEPT !.idle = IF bucket.day = 0 THEN 0 ELSE bucket.idle + 1]
  BY Zenon DEF Tick
<1>2. limiters' \in Seq(0..Burst) /\ Len(limiters') = Len(limiters) /\ Len(limiters) \in Nat
  BY Zenon, <1>1, Refill
<1>3. Requests' /\ Storers' = Storers /\ OnTheirWay' = OnTheirWay
  <2>1. Len(limiters) <= Len(limiters') /\ day \in Nat /\ day <= day' /\ Len(limiters') \in Nat /\ day' \in Nat
    BY <1>1, <1>2, CountsTyped
  <2>. QED  BY Zenon, <1>1, <1>2, <2>1, RequestsStay
<1>4. entry' \in [id : Nat, idle : Nat] /\ entry'.id = entry.id
  <2>1. entry \in [id : Nat, idle : Nat]
    BY Zenon DEF Shared
  <2>. QED  BY <1>1, <2>1
<1>5. bucket' \in [day : Nat, count : Nat, idle : Nat] /\ bucket'.day = bucket.day /\ bucket'.count = bucket.count
  <2>1. bucket \in [day : Nat, count : Nat, idle : Nat]
    BY Zenon DEF Shared
  <2>. QED  BY <1>1, <2>1
<1>6. /\ cache' \in [result : Answer, left : Int]
      /\ cache'.left >= 0 => cache.left >= 0 /\ cache'.result = cache.result
  <2>1. cache \in [result : Answer, left : Int] /\ cache.left \in Int /\ cache.result \in Answer
    BY Zenon DEF Shared
  <2>2. CASE cache.left > 0
    <3>1. cache' = [cache EXCEPT !.left = cache.left - 1]
      BY Zenon, <1>1, <2>2
    <3>. QED  BY <2>1, <2>2, <3>1
  <2>3. CASE ~(cache.left > 0)
    BY Zenon, <1>1, <2>3, NoDecisionFields
  <2>. QED  BY Zenon, <2>2, <2>3
<1>7. ticks' \in 0..MaxTicks
  <2>1. ticks \in 0..MaxTicks
    BY Zenon DEF Shared
  <2>. QED  BY <1>1, <2>1, Bounds
<1>8. NothingCached'
  <2>1. cache.left \in Int /\ cache'.left \in Int
    BY Zenon, <1>6 DEF Shared
  <2>. QED  BY <1>6, <2>1 DEF Shared, NothingCached
<1>9. Shared'
  BY Zenon, <1>1, <1>2, <1>4, <1>5, <1>6, <1>7, <1>8 DEF Shared
<1>10. Counts'
  <2>1. CacheOptimisticOnlyByOvertaking'
    BY Zenon, <1>1, <1>3, <1>6 DEF Counts, Promises, CacheOptimisticOnlyByOvertaking
  <2>2. AnswersHonest' /\ LimitersBounded' /\ BucketCounts'
    BY Zenon, <1>1, <1>3, <1>4, <1>5 DEF Counts, Promises, AnswersHonest, LimitersBounded, BucketCounts
  <2>. QED  BY Zenon, <2>1, <2>2 DEF Counts, Promises
<1>. QED  BY Zenon, <1>3, <1>9, <1>10

LEMMA MidnightStep ==
    ASSUME Requests, Shared, Counts, Midnight
    PROVE  Requests' /\ Shared' /\ Counts'
<1>1. /\ UNCHANGED <<chain, req, limiters, entry, sweep, bucket, ticks, arrivals, hist>>
      /\ day < MaxDay /\ day' = day + 1 /\ used' = 0
      /\ cache' = (IF cache.result.reset THEN NoDecision ELSE cache)
  BY Zenon DEF Midnight
<1>2. day \in 1..MaxDay /\ used \in Nat /\ bucket.day \in Nat /\ bucket.day <= day
  BY Zenon DEF Shared
<1>3. day' \in 1..MaxDay /\ day \in Nat /\ day' \in Nat /\ day <= day' /\ bucket.day <= day'
  BY <1>1, <1>2, Bounds
<1>4. Requests' /\ Storers' = Storers /\ OnTheirWay' = OnTheirWay
  <2>1. Len(limiters) <= Len(limiters') /\ Len(limiters') \in Nat /\ Len(limiters) \in Nat
    BY <1>1, CountsTyped
  <2>. QED  BY Zenon, <1>1, <1>3, <2>1, RequestsStay
<1>5. /\ cache' \in [result : Answer, left : Int]
      /\ cache'.left >= 0 => cache.left >= 0 /\ cache'.result = cache.result
      /\ NothingCached'
  <2>1. CASE cache.result.reset
    <3>1. cache' = NoDecision
      BY Zenon, <1>1, <2>1
    <3>. QED  BY Zenon, <3>1, NoDecisionFields DEF NothingCached
  <2>2. CASE ~cache.result.reset
    <3>1. cache' = cache
      BY Zenon, <1>1, <2>2
    <3>. QED  BY Zenon, <3>1 DEF Shared, NothingCached
  <2>. QED  BY Zenon, <2>1, <2>2
<1>6. Shared'
  <2>1. 0 \in Nat
    OBVIOUS
  <2>. QED  BY Zenon, <1>1, <1>3, <1>5, <2>1 DEF Shared
<1>7. ASSUME NEW S \in SUBSET Slots, NEW n \in Int, n <= DailyLimit - used + Cardinality(S)
      PROVE  n <= DailyLimit - used' + Cardinality(S)
  <2>1. Cardinality(S) \in Nat
    BY Zenon, Sizes
  <2>. QED  BY <1>1, <1>2, <1>7, <2>1, Limits
<1>8. CacheOptimisticOnlyByOvertaking'
  <2>1. cache.result.remaining \in Int
    BY Zenon DEF Shared, Answer
  <2>2. OnTheirWay \in SUBSET Slots
    BY Zenon DEF OnTheirWay
  <2>. QED  BY Zenon, <1>1, <1>4, <1>5, <1>7, <2>1, <2>2 DEF Counts, Promises, CacheOptimisticOnlyByOvertaking
<1>9. AnswersHonest'
  <2>1. ASSUME NEW q \in Slots, req'[q].pc = "answered", ~req'[q].late, req'[q].answer.allowed,
               req'[q].answer.remaining # Unlimited
        PROVE  req'[q].answer.remaining <= DailyLimit - used' + Cardinality(OnTheirWay' \ {q})
    <3>0. req' = req
      BY Zenon, <1>1
    <3>1. req[q].answer.remaining <= DailyLimit - used + Cardinality(OnTheirWay \ {q})
      BY Zenon, <2>1, <3>0 DEF Counts, Promises, AnswersHonest
    <3>2. req[q].answer.remaining \in Int
      <4>1. req[q] \in Request
        BY Zenon DEF Requests, Sound
      <4>. QED  BY Zenon, <4>1 DEF Request, Answer
    <3>3. OnTheirWay \ {q} \in SUBSET Slots
      BY Zenon DEF OnTheirWay
    <3>. QED  BY Zenon, <1>4, <1>7, <3>0, <3>1, <3>2, <3>3
  <2>. QED  BY Zenon, <2>1 DEF AnswersHonest
<1>10. LimitersBounded' /\ BucketCounts'
  BY Zenon, <1>1, <1>4 DEF Counts, LimitersBounded, BucketCounts
<1>. QED  BY Zenon, <1>4, <1>6, <1>8, <1>9, <1>10 DEF Counts, Promises

LEMMA InitStrengthened == Init => Strengthened
<1>. SUFFICES ASSUME Init PROVE Strengthened
  OBVIOUS
<1>1. ASSUME NEW r \in Slots PROVE Sound(req[r]) /\ req[r].pc = "idle"
  <2>1. req[r] = Free(0)
    BY Zenon DEF Init
  <2>. QED  BY Zenon, <2>1, FreeSound, Outcomes
<1>2. Requests
  <2>1. DOMAIN req = Slots /\ req = [r \in Slots |-> req[r]]
    BY Zenon DEF Init
  <2>. QED  BY Zenon, <1>1, <2>1 DEF Requests
<1>3. Storers = {} /\ OnTheirWay = {}
  <2>1. \A r \in Slots : req[r].pc # "store" /\ req[r].pc # "answered"
    BY Zenon, <1>1
  <2>. QED  BY Zenon, <2>1 DEF Storers, OnTheirWay
<1>4. /\ hist \in History /\ hist.created = 0 /\ \A d \in 1..MaxDay : hist.served[d] = 0
  <2>1. [d \in 1..MaxDay |-> 0] \in [1..MaxDay -> Nat] /\ FALSE \in BOOLEAN
    OBVIOUS
  <2>2. ASSUME NEW f \in [1..MaxDay -> Nat], NEW b \in BOOLEAN
        PROVE  LET h == [created |-> 0, overtaken |-> b, served |-> f, rolledBack |-> b, swept |-> b] IN
               h \in History /\ h.created = 0 /\ h.served = f
    BY Zenon DEF History
  <2>3. PICK f \in [1..MaxDay -> Nat] : f = [d \in 1..MaxDay |-> 0]
    BY Zenon, <2>1
  <2>4. hist = [created |-> 0, overtaken |-> FALSE, served |-> f, rolledBack |-> FALSE, swept |-> FALSE]
    BY Zenon, <2>3 DEF Init
  <2>5. hist \in History /\ hist.created = 0 /\ hist.served = f
    BY Zenon, <2>1, <2>2, <2>4
  <2>6. \A d \in 1..MaxDay : f[d] = 0
    BY Zenon, <2>3
  <2>. QED  BY Zenon, <2>5, <2>6
<1>5. Shared
  <2>1. chain \in Chains /\ sweep \in BOOLEAN /\ cache = NoDecision
    BY Zenon DEF Init
  <2>2. limiters \in Seq(0..Burst) /\ Len(limiters) = 0
    BY DEF Init
  <2>3. entry \in [id : Nat, idle : Nat] /\ entry.id = 0
    BY Zenon DEF Init
  <2>4. bucket \in [day : Nat, count : Nat, idle : Nat] /\ bucket.day = 0 /\ used \in Nat
    BY Zenon DEF Init, NoBucket
  <2>5. day \in 1..MaxDay /\ ticks \in 0..MaxTicks /\ arrivals \in 0..MaxRequests /\ day = 1
    BY Bounds DEF Init
  <2>6. entry.id <= Len(limiters) /\ bucket.day <= day
    BY <2>2, <2>3, <2>4, <2>5
  <2>. QED  BY Zenon, <1>4, <2>1, <2>2, <2>3, <2>4, <2>5, <2>6, NoDecisionFields DEF Shared, History, NothingCached
<1>6. LimitersBounded
  <2>1. Cardinality({}) = 0 /\ Cardinality(Slots) \in Nat
    BY Zenon, FS_EmptySet, Sizes
  <2>2. hist.created + Cardinality(Storers) <= Cardinality(Slots)
    BY <1>3, <1>4, <2>1
  <2>. QED  BY Zenon, <1>4, <2>2 DEF LimitersBounded
<1>7. Promises
  <2>1. cache = NoDecision
    BY Zenon DEF Init
  <2>2. \A r \in Slots : req[r].pc # "answered"
    BY Zenon, <1>1
  <2>. QED  BY Zenon, <2>1, <2>2, NoDecisionFields DEF Promises, AnswersHonest, CacheOptimisticOnlyByOvertaking
<1>8. BucketCounts
  <2>1. bucket.count = 0 /\ bucket.day = 0
    BY Zenon DEF Init, NoBucket
  <2>2. bucket.count <= DailyLimit
    BY <2>1, Limits
  <2>3. ASSUME NEW d \in 1..MaxDay PROVE d # bucket.day /\ ~(d < bucket.day)
    BY <2>1, Bounds
  <2>. QED  BY Zenon, <1>4, <2>2, <2>3 DEF BucketCounts
<1>. QED  BY Zenon, <1>2, <1>5, <1>6, <1>7, <1>8 DEF Strengthened, Counts

LEMMA StepStrengthened == Strengthened /\ [Next]_vars => Strengthened'
<1>. SUFFICES ASSUME Requests, Shared, Counts, [Next]_vars PROVE Requests' /\ Shared' /\ Counts'
  BY Zenon DEF Strengthened
<1>1. ASSUME NEW r \in Slots,
             \/ Arrive(r) \/ LoadLimiter(r) \/ StoreLimiter(r) \/ Allow(r)
             \/ TenantStatusMiddleware(r)
             \/ SentinelMiddleware(r) \/ SentinelAnswers(r) \/ SentinelReceive(r) \/ SentinelFails(r)
             \/ LocalStamp(r) \/ LocalCount(r)
      PROVE  Requests' /\ Shared' /\ Counts'
  <2>1. CASE Arrive(r)
    BY Zenon, <2>1, ArriveStep
  <2>2. CASE LoadLimiter(r)
    BY Zenon, <2>2, LoadFinds, LoadMisses
  <2>3. CASE StoreLimiter(r)
    BY Zenon, <2>3, StoreStep
  <2>4. CASE Allow(r)
    BY Zenon, <2>4, AllowStep
  <2>5. CASE TenantStatusMiddleware(r)
    BY Zenon, <2>5, StatusStep
  <2>6. CASE SentinelMiddleware(r)
    BY Zenon, <2>6, SentinelMiddlewareStep
  <2>7. CASE SentinelAnswers(r)
    BY Zenon, <2>7, AnswersStep
  <2>8. CASE SentinelReceive(r)
    BY Zenon, <2>8, ReceiveStep
  <2>9. CASE SentinelFails(r)
    BY Zenon, <2>9, FailsStep
  <2>10. CASE LocalStamp(r)
    BY Zenon, <2>10, LocalStampStep
  <2>11. CASE LocalCount(r)
    BY Zenon, <2>11, LocalCountStep
  <2>. QED  BY Zenon, <1>1, <2>1, <2>2, <2>3, <2>4, <2>5, <2>6, <2>7, <2>8, <2>9, <2>10, <2>11
<1>2. CASE SweepLimiter
  BY Zenon, <1>2, SweepStep
<1>3. CASE DeleteLimiter
  BY Zenon, <1>3, DeleteStep
<1>4. CASE SweepBucket
  BY Zenon, <1>4, SweepBucketStep
<1>5. CASE Tick
  BY Zenon, <1>5, TickStep
<1>6. CASE Midnight
  BY Zenon, <1>6, MidnightStep
<1>7. CASE UNCHANGED vars
  <2>1. UNCHANGED <<chain, req, limiters, entry, sweep, used, cache, bucket, day, ticks, arrivals, hist>>
    BY Zenon, <1>7 DEF vars
  <2>2. Requests' /\ Storers' = Storers /\ OnTheirWay' = OnTheirWay
    <3>1. Len(limiters) \in Nat /\ Len(limiters) <= Len(limiters') /\ day \in Nat /\ day <= day'
          /\ Len(limiters') \in Nat /\ day' \in Nat
      BY <2>1, CountsTyped
    <3>. QED  BY Zenon, <2>1, <3>1, RequestsStay
  <2>3. Shared'
    BY Zenon, <2>1 DEF Shared, NothingCached
  <2>4. Counts'
    BY Zenon, <2>1, <2>2 DEF Counts, LimitersBounded, Promises, AnswersHonest, CacheOptimisticOnlyByOvertaking,
                             BucketCounts
  <2>. QED  BY Zenon, <2>2, <2>3, <2>4
<1>. QED  BY Zenon, <1>1, <1>2, <1>3, <1>4, <1>5, <1>6, <1>7 DEF Next

\* The invariant of the admission gates: the types, the bound on the limiters
\* of an address, the statuses of refusals, the honesty of answers and of the
\* fallback cache, and the in-memory count against what was served.
THEOREM AdmissionInvariance == Spec => []AdmissionInv
<1>1. Spec => []Strengthened
  BY InitStrengthened, StepStrengthened, PTL DEF Spec
<1>. QED  BY <1>1, PartsImply, PTL

\* getLimiter's race: between two clean-ups an address never gets more
\* limiters than there are requests at a time.
THEOREM LimitersPerAddress == Spec => []FirstRequestRaceBounded
<1>1. AdmissionInv => FirstRequestRaceBounded
  BY Zenon DEF AdmissionInv
<1>. QED  BY <1>1, AdmissionInvariance, PTL

\* decisionCache: a cached decision promises no more than Sentinel has left,
\* unless an answer was stored after a check that Sentinel saw later ended.
THEOREM CacheIsHonest == Spec => []CacheOptimisticOnlyByOvertaking
<1>1. AdmissionInv => CacheOptimisticOnlyByOvertaking
  BY Zenon DEF AdmissionInv
<1>. QED  BY <1>1, AdmissionInvariance, PTL

\* The Enforcer serves more than the limit on a day only after that day's
\* count was lost, to an older request or to the clean-up.
THEOREM OverrunsExplained == Spec => []OverrunHasACause
<1>1. AdmissionInv => OverrunHasACause
  BY Zenon DEF AdmissionInv
<1>. QED  BY <1>1, AdmissionInvariance, PTL
=============================================================================
