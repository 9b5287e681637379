-------------------------- MODULE RateLimiterProofs --------------------------
(***************************************************************************)
(* Proofs about RateLimiter, for any clients, budgets, bounds and clock.   *)
(* A bucket is only brought up to date when it is asked: what it holds by  *)
(* now is a product with the time passed, and what the map forgot is full. *)
(***************************************************************************)
EXTENDS RateLimiter, TableTheorems, TLAPS

\* Only requests that carry a principal go on to the second tier.
Authenticated == \A r \in inFlight : r.principal # NULL

\* Every bucket was heard of within IdleTTL of the last sweep, or after it.
SweptLately ==
    lastSweep # NULL =>
        \A k \in DOMAIN bucket : lastSweep - bucket[k].lastSeen <= IdleTTL

IInv ==
    /\ VariablesOK
    /\ IsFiniteSet(DOMAIN bucket)
    /\ MapIsBounded
    /\ Authenticated
    /\ SweptLately

-----------------------------------------------------------------------------
(***************************************************************************)
(* Arithmetic of refilling                                                 *)
(***************************************************************************)

LEMMA TimesFacts ==
    ASSUME NEW r \in Nat, NEW d \in Nat
    PROVE  r * d \in Nat /\ r * 0 = 0 /\ r * (d + 1) = r * d + r
    OBVIOUS

LEMMA TimesMonotone ==
    ASSUME NEW r \in Nat, NEW a \in Nat, NEW b \in Nat, a <= b
    PROVE  r * a <= r * b
    OBVIOUS

LEMMA KeyFacts ==
    ASSUME NEW k \in Keys
    PROVE  /\ Refill[k] \in Nat /\ Burst[k] \in Nat /\ Cost \in Nat
           /\ Burst[k] = Refill[k] * Minute
<1>1. k[1] \in Classes
    BY DEF Keys, Classes
<1>2. Refill[k] \in Nat /\ Minute \in Nat /\ Burst[k] = Refill[k] * Minute
    BY <1>1, TimingAssumption DEF Refill, Burst
<1> QED
    BY <1>2, TimesFacts DEF Cost

\* A bucket holds a natural number of requests, and no more than its burst.
LEMMA HeldFacts ==
    ASSUME NEW k \in Keys, NEW b \in Bucket, clock \in Nat, b.last <= clock
    PROVE  /\ Held(b, k) \in Nat /\ Held(b, k) <= Burst[k]
           /\ b.last = clock /\ b.tokens <= Burst[k] => Held(b, k) = b.tokens
           /\ clock - b.last >= Minute => Held(b, k) = Burst[k]
<1>1. b.tokens \in Nat /\ b.last \in Nat /\ clock - b.last \in Nat
    BY DEF Bucket
<1> DEFINE gained == Refill[k] * (clock - b.last)
<1>2. /\ gained \in Nat /\ Burst[k] \in Nat
      /\ b.last = clock => gained = 0
      /\ clock - b.last >= Minute => gained >= Burst[k]
    <2>1. Refill[k] \in Nat /\ Minute \in Nat /\ Burst[k] = Refill[k] * Minute /\ Burst[k] \in Nat
        BY KeyFacts, TimingAssumption
    <2>2. gained \in Nat
        BY <1>1, <2>1, TimesFacts
    <2>3. b.last = clock => gained = 0
        <3>1. b.last = clock => clock - b.last = 0
            BY <1>1
        <3> QED
            BY <2>1, <3>1, TimesFacts
    <2>4. clock - b.last >= Minute => gained >= Burst[k]
        <3>1. ASSUME NEW n \in Nat, n >= Minute PROVE Refill[k] * n >= Refill[k] * Minute
            BY <2>1, <3>1, TimesMonotone, TimesFacts
        <3> QED
            BY <1>1, <2>1, <3>1
    <2> QED
        BY <2>1, <2>2, <2>3, <2>4
<1>3. Held(b, k) = UpTo(Burst[k], b.tokens + gained)
    BY DEF Held
<1> HIDE DEF gained
<1> QED
    BY <1>1, <1>2, <1>3 DEF UpTo

\* An instant later a bucket holds a refill more, up to its burst.
LEMMA HeldLater ==
    ASSUME NEW k \in Keys, NEW b \in Bucket, clock \in Nat, b.last <= clock,
           clock' = clock + 1
    PROVE  Held(b, k)' = UpTo(Burst[k], Held(b, k) + Refill[k])
<1> DEFINE gained == Refill[k] * (clock - b.last)
<1>1. b.tokens \in Nat /\ Refill[k] \in Nat /\ Burst[k] \in Nat /\ clock - b.last \in Nat
    BY KeyFacts DEF Bucket
<1>2. clock' - b.last = (clock - b.last) + 1
    BY DEF Bucket
<1>3. Refill[k] * (clock' - b.last) = gained + Refill[k] /\ gained \in Nat
    BY <1>1, <1>2, TimesFacts
<1>4. /\ Held(b, k)' = UpTo(Burst[k], b.tokens + (gained + Refill[k]))
      /\ Held(b, k) = UpTo(Burst[k], b.tokens + gained)
    BY <1>3 DEF Held, Burst, Refill, UpTo
<1> HIDE DEF gained
<1> QED
    BY <1>1, <1>3, <1>4 DEF UpTo

-----------------------------------------------------------------------------
(***************************************************************************)
(* The map                                                                 *)
(***************************************************************************)

LEMMA BucketRows ==
    ASSUME VariablesOK, NEW k \in DOMAIN bucket
    PROVE  /\ k \in Keys /\ bucket[k] \in Bucket
           /\ bucket[k].tokens \in Nat /\ bucket[k].last \in Nat /\ bucket[k].lastSeen \in Nat
           /\ bucket[k].tokens <= Burst[k] /\ bucket[k].last <= bucket[k].lastSeen
           /\ bucket[k].lastSeen <= clock /\ clock \in Nat /\ bucket[k].last <= clock
<1>1. /\ k \in Keys /\ bucket[k] \in Bucket
      /\ bucket[k].tokens <= Burst[k] /\ bucket[k].last <= bucket[k].lastSeen
      /\ bucket[k].lastSeen <= clock /\ clock \in Nat
    BY DEF VariablesOK, IsTable
<1>2. bucket[k].tokens \in Nat /\ bucket[k].last \in Nat /\ bucket[k].lastSeen \in Nat
    BY <1>1 DEF Bucket
<1> QED
    BY <1>1, <1>2

\* m is what a decision made of the map before it put its own bucket there.
Kept(m, swept) ==
    /\ IsTable(m, Keys, Bucket)
    /\ DOMAIN m \subseteq DOMAIN bucket
    /\ IsFiniteSet(DOMAIN m)
    /\ \A j \in DOMAIN m : m[j] = bucket[j]
    /\ \A j \in DOMAIN bucket \ DOMAIN m : clock - bucket[j].lastSeen > IdleTTL
    /\ swept \in Nat \cup {NULL}
    /\ swept # NULL => swept <= clock /\ \A j \in DOMAIN m : swept - m[j].lastSeen <= IdleTTL

LEMMA SweptFacts ==
    ASSUME IInv
    PROVE  /\ Kept(Swept, IF SweepDue THEN clock ELSE lastSweep)
           /\ Kept(bucket, lastSweep)
<1>1. VariablesOK /\ clock \in Nat /\ IsFiniteSet(DOMAIN bucket)
    BY DEF IInv, VariablesOK
<1>2. Kept(bucket, lastSweep)
    BY DEF IInv, VariablesOK, Kept, SweptLately
<1>3. CASE ~SweepDue
    BY <1>2, <1>3 DEF Swept
<1>4. CASE SweepDue
    <2> DEFINE live == {k \in DOMAIN bucket : clock - bucket[k].lastSeen <= IdleTTL}
    <2>1. Swept = Restrict(bucket, live) /\ live \subseteq DOMAIN bucket
        BY <1>4 DEF Swept, NotIdle
    <2>2. /\ IsTable(Swept, Keys, Bucket)
          /\ DOMAIN Swept = live
          /\ \A k \in live : Swept[k] = bucket[k]
        BY <1>1, <2>1, RestrictTable DEF VariablesOK
    <2>3. IsFiniteSet(DOMAIN Swept)
        BY <1>1, <2>1, <2>2, FS_Subset
    <2>4. \A j \in DOMAIN bucket \ live : clock - bucket[j].lastSeen > IdleTTL
        BY <1>1, BucketRows, TimingAssumption
    <2> QED
        BY <1>1, <1>2, <1>4, <2>2, <2>3, <2>4 DEF Kept
<1> QED
    BY <1>2, <1>3, <1>4

LEMMA MapForFacts ==
    ASSUME IInv, NEW k \in Keys
    PROVE  /\ Kept(MapFor(k), SweptAt(k))
           /\ k \in DOMAIN MapFor(k) <=> k \in DOMAIN bucket
<1>1. CASE k \in DOMAIN bucket
    BY <1>1, SweptFacts DEF MapFor, SweptAt
<1>2. CASE k \notin DOMAIN bucket
    BY <1>2, SweptFacts DEF MapFor, SweptAt, Kept
<1> QED
    BY <1>1, <1>2

LEMMA FreshBucket ==
    ASSUME NEW t \in Nat, NEW now \in Nat
    PROVE  LET b == [tokens |-> t, last |-> now, lastSeen |-> now]
           IN  b \in Bucket /\ b.tokens = t /\ b.last = now /\ b.lastSeen = now
    BY DEF Bucket

\* The bucket a decision is about.
LEMMA BucketOfFacts ==
    ASSUME IInv, NEW k \in Keys
    PROVE  /\ BucketOf(k) \in Bucket
           /\ BucketOf(k).tokens <= Burst[k] /\ BucketOf(k).last <= clock
           /\ Held(BucketOf(k), k) = Level[k]
           /\ clock \in Nat
<1>1. VariablesOK /\ clock \in Nat
    BY DEF IInv, VariablesOK
<1>2. CASE k \in DOMAIN bucket
    BY <1>1, <1>2, BucketRows DEF BucketOf, Level
<1>3. CASE k \notin DOMAIN bucket
    <2>1. Burst[k] \in Nat
        BY KeyFacts
    <2> DEFINE b == [tokens |-> Burst[k], last |-> clock, lastSeen |-> clock]
    <2>2. b \in Bucket /\ b.tokens = Burst[k] /\ b.last = clock
        BY <1>1, <2>1, FreshBucket
    <2>3. BucketOf(k) = b
        BY <1>3, <2>2 DEF BucketOf
    <2>4. Held(b, k) = Burst[k]
        BY <1>1, <2>1, <2>2, HeldFacts
    <2> QED
        BY <1>1, <1>3, <2>1, <2>2, <2>3, <2>4 DEF Level
<1> QED
    BY <1>2, <1>3

\* What a decision leaves in the map for its key.
LEMMA TakenFacts ==
    ASSUME IInv, NEW k \in Keys, Held(BucketOf(k), k) >= Cost
    PROVE  /\ Taken(k) \in Bucket
           /\ Taken(k).tokens <= Burst[k]
           /\ Taken(k).last = clock /\ Taken(k).lastSeen = clock
           /\ Held(Taken(k), k) = Level[k] - Cost
<1>1. /\ BucketOf(k) \in Bucket /\ BucketOf(k).last <= clock
      /\ clock \in Nat /\ Held(BucketOf(k), k) = Level[k]
    BY BucketOfFacts
<1>2. /\ Level[k] \in Nat /\ Level[k] <= Burst[k] /\ Cost \in Nat /\ Burst[k] \in Nat
    BY <1>1, HeldFacts, KeyFacts
<1>3. Level[k] - Cost \in Nat /\ Level[k] - Cost <= Burst[k]
    BY <1>1, <1>2
<1>4. Taken(k) = [tokens |-> Level[k] - Cost, last |-> clock, lastSeen |-> clock]
    BY <1>1 DEF Taken
<1>5. /\ Taken(k) \in Bucket /\ Taken(k).tokens = Level[k] - Cost
      /\ Taken(k).last = clock /\ Taken(k).lastSeen = clock
    BY <1>1, <1>3, <1>4, FreshBucket
<1>6. Held(Taken(k), k) = Level[k] - Cost
    BY <1>1, <1>3, <1>5, HeldFacts
<1> QED
    BY <1>3, <1>5, <1>6

LEMMA UntakenFacts ==
    ASSUME IInv, NEW k \in Keys
    PROVE  /\ Untaken(k) \in Bucket
           /\ Untaken(k).tokens <= Burst[k]
           /\ Untaken(k).last <= clock /\ Untaken(k).lastSeen = clock
           /\ Held(Untaken(k), k) = Level[k]
<1>1. /\ BucketOf(k) \in Bucket /\ BucketOf(k).last <= clock /\ BucketOf(k).tokens <= Burst[k]
      /\ clock \in Nat /\ Held(BucketOf(k), k) = Level[k]
    BY BucketOfFacts
<1>2. PICK old \in Bucket, now \in Nat : old = BucketOf(k) /\ now = clock
    BY <1>1
<1>3. Untaken(k) = [old EXCEPT !.lastSeen = now]
    BY <1>2 DEF Untaken
<1>4. Untaken(k) \in Bucket
    BY <1>3 DEF Bucket
<1>5. /\ Untaken(k).tokens = old.tokens
      /\ Untaken(k).last = old.last /\ Untaken(k).lastSeen = now
    BY <1>3 DEF Bucket
<1>6. Held(Untaken(k), k) = Held(old, k)
    BY <1>5 DEF Held
<1> QED
    BY <1>1, <1>2, <1>4, <1>5, <1>6

-----------------------------------------------------------------------------
(***************************************************************************)
(* Decisions                                                               *)
(***************************************************************************)

\* What was swept away was full: nobody's level changes.
LEMMA KeptLevel ==
    ASSUME IInv, NEW m, NEW swept, Kept(m, swept), NEW j \in Keys
    PROVE  Level[j] = IF j \in DOMAIN m THEN Held(m[j], j) ELSE Burst[j]
<1>1. CASE j \in DOMAIN m
    BY <1>1 DEF Kept, Level
<1>2. CASE j \notin DOMAIN bucket
    BY <1>2 DEF Kept, Level
<1>3. CASE j \in DOMAIN bucket \ DOMAIN m
    <2>1. clock - bucket[j].lastSeen > IdleTTL
        BY <1>3 DEF Kept
    <2>2. clock - bucket[j].last >= Minute
        BY <1>3, <2>1, BucketRows, TimingAssumption DEF IInv
    <2>3. Held(bucket[j], j) = Burst[j]
        BY <1>3, <2>2, BucketRows, HeldFacts DEF IInv
    <2> QED
        BY <1>3, <2>3 DEF Level
<1> QED
    BY <1>1, <1>2, <1>3

\* The part of IInv that a decision touches.
MapInv ==
    /\ IsTable(bucket, Keys, Bucket)
    /\ \A k \in DOMAIN bucket :
        /\ bucket[k].tokens <= Burst[k]
        /\ bucket[k].last <= bucket[k].lastSeen
        /\ bucket[k].lastSeen <= clock
    /\ lastSweep \in Nat \cup {NULL}
    /\ lastSweep # NULL => lastSweep <= clock
    /\ IsFiniteSet(DOMAIN bucket)
    /\ MapIsBounded
    /\ SweptLately

\* A bucket is asked, or made: the map grows by no more than that, below its bound.
LEMMA DecisionKeepsMap ==
    ASSUME IInv, NEW k \in Keys, UNCHANGED clock, ~FailsOpen(k),
           NEW b \in Bucket, b.tokens <= Burst[k], b.last <= b.lastSeen, b.lastSeen = clock,
           bucket' = Put(MapFor(k), k, b), lastSweep' = SweptAt(k)
    PROVE  MapInv' /\ Level' = [Level EXCEPT ![k] = Held(b, k)]
<1> DEFINE m == MapFor(k)
<1>1. Kept(m, SweptAt(k)) /\ (k \in DOMAIN m <=> k \in DOMAIN bucket)
    BY MapForFacts
<1>2. clock \in Nat /\ VariablesOK
    BY DEF IInv, VariablesOK
<1>3. IsTable(bucket', Keys, Bucket) /\ IsFiniteSet(DOMAIN bucket')
    BY <1>1, PutTable, FiniteTables DEF Kept
<1>4. /\ DOMAIN bucket' = DOMAIN m \cup {k}
      /\ bucket'[k] = b
      /\ \A j \in DOMAIN m : j # k => bucket'[j] = bucket[j]
    BY <1>1 DEF Put, Kept
<1>5. \A j \in DOMAIN m : /\ m[j] = bucket[j] /\ j \in DOMAIN bucket /\ j \in Keys
                          /\ bucket[j].tokens <= Burst[j]
                          /\ bucket[j].last <= bucket[j].lastSeen
                          /\ bucket[j].lastSeen <= clock
    BY <1>1, <1>2, BucketRows DEF Kept
<1>6. \A j \in DOMAIN bucket' : /\ bucket'[j].tokens <= Burst[j]
                                /\ bucket'[j].last <= bucket'[j].lastSeen
                                /\ bucket'[j].lastSeen <= clock
    BY <1>2, <1>4, <1>5
<1>7. MapIsBounded'
    <2>1. Cardinality(DOMAIN bucket) <= MaxBuckets
        BY DEF IInv, MapIsBounded
    <2>2. CASE k \in DOMAIN bucket
        <3>1. DOMAIN bucket' = DOMAIN bucket
            BY <1>1, <1>4, <2>2 DEF MapFor
        <3> QED
            BY <2>1, <3>1 DEF MapIsBounded
    <2>3. CASE k \notin DOMAIN bucket
        <3>1. m = Swept /\ ~(Cardinality(DOMAIN Swept) >= MaxBuckets)
            BY <2>3 DEF FailsOpen, MapFor
        <3>2. IsFiniteSet(DOMAIN m) /\ k \notin DOMAIN m
            BY <1>1, <2>3 DEF Kept
        <3>3. Cardinality(DOMAIN bucket') = Cardinality(DOMAIN m) + 1
            BY <1>4, <3>2, FS_AddElement
        <3>4. Cardinality(DOMAIN m) \in Nat /\ MaxBuckets \in Nat
            BY <3>2, FS_CardinalityType, TimingAssumption
        <3> QED
            BY <3>1, <3>3, <3>4 DEF MapIsBounded
    <2> QED
        BY <2>2, <2>3
<1>8. SweptLately'
    <2> SUFFICES ASSUME lastSweep' # NULL, NEW j \in DOMAIN bucket'
                 PROVE  lastSweep' - bucket'[j].lastSeen <= IdleTTL
        BY DEF SweptLately
    <2>1. /\ lastSweep' \in Nat /\ lastSweep' <= clock /\ IdleTTL \in Nat
          /\ \A i \in DOMAIN m : lastSweep' - m[i].lastSeen <= IdleTTL
        BY <1>1, TimingAssumption DEF Kept
    <2>2. CASE j = k
        BY <1>2, <1>4, <2>1, <2>2
    <2>3. CASE j # k
        BY <1>4, <1>5, <2>1, <2>3
    <2> QED
        BY <2>2, <2>3
<1>9. lastSweep' \in Nat \cup {NULL} /\ (lastSweep' # NULL => lastSweep' <= clock)
    BY <1>1 DEF Kept
<1>10. Level' = [Level EXCEPT ![k] = Held(b, k)]
    <2> SUFFICES ASSUME NEW j \in Keys
                 PROVE  Level'[j] = IF j = k THEN Held(b, k) ELSE Level[j]
        BY DEF Level, Keys, Burst
    <2>1. Level'[j] = IF j \in DOMAIN bucket' THEN Held(bucket'[j], j) ELSE Burst[j]
        BY DEF Level, Held, Burst, Refill, UpTo
    <2>2. CASE j = k
        BY <1>4, <2>1, <2>2
    <2>3. CASE j # k
        BY <1>1, <1>4, <1>5, <2>1, <2>3, KeptLevel
    <2> QED
        BY <2>2, <2>3
<1> QED
    BY <1>3, <1>6, <1>7, <1>8, <1>9, <1>10 DEF MapInv

\* A request that passes uncounted leaves the map full of clients heard of lately.
LEMMA OpenKeepsMap ==
    ASSUME IInv, NEW k \in Keys, FailsOpen(k), bucket' = Swept, lastSweep' = SweptAt(k)
    PROVE  /\ UNCHANGED clock => MapInv' /\ Level' = Level
           /\ Level[k] = Burst[k]
           /\ Cardinality(DOMAIN bucket') = MaxBuckets
           /\ \A j \in DOMAIN bucket' :
                clock - bucket'[j].lastSeen <= IdleTTL + SweepInterval
<1>1. /\ k \notin DOMAIN bucket /\ Cardinality(DOMAIN Swept) >= MaxBuckets
      /\ lastSweep' = IF SweepDue THEN clock ELSE lastSweep
    BY DEF FailsOpen, SweptAt
<1>2. Kept(bucket', lastSweep') /\ VariablesOK /\ clock \in Nat
    BY <1>1, SweptFacts DEF IInv, VariablesOK
<1>3. \A j \in DOMAIN bucket' : /\ bucket'[j] = bucket[j] /\ j \in DOMAIN bucket /\ j \in Keys
                                /\ bucket[j].lastSeen \in Nat
                                /\ bucket[j].tokens <= Burst[j]
                                /\ bucket[j].last <= bucket[j].lastSeen
                                /\ bucket[j].lastSeen <= clock
    BY <1>2, BucketRows DEF Kept
<1>4. Cardinality(DOMAIN bucket') = MaxBuckets
    <2>1. IsFiniteSet(DOMAIN bucket) /\ Cardinality(DOMAIN bucket) <= MaxBuckets
        BY DEF IInv, MapIsBounded
    <2>2. DOMAIN bucket' \subseteq DOMAIN bucket
        BY <1>2 DEF Kept
    <2>3. /\ Cardinality(DOMAIN bucket') <= Cardinality(DOMAIN bucket)
          /\ Cardinality(DOMAIN bucket') \in Nat /\ Cardinality(DOMAIN bucket) \in Nat
        BY <2>1, <2>2, FS_Subset, FS_CardinalityType
    <2>4. MaxBuckets \in Nat
        BY TimingAssumption
    <2> QED
        BY <1>1, <2>1, <2>3, <2>4
<1>5. ASSUME UNCHANGED clock PROVE MapInv'
    BY <1>2, <1>3, <1>4, <1>5, TimingAssumption DEF MapInv, Kept, MapIsBounded, SweptLately
<1>6. ASSUME UNCHANGED clock PROVE Level' = Level
    <2> SUFFICES ASSUME NEW j \in Keys PROVE Level'[j] = Level[j]
        BY DEF Level, Keys, Burst
    <2>1. Level'[j] = IF j \in DOMAIN bucket' THEN Held(bucket'[j], j) ELSE Burst[j]
        BY <1>6 DEF Level, Held, Burst, Refill, UpTo
    <2> QED
        BY <1>2, <2>1, KeptLevel
<1>7. \A j \in DOMAIN bucket' : clock - bucket'[j].lastSeen <= IdleTTL + SweepInterval
    <2>1. /\ lastSweep' \in Nat /\ IdleTTL \in Nat /\ SweepInterval \in Nat
          /\ clock - lastSweep' <= SweepInterval
          /\ \A j \in DOMAIN bucket' : lastSweep' - bucket'[j].lastSeen <= IdleTTL
        BY <1>1, <1>2, TimingAssumption, RequestAssumption DEF Kept, SweepDue
    <2> QED
        BY <1>2, <1>3, <2>1
<1> QED
    BY <1>1, <1>4, <1>5, <1>6, <1>7 DEF Level

-----------------------------------------------------------------------------
(***************************************************************************)
(* The inductive invariant                                                 *)
(***************************************************************************)

LEMMA IInvInit == Init => IInv
<1> SUFFICES ASSUME Init PROVE IInv
    OBVIOUS
<1>1. IsTable(bucket, Keys, Bucket) /\ DOMAIN bucket = {}
    BY EmptyIsTable DEF Init
<1>2. VariablesOK
    BY <1>1 DEF Init, VariablesOK
<1>3. IsFiniteSet(DOMAIN bucket) /\ MapIsBounded
    BY <1>1, FS_EmptySet, TimingAssumption DEF MapIsBounded
<1> QED
    BY <1>2, <1>3 DEF Init, IInv, Authenticated, SweptLately

\* What any decision does: to the map, and to the levels.
LEMMA DecisionFacts ==
    ASSUME IInv, NEW k \in Keys, UNCHANGED clock, Admits(k) \/ Refuses(k)
    PROVE  /\ MapInv'
           /\ answer' \in [key: Keys, as: {"admitted", "refused", "open"}]
           /\ Ideal!Admit(k) \/ Ideal!Refuse(k) \/ Ideal!PassUncounted(k)
<1>1. Held(BucketOf(k), k) = Level[k] /\ Cost \in Nat /\ Level[k] \in Nat /\ clock \in Nat
    BY BucketOfFacts, HeldFacts, KeyFacts
<1>2. CASE /\ FailsOpen(k) /\ bucket' = Swept /\ lastSweep' = SweptAt(k)
           /\ answer' = [key |-> k, as |-> "open"]
    <2>1. MapInv' /\ Level' = Level /\ Level[k] = Burst[k]
        BY <1>2, OpenKeepsMap
    <2> QED
        BY <1>2, <2>1 DEF Ideal!PassUncounted
<1>3. CASE /\ ~FailsOpen(k) /\ Held(BucketOf(k), k) >= Cost
           /\ bucket' = Put(MapFor(k), k, Taken(k)) /\ lastSweep' = SweptAt(k)
           /\ answer' = [key |-> k, as |-> "admitted"]
    <2>1. /\ Taken(k) \in Bucket /\ Taken(k).tokens <= Burst[k]
          /\ Taken(k).last <= Taken(k).lastSeen /\ Taken(k).lastSeen = clock
          /\ Held(Taken(k), k) = Level[k] - Cost
        BY <1>1, <1>3, TakenFacts
    <2>2. MapInv' /\ Level' = [Level EXCEPT ![k] = Held(Taken(k), k)]
        BY <1>3, <2>1, DecisionKeepsMap
    <2> QED
        BY <1>1, <1>3, <2>1, <2>2 DEF Ideal!Admit
<1>4. CASE /\ ~FailsOpen(k) /\ Held(BucketOf(k), k) < Cost
           /\ bucket' = Put(MapFor(k), k, Untaken(k)) /\ lastSweep' = SweptAt(k)
           /\ answer' = [key |-> k, as |-> "refused"]
    <2>1. /\ Untaken(k) \in Bucket /\ Untaken(k).tokens <= Burst[k]
          /\ Untaken(k).last <= Untaken(k).lastSeen /\ Untaken(k).lastSeen = clock
          /\ Held(Untaken(k), k) = Level[k]
        BY UntakenFacts
    <2>2. MapInv' /\ Level' = [Level EXCEPT ![k] = Held(Untaken(k), k)]
        BY <1>4, <2>1, DecisionKeepsMap
    <2>3. Level' = Level
        BY <2>1, <2>2 DEF Level
    <2> QED
        BY <1>1, <1>4, <2>2, <2>3 DEF Ideal!Refuse
<1> QED
    BY <1>2, <1>3, <1>4 DEF Admits, Refuses

\* The keys the requests are counted under.
LEMMA RequestKeys ==
    ASSUME NEW r \in Requests
    PROVE  /\ KeyOfIP(r) \in Keys
           /\ r.principal # NULL => <<"principal", r.principal>> \in Keys
    BY RequestAssumption DEF Request, KeyOfIP, Keys

LEMMA DecisionKeepsIInv ==
    ASSUME IInv, NEW k \in Keys, UNCHANGED clock, Admits(k) \/ Refuses(k),
           inFlight' \subseteq Requests, Authenticated'
    PROVE  IInv'
    BY DecisionFacts DEF IInv, VariablesOK, MapInv

LEMMA LimitKeepsIInv ==
    ASSUME IInv, NEW r \in Requests, LimitByIP(r) \/ LimitByPrincipal(r)
    PROVE  IInv'
<1>1. inFlight \subseteq Requests /\ Authenticated
    BY DEF IInv, VariablesOK
<1>2. CASE LimitByIP(r)
    <2>1. Admits(KeyOfIP(r)) \/ Refuses(KeyOfIP(r))
        BY <1>2 DEF LimitByIP
    <2>2. inFlight' \subseteq Requests /\ Authenticated' /\ UNCHANGED clock
        BY <1>1, <1>2 DEF LimitByIP, Authenticated
    <2> QED
        BY <2>1, <2>2, RequestKeys, DecisionKeepsIInv
<1>3. CASE LimitByPrincipal(r)
    <2>1. /\ <<"principal", r.principal>> \in Keys
          /\ Admits(<<"principal", r.principal>>) \/ Refuses(<<"principal", r.principal>>)
        BY <1>1, <1>3, RequestKeys DEF LimitByPrincipal, Authenticated
    <2>2. inFlight' \subseteq Requests /\ Authenticated' /\ UNCHANGED clock
        BY <1>1, <1>3 DEF LimitByPrincipal, Authenticated
    <2> QED
        BY <2>1, <2>2, DecisionKeepsIInv
<1> QED
    BY <1>2, <1>3

LEMMA IInvStep == IInv /\ [Next]_vars => IInv'
<1> SUFFICES ASSUME IInv, [Next]_vars PROVE IInv'
    OBVIOUS
<1>1. ASSUME NEW r \in Requests, LimitByIP(r) \/ LimitByPrincipal(r) PROVE IInv'
    BY <1>1, LimitKeepsIInv
<1>2. ASSUME NEW r \in Requests, NotAuthenticated(r) PROVE IInv'
    BY <1>2 DEF NotAuthenticated, IInv, VariablesOK, MapIsBounded, Authenticated, SweptLately
<1>3. CASE Restart
    <2>1. IsTable(bucket', Keys, Bucket) /\ DOMAIN bucket' = {}
        BY <1>3, EmptyIsTable DEF Restart
    <2>2. VariablesOK'
        BY <1>3, <2>1 DEF Restart, IInv, VariablesOK
    <2>3. IsFiniteSet(DOMAIN bucket') /\ MapIsBounded'
        BY <2>1, FS_EmptySet, TimingAssumption DEF MapIsBounded
    <2> QED
        BY <1>3, <2>2, <2>3 DEF Restart, IInv, Authenticated, SweptLately
<1>4. CASE Tick
    <2>1. \A k \in DOMAIN bucket : bucket[k].lastSeen <= clock + 1
        BY BucketRows DEF IInv
    <2>2. VariablesOK'
        BY <1>4, <2>1 DEF Tick, IInv, VariablesOK
    <2> QED
        BY <1>4, <2>2 DEF Tick, IInv, MapIsBounded, Authenticated, SweptLately
<1>5. CASE UNCHANGED vars
    BY <1>5 DEF vars, IInv, VariablesOK, MapIsBounded, Authenticated, SweptLately
<1> QED
    BY <1>1, <1>2, <1>3, <1>4, <1>5 DEF Next

\* The inductive invariant holds in every reachable state.
THEOREM Inductive == Spec => []IInv
    BY IInvInit, IInvStep, PTL DEF Spec

-----------------------------------------------------------------------------
(***************************************************************************)
(* Theorems                                                                *)
(***************************************************************************)

\* Every variable keeps its type, no bucket holds more than its burst, and the
\* map never outgrows its bound (ratelimit.go:43-46).
THEOREM TypeCorrect == Spec => []TypeOK
<1>1. IInv => TypeOK
    BY DEF IInv, TypeOK
<1> QED
    BY <1>1, Inductive, PTL

LEMMA UncountedStep ==
    ASSUME IInv, NEW k \in Keys, Admits(k), answer'.as = "open"
    PROVE  /\ Cardinality(DOMAIN bucket') = MaxBuckets
           /\ \A j \in DOMAIN bucket' :
                clock - bucket'[j].lastSeen <= IdleTTL + SweepInterval
<1>1. FailsOpen(k) /\ bucket' = Swept /\ lastSweep' = SweptAt(k)
    BY DEF Admits
<1> QED
    BY <1>1, OpenKeepsMap

\* Nobody passes uncounted but while the map is full of clients heard of lately
\* (ratelimit.go:149-158).
THEOREM UncountedIsRare == Spec => UncountedOnlyWhenBusy
<1>1. IInv =>
        [\A k \in Keys :
            Admits(k) /\ answer'.as = "open" =>
                /\ Cardinality(DOMAIN bucket') = MaxBuckets
                /\ \A j \in DOMAIN bucket' :
                    clock - bucket'[j].lastSeen <= IdleTTL + SweepInterval]_vars
    BY UncountedStep
<1> QED
    BY <1>1, Inductive, PTL DEF Spec, UncountedOnlyWhenBusy

-----------------------------------------------------------------------------
(***************************************************************************)
(* The limiter implements the ideal one                                    *)
(***************************************************************************)

LEMMA EmptyMapIsFull ==
    ASSUME bucket = EmptyTable
    PROVE  Level = Ideal!Full
    BY EmptyIsTable DEF Level, Ideal!Full

LEMMA IdealInit == Init => Ideal!Init
    BY EmptyMapIsFull DEF Init, Ideal!Init

LEMMA TickElapses == ASSUME IInv, Tick PROVE Ideal!Elapse
<1>1. clock \in Nat /\ clock' = clock + 1 /\ UNCHANGED <<bucket, answer>> /\ VariablesOK
    BY DEF IInv, VariablesOK, Tick
<1>2. ASSUME NEW j \in Keys PROVE Level'[j] = UpTo(Burst[j], Level[j] + Refill[j])
    <2>1. CASE j \in DOMAIN bucket
        <3>1. PICK b \in Bucket : b = bucket[j] /\ b.last <= clock
            BY <1>1, <2>1, BucketRows
        <3>2. Level[j] = Held(b, j)
            BY <2>1, <3>1 DEF Level
        <3>3. Level'[j] = Held(b, j)'
            BY <1>1, <2>1, <3>1 DEF Level
        <3> QED
            BY <1>1, <3>1, <3>2, <3>3, HeldLater
    <2>2. CASE j \notin DOMAIN bucket
        <3>1. Level[j] = Burst[j] /\ Level'[j] = Burst[j]
            BY <1>1, <2>2 DEF Level
        <3>2. Burst[j] \in Nat /\ Refill[j] \in Nat
            BY KeyFacts
        <3> QED
            BY <3>1, <3>2 DEF UpTo
    <2> QED
        BY <2>1, <2>2
<1>3. Level' = [j \in Keys |-> UpTo(Burst[j], Level[j] + Refill[j])]
    BY <1>2 DEF Level, Keys
<1> QED
    BY <1>1, <1>3 DEF Ideal!Elapse, Ideal!UpTo, UpTo

LEMMA IdealStep == IInv /\ [Next]_vars => [Ideal!Next]_<<Level, answer>>
<1> SUFFICES ASSUME IInv, [Next]_vars
             PROVE  Ideal!Next \/ UNCHANGED <<Level, answer>>
    OBVIOUS
<1>1. ASSUME NEW r \in Requests, LimitByIP(r) PROVE Ideal!Next
    <2>1. UNCHANGED clock /\ (Admits(KeyOfIP(r)) \/ Refuses(KeyOfIP(r)))
        BY <1>1 DEF LimitByIP
    <2> QED
        BY <2>1, RequestKeys, DecisionFacts DEF Ideal!Next
<1>2. ASSUME NEW r \in Requests, LimitByPrincipal(r) PROVE Ideal!Next
    <2> DEFINE k == <<"principal", r.principal>>
    <2>1. k \in Keys /\ UNCHANGED clock /\ (Admits(k) \/ Refuses(k))
        BY <1>2, RequestKeys DEF LimitByPrincipal, IInv, Authenticated
    <2> HIDE DEF k
    <2> QED
        BY <2>1, DecisionFacts DEF Ideal!Next
<1>3. ASSUME NEW r \in Requests, NotAuthenticated(r) PROVE UNCHANGED <<Level, answer>>
    BY <1>3 DEF NotAuthenticated, Level, Held
<1>4. CASE Restart
    <2>1. Level' = Ideal!Full
        BY <1>4, EmptyIsTable DEF Restart, Level, Ideal!Full
    <2> QED
        BY <1>4, <2>1 DEF Restart, Ideal!Next, Ideal!Forget
<1>5. CASE Tick
    BY <1>5, TickElapses DEF Ideal!Next
<1>6. CASE UNCHANGED vars
    BY <1>6 DEF vars, Level, Held
<1> QED
    BY <1>1, <1>2, <1>3, <1>4, <1>5, <1>6 DEF Next

\* Lazy refill, eviction and the bound are invisible: every client is limited as
\* by a bucket of its own that is never evicted (ratelimit.go:63-67).
THEOREM LimiterIsIdeal == Spec => ImplementsIdeal
    BY IdealInit, IdealStep, Inductive, PTL DEF Spec, ImplementsIdeal, Ideal!Spec

==============================================================================
