----------------------------- MODULE RateLimiter -----------------------------
(***************************************************************************)
(* The API's two throttling tiers (auth/ratelimit.go).  Every request      *)
(* takes a token of its client address first, in the class of its path;    *)
(* one that is then authenticated takes a token of its principal.  The     *)
(* buckets live in one bounded map under one mutex, so a decision is one   *)
(* step, but a request is two, with the authentication query in between.   *)
(*                                                                         *)
(* Buckets are lazy: a bucket is brought up to date when it is asked, and  *)
(* the map is swept for idle ones only when a bucket is created, at most   *)
(* once per interval.  A bucket's contents are counted in Minute-ths of a  *)
(* request, so that a budget of n requests per minute adds n per instant.  *)
(***************************************************************************)
EXTENDS Integers, FiniteSets, Tables

CONSTANTS
    IPs, Principals,
    Requests,       \* the requests in flight at once, each with its own identity
    PerMin,         \* the budget of each class
    Minute,         \* instants in a minute
    IdleTTL,        \* idleBucketTTL
    SweepInterval,
    MaxBuckets,
    MaxTime,        \* bound on the clock
    NULL

IPClasses == {"auth", "healthz", "ipCeiling"}
Classes == IPClasses \cup {"principal"}

Keys == (IPClasses \X IPs) \cup ({"principal"} \X Principals)

\* A request of a public operation carries no principal.
Request == [class: IPClasses, ip: IPs, principal: Principals \cup {NULL}]

ASSUME RequestAssumption == Requests \subseteq Request /\ NULL \notin Nat

\* An idle bucket has long refilled when it is evicted.
ASSUME TimingAssumption ==
    /\ PerMin \in [Classes -> Nat \ {0}]
    /\ Minute \in Nat \ {0}
    /\ IdleTTL \in Nat /\ IdleTTL >= Minute
    /\ SweepInterval \in Nat
    /\ MaxBuckets \in Nat
    /\ MaxTime \in Nat

\* newLimit: the burst is the whole budget of a minute.
Refill == [k \in Keys |-> PerMin[k[1]]]
Burst == [k \in Keys |-> Refill[k] * Minute]
Cost == Minute

VARIABLES
    bucket,     \* the map: key -> what the limiter held, and when, and the last access
    lastSweep,
    inFlight,   \* requests past the first tier
    answer,     \* the last decision
    clock

vars == <<bucket, lastSweep, inFlight, answer, clock>>

Bucket == [tokens: Nat, last: Nat, lastSeen: Nat]

VariablesOK ==
    /\ IsTable(bucket, Keys, Bucket)
    /\ \A k \in DOMAIN bucket :
        /\ bucket[k].tokens <= Burst[k]
        /\ bucket[k].last <= bucket[k].lastSeen
        /\ bucket[k].lastSeen <= clock
    /\ lastSweep \in Nat \cup {NULL}
    /\ lastSweep # NULL => lastSweep <= clock
    /\ inFlight \subseteq Requests
    /\ answer \in [key: Keys, as: {"admitted", "refused", "open"}] \cup {NULL}
    /\ clock \in Nat

\* The map never outgrows its bound, however many clients there are
\* (ratelimit.go:43-46).
MapIsBounded == Cardinality(DOMAIN bucket) <= MaxBuckets

TypeOK == VariablesOK /\ MapIsBounded

\* x, but no more than the bound.
UpTo(bound, x) == IF x < bound THEN x ELSE bound

Init ==
    /\ bucket = EmptyTable
    /\ lastSweep = NULL
    /\ inFlight = {}
    /\ answer = NULL
    /\ clock = 0

-----------------------------------------------------------------------------
(***************************************************************************)
(* allow                                                                   *)
(***************************************************************************)

SweepDue == lastSweep = NULL \/ clock - lastSweep >= SweepInterval

\* Mutant: the sweep throws away the whole map.
EvictsAll(m) == EmptyTable

\* Mutant: the sweep evicts nothing.
EvictsNothing(m) == m

\* The buckets of m not idle for longer than IdleTTL.
NotIdle(m) == Restrict(m, {k \in DOMAIN m : clock - m[k].lastSeen <= IdleTTL})

Swept == IF SweepDue THEN NotIdle(bucket) ELSE bucket

\* The map allow decides over: only a key without a bucket makes it sweep.
MapFor(k) == IF k \in DOMAIN bucket THEN bucket ELSE Swept

SweptAt(k) == IF k \notin DOMAIN bucket /\ SweepDue THEN clock ELSE lastSweep

\* Mutant: the map may hold one bucket more than its bound.
FailsOpenLate(k) == k \notin DOMAIN bucket /\ Cardinality(DOMAIN Swept) > MaxBuckets

\* No bucket and no room for one.
FailsOpen(k) == k \notin DOMAIN bucket /\ Cardinality(DOMAIN Swept) >= MaxBuckets

BucketOf(k) ==
    IF k \in DOMAIN bucket THEN bucket[k]
    ELSE [tokens |-> Burst[k], last |-> clock, lastSeen |-> clock]

\* What a bucket holds by now.
Held(b, k) == UpTo(Burst[k], b.tokens + Refill[k] * (clock - b.last))

\* rate.Limiter.Allow: a request that gets no token leaves the bucket as it is.
Taken(k) == [tokens |-> Held(BucketOf(k), k) - Cost, last |-> clock, lastSeen |-> clock]
Untaken(k) == [BucketOf(k) EXCEPT !.lastSeen = clock]

Admits(k) ==
    \/ /\ FailsOpen(k)
       /\ bucket' = Swept
       /\ lastSweep' = SweptAt(k)
       /\ answer' = [key |-> k, as |-> "open"]
    \/ /\ ~FailsOpen(k)
       /\ Held(BucketOf(k), k) >= Cost
       /\ bucket' = Put(MapFor(k), k, Taken(k))
       /\ lastSweep' = SweptAt(k)
       /\ answer' = [key |-> k, as |-> "admitted"]

Refuses(k) ==
    /\ ~FailsOpen(k)
    /\ Held(BucketOf(k), k) < Cost
    /\ bucket' = Put(MapFor(k), k, Untaken(k))
    /\ lastSweep' = SweptAt(k)
    /\ answer' = [key |-> k, as |-> "refused"]

-----------------------------------------------------------------------------

KeyOfIP(r) == <<r.class, r.ip>>

\* A public operation is done with the limiter here.
LimitByIP(r) ==
    /\ r \notin inFlight
    /\ \/ /\ Admits(KeyOfIP(r))
          /\ inFlight' = IF r.principal = NULL THEN inFlight ELSE inFlight \cup {r}
       \/ /\ Refuses(KeyOfIP(r))
          /\ UNCHANGED inFlight
    /\ UNCHANGED clock

LimitByPrincipal(r) ==
    /\ r \in inFlight
    /\ inFlight' = inFlight \ {r}
    /\ Admits(<<"principal", r.principal>>) \/ Refuses(<<"principal", r.principal>>)
    /\ UNCHANGED clock

\* Authenticate refuses the request, or its client is gone.
NotAuthenticated(r) ==
    /\ r \in inFlight
    /\ inFlight' = inFlight \ {r}
    /\ UNCHANGED <<bucket, lastSweep, answer, clock>>

\* The map lives in the process.
Restart ==
    /\ bucket' = EmptyTable
    /\ lastSweep' = NULL
    /\ inFlight' = {}
    /\ UNCHANGED <<answer, clock>>

Tick ==
    /\ clock < MaxTime
    /\ clock' = clock + 1
    /\ UNCHANGED <<bucket, lastSweep, inFlight, answer>>

Next ==
    \/ \E r \in Requests : LimitByIP(r) \/ LimitByPrincipal(r) \/ NotAuthenticated(r)
    \/ Restart
    \/ Tick

Spec == Init /\ [][Next]_vars

-----------------------------------------------------------------------------
(***************************************************************************)
(* Properties                                                              *)
(***************************************************************************)

\* A client passes uncounted only while the map is full of clients that were
\* all heard of within the last IdleTTL + SweepInterval: idle ones do not keep
\* new ones out of the map for longer (ratelimit.go:149-158).
UncountedOnlyWhenBusy ==
    [][\A k \in Keys :
        Admits(k) /\ answer'.as = "open" =>
            /\ Cardinality(DOMAIN bucket') = MaxBuckets
            /\ \A j \in DOMAIN bucket' :
                clock - bucket'[j].lastSeen <= IdleTTL + SweepInterval]_vars

(***************************************************************************)
(* Lazy refill, lazy eviction and the bound are invisible: the limiter     *)
(* decides as if every client had a bucket of its own that is never        *)
(* evicted (ratelimit.go:63-67: "evicting an idle bucket never discards    *)
(* live throttle state"), and a client under limit stays under it.         *)
(***************************************************************************)

Level == [k \in Keys |-> IF k \in DOMAIN bucket THEN Held(bucket[k], k) ELSE Burst[k]]

Ideal == INSTANCE IdealLimiter WITH tokens <- Level

\* The limiter implements the ideal one.
ImplementsIdeal == Ideal!Spec

=============================================================================
