-------------------------- MODULE ReportQueueProofs --------------------------
(***************************************************************************)
(* Proofs about ReportQueue, for any reports, tenants, requests in flight  *)
(* and limits.  The worker remembers the row it claimed while the table    *)
(* goes on: the proofs rest on nobody settling that row before it does.    *)
(***************************************************************************)
EXTENDS ReportQueue, TableTheorems, TLAPS

\* created_at is the row's rank: a row inserted now is younger than every other.
RanksGrow ==
    /\ IsFiniteSet(DOMAIN report)
    /\ \A r \in DOMAIN report : report[r].createdAt < Cardinality(DOMAIN report)

Working == {"render", "put", "mark"}

\* The row the worker claimed is the one it is working on, and nobody else
\* settles it: the sweep runs only before the claim.
ClaimHolds ==
    worker.pc \in Working \cup {"give up"} =>
        /\ worker.claimed \in DOMAIN report
        /\ report[worker.claimed].attempts = worker.attempt
        /\ worker.pc \in Working => report[worker.claimed].status = "generating"
        /\ worker.pc = "mark" => pdf[worker.claimed] # NULL
        /\ worker.pc = "give up" => worker.attempt = MaxAttempts

FailedSpentAll ==
    \A r \in DOMAIN report :
        report[r].status = "failed" => report[r].attempts = MaxAttempts

IInv ==
    /\ TypeOK
    /\ RanksGrow
    /\ ClaimHolds
    /\ FailedSpentAll
    /\ NoOvertaking
    /\ SoftCapHolds

-----------------------------------------------------------------------------
(***************************************************************************)
(* Rows                                                                    *)
(***************************************************************************)

LEMMA ReportRows ==
    ASSUME TypeOK, NEW r \in DOMAIN report
    PROVE  /\ r \in Reports
           /\ report[r] \in ReportRow
           /\ report[r].tenant \in Tenants /\ report[r].createdAt \in Nat
           /\ report[r].status \in {"generating", "ready", "failed"}
           /\ report[r].attempts \in 0..MaxAttempts
    BY DEF TypeOK, IsTable, ReportRow

\* The rows are those that were there, each in its place in the queue.
SameQueue ==
    /\ DOMAIN report' = DOMAIN report
    /\ \A r \in DOMAIN report : /\ report'[r].tenant = report[r].tenant
                                /\ report'[r].createdAt = report[r].createdAt

\* What a statement that sets a status does to the rows.
LEMMA WithStatusRows ==
    ASSUME TypeOK, NEW rs, NEW s \in {"ready", "failed"}, report' = WithStatus(rs, s)
    PROVE  /\ IsTable(report', Reports, ReportRow)
           /\ SameQueue
           /\ \A r \in DOMAIN report :
                /\ report'[r].attempts = report[r].attempts
                /\ report'[r].status = IF r \in rs THEN s ELSE report[r].status
<1>1. DOMAIN report' = DOMAIN report
    BY DEF WithStatus
<1>2. ASSUME NEW r \in DOMAIN report
      PROVE  /\ report'[r] \in ReportRow
             /\ report'[r].tenant = report[r].tenant
             /\ report'[r].createdAt = report[r].createdAt
             /\ report'[r].attempts = report[r].attempts
             /\ report'[r].status = IF r \in rs THEN s ELSE report[r].status
    <2>1. PICK row \in ReportRow : row = report[r]
        BY ReportRows
    <2>2. report'[r] = IF r \in rs THEN [row EXCEPT !.status = s] ELSE row
        BY <2>1 DEF WithStatus
    <2>3. CASE r \in rs
        BY <2>1, <2>2, <2>3 DEF ReportRow
    <2>4. CASE r \notin rs
        BY <2>1, <2>2, <2>4
    <2> QED
        BY <2>3, <2>4
<1>3. report' = [r \in DOMAIN report' |-> report'[r]]
    BY DEF WithStatus
<1>4. IsTable(report', Reports, ReportRow)
    BY <1>1, <1>2, <1>3 DEF IsTable, TypeOK
<1> QED
    BY <1>1, <1>2, <1>4 DEF SameQueue

\* What a claim does to the rows.
LEMMA ClaimedRows ==
    ASSUME TypeOK, NEW q \in Claimable, report' = Claimed(q)
    PROVE  /\ IsTable(report', Reports, ReportRow)
           /\ SameQueue
           /\ \A r \in DOMAIN report :
                /\ report'[r].status = report[r].status
                /\ report'[r].attempts = IF r = q THEN report[q].attempts + 1
                                         ELSE report[r].attempts
           /\ report[q].attempts + 1 \in Attempt
<1>1. q \in DOMAIN report /\ report[q].attempts < MaxAttempts
    BY DEF Claimable
<1>2. PICK row \in ReportRow : row = report[q]
    BY <1>1, ReportRows
<1>3. row.attempts + 1 \in Attempt /\ row.attempts + 1 \in 0..MaxAttempts
    BY <1>1, <1>2, LimitAssumption DEF ReportRow, Attempt
<1>4. /\ DOMAIN report' = DOMAIN report
      /\ report'[q] = [row EXCEPT !.attempts = row.attempts + 1]
      /\ \A r \in DOMAIN report : r # q => report'[r] = report[r]
      /\ report' = [r \in DOMAIN report' |-> report'[r]]
    BY <1>1, <1>2 DEF Claimed
<1>5. /\ report'[q] \in ReportRow
      /\ report'[q].tenant = row.tenant /\ report'[q].createdAt = row.createdAt
      /\ report'[q].status = row.status /\ report'[q].attempts = row.attempts + 1
    BY <1>3, <1>4 DEF ReportRow
<1>6. IsTable(report', Reports, ReportRow)
    BY <1>4, <1>5 DEF IsTable, TypeOK
<1> QED
    BY <1>1, <1>2, <1>3, <1>4, <1>5, <1>6 DEF SameQueue

\* The two shapes of the worker's state.
LEMMA WorkerShapes ==
    /\ \A pc \in {"sweep", "claim"} : [pc |-> pc] \in WorkerState
    /\ \A pc \in {"render", "put", "mark", "give up"}, q \in Reports, n \in Attempt :
            [pc |-> pc, claimed |-> q, attempt |-> n] \in WorkerState
    BY DEF WorkerState

LEMMA WorkerFacts ==
    ASSUME TypeOK
    PROVE  /\ worker.pc \in {"sweep", "claim", "give up"} \cup Working
           /\ worker.pc \in Working \cup {"give up"} =>
                /\ worker.claimed \in Reports /\ worker.attempt \in Attempt
                /\ worker = [pc |-> worker.pc, claimed |-> worker.claimed,
                             attempt |-> worker.attempt]
    BY DEF TypeOK, WorkerState, Working

-----------------------------------------------------------------------------
(***************************************************************************)
(* Counting against the soft cap                                           *)
(***************************************************************************)

InFlight(t) == {c \in DOMAIN call : call[c] = t}

LEMMA Counts ==
    ASSUME TypeOK, RanksGrow, NEW t
    PROVE  /\ IsFiniteSet(Pending(t)) /\ Cardinality(Pending(t)) \in Nat
           /\ IsFiniteSet(InFlight(t)) /\ Cardinality(InFlight(t)) \in Nat
           /\ Cardinality(Calls) \in Nat
           /\ Cardinality(InFlight(t)) <= Cardinality(Calls)
<1>1. Pending(t) \subseteq DOMAIN report /\ InFlight(t) \subseteq Calls
    BY DEF Pending, InFlight, TypeOK, IsTable
<1> QED
    BY <1>1, FS_Subset, FS_CardinalityType, CallsAssumption DEF RanksGrow

\* Rows that are settled and requests that end make room.
LEMMA CapAfterLeaving ==
    ASSUME IInv,
           \A t \in Tenants : /\ Pending(t)' \subseteq Pending(t)
                              /\ InFlight(t)' \subseteq InFlight(t)
    PROVE  SoftCapHolds'
<1> SUFFICES ASSUME NEW t \in Tenants
             PROVE  Cardinality(Pending(t)') + Cardinality(InFlight(t)')
                        < MaxPending + Cardinality(Calls)
    BY DEF SoftCapHolds, InFlight
<1>1. Cardinality(Pending(t)') <= Cardinality(Pending(t)) /\ Cardinality(Pending(t)') \in Nat
    BY Counts, FS_Subset, FS_CardinalityType DEF IInv
<1>2. /\ Cardinality(InFlight(t)') <= Cardinality(InFlight(t))
      /\ Cardinality(InFlight(t)') \in Nat
    BY Counts, FS_Subset, FS_CardinalityType DEF IInv
<1>3. Cardinality(Pending(t)) + Cardinality(InFlight(t)) < MaxPending + Cardinality(Calls)
    BY DEF IInv, SoftCapHolds, InFlight
<1>4. /\ Cardinality(Pending(t)) \in Nat /\ Cardinality(InFlight(t)) \in Nat
      /\ Cardinality(Calls) \in Nat /\ MaxPending \in Nat
    BY Counts, LimitAssumption DEF IInv
<1> QED
    BY <1>1, <1>2, <1>3, <1>4

-----------------------------------------------------------------------------
(***************************************************************************)
(* Create requests                                                         *)
(***************************************************************************)

LEMMA IInvInit == Init => IInv
<1> SUFFICES ASSUME Init PROVE IInv
    OBVIOUS
<1>1. DOMAIN report = {} /\ DOMAIN call = {} /\ worker = [pc |-> "sweep"]
    BY EmptyIsTable DEF Init, Sweeping
<1>2. TypeOK
    BY <1>1, EmptyIsTable DEF Init, TypeOK, WorkerState
<1>3. RanksGrow
    BY <1>1, FS_EmptySet DEF RanksGrow
<1>4. SoftCapHolds
    <2> SUFFICES ASSUME NEW t \in Tenants
                 PROVE  Cardinality(Pending(t)) + Cardinality(InFlight(t))
                            < MaxPending + Cardinality(Calls)
        BY DEF SoftCapHolds, InFlight
    <2>1. Pending(t) = {} /\ InFlight(t) = {}
        BY <1>1 DEF Pending, InFlight
    <2>2. Cardinality({}) = 0 /\ Cardinality(Calls) \in Nat
        BY FS_EmptySet, FS_CardinalityType, CallsAssumption
    <2> QED
        BY <2>1, <2>2, LimitAssumption
<1> QED
    BY <1>1, <1>2, <1>3, <1>4
       DEF IInv, ClaimHolds, Working, FailedSpentAll, NoOvertaking

LEMMA CountKeepsIInv ==
    ASSUME IInv, NEW c \in Calls, NEW t \in Tenants, CountGeneratingReports(c, t)
    PROVE  IInv'
<1>1. UNCHANGED <<report, pdf, worker>>
    BY DEF CountGeneratingReports
<1>2. TypeOK' /\ RanksGrow'
    BY <1>1, PutTable DEF IInv, TypeOK, RanksGrow, CountGeneratingReports
<1>3. ClaimHolds' /\ FailedSpentAll' /\ NoOvertaking'
    BY <1>1 DEF IInv, ClaimHolds, FailedSpentAll, NoOvertaking, Claimable
<1>4. SoftCapHolds'
    <2> SUFFICES ASSUME NEW u \in Tenants
                 PROVE  Cardinality(Pending(u)') + Cardinality(InFlight(u)')
                            < MaxPending + Cardinality(Calls)
        BY DEF SoftCapHolds, InFlight
    <2>1. Pending(u)' = Pending(u)
        BY <1>1 DEF Pending
    <2>2. /\ Cardinality(Pending(u)) \in Nat /\ Cardinality(InFlight(u)) \in Nat
          /\ Cardinality(Calls) \in Nat /\ MaxPending \in Nat
        BY Counts, LimitAssumption DEF IInv
    <2>3. CASE u = t
        <3>1. Cardinality(Pending(u)) < MaxPending
            BY <2>3 DEF CountGeneratingReports, BelowCap
        <3>2. InFlight(u)' \subseteq Calls
            BY <1>2 DEF InFlight, TypeOK, IsTable
        <3>3. Cardinality(InFlight(u)') <= Cardinality(Calls) /\ Cardinality(InFlight(u)') \in Nat
            BY <3>2, FS_Subset, FS_CardinalityType, CallsAssumption
        <3> QED
            BY <2>1, <2>2, <3>1, <3>3
    <2>4. CASE u # t
        <3>1. InFlight(u)' = InFlight(u)
            BY <2>4 DEF CountGeneratingReports, InFlight, Put
        <3>2. Cardinality(Pending(u)) + Cardinality(InFlight(u))
                < MaxPending + Cardinality(Calls)
            BY DEF IInv, SoftCapHolds, InFlight
        <3> QED
            BY <2>1, <3>1, <3>2
    <2> QED
        BY <2>3, <2>4
<1> QED
    BY <1>2, <1>3, <1>4 DEF IInv

\* A request that ends, whether or not it inserted its row.
LEMMA RequestEnds ==
    ASSUME IInv, NEW c \in DOMAIN call, Finished(c)
    PROVE  /\ IsTable(call', Calls, Tenants)
           /\ \A t : InFlight(t)' = InFlight(t) \ {c}
           /\ call[c] \in Tenants
<1>1. IsTable(call', Calls, Tenants)
    BY WithoutTable DEF IInv, TypeOK, Finished
<1>2. \A t : InFlight(t)' = InFlight(t) \ {c}
    BY DEF InFlight, Finished, Without, Restrict
<1>3. call[c] \in Tenants
    BY DEF IInv, TypeOK, IsTable
<1> QED
    BY <1>1, <1>2, <1>3

LEMMA CreateFailsKeepsIInv ==
    ASSUME IInv, NEW c \in Calls, CreateFails(c)
    PROVE  IInv'
<1>1. UNCHANGED <<report, pdf, worker>> /\ c \in DOMAIN call /\ Finished(c)
    BY DEF CreateFails
<1>2. TypeOK' /\ RanksGrow'
    BY <1>1, RequestEnds DEF IInv, TypeOK, RanksGrow
<1>3. ClaimHolds' /\ FailedSpentAll' /\ NoOvertaking'
    BY <1>1 DEF IInv, ClaimHolds, FailedSpentAll, NoOvertaking, Claimable
<1>4. \A t \in Tenants : Pending(t)' = Pending(t) /\ InFlight(t)' \subseteq InFlight(t)
    BY <1>1, RequestEnds DEF Pending
<1>5. SoftCapHolds'
    BY <1>4, CapAfterLeaving
<1> QED
    BY <1>2, <1>3, <1>5 DEF IInv

LEMMA InsertKeepsIInv ==
    ASSUME IInv, NEW c \in Calls, NEW r \in Reports, InsertReport(c, r)
    PROVE  IInv'
<1>1. UNCHANGED <<pdf, worker>> /\ c \in DOMAIN call /\ Finished(c) /\ r \notin DOMAIN report
    BY DEF InsertReport
<1>2. PICK t \in Tenants : t = call[c]
    BY <1>1, RequestEnds
<1>3. Cardinality(DOMAIN report) \in Nat /\ IsFiniteSet(DOMAIN report)
    BY FS_CardinalityType DEF IInv, RanksGrow
<1> DEFINE row == [tenant |-> t, createdAt |-> Cardinality(DOMAIN report),
                   status |-> "generating", attempts |-> 0]
<1>4. row \in ReportRow
    BY <1>3, LimitAssumption DEF ReportRow
<1>5. report' = Put(report, r, row)
    BY <1>2 DEF InsertReport
<1>6. /\ DOMAIN report' = DOMAIN report \cup {r}
      /\ report'[r] = row
      /\ \A q \in DOMAIN report : report'[q] = report[q]
    BY <1>1, <1>5 DEF Put
<1>7. TypeOK'
    BY <1>1, <1>4, <1>5, PutTable, RequestEnds DEF IInv, TypeOK
<1>8. RanksGrow'
    <2>1. /\ IsFiniteSet(DOMAIN report')
          /\ Cardinality(DOMAIN report') = Cardinality(DOMAIN report) + 1
        BY <1>1, <1>3, <1>6, FS_AddElement
    <2>2. \A q \in DOMAIN report : /\ report[q].createdAt \in Nat
                                   /\ report[q].createdAt < Cardinality(DOMAIN report)
        BY ReportRows DEF IInv, RanksGrow
    <2> QED
        BY <1>3, <1>6, <2>1, <2>2 DEF RanksGrow
<1>9. ClaimHolds' /\ FailedSpentAll'
    <2>1. ClaimHolds'
        BY <1>1, <1>6 DEF IInv, ClaimHolds
    <2>2. row.status # "failed"
        OBVIOUS
    <2>3. FailedSpentAll'
        BY <1>6, <2>2 DEF IInv, FailedSpentAll
    <2> QED
        BY <2>1, <2>3
<1>10. NoOvertaking'
    <2>1. \A q \in Claimable' : q = r \/ q \in Claimable
        BY <1>6 DEF Claimable
    <2>2. \A q \in DOMAIN report : ~(report'[r].createdAt < report[q].createdAt)
        BY <1>3, <1>6, ReportRows DEF IInv, RanksGrow
    <2>3. ~(report'[r].createdAt < report'[r].createdAt) /\ report'[r].attempts = 0
        BY <1>3, <1>6
    <2>4. \A q \in Claimable : q \in DOMAIN report
        BY DEF Claimable
    <2> QED
        BY <1>6, <2>1, <2>2, <2>3, <2>4 DEF IInv, NoOvertaking
<1>11. SoftCapHolds'
    <2> SUFFICES ASSUME NEW u \in Tenants
                 PROVE  Cardinality(Pending(u)') + Cardinality(InFlight(u)')
                            < MaxPending + Cardinality(Calls)
        BY DEF SoftCapHolds, InFlight
    <2>1. Cardinality(Pending(u)) + Cardinality(InFlight(u)) < MaxPending + Cardinality(Calls)
        BY DEF IInv, SoftCapHolds, InFlight
    <2>2. /\ IsFiniteSet(Pending(u)) /\ IsFiniteSet(InFlight(u))
          /\ Cardinality(Pending(u)) \in Nat /\ Cardinality(InFlight(u)) \in Nat
          /\ Cardinality(Calls) \in Nat /\ MaxPending \in Nat
        BY Counts, LimitAssumption DEF IInv
    <2>3. InFlight(u)' = InFlight(u) \ {c}
        BY <1>1, RequestEnds
    <2>4. CASE u = t
        <3>1. c \in InFlight(u)
            BY <1>1, <1>2, <2>4 DEF InFlight
        <3>2. Pending(u)' = Pending(u) \cup {r} /\ r \notin Pending(u)
            BY <1>1, <1>6, <2>4 DEF Pending
        <3>3. Cardinality(Pending(u)') = Cardinality(Pending(u)) + 1
            BY <2>2, <3>2, FS_AddElement
        <3>4. Cardinality(InFlight(u)') = Cardinality(InFlight(u)) - 1
            BY <2>2, <2>3, <3>1, FS_RemoveElement
        <3> QED
            BY <2>1, <2>2, <3>3, <3>4
    <2>5. CASE u # t
        <3>1. Pending(u)' = Pending(u)
            BY <1>1, <1>6, <2>5 DEF Pending
        <3>2. InFlight(u)' = InFlight(u)
            BY <1>2, <2>3, <2>5 DEF InFlight
        <3> QED
            BY <2>1, <3>1, <3>2
    <2> QED
        BY <2>4, <2>5
<1> QED
    BY <1>7, <1>8, <1>9, <1>10, <1>11 DEF IInv

-----------------------------------------------------------------------------
(***************************************************************************)
(* The worker's steps                                                      *)
(***************************************************************************)

\* A step that leaves the table alone.
LEMMA TableStill ==
    ASSUME IInv, UNCHANGED <<report, call>>, pdf' \in [Reports -> Attempt \cup {NULL}],
           worker' \in WorkerState, ClaimHolds'
    PROVE  IInv'
<1>1. TypeOK' /\ RanksGrow'
    BY DEF IInv, TypeOK, RanksGrow
<1>2. FailedSpentAll' /\ NoOvertaking'
    BY DEF IInv, FailedSpentAll, NoOvertaking, Claimable
<1>3. \A t \in Tenants : Pending(t)' = Pending(t) /\ InFlight(t)' = InFlight(t)
    BY DEF Pending, InFlight
<1>4. SoftCapHolds'
    BY <1>3, CapAfterLeaving
<1> QED
    BY <1>1, <1>2, <1>4 DEF IInv

\* A statement that settles rows, each for good, takes nobody's place.
LEMMA RowsSettle ==
    ASSUME IInv, UNCHANGED call, NEW rs, NEW s \in {"ready", "failed"},
           report' = WithStatus(rs, s)
    PROVE  RanksGrow' /\ NoOvertaking' /\ SoftCapHolds'
<1>1. /\ SameQueue
      /\ \A r \in DOMAIN report :
            /\ report'[r].attempts = report[r].attempts
            /\ report'[r].status = IF r \in rs THEN s ELSE report[r].status
    BY WithStatusRows DEF IInv
<1>2. RanksGrow'
    BY <1>1 DEF IInv, RanksGrow, SameQueue
<1>3. Claimable' \subseteq Claimable
    BY <1>1 DEF Claimable, SameQueue
<1>4. NoOvertaking'
    <2>1. \A q \in Claimable : q \in DOMAIN report
        BY DEF Claimable
    <2> QED
        BY <1>1, <1>3, <2>1 DEF IInv, NoOvertaking, SameQueue
<1>5. \A t \in Tenants : Pending(t)' \subseteq Pending(t) /\ InFlight(t)' = InFlight(t)
    BY <1>1 DEF Pending, InFlight, SameQueue
<1>6. SoftCapHolds'
    BY <1>5, CapAfterLeaving
<1> QED
    BY <1>2, <1>4, <1>6

LEMMA SweepKeepsIInv == ASSUME IInv, FailExhaustedReports PROVE IInv'
<1>1. /\ report' = WithStatus(Exhausted, "failed") /\ worker' = [pc |-> "claim"]
      /\ UNCHANGED <<pdf, call>>
    BY DEF FailExhaustedReports
<1>2. /\ IsTable(report', Reports, ReportRow)
      /\ DOMAIN report' = DOMAIN report
      /\ \A r \in DOMAIN report :
            /\ report'[r].attempts = report[r].attempts
            /\ report'[r].status = IF r \in Exhausted THEN "failed" ELSE report[r].status
    BY <1>1, WithStatusRows DEF IInv, SameQueue
<1>3. TypeOK' /\ ClaimHolds'
    BY <1>1, <1>2 DEF IInv, TypeOK, WorkerState, ClaimHolds, Working
<1>4. \A r \in Exhausted : report[r].attempts = MaxAttempts
    BY ReportRows, LimitAssumption DEF Exhausted, IInv
<1>5. FailedSpentAll'
    BY <1>2, <1>4 DEF IInv, FailedSpentAll
<1>6. RanksGrow' /\ NoOvertaking' /\ SoftCapHolds'
    BY <1>1, RowsSettle
<1> QED
    BY <1>3, <1>5, <1>6 DEF IInv

LEMMA ClaimKeepsIInv ==
    ASSUME IInv, NEW q \in Reports, ClaimNextReport(q) \/ ClaimAnswerLost(q)
    PROVE  IInv'
<1>1. /\ q \in Claimable /\ Oldest(q) /\ report' = Claimed(q) /\ UNCHANGED <<pdf, call>>
      /\ q \in DOMAIN report /\ report[q].status = "generating"
      /\ report[q].attempts < MaxAttempts
    BY DEF ClaimNextReport, ClaimAnswerLost, Claimable
<1>2. /\ IsTable(report', Reports, ReportRow)
      /\ SameQueue
      /\ \A r \in DOMAIN report :
            /\ report'[r].status = report[r].status
            /\ report'[r].attempts = IF r = q THEN report[q].attempts + 1
                                     ELSE report[r].attempts
      /\ report[q].attempts + 1 \in Attempt
    BY <1>1, ClaimedRows DEF IInv
<1>3. \/ worker' = [pc |-> "sweep"]
      \/ worker' = [pc |-> "render", claimed |-> q, attempt |-> report[q].attempts + 1]
    BY DEF ClaimNextReport, ClaimAnswerLost, Sweeping
<1>4. TypeOK'
    <2>1. worker' \in WorkerState
        BY <1>2, <1>3, WorkerShapes
    <2> QED
        BY <1>1, <1>2, <2>1 DEF IInv, TypeOK
<1>5. RanksGrow'
    BY <1>2 DEF IInv, RanksGrow, SameQueue
<1>6. ClaimHolds'
    <2>1. CASE worker' = [pc |-> "sweep"]
        BY <2>1 DEF ClaimHolds, Working
    <2>2. CASE worker' = [pc |-> "render", claimed |-> q, attempt |-> report[q].attempts + 1]
        <3>1. /\ worker'.pc = "render" /\ worker'.claimed = q
              /\ worker'.attempt = report[q].attempts + 1
            BY <2>2
        <3> QED
            BY <1>1, <1>2, <3>1 DEF ClaimHolds, Working, SameQueue
    <2> QED
        BY <1>3, <2>1, <2>2
<1>7. FailedSpentAll'
    BY <1>1, <1>2 DEF IInv, FailedSpentAll, SameQueue
<1>8. Claimable' \subseteq Claimable
    BY <1>1, <1>2 DEF Claimable, SameQueue
<1>9. NoOvertaking'
    <2> SUFFICES ASSUME NEW p \in Claimable, NEW r \in DOMAIN report,
                        report[p].createdAt < report[r].createdAt
                 PROVE  report'[r].attempts = 0
        <3>1. \A p \in Claimable : p \in DOMAIN report
            BY DEF Claimable
        <3> QED
            BY <1>2, <1>8, <3>1 DEF NoOvertaking, SameQueue
    <2>1. r # q
        <3>1. p \in DOMAIN report
            BY DEF Claimable
        <3>2. report[q].createdAt <= report[p].createdAt
            BY <1>1 DEF Oldest
        <3>3. report[q].createdAt \in Nat /\ report[p].createdAt \in Nat
            BY <1>1, <3>1, ReportRows DEF IInv
        <3> QED
            BY <3>2, <3>3
    <2> QED
        BY <1>2, <2>1 DEF IInv, NoOvertaking
<1>10. \A t \in Tenants : Pending(t)' = Pending(t) /\ InFlight(t)' = InFlight(t)
    BY <1>1, <1>2 DEF Pending, InFlight, SameQueue
<1>11. SoftCapHolds'
    BY <1>10, CapAfterLeaving
<1> QED
    BY <1>4, <1>5, <1>6, <1>7, <1>9, <1>11 DEF IInv

\* The worker after an error: at rest, or about to mark a spent report failed.
LEMMA AfterErrorFacts ==
    ASSUME IInv, worker.pc \in Working
    PROVE  \/ AfterError = [pc |-> "sweep"]
           \/ /\ worker.attempt = MaxAttempts
              /\ AfterError = [pc |-> "give up", claimed |-> worker.claimed,
                               attempt |-> worker.attempt]
<1>1. /\ worker.claimed \in Reports /\ worker.attempt \in Attempt
      /\ worker = [pc |-> worker.pc, claimed |-> worker.claimed, attempt |-> worker.attempt]
    BY WorkerFacts DEF IInv
<1>2. CASE worker.attempt >= MaxAttempts
    <2>1. AfterError = [pc |-> "give up", claimed |-> worker.claimed, attempt |-> worker.attempt]
        BY <1>1, <1>2 DEF AfterError
    <2>2. worker.attempt = MaxAttempts
        BY <1>1, <1>2, LimitAssumption DEF Attempt
    <2> QED
        BY <2>1, <2>2
<1>3. CASE ~(worker.attempt >= MaxAttempts)
    BY <1>3 DEF AfterError, Sweeping
<1> QED
    BY <1>2, <1>3

\* The worker goes to rest, or goes on to give up the row it claimed.
LEMMA RestKeepsClaim ==
    ASSUME worker' = [pc |-> "sweep"] \/ worker' = [pc |-> "claim"]
    PROVE  worker' \in WorkerState /\ worker'.pc \notin Working \cup {"give up"} /\ ClaimHolds'
<1>1. worker' \in WorkerState
    BY WorkerShapes
<1>2. worker'.pc = "sweep" \/ worker'.pc = "claim"
    <2>1. CASE worker' = [pc |-> "sweep"]
        BY <2>1
    <2>2. CASE worker' = [pc |-> "claim"]
        BY <2>2
    <2> QED
        BY <2>1, <2>2
<1> QED
    BY <1>1, <1>2 DEF ClaimHolds, Working

LEMMA GoesOn ==
    ASSUME TypeOK, worker.pc \in Working, NEW pc \in {"put", "mark", "give up"},
           worker' = [pc |-> pc, claimed |-> worker.claimed, attempt |-> worker.attempt]
    PROVE  /\ worker' \in WorkerState
           /\ worker'.pc = pc
           /\ worker'.claimed = worker.claimed /\ worker'.attempt = worker.attempt
<1>1. worker.claimed \in Reports /\ worker.attempt \in Attempt
    BY WorkerFacts
<1>2. worker' \in WorkerState
    BY <1>1, WorkerShapes
<1> QED
    BY <1>2

\* An error leaves the row generating, however often it was tried.
LEMMA ErrorKeepsClaim ==
    ASSUME IInv, worker.pc \in Working, worker' = AfterError,
           DOMAIN report' = DOMAIN report,
           \A r \in DOMAIN report : report'[r].attempts = report[r].attempts
    PROVE  worker' \in WorkerState /\ ClaimHolds'
<1>1. CASE worker' = [pc |-> "sweep"]
    BY <1>1, RestKeepsClaim
<1>2. CASE /\ worker.attempt = MaxAttempts
           /\ worker' = [pc |-> "give up", claimed |-> worker.claimed,
                         attempt |-> worker.attempt]
    <2>1. /\ worker' \in WorkerState /\ worker'.pc = "give up"
          /\ worker'.claimed = worker.claimed /\ worker'.attempt = worker.attempt
        BY <1>2, GoesOn DEF IInv
    <2> QED
        BY <1>2, <2>1 DEF IInv, ClaimHolds, Working
<1> QED
    BY <1>1, <1>2, AfterErrorFacts

LEMMA StoreFacts ==
    ASSUME IInv, worker.pc = "put"
    PROVE  /\ StoredPdf \in [Reports -> Attempt \cup {NULL}]
           /\ StoredPdf[worker.claimed] # NULL
    BY WorkerFacts, NullAssumption DEF IInv, TypeOK, StoredPdf, Working, Attempt

LEMMA WorkKeepsIInv ==
    ASSUME IInv, SweepFails \/ ClaimNothing \/ Restart
                 \/ RenderPDF \/ RenderFails \/ PutPdf \/ PutFails
    PROVE  IInv'
<1>1. TypeOK /\ UNCHANGED <<report, call>>
    BY DEF IInv, SweepFails, ClaimNothing, Restart, RenderPDF, RenderFails, PutPdf, PutFails
<1>2. CASE SweepFails \/ ClaimNothing \/ Restart
    <2>1. (worker' = [pc |-> "sweep"] \/ worker' = [pc |-> "claim"]) /\ UNCHANGED pdf
        BY <1>2 DEF SweepFails, ClaimNothing, Restart, Sweeping
    <2> QED
        BY <1>1, <2>1, RestKeepsClaim, TableStill DEF TypeOK
<1>3. CASE RenderPDF
    <2>1. /\ worker' = [pc |-> "put", claimed |-> worker.claimed, attempt |-> worker.attempt]
          /\ worker.pc = "render" /\ UNCHANGED pdf
        BY <1>1, <1>3, WorkerFacts DEF RenderPDF, Working
    <2>2. /\ worker' \in WorkerState /\ worker'.pc = "put"
          /\ worker'.claimed = worker.claimed /\ worker'.attempt = worker.attempt
        BY <1>1, <2>1, GoesOn DEF Working
    <2>3. ClaimHolds'
        BY <1>1, <2>1, <2>2 DEF ClaimHolds, Working, IInv
    <2> QED
        BY <1>1, <2>1, <2>2, <2>3, TableStill DEF TypeOK
<1>4. CASE PutPdf
    <2>1. /\ worker' = [pc |-> "mark", claimed |-> worker.claimed, attempt |-> worker.attempt]
          /\ worker.pc = "put" /\ pdf' = StoredPdf
        BY <1>1, <1>4, WorkerFacts DEF PutPdf, Working
    <2>2. /\ worker' \in WorkerState /\ worker'.pc = "mark"
          /\ worker'.claimed = worker.claimed /\ worker'.attempt = worker.attempt
        BY <1>1, <2>1, GoesOn DEF Working
    <2>3. pdf' \in [Reports -> Attempt \cup {NULL}] /\ pdf'[worker.claimed] # NULL
        BY <2>1, StoreFacts
    <2>4. ClaimHolds'
        BY <1>1, <2>1, <2>2, <2>3 DEF ClaimHolds, Working, IInv
    <2> QED
        BY <1>1, <2>2, <2>3, <2>4, TableStill
<1>5. CASE RenderFails \/ PutFails
    <2>1. /\ worker.pc \in Working /\ worker' = AfterError
          /\ pdf' \in [Reports -> Attempt \cup {NULL}]
        BY <1>1, <1>5, StoreFacts DEF RenderFails, PutFails, TypeOK, Working
    <2>2. worker' \in WorkerState /\ ClaimHolds'
        BY <1>1, <2>1, ErrorKeepsClaim
    <2> QED
        BY <1>1, <2>1, <2>2, TableStill
<1> QED
    BY <1>2, <1>3, <1>4, <1>5

\* The marks settle the row the worker claimed.
LEMMA MarkKeepsIInv ==
    ASSUME IInv, MarkReportReady \/ MarkReadyFails \/ MarkReportFailed
    PROVE  IInv'
<1>1. PICK q \in DOMAIN report : q = worker.claimed
    BY DEF IInv, ClaimHolds, Working, MarkReportReady, MarkReadyFails, MarkReportFailed
<1>2. UNCHANGED <<pdf, call>>
    BY DEF MarkReportReady, MarkReadyFails, MarkReportFailed
<1>3. ASSUME DOMAIN report' = DOMAIN report,
             \A r \in DOMAIN report : report'[r].attempts = report[r].attempts
      PROVE  worker' \in WorkerState /\ ClaimHolds'
    <2>1. CASE worker' = Sweeping
        BY <2>1, RestKeepsClaim DEF Sweeping
    <2>2. CASE worker.pc = "mark" /\ worker' = AfterError
        BY <1>3, <2>2, ErrorKeepsClaim DEF Working
    <2> QED
        BY <2>1, <2>2 DEF MarkReportReady, MarkReadyFails, MarkReportFailed
<1>4. CASE UNCHANGED report
    <2>1. worker' \in WorkerState /\ ClaimHolds'
        BY <1>3, <1>4
    <2> QED
        BY <1>2, <1>4, <2>1, TableStill DEF IInv, TypeOK
<1>5. ASSUME NEW s \in {"ready", "failed"}, report' = WithStatus(Markable(q), s),
             s = "failed" => report[q].attempts = MaxAttempts
      PROVE  IInv'
    <2>1. /\ IsTable(report', Reports, ReportRow)
          /\ DOMAIN report' = DOMAIN report
          /\ \A r \in DOMAIN report :
                /\ report'[r].attempts = report[r].attempts
                /\ report'[r].status = IF r \in Markable(q) THEN s ELSE report[r].status
        BY <1>5, WithStatusRows DEF IInv, SameQueue
    <2>2. worker' \in WorkerState /\ ClaimHolds'
        BY <1>3, <2>1
    <2>3. TypeOK'
        BY <1>2, <2>1, <2>2 DEF IInv, TypeOK
    <2>4. FailedSpentAll'
        BY <1>5, <2>1 DEF IInv, FailedSpentAll, Markable
    <2>5. RanksGrow' /\ NoOvertaking' /\ SoftCapHolds'
        BY <1>2, <1>5, RowsSettle
    <2> QED
        BY <2>2, <2>3, <2>4, <2>5 DEF IInv
<1>6. CASE MarkReportReady \/ MarkReadyFails
    <2>1. UNCHANGED report \/ report' = WithStatus(Markable(q), "ready")
        BY <1>1, <1>6 DEF MarkReportReady, MarkReadyFails
    <2> QED
        BY <1>4, <1>5, <2>1
<1>7. CASE MarkReportFailed
    <2>1. report' = WithStatus(Markable(q), "failed") /\ report[q].attempts = MaxAttempts
        BY <1>1, <1>7 DEF MarkReportFailed, IInv, ClaimHolds, Working
    <2> QED
        BY <1>5, <2>1
<1> QED
    BY <1>6, <1>7

LEMMA IInvStep == IInv /\ [Next]_vars => IInv'
<1> SUFFICES ASSUME IInv, [Next]_vars PROVE IInv'
    OBVIOUS
<1>1. CASE CreateStep
    BY <1>1, CountKeepsIInv, InsertKeepsIInv, CreateFailsKeepsIInv DEF CreateStep
<1>2. CASE WorkerStep
    BY <1>2, SweepKeepsIInv, ClaimKeepsIInv, WorkKeepsIInv, MarkKeepsIInv DEF WorkerStep
<1>3. CASE UNCHANGED vars
    <2>1. ClaimHolds' /\ UNCHANGED <<report, call, pdf, worker>>
        BY <1>3 DEF vars, IInv, ClaimHolds
    <2> QED
        BY <2>1, TableStill DEF IInv, TypeOK
<1> QED
    BY <1>1, <1>2, <1>3 DEF Next

\* The inductive invariant holds in every reachable state.
THEOREM Inductive == Spec => []IInv
    BY IInvInit, IInvStep, PTL DEF Spec

-----------------------------------------------------------------------------
(***************************************************************************)
(* Theorems about the queue                                                *)
(***************************************************************************)

\* Every variable keeps its type, and no report is tried more often than allowed.
THEOREM TypeCorrect == Spec => []TypeOK
    BY Inductive, PTL DEF IInv

\* The queue is FIFO across tenants, failures and restarts (report.sql:20-34).
THEOREM QueueIsFair == Spec => []NoOvertaking
    BY Inductive, PTL DEF IInv

\* Whatever the number of racing requests, the cap is overshot by less than that
\* number (http.go:40-46).
THEOREM CapIsSoft == Spec => []SoftCapHolds
    BY Inductive, PTL DEF IInv

\* A failed report spent every attempt, and nobody is still rendering it.
THEOREM FailureIsFinal == Spec => []FailedWasExhausted
<1>1. IInv => FailedWasExhausted
    BY DEF IInv, ClaimHolds, FailedSpentAll, FailedWasExhausted, Working
<1> QED
    BY <1>1, Inductive, PTL

-----------------------------------------------------------------------------
(***************************************************************************)
(* The queue implements the life cycle                                     *)
(***************************************************************************)

LEMMA LifecycleInit == Init => Lifecycle!Init
<1> SUFFICES ASSUME Init PROVE Lifecycle!Init
    OBVIOUS
<1>1. Status = [r \in Reports |-> "none"]
    BY EmptyIsTable DEF Init, Status
<1> QED
    BY <1>1 DEF Init, Lifecycle!Init

\* What a poll answers is the status of the row, if there is one.
LEMMA StatusStays ==
    ASSUME DOMAIN report' = DOMAIN report,
           \A r \in DOMAIN report : report'[r].status = report[r].status
    PROVE  Status' = Status
    BY DEF Status

LEMMA InsertEnqueues ==
    ASSUME IInv, NEW c \in Calls, NEW r \in Reports, InsertReport(c, r)
    PROVE  Lifecycle!Enqueue(r)
<1>1. /\ r \notin DOMAIN report /\ UNCHANGED pdf
      /\ DOMAIN report' = DOMAIN report \cup {r}
      /\ report'[r].status = "generating"
      /\ \A q \in DOMAIN report : report'[q] = report[q]
    BY DEF InsertReport, Put
<1>2. Status[r] = "none" /\ Status' = [Status EXCEPT ![r] = "generating"]
    BY <1>1 DEF Status
<1> QED
    BY <1>1, <1>2 DEF Lifecycle!Enqueue

LEMMA UploadStores ==
    ASSUME IInv, PutPdf \/ PutFails
    PROVE  \/ UNCHANGED <<Status, pdf>>
           \/ \E r \in Reports, d \in Attempt : Lifecycle!Store(r, d)
<1>1. UNCHANGED report /\ (UNCHANGED pdf \/ pdf' = StoredPdf) /\ worker.pc = "put"
    BY DEF PutPdf, PutFails
<1>2. UNCHANGED Status
    BY <1>1, StatusStays
<1>3. /\ worker.claimed \in Reports /\ worker.attempt \in Attempt
      /\ worker.claimed \in DOMAIN report
      /\ report[worker.claimed].status = "generating"
    BY <1>1, WorkerFacts DEF IInv, ClaimHolds, Working
<1>4. Status[worker.claimed] = "generating"
    BY <1>3 DEF Status
<1>5. pdf' = StoredPdf => Lifecycle!Store(worker.claimed, worker.attempt)
    BY <1>2, <1>4 DEF Lifecycle!Store, StoredPdf
<1> QED
    BY <1>1, <1>2, <1>3, <1>5

\* What a statement that settles the rows rs answers whoever polls.
LEMMA SettledStatus ==
    ASSUME IInv, NEW rs \in SUBSET DOMAIN report, NEW s \in {"ready", "failed"},
           report' = WithStatus(rs, s),
           \A r \in rs : report[r].status = "generating"
    PROVE  /\ Status' = [r \in Reports |-> IF r \in rs THEN s ELSE Status[r]]
           /\ \A r \in rs : Status[r] = "generating"
           /\ rs \subseteq Reports
<1>1. /\ DOMAIN report' = DOMAIN report
      /\ \A r \in DOMAIN report :
            report'[r].status = IF r \in rs THEN s ELSE report[r].status
    BY WithStatusRows DEF IInv, SameQueue
<1>2. DOMAIN report \subseteq Reports
    BY DEF IInv, TypeOK, IsTable
<1> QED
    BY <1>1, <1>2 DEF Status

LEMMA MarkDelivers ==
    ASSUME IInv, MarkReportReady \/ MarkReadyFails
    PROVE  UNCHANGED <<Status, pdf>> \/ \E r \in Reports : Lifecycle!Deliver(r)
<1>1. PICK q \in DOMAIN report :
        /\ q = worker.claimed /\ report[q].status = "generating" /\ pdf[q] # NULL
    BY DEF IInv, ClaimHolds, Working, MarkReportReady, MarkReadyFails
<1>2. Markable(q) = {q}
    BY <1>1 DEF Markable
<1>3. /\ UNCHANGED pdf
      /\ UNCHANGED report \/ report' = WithStatus({q}, "ready")
    BY <1>1, <1>2 DEF MarkReportReady, MarkReadyFails
<1>4. CASE UNCHANGED report
    BY <1>3, <1>4, StatusStays
<1>5. CASE report' = WithStatus({q}, "ready")
    <2>1. /\ Status' = [r \in Reports |-> IF r \in {q} THEN "ready" ELSE Status[r]]
          /\ Status[q] = "generating" /\ q \in Reports
        BY <1>1, <1>5, SettledStatus
    <2>2. Status' = [Status EXCEPT ![q] = "ready"]
        BY <2>1 DEF Status
    <2> QED
        BY <1>1, <1>3, <2>1, <2>2 DEF Lifecycle!Deliver
<1> QED
    BY <1>3, <1>4, <1>5

LEMMA FailureGivesUp ==
    ASSUME IInv, FailExhaustedReports \/ MarkReportFailed
    PROVE  \E rs \in SUBSET Reports : Lifecycle!GiveUp(rs)
<1>1. PICK rs \in SUBSET DOMAIN report :
        /\ report' = WithStatus(rs, "failed")
        /\ \A r \in rs : report[r].status = "generating"
    <2>1. \A rs \in {Exhausted, Markable(worker.claimed)} :
            rs \subseteq DOMAIN report /\ \A r \in rs : report[r].status = "generating"
        BY DEF Exhausted, Markable
    <2> QED
        BY <2>1 DEF FailExhaustedReports, MarkReportFailed
<1>2. UNCHANGED pdf
    BY DEF FailExhaustedReports, MarkReportFailed
<1>3. /\ Status' = [r \in Reports |-> IF r \in rs THEN "failed" ELSE Status[r]]
      /\ \A r \in rs : Status[r] = "generating"
      /\ rs \subseteq Reports
    BY <1>1, SettledStatus
<1> QED
    BY <1>2, <1>3 DEF Lifecycle!GiveUp

LEMMA LifecycleStep ==
    IInv /\ [Next]_vars => [Lifecycle!Next]_<<Status, pdf>>
<1> SUFFICES ASSUME IInv, [Next]_vars
             PROVE  Lifecycle!Next \/ UNCHANGED <<Status, pdf>>
    OBVIOUS
<1>1. CASE CreateStep
    <2>1. PICK c \in Calls :
            \/ \E t \in Tenants : CountGeneratingReports(c, t)
            \/ \E r \in Reports : InsertReport(c, r)
            \/ CreateFails(c)
        BY <1>1 DEF CreateStep
    <2>2. CASE \E r \in Reports : InsertReport(c, r)
        BY <2>2, InsertEnqueues DEF Lifecycle!Next
    <2>3. CASE (\E t \in Tenants : CountGeneratingReports(c, t)) \/ CreateFails(c)
        BY <2>3, StatusStays DEF CountGeneratingReports, CreateFails
    <2> QED
        BY <2>1, <2>2, <2>3
<1>2. CASE PutPdf \/ PutFails
    BY <1>2, UploadStores DEF Lifecycle!Next
<1>3. CASE MarkReportReady \/ MarkReadyFails
    BY <1>3, MarkDelivers DEF Lifecycle!Next
<1>4. CASE FailExhaustedReports \/ MarkReportFailed
    BY <1>4, FailureGivesUp DEF Lifecycle!Next
<1>5. CASE \E r \in Reports : ClaimNextReport(r) \/ ClaimAnswerLost(r)
    <2>1. PICK q \in Claimable : report' = Claimed(q) /\ UNCHANGED pdf
        BY <1>5 DEF ClaimNextReport, ClaimAnswerLost
    <2>2. UNCHANGED Status
        BY <2>1, ClaimedRows, StatusStays DEF IInv, SameQueue
    <2> QED
        BY <2>1, <2>2
<1>6. CASE SweepFails \/ ClaimNothing \/ RenderPDF \/ RenderFails \/ Restart
    BY <1>6, StatusStays DEF SweepFails, ClaimNothing, RenderPDF, RenderFails, Restart
<1>7. CASE UNCHANGED vars
    BY <1>7, StatusStays DEF vars
<1> QED
    BY <1>1, <1>2, <1>3, <1>4, <1>5, <1>6, <1>7 DEF Next, WorkerStep

\* The queue implements ReportLifecycle: whoever polls a report gets one answer
\* for good, and a ready report's document is there and never changes.
THEOREM QueueImplementsLifecycle == Spec => KeepsLifecycle
    BY LifecycleInit, LifecycleStep, Inductive, PTL
       DEF Spec, KeepsLifecycle, Lifecycle!Spec

==============================================================================
