----------------------------- MODULE ReportQueue -----------------------------
(***************************************************************************)
(* Report generation.  The report table is the queue: a staff request      *)
(* inserts a row in status generating (report/http.go), and the one render *)
(* worker of the process sweeps, claims, renders, uploads and marks, one   *)
(* report at a time (report/worker.go).  Each of these is a statement of   *)
(* its own: there is no transaction around them, any of them may fail, or  *)
(* take effect without its answer arriving, and the process may stop and   *)
(* start again between any two.                                            *)
(*                                                                         *)
(* What a report says is abstracted to the attempt that rendered it.       *)
(***************************************************************************)
EXTENDS Naturals, FiniteSets, Tables

CONSTANTS
    Tenants,
    Reports,     \* the ids the report table generates
    Calls,       \* server-side slots for create requests in flight
    MaxPending,  \* maxPendingReports
    MaxAttempts, \* maxRenderAttempts, and the 3 of the queries
    NULL

ASSUME NullAssumption == NULL \notin Nat

ASSUME LimitAssumption == MaxPending \in Nat \ {0} /\ MaxAttempts \in Nat \ {0}

\* A server has finitely many requests in flight.
ASSUME CallsAssumption == IsFiniteSet(Calls)

VARIABLES
    report,  \* the report table
    pdf,     \* per report, the attempt whose PDF is in the object store
    call,    \* per create request in flight, the tenant whose rows it counted
    worker   \* the render worker: where it is, and the row it claimed

vars == <<report, pdf, call, worker>>

ReportRow == [tenant: Tenants, createdAt: Nat, status: {"generating", "ready", "failed"},
              attempts: 0..MaxAttempts]

Attempt == 1..MaxAttempts

WorkerState ==
    [pc: {"sweep", "claim"}]
    \cup
    [pc: {"render", "put", "mark", "give up"}, claimed: Reports, attempt: Attempt]

TypeOK ==
    /\ IsTable(report, Reports, ReportRow)
    /\ pdf \in [Reports -> Attempt \cup {NULL}]
    /\ IsTable(call, Calls, Tenants)
    /\ worker \in WorkerState

Sweeping == [pc |-> "sweep"]

Init ==
    /\ report = EmptyTable
    /\ pdf = [r \in Reports |-> NULL]
    /\ call = EmptyTable
    /\ worker = Sweeping

-----------------------------------------------------------------------------
(***************************************************************************)
(* POST /staff/reports                                                     *)
(***************************************************************************)

Pending(t) ==
    {r \in DOMAIN report : report[r].tenant = t /\ report[r].status = "generating"}

\* Mutant: the cap is compared after the fact.
BelowOrAtCap(t) == Cardinality(Pending(t)) <= MaxPending

BelowCap(t) == Cardinality(Pending(t)) < MaxPending

\* A request over the cap is answered 429 and leaves nothing behind.
CountGeneratingReports(c, t) ==
    /\ c \notin DOMAIN call
    /\ BelowCap(t)
    /\ call' = Put(call, c, t)
    /\ UNCHANGED <<report, pdf, worker>>

Finished(c) == call' = Without(call, c)

\* created_at only matters for its order, so it is the row's rank.
InsertReport(c, r) ==
    /\ c \in DOMAIN call
    /\ r \notin DOMAIN report
    /\ report' = Put(report, r,
                     [tenant |-> call[c], createdAt |-> Cardinality(DOMAIN report),
                      status |-> "generating", attempts |-> 0])
    /\ Finished(c)
    /\ UNCHANGED <<pdf, worker>>

\* The contract is unknown, the insert fails, the client is gone, or a crash.
CreateFails(c) ==
    /\ c \in DOMAIN call
    /\ Finished(c)
    /\ UNCHANGED <<report, pdf, worker>>

-----------------------------------------------------------------------------
(***************************************************************************)
(* The worker's statements on the table                                    *)
(***************************************************************************)

\* Mutant: the sweep takes the last attempt for a lost one.
ExhaustedEarly ==
    {r \in DOMAIN report : /\ report[r].status = "generating"
                           /\ report[r].attempts + 1 >= MaxAttempts}

\* Mutant: nothing is ever exhausted in the eyes of the sweep.
ExhaustedBeyond ==
    {r \in DOMAIN report : /\ report[r].status = "generating"
                           /\ report[r].attempts > MaxAttempts}

Exhausted ==
    {r \in DOMAIN report : /\ report[r].status = "generating"
                           /\ report[r].attempts >= MaxAttempts}

\* Mutant: there is no limit on attempts.
EveryPending == {r \in DOMAIN report : report[r].status = "generating"}

Claimable ==
    {r \in DOMAIN report : /\ report[r].status = "generating"
                           /\ report[r].attempts < MaxAttempts}

\* Mutant: ORDER BY created_at DESC.
Newest(r) == \A q \in Claimable : report[q].createdAt <= report[r].createdAt

Oldest(r) == \A q \in Claimable : report[r].createdAt <= report[q].createdAt

\* The table after a statement that sets the status of the rows rs.
WithStatus(rs, s) ==
    [r \in DOMAIN report |-> IF r \in rs THEN [report[r] EXCEPT !.status = s] ELSE report[r]]

\* Mutant: the mark goes by the id alone.
MarkById(r) == {r}

\* Both marks: WHERE id = $1 AND status = 'generating'.
Markable(r) == {q \in DOMAIN report : q = r /\ report[q].status = "generating"}

-----------------------------------------------------------------------------
(***************************************************************************)
(* One tick of the worker.  At "sweep" it begins, and there it is after a  *)
(* restart of the process.                                                 *)
(***************************************************************************)

FailExhaustedReports ==
    /\ worker.pc = "sweep"
    /\ report' = WithStatus(Exhausted, "failed")
    /\ worker' = [pc |-> "claim"]
    /\ UNCHANGED <<pdf, call>>

\* A failing sweep is logged, and the tick goes on.
SweepFails ==
    /\ worker.pc = "sweep"
    /\ worker' = [pc |-> "claim"]
    /\ UNCHANGED <<report, pdf, call>>

Claimed(r) == [report EXCEPT ![r].attempts = @ + 1]

ClaimNextReport(r) ==
    /\ worker.pc = "claim"
    /\ r \in Claimable /\ Oldest(r)
    /\ report' = Claimed(r)
    /\ worker' = [pc |-> "render", claimed |-> r, attempt |-> report[r].attempts + 1]
    /\ UNCHANGED <<pdf, call>>

\* The claim commits, but the worker never learns of it: the attempt is spent.
ClaimAnswerLost(r) ==
    /\ worker.pc = "claim"
    /\ r \in Claimable /\ Oldest(r)
    /\ report' = Claimed(r)
    /\ worker' = Sweeping
    /\ UNCHANGED <<pdf, call>>

\* Nothing to claim, or the statement fails: the next tick begins after the
\* poll interval.
ClaimNothing ==
    /\ worker.pc = "claim"
    /\ worker' = Sweeping
    /\ UNCHANGED <<report, pdf, call>>

\* Reading the data, the template and headless Chrome.
RenderPDF ==
    /\ worker.pc = "render"
    /\ worker' = [worker EXCEPT !.pc = "put"]
    /\ UNCHANGED <<report, pdf, call>>

\* Only the last attempt allowed marks the row failed; an earlier one leaves it
\* for the next claim.
AfterError ==
    IF worker.attempt >= MaxAttempts THEN [worker EXCEPT !.pc = "give up"] ELSE Sweeping

RenderFails ==
    /\ worker.pc = "render"
    /\ worker' = AfterError
    /\ UNCHANGED <<report, pdf, call>>

StoredPdf == [pdf EXCEPT ![worker.claimed] = worker.attempt]

PutPdf ==
    /\ worker.pc = "put"
    /\ pdf' = StoredPdf
    /\ worker' = [worker EXCEPT !.pc = "mark"]
    /\ UNCHANGED <<report, call>>

\* The upload fails, whether or not the store kept the object.
PutFails ==
    /\ worker.pc = "put"
    /\ pdf' \in {pdf, StoredPdf}
    /\ worker' = AfterError
    /\ UNCHANGED <<report, call>>

MarkReportReady ==
    /\ worker.pc = "mark"
    /\ report' = WithStatus(Markable(worker.claimed), "ready")
    /\ worker' = Sweeping
    /\ UNCHANGED <<pdf, call>>

\* The mark fails, whether or not it took effect.
MarkReadyFails ==
    /\ worker.pc = "mark"
    /\ report' \in {report, WithStatus(Markable(worker.claimed), "ready")}
    /\ worker' = AfterError
    /\ UNCHANGED <<pdf, call>>

MarkReportFailed ==
    /\ worker.pc = "give up"
    /\ report' = WithStatus(Markable(worker.claimed), "failed")
    /\ worker' = Sweeping
    /\ UNCHANGED <<pdf, call>>

\* The fail-mark is lost; the process stops at any point and starts again.
Restart ==
    /\ worker # Sweeping
    /\ worker' = Sweeping
    /\ UNCHANGED <<report, pdf, call>>

-----------------------------------------------------------------------------

CreateStep ==
    \E c \in Calls :
        \/ \E t \in Tenants : CountGeneratingReports(c, t)
        \/ \E r \in Reports : InsertReport(c, r)
        \/ CreateFails(c)

WorkerStep ==
    \/ FailExhaustedReports \/ SweepFails
    \/ \E r \in Reports : ClaimNextReport(r) \/ ClaimAnswerLost(r)
    \/ ClaimNothing
    \/ RenderPDF \/ RenderFails
    \/ PutPdf \/ PutFails
    \/ MarkReportReady \/ MarkReadyFails \/ MarkReportFailed
    \/ Restart

Next == CreateStep \/ WorkerStep

Spec == Init /\ [][Next]_vars

\* The worker loops for as long as the process runs, every step of a tick ends
\* in success or failure, and the database does not fail for ever.  Nothing is
\* assumed of rendering, uploading and marking: they may fail every time.
FairSpec ==
    /\ Spec
    /\ WF_vars(WorkerStep)
    /\ SF_vars(FailExhaustedReports)
    /\ SF_vars(\E r \in Reports : ClaimNextReport(r))

-----------------------------------------------------------------------------
(***************************************************************************)
(* Properties                                                              *)
(***************************************************************************)

\* The queue stays FIFO across tenants, failures and restarts: a report is not
\* tried while an older one still has an attempt left (worker.go, report.sql:20-34).
NoOvertaking ==
    \A q \in Claimable, r \in DOMAIN report :
        report[q].createdAt < report[r].createdAt => report[r].attempts = 0

\* maxPendingReports is a soft cap: every create request in flight besides the
\* first may overshoot it by one row, and nothing else may (http.go:40-46).
SoftCapHolds ==
    \A t \in Tenants :
        Cardinality(Pending(t)) + Cardinality({c \in DOMAIN call : call[c] = t})
            < MaxPending + Cardinality(Calls)

\* A failure is final only after every attempt was spent, and never while the
\* worker is still at work on the report: no failed report can turn out to have
\* been rendered after all (the staleness caveat of report.sql:20-25).
FailedWasExhausted ==
    \A r \in DOMAIN report :
        report[r].status = "failed" =>
            /\ report[r].attempts = MaxAttempts
            /\ worker.pc \in {"render", "put", "mark"} => worker.claimed # r

Status == [r \in Reports |-> IF r \in DOMAIN report THEN report[r].status ELSE "none"]

Lifecycle == INSTANCE ReportLifecycle
                WITH status <- Status, document <- pdf, Documents <- Attempt

\* The queue keeps the promise of ReportLifecycle: one answer for good, a PDF
\* behind every ready report, and never another PDF behind an answered one,
\* though an acknowledgement is lost and a retry reuses the object's key.
KeepsLifecycle == Lifecycle!Spec

\* Every report is answered: no crash, no lost mark, no failing renderer and no
\* backlog leaves a report generating for ever.
EveryReportIsAnswered ==
    \A r \in Reports : Status[r] = "generating" ~> Status[r] \in {"ready", "failed"}

==============================================================================
