------------------------------ MODULE StaffReads ------------------------------
(***************************************************************************)
(* What staff get to see of the planned loop while it goes on: a period    *)
(* report (report/data.go), the execution history of an object page by     *)
(* page (object/http.go) and the dashboard of a day (workorder/http.go).   *)
(* A report is three statements without a transaction around them, and a   *)
(* history is one statement per page, so the writers of WorkExecution come *)
(* between; the dashboard is one statement and so an operator.             *)
(*                                                                         *)
(* A read changes nothing another one could see: one read in flight is     *)
(* enough.  Names, addresses, photos, captions and layout are left out.    *)
(***************************************************************************)
EXTENDS WorkExecution, Sequences, FiniteSets, FiniteSetsExt

CONSTANTS
    Objects, Contracts,
    ObjectOf,       \* the object of an order
    Id,             \* the place of an execution's id among all ids
    PageLimit,      \* rows of a history page
    ReportRequests, \* the periods and contracts reports are made of
    ObjectPatches   \* the contracts staff move objects to

ReportRequest == [tenant: Tenants, from: Nat, to: Nat, contract: Contracts \cup {NULL}]

ObjectPatch == [object: Objects, contract: Contracts]

Cursor == [at: Nat, id: Nat]

\* Ids are primary keys, and a body of bulk create is finite.
ASSUME ReadsAssumption ==
    /\ ObjectOf \in [Orders -> Objects]
    /\ Id \in [Executions -> Nat]
    /\ \A e, f \in Executions : Id[e] = Id[f] => e = f
    /\ PageLimit \in Nat \ {0}
    /\ ReportRequests \subseteq ReportRequest
    /\ ObjectPatches \subseteq ObjectPatch
    /\ \A b \in Batches : IsFiniteSet(DOMAIN b.rows)
    /\ NULL \notin Cursor

VARIABLES
    createdAt,  \* work_execution.created_at, beside the rows of execution
    contract,   \* object.contract_id
    reader      \* the read in flight

readsVars == <<vars, createdAt, contract, reader>>

Counts == [planned: Nat, done: Nat, missed: Nat]

\* disturbed remembers that staff wrote while the report was being read.
ReportReader(summary) ==
    [kind: {"report"}, req: ReportRequests, next: Nat, disturbed: BOOLEAN,
     summary: {summary}, jobs: SUBSET Executions, missed: SUBSET Orders]

\* stood are the rows there were at the first page, times how often each row
\* was returned: both are kept for a property.
HistoryReader ==
    [kind: {"history"}, object: Objects, more: BOOLEAN,
     after: Cursor \cup {NULL},
     stood: SUBSET Executions, times: [Executions -> Nat]]

ReadsTypeOK ==
    /\ createdAt \in [DOMAIN execution -> Time]
    /\ \A e \in DOMAIN createdAt : createdAt[e] <= clock
    /\ contract \in [Objects -> Contracts \cup {NULL}]
    /\ \/ reader = NULL \/ reader \in HistoryReader
       \/ /\ reader \in ReportReader(reader.summary)
          /\ IsTable(reader.summary, Objects, Counts)

ReadsInit ==
    /\ Init
    /\ createdAt = EmptyTable
    /\ contract = [ob \in Objects |-> NULL]
    /\ reader = NULL

-----------------------------------------------------------------------------
(***************************************************************************)
(* The writers, with what they mean to a reader.                           *)
(***************************************************************************)

\* The row's default: now() of the transaction that inserted it.
Created(c) ==
    IF call[c].req.execution \in DOMAIN createdAt THEN createdAt
    ELSE Put(createdAt, call[c].req.execution, call[c].now)

Disturbed ==
    IF reader # NULL /\ reader.kind = "report" THEN [reader EXCEPT !.disturbed = TRUE]
    ELSE reader

UpsertEnds(c) ==
    /\ \/ CommitUpsert(c) /\ createdAt' = Created(c)
       \/ RollbackUpsert(c) /\ UNCHANGED createdAt
    /\ UNCHANGED <<contract, reader>>

UpsertGoesOn(c) ==
    /\ \/ \E r \in Requests : BeginUpsert(c, r)
       \/ GetWorkOrderForWorker(c)
       \/ RefuseUnassigned(c)
    /\ UNCHANGED <<createdAt, contract, reader>>

StaffWrite ==
    /\ StaffStep
    /\ reader' = Disturbed
    /\ UNCHANGED <<createdAt, contract>>

\* UpdateObject: a patch cannot take an object out of its contract.
UpdateObject(p) ==
    /\ contract' = [contract EXCEPT ![p.object] = p.contract]
    /\ reader' = Disturbed
    /\ UNCHANGED <<vars, createdAt>>

Sweep(t) ==
    MarkTenantOverdueOrdersMissed(t) /\ UNCHANGED <<createdAt, contract, reader>>

OtherWrite ==
    /\ Tick \/ \E t \in Tenants : OpsSuspend(t) \/ OpsActivate(t)
    /\ UNCHANGED <<createdAt, contract, reader>>

-----------------------------------------------------------------------------
(***************************************************************************)
(* BuildReportData                                                         *)
(***************************************************************************)

\* Mutant: the executions are read before the summary.
ExecutionsFirst == <<"executions", "summary", "missed">>

\* Mutant: the missed orders are read first.
MissedFirst == <<"missed", "summary", "executions">>

\* The statements in the order they are sent.
Queries == <<"summary", "executions", "missed">>

\* The filter all three share.
OrdersOfReport(q) ==
    {o \in DOMAIN order :
        /\ order[o].tenant = q.tenant
        /\ order[o].due \in q.from..q.to
        /\ q.contract # NULL => contract[ObjectOf[o]] = q.contract}

CountsOf(S) ==
    [planned |-> Cardinality(S),
     done |-> Cardinality({o \in S : order[o].status = "done"}),
     missed |-> Cardinality({o \in S : order[o].status = "missed"})]

\* A row for every object that has an order in the period.
ReportSummaryRows(q) ==
    LET S == OrdersOfReport(q)
    IN  [ob \in {ObjectOf[o] : o \in S} |-> CountsOf({o \in S : ObjectOf[o] = ob})]

ReportObjectExecutions(q) ==
    {e \in DOMAIN execution :
        /\ execution[e].tenant = q.tenant
        /\ execution[e].order \in OrdersOfReport(q)
        /\ execution[e].deviceFinishedAt # NULL}

ReportMissedOrders(q) == {o \in OrdersOfReport(q) : order[o].status = "missed"}

BeginReport(q) ==
    /\ reader = NULL
    /\ reader' = [kind |-> "report", req |-> q, next |-> 1, disturbed |-> FALSE,
                  summary |-> EmptyTable, jobs |-> {}, missed |-> {}]
    /\ UNCHANGED <<vars, createdAt, contract>>

Answered(query) ==
    CASE query = "summary"    -> [reader EXCEPT !.summary = ReportSummaryRows(reader.req)]
      [] query = "executions" -> [reader EXCEPT !.jobs = ReportObjectExecutions(reader.req)]
      [] query = "missed"     -> [reader EXCEPT !.missed = ReportMissedOrders(reader.req)]

QueryReport ==
    /\ reader # NULL /\ reader.kind = "report" /\ reader.next <= Len(Queries)
    /\ reader' = [Answered(Queries[reader.next]) EXCEPT !.next = @ + 1]
    /\ UNCHANGED <<vars, createdAt, contract>>

Built == reader # NULL /\ reader.kind = "report" /\ reader.next > Len(Queries)

\* The rows of a built report: a job is dropped when its object has no summary
\* row (data.go:168-174).
Printed ==
    {e \in reader.jobs : ObjectOf[execution[e].order] \in DOMAIN reader.summary}

-----------------------------------------------------------------------------
(***************************************************************************)
(* The execution history of an object, newest first.                       *)
(***************************************************************************)

\* Mutant: the cursor holds the time alone.
BeforeByTime(e, cursor) == cursor = NULL \/ createdAt[e] < cursor.at

\* (created_at, id) < (cursor); the first page's sentinel is above every row.
Before(e, cursor) ==
    \/ cursor = NULL
    \/ createdAt[e] < cursor.at
    \/ createdAt[e] = cursor.at /\ Id[e] < cursor.id

CursorOf(e) == [at |-> createdAt[e], id |-> Id[e]]

ExecutionsOf(ob) == {e \in DOMAIN execution : ObjectOf[execution[e].order] = ob}

\* The newest rows of S, as many as a page holds.
Newest(S) == {e \in S : Cardinality({f \in S : ~Before(f, CursorOf(e)) /\ f # e}) < PageLimit}

ListObjectExecutions(ob, cursor) == Newest({e \in ExecutionsOf(ob) : Before(e, cursor)})

Oldest(page) == CHOOSE e \in page : \A f \in page \ {e} : Before(e, CursorOf(f))

BeginHistory(ob) ==
    /\ reader = NULL
    /\ reader' = [kind |-> "history", object |-> ob, more |-> TRUE, after |-> NULL,
                  stood |-> ExecutionsOf(ob), times |-> [e \in Executions |-> 0]]
    /\ UNCHANGED <<vars, createdAt, contract>>

\* A full page carries the cursor of the next.
ListStaffObjectExecutions ==
    /\ reader # NULL /\ reader.kind = "history" /\ reader.more
    /\ LET page == ListObjectExecutions(reader.object, reader.after)
           full == Cardinality(page) = PageLimit
       IN  reader' = [reader EXCEPT
                !.more = full,
                !.after = IF full THEN CursorOf(Oldest(page)) ELSE @,
                !.times = [e \in Executions |-> IF e \in page THEN @[e] + 1 ELSE @[e]]]
    /\ UNCHANGED <<vars, createdAt, contract>>

\* The reader has the answer, gives up, or a statement fails.
EndRead ==
    /\ reader # NULL
    /\ reader' = NULL
    /\ UNCHANGED <<vars, createdAt, contract>>

-----------------------------------------------------------------------------
(***************************************************************************)
(* The dashboard of a day: one row per order, with its latest execution.   *)
(***************************************************************************)

\* Mutant: the join without DISTINCT ON.
EveryExecutionOf(o) == IF EvidenceOf(o) = {} THEN {NULL} ELSE EvidenceOf(o)

LatestExecutionOf(o) ==
    IF EvidenceOf(o) = {} THEN {NULL}
    ELSE {e \in EvidenceOf(o) : \A f \in EvidenceOf(o) \ {e} : Before(f, CursorOf(e))}

ListDashboardOrders(t, date) ==
    {row \in [order: {o \in DOMAIN order : order[o].tenant = t /\ order[o].due = date},
              last: Executions \cup {NULL}] : row.last \in LatestExecutionOf(row.order)}

DashboardTotals(t, date) ==
    LET rows == ListDashboardOrders(t, date)
        Having(S) == Cardinality({r \in rows : order[r.order].status \in S})
    IN  [total |-> Cardinality(rows),
         done |-> Having({"done"}),
         inProgress |-> Having({"in_progress"}),
         overdue |-> IF date < TenantToday(t) THEN Having({"scheduled", "in_progress"}) ELSE 0]

-----------------------------------------------------------------------------

Write ==
    \/ \E c \in Calls : UpsertGoesOn(c) \/ UpsertEnds(c)
    \/ StaffWrite
    \/ \E p \in ObjectPatches : UpdateObject(p)
    \/ \E t \in Tenants : Sweep(t)
    \/ OtherWrite

Read ==
    \/ \E q \in ReportRequests : BeginReport(q)
    \/ QueryReport
    \/ \E ob \in Objects : BeginHistory(ob)
    \/ ListStaffObjectExecutions
    \/ EndRead

ReadsNext == Write \/ Read

\* The fairness of WorkExecution!FairSpec; none is needed of the readers.
ReadsSpec ==
    /\ ReadsInit /\ [][ReadsNext]_readsVars
    /\ \A t \in Tenants : SF_readsVars(Sweep(t))
    /\ \A c \in Calls : WF_readsVars(UpsertEnds(c))

-----------------------------------------------------------------------------
(***************************************************************************)
(* Properties                                                              *)
(***************************************************************************)

\* Paging through a history returns every execution there was when it began
\* exactly once, and none twice, though others are uploaded meanwhile, share an
\* instant, or fill the last page (object/http.go:292-326, staff.sql.go:661-672).
HistoryIsExact ==
    reader # NULL /\ reader.kind = "history" =>
        \A e \in Executions :
            /\ reader.times[e] <= 1
            /\ ~reader.more /\ e \in reader.stood => reader.times[e] = 1

OrdersDone(ob) == {execution[e].order : e \in {f \in Printed : ObjectOf[execution[f].order] = ob}}

\* Unless staff plan or move orders or objects meanwhile, a report can account
\* for its summary: every order counted done has a job on its object's page,
\* and no job is dropped for want of a page (data.go:141-174).
ReportCoversDone ==
    Built /\ ~reader.disturbed =>
        /\ Printed = reader.jobs
        /\ \A ob \in DOMAIN reader.summary :
            reader.summary[ob].done <= Cardinality(OrdersDone(ob))

\* No order is both reported missed and shown as a job, whatever is uploaded,
\* swept or rescheduled between the statements.
MissedHasNoJob ==
    Built => \A e \in reader.jobs : execution[e].order \notin reader.missed

Total(rows, field(_)) == MapThenSumSet(LAMBDA ob : field(rows[ob]), DOMAIN rows)

\* The dashboard of a day counts every order once, however many executions it
\* has: its totals are those of a report of that day, and today has nothing
\* overdue (workorder/http.go:808-819).
DashboardMatchesReport ==
    \A t \in Tenants : \A date \in {order[o].due : o \in DOMAIN order} :
        LET totals == DashboardTotals(t, date)
            rows == ReportSummaryRows([tenant |-> t, from |-> date, to |-> date,
                                       contract |-> NULL])
        IN  /\ totals.total = Total(rows, LAMBDA r : r.planned)
            /\ totals.done = Total(rows, LAMBDA r : r.done)
            /\ date = TenantToday(t) => totals.overdue = 0

=============================================================================
