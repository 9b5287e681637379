---------------------------- MODULE WorkExecution ----------------------------
(***************************************************************************)
(* The planned loop: work orders, the executions workers upload for them,  *)
(* the checklist items inside an execution, and the status column they all *)
(* share.  Its writers are                                                 *)
(*                                                                         *)
(*   - the worker API, PUT /worker/executions/{id}: a gate read, then one  *)
(*     transaction under the order's row lock (execution.go);              *)
(*   - the staff API: bulk creation and reassign/reschedule (http.go);     *)
(*   - the hourly scheduler, which marks overdue orders missed;            *)
(*   - the operator CLI, which suspends and activates a tenant.            *)
(*                                                                         *)
(* Tables are functions from the ids that have a row to the row.  A        *)
(* request that is answered with an error changes nothing, so a refusal    *)
(* has an action only where it ends a call that already holds something.   *)
(* The started_at and note columns, which every snapshot overwrites alike, *)
(* are the one field note.                                                 *)
(***************************************************************************)
EXTENDS Naturals, Tables

CONSTANTS
    Tenants, Workers, Orders, Executions, Items, Templates, Versions, Notes,
    Calls,      \* server-side slots for upserts in flight
    TenantOf,   \* the tenant of a worker
    VersionOf,  \* the checklist version a template item belongs to
    Requests,   \* the upsert bodies devices send, any number of times, in any order
    Batches,    \* the bulk-create bodies staff send
    Patches,    \* the reassign/reschedule bodies staff send
    DayLength,  \* instants per calendar day
    UtcOffset,  \* instants a tenant's wall clock is ahead of UTC
    MaxTime,    \* bound on the clock
    NULL

Statuses == {"scheduled", "in_progress", "done", "missed"}

Time == Nat
MaybeTime == Time \cup {NULL}

OrderRow == [tenant: Tenants, version: Versions, assignee: Workers \cup {NULL},
             due: Nat, status: Statuses]

ExecutionRow == [tenant: Tenants, order: Orders, worker: Workers, note: Notes,
                 deviceFinishedAt: MaybeTime, finishedAt: MaybeTime]

ItemRow == [execution: Executions, template: Templates, checked: BOOLEAN]

ItemInput == [template: Templates, checked: BOOLEAN]

\* What the three kinds of request body hold.
IsRequest(r) ==
    /\ r.worker \in Workers
    /\ r.execution \in Executions
    /\ r.order \in Orders
    /\ r.note \in Notes
    /\ r.deviceFinishedAt \in MaybeTime
    /\ IsTable(r.items, Items, ItemInput)

BatchRow == [version: Versions, assignee: Workers \cup {NULL}, due: Nat]

IsBatch(b) == b.tenant \in Tenants /\ IsTable(b.rows, Orders, BatchRow)

Patch == [tenant: Tenants, order: Orders, assignee: Workers \cup {NULL},
          due: Nat \cup {NULL}]

ASSUME NullAssumption == NULL \notin Nat /\ NULL \notin Workers

ASSUME ParameterAssumption ==
    /\ TenantOf \in [Workers -> Tenants]
    /\ VersionOf \in [Templates -> Versions]
    /\ UtcOffset \in [Tenants -> Nat]
    /\ DayLength \in Nat \ {0}
    /\ MaxTime \in Nat

ASSUME InputAssumption ==
    /\ \A r \in Requests : IsRequest(r)
    /\ \A b \in Batches : IsBatch(b)
    /\ Patches \subseteq Patch

VARIABLES
    order,        \* work_order
    execution,    \* work_execution
    item,         \* work_execution_item
    call,         \* the upserts in flight
    suspendedAt,  \* tenant.suspended_at
    clock

tables == <<order, execution, item>>
vars == <<order, execution, item, call, suspendedAt, clock>>

\* suspended remembers whether the gate saw the tenant suspended: no code
\* reads it, only a property does.
CallRow == [pc: {"begun", "locked"}, req: Requests, now: Time, suspended: BOOLEAN]

TypeOK ==
    /\ IsTable(order, Orders, OrderRow)
    /\ IsTable(execution, Executions, ExecutionRow)
    /\ IsTable(item, Items, ItemRow)
    /\ IsTable(call, Calls, CallRow)
    /\ suspendedAt \in [Tenants -> MaybeTime]
    /\ clock \in Time

Init ==
    /\ order = EmptyTable
    /\ execution = EmptyTable
    /\ item = EmptyTable
    /\ call = EmptyTable
    /\ suspendedAt = [t \in Tenants |-> NULL]
    /\ clock = 0

-----------------------------------------------------------------------------
(***************************************************************************)
(* Helpers                                                                 *)
(***************************************************************************)

\* Mutant: a plain assignment where the query says COALESCE, so that a field
\* the patch leaves out is stored as NULL.
AssignPatched(a, b) == a

\* SQL COALESCE of two values.
Coalesce(a, b) == IF a = NULL THEN b ELSE a

\* The calendar date of the tenant's wall clock.
TenantToday(t) == (clock + UtcOffset[t]) \div DayLength

\* Mutant: the order is read without FOR UPDATE.
NeverLocked(o) == FALSE

\* FOR UPDATE: some transaction in flight holds the order's row.
Locked(o) == \E c \in DOMAIN call : call[c].pc = "locked" /\ call[c].req.order = o

-----------------------------------------------------------------------------
(***************************************************************************)
(* PUT /worker/executions/{id}: the gate, before any transaction.          *)
(***************************************************************************)

\* Mutant: the gate looks only at snapshots that carry a completion.
GateLetsOpenWorkIn(r) ==
    LET susp == suspendedAt[TenantOf[r.worker]]
    IN  susp # NULL /\ r.deviceFinishedAt # NULL => r.deviceFinishedAt < susp

\* Once suspended_at is set, only a snapshot finished strictly before it passes.
EvidenceSuspensionGate(r) ==
    LET susp == suspendedAt[TenantOf[r.worker]]
    IN  susp # NULL => r.deviceFinishedAt # NULL /\ r.deviceFinishedAt < susp

\* The call passes the gate and begins its transaction, whose now() is
\* fixed here.
BeginUpsert(c, r) ==
    /\ c \notin DOMAIN call
    /\ EvidenceSuspensionGate(r)
    /\ call' = Put(call, c, [pc |-> "begun", req |-> r, now |-> clock,
                             suspended |-> suspendedAt[TenantOf[r.worker]] # NULL])
    /\ UNCHANGED <<tables, suspendedAt, clock>>

(***************************************************************************)
(* The transaction.  GetWorkOrderForWorker waits for the row lock, then    *)
(* compares the assignee it reads under it.                                *)
(***************************************************************************)

Assigned(r) ==
    /\ r.order \in DOMAIN order
    /\ order[r.order].tenant = TenantOf[r.worker]
    /\ order[r.order].assignee = r.worker

GetWorkOrderForWorker(c) ==
    /\ c \in DOMAIN call /\ call[c].pc = "begun"
    /\ ~Locked(call[c].req.order)
    /\ Assigned(call[c].req)
    /\ call' = [call EXCEPT ![c].pc = "locked"]
    /\ UNCHANGED <<tables, suspendedAt, clock>>

\* ErrWorkOrderNotAssigned.
RefuseUnassigned(c) ==
    /\ c \in DOMAIN call /\ call[c].pc = "begun"
    /\ ~Locked(call[c].req.order)
    /\ ~Assigned(call[c].req)
    /\ call' = Without(call, c)
    /\ UNCHANGED <<tables, suspendedAt, clock>>

\* Mutant: the completion follows the latest snapshot, like the note.
UpsertForgetsCompletion(r, now) ==
    LET stamp == IF r.deviceFinishedAt = NULL THEN NULL ELSE now
    IN  [tenant |-> TenantOf[r.worker], order |-> r.order, worker |-> r.worker,
         note |-> r.note, deviceFinishedAt |-> r.deviceFinishedAt,
         finishedAt |-> stamp]

\* Mutant: finished_at is stamped again by every snapshot that is complete.
UpsertRestampsReceipt(r, now) ==
    LET dfa == IF r.execution \in DOMAIN execution
               THEN Coalesce(execution[r.execution].deviceFinishedAt, r.deviceFinishedAt)
               ELSE r.deviceFinishedAt
    IN  [tenant |-> TenantOf[r.worker], order |-> r.order, worker |-> r.worker,
         note |-> r.note, deviceFinishedAt |-> dfa,
         finishedAt |-> IF dfa = NULL THEN NULL ELSE now]

\* UpsertWorkExecution: insert, or overwrite note and keep a completion once
\* stored.  finished_at takes the transaction's now() with the first completion.
UpsertedExecution(r, now) ==
    LET stamp == IF r.deviceFinishedAt = NULL THEN NULL ELSE now
    IN  IF r.execution \in DOMAIN execution
        THEN LET old == execution[r.execution]
             IN  [old EXCEPT !.note = r.note,
                             !.deviceFinishedAt = Coalesce(@, r.deviceFinishedAt),
                             !.finishedAt = Coalesce(@, stamp)]
        ELSE [tenant |-> TenantOf[r.worker], order |-> r.order, worker |-> r.worker,
              note |-> r.note, deviceFinishedAt |-> r.deviceFinishedAt,
              finishedAt |-> stamp]

\* GetExecution finds the row under the tenant.
GetExecution(e, t) == e \in DOMAIN execution /\ execution[e].tenant = t

\* ErrExecutionIDConflict: the id is already a row of another tenant, worker or order.
OwnsExecution(r) ==
    r.execution \in DOMAIN execution =>
        /\ GetExecution(r.execution, TenantOf[r.worker])
        /\ execution[r.execution].worker = r.worker
        /\ execution[r.execution].order = r.order

\* Mutant: template items are not checked against the version.
AnyItemAllowed(r) == TRUE

\* ListChecklistItemsByVersions.
ItemsOfVersion(v) == {m \in Templates : VersionOf[m] = v}

\* ErrInvalidChecklistItem unless every item is of the order's pinned version.
ItemsAllowed(r) ==
    \A i \in DOMAIN r.items : r.items[i].template \in ItemsOfVersion(order[r.order].version)

\* Mutant: the item upsert updates whatever row has the id.
AnyItemOwned(r) == TRUE

\* ErrExecutionItemConflict: the upsert of an item of another execution affects no row.
ItemsOwned(r) ==
    \A i \in DOMAIN r.items \cap DOMAIN item : item[i].execution = r.execution

\* DeleteExecutionItemsNotIn.
PrunedItems(r) ==
    {i \in DOMAIN item : item[i].execution = r.execution /\ i \notin DOMAIN r.items}

\* DeleteExecutionItemsNotIn, then UpsertWorkExecutionItem for each item: the
\* checked state follows the snapshot, the template item only on insert.
UpsertedItems(r) ==
    [i \in (DOMAIN item \ PrunedItems(r)) \cup DOMAIN r.items |->
        IF i \notin DOMAIN r.items THEN item[i]
        ELSE IF i \in DOMAIN item THEN [item[i] EXCEPT !.checked = r.items[i].checked]
        ELSE [execution |-> r.execution, template |-> r.items[i].template,
              checked |-> r.items[i].checked]]

Accepts(r) == OwnsExecution(r) /\ ItemsAllowed(r) /\ ItemsOwned(r)

\* Mutant: the status follows the completion the snapshot carries.
StatusOfSnapshot(r, now) ==
    IF r.deviceFinishedAt # NULL THEN "done" ELSE "in_progress"

\* The status follows the STORED completion, not the one the snapshot carries.
StatusAfter(r, now) ==
    IF UpsertedExecution(r, now).deviceFinishedAt # NULL THEN "done" ELSE "in_progress"

SetWorkOrderStatus(o, s) == [order EXCEPT ![o].status = s]

CommitUpsert(c) ==
    LET r == call[c].req
        now == call[c].now
    IN  /\ c \in DOMAIN call /\ call[c].pc = "locked"
        /\ Accepts(r)
        /\ execution' = Put(execution, r.execution, UpsertedExecution(r, now))
        /\ item' = UpsertedItems(r)
        /\ order' = SetWorkOrderStatus(r.order, StatusAfter(r, now))
        /\ call' = Without(call, c)
        /\ UNCHANGED <<suspendedAt, clock>>

\* A conflict error, a database error, a cancelled request or a crash of the
\* process: the transaction rolls back and its lock goes with it.
RollbackUpsert(c) ==
    /\ c \in DOMAIN call
    /\ call' = Without(call, c)
    /\ UNCHANGED <<tables, suspendedAt, clock>>

-----------------------------------------------------------------------------
(***************************************************************************)
(* The staff API.  Whether an assignee is_active is roster state, read     *)
(* without a lock: a request naming an inactive worker is refused without  *)
(* a change, so every request here may or may not be accepted.             *)
(***************************************************************************)

\* validateOrderReferences, as far as it looks at the assignee.
ValidAssignee(t, w) == w # NULL => TenantOf[w] = t

\* InsertWorkOrder, a row of the batch; status takes its default.
InsertedOrder(b, o) ==
    [tenant |-> b.tenant, version |-> b.rows[o].version,
     assignee |-> b.rows[o].assignee, due |-> b.rows[o].due, status |-> "scheduled"]

\* Bulk create: one transaction of InsertWorkOrder, under ids generated here.
CreateOrders(b) ==
    /\ DOMAIN b.rows \cap DOMAIN order = {}
    /\ \A o \in DOMAIN b.rows : ValidAssignee(b.tenant, b.rows[o].assignee)
    /\ order' = [o \in DOMAIN order \cup DOMAIN b.rows |->
                    IF o \in DOMAIN order THEN order[o] ELSE InsertedOrder(b, o)]
    /\ UNCHANGED <<execution, item, call, suspendedAt, clock>>

\* UpdateWorkOrder: what the patch leaves out stays.
UpdatedOrder(p) ==
    [order[p.order] EXCEPT !.assignee = Coalesce(p.assignee, @), !.due = Coalesce(p.due, @)]

\* Reassign or reschedule: UpdateWorkOrder waits for the row lock and leaves
\* the status as it is.
PatchOrder(p) ==
    /\ p.order \in DOMAIN order /\ order[p.order].tenant = p.tenant
    /\ ValidAssignee(p.tenant, p.assignee)
    /\ ~Locked(p.order)
    /\ order' = [order EXCEPT ![p.order] = UpdatedOrder(p)]
    /\ UNCHANGED <<execution, item, call, suspendedAt, clock>>

(***************************************************************************)
(* The scheduler's sweep of one tenant: one UPDATE statement, which waits  *)
(* for the row locks of the orders it matches and re-reads them then.      *)
(***************************************************************************)

\* Mutant: the sweep takes orders in progress as well.
UnfinishedAndOverdue(o) ==
    /\ order[o].status \in {"scheduled", "in_progress"}
    /\ order[o].due < TenantToday(order[o].tenant)

IsOverdue(o) ==
    /\ order[o].status = "scheduled"
    /\ order[o].due < TenantToday(order[o].tenant)

\* Mutant: the sweep passes over suspended tenants.
OverdueUnlessSuspended(t) ==
    {o \in DOMAIN order : order[o].tenant = t /\ IsOverdue(o) /\ suspendedAt[t] = NULL}

Overdue(t) == {o \in DOMAIN order : order[o].tenant = t /\ IsOverdue(o)}

MarkTenantOverdueOrdersMissed(t) ==
    /\ Overdue(t) # {}
    /\ \A o \in Overdue(t) : ~Locked(o)
    /\ order' = [o \in DOMAIN order |->
                    IF o \in Overdue(t) THEN [order[o] EXCEPT !.status = "missed"]
                    ELSE order[o]]
    /\ UNCHANGED <<execution, item, call, suspendedAt, clock>>

\* The operator CLI.  OpsSuspend reads the clock before its transaction, so
\* the instant it stores may lie before the one at which it takes effect.
OpsSuspend(t) ==
    /\ \E now \in 0..clock : suspendedAt' = [suspendedAt EXCEPT ![t] = now]
    /\ UNCHANGED <<tables, call, clock>>

OpsActivate(t) ==
    /\ suspendedAt[t] # NULL
    /\ suspendedAt' = [suspendedAt EXCEPT ![t] = NULL]
    /\ UNCHANGED <<tables, call, clock>>

Tick ==
    /\ clock < MaxTime
    /\ clock' = clock + 1
    /\ UNCHANGED <<tables, call, suspendedAt>>

-----------------------------------------------------------------------------

WorkerStep ==
    \E c \in Calls :
        \/ \E r \in Requests : BeginUpsert(c, r)
        \/ GetWorkOrderForWorker(c)
        \/ RefuseUnassigned(c)
        \/ CommitUpsert(c)
        \/ RollbackUpsert(c)

StaffStep ==
    \/ \E b \in Batches : CreateOrders(b)
    \/ \E p \in Patches : PatchOrder(p)

TenantStep ==
    \E t \in Tenants :
        \/ MarkTenantOverdueOrdersMissed(t)
        \/ OpsSuspend(t)
        \/ OpsActivate(t)

Next == WorkerStep \/ StaffStep \/ TenantStep \/ Tick

Spec == Init /\ [][Next]_vars

\* The scheduler ticks for as long as the process runs, and PostgreSQL queues
\* its UPDATE behind the transactions that hold a row it matches, so it is not
\* overtaken for ever; a transaction commits or is rolled back.
FairSpec ==
    /\ Spec
    /\ \A t \in Tenants : SF_vars(MarkTenantOverdueOrdersMissed(t))
    /\ \A c \in Calls : WF_vars(CommitUpsert(c) \/ RollbackUpsert(c))

-----------------------------------------------------------------------------
(***************************************************************************)
(* Properties                                                              *)
(***************************************************************************)

EvidenceOf(o) == {e \in DOMAIN execution : execution[e].order = o}

\* The status column is a faithful summary of the evidence rows, whatever the
\* order in which snapshots, reassignments and sweeps arrive: an order is
\* scheduled or missed exactly while nobody has uploaded anything for it, an
\* order in progress has an unfinished execution and a done one a finished one.
StatusMatchesEvidence ==
    \A o \in DOMAIN order :
        /\ order[o].status \in {"scheduled", "missed"} <=> EvidenceOf(o) = {}
        /\ order[o].status = "in_progress" =>
                \E e \in EvidenceOf(o) : execution[e].deviceFinishedAt = NULL
        /\ order[o].status = "done" =>
                \E e \in EvidenceOf(o) : execution[e].deviceFinishedAt # NULL

\* Item rows are bound to evidence of the right shape: the execution exists,
\* its order exists in its tenant, and the template item is one of the
\* checklist version that order was created with (execution.go:144-159).
ItemsMatchChecklist ==
    \A i \in DOMAIN item :
        /\ item[i].execution \in DOMAIN execution
        /\ LET e == execution[item[i].execution]
           IN  /\ e.order \in DOMAIN order
               /\ order[e.order].tenant = e.tenant
               /\ VersionOf[item[i].template] = order[e.order].version

\* Once a completion is stored, no delayed or duplicated snapshot erases or
\* moves either of its two times, and no execution ever changes hands: neither
\* its tenant, its worker nor its order (worker.sql:49-60).
CompletionIsPermanent ==
    [][\A e \in DOMAIN execution :
        /\ e \in DOMAIN execution'
        /\ execution'[e].tenant = execution[e].tenant
        /\ execution'[e].worker = execution[e].worker
        /\ execution'[e].order = execution[e].order
        /\ execution[e].deviceFinishedAt # NULL =>
            /\ execution'[e].deviceFinishedAt = execution[e].deviceFinishedAt
            /\ execution'[e].finishedAt = execution[e].finishedAt]_vars

ItemsOf(e) == {i \in DOMAIN item : item[i].execution = e}

\* The executions whose row or items a step creates, changes or deletes.
Touched ==
    {e \in DOMAIN execution' :
        \/ e \notin DOMAIN execution
        \/ execution'[e] # execution[e]
        \/ ItemsOf(e)' # ItemsOf(e)
        \/ \E i \in ItemsOf(e) : item'[i] # item[i]}

\* A reassignment and an upload of the same order cannot interleave: evidence
\* is only ever written by the worker the order is assigned to at that moment
\* (the FOR UPDATE lock, worker.sql:22-34).
OnlyAssigneeWrites ==
    [][\A e \in Touched :
        /\ execution'[e].order \in DOMAIN order
        /\ order[execution'[e].order].assignee = execution'[e].worker]_vars

\* No upload reaches into evidence of another execution, through a colliding
\* execution id or item id: one step touches at most one execution, and an item
\* never moves between executions nor changes its template.
EvidenceStaysApart ==
    [][/\ \A e, f \in Touched : e = f
       /\ \A i \in DOMAIN item \cap DOMAIN item' :
            /\ item'[i].execution = item[i].execution
            /\ item'[i].template = item[i].template]_vars

\* r, sent once more at a later instant, is accepted and changes nothing.
Settled(r) ==
    /\ Accepts(r)
    /\ r.execution \in DOMAIN execution
    /\ UpsertedExecution(r, clock + 1) = execution[r.execution]
    /\ UpsertedItems(r) = item
    /\ StatusAfter(r, clock + 1) = order[r.order].status

\* "Idempotent by construction: replaying any snapshot converges"
\* (execution.go:76-79): right after a snapshot commits, sending it again is a
\* no-op, in whichever state the tables were before.
ReplayConverges ==
    [][\A c \in DOMAIN call :
        CommitUpsert(c) => \E r \in Requests : r = call[c].req /\ Settled(r)']_vars

\* Work left open under a suspension was let in before it: an unfinished
\* execution of a suspended tenant is only written by a call that had passed
\* the gate while the tenant was not suspended (http.go:174-191).
OpenWorkPrecedesSuspension ==
    [][\A e \in Touched :
        (/\ suspendedAt[execution'[e].tenant] # NULL
         /\ execution'[e].deviceFinishedAt = NULL)
            => \E c \in DOMAIN call : /\ call[c].req.execution = e
                                     /\ ~call[c].suspended]_vars

\* What the comment at execution.go:181-185 promises, as far as the code keeps
\* it: no delayed snapshot reopens a done order through the execution that is
\* done, whatever calls are in flight and whatever the snapshot carries.  It
\* takes an execution that was never finished, beside the finished one.
OnlyOpenWorkReopens ==
    [][\A o \in DOMAIN order :
        (order[o].status = "done" /\ order'[o].status # "done") =>
            /\ order'[o].status = "in_progress"
            /\ \E c \in DOMAIN call \ DOMAIN call' :
                LET e == call[c].req.execution
                IN  /\ call[c].req.order = o
                    /\ e \in EvidenceOf(o)' /\ execution'[e].deviceFinishedAt = NULL
                    /\ \E f \in EvidenceOf(o) \ {e} : execution[f].deviceFinishedAt # NULL]_vars

\* What staff see of the tables: whose each order is, how far it is, and the
\* executions there are.
AssigneeOf == [o \in DOMAIN order |-> order[o].assignee]
StatusOf == [o \in DOMAIN order |-> order[o].status]
WorkOf == [e \in DOMAIN execution |->
    [order |-> execution[e].order, worker |-> execution[e].worker,
     finished |-> execution[e].deviceFinishedAt # NULL]]

Loop == INSTANCE PlannedLoop WITH assignee <- AssigneeOf, status <- StatusOf, work <- WorkOf

\* An upload acts at one instant.  It passes the gate, waits for the row, checks,
\* writes three tables and commits, while staff reassign, the sweep runs and
\* other uploads do the same; to whoever reads orders and executions it is one
\* step of PlannedLoop, or it never was.
KeepsPlannedLoop == Loop!Spec

\* The hourly sweep reaches every order: one that is still scheduled after its
\* due date does not stay so (it is missed, worked on or rescheduled), however
\* uploads keep locking it.
OverdueOrdersSettle ==
    \A o \in Orders :
        (o \in DOMAIN order /\ IsOverdue(o)) ~> (o \in DOMAIN order /\ ~IsOverdue(o))

(***************************************************************************)
(* Claims the code does not keep                                           *)
(***************************************************************************)

\* execution.go:181-185: an in-progress snapshot that arrives after a
\* completion was recorded "must not revert a done order back to in_progress".
DoneOrderStaysDone ==
    [][\A o \in DOMAIN order : order[o].status = "done" => order'[o].status = "done"]_vars

=============================================================================
