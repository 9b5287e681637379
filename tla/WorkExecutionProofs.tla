------------------------- MODULE WorkExecutionProofs -------------------------
(***************************************************************************)
(* Proofs about WorkExecution, for any tenants, requests and patches, and  *)
(* any number of uploads in flight.                                        *)
(***************************************************************************)
EXTENDS WorkExecution, TableTheorems, TLAPS

-----------------------------------------------------------------------------
(***************************************************************************)
(* Type correctness                                                        *)
(***************************************************************************)

LEMMA CoalesceType ==
    ASSUME NEW a \in MaybeTime, NEW b \in MaybeTime
    PROVE  /\ Coalesce(a, b) \in MaybeTime
           /\ a # NULL => Coalesce(a, b) = a
           /\ Coalesce(a, b) = NULL <=> a = NULL /\ b = NULL
    BY DEF Coalesce

\* What a request in flight says of itself.
LEMMA CallOfRequest ==
    ASSUME TypeOK, NEW c \in DOMAIN call
    PROVE  /\ call[c] \in CallRow
           /\ call[c].req \in Requests
           /\ IsRequest(call[c].req)
           /\ call[c].now \in Time
    BY InputAssumption DEF TypeOK, IsTable, CallRow

\* The row an upsert leaves is a row of the execution table.
LEMMA UpsertedType ==
    ASSUME TypeOK, NEW r \in Requests, NEW now \in Time
    PROVE  UpsertedExecution(r, now) \in ExecutionRow
<1>1. IsRequest(r) /\ r.deviceFinishedAt \in MaybeTime
    BY InputAssumption DEF IsRequest
<1>2. CASE r.execution \in DOMAIN execution
    <2> DEFINE old == execution[r.execution]
    <2>1. old \in ExecutionRow
        BY <1>2 DEF TypeOK, IsTable
    <2>2. Coalesce(old.deviceFinishedAt, r.deviceFinishedAt) \in MaybeTime
        BY <1>1, <2>1, CoalesceType DEF ExecutionRow
    <2>3. Coalesce(old.finishedAt, IF r.deviceFinishedAt = NULL THEN NULL ELSE now)
            \in MaybeTime
        BY <2>1, CoalesceType DEF ExecutionRow, MaybeTime
    <2> QED
        BY <1>1, <1>2, <2>1, <2>2, <2>3 DEF UpsertedExecution, IsRequest, ExecutionRow
<1>3. CASE r.execution \notin DOMAIN execution
    BY <1>1, <1>3, ParameterAssumption
       DEF UpsertedExecution, IsRequest, ExecutionRow, MaybeTime
<1> QED
    BY <1>2, <1>3

\* And so are the rows of its items.
LEMMA UpsertedItemsType ==
    ASSUME TypeOK, NEW r \in Requests
    PROVE  IsTable(UpsertedItems(r), Items, ItemRow)
<1> DEFINE new == UpsertedItems(r)
<1>1. IsRequest(r) /\ IsTable(r.items, Items, ItemInput)
    BY InputAssumption DEF IsRequest
<1>2. DOMAIN new = (DOMAIN item \ PrunedItems(r)) \cup DOMAIN r.items
    BY DEF UpsertedItems
<1>3. ASSUME NEW i \in DOMAIN new PROVE new[i] \in ItemRow
    <2>1. CASE i \notin DOMAIN r.items
        BY <1>2, <2>1 DEF UpsertedItems, TypeOK, IsTable
    <2>2. CASE i \in DOMAIN r.items /\ i \in DOMAIN item
        <3>1. r.items[i].checked \in BOOLEAN /\ item[i] \in ItemRow
            BY <1>1, <2>2 DEF IsTable, ItemInput, TypeOK
        <3>2. [item[i] EXCEPT !.checked = r.items[i].checked] \in ItemRow
            BY <3>1 DEF ItemRow
        <3> QED
            BY <1>2, <2>2, <3>2 DEF UpsertedItems
    <2>3. CASE i \in DOMAIN r.items /\ i \notin DOMAIN item
        <3>1. r.items[i] \in ItemInput
            BY <1>1, <2>3 DEF IsTable
        <3> QED
            BY <1>1, <1>2, <2>3, <3>1 DEF UpsertedItems, ItemRow, ItemInput, IsRequest
    <2> QED
        BY <2>1, <2>2, <2>3
<1>4. new = [i \in DOMAIN new |-> new[i]]
    BY DEF UpsertedItems
<1>5. DOMAIN new \subseteq Items
    BY <1>1, <1>2 DEF TypeOK, IsTable
<1> QED
    BY <1>3, <1>4, <1>5 DEF IsTable

LEMMA StatusType ==
    ASSUME NEW r, NEW now
    PROVE  StatusAfter(r, now) \in Statuses
    BY DEF StatusAfter, Statuses

LEMMA TypeInit == Init => TypeOK
    BY DEF Init, TypeOK, IsTable, EmptyTable, MaybeTime, Time

LEMMA TypeStep == TypeOK /\ [Next]_vars => TypeOK'
<1> SUFFICES ASSUME TypeOK, [Next]_vars PROVE TypeOK'
    OBVIOUS
<1> USE DEF tables
<1>1. ASSUME NEW c \in Calls, NEW r \in Requests, BeginUpsert(c, r) PROVE TypeOK'
    <2> DEFINE row == [pc |-> "begun", req |-> r, now |-> clock,
                       suspended |-> suspendedAt[TenantOf[r.worker]] # NULL]
    <2>1. row \in CallRow
        BY DEF TypeOK, CallRow, Time
    <2>2. IsTable(call', Calls, CallRow)
        BY <1>1, <2>1, PutTable DEF BeginUpsert, TypeOK
    <2> QED
        BY <1>1, <2>2 DEF BeginUpsert, TypeOK
<1>2. ASSUME NEW c \in Calls, GetWorkOrderForWorker(c) PROVE TypeOK'
    <2>1. call' = [call EXCEPT ![c].pc = "locked"] /\ c \in DOMAIN call
        BY <1>2 DEF GetWorkOrderForWorker
    <2>2. IsTable(call', Calls, CallRow)
        BY <2>1 DEF TypeOK, IsTable, CallRow
    <2> QED
        BY <1>2, <2>2 DEF GetWorkOrderForWorker, TypeOK
<1>3. ASSUME NEW c \in Calls, RefuseUnassigned(c) PROVE TypeOK'
    <2>1. IsTable(call', Calls, CallRow)
        <3>1. call' = Without(call, c)
            BY <1>3 DEF RefuseUnassigned
        <3>2. IsTable(Without(call, c), Calls, CallRow)
            BY WithoutTable DEF TypeOK
        <3> QED
            BY <3>1, <3>2
    <2> QED
        BY <1>3, <2>1 DEF RefuseUnassigned, TypeOK
<1>4. ASSUME NEW c \in Calls, CommitUpsert(c) PROVE TypeOK'
    <2> DEFINE r == call[c].req
    <2> DEFINE now == call[c].now
    <2>1. c \in DOMAIN call
        BY <1>4 DEF CommitUpsert
    <2>2. r \in Requests /\ IsRequest(r) /\ now \in Time
        BY <2>1, CallOfRequest
    <2>3. IsTable(execution', Executions, ExecutionRow)
        <3>1. UpsertedExecution(r, now) \in ExecutionRow
            BY <2>2, UpsertedType
        <3>2. r.execution \in Executions
            BY <2>2 DEF IsRequest
        <3>3. execution' = Put(execution, r.execution, UpsertedExecution(r, now))
            BY <1>4 DEF CommitUpsert
        <3> QED
            BY <3>1, <3>2, <3>3, PutTable DEF TypeOK
    <2>4. IsTable(item', Items, ItemRow)
        BY <1>4, <2>2, UpsertedItemsType DEF CommitUpsert
    <2>5. IsTable(order', Orders, OrderRow)
        <3>1. order' = [order EXCEPT ![r.order].status = StatusAfter(r, now)]
            BY <1>4 DEF CommitUpsert, SetWorkOrderStatus
        <3>2. StatusAfter(r, now) \in Statuses
            BY StatusType
        <3>3. order \in [DOMAIN order -> OrderRow] /\ DOMAIN order \subseteq Orders
            BY DEF TypeOK, IsTable
        <3>4. order' \in [DOMAIN order -> OrderRow]
            BY <3>1, <3>2, <3>3 DEF OrderRow
        <3> QED
            BY <3>3, <3>4 DEF IsTable
    <2>6. IsTable(call', Calls, CallRow)
        <3>1. call' = Without(call, c)
            BY <1>4 DEF CommitUpsert
        <3>2. IsTable(Without(call, c), Calls, CallRow)
            BY WithoutTable DEF TypeOK
        <3> QED
            BY <3>1, <3>2
    <2> QED
        BY <1>4, <2>3, <2>4, <2>5, <2>6 DEF CommitUpsert, TypeOK
<1>5. ASSUME NEW c \in Calls, RollbackUpsert(c) PROVE TypeOK'
    <2>1. IsTable(call', Calls, CallRow)
        <3>1. call' = Without(call, c)
            BY <1>5 DEF RollbackUpsert
        <3>2. IsTable(Without(call, c), Calls, CallRow)
            BY WithoutTable DEF TypeOK
        <3> QED
            BY <3>1, <3>2
    <2> QED
        BY <1>5, <2>1 DEF RollbackUpsert, TypeOK
<1>6. ASSUME NEW b \in Batches, CreateOrders(b) PROVE TypeOK'
    <2>1. b.tenant \in Tenants /\ IsTable(b.rows, Orders, BatchRow)
        BY InputAssumption DEF IsBatch
    <2>2. ASSUME NEW o \in DOMAIN b.rows
          PROVE  InsertedOrder(b, o) \in OrderRow
        BY <2>1, <2>2 DEF InsertedOrder, IsTable, BatchRow, OrderRow, Statuses
    <2>3. IsTable(order', Orders, OrderRow)
        BY <1>6, <2>1, <2>2 DEF CreateOrders, TypeOK, IsTable
    <2> QED
        BY <1>6, <2>3 DEF CreateOrders, TypeOK
<1>7. ASSUME NEW p \in Patches, PatchOrder(p) PROVE TypeOK'
    <2> DEFINE row == order[p.order]
    <2>1. p \in Patch /\ p.order \in DOMAIN order
        BY <1>7, InputAssumption DEF PatchOrder
    <2>2. Coalesce(p.assignee, row.assignee) \in Workers \cup {NULL}
        BY <2>1 DEF Coalesce, Patch, TypeOK, IsTable, OrderRow
    <2>3. Coalesce(p.due, row.due) \in Nat
        BY <2>1 DEF Coalesce, Patch, TypeOK, IsTable, OrderRow
    <2>4. UpdatedOrder(p) \in OrderRow
        BY <2>1, <2>2, <2>3 DEF UpdatedOrder, TypeOK, IsTable, OrderRow
    <2>5. IsTable(order', Orders, OrderRow)
        BY <1>7, <2>1, <2>4 DEF PatchOrder, TypeOK, IsTable
    <2> QED
        BY <1>7, <2>5 DEF PatchOrder, TypeOK
<1>8. ASSUME NEW t \in Tenants, MarkTenantOverdueOrdersMissed(t) PROVE TypeOK'
    <2>1. IsTable(order', Orders, OrderRow)
        BY <1>8 DEF MarkTenantOverdueOrdersMissed, TypeOK, IsTable, OrderRow, Statuses
    <2> QED
        BY <1>8, <2>1 DEF MarkTenantOverdueOrdersMissed, TypeOK
<1>9. ASSUME NEW t \in Tenants, OpsSuspend(t) PROVE TypeOK'
    BY <1>9 DEF OpsSuspend, TypeOK, MaybeTime, Time
<1>10. ASSUME NEW t \in Tenants, OpsActivate(t) PROVE TypeOK'
    BY <1>10 DEF OpsActivate, TypeOK, MaybeTime
<1>11. CASE Tick
    BY <1>11 DEF Tick, TypeOK, Time
<1>12. CASE UNCHANGED vars
    BY <1>12 DEF vars, TypeOK
<1> QED
    BY <1>1, <1>2, <1>3, <1>4, <1>5, <1>6, <1>7, <1>8, <1>9, <1>10, <1>11, <1>12
       DEF Next, WorkerStep, StaffStep, TenantStep

\* Every table keeps its shape: whatever requests arrive, in any order.
THEOREM TypeCorrect == Spec => []TypeOK
<1> QED
    BY TypeInit, TypeStep, PTL DEF Spec

-----------------------------------------------------------------------------
(***************************************************************************)
(* The status column and the evidence rows                                 *)
(*                                                                         *)
(* Neither StatusMatchesEvidence nor ItemsMatchChecklist is inductive.  An *)
(* upload writes an order's status, so its order has to exist when it      *)
(* commits: it did when the row was locked, and while the lock is held no  *)
(* reassignment takes it away.  A new order starts without evidence only   *)
(* because no execution names an order that does not exist yet.            *)
(***************************************************************************)

LockedIsAssigned ==
    \A c \in DOMAIN call : call[c].pc = "locked" => Assigned(call[c].req)

EvidenceHasOrder ==
    \A e \in DOMAIN execution : execution[e].order \in DOMAIN order

IInv ==
    /\ TypeOK
    /\ LockedIsAssigned
    /\ EvidenceHasOrder
    /\ StatusMatchesEvidence
    /\ ItemsMatchChecklist

LEMMA IInvInit == Init => IInv
<1> SUFFICES ASSUME Init PROVE IInv
    OBVIOUS
<1>1. TypeOK
    BY TypeInit
<1>2. DOMAIN order = {} /\ DOMAIN execution = {} /\ DOMAIN item = {} /\ DOMAIN call = {}
    BY DEF Init, EmptyTable
<1> QED
    BY <1>1, <1>2 DEF IInv, LockedIsAssigned, EvidenceHasOrder, StatusMatchesEvidence,
        ItemsMatchChecklist

\* What a commit writes: one execution, bound to the order and the worker of
\* the request, the items of that execution, and that order's status.
LEMMA CommitFacts ==
    ASSUME TypeOK, TypeOK', LockedIsAssigned, NEW c \in Calls, CommitUpsert(c)
    PROVE  LET r == call[c].req
               e == r.execution
           IN  /\ r \in Requests /\ IsRequest(r)
               /\ Assigned(r) /\ Accepts(r)
               /\ DOMAIN execution' = DOMAIN execution \cup {e}
               /\ \A f \in DOMAIN execution : f # e => execution'[f] = execution[f]
               /\ execution'[e].order = r.order
               /\ execution'[e].worker = r.worker
               /\ execution'[e].tenant = TenantOf[r.worker]
               /\ e \in DOMAIN execution => execution[e].order = r.order
               /\ DOMAIN order' = DOMAIN order
               /\ \A o \in DOMAIN order : o # r.order => order'[o] = order[o]
               /\ \A o \in DOMAIN order :
                    /\ order'[o].tenant = order[o].tenant
                    /\ order'[o].version = order[o].version
                    /\ order'[o].assignee = order[o].assignee
               /\ order'[r.order].status =
                    IF execution'[e].deviceFinishedAt # NULL THEN "done" ELSE "in_progress"
<1> DEFINE r == call[c].req
<1> DEFINE now == call[c].now
<1> DEFINE e == r.execution
<1>1. c \in DOMAIN call /\ call[c].pc = "locked" /\ Accepts(r)
    BY DEF CommitUpsert
<1>2. r \in Requests /\ IsRequest(r)
    BY <1>1, CallOfRequest
<1>3. Assigned(r)
    BY <1>1 DEF LockedIsAssigned
<1>4. execution' = Put(execution, e, UpsertedExecution(r, now))
    BY DEF CommitUpsert
<1>5. /\ DOMAIN execution' = DOMAIN execution \cup {e}
      /\ execution'[e] = UpsertedExecution(r, now)
      /\ \A f \in DOMAIN execution : f # e => execution'[f] = execution[f]
    BY <1>4 DEF Put
<1>6. /\ execution'[e].tenant = TenantOf[r.worker]
      /\ execution'[e].worker = r.worker
      /\ execution'[e].order = r.order
      /\ e \in DOMAIN execution => execution[e].order = r.order
    <2>1. CASE e \in DOMAIN execution
        <3>1. /\ execution[e].tenant = TenantOf[r.worker]
              /\ execution[e].worker = r.worker
              /\ execution[e].order = r.order
            BY <1>1, <2>1 DEF Accepts, OwnsExecution, GetExecution
        <3>2. execution[e] \in ExecutionRow
            BY <2>1 DEF TypeOK, IsTable
        <3>3. /\ UpsertedExecution(r, now).tenant = execution[e].tenant
              /\ UpsertedExecution(r, now).worker = execution[e].worker
              /\ UpsertedExecution(r, now).order = execution[e].order
            BY <2>1, <3>2 DEF UpsertedExecution, ExecutionRow
        <3> QED
            BY <1>5, <3>1, <3>3
    <2>2. CASE e \notin DOMAIN execution
        BY <1>5, <2>2 DEF UpsertedExecution
    <2> QED
        BY <2>1, <2>2
<1>7. order' = [order EXCEPT ![r.order].status = StatusAfter(r, now)]
    BY DEF CommitUpsert, SetWorkOrderStatus
<1>8. /\ DOMAIN order' = DOMAIN order
      /\ \A o \in DOMAIN order : o # r.order => order'[o] = order[o]
      /\ \A o \in DOMAIN order :
            /\ order'[o].tenant = order[o].tenant
            /\ order'[o].version = order[o].version
            /\ order'[o].assignee = order[o].assignee
      /\ order'[r.order].status = StatusAfter(r, now)
    BY <1>3, <1>7 DEF TypeOK, IsTable, OrderRow, Assigned
<1>9. StatusAfter(r, now) =
          IF execution'[e].deviceFinishedAt # NULL THEN "done" ELSE "in_progress"
    BY <1>5 DEF StatusAfter
<1> QED
    BY <1>1, <1>2, <1>3, <1>5, <1>6, <1>8, <1>9

\* A commit keeps the invariant: the status it writes is that of the execution
\* it writes, and the evidence of every other order is as it was.
LEMMA CommitKeepsIInv ==
    ASSUME IInv, TypeOK', NEW c \in Calls, CommitUpsert(c)
    PROVE  IInv'
<1> DEFINE r == call[c].req
<1> DEFINE e == r.execution
<1> USE DEF IInv
<1>1. /\ r \in Requests /\ IsRequest(r)
      /\ Assigned(r) /\ Accepts(r)
    BY CommitFacts
<1>2. /\ DOMAIN execution' = DOMAIN execution \cup {e}
      /\ \A f \in DOMAIN execution : f # e => execution'[f] = execution[f]
      /\ execution'[e].order = r.order
      /\ execution'[e].worker = r.worker
      /\ execution'[e].tenant = TenantOf[r.worker]
      /\ e \in DOMAIN execution => execution[e].order = r.order
    BY CommitFacts
<1>3. /\ DOMAIN order' = DOMAIN order
      /\ \A o \in DOMAIN order : o # r.order => order'[o] = order[o]
      /\ \A o \in DOMAIN order :
            /\ order'[o].tenant = order[o].tenant
            /\ order'[o].version = order[o].version
            /\ order'[o].assignee = order[o].assignee
      /\ order'[r.order].status =
            IF execution'[e].deviceFinishedAt # NULL THEN "done" ELSE "in_progress"
    BY CommitFacts
<1>4. /\ r.order \in DOMAIN order
      /\ order[r.order].tenant = TenantOf[r.worker]
    BY <1>1 DEF Assigned
<1>5. LockedIsAssigned'
    <2>1. /\ DOMAIN call' = DOMAIN call \ {c}
          /\ \A d \in DOMAIN call' : call'[d] = call[d]
        <3>1. call' = Without(call, c)
            BY DEF CommitUpsert
        <3>2. /\ DOMAIN Without(call, c) = DOMAIN call \ {c}
              /\ \A d \in DOMAIN call \ {c} : Without(call, c)[d] = call[d]
            BY WithoutRows
        <3> QED
            BY <3>1, <3>2
    <2> QED
        BY <1>3, <2>1 DEF LockedIsAssigned, Assigned
<1>6. EvidenceHasOrder'
    BY <1>2, <1>3, <1>4 DEF EvidenceHasOrder
<1>7. StatusMatchesEvidence'
    <2> SUFFICES ASSUME NEW o \in DOMAIN order
                 PROVE  (/\ order[o].status \in {"scheduled", "missed"} <=> EvidenceOf(o) = {}
                         /\ order[o].status = "in_progress" =>
                              \E f \in EvidenceOf(o) : execution[f].deviceFinishedAt = NULL
                         /\ order[o].status = "done" =>
                              \E f \in EvidenceOf(o) : execution[f].deviceFinishedAt # NULL)'
        BY <1>3 DEF StatusMatchesEvidence
    <2>1. CASE o = r.order
        <3>1. e \in EvidenceOf(o)'
            BY <1>2, <2>1 DEF EvidenceOf
        <3> QED
            BY <1>3, <2>1, <3>1
    <2>2. CASE o # r.order
        <3>1. EvidenceOf(o)' = EvidenceOf(o)
            BY <1>2, <2>2 DEF EvidenceOf
        <3>2. \A f \in EvidenceOf(o) : execution'[f] = execution[f]
            BY <1>2, <2>2 DEF EvidenceOf
        <3>3. order'[o] = order[o]
            BY <1>3, <2>2
        <3> QED
            BY <3>1, <3>2, <3>3 DEF StatusMatchesEvidence
    <2> QED
        BY <2>1, <2>2
<1>8. ItemsMatchChecklist'
    <2> SUFFICES ASSUME NEW i \in DOMAIN item'
                 PROVE  (/\ item[i].execution \in DOMAIN execution
                         /\ execution[item[i].execution].order \in DOMAIN order
                         /\ order[execution[item[i].execution].order].tenant
                              = execution[item[i].execution].tenant
                         /\ VersionOf[item[i].template]
                              = order[execution[item[i].execution].order].version)'
        BY DEF ItemsMatchChecklist
    <2>1. item' = UpsertedItems(r)
        BY DEF CommitUpsert
    <2>2. CASE i \in DOMAIN item
        <3>1. /\ item'[i].execution = item[i].execution
              /\ item'[i].template = item[i].template
            BY <2>1, <2>2 DEF UpsertedItems, TypeOK, IsTable, ItemRow
        <3> DEFINE f == item[i].execution
        <3>2. /\ f \in DOMAIN execution
              /\ execution[f].order \in DOMAIN order
              /\ order[execution[f].order].tenant = execution[f].tenant
              /\ VersionOf[item[i].template] = order[execution[f].order].version
            BY <2>2 DEF ItemsMatchChecklist
        <3>3. /\ execution'[f].order = execution[f].order
              /\ execution'[f].tenant = execution[f].tenant
            BY <1>1, <1>2, <3>2 DEF Accepts, OwnsExecution, GetExecution
        <3> QED
            BY <1>2, <1>3, <3>1, <3>2, <3>3
    <2>3. CASE i \notin DOMAIN item
        <3>1. i \in DOMAIN r.items /\ item'[i].execution = e
                /\ item'[i].template = r.items[i].template
            BY <2>1, <2>3 DEF UpsertedItems
        <3>2. VersionOf[r.items[i].template] = order[r.order].version
            BY <1>1, <3>1 DEF Accepts, ItemsAllowed, ItemsOfVersion
        <3>3. e \in DOMAIN execution' /\ execution'[e].order = r.order
                /\ execution'[e].tenant = TenantOf[r.worker]
            BY <1>2
        <3>4. r.order \in DOMAIN order' /\ order'[r.order].tenant = order[r.order].tenant
                /\ order'[r.order].version = order[r.order].version
            BY <1>3, <1>4
        <3> QED
            BY <1>4, <3>1, <3>2, <3>3, <3>4
    <2> QED
        BY <2>2, <2>3
<1> QED
    BY <1>5, <1>6, <1>7, <1>8

\* So do the staff's and the scheduler's steps: they leave the evidence alone,
\* and an order changes hands only while no upload holds its row.
LEMMA OrderStepKeepsIInv ==
    ASSUME IInv, TypeOK', UNCHANGED <<execution, item, call>>,
           DOMAIN order \subseteq DOMAIN order',
           \A o \in DOMAIN order :
                /\ order'[o].tenant = order[o].tenant
                /\ order'[o].version = order[o].version
                /\ order'[o].assignee = order[o].assignee \/ ~Locked(o)
                /\ \/ order'[o].status = order[o].status
                   \/ order[o].status = "scheduled" /\ order'[o].status = "missed",
           \A o \in DOMAIN order' \ DOMAIN order : order'[o].status = "scheduled"
    PROVE  IInv'
<1> USE DEF IInv
<1>1. LockedIsAssigned'
    <2> SUFFICES ASSUME NEW c \in DOMAIN call, call[c].pc = "locked"
                 PROVE  Assigned(call[c].req)'
        BY DEF LockedIsAssigned
    <2>1. Assigned(call[c].req) /\ Locked(call[c].req.order)
        BY DEF LockedIsAssigned, Locked
    <2> QED
        BY <2>1 DEF Assigned
<1>2. EvidenceHasOrder'
    BY DEF EvidenceHasOrder
<1>3. StatusMatchesEvidence'
    <2> SUFFICES ASSUME NEW o \in DOMAIN order'
                 PROVE  (/\ order[o].status \in {"scheduled", "missed"} <=> EvidenceOf(o) = {}
                         /\ order[o].status = "in_progress" =>
                              \E f \in EvidenceOf(o) : execution[f].deviceFinishedAt = NULL
                         /\ order[o].status = "done" =>
                              \E f \in EvidenceOf(o) : execution[f].deviceFinishedAt # NULL)'
        BY DEF StatusMatchesEvidence
    <2>1. EvidenceOf(o)' = EvidenceOf(o)
        BY DEF EvidenceOf
    <2>2. CASE o \in DOMAIN order
        BY <2>1, <2>2 DEF StatusMatchesEvidence
    <2>3. CASE o \notin DOMAIN order
        <3>1. EvidenceOf(o) = {}
            BY <2>3 DEF EvidenceOf, EvidenceHasOrder
        <3> QED
            BY <2>1, <2>3, <3>1
    <2> QED
        BY <2>2, <2>3
<1>4. ItemsMatchChecklist'
    BY DEF ItemsMatchChecklist
<1> QED
    BY <1>1, <1>2, <1>3, <1>4

\* Steps of a call that write no table.
LEMMA CallStepKeepsIInv ==
    ASSUME IInv, TypeOK', UNCHANGED tables,
           \A c \in DOMAIN call' : call'[c].pc = "locked" => Assigned(call'[c].req)
    PROVE  IInv'
<1>1. LockedIsAssigned'
    BY DEF LockedIsAssigned, Assigned, tables
<1>2. EvidenceHasOrder' /\ ItemsMatchChecklist'
    BY DEF IInv, EvidenceHasOrder, ItemsMatchChecklist, tables
<1>3. StatusMatchesEvidence'
    BY DEF IInv, StatusMatchesEvidence, EvidenceOf, tables
<1> QED
    BY <1>1, <1>2, <1>3 DEF IInv

LEMMA IInvStep == IInv /\ [Next]_vars => IInv'
<1> SUFFICES ASSUME IInv, [Next]_vars PROVE IInv'
    OBVIOUS
<1>0. TypeOK /\ TypeOK' /\ LockedIsAssigned
    BY TypeStep DEF IInv
<1>1. ASSUME NEW c \in Calls, NEW r \in Requests, BeginUpsert(c, r) PROVE IInv'
    <2>1. \A d \in DOMAIN call' : call'[d].pc = "locked" => d \in DOMAIN call /\ call'[d] = call[d]
        BY <1>1 DEF BeginUpsert, Put
    <2>2. \A d \in DOMAIN call' : call'[d].pc = "locked" => Assigned(call'[d].req)
        BY <1>0, <2>1 DEF LockedIsAssigned
    <2> QED
        BY <1>0, <1>1, <2>2, CallStepKeepsIInv DEF BeginUpsert
<1>2. ASSUME NEW c \in Calls, GetWorkOrderForWorker(c) PROVE IInv'
    <2>1. /\ c \in DOMAIN call /\ Assigned(call[c].req)
          /\ call' = [call EXCEPT ![c].pc = "locked"]
        BY <1>2 DEF GetWorkOrderForWorker
    <2>2. /\ DOMAIN call' = DOMAIN call
          /\ call'[c].req = call[c].req
          /\ \A d \in DOMAIN call : d # c => call'[d] = call[d]
        BY <1>0, <2>1 DEF TypeOK, IsTable, CallRow
    <2>3. \A d \in DOMAIN call' : call'[d].pc = "locked" => Assigned(call'[d].req)
        BY <1>0, <2>1, <2>2 DEF LockedIsAssigned
    <2> QED
        BY <1>0, <1>2, <2>3, CallStepKeepsIInv DEF GetWorkOrderForWorker
<1>3. ASSUME NEW c \in Calls, RefuseUnassigned(c) \/ RollbackUpsert(c) PROVE IInv'
    <2>1. call' = Without(call, c) /\ UNCHANGED tables
        BY <1>3 DEF RefuseUnassigned, RollbackUpsert
    <2>2. \A d \in DOMAIN call' : d \in DOMAIN call /\ call'[d] = call[d]
        <3>1. /\ DOMAIN Without(call, c) = DOMAIN call \ {c}
              /\ \A d \in DOMAIN call \ {c} : Without(call, c)[d] = call[d]
            BY WithoutRows
        <3> QED
            BY <2>1, <3>1
    <2> QED
        BY <1>0, <2>1, <2>2, CallStepKeepsIInv DEF LockedIsAssigned
<1>4. ASSUME NEW c \in Calls, CommitUpsert(c) PROVE IInv'
    BY <1>0, <1>4, CommitKeepsIInv
<1>5. ASSUME NEW b \in Batches, CreateOrders(b) PROVE IInv'
    <2>1. /\ DOMAIN order' = DOMAIN order \cup DOMAIN b.rows
          /\ \A o \in DOMAIN order : order'[o] = order[o]
          /\ \A o \in DOMAIN order' \ DOMAIN order : order'[o].status = "scheduled"
        BY <1>5 DEF CreateOrders, InsertedOrder
    <2>2. UNCHANGED <<execution, item, call>>
        BY <1>5 DEF CreateOrders
    <2> QED
        BY <1>0, <2>1, <2>2, OrderStepKeepsIInv
<1>6. ASSUME NEW p \in Patches, PatchOrder(p) PROVE IInv'
    <2>1. /\ DOMAIN order' = DOMAIN order
          /\ \A o \in DOMAIN order : o # p.order => order'[o] = order[o]
          /\ order'[p.order].tenant = order[p.order].tenant
          /\ order'[p.order].version = order[p.order].version
          /\ order'[p.order].status = order[p.order].status
          /\ ~Locked(p.order)
        <3>1. order' = [order EXCEPT ![p.order] = UpdatedOrder(p)]
            BY <1>6 DEF PatchOrder
        <3>2. order[p.order] \in OrderRow /\ p.order \in DOMAIN order
            BY <1>0, <1>6 DEF PatchOrder, TypeOK, IsTable
        <3>3. /\ UpdatedOrder(p).tenant = order[p.order].tenant
              /\ UpdatedOrder(p).version = order[p.order].version
              /\ UpdatedOrder(p).status = order[p.order].status
            BY <3>2 DEF UpdatedOrder, OrderRow
        <3> QED
            BY <1>6, <3>1, <3>2, <3>3 DEF PatchOrder
    <2>2. \A o \in DOMAIN order :
                /\ order'[o].tenant = order[o].tenant
                /\ order'[o].version = order[o].version
                /\ order'[o].assignee = order[o].assignee \/ ~Locked(o)
                /\ order'[o].status = order[o].status
        BY <2>1
    <2> QED
        BY <1>0, <1>6, <2>1, <2>2, OrderStepKeepsIInv DEF PatchOrder
<1>7. ASSUME NEW t \in Tenants, MarkTenantOverdueOrdersMissed(t) PROVE IInv'
    <2>1. DOMAIN order' = DOMAIN order
        BY <1>7 DEF MarkTenantOverdueOrdersMissed
    <2>2. ASSUME NEW o \in DOMAIN order
          PROVE  /\ order'[o].tenant = order[o].tenant
                 /\ order'[o].version = order[o].version
                 /\ order'[o].assignee = order[o].assignee
                 /\ \/ order'[o].status = order[o].status
                    \/ order[o].status = "scheduled" /\ order'[o].status = "missed"
        <3>1. order[o] \in OrderRow
            BY <1>0 DEF TypeOK, IsTable
        <3>2. order'[o] = IF o \in Overdue(t) THEN [order[o] EXCEPT !.status = "missed"]
                          ELSE order[o]
            BY <1>7 DEF MarkTenantOverdueOrdersMissed
        <3>3. o \in Overdue(t) => order[o].status = "scheduled"
            BY DEF Overdue, IsOverdue
        <3> QED
            BY <3>1, <3>2, <3>3 DEF OrderRow
    <2> QED
        BY <1>0, <1>7, <2>1, <2>2, OrderStepKeepsIInv DEF MarkTenantOverdueOrdersMissed
<1>8. ASSUME UNCHANGED <<tables, call>> PROVE IInv'
    BY <1>0, <1>8, CallStepKeepsIInv DEF LockedIsAssigned
<1>9. ASSUME NEW t \in Tenants, OpsSuspend(t) \/ OpsActivate(t) PROVE IInv'
    BY <1>8, <1>9 DEF OpsSuspend, OpsActivate
<1>10. CASE Tick
    BY <1>8, <1>10 DEF Tick
<1>11. CASE UNCHANGED vars
    BY <1>8, <1>11 DEF vars, tables
<1> QED
    BY <1>1, <1>2, <1>3, <1>4, <1>5, <1>6, <1>7, <1>9, <1>10, <1>11
       DEF Next, WorkerStep, StaffStep, TenantStep

LEMMA Inductive == Spec => []IInv
<1> QED
    BY IInvInit, IInvStep, PTL DEF Spec

\* The status column summarises the evidence rows in every reachable state, for
\* any number of uploads, reassignments and sweeps in flight at once.
THEOREM StatusIsFaithful == Spec => []StatusMatchesEvidence
<1>1. IInv => StatusMatchesEvidence
    BY DEF IInv
<1> QED
    BY <1>1, Inductive, PTL

\* Every item row belongs to an execution of an order of its own tenant, and to
\* the checklist version the order was created with.
THEOREM ItemsAreOfTheChecklist == Spec => []ItemsMatchChecklist
<1>1. IInv => ItemsMatchChecklist
    BY DEF IInv
<1> QED
    BY <1>1, Inductive, PTL

-----------------------------------------------------------------------------
(***************************************************************************)
(* What one step may do to the evidence                                    *)
(***************************************************************************)

\* Only a commit writes evidence.
LEMMA OnlyCommitsWrite ==
    ASSUME [Next]_vars
    PROVE  \/ \E c \in Calls : CommitUpsert(c)
           \/ UNCHANGED <<execution, item>>
    BY DEF Next, WorkerStep, StaffStep, TenantStep, BeginUpsert, GetWorkOrderForWorker,
        RefuseUnassigned, RollbackUpsert, CreateOrders, PatchOrder,
        MarkTenantOverdueOrdersMissed, OpsSuspend, OpsActivate, Tick, vars, tables

\* An item keeps its execution and its template as long as it exists.
LEMMA CommitKeepsItems ==
    ASSUME TypeOK, NEW c \in Calls, CommitUpsert(c)
    PROVE  /\ \A i \in DOMAIN item \cap DOMAIN item' :
                /\ item'[i].execution = item[i].execution
                /\ item'[i].template = item[i].template
           /\ \A i \in DOMAIN item : item[i].execution # call[c].req.execution =>
                i \in DOMAIN item' /\ item'[i] = item[i]
           /\ \A i \in DOMAIN item' \ DOMAIN item :
                item'[i].execution = call[c].req.execution
<1> DEFINE r == call[c].req
<1>1. item' = UpsertedItems(r) /\ ItemsOwned(r)
    BY DEF CommitUpsert, Accepts
<1>2. ASSUME NEW i \in DOMAIN item \cap DOMAIN item'
      PROVE  item'[i].execution = item[i].execution /\ item'[i].template = item[i].template
    <2>1. item[i] \in ItemRow
        BY DEF TypeOK, IsTable
    <2> QED
        BY <1>1, <2>1 DEF UpsertedItems, ItemRow
<1>3. ASSUME NEW i \in DOMAIN item, item[i].execution # r.execution
      PROVE  i \in DOMAIN item' /\ item'[i] = item[i]
    <2>1. i \notin DOMAIN r.items /\ i \notin PrunedItems(r)
        BY <1>1, <1>3 DEF ItemsOwned, PrunedItems
    <2> QED
        BY <1>1, <2>1 DEF UpsertedItems
<1>4. ASSUME NEW i \in DOMAIN item' \ DOMAIN item
      PROVE  item'[i].execution = r.execution
    BY <1>1 DEF UpsertedItems
<1> QED
    BY <1>2, <1>3, <1>4

LEMMA CommitTouchesOne ==
    ASSUME IInv, TypeOK', NEW c \in Calls, CommitUpsert(c)
    PROVE  Touched \subseteq {call[c].req.execution}
<1> DEFINE e == call[c].req.execution
<1> SUFFICES ASSUME NEW f \in Touched, f # e PROVE FALSE
    OBVIOUS
<1>1. f \in DOMAIN execution /\ execution'[f] = execution[f]
    BY CommitFacts DEF IInv, Touched
<1>2. ItemsOf(f)' = ItemsOf(f)
    <2>1. ASSUME NEW i \in ItemsOf(f) PROVE i \in ItemsOf(f)'
        BY <2>1, CommitKeepsItems DEF ItemsOf, IInv
    <2>2. ASSUME NEW i \in ItemsOf(f)' PROVE i \in ItemsOf(f)
        BY <2>2, CommitKeepsItems DEF ItemsOf, IInv
    <2> QED
        BY <2>1, <2>2
<1>3. \A i \in ItemsOf(f) : item'[i] = item[i]
    BY CommitKeepsItems DEF ItemsOf, IInv
<1> QED
    BY <1>1, <1>2, <1>3 DEF Touched

LEMMA NothingTouched ==
    ASSUME UNCHANGED <<execution, item>>
    PROVE  Touched = {}
    BY DEF Touched, ItemsOf

\* No upload ever writes evidence for an order that is, at that very moment,
\* assigned to somebody else.
THEOREM WritesAreOfTheAssignee == Spec => OnlyAssigneeWrites
<1> DEFINE Writes ==
        \A e \in Touched :
            /\ execution'[e].order \in DOMAIN order
            /\ order[execution'[e].order].assignee = execution'[e].worker
<1>1. IInv /\ IInv' /\ [Next]_vars => [Writes]_vars
    <2> SUFFICES ASSUME IInv, IInv', [Next]_vars PROVE Writes
        OBVIOUS
    <2>1. ASSUME NEW c \in Calls, CommitUpsert(c) PROVE Writes
        <3> DEFINE r == call[c].req
        <3>1. Touched \subseteq {r.execution}
            BY <2>1, CommitTouchesOne DEF IInv
        <3>2. /\ Assigned(r)
              /\ execution'[r.execution].order = r.order
              /\ execution'[r.execution].worker = r.worker
            BY <2>1, CommitFacts DEF IInv
        <3> QED
            BY <3>1, <3>2 DEF Assigned
    <2>2. CASE UNCHANGED <<execution, item>>
        BY <2>2, NothingTouched
    <2> QED
        BY <2>1, <2>2, OnlyCommitsWrite
<1> QED
    BY <1>1, Inductive, PTL DEF Spec, OnlyAssigneeWrites

\* No step reaches into two executions, and no item changes hands.
THEOREM EvidenceIsApart == Spec => EvidenceStaysApart
<1> DEFINE Apart ==
        /\ \A e, f \in Touched : e = f
        /\ \A i \in DOMAIN item \cap DOMAIN item' :
            /\ item'[i].execution = item[i].execution
            /\ item'[i].template = item[i].template
<1>1. IInv /\ IInv' /\ [Next]_vars => [Apart]_vars
    <2> SUFFICES ASSUME IInv, IInv', [Next]_vars PROVE Apart
        OBVIOUS
    <2>1. ASSUME NEW c \in Calls, CommitUpsert(c) PROVE Apart
        BY <2>1, CommitTouchesOne, CommitKeepsItems DEF IInv
    <2>2. CASE UNCHANGED <<execution, item>>
        BY <2>2, NothingTouched
    <2> QED
        BY <2>1, <2>2, OnlyCommitsWrite
<1> QED
    BY <1>1, Inductive, PTL DEF Spec, EvidenceStaysApart

\* CompletionIsPermanent needs to know that a stored completion has its receipt
\* time: a missing one would be stamped by the next snapshot.
CompletionHasReceipt ==
    \A e \in DOMAIN execution :
        execution[e].deviceFinishedAt # NULL => execution[e].finishedAt # NULL

\* What an upsert makes of the two times of a row.
LEMMA UpsertedTimes ==
    ASSUME TypeOK, NEW r \in Requests, NEW now \in Time
    PROVE  LET new == UpsertedExecution(r, now)
               old == execution[r.execution]
           IN  /\ r.execution \in DOMAIN execution =>
                    /\ new.deviceFinishedAt = Coalesce(old.deviceFinishedAt, r.deviceFinishedAt)
                    /\ new.finishedAt =
                        Coalesce(old.finishedAt, IF r.deviceFinishedAt = NULL THEN NULL ELSE now)
               /\ r.execution \notin DOMAIN execution =>
                    /\ new.deviceFinishedAt = r.deviceFinishedAt
                    /\ new.finishedAt = IF r.deviceFinishedAt = NULL THEN NULL ELSE now
<1>1. CASE r.execution \in DOMAIN execution
    <2>1. execution[r.execution] \in ExecutionRow
        BY <1>1 DEF TypeOK, IsTable
    <2> QED
        BY <1>1, <2>1 DEF UpsertedExecution, ExecutionRow
<1>2. CASE r.execution \notin DOMAIN execution
    BY <1>2 DEF UpsertedExecution
<1> QED
    BY <1>1, <1>2

LEMMA CommitKeepsReceipt ==
    ASSUME IInv, CompletionHasReceipt, NEW c \in Calls, CommitUpsert(c)
    PROVE  CompletionHasReceipt'
<1> DEFINE r == call[c].req
<1> DEFINE now == call[c].now
<1>1. r \in Requests /\ now \in Time /\ now # NULL
    BY CallOfRequest, NullAssumption DEF CommitUpsert, IInv, Time
<1>2. /\ DOMAIN execution' = DOMAIN execution \cup {r.execution}
      /\ execution'[r.execution] = UpsertedExecution(r, now)
      /\ \A f \in DOMAIN execution : f # r.execution => execution'[f] = execution[f]
    BY DEF CommitUpsert, Put
<1>3. LET new == UpsertedExecution(r, now)
      IN  new.deviceFinishedAt # NULL => new.finishedAt # NULL
    BY <1>1, UpsertedTimes DEF CompletionHasReceipt, Coalesce, IInv
<1> QED
    BY <1>2, <1>3 DEF CompletionHasReceipt

LEMMA ReceiptAlways == Spec => []CompletionHasReceipt
<1>1. Init => CompletionHasReceipt
    BY DEF Init, EmptyTable, CompletionHasReceipt
<1>2. IInv /\ CompletionHasReceipt /\ [Next]_vars => CompletionHasReceipt'
    <2> SUFFICES ASSUME IInv, CompletionHasReceipt, [Next]_vars PROVE CompletionHasReceipt'
        OBVIOUS
    <2>1. CASE UNCHANGED <<execution, item>>
        BY <2>1 DEF CompletionHasReceipt
    <2> QED
        BY <2>1, OnlyCommitsWrite, CommitKeepsReceipt
<1> QED
    BY <1>1, <1>2, Inductive, PTL DEF Spec

\* What a step leaves of the executions there were.
EvidenceKept ==
    \A e \in DOMAIN execution :
        /\ e \in DOMAIN execution'
        /\ execution'[e].tenant = execution[e].tenant
        /\ execution'[e].worker = execution[e].worker
        /\ execution'[e].order = execution[e].order
        /\ execution[e].deviceFinishedAt # NULL =>
            /\ execution'[e].deviceFinishedAt = execution[e].deviceFinishedAt
            /\ execution'[e].finishedAt = execution[e].finishedAt

LEMMA EvidenceStands ==
    ASSUME IInv, IInv', CompletionHasReceipt, [Next]_vars
    PROVE  EvidenceKept
<1>1. ASSUME NEW c \in Calls, CommitUpsert(c) PROVE EvidenceKept
    <2> DEFINE r == call[c].req
    <2> DEFINE now == call[c].now
    <2>1. r \in Requests /\ now \in Time
        BY <1>1, CallOfRequest DEF CommitUpsert, IInv
    <2>2. /\ DOMAIN execution' = DOMAIN execution \cup {r.execution}
          /\ execution'[r.execution] = UpsertedExecution(r, now)
          /\ \A f \in DOMAIN execution : f # r.execution => execution'[f] = execution[f]
        BY <1>1 DEF CommitUpsert, Put
    <2>3. r.execution \in DOMAIN execution =>
            /\ execution[r.execution].tenant = TenantOf[r.worker]
            /\ execution[r.execution].worker = r.worker
            /\ execution[r.execution].order = r.order
        BY <1>1 DEF CommitUpsert, Accepts, OwnsExecution, GetExecution
    <2>4. /\ execution'[r.execution].tenant = TenantOf[r.worker]
          /\ execution'[r.execution].worker = r.worker
          /\ execution'[r.execution].order = r.order
        BY <1>1, CommitFacts DEF IInv
    <2>5. r.execution \in DOMAIN execution /\ execution[r.execution].deviceFinishedAt # NULL =>
            /\ execution'[r.execution].deviceFinishedAt = execution[r.execution].deviceFinishedAt
            /\ execution'[r.execution].finishedAt = execution[r.execution].finishedAt
        BY <2>1, <2>2, UpsertedTimes DEF CompletionHasReceipt, Coalesce, IInv
    <2> QED
        BY <2>2, <2>3, <2>4, <2>5 DEF EvidenceKept
<1>2. CASE UNCHANGED <<execution, item>>
    BY <1>2 DEF EvidenceKept
<1> QED
    BY <1>1, <1>2, OnlyCommitsWrite

\* A stored completion survives every later snapshot, and no execution changes
\* hands.
THEOREM CompletionSurvives == Spec => CompletionIsPermanent
<1>1. IInv /\ IInv' /\ CompletionHasReceipt /\ [Next]_vars => [EvidenceKept]_vars
    BY EvidenceStands
<1> QED
    BY <1>1, Inductive, ReceiptAlways, PTL DEF Spec, CompletionIsPermanent, EvidenceKept

\* A call that passed the gate of a suspended tenant carries a completion.
GatedCallsAreComplete ==
    \A c \in DOMAIN call : call[c].suspended => call[c].req.deviceFinishedAt # NULL

LEMMA GatedStep ==
    ASSUME TypeOK, GatedCallsAreComplete, [Next]_vars
    PROVE  GatedCallsAreComplete'
<1>1. ASSUME NEW c \in Calls, NEW r \in Requests, BeginUpsert(c, r)
      PROVE  GatedCallsAreComplete'
    BY <1>1 DEF BeginUpsert, EvidenceSuspensionGate, GatedCallsAreComplete, Put
<1>2. ASSUME NEW c \in Calls, GetWorkOrderForWorker(c) PROVE GatedCallsAreComplete'
    <2>1. \A d \in DOMAIN call : call[d] \in CallRow
        BY DEF TypeOK, IsTable
    <2>2. /\ DOMAIN call' = DOMAIN call
          /\ \A d \in DOMAIN call : /\ call'[d].req = call[d].req
                                    /\ call'[d].suspended = call[d].suspended
        BY <1>2, <2>1 DEF GetWorkOrderForWorker, CallRow
    <2> QED
        BY <2>2 DEF GatedCallsAreComplete
<1>3. ASSUME NEW c \in Calls, call' = Without(call, c) PROVE GatedCallsAreComplete'
    BY <1>3 DEF Without, Restrict, GatedCallsAreComplete
<1>4. CASE UNCHANGED call
    BY <1>4 DEF GatedCallsAreComplete
<1> QED
    BY <1>1, <1>2, <1>3, <1>4 DEF Next, WorkerStep, StaffStep, TenantStep, RefuseUnassigned,
        CommitUpsert, RollbackUpsert, CreateOrders, PatchOrder,
        MarkTenantOverdueOrdersMissed, OpsSuspend, OpsActivate, Tick, vars

\* An unfinished execution of a suspended tenant is only ever written by a call
\* that the gate let in before the suspension.
THEOREM OpenWorkIsOlder == Spec => OpenWorkPrecedesSuspension
<1> DEFINE Older ==
        \A e \in Touched :
            (/\ suspendedAt[execution'[e].tenant] # NULL
             /\ execution'[e].deviceFinishedAt = NULL)
                => \E c \in DOMAIN call : /\ call[c].req.execution = e
                                         /\ ~call[c].suspended
<1>1. Init => GatedCallsAreComplete
    BY DEF Init, EmptyTable, GatedCallsAreComplete
<1>2. IInv /\ IInv' /\ GatedCallsAreComplete /\ [Next]_vars => [Older]_vars
    <2> SUFFICES ASSUME IInv, IInv', GatedCallsAreComplete, [Next]_vars PROVE Older
        OBVIOUS
    <2>1. ASSUME NEW c \in Calls, CommitUpsert(c) PROVE Older
        <3> DEFINE r == call[c].req
        <3>1. c \in DOMAIN call /\ Touched \subseteq {r.execution}
            BY <2>1, CommitTouchesOne DEF IInv, CommitUpsert
        <3>2. r \in Requests /\ call[c].now \in Time
            BY <3>1, CallOfRequest DEF IInv
        <3>3. execution'[r.execution] = UpsertedExecution(r, call[c].now)
            BY <2>1 DEF CommitUpsert, Put
        <3>4. r.deviceFinishedAt # NULL => execution'[r.execution].deviceFinishedAt # NULL
            BY <3>2, <3>3, UpsertedTimes DEF Coalesce, IInv
        <3>5. execution'[r.execution].deviceFinishedAt = NULL => ~call[c].suspended
            BY <3>1, <3>4 DEF GatedCallsAreComplete
        <3> QED
            BY <3>1, <3>5
    <2>2. CASE UNCHANGED <<execution, item>>
        BY <2>2, NothingTouched
    <2> QED
        BY <2>1, <2>2, OnlyCommitsWrite
<1>3. IInv /\ GatedCallsAreComplete /\ [Next]_vars => GatedCallsAreComplete'
    BY GatedStep DEF IInv
<1> QED
    BY <1>1, <1>2, <1>3, Inductive, PTL DEF Spec, OpenWorkPrecedesSuspension

\* What a snapshot makes of a row that it has just written is that row.
LEMMA UpsertIdempotent ==
    ASSUME TypeOK, TypeOK', NEW c \in Calls, CommitUpsert(c),
           NEW r \in Requests, r = call[c].req, NEW later \in Time
    PROVE  UpsertedExecution(r, later)' = execution'[r.execution]
<1> DEFINE e == r.execution
<1> DEFINE now == call[c].now
<1> DEFINE new == execution'[e]
<1>1. c \in DOMAIN call /\ now \in Time /\ now # NULL
    BY CallOfRequest, NullAssumption DEF CommitUpsert, Time
<1>2. e \in DOMAIN execution' /\ new = UpsertedExecution(r, now)
    BY DEF CommitUpsert, Put
<1>3. new \in ExecutionRow
    BY <1>2 DEF TypeOK, IsTable
<1>4. new.note = r.note
    <2>1. CASE e \in DOMAIN execution
        <3>1. execution[e] \in ExecutionRow
            BY <2>1 DEF TypeOK, IsTable
        <3> QED
            BY <1>2, <2>1, <3>1 DEF UpsertedExecution, ExecutionRow
    <2>2. CASE e \notin DOMAIN execution
        BY <1>2, <2>2 DEF UpsertedExecution
    <2> QED
        BY <2>1, <2>2
<1>5. Coalesce(new.deviceFinishedAt, r.deviceFinishedAt) = new.deviceFinishedAt
    BY <1>1, <1>2, UpsertedTimes DEF Coalesce
<1>6. Coalesce(new.finishedAt, IF r.deviceFinishedAt = NULL THEN NULL ELSE later)
        = new.finishedAt
    BY <1>1, <1>2, UpsertedTimes DEF Coalesce
<1>7. UpsertedExecution(r, later)' =
        [new EXCEPT !.note = r.note,
                    !.deviceFinishedAt = Coalesce(new.deviceFinishedAt, r.deviceFinishedAt),
                    !.finishedAt = Coalesce(new.finishedAt,
                        IF r.deviceFinishedAt = NULL THEN NULL ELSE later)]
    BY <1>2 DEF UpsertedExecution, Coalesce
<1> HIDE DEF new
<1>8. UpsertedExecution(r, later)' =
        [new EXCEPT !.note = new.note, !.deviceFinishedAt = new.deviceFinishedAt,
                    !.finishedAt = new.finishedAt]
    BY <1>4, <1>5, <1>6, <1>7
<1>9. UpsertedExecution(r, later)' = new
    BY <1>3, <1>8 DEF ExecutionRow
<1> QED
    BY <1>9 DEF new

\* Nor do the items change again: those of the snapshot are as it says, the
\* others of its execution are gone.
LEMMA ItemsIdempotent ==
    ASSUME TypeOK, TypeOK', NEW c \in Calls, CommitUpsert(c),
           NEW r \in Requests, r = call[c].req
    PROVE  ItemsOwned(r)' /\ UpsertedItems(r)' = item'
<1>1. item' = UpsertedItems(r) /\ ItemsOwned(r)
    BY DEF CommitUpsert, Accepts
<1>2. DOMAIN item' = (DOMAIN item \ PrunedItems(r)) \cup DOMAIN r.items
    BY <1>1 DEF UpsertedItems
<1>3. ASSUME NEW i \in DOMAIN r.items
      PROVE  /\ i \in DOMAIN item'
             /\ item'[i].execution = r.execution
             /\ item'[i].checked = r.items[i].checked
    <2>1. CASE i \in DOMAIN item
        <3>1. item[i] \in ItemRow /\ item[i].execution = r.execution
            BY <1>1, <2>1 DEF TypeOK, IsTable, ItemsOwned
        <3>2. item'[i] = [item[i] EXCEPT !.checked = r.items[i].checked]
            BY <1>1, <2>1 DEF UpsertedItems
        <3> QED
            BY <1>2, <3>1, <3>2 DEF ItemRow
    <2>2. CASE i \notin DOMAIN item
        BY <1>1, <1>2, <2>2 DEF UpsertedItems
    <2> QED
        BY <2>1, <2>2
<1>4. ItemsOwned(r)'
    BY <1>3 DEF ItemsOwned
<1>5. \A i \in DOMAIN item' : i \notin DOMAIN r.items => item'[i].execution # r.execution
    BY <1>1, <1>2 DEF UpsertedItems, PrunedItems
<1>6. PrunedItems(r)' = {}
    BY <1>5 DEF PrunedItems
<1>7. ASSUME NEW i \in DOMAIN r.items
      PROVE  [item'[i] EXCEPT !.checked = r.items[i].checked] = item'[i]
    <2>1. item'[i] \in ItemRow /\ item'[i].checked = r.items[i].checked
        BY <1>3 DEF TypeOK, IsTable
    <2> QED
        BY <2>1 DEF ItemRow
<1>8. UpsertedItems(r)' = [i \in DOMAIN item' |-> item'[i]]
    BY <1>2, <1>3, <1>6, <1>7 DEF UpsertedItems
<1>9. item' = [i \in DOMAIN item' |-> item'[i]]
    BY DEF TypeOK, IsTable
<1> QED
    BY <1>4, <1>8, <1>9

LEMMA SuccessorInstant == \A t \in Time : t + 1 \in Time
    BY DEF Time

\* Replaying a snapshot that was just accepted is accepted and changes nothing.
THEOREM ReplayIsNoOp == Spec => ReplayConverges
<1> DEFINE Converges ==
        \A c \in DOMAIN call :
            CommitUpsert(c) => \E r \in Requests : r = call[c].req /\ Settled(r)'
<1>1. ASSUME IInv, IInv', NEW c \in Calls, CommitUpsert(c),
             NEW r \in Requests, r = call[c].req
      PROVE  Settled(r)'
    <2>1. TypeOK /\ TypeOK'
        BY <1>1 DEF IInv
    <2>later. (clock + 1)' \in Time
        BY <2>1, SuccessorInstant DEF TypeOK
    <2>2. /\ r.execution \in DOMAIN execution'
          /\ execution'[r.execution].order = r.order
          /\ execution'[r.execution].worker = r.worker
          /\ execution'[r.execution].tenant = TenantOf[r.worker]
          /\ r.order \in DOMAIN order
          /\ order'[r.order].version = order[r.order].version
          /\ order'[r.order].status =
                IF execution'[r.execution].deviceFinishedAt # NULL
                THEN "done" ELSE "in_progress"
        BY <1>1, CommitFacts DEF IInv, Assigned
    <2>3. UpsertedExecution(r, clock + 1)' = execution'[r.execution]
        BY <1>1, <2>1, <2>later, UpsertIdempotent
    <2>4. ItemsOwned(r)' /\ UpsertedItems(r)' = item'
        BY <1>1, <2>1, ItemsIdempotent
    <2>5. ItemsAllowed(r)'
        BY <1>1, <2>2 DEF CommitUpsert, Accepts, ItemsAllowed
    <2>6. OwnsExecution(r)'
        BY <2>2 DEF OwnsExecution, GetExecution
    <2>7. (StatusAfter(r, clock + 1) = order[r.order].status)'
        BY <2>2, <2>3 DEF StatusAfter
    <2> QED
        BY <2>2, <2>3, <2>4, <2>5, <2>6, <2>7 DEF Settled, Accepts
<1>2. IInv /\ IInv' => Converges
    <2> SUFFICES ASSUME IInv, IInv', NEW c \in DOMAIN call, CommitUpsert(c)
                 PROVE  \E r \in Requests : r = call[c].req /\ Settled(r)'
        OBVIOUS
    <2>1. c \in Calls /\ call[c].req \in Requests
        BY CallOfRequest DEF IInv, TypeOK, IsTable
    <2>2. PICK r \in Requests : r = call[c].req
        BY <2>1
    <2> QED
        BY <1>1, <2>1, <2>2
<1> QED
    BY <1>2, Inductive, PTL DEF ReplayConverges

-----------------------------------------------------------------------------
(***************************************************************************)
(* What reopens a done order                                               *)
(***************************************************************************)

\* Away from commits a status only changes from scheduled to missed.
LEMMA StatusElsewhere ==
    ASSUME TypeOK, [Next]_vars
    PROVE  \/ \E c \in Calls : CommitUpsert(c)
           \/ \A o \in DOMAIN order :
                \/ order'[o].status = order[o].status
                \/ order[o].status = "scheduled" /\ order'[o].status = "missed"
<1> DEFINE Kept == \A o \in DOMAIN order :
                        \/ order'[o].status = order[o].status
                        \/ order[o].status = "scheduled" /\ order'[o].status = "missed"
<1>1. \A o \in DOMAIN order : order[o] \in OrderRow
    BY DEF TypeOK, IsTable
<1>2. ASSUME NEW b \in Batches, CreateOrders(b) PROVE Kept
    BY <1>2 DEF CreateOrders
<1>3. ASSUME NEW p \in Patches, PatchOrder(p) PROVE Kept
    BY <1>1, <1>3 DEF PatchOrder, UpdatedOrder, OrderRow
<1>4. ASSUME NEW t \in Tenants, MarkTenantOverdueOrdersMissed(t) PROVE Kept
    BY <1>1, <1>4 DEF MarkTenantOverdueOrdersMissed, Overdue, IsOverdue, OrderRow
<1>5. CASE UNCHANGED order
    BY <1>5
<1> QED
    BY <1>2, <1>3, <1>4, <1>5
       DEF Next, WorkerStep, StaffStep, TenantStep, BeginUpsert, GetWorkOrderForWorker,
        RefuseUnassigned, RollbackUpsert, OpsSuspend, OpsActivate, Tick, vars, tables

\* A done order is reopened by an execution that was never finished, beside the
\* finished one, and by nothing else.
THEOREM OpenWorkAloneReopens == Spec => OnlyOpenWorkReopens
<1> DEFINE Reopened(o) ==
        (order[o].status = "done" /\ order'[o].status # "done") =>
            /\ order'[o].status = "in_progress"
            /\ \E c \in DOMAIN call \ DOMAIN call' :
                LET e == call[c].req.execution
                IN  /\ call[c].req.order = o
                    /\ e \in EvidenceOf(o)' /\ execution'[e].deviceFinishedAt = NULL
                    /\ \E f \in EvidenceOf(o) \ {e} : execution[f].deviceFinishedAt # NULL
<1> DEFINE Reopens == \A o \in DOMAIN order : Reopened(o)
<1>1. IInv /\ IInv' /\ CompletionHasReceipt /\ [Next]_vars => [Reopens]_vars
    <2> SUFFICES ASSUME IInv, IInv', CompletionHasReceipt, [Next]_vars,
                        NEW o \in DOMAIN order,
                        order[o].status = "done", order'[o].status # "done"
                 PROVE  Reopened(o)
        OBVIOUS
    <2>1. PICK c \in Calls : CommitUpsert(c)
        BY StatusElsewhere DEF IInv
    <2> DEFINE e == call[c].req.execution
    <2>2. c \in DOMAIN call \ DOMAIN call'
        <3>1. c \in DOMAIN call /\ call' = Without(call, c)
            BY <2>1 DEF CommitUpsert
        <3>2. DOMAIN Without(call, c) = DOMAIN call \ {c}
            BY WithoutRows
        <3> QED
            BY <3>1, <3>2
    <2>3. /\ call[c].req.order = o
          /\ order'[o].status = "in_progress" /\ execution'[e].deviceFinishedAt = NULL
          /\ e \in DOMAIN execution' /\ execution'[e].order = o
        BY <2>1, CommitFacts DEF IInv
    <2>4. PICK f \in EvidenceOf(o) : execution[f].deviceFinishedAt # NULL
        BY DEF IInv, StatusMatchesEvidence
    <2>5. f # e
        BY <2>3, <2>4, EvidenceStands DEF EvidenceKept, EvidenceOf
    <2>6. e \in EvidenceOf(o)'
        BY <2>3 DEF EvidenceOf
    <2> QED
        BY <2>2, <2>3, <2>4, <2>5, <2>6
<1> QED
    BY <1>1, Inductive, ReceiptAlways, PTL DEF Spec, OnlyOpenWorkReopens

-----------------------------------------------------------------------------
(***************************************************************************)
(* The planned loop implements PlannedLoop: what staff see of an upload is *)
(* one step, its commit.                                                   *)
(***************************************************************************)

LEMMA LoopInit == Init => Loop!Init
<1> SUFFICES ASSUME Init PROVE Loop!Init
    OBVIOUS
<1>1. /\ AssigneeOf = EmptyTable /\ StatusOf = EmptyTable /\ WorkOf = EmptyTable
    BY DEF Init, EmptyTable, AssigneeOf, StatusOf, WorkOf
<1> QED
    BY <1>1 DEF Loop!Init, EmptyTable, Loop!EmptyTable

\* What is seen does not change with the calls, the items or the clock.
LEMMA ViewStays ==
    ASSUME UNCHANGED <<order, execution>>
    PROVE  UNCHANGED <<AssigneeOf, StatusOf, WorkOf>>
    BY DEF AssigneeOf, StatusOf, WorkOf

LEMMA CreatePlans ==
    ASSUME TypeOK, NEW b \in Batches, CreateOrders(b)
    PROVE  \E os \in SUBSET Orders : \E a \in [os -> Workers \cup {NULL}] : Loop!Plan(os, a)
<1> DEFINE os == DOMAIN b.rows
           a == [o \in os |-> b.rows[o].assignee]
<1>1. os \subseteq Orders /\ \A o \in os : b.rows[o].assignee \in Workers \cup {NULL}
    BY InputAssumption DEF IsBatch, IsTable, BatchRow
<1>2. os \cap DOMAIN StatusOf = {}
    BY DEF CreateOrders, StatusOf
<1>3. /\ order' = [o \in DOMAIN order \cup os |->
                    IF o \in DOMAIN order THEN order[o] ELSE InsertedOrder(b, o)]
      /\ os \cap DOMAIN order = {}
    BY DEF CreateOrders
<1>4. AssigneeOf' = [o \in DOMAIN AssigneeOf \cup os |-> IF o \in os THEN a[o] ELSE AssigneeOf[o]]
    BY <1>3 DEF AssigneeOf, InsertedOrder
<1>5. StatusOf' = [o \in DOMAIN StatusOf \cup os |-> IF o \in os THEN "scheduled" ELSE StatusOf[o]]
    BY <1>3 DEF StatusOf, InsertedOrder
<1>6. UNCHANGED WorkOf
    BY DEF CreateOrders, WorkOf
<1>7. Loop!Plan(os, a)
    BY <1>2, <1>4, <1>5, <1>6 DEF Loop!Plan
<1> QED
    BY <1>1, <1>7

LEMMA PatchAssigns ==
    ASSUME TypeOK, TypeOK', NEW p \in Patches, PatchOrder(p)
    PROVE  \E o \in Orders, w \in Workers \cup {NULL} : Loop!Assign(o, w)
<1> DEFINE o == p.order
           w == order'[o].assignee
<1>1. /\ o \in DOMAIN order /\ UNCHANGED execution
      /\ order' = [order EXCEPT ![o] = UpdatedOrder(p)]
    BY DEF PatchOrder
<1>2. \A q \in DOMAIN order : order[q] \in OrderRow
    BY DEF TypeOK, IsTable
<1>3. UpdatedOrder(p).status = order[o].status
    BY <1>1, <1>2 DEF UpdatedOrder, OrderRow
<1>4. AssigneeOf' = [AssigneeOf EXCEPT ![o] = w]
    BY <1>1 DEF AssigneeOf
<1>5. UNCHANGED <<StatusOf, WorkOf>>
    BY <1>1, <1>3 DEF StatusOf, WorkOf
<1>6. o \in Orders /\ w \in Workers \cup {NULL}
    BY <1>1 DEF TypeOK, IsTable, OrderRow
<1> QED
    BY <1>1, <1>4, <1>5, <1>6 DEF Loop!Assign, AssigneeOf

LEMMA SweepMisses ==
    ASSUME IInv, NEW t \in Tenants, MarkTenantOverdueOrdersMissed(t)
    PROVE  \E os \in SUBSET DOMAIN StatusOf : Loop!Miss(os)
<1> DEFINE os == Overdue(t)
<1>1. /\ UNCHANGED execution
      /\ order' = [o \in DOMAIN order |->
                    IF o \in os THEN [order[o] EXCEPT !.status = "missed"] ELSE order[o]]
    BY DEF MarkTenantOverdueOrdersMissed
<1>2. os \subseteq DOMAIN order /\ \A o \in os : order[o].status = "scheduled"
    BY DEF Overdue, IsOverdue
<1>3. \A o \in DOMAIN order : order[o] \in OrderRow
    BY DEF IInv, TypeOK, IsTable
<1>4. \A o \in os : EvidenceOf(o) = {}
    BY <1>2 DEF IInv, StatusMatchesEvidence
<1>5. \A o \in os : StatusOf[o] = "scheduled" /\ \A e \in DOMAIN WorkOf : WorkOf[e].order # o
    BY <1>2, <1>4 DEF StatusOf, WorkOf, EvidenceOf
<1>6. StatusOf' = [o \in DOMAIN StatusOf |-> IF o \in os THEN "missed" ELSE StatusOf[o]]
    BY <1>1, <1>2, <1>3 DEF StatusOf, OrderRow
<1>7. UNCHANGED <<AssigneeOf, WorkOf>>
    BY <1>1, <1>3 DEF AssigneeOf, WorkOf, OrderRow
<1>8. os \subseteq DOMAIN StatusOf
    BY <1>2 DEF StatusOf
<1> QED
    BY <1>5, <1>6, <1>7, <1>8 DEF Loop!Miss

LEMMA CommitSubmits ==
    ASSUME IInv, TypeOK', NEW c \in Calls, CommitUpsert(c)
    PROVE  \E e \in Executions, o \in Orders, w \in Workers, finished \in BOOLEAN :
                Loop!Submit(e, o, w, finished)
<1> DEFINE r == call[c].req
           e == r.execution
           o == r.order
           finished == r.deviceFinishedAt # NULL
           done == finished \/ (e \in DOMAIN WorkOf /\ WorkOf[e].finished)
<1>1. /\ r \in Requests /\ IsRequest(r) /\ Assigned(r) /\ Accepts(r)
      /\ DOMAIN execution' = DOMAIN execution \cup {e}
      /\ \A f \in DOMAIN execution : f # e => execution'[f] = execution[f]
      /\ execution'[e].order = o /\ execution'[e].worker = r.worker
      /\ DOMAIN order' = DOMAIN order
      /\ \A q \in DOMAIN order : q # o => order'[q] = order[q]
      /\ \A q \in DOMAIN order : order'[q].assignee = order[q].assignee
      /\ order'[o].status =
            IF execution'[e].deviceFinishedAt # NULL THEN "done" ELSE "in_progress"
    BY CommitFacts DEF IInv
<1>2. e \in Executions /\ o \in Orders /\ r.worker \in Workers
    BY <1>1 DEF IsRequest
<1>3. o \in DOMAIN AssigneeOf /\ AssigneeOf[o] = r.worker
    BY <1>1 DEF Assigned, AssigneeOf
<1>4. e \in DOMAIN WorkOf => WorkOf[e].order = o /\ WorkOf[e].worker = r.worker
    BY <1>1 DEF WorkOf, Accepts, OwnsExecution
<1>5. (execution'[e].deviceFinishedAt # NULL) = done
    <2>1. call[c].now \in Time
        BY CallOfRequest DEF CommitUpsert, IInv
    <2>2. execution'[e] = UpsertedExecution(r, call[c].now)
        BY DEF CommitUpsert, Put
    <2>3. e \in DOMAIN execution => WorkOf[e].finished = (execution[e].deviceFinishedAt # NULL)
        BY DEF WorkOf
    <2>4. DOMAIN WorkOf = DOMAIN execution
        BY DEF WorkOf
    <2>5. CASE e \in DOMAIN execution
        <3>1. execution'[e].deviceFinishedAt
                = Coalesce(execution[e].deviceFinishedAt, r.deviceFinishedAt)
            BY <1>1, <2>1, <2>2, <2>5, UpsertedTimes DEF IInv
        <3> QED
            BY <2>3, <2>4, <2>5, <3>1 DEF Coalesce
    <2>6. CASE e \notin DOMAIN execution
        BY <1>1, <2>1, <2>2, <2>4, <2>6, UpsertedTimes DEF IInv
    <2> QED
        BY <2>5, <2>6
<1>6. WorkOf' = Put(WorkOf, e, [order |-> o, worker |-> r.worker, finished |-> done])
    BY <1>1, <1>5 DEF WorkOf, Put
<1>7. StatusOf' = [StatusOf EXCEPT ![o] = IF done THEN "done" ELSE "in_progress"]
    BY <1>1, <1>5 DEF StatusOf
<1>8. UNCHANGED AssigneeOf
    BY <1>1 DEF AssigneeOf
<1>9. Loop!Put(WorkOf, e, [order |-> o, worker |-> r.worker, finished |-> done])
        = Put(WorkOf, e, [order |-> o, worker |-> r.worker, finished |-> done])
    BY DEF Loop!Put, Put
<1>10. Loop!Submit(e, o, r.worker, finished)
    BY <1>3, <1>4, <1>6, <1>7, <1>8, <1>9 DEF Loop!Submit
<1> QED
    BY <1>2, <1>10

LEMMA LoopStep ==
    IInv /\ IInv' /\ [Next]_vars => [Loop!Next]_<<AssigneeOf, StatusOf, WorkOf>>
<1> SUFFICES ASSUME IInv, IInv', [Next]_vars
             PROVE  Loop!Next \/ UNCHANGED <<AssigneeOf, StatusOf, WorkOf>>
    OBVIOUS
<1>1. TypeOK /\ TypeOK'
    BY DEF IInv
<1>2. CASE \E c \in Calls : CommitUpsert(c)
    BY <1>1, <1>2, CommitSubmits DEF Loop!Next
<1>3. CASE \E b \in Batches : CreateOrders(b)
    BY <1>1, <1>3, CreatePlans DEF Loop!Next
<1>4. CASE \E p \in Patches : PatchOrder(p)
    BY <1>1, <1>4, PatchAssigns DEF Loop!Next
<1>5. CASE \E t \in Tenants : MarkTenantOverdueOrdersMissed(t)
    BY <1>5, SweepMisses DEF Loop!Next
<1>6. CASE UNCHANGED <<order, execution>>
    BY <1>6, ViewStays
<1> QED
    BY <1>2, <1>3, <1>4, <1>5, <1>6
       DEF Next, WorkerStep, StaffStep, TenantStep, BeginUpsert, GetWorkOrderForWorker,
        RefuseUnassigned, RollbackUpsert, OpsSuspend, OpsActivate, Tick, vars, tables

\* Uploads are atomic to whoever reads orders and executions: the gate, the
\* lock, the checks and the three tables of an upload are one step of
\* PlannedLoop or none, for any number of uploads, reassignments and sweeps at
\* once.
THEOREM UploadsAreAtomic == Spec => KeepsPlannedLoop
    BY LoopInit, LoopStep, Inductive, PTL DEF Spec, KeepsPlannedLoop, Loop!Spec

==============================================================================
