--------------------------- MODULE StaffReadsProofs ---------------------------
(***************************************************************************)
(* Proofs about StaffReads, for any number of orders, executions, objects  *)
(* and uploads in flight, and any page size.  Readers change no table, so  *)
(* what WorkExecutionProofs shows of the planned loop holds here too, and  *)
(* the proofs say what the statements of one read add up to.               *)
(***************************************************************************)
EXTENDS StaffReads, WorkExecutionProofs, WellFoundedInduction

-----------------------------------------------------------------------------
(***************************************************************************)
(* The planned loop under the readers                                      *)
(***************************************************************************)

LEMMA WriteIsNext == Write => [Next]_vars
<1> USE DEF Next, WorkerStep, StaffStep, TenantStep
<1>1. ASSUME NEW c \in Calls, UpsertGoesOn(c) \/ UpsertEnds(c) PROVE [Next]_vars
    BY <1>1 DEF UpsertGoesOn, UpsertEnds
<1>2. CASE StaffWrite
    BY <1>2 DEF StaffWrite
<1>3. ASSUME NEW p \in ObjectPatches, UpdateObject(p) PROVE [Next]_vars
    BY <1>3 DEF UpdateObject
<1>4. ASSUME NEW t \in Tenants, Sweep(t) PROVE [Next]_vars
    BY <1>4 DEF Sweep
<1>5. CASE OtherWrite
    BY <1>5 DEF OtherWrite
<1> QED
    BY <1>1, <1>2, <1>3, <1>4, <1>5 DEF Write

LEMMA ReadKeepsTables == Read => UNCHANGED <<vars, createdAt, contract>>
    BY DEF Read, BeginReport, QueryReport, BeginHistory, ListStaffObjectExecutions, EndRead

LEMMA ReadsNextIsNext == [ReadsNext]_readsVars => [Next]_vars
    BY WriteIsNext, ReadKeepsTables DEF ReadsNext, readsVars

\* Every behaviour with readers is one of the planned loop: a report, a history
\* and a change of contract are stutters of it.
THEOREM ReadsArePlannedLoop == ReadsSpec => Spec
<1>1. ReadsInit => Init
    BY DEF ReadsInit
<1> QED
    BY <1>1, ReadsNextIsNext, PTL DEF ReadsSpec, Spec

-----------------------------------------------------------------------------
(***************************************************************************)
(* The inductive invariant.                                                *)
(*                                                                         *)
(* Of the tables, the readers need more than WorkExecution's IInv: that an *)
(* execution is of its order's tenant, or a done order could have its job  *)
(* in another tenant's report; that no call comes from the future; and     *)
(* that the tables are finite, for anything to be counted.                 *)
(*                                                                         *)
(* Of a history, the pages read so far are the rows that are not before    *)
(* the cursor: those of them that stood at the first page were all         *)
(* returned, and a row that comes in later was not returned yet.           *)
(*                                                                         *)
(* Of a report, a job is known to have evidence, so its order is not       *)
(* missed when the third statement looks.  While nobody disturbs it, the   *)
(* orders of the report stay the same, and every order the summary counted *)
(* done has a job, at first in the tables, then in the report.             *)
(***************************************************************************)

EvidenceInTenant ==
    \A e \in DOMAIN execution : execution[e].tenant = order[execution[e].order].tenant

CallsBegan == \A c \in DOMAIN call : call[c].now <= clock

TablesAreFinite == IsFiniteSet(DOMAIN order) /\ IsFiniteSet(DOMAIN execution)

PagesAddUp ==
    reader # NULL /\ reader.kind = "history" =>
        /\ reader.stood \subseteq ExecutionsOf(reader.object)
        /\ \A e \in Executions :
            /\ reader.times[e] \in {0, 1}
            /\ reader.times[e] = 1 => e \in ExecutionsOf(reader.object)
            /\ reader.times[e] = 1 /\ reader.more => ~Before(e, reader.after)
        /\ \A e \in reader.stood :
            ~reader.more \/ ~Before(e, reader.after) => reader.times[e] = 1

OrdersOfJobs(J, ob) == {execution[e].order : e \in {f \in J : ObjectOf[execution[f].order] = ob}}

DoneAreAmong(J) ==
    \A ob \in DOMAIN reader.summary :
        reader.summary[ob].done <= Cardinality(OrdersOfJobs(J, ob))

JobsHaveEvidence ==
    reader # NULL /\ reader.kind = "report" =>
        /\ reader.next >= 1
        /\ reader.next <= 2 => reader.jobs = {}
        /\ reader.next <= 3 => reader.missed = {}
        /\ reader.jobs \subseteq DOMAIN execution
        /\ \A e \in reader.jobs : execution[e].order \notin reader.missed

SummaryIsCovered ==
    reader # NULL /\ reader.kind = "report" /\ ~reader.disturbed =>
        /\ reader.next = 2 => DoneAreAmong(ReportObjectExecutions(reader.req))
        /\ reader.next > 2 => DoneAreAmong(reader.jobs)
        /\ reader.next > 1 =>
                DOMAIN reader.summary = {ObjectOf[o] : o \in OrdersOfReport(reader.req)}
        /\ \A e \in reader.jobs : execution[e].order \in OrdersOfReport(reader.req)

TablesOK == IInv /\ CompletionHasReceipt /\ EvidenceInTenant /\ CallsBegan /\ TablesAreFinite

ReadsIInv ==
    /\ TablesOK
    /\ ReadsTypeOK
    /\ PagesAddUp
    /\ JobsHaveEvidence
    /\ SummaryIsCovered

-----------------------------------------------------------------------------
(***************************************************************************)
(* The tables                                                              *)
(***************************************************************************)

\* No step deletes an order or moves it to another tenant.
LEMMA OrdersKept ==
    ASSUME IInv, IInv', [Next]_vars
    PROVE  \A o \in DOMAIN order : o \in DOMAIN order' /\ order'[o].tenant = order[o].tenant
<1>1. ASSUME NEW c \in Calls, CommitUpsert(c)
      PROVE  \A o \in DOMAIN order : o \in DOMAIN order' /\ order'[o].tenant = order[o].tenant
    BY <1>1, CommitFacts DEF IInv
<1>2. ASSUME NEW b \in Batches, CreateOrders(b)
      PROVE  \A o \in DOMAIN order : o \in DOMAIN order' /\ order'[o].tenant = order[o].tenant
    BY <1>2 DEF CreateOrders
<1>3. ASSUME NEW p \in Patches, PatchOrder(p)
      PROVE  \A o \in DOMAIN order : o \in DOMAIN order' /\ order'[o].tenant = order[o].tenant
    <2>1. order[p.order] \in OrderRow
        BY <1>3 DEF IInv, TypeOK, IsTable, PatchOrder
    <2>2. UpdatedOrder(p).tenant = order[p.order].tenant
        BY <2>1 DEF UpdatedOrder, OrderRow
    <2> QED
        BY <1>3, <2>2 DEF PatchOrder
<1>4. ASSUME NEW t \in Tenants, MarkTenantOverdueOrdersMissed(t)
      PROVE  \A o \in DOMAIN order : o \in DOMAIN order' /\ order'[o].tenant = order[o].tenant
    <2>1. \A o \in DOMAIN order : order[o] \in OrderRow
        BY DEF IInv, TypeOK, IsTable
    <2> QED
        BY <1>4, <2>1 DEF MarkTenantOverdueOrdersMissed, OrderRow
<1>5. CASE UNCHANGED order
    BY <1>5
<1> QED
    BY <1>1, <1>2, <1>3, <1>4, <1>5
       DEF Next, WorkerStep, StaffStep, TenantStep, BeginUpsert, GetWorkOrderForWorker,
           RefuseUnassigned, RollbackUpsert, OpsSuspend, OpsActivate, Tick, vars, tables

LEMMA TenantsStep ==
    ASSUME IInv, IInv', EvidenceInTenant, [Next]_vars
    PROVE  EvidenceInTenant'
<1>1. ASSUME NEW c \in Calls, CommitUpsert(c) PROVE EvidenceInTenant'
    <2> DEFINE r == call[c].req
    <2>1. /\ Assigned(r)
          /\ DOMAIN execution' = DOMAIN execution \cup {r.execution}
          /\ \A f \in DOMAIN execution : f # r.execution => execution'[f] = execution[f]
          /\ execution'[r.execution].order = r.order
          /\ execution'[r.execution].tenant = TenantOf[r.worker]
        BY <1>1, CommitFacts DEF IInv
    <2> QED
        BY <2>1, OrdersKept DEF EvidenceInTenant, IInv, EvidenceHasOrder, Assigned
<1>2. CASE UNCHANGED <<execution, item>>
    BY <1>2, OrdersKept DEF EvidenceInTenant, IInv, EvidenceHasOrder
<1> QED
    BY <1>1, <1>2, OnlyCommitsWrite

LEMMA CallsStep ==
    ASSUME IInv, IInv', CallsBegan, [Next]_vars
    PROVE  CallsBegan'
<1>1. clock \in Nat /\ \A c \in DOMAIN call : call[c] \in CallRow
    BY DEF IInv, TypeOK, IsTable, Time
<1>2. ASSUME NEW c \in Calls, NEW r \in Requests, BeginUpsert(c, r) PROVE CallsBegan'
    <2>1. /\ DOMAIN call' = DOMAIN call \cup {c}
          /\ call'[c].now = clock
          /\ \A d \in DOMAIN call : d # c => call'[d] = call[d]
          /\ clock' = clock
        BY <1>2 DEF BeginUpsert, Put
    <2> QED
        BY <1>1, <2>1 DEF CallsBegan
<1>3. ASSUME NEW c \in Calls, GetWorkOrderForWorker(c) PROVE CallsBegan'
    <2>1. call' = [call EXCEPT ![c].pc = "locked"] /\ clock' = clock /\ c \in DOMAIN call
        BY <1>3 DEF GetWorkOrderForWorker
    <2>2. \A d \in DOMAIN call' : d \in DOMAIN call /\ call'[d].now = call[d].now
        BY <1>1, <2>1 DEF CallRow
    <2> QED
        BY <2>1, <2>2 DEF CallsBegan
<1>4. ASSUME NEW c, call' = Without(call, c), UNCHANGED clock PROVE CallsBegan'
    BY <1>4 DEF CallsBegan, Without, Restrict
<1>5. CASE Tick
    <2>1. call' = call /\ clock' = clock + 1
        BY <1>5 DEF Tick
    <2>2. \A c \in DOMAIN call : call[c].now \in Nat
        BY <1>1 DEF CallRow, Time
    <2> QED
        BY <1>1, <2>1, <2>2 DEF CallsBegan
<1>6. CASE UNCHANGED <<call, clock>>
    BY <1>6 DEF CallsBegan
<1>7. ASSUME NEW c \in Calls, RefuseUnassigned(c) \/ CommitUpsert(c) \/ RollbackUpsert(c)
      PROVE  CallsBegan'
    <2>1. call' = Without(call, c) /\ UNCHANGED clock
        BY <1>7 DEF RefuseUnassigned, CommitUpsert, RollbackUpsert
    <2> QED
        BY <1>4, <2>1
<1>8. CASE StaffStep \/ TenantStep \/ UNCHANGED vars
    BY <1>6, <1>8 DEF StaffStep, TenantStep, CreateOrders, PatchOrder,
        MarkTenantOverdueOrdersMissed, OpsSuspend, OpsActivate, vars, tables
<1>9. CASE WorkerStep
    <2>1. PICK c \in Calls :
            \/ \E r \in Requests : BeginUpsert(c, r)
            \/ GetWorkOrderForWorker(c)
            \/ RefuseUnassigned(c) \/ CommitUpsert(c) \/ RollbackUpsert(c)
        BY <1>9 DEF WorkerStep
    <2> QED
        BY <2>1, <1>2, <1>3, <1>7
<1> QED
    BY <1>5, <1>8, <1>9 DEF Next

LEMMA FiniteStep ==
    ASSUME IInv, IInv', TablesAreFinite, [Next]_vars
    PROVE  TablesAreFinite'
<1>1. IsFiniteSet(DOMAIN execution')
    <2>1. ASSUME NEW c \in Calls, CommitUpsert(c) PROVE IsFiniteSet(DOMAIN execution')
        <3>1. DOMAIN execution' = DOMAIN execution \cup {call[c].req.execution}
            BY <2>1, CommitFacts DEF IInv
        <3> QED
            BY <3>1, FS_AddElement DEF TablesAreFinite
    <2> QED
        BY <2>1, OnlyCommitsWrite DEF TablesAreFinite
<1>2. IsFiniteSet(DOMAIN order')
    <2>1. ASSUME NEW c \in Calls, CommitUpsert(c) PROVE DOMAIN order' = DOMAIN order
        BY <2>1, CommitFacts DEF IInv
    <2>2. ASSUME NEW b \in Batches, CreateOrders(b) PROVE IsFiniteSet(DOMAIN order')
        <3>1. DOMAIN order' = DOMAIN order \cup DOMAIN b.rows
            BY <2>2 DEF CreateOrders
        <3>2. IsFiniteSet(DOMAIN order) /\ IsFiniteSet(DOMAIN b.rows)
            BY ReadsAssumption DEF TablesAreFinite
        <3>3. IsFiniteSet(DOMAIN order \cup DOMAIN b.rows)
            BY <3>2, FS_Union
        <3> QED
            BY <3>1, <3>3
    <2>3. ASSUME NEW p \in Patches, PatchOrder(p) PROVE DOMAIN order' = DOMAIN order
        BY <2>3 DEF PatchOrder
    <2>4. ASSUME NEW t \in Tenants, MarkTenantOverdueOrdersMissed(t)
          PROVE  DOMAIN order' = DOMAIN order
        BY <2>4 DEF MarkTenantOverdueOrdersMissed
    <2> QED
        BY <2>1, <2>2, <2>3, <2>4
           DEF TablesAreFinite, Next, WorkerStep, StaffStep, TenantStep, BeginUpsert,
               GetWorkOrderForWorker, RefuseUnassigned, RollbackUpsert, OpsSuspend,
               OpsActivate, Tick, vars, tables
<1> QED
    BY <1>1, <1>2 DEF TablesAreFinite

LEMMA TablesInit == Init => TablesOK
<1> SUFFICES ASSUME Init PROVE TablesOK
    OBVIOUS
<1>1. DOMAIN order = {} /\ DOMAIN execution = {} /\ DOMAIN call = {}
    BY DEF Init, EmptyTable
<1> QED
    BY <1>1, IInvInit, FS_EmptySet
       DEF TablesOK, CompletionHasReceipt, EvidenceInTenant, CallsBegan, TablesAreFinite

LEMMA TablesStep ==
    ASSUME TablesOK, [Next]_vars
    PROVE  TablesOK' /\ EvidenceKept
<1>1. IInv'
    BY IInvStep DEF TablesOK
<1>2. CompletionHasReceipt'
    <2>1. CASE UNCHANGED <<execution, item>>
        BY <2>1 DEF TablesOK, CompletionHasReceipt
    <2> QED
        BY <2>1, OnlyCommitsWrite, CommitKeepsReceipt DEF TablesOK
<1> QED
    BY <1>1, <1>2, TenantsStep, CallsStep, FiniteStep, EvidenceStands DEF TablesOK

-----------------------------------------------------------------------------
(***************************************************************************)
(* What a page of a history holds.  The rows of S newer than one of them   *)
(* are what ORDER BY ... LIMIT counts; a page that is not full leaves      *)
(* nothing out, and a full one only rows before its last.                  *)
(***************************************************************************)

Newer(S, e) == {f \in S : ~Before(f, CursorOf(e)) /\ f # e}

\* Of things ranked by naturals, one has the least rank.
LEMMA LeastRank ==
    ASSUME NEW T, T # {}, NEW rank \in [T -> Nat]
    PROVE  \E x \in T : \A y \in T : rank[x] <= rank[y]
<1> DEFINE R == OpToRel(<, Nat)
<1> DEFINE ranks == {rank[x] : x \in T}
<1>1. ranks \subseteq Nat /\ ranks # {}
    OBVIOUS
<1>2. IsWellFoundedOn(R, Nat)
    BY NatLessThanWellFounded
<1>3. \A m, n \in Nat : <<m, n>> \in R <=> m < n
    BY DEF OpToRel
<1> HIDE DEF R, ranks
<1>4. PICK m \in ranks : \A n \in ranks : <<n, m>> \notin R
    BY <1>1, <1>2, WFMin
<1>5. ASSUME NEW n \in ranks PROVE m <= n
    <2>1. m \in Nat /\ n \in Nat
        BY <1>1
    <2>2. ~(n < m)
        BY <1>3, <1>4, <2>1
    <2> QED
        BY <2>1, <2>2
<1>6. PICK x \in T : rank[x] = m
    BY <1>4 DEF ranks
<1>7. \A y \in T : rank[y] \in ranks
    BY DEF ranks
<1> QED
    BY <1>5, <1>6, <1>7

\* Rows with distinct ids are in a strict order.
LEMMA BeforeOrders ==
    ASSUME NEW S \in SUBSET Executions, S \subseteq DOMAIN createdAt,
           \A e \in S : createdAt[e] \in Nat
    PROVE  /\ \A e, f \in S : e # f => (Before(e, CursorOf(f)) <=> ~Before(f, CursorOf(e)))
           /\ \A e \in S : ~Before(e, CursorOf(e))
           /\ \A e, f, g \in S :
                Before(e, CursorOf(f)) /\ Before(f, CursorOf(g)) => Before(e, CursorOf(g))
<1>1. \A e \in S : Id[e] \in Nat /\ CursorOf(e) # NULL
    BY ReadsAssumption DEF CursorOf, Cursor
<1>2. \A e, f \in S : Before(e, CursorOf(f)) <=>
        \/ createdAt[e] < createdAt[f]
        \/ createdAt[e] = createdAt[f] /\ Id[e] < Id[f]
    BY <1>1 DEF Before, CursorOf
<1>3. \A e, f \in S : Id[e] = Id[f] => e = f
    BY ReadsAssumption
<1> QED
    BY <1>1, <1>2, <1>3

\* Which rows a page takes from S.
\* Fewer rows are newer than a newer row.
LEMMA NewerShrinks ==
    ASSUME NEW S \in SUBSET Executions, S \subseteq DOMAIN createdAt,
           \A e \in S : createdAt[e] \in Nat, IsFiniteSet(S)
    PROVE  /\ \A e \in S : IsFiniteSet(Newer(S, e)) /\ Cardinality(Newer(S, e)) \in Nat
           /\ \A e, f \in S : Before(e, CursorOf(f)) =>
                Cardinality(Newer(S, f)) < Cardinality(Newer(S, e))
<1>1. /\ \A e, f \in S : e # f => (Before(e, CursorOf(f)) <=> ~Before(f, CursorOf(e)))
      /\ \A e \in S : ~Before(e, CursorOf(e))
      /\ \A e, f, g \in S :
            Before(e, CursorOf(f)) /\ Before(f, CursorOf(g)) => Before(e, CursorOf(g))
    BY BeforeOrders
<1>2. \A e \in S : IsFiniteSet(Newer(S, e)) /\ Cardinality(Newer(S, e)) \in Nat
    <2> SUFFICES ASSUME NEW e \in S
                 PROVE  IsFiniteSet(Newer(S, e)) /\ Cardinality(Newer(S, e)) \in Nat
        OBVIOUS
    <2>1. Newer(S, e) \in SUBSET S
        BY DEF Newer
    <2> QED
        BY <2>1, FS_Subset, FS_CardinalityType
<1>3. ASSUME NEW e \in S, NEW f \in S, Before(e, CursorOf(f))
      PROVE  Cardinality(Newer(S, f)) < Cardinality(Newer(S, e))
    <2>1. Newer(S, f) \subseteq Newer(S, e) /\ f \in Newer(S, e) /\ f \notin Newer(S, f)
        BY <1>1, <1>3 DEF Newer
    <2>2. Newer(S, f) \in SUBSET Newer(S, e) /\ Newer(S, f) # Newer(S, e)
        BY <2>1
    <2>3. /\ Cardinality(Newer(S, f)) <= Cardinality(Newer(S, e))
          /\ Cardinality(Newer(S, f)) # Cardinality(Newer(S, e))
        BY <1>2, <2>2, FS_Subset
    <2> QED
        BY <1>2, <2>3
<1> QED
    BY <1>2, <1>3

LEMMA PageOf ==
    ASSUME NEW S \in SUBSET Executions, S \subseteq DOMAIN createdAt,
           \A e \in S : createdAt[e] \in Nat, IsFiniteSet(S)
    PROVE  /\ Newest(S) \subseteq S
           /\ Cardinality(Newest(S)) # PageLimit => Newest(S) = S
           /\ Cardinality(Newest(S)) = PageLimit =>
                /\ Oldest(Newest(S)) \in S
                /\ \A e \in S :
                    e \in Newest(S) <=> ~Before(e, CursorOf(Oldest(Newest(S))))
<1> DEFINE page == Newest(S)
<1> DEFINE rank == [e \in S |-> Cardinality(Newer(S, e))]
<1>1. page = {e \in S : Cardinality(Newer(S, e)) < PageLimit}
    BY DEF Newest, Newer
<1>2. /\ \A e, f \in S : e # f => (Before(e, CursorOf(f)) <=> ~Before(f, CursorOf(e)))
      /\ \A e \in S : ~Before(e, CursorOf(e))
      /\ \A e, f, g \in S :
            Before(e, CursorOf(f)) /\ Before(f, CursorOf(g)) => Before(e, CursorOf(g))
    BY BeforeOrders
<1>3. \A e \in S : IsFiniteSet(Newer(S, e)) /\ Cardinality(Newer(S, e)) \in Nat
    BY NewerShrinks
<1>4. IsFiniteSet(page) /\ page \in SUBSET S
    <2>1. page \in SUBSET S
        BY <1>1
    <2> QED
        BY <2>1, FS_Subset
<1>5. \A e, f \in S : Before(e, CursorOf(f)) => rank[f] < rank[e]
    BY NewerShrinks
<1>6. rank \in [S -> Nat] /\ \A e \in S : rank[e] = Cardinality(Newer(S, e))
    BY <1>3
<1> HIDE DEF rank, page
<1>7. \A e \in S : e \in page <=> rank[e] < PageLimit
    BY <1>1, <1>6
<1>8. PageLimit \in Nat /\ PageLimit > 0
    BY ReadsAssumption
\* A row a page leaves out is before all of it, and the page is full.
<1>9. ASSUME NEW d \in S, d \notin page PROVE Cardinality(page) = PageLimit
    <2>1. PICK e \in S \ page : \A f \in S \ page : rank[e] <= rank[f]
        <3> DEFINE left == [f \in S \ page |-> rank[f]]
        <3>1. left \in [S \ page -> Nat] /\ S \ page # {}
            BY <1>6, <1>9
        <3>2. \E e \in S \ page : \A f \in S \ page : left[e] <= left[f]
            BY <3>1, LeastRank
        <3> QED
            BY <3>2
    <2>2. Newer(S, e) = page
        <3>1. ASSUME NEW f \in Newer(S, e) PROVE f \in page
            <4>1. f \in S /\ Before(e, CursorOf(f))
                BY <1>2, <2>1, <3>1 DEF Newer
            <4>2. rank[f] < rank[e] /\ rank[f] \in Nat /\ rank[e] \in Nat
                BY <1>5, <1>6, <2>1, <4>1
            <4> QED
                BY <2>1, <4>1, <4>2
        <3>2. ASSUME NEW f \in page PROVE f \in Newer(S, e)
            <4>1. f \in S /\ rank[f] < PageLimit /\ ~(rank[e] < PageLimit) /\ f # e
                BY <1>4, <1>7, <2>1
            <4>2. ~Before(f, CursorOf(e))
                BY <1>5, <1>6, <1>8, <2>1, <4>1
            <4> QED
                BY <4>1, <4>2 DEF Newer
        <3> QED
            BY <3>1, <3>2
    <2>3. Cardinality(page) = rank[e] /\ rank[e] \in Nat /\ rank[e] >= PageLimit
        BY <1>6, <1>7, <1>8, <2>1, <2>2
    <2>4. page # {}
        BY <1>4, <1>8, <2>3, FS_EmptySet
    <2>5. PICK f \in page : \A g \in page : rank[g] <= rank[f]
        <3> DEFINE room == [g \in page |-> PageLimit - rank[g]]
        <3>1. room \in [page -> Nat]
            BY <1>4, <1>6, <1>7, <1>8
        <3>2. \E f \in page : \A g \in page : room[f] <= room[g]
            BY <2>4, <3>1, LeastRank
        <3> QED
            BY <1>4, <1>6, <1>8, <3>2
    <2>6. page \subseteq Newer(S, f) \cup {f}
        <3> SUFFICES ASSUME NEW g \in page, g # f PROVE ~Before(g, CursorOf(f))
            BY <1>4 DEF Newer
        <3> QED
            BY <1>4, <1>5, <1>6, <2>5
    <2>7. Cardinality(page) <= rank[f] + 1
        <3>1. f \in S /\ f \notin Newer(S, f) /\ IsFiniteSet(Newer(S, f))
            BY <1>3, <1>4 DEF Newer
        <3>2. /\ IsFiniteSet(Newer(S, f) \cup {f})
              /\ Cardinality(Newer(S, f) \cup {f}) = rank[f] + 1
            BY <1>6, <3>1, FS_AddElement
        <3> QED
            BY <2>6, <3>2, FS_Subset
    <2> QED
        BY <1>4, <1>6, <1>7, <1>8, <2>3, <2>5, <2>7
\* The oldest row of a page that is not empty.
<1>10. ASSUME page # {}
       PROVE  Oldest(page) \in page /\ \A f \in page \ {Oldest(page)} : Before(Oldest(page), CursorOf(f))
    <2>1. PICK e \in page : \A f \in page : rank[f] <= rank[e]
        <3> DEFINE room == [g \in page |-> PageLimit - rank[g]]
        <3>1. room \in [page -> Nat]
            BY <1>4, <1>6, <1>7, <1>8
        <3>2. \E f \in page : \A g \in page : room[f] <= room[g]
            BY <1>10, <3>1, LeastRank
        <3> QED
            BY <1>4, <1>6, <1>8, <3>2
    <2>2. \A f \in page \ {e} : Before(e, CursorOf(f))
        <3> SUFFICES ASSUME NEW f \in page, f # e, Before(f, CursorOf(e)) PROVE FALSE
            BY <1>2, <1>4
        <3> QED
            BY <1>4, <1>5, <1>6, <2>1
    <2> QED
        BY <2>2 DEF Oldest
<1>11. ASSUME Cardinality(page) = PageLimit
       PROVE  /\ Oldest(page) \in S
              /\ \A e \in S : e \in page <=> ~Before(e, CursorOf(Oldest(page)))
    <2>1. page # {}
        BY <1>8, <1>11, FS_EmptySet
    <2>2. PICK last \in page :
            /\ last = Oldest(page)
            /\ \A f \in page \ {last} : Before(last, CursorOf(f))
        BY <1>10, <2>1
    <2>3. ASSUME NEW e \in page PROVE ~Before(e, CursorOf(last))
        BY <1>2, <1>4, <2>2
    <2>4. ASSUME NEW e \in S, ~Before(e, CursorOf(last)) PROVE e \in page
        <3>1. CASE e = last
            BY <3>1
        <3>2. CASE e # last
            <4>1. Before(last, CursorOf(e))
                BY <1>2, <1>4, <2>4, <3>2
            <4>2. rank[e] < rank[last]
                BY <1>4, <1>5, <4>1
            <4> QED
                BY <1>4, <1>6, <1>7, <1>8, <4>2
        <3> QED
            BY <3>1, <3>2
    <2> QED
        BY <1>4, <2>2, <2>3, <2>4
<1> QED
    BY <1>4, <1>9, <1>11 DEF page

-----------------------------------------------------------------------------
(***************************************************************************)
(* What a write means to a read in flight                                  *)
(***************************************************************************)

CreatedOK ==
    /\ createdAt \in [DOMAIN execution -> Time]
    /\ \A e \in DOMAIN createdAt : createdAt[e] <= clock

\* Only a commit writes created_at, and never that of a row there is.
LEMMA CreatedStep ==
    ASSUME TablesOK, TablesOK', CreatedOK, Write
    PROVE  /\ CreatedOK'
           /\ \A e \in DOMAIN execution : createdAt'[e] = createdAt[e]
<1> DEFINE Goal == CreatedOK' /\ \A e \in DOMAIN execution : createdAt'[e] = createdAt[e]
<1>1. clock \in Nat /\ clock' \in Nat
    BY DEF TablesOK, IInv, TypeOK, Time
<1>2. ASSUME clock <= clock', execution' = execution, createdAt' = createdAt PROVE Goal
    BY <1>1, <1>2 DEF CreatedOK, Time
<1>3. ASSUME NEW c \in Calls, CommitUpsert(c), createdAt' = Created(c) PROVE Goal
    <2> DEFINE e == call[c].req.execution
    <2>1. /\ DOMAIN execution' = DOMAIN execution \cup {e}
          /\ clock' = clock
        BY <1>3, CommitFacts DEF TablesOK, IInv, CommitUpsert
    <2>2. call[c].now \in Nat /\ call[c].now <= clock
        BY <1>3, CallOfRequest DEF TablesOK, IInv, CommitUpsert, CallsBegan, Time
    <2>3. CASE e \in DOMAIN execution
        <3>1. createdAt' = createdAt /\ DOMAIN execution' = DOMAIN execution
            BY <1>3, <2>1, <2>3 DEF Created, CreatedOK
        <3> QED
            BY <2>1, <3>1 DEF CreatedOK
    <2>4. CASE e \notin DOMAIN execution
        <3>1. /\ createdAt' = Put(createdAt, e, call[c].now)
              /\ DOMAIN createdAt = DOMAIN execution
            BY <1>3, <2>4 DEF Created, CreatedOK
        <3>2. createdAt' = [k \in DOMAIN execution' |-> IF k = e THEN call[c].now ELSE createdAt[k]]
            BY <2>1, <3>1 DEF Put
        <3> QED
            BY <2>1, <2>2, <2>4, <3>2 DEF CreatedOK, Time
    <2> QED
        BY <2>3, <2>4
<1>4. ASSUME NEW c \in Calls, UpsertGoesOn(c) PROVE Goal
    <2>1. clock' = clock /\ execution' = execution /\ createdAt' = createdAt
        BY <1>4 DEF UpsertGoesOn, BeginUpsert, GetWorkOrderForWorker, RefuseUnassigned, tables
    <2> QED
        BY <1>1, <1>2, <2>1
<1>5. ASSUME NEW c \in Calls, RollbackUpsert(c), createdAt' = createdAt PROVE Goal
    <2>1. clock' = clock /\ execution' = execution
        BY <1>5 DEF RollbackUpsert, tables
    <2> QED
        BY <1>1, <1>2, <1>5, <2>1
<1>6. CASE StaffWrite
    <2>1. clock' = clock /\ execution' = execution /\ createdAt' = createdAt
        BY <1>6 DEF StaffWrite, StaffStep, CreateOrders, PatchOrder
    <2> QED
        BY <1>1, <1>2, <2>1
<1>7. ASSUME NEW p \in ObjectPatches, UpdateObject(p) PROVE Goal
    <2>1. clock' = clock /\ execution' = execution /\ createdAt' = createdAt
        BY <1>7 DEF UpdateObject, vars
    <2> QED
        BY <1>1, <1>2, <2>1
<1>8. ASSUME NEW t \in Tenants, Sweep(t) PROVE Goal
    <2>1. clock' = clock /\ execution' = execution /\ createdAt' = createdAt
        BY <1>8 DEF Sweep, MarkTenantOverdueOrdersMissed
    <2> QED
        BY <1>1, <1>2, <2>1
<1>9. CASE OtherWrite
    <2>1. execution' = execution /\ createdAt' = createdAt
        BY <1>9 DEF OtherWrite, Tick, OpsSuspend, OpsActivate, tables
    <2>2. clock' = clock \/ clock' = clock + 1
        BY <1>9 DEF OtherWrite, Tick, OpsSuspend, OpsActivate
    <2> QED
        BY <1>1, <1>2, <2>1, <2>2
<1>10. ASSUME NEW c \in Calls, UpsertEnds(c) PROVE Goal
    BY <1>3, <1>5, <1>10 DEF UpsertEnds
<1> QED
    BY <1>4, <1>6, <1>7, <1>8, <1>9, <1>10 DEF Write

\* Either a write disturbs a report, or it leaves every order and object where
\* a report looks for them.
OrdersStay ==
    /\ DOMAIN order' = DOMAIN order
    /\ \A o \in DOMAIN order : /\ order'[o].tenant = order[o].tenant
                               /\ order'[o].due = order[o].due
    /\ contract' = contract

LEMMA WriteOnReader ==
    ASSUME TablesOK, TablesOK', Write
    PROVE  reader' = Disturbed \/ (reader' = reader /\ OrdersStay)
<1>1. \A o \in DOMAIN order : order[o] \in OrderRow
    BY DEF TablesOK, IInv, TypeOK, IsTable
<1>2. ASSUME NEW c \in Calls, CommitUpsert(c), UNCHANGED contract PROVE OrdersStay
    <2>1. order' = SetWorkOrderStatus(call[c].req.order, StatusAfter(call[c].req, call[c].now))
        BY <1>2 DEF CommitUpsert
    <2> QED
        BY <1>1, <1>2, <2>1 DEF SetWorkOrderStatus, OrderRow, OrdersStay
<1>3. ASSUME NEW c \in Calls, UpsertEnds(c) PROVE reader' = reader /\ OrdersStay
    BY <1>2, <1>3 DEF UpsertEnds, RollbackUpsert, tables, OrdersStay
<1>4. ASSUME NEW c \in Calls, UpsertGoesOn(c) PROVE reader' = reader /\ OrdersStay
    BY <1>4 DEF UpsertGoesOn, BeginUpsert, GetWorkOrderForWorker, RefuseUnassigned, tables,
        OrdersStay
<1>5. ASSUME NEW t \in Tenants, Sweep(t) PROVE reader' = reader /\ OrdersStay
    BY <1>1, <1>5 DEF Sweep, MarkTenantOverdueOrdersMissed, OrderRow, OrdersStay
<1>6. CASE OtherWrite
    BY <1>6 DEF OtherWrite, Tick, OpsSuspend, OpsActivate, tables, OrdersStay
<1>7. CASE StaffWrite \/ \E p \in ObjectPatches : UpdateObject(p)
    BY <1>7 DEF StaffWrite, UpdateObject
<1> QED
    BY <1>3, <1>4, <1>5, <1>6, <1>7 DEF Write

\* The read in flight is a history or a report, and a write makes it no other.
LEMMA ReaderKinds ==
    ASSUME ReadsTypeOK
    PROVE  \/ reader = NULL
           \/ reader \in HistoryReader /\ reader.kind = "history"
           \/ /\ reader \in ReportReader(reader.summary) /\ reader.kind = "report"
              /\ IsTable(reader.summary, Objects, Counts)
    BY DEF ReadsTypeOK, HistoryReader, ReportReader

LEMMA DisturbedReport ==
    ASSUME ReadsTypeOK, reader # NULL, reader.kind = "report"
    PROVE  /\ reader \in ReportReader(reader.summary)
           /\ Disturbed \in ReportReader(reader.summary)
           /\ Disturbed.kind = "report" /\ Disturbed.disturbed
           /\ Disturbed.summary = reader.summary /\ Disturbed.req = reader.req
           /\ Disturbed.next = reader.next
           /\ Disturbed.jobs = reader.jobs /\ Disturbed.missed = reader.missed
<1>1. reader \in ReportReader(reader.summary)
    BY ReaderKinds DEF HistoryReader
<1>2. Disturbed = [reader EXCEPT !.disturbed = TRUE]
    BY DEF Disturbed
<1> QED
    BY <1>1, <1>2 DEF ReportReader

LEMMA DisturbedHistory ==
    ASSUME reader = NULL \/ reader.kind # "report"
    PROVE  Disturbed = reader
    BY DEF Disturbed

LEMMA WriteKeepsType ==
    ASSUME ReadsIInv, TablesOK', Write
    PROVE  ReadsTypeOK'
<1>1. CreatedOK'
    BY CreatedStep DEF ReadsIInv, ReadsTypeOK, CreatedOK
<1>2. contract' \in [Objects -> Contracts \cup {NULL}]
    <2>1. ASSUME NEW p \in ObjectPatches, UpdateObject(p)
          PROVE  contract' \in [Objects -> Contracts \cup {NULL}]
        BY <2>1, ReadsAssumption DEF UpdateObject, ObjectPatch, ReadsIInv, ReadsTypeOK
    <2>2. CASE UNCHANGED contract
        BY <2>2 DEF ReadsIInv, ReadsTypeOK
    <2> QED
        BY <2>1, <2>2 DEF Write, UpsertEnds, UpsertGoesOn, StaffWrite, Sweep, OtherWrite
<1>3. reader' = reader \/ reader' = Disturbed
    BY WriteOnReader DEF ReadsIInv
<1>4. \/ reader' = NULL \/ reader' \in HistoryReader
      \/ reader' \in ReportReader(reader'.summary) /\ IsTable(reader'.summary, Objects, Counts)
    <2>1. CASE reader' = reader
        BY <2>1 DEF ReadsIInv, ReadsTypeOK
    <2>2. CASE reader' = Disturbed /\ reader # NULL /\ reader.kind = "report"
        <3>1. IsTable(reader.summary, Objects, Counts)
            BY <2>2, ReaderKinds DEF ReadsIInv
        <3> QED
            BY <2>2, <3>1, DisturbedReport DEF ReadsIInv
    <2> QED
        BY <1>3, <2>1, <2>2, DisturbedHistory
<1>5. HistoryReader' = HistoryReader /\ ReportReader(reader.summary)' = ReportReader(reader'.summary)
    BY DEF HistoryReader, ReportReader
<1> QED
    BY <1>1, <1>2, <1>4, <1>5 DEF ReadsTypeOK, CreatedOK

\* An upload between two pages adds executions, which were not returned yet;
\* those there were keep their place.
LEMMA WriteKeepsPages ==
    ASSUME ReadsIInv, TablesOK', EvidenceKept, Write
    PROVE  PagesAddUp'
<1> SUFFICES ASSUME reader' # NULL, reader'.kind = "history"
             PROVE  PagesAddUp'
    BY DEF PagesAddUp
<1>1. reader' = reader
    <2>1. CASE reader # NULL /\ reader.kind = "report"
        <3>1. Disturbed.kind = "report"
            BY <2>1, DisturbedReport DEF ReadsIInv
        <3> QED
            BY <2>1, <3>1, WriteOnReader DEF ReadsIInv
    <2> QED
        BY <2>1, WriteOnReader, DisturbedHistory DEF ReadsIInv
<1>2. ExecutionsOf(reader.object) \subseteq ExecutionsOf(reader.object)'
    BY <1>1 DEF EvidenceKept, ExecutionsOf
<1>3. \A e \in DOMAIN execution : createdAt'[e] = createdAt[e]
    BY CreatedStep DEF ReadsIInv, ReadsTypeOK, CreatedOK
<1>4. \A e \in ExecutionsOf(reader.object) : Before(e, reader.after)' <=> Before(e, reader.after)
    BY <1>1, <1>3 DEF Before, ExecutionsOf
<1>5. /\ reader.stood \subseteq ExecutionsOf(reader.object)
      /\ \A e \in Executions :
            /\ reader.times[e] \in {0, 1}
            /\ reader.times[e] = 1 => e \in ExecutionsOf(reader.object)
            /\ reader.times[e] = 1 /\ reader.more => ~Before(e, reader.after)
      /\ \A e \in reader.stood :
            ~reader.more \/ ~Before(e, reader.after) => reader.times[e] = 1
    BY <1>1 DEF ReadsIInv, PagesAddUp
<1> HIDE DEF ReadsIInv
<1>6. reader.stood \subseteq ExecutionsOf(reader.object)'
    BY <1>2, <1>5
<1>7. \A e \in Executions :
            /\ reader.times[e] \in {0, 1}
            /\ reader.times[e] = 1 => e \in ExecutionsOf(reader.object)'
            /\ reader.times[e] = 1 /\ reader.more => ~Before(e, reader.after)'
    BY <1>2, <1>4, <1>5
<1>8. \A e \in reader.stood :
            ~reader.more \/ ~Before(e, reader.after)' => reader.times[e] = 1
    BY <1>4, <1>5
<1> QED
    BY <1>1, <1>6, <1>7, <1>8 DEF PagesAddUp

\* A job keeps its order, so it does not become one of a missed order.
LEMMA WriteKeepsJobs ==
    ASSUME ReadsIInv, TablesOK', EvidenceKept, Write
    PROVE  JobsHaveEvidence'
<1> SUFFICES ASSUME reader' # NULL, reader'.kind = "report"
             PROVE  JobsHaveEvidence'
    BY DEF JobsHaveEvidence
<1>1. /\ reader # NULL /\ reader.kind = "report"
      /\ reader'.next = reader.next
      /\ reader'.jobs = reader.jobs /\ reader'.missed = reader.missed
    <2>1. CASE reader # NULL /\ reader.kind = "report"
        BY <2>1, WriteOnReader, DisturbedReport DEF ReadsIInv
    <2>2. CASE reader = NULL \/ reader.kind # "report"
        BY <2>2, WriteOnReader, DisturbedHistory DEF ReadsIInv
    <2> QED
        BY <2>1, <2>2
<1> QED
    BY <1>1 DEF ReadsIInv, JobsHaveEvidence, EvidenceKept

\* What a report's jobs come to can be counted.
LEMMA OrdersOfJobsFinite ==
    ASSUME TablesOK, NEW J \in SUBSET DOMAIN execution, NEW ob
    PROVE  IsFiniteSet(OrdersOfJobs(J, ob))
<1>1. OrdersOfJobs(J, ob) \in SUBSET DOMAIN order
    BY DEF OrdersOfJobs, TablesOK, IInv, EvidenceHasOrder
<1> QED
    BY <1>1, FS_Subset DEF TablesOK, TablesAreFinite

\* A report nobody disturbs keeps its orders, and the jobs it can still find
\* only become more.
LEMMA WriteKeepsSummary ==
    ASSUME ReadsIInv, ReadsTypeOK', TablesOK', EvidenceKept, Write
    PROVE  SummaryIsCovered'
<1> SUFFICES ASSUME reader' # NULL, reader'.kind = "report", ~reader'.disturbed
             PROVE  SummaryIsCovered'
    BY DEF SummaryIsCovered
<1>1. reader' = reader /\ OrdersStay
    <2>1. CASE reader # NULL /\ reader.kind = "report"
        BY <2>1, WriteOnReader, DisturbedReport DEF ReadsIInv
    <2>2. CASE reader = NULL \/ reader.kind # "report"
        BY <2>2, WriteOnReader, DisturbedHistory DEF ReadsIInv
    <2> QED
        BY <2>1, <2>2
<1>2. /\ reader \in ReportReader(reader.summary)
      /\ IsTable(reader.summary, Objects, Counts)
    BY <1>1, ReaderKinds DEF ReadsIInv
<1>3. PICK q : q = reader.req
    OBVIOUS
<1>4. OrdersOfReport(q)' = OrdersOfReport(q)
    BY <1>1 DEF OrdersStay, OrdersOfReport
<1>5. ReportObjectExecutions(q) \subseteq ReportObjectExecutions(q)'
    BY <1>4 DEF ReportObjectExecutions, EvidenceKept
<1>6. /\ reader.jobs \subseteq DOMAIN execution
      /\ reader.next = 2 => DoneAreAmong(ReportObjectExecutions(q))
      /\ reader.next > 2 => DoneAreAmong(reader.jobs)
      /\ reader.next > 1 =>
            DOMAIN reader.summary = {ObjectOf[o] : o \in OrdersOfReport(q)}
      /\ \A e \in reader.jobs : execution[e].order \in OrdersOfReport(q)
    BY <1>1, <1>3 DEF ReadsIInv, SummaryIsCovered, JobsHaveEvidence
\* Jobs J found among the executions are still found, perhaps with more.
<1>7. ASSUME NEW J \in SUBSET DOMAIN execution, NEW K \in SUBSET DOMAIN execution',
             J \subseteq K, NEW ob
      PROVE  Cardinality(OrdersOfJobs(J, ob)) <= Cardinality({execution'[e].order :
                e \in {f \in K : ObjectOf[execution'[f].order] = ob}})
    <2> DEFINE now == {execution'[e].order : e \in {f \in K : ObjectOf[execution'[f].order] = ob}}
    <2>1. OrdersOfJobs(J, ob) \in SUBSET now
        BY <1>7 DEF OrdersOfJobs, EvidenceKept
    <2>2. now \in SUBSET DOMAIN order'
        BY DEF TablesOK, IInv, EvidenceHasOrder
    <2>3. IsFiniteSet(now)
        BY <2>2, FS_Subset DEF TablesOK, TablesAreFinite
    <2> QED
        BY <2>1, <2>3, FS_Subset
<1>8. ASSUME NEW J \in SUBSET DOMAIN execution, NEW K \in SUBSET DOMAIN execution',
             J \subseteq K, DoneAreAmong(J), NEW ob \in DOMAIN reader.summary
      PROVE  reader.summary[ob].done <= Cardinality({execution'[e].order :
                e \in {f \in K : ObjectOf[execution'[f].order] = ob}})
    <2> DEFINE now == {execution'[e].order : e \in {f \in K : ObjectOf[execution'[f].order] = ob}}
    <2>1. reader.summary[ob].done <= Cardinality(OrdersOfJobs(J, ob))
        BY <1>8 DEF DoneAreAmong
    <2>2. Cardinality(OrdersOfJobs(J, ob)) <= Cardinality(now)
        BY <1>7, <1>8
    <2>3. reader.summary[ob].done \in Nat
        BY <1>2 DEF IsTable, Counts
    <2>4. now \in SUBSET DOMAIN order'
        BY DEF TablesOK, IInv, EvidenceHasOrder
    <2>5. Cardinality(now) \in Nat /\ Cardinality(OrdersOfJobs(J, ob)) \in Nat
        <3>1. IsFiniteSet(now)
            BY <2>4, FS_Subset DEF TablesOK, TablesAreFinite
        <3>2. IsFiniteSet(OrdersOfJobs(J, ob))
            BY OrdersOfJobsFinite DEF ReadsIInv
        <3> QED
            BY <3>1, <3>2, FS_CardinalityType
    <2> HIDE DEF now
    <2>6. reader.summary[ob].done <= Cardinality(now)
        BY <2>1, <2>2, <2>3, <2>5
    <2> QED
        BY <2>6 DEF now
<1>9. reader.next = 2 => DoneAreAmong(ReportObjectExecutions(reader.req))'
    <2> SUFFICES ASSUME reader.next = 2 PROVE DoneAreAmong(ReportObjectExecutions(reader.req))'
        OBVIOUS
    <2>1. PICK K : K = ReportObjectExecutions(q)'
        OBVIOUS
    <2>2. K \in SUBSET DOMAIN execution'
        BY <2>1 DEF ReportObjectExecutions
    <2>3. ReportObjectExecutions(q) \in SUBSET DOMAIN execution
        BY DEF ReportObjectExecutions
    <2>4. ReportObjectExecutions(reader.req)' = K
        BY <1>1, <1>3, <2>1 DEF ReportObjectExecutions, OrdersOfReport
    <2> QED
        BY <1>1, <1>5, <1>6, <1>8, <2>1, <2>2, <2>3, <2>4 DEF DoneAreAmong, OrdersOfJobs
<1>10. reader.next > 2 => DoneAreAmong(reader.jobs)'
    <2>1. reader.jobs \in SUBSET DOMAIN execution'
        BY <1>6 DEF EvidenceKept
    <2> QED
        BY <1>1, <1>6, <1>8, <2>1 DEF DoneAreAmong, OrdersOfJobs
<1>11. \A e \in reader.jobs : execution'[e].order \in OrdersOfReport(q)
    BY <1>6 DEF EvidenceKept
<1>12. OrdersOfReport(reader.req)' = OrdersOfReport(q)
    BY <1>1, <1>3, <1>4 DEF OrdersOfReport
<1> QED
    BY <1>1, <1>6, <1>9, <1>10, <1>11, <1>12 DEF SummaryIsCovered

LEMMA WriteKeepsReads ==
    ASSUME ReadsIInv, TablesOK', EvidenceKept, Write
    PROVE  ReadsIInv'
    BY WriteKeepsType, WriteKeepsPages, WriteKeepsJobs, WriteKeepsSummary DEF ReadsIInv

-----------------------------------------------------------------------------
(***************************************************************************)
(* The steps of a read                                                     *)
(***************************************************************************)

ReaderOK(r) ==
    \/ r = NULL \/ r \in HistoryReader
    \/ r \in ReportReader(r.summary) /\ IsTable(r.summary, Objects, Counts)

LEMMA ReadKeepsType ==
    ASSUME ReadsTypeOK, UNCHANGED <<vars, createdAt, contract>>, ReaderOK(reader')
    PROVE  ReadsTypeOK'
    BY DEF ReadsTypeOK, ReaderOK, vars, HistoryReader, ReportReader

LEMMA BeginReportKeeps ==
    ASSUME ReadsIInv, NEW q \in ReportRequests, BeginReport(q)
    PROVE  ReadsTypeOK' /\ PagesAddUp' /\ JobsHaveEvidence' /\ SummaryIsCovered'
<1>1. reader' = [kind |-> "report", req |-> q, next |-> 1, disturbed |-> FALSE,
                 summary |-> EmptyTable, jobs |-> {}, missed |-> {}]
    BY DEF BeginReport
<1>2. ReaderOK(reader')
    <2>1. IsTable(EmptyTable, Objects, Counts)
        BY EmptyIsTable
    <2>2. reader' \in ReportReader(EmptyTable) /\ reader'.summary = EmptyTable
        BY <1>1 DEF ReportReader
    <2> QED
        BY <2>1, <2>2 DEF ReaderOK
<1>3. ReadsTypeOK'
    BY <1>2, ReadKeepsType DEF ReadsIInv, BeginReport
<1> QED
    BY <1>1, <1>3 DEF PagesAddUp, JobsHaveEvidence, SummaryIsCovered

LEMMA BeginHistoryKeeps ==
    ASSUME ReadsIInv, NEW ob \in Objects, BeginHistory(ob)
    PROVE  ReadsTypeOK' /\ PagesAddUp' /\ JobsHaveEvidence' /\ SummaryIsCovered'
<1>1. reader' = [kind |-> "history", object |-> ob, more |-> TRUE, after |-> NULL,
                 stood |-> ExecutionsOf(ob), times |-> [e \in Executions |-> 0]]
    BY DEF BeginHistory
<1>2. ExecutionsOf(ob) \subseteq Executions
    BY DEF ExecutionsOf, ReadsIInv, TablesOK, IInv, TypeOK, IsTable
<1>3. reader' \in HistoryReader
    BY <1>1, <1>2 DEF HistoryReader
<1>4. ReadsTypeOK'
    BY <1>3, ReadKeepsType DEF ReadsIInv, BeginHistory, ReaderOK
<1>5. ExecutionsOf(ob)' = ExecutionsOf(ob) /\ \A e : Before(e, reader.after)'
    BY <1>1 DEF BeginHistory, vars, ExecutionsOf, Before
<1>6. PagesAddUp'
    BY <1>1, <1>5 DEF PagesAddUp
<1> QED
    BY <1>1, <1>4, <1>6 DEF JobsHaveEvidence, SummaryIsCovered

\* What the next page returns was not returned before, and what it does not
\* return is left for later, unless it was the last.
LEMMA PageKeeps ==
    ASSUME ReadsIInv, ListStaffObjectExecutions
    PROVE  ReadsTypeOK' /\ PagesAddUp' /\ JobsHaveEvidence' /\ SummaryIsCovered'
<1> DEFINE S == {e \in ExecutionsOf(reader.object) : Before(e, reader.after)}
<1>1. PICK page, full :
        /\ page = Newest(S)
        /\ full = (Cardinality(page) = PageLimit)
        /\ reader' = [reader EXCEPT
                !.more = full,
                !.after = IF full THEN CursorOf(Oldest(page)) ELSE @,
                !.times = [e \in Executions |-> IF e \in page THEN @[e] + 1 ELSE @[e]]]
    BY DEF ListStaffObjectExecutions, ListObjectExecutions
<1>2. reader \in HistoryReader /\ reader # NULL /\ reader.kind = "history" /\ reader.more
    BY ReaderKinds DEF ListStaffObjectExecutions, ReadsIInv
<1>3. full \in BOOLEAN
    BY <1>1
<1>4. /\ reader'.kind = "history" /\ reader'.object = reader.object
      /\ reader'.stood = reader.stood /\ reader'.more = full
      /\ reader'.after = IF full THEN CursorOf(Oldest(page)) ELSE reader.after
      /\ reader'.times = [e \in Executions |->
                IF e \in page THEN reader.times[e] + 1 ELSE reader.times[e]]
    BY <1>1, <1>2 DEF HistoryReader
<1>5. /\ S \in SUBSET Executions /\ S \subseteq DOMAIN createdAt
      /\ \A e \in S : createdAt[e] \in Nat
    BY DEF ExecutionsOf, ReadsIInv, ReadsTypeOK, TablesOK, IInv, TypeOK, IsTable, Time
<1>6. IsFiniteSet(S)
    <2>1. S \in SUBSET DOMAIN execution
        BY DEF ExecutionsOf
    <2> QED
        BY <2>1, FS_Subset DEF ReadsIInv, TablesOK, TablesAreFinite
<1> HIDE DEF S
<1>7. /\ page \subseteq S
      /\ ~full => page = S
      /\ full => /\ Oldest(page) \in S
                 /\ \A e \in S : e \in page <=> ~Before(e, CursorOf(Oldest(page)))
    BY <1>1, <1>5, <1>6, PageOf
<1>8. PICK cursor : cursor = reader'.after
    OBVIOUS
<1>9. cursor \in Cursor \cup {NULL}
    <2>1. CASE full
        <3>1. Oldest(page) \in Executions /\ createdAt[Oldest(page)] \in Nat
            BY <1>5, <1>7, <2>1
        <3> QED
            BY <1>4, <1>8, <2>1, <3>1, ReadsAssumption DEF CursorOf, Cursor
    <2>2. CASE ~full
        BY <1>2, <1>4, <1>8, <2>2 DEF HistoryReader
    <2> QED
        BY <2>1, <2>2
<1>10. /\ reader.stood \subseteq ExecutionsOf(reader.object)
       /\ \A e \in Executions :
            /\ reader.times[e] \in {0, 1}
            /\ reader.times[e] = 1 => e \in ExecutionsOf(reader.object) /\ ~Before(e, reader.after)
       /\ \A e \in reader.stood : ~Before(e, reader.after) => reader.times[e] = 1
    BY <1>2 DEF ReadsIInv, PagesAddUp
<1>11. \A e \in Executions : reader.times[e] = 1 => e \notin page
    BY <1>7, <1>10 DEF S
<1>12. \A e \in Executions : /\ reader'.times[e] \in {0, 1}
                             /\ reader'.times[e] = 1 <=> e \in page \/ reader.times[e] = 1
    BY <1>4, <1>10, <1>11
<1>13. reader' \in HistoryReader
    <2>1. reader'.times \in [Executions -> Nat]
        BY <1>4, <1>12
    <2> QED
        BY <1>1, <1>2, <1>3, <1>4, <1>8, <1>9, <2>1 DEF HistoryReader
<1>14. ReadsTypeOK'
    BY <1>13, ReadKeepsType DEF ReadsIInv, ListStaffObjectExecutions, ReaderOK
<1>15. \A e \in Executions : reader'.times[e] = 1 => e \in ExecutionsOf(reader.object)
    BY <1>7, <1>10, <1>12 DEF S
\* The new cursor is before the old one.
<1>16. ASSUME full, NEW e \in ExecutionsOf(reader.object)
       PROVE  Before(e, cursor) => Before(e, reader.after)
    <2> DEFINE last == Oldest(page)
    <2>1. last \in S /\ cursor = CursorOf(last)
        BY <1>4, <1>7, <1>8, <1>16
    <2>2. Before(last, reader.after) /\ last \in Executions /\ last \in DOMAIN createdAt
        BY <1>5, <2>1 DEF S
    <2>3. /\ e \in Executions /\ createdAt[e] \in Nat /\ createdAt[last] \in Nat
          /\ Id[e] \in Nat /\ Id[last] \in Nat
        BY <1>5, <1>16, <2>1, ReadsAssumption
           DEF ExecutionsOf, ReadsIInv, ReadsTypeOK, TablesOK, IInv, TypeOK, IsTable, Time
    <2>4. cursor # NULL /\ cursor.at = createdAt[last] /\ cursor.id = Id[last]
        BY <2>1, <2>3, ReadsAssumption DEF CursorOf, Cursor
    <2>5. reader.after = NULL \/ (reader.after.at \in Nat /\ reader.after.id \in Nat)
        BY <1>2 DEF HistoryReader, Cursor
    <2> HIDE DEF last
    <2> QED
        BY <2>2, <2>3, <2>4, <2>5 DEF Before
<1>17. ASSUME full, NEW e \in Executions, reader'.times[e] = 1 PROVE ~Before(e, cursor)
    <2>1. CASE e \in page
        BY <1>4, <1>7, <1>8, <1>17, <2>1
    <2>2. CASE reader.times[e] = 1
        BY <1>10, <1>16, <1>17, <2>2
    <2> QED
        BY <1>12, <1>17, <2>1, <2>2
<1>18. ASSUME NEW e \in reader.stood, ~full \/ ~Before(e, cursor) PROVE reader'.times[e] = 1
    <2>1. e \in ExecutionsOf(reader.object) /\ e \in Executions
        BY <1>2, <1>10 DEF HistoryReader
    <2>2. CASE ~Before(e, reader.after)
        BY <1>10, <1>12, <2>1, <2>2
    <2>3. CASE Before(e, reader.after)
        <3>1. e \in S
            BY <2>1, <2>3 DEF S
        <3>2. e \in page
            BY <1>4, <1>7, <1>8, <1>18, <3>1
        <3> QED
            BY <1>12, <2>1, <3>2
    <2> QED
        BY <2>2, <2>3
<1>19. /\ ExecutionsOf(reader.object)' = ExecutionsOf(reader.object)
       /\ \A e : Before(e, reader.after)' <=> Before(e, cursor)
    BY <1>4, <1>8 DEF ListStaffObjectExecutions, vars, ExecutionsOf, Before
<1>20. PagesAddUp'
    BY <1>4, <1>10, <1>12, <1>15, <1>17, <1>18, <1>19 DEF PagesAddUp
<1> QED
    BY <1>4, <1>14, <1>20 DEF JobsHaveEvidence, SummaryIsCovered

LEMMA QueriesAre ==
    /\ Len(Queries) = 3
    /\ Queries[1] = "summary" /\ Queries[2] = "executions" /\ Queries[3] = "missed"
    BY DEF Queries

\* A summary counts the orders of each object, and what it counts done has
\* evidence in the report's tenant.
LEMMA SummaryCounts ==
    ASSUME TablesOK, NEW q \in ReportRequests
    PROVE  /\ IsTable(ReportSummaryRows(q), Objects, Counts)
           /\ DOMAIN ReportSummaryRows(q) = {ObjectOf[o] : o \in OrdersOfReport(q)}
           /\ \A ob \in DOMAIN ReportSummaryRows(q) : ReportSummaryRows(q)[ob].done
                <= Cardinality(OrdersOfJobs(ReportObjectExecutions(q), ob))
<1> DEFINE S == OrdersOfReport(q)
<1> DEFINE At(ob) == {o \in S : ObjectOf[o] = ob}
<1> DEFINE rows == ReportSummaryRows(q)
<1>1. S \subseteq DOMAIN order /\ DOMAIN order \subseteq Orders
    BY DEF OrdersOfReport, TablesOK, IInv, TypeOK, IsTable
<1>2. rows = [ob \in {ObjectOf[o] : o \in S} |-> CountsOf(At(ob))]
    BY DEF ReportSummaryRows
<1>3. ASSUME NEW ob
      PROVE  /\ CountsOf(At(ob)) \in Counts
             /\ CountsOf(At(ob)).done = Cardinality({o \in At(ob) : order[o].status = "done"})
    <2>1. ASSUME NEW T \in SUBSET S PROVE Cardinality(T) \in Nat
        <3>1. T \in SUBSET DOMAIN order
            BY <1>1
        <3> QED
            BY <3>1, FS_Subset, FS_CardinalityType DEF TablesOK, TablesAreFinite
    <2>2. /\ At(ob) \in SUBSET S
          /\ {o \in At(ob) : order[o].status = "done"} \in SUBSET S
          /\ {o \in At(ob) : order[o].status = "missed"} \in SUBSET S
        OBVIOUS
    <2>3. /\ Cardinality(At(ob)) \in Nat
          /\ Cardinality({o \in At(ob) : order[o].status = "done"}) \in Nat
          /\ Cardinality({o \in At(ob) : order[o].status = "missed"}) \in Nat
        BY <2>1, <2>2
    <2> HIDE DEF At
    <2> QED
        BY <2>3 DEF CountsOf, Counts
<1>4. ASSUME NEW ob
      PROVE  Cardinality({o \in At(ob) : order[o].status = "done"})
                <= Cardinality(OrdersOfJobs(ReportObjectExecutions(q), ob))
    <2> DEFINE done == {o \in At(ob) : order[o].status = "done"}
    <2> DEFINE jobs == OrdersOfJobs(ReportObjectExecutions(q), ob)
    <2>1. ASSUME NEW o \in done PROVE o \in jobs
        <3>1. o \in DOMAIN order /\ order[o].status = "done" /\ o \in S /\ ObjectOf[o] = ob
            BY <1>1, <2>1
        <3>2. PICK e \in EvidenceOf(o) : execution[e].deviceFinishedAt # NULL
            BY <3>1 DEF TablesOK, IInv, StatusMatchesEvidence
        <3>3. e \in DOMAIN execution /\ execution[e].order = o
            BY <3>2 DEF EvidenceOf
        <3>4. execution[e].tenant = q.tenant
            BY <3>1, <3>3 DEF TablesOK, EvidenceInTenant, OrdersOfReport
        <3>5. e \in ReportObjectExecutions(q)
            BY <3>1, <3>2, <3>3, <3>4 DEF ReportObjectExecutions
        <3> QED
            BY <3>1, <3>3, <3>5 DEF OrdersOfJobs
    <2>2. IsFiniteSet(jobs)
        <3>1. ReportObjectExecutions(q) \in SUBSET DOMAIN execution
            BY DEF ReportObjectExecutions
        <3> QED
            BY <3>1, OrdersOfJobsFinite
    <2>3. done \in SUBSET jobs
        BY <2>1
    <2> QED
        BY <2>2, <2>3, FS_Subset
<1>5. DOMAIN rows \subseteq Objects
    BY <1>1, <1>2, ReadsAssumption
<1> HIDE DEF rows, At
<1>6. IsTable(rows, Objects, Counts)
    <2>1. \A ob \in DOMAIN rows : rows[ob] \in Counts
        BY <1>2, <1>3
    <2>2. rows = [ob \in DOMAIN rows |-> rows[ob]]
        BY <1>2
    <2> QED
        BY <1>5, <2>1, <2>2 DEF IsTable
<1>7. \A ob \in DOMAIN rows :
        rows[ob].done <= Cardinality(OrdersOfJobs(ReportObjectExecutions(q), ob))
    BY <1>2, <1>3, <1>4
<1> QED
    BY <1>2, <1>6, <1>7 DEF rows

\* The jobs come to the same orders after a step that writes no execution.
LEMMA DoneStay ==
    ASSUME execution' = execution, NEW J, NEW rows,
           \A ob \in DOMAIN rows : rows[ob].done <= Cardinality(OrdersOfJobs(J, ob))
    PROVE  \A ob \in DOMAIN rows :
                rows[ob].done <= Cardinality({execution'[e].order :
                                    e \in {f \in J : ObjectOf[execution'[f].order] = ob}})
<1> SUFFICES ASSUME NEW ob \in DOMAIN rows
             PROVE  rows[ob].done <= Cardinality({execution'[e].order :
                                    e \in {f \in J : ObjectOf[execution'[f].order] = ob}})
    OBVIOUS
<1>1. {execution'[e].order : e \in {f \in J : ObjectOf[execution'[f].order] = ob}}
        = OrdersOfJobs(J, ob)
    BY DEF OrdersOfJobs
<1> QED
    BY <1>1

\* An answer is kept, and the next statement is due.
LEMMA NextQuery ==
    ASSUME NEW summary, NEW a \in ReportReader(summary)
    PROVE  LET r == [a EXCEPT !.next = @ + 1]
           IN  /\ r \in ReportReader(summary)
               /\ r.next = a.next + 1
               /\ r.kind = "report" /\ r.summary = a.summary /\ r.req = a.req
               /\ r.jobs = a.jobs /\ r.missed = a.missed /\ r.disturbed = a.disturbed
    BY DEF ReportReader

\* The three statements of a report.  The last finds no order missed that the
\* second found a job of.
LEMMA QueryKeeps ==
    ASSUME ReadsIInv, QueryReport
    PROVE  ReadsTypeOK' /\ PagesAddUp' /\ JobsHaveEvidence' /\ SummaryIsCovered'
<1>1. PICK q \in ReportRequests : q = reader.req
    BY ReaderKinds DEF QueryReport, ReadsIInv, ReportReader, HistoryReader
<1>2. /\ reader \in ReportReader(reader.summary) /\ reader.kind = "report" /\ reader # NULL
      /\ IsTable(reader.summary, Objects, Counts)
      /\ reader.next \in {1, 2, 3}
    BY ReaderKinds, QueriesAre
       DEF QueryReport, ReadsIInv, ReportReader, HistoryReader, JobsHaveEvidence
<1>3. UNCHANGED <<vars, createdAt, contract>>
    BY DEF QueryReport
<1>4. /\ OrdersOfReport(q)' = OrdersOfReport(q)
      /\ ReportObjectExecutions(q)' = ReportObjectExecutions(q)
      /\ execution' = execution
    BY <1>3 DEF vars, OrdersOfReport, ReportObjectExecutions
<1>5. /\ reader.next <= 2 => reader.jobs = {}
      /\ reader.missed = {}
      /\ reader.jobs \subseteq DOMAIN execution
    BY <1>2 DEF ReadsIInv, JobsHaveEvidence
<1>6. ~reader.disturbed =>
        /\ reader.next = 2 => DoneAreAmong(ReportObjectExecutions(q))
        /\ reader.next > 2 => DoneAreAmong(reader.jobs)
        /\ reader.next > 1 =>
                DOMAIN reader.summary = {ObjectOf[o] : o \in OrdersOfReport(q)}
        /\ \A e \in reader.jobs : execution[e].order \in OrdersOfReport(q)
    BY <1>1, <1>2 DEF ReadsIInv, SummaryIsCovered
<1>7. CASE reader.next = 1
    <2>1. PICK answered, rows :
            /\ rows = ReportSummaryRows(q)
            /\ answered = [reader EXCEPT !.summary = rows]
            /\ reader' = [answered EXCEPT !.next = @ + 1]
        BY <1>1, <1>7, QueriesAre DEF QueryReport, Answered
    <2>2. /\ answered \in ReportReader(rows) /\ answered.summary = rows
          /\ answered.next = 1 /\ answered.req = q
          /\ answered.jobs = {} /\ answered.missed = {}
        BY <1>1, <1>2, <1>5, <1>7, <2>1 DEF ReportReader
    <2>3. /\ reader' \in ReportReader(rows) /\ reader'.summary = rows
          /\ reader'.kind = "report" /\ reader'.next = 2 /\ reader'.req = q
          /\ reader'.jobs = {} /\ reader'.missed = {}
        <3>1. /\ reader' \in ReportReader(rows)
              /\ reader'.next = answered.next + 1
              /\ reader'.kind = "report" /\ reader'.summary = answered.summary
              /\ reader'.req = answered.req /\ reader'.jobs = answered.jobs
              /\ reader'.missed = answered.missed /\ reader'.disturbed = answered.disturbed
            <4>1. answered \in ReportReader(rows)
                BY <2>2
            <4>2. reader' = [answered EXCEPT !.next = @ + 1]
                BY <2>1
            <4> QED
                BY <4>1, <4>2, NextQuery
        <3> QED
            BY <2>2, <3>1
    <2>4. /\ IsTable(rows, Objects, Counts)
          /\ DOMAIN rows = {ObjectOf[o] : o \in OrdersOfReport(q)}
          /\ \A ob \in DOMAIN rows :
                rows[ob].done <= Cardinality(OrdersOfJobs(ReportObjectExecutions(q), ob))
        BY <2>1, SummaryCounts DEF ReadsIInv
    <2>5. ReadsTypeOK'
        BY <1>3, <2>3, <2>4, ReadKeepsType DEF ReaderOK, ReadsIInv
    <2>6. /\ OrdersOfReport(reader.req)' = OrdersOfReport(q)
          /\ ReportObjectExecutions(reader.req)' = ReportObjectExecutions(q)
        BY <1>4, <2>3 DEF OrdersOfReport, ReportObjectExecutions
    <2>7. DoneAreAmong(ReportObjectExecutions(reader.req))'
        <3>1. PICK J : J = ReportObjectExecutions(q)
            OBVIOUS
        <3>2. \A ob \in DOMAIN rows :
                rows[ob].done <= Cardinality({execution'[e].order :
                                    e \in {f \in J : ObjectOf[execution'[f].order] = ob}})
            <4>1. \A ob \in DOMAIN rows :
                    rows[ob].done <= Cardinality(OrdersOfJobs(J, ob))
                BY <2>4, <3>1
            <4> QED
                BY <1>4, <4>1, DoneStay, Zenon
        <3>3. ReportObjectExecutions(reader.req)' = J
            BY <1>4, <2>6, <3>1
        <3> QED
            BY <2>3, <3>2, <3>3 DEF DoneAreAmong, OrdersOfJobs
    <2> QED
        BY <2>3, <2>4, <2>5, <2>6, <2>7 DEF PagesAddUp, JobsHaveEvidence, SummaryIsCovered
<1>8. CASE reader.next = 2
    <2>1. PICK jobs : jobs = ReportObjectExecutions(q)
        OBVIOUS
    <2>2. PICK answered :
            /\ answered = [reader EXCEPT !.jobs = jobs]
            /\ reader' = [answered EXCEPT !.next = @ + 1]
        BY <1>1, <1>8, <2>1, QueriesAre DEF QueryReport, Answered
    <2>3. jobs \in SUBSET Executions /\ jobs \subseteq DOMAIN execution
        BY <2>1 DEF ReportObjectExecutions, ReadsIInv, TablesOK, IInv, TypeOK, IsTable
    <2>4. /\ reader' \in ReportReader(reader.summary) /\ reader'.summary = reader.summary
          /\ reader'.kind = "report" /\ reader'.next = 3 /\ reader'.req = q
          /\ reader'.jobs = jobs /\ reader'.missed = {}
          /\ reader'.disturbed = reader.disturbed
        <3>1. /\ answered \in ReportReader(reader.summary) /\ answered.summary = reader.summary
              /\ answered.next = 2 /\ answered.req = q
              /\ answered.jobs = jobs /\ answered.missed = {}
              /\ answered.disturbed = reader.disturbed
            BY <1>1, <1>2, <1>5, <1>8, <2>2, <2>3 DEF ReportReader
        <3>2. /\ reader' \in ReportReader(reader.summary)
              /\ reader'.next = answered.next + 1
              /\ reader'.kind = "report" /\ reader'.summary = answered.summary
              /\ reader'.req = answered.req /\ reader'.jobs = answered.jobs
              /\ reader'.missed = answered.missed /\ reader'.disturbed = answered.disturbed
            <4>1. answered \in ReportReader(reader.summary)
                BY <3>1
            <4>2. reader' = [answered EXCEPT !.next = @ + 1]
                BY <2>2
            <4> QED
                BY <4>1, <4>2, NextQuery
        <3> QED
            BY <3>1, <3>2
    <2>5. ReadsTypeOK'
        BY <1>2, <1>3, <2>4, ReadKeepsType DEF ReaderOK, ReadsIInv
    <2>6. \A e \in jobs : execution[e].order \in OrdersOfReport(q)
        BY <2>1 DEF ReportObjectExecutions
    <2>7. OrdersOfReport(reader.req)' = OrdersOfReport(q) /\ execution' = execution
        BY <1>3, <1>4, <2>4 DEF OrdersOfReport, vars
    <2>8. ~reader.disturbed => DoneAreAmong(reader.jobs)'
        <3> SUFFICES ASSUME ~reader.disturbed PROVE DoneAreAmong(reader.jobs)'
            OBVIOUS
        <3>1. \A ob \in DOMAIN reader.summary :
                reader.summary[ob].done <= Cardinality(OrdersOfJobs(jobs, ob))
            BY <1>6, <1>8, <2>1, <2>4 DEF DoneAreAmong
        <3>2. PICK rows : rows = reader.summary
            OBVIOUS
        <3>3. \A ob \in DOMAIN rows :
                rows[ob].done <= Cardinality({execution'[e].order :
                                    e \in {f \in jobs : ObjectOf[execution'[f].order] = ob}})
            <4>1. \A ob \in DOMAIN rows :
                    rows[ob].done <= Cardinality(OrdersOfJobs(jobs, ob))
                BY <3>1, <3>2
            <4> QED
                BY <1>4, <4>1, DoneStay, Zenon
        <3> QED
            BY <2>4, <3>2, <3>3 DEF DoneAreAmong, OrdersOfJobs
    <2> QED
        BY <1>6, <1>8, <2>3, <2>4, <2>5, <2>6, <2>7, <2>8
           DEF PagesAddUp, JobsHaveEvidence, SummaryIsCovered
<1>9. CASE reader.next = 3
    <2>1. PICK missed : missed = ReportMissedOrders(q)
        OBVIOUS
    <2>2. PICK answered :
            /\ answered = [reader EXCEPT !.missed = missed]
            /\ reader' = [answered EXCEPT !.next = @ + 1]
        BY <1>1, <1>9, <2>1, QueriesAre DEF QueryReport, Answered
    <2>3. missed \in SUBSET Orders
        BY <2>1 DEF ReportMissedOrders, OrdersOfReport, ReadsIInv, TablesOK, IInv, TypeOK, IsTable
    <2>4. /\ reader' \in ReportReader(reader.summary) /\ reader'.summary = reader.summary
          /\ reader'.kind = "report" /\ reader'.next = 4 /\ reader'.req = q
          /\ reader'.jobs = reader.jobs /\ reader'.missed = missed
          /\ reader'.disturbed = reader.disturbed
        <3>1. /\ answered \in ReportReader(reader.summary) /\ answered.summary = reader.summary
              /\ answered.next = 3 /\ answered.req = q
              /\ answered.jobs = reader.jobs /\ answered.missed = missed
              /\ answered.disturbed = reader.disturbed
            BY <1>1, <1>2, <1>9, <2>2, <2>3 DEF ReportReader
        <3>2. /\ reader' \in ReportReader(reader.summary)
              /\ reader'.next = answered.next + 1
              /\ reader'.kind = "report" /\ reader'.summary = answered.summary
              /\ reader'.req = answered.req /\ reader'.jobs = answered.jobs
              /\ reader'.missed = answered.missed /\ reader'.disturbed = answered.disturbed
            <4>1. answered \in ReportReader(reader.summary)
                BY <3>1
            <4>2. reader' = [answered EXCEPT !.next = @ + 1]
                BY <2>2
            <4> QED
                BY <4>1, <4>2, NextQuery
        <3> QED
            BY <3>1, <3>2
    <2>5. ReadsTypeOK'
        BY <1>2, <1>3, <2>4, ReadKeepsType DEF ReaderOK, ReadsIInv
    <2>6. ASSUME NEW e \in reader.jobs PROVE execution[e].order \notin missed
        <3> SUFFICES ASSUME execution[e].order \in missed PROVE FALSE
            OBVIOUS
        <3>1. /\ execution[e].order \in DOMAIN order
              /\ order[execution[e].order].status = "missed"
            BY <2>1 DEF ReportMissedOrders, OrdersOfReport
        <3>2. EvidenceOf(execution[e].order) = {}
            BY <3>1 DEF ReadsIInv, TablesOK, IInv, StatusMatchesEvidence
        <3>3. e \in EvidenceOf(execution[e].order)
            BY <1>5 DEF EvidenceOf
        <3> QED
            BY <3>2, <3>3
    <2>7. OrdersOfReport(reader.req)' = OrdersOfReport(q) /\ execution' = execution
        BY <1>3, <1>4, <2>4 DEF OrdersOfReport, vars
    <2>8. ~reader.disturbed => DoneAreAmong(reader.jobs)'
        <3>0. PICK J : J = reader.jobs
            OBVIOUS
        <3> SUFFICES ASSUME ~reader.disturbed PROVE DoneAreAmong(reader.jobs)'
            OBVIOUS
        <3>1. \A ob \in DOMAIN reader.summary :
                reader.summary[ob].done <= Cardinality(OrdersOfJobs(J, ob))
            BY <1>6, <1>9, <3>0, <2>4 DEF DoneAreAmong
        <3>2. PICK rows : rows = reader.summary
            OBVIOUS
        <3>3. \A ob \in DOMAIN rows :
                rows[ob].done <= Cardinality({execution'[e].order :
                                    e \in {f \in J : ObjectOf[execution'[f].order] = ob}})
            <4>1. \A ob \in DOMAIN rows :
                    rows[ob].done <= Cardinality(OrdersOfJobs(J, ob))
                BY <3>1, <3>2
            <4> QED
                BY <1>4, <4>1, DoneStay, Zenon
        <3> QED
            BY <2>4, <3>0, <3>2, <3>3 DEF DoneAreAmong, OrdersOfJobs
    <2> QED
        BY <1>5, <1>6, <1>9, <2>4, <2>5, <2>6, <2>7, <2>8
           DEF PagesAddUp, JobsHaveEvidence, SummaryIsCovered
<1> QED
    BY <1>2, <1>7, <1>8, <1>9

LEMMA ReadsInitOK == ReadsInit => ReadsIInv
<1> SUFFICES ASSUME ReadsInit PROVE ReadsIInv
    OBVIOUS
<1>1. TablesOK
    BY TablesInit DEF ReadsInit
<1>2. ReadsTypeOK
    BY DEF ReadsInit, Init, ReadsTypeOK, EmptyTable, Time
<1> QED
    BY <1>1, <1>2 DEF ReadsInit, ReadsIInv, PagesAddUp, JobsHaveEvidence, SummaryIsCovered

LEMMA ReadsIInvStep == ReadsIInv /\ [ReadsNext]_readsVars => ReadsIInv'
<1> SUFFICES ASSUME ReadsIInv, [ReadsNext]_readsVars PROVE ReadsIInv'
    OBVIOUS
<1>1. TablesOK' /\ EvidenceKept
    BY ReadsNextIsNext, TablesStep DEF ReadsIInv
<1>2. CASE Write
    BY <1>1, <1>2, WriteKeepsReads
<1>3. ASSUME NEW q \in ReportRequests, BeginReport(q) PROVE ReadsIInv'
    BY <1>1, <1>3, BeginReportKeeps DEF ReadsIInv
<1>4. CASE QueryReport
    BY <1>1, <1>4, QueryKeeps DEF ReadsIInv
<1>5. ASSUME NEW ob \in Objects, BeginHistory(ob) PROVE ReadsIInv'
    BY <1>1, <1>5, BeginHistoryKeeps DEF ReadsIInv
<1>6. CASE ListStaffObjectExecutions
    BY <1>1, <1>6, PageKeeps DEF ReadsIInv
<1>7. CASE EndRead
    <2>1. ReadsTypeOK'
        BY <1>7, ReadKeepsType DEF EndRead, ReaderOK, ReadsIInv
    <2> QED
        BY <1>1, <1>7, <2>1
           DEF EndRead, ReadsIInv, PagesAddUp, JobsHaveEvidence, SummaryIsCovered
<1>8. CASE UNCHANGED readsVars
    <2>1. ReadsTypeOK'
        BY <1>8 DEF readsVars, vars, ReadsIInv, ReadsTypeOK, HistoryReader, ReportReader
    <2> QED
        BY <1>1, <1>8, <2>1
           DEF readsVars, vars, ReadsIInv, PagesAddUp, JobsHaveEvidence, SummaryIsCovered,
               ExecutionsOf, Before, DoneAreAmong, OrdersOfJobs, ReportObjectExecutions,
               OrdersOfReport
<1> QED
    BY <1>2, <1>3, <1>4, <1>5, <1>6, <1>7, <1>8 DEF ReadsNext, Read

LEMMA ReadsInductive == ReadsSpec => []ReadsIInv
    BY ReadsInitOK, ReadsIInvStep, PTL DEF ReadsSpec

-----------------------------------------------------------------------------
(***************************************************************************)
(* Sums over the objects of a report.  A fold is a recursive function; two *)
(* functions that satisfy the same recursion agree, or there were a least  *)
(* set they differ on.  The count of the whole satisfies it.               *)
(***************************************************************************)

AnyOf(s) == CHOOSE x \in s : TRUE

\* g adds up F over the subsets of D.
Adds(g, F, D) ==
    g = [s \in SUBSET D |-> IF s = {} THEN 0 ELSE F[AnyOf(s)] + g[s \ {AnyOf(s)}]]

LEMMA AddsIsUnique ==
    ASSUME NEW D, IsFiniteSet(D), NEW F, NEW g, NEW h, Adds(g, F, D), Adds(h, F, D)
    PROVE  g[D] = h[D]
<1> DEFINE Differ == {s \in SUBSET D : g[s] # h[s]}
<1> DEFINE rank == [s \in Differ |-> Cardinality(s)]
<1>1. \A s \in SUBSET D : IsFiniteSet(s) /\ Cardinality(s) \in Nat
    BY FS_Subset, FS_CardinalityType
<1>2. SUFFICES ASSUME Differ # {} PROVE FALSE
    OBVIOUS
<1>3. PICK s \in Differ : \A r \in Differ : Cardinality(s) <= Cardinality(r)
    <2>1. rank \in [Differ -> Nat]
        BY <1>1
    <2>2. \E s \in Differ : \A r \in Differ : rank[s] <= rank[r]
        BY <1>2, <2>1, LeastRank
    <2> QED
        BY <2>2
<1>4. s # {}
    BY <1>3 DEF Adds
<1>5. AnyOf(s) \in s /\ s \ {AnyOf(s)} \in SUBSET D
    BY <1>3, <1>4 DEF AnyOf
<1>6. /\ g[s] = F[AnyOf(s)] + g[s \ {AnyOf(s)}]
      /\ h[s] = F[AnyOf(s)] + h[s \ {AnyOf(s)}]
    BY <1>3, <1>4 DEF Adds
<1>7. Cardinality(s \ {AnyOf(s)}) = Cardinality(s) - 1
    BY <1>1, <1>3, <1>5, FS_RemoveElement
<1>8. s \ {AnyOf(s)} \notin Differ
    BY <1>1, <1>3, <1>5, <1>7
<1> QED
    BY <1>3, <1>5, <1>6, <1>8

\* The orders of P at the objects of s.
AtAnyOf(P, s) == {o \in P : ObjectOf[o] \in s}

CountsOn(P, D) == [s \in SUBSET D |-> Cardinality(AtAnyOf(P, s))]

\* They are those at one of the objects and those at the others.
LEMMA CountsAdd ==
    ASSUME NEW P, IsFiniteSet(P), NEW D, NEW F,
           \A ob \in D : F[ob] = Cardinality({o \in P : ObjectOf[o] = ob})
    PROVE  Adds(CountsOn(P, D), F, D)
<1> DEFINE g == CountsOn(P, D)
<1>1. ASSUME NEW s \in SUBSET D
      PROVE  g[s] = IF s = {} THEN 0 ELSE F[AnyOf(s)] + g[s \ {AnyOf(s)}]
    <2>1. CASE s = {}
        <3>1. AtAnyOf(P, s) = {}
            BY <2>1 DEF AtAnyOf
        <3> QED
            BY <2>1, <3>1, FS_EmptySet DEF CountsOn
    <2>2. CASE s # {}
        <3> DEFINE x == AnyOf(s)
        <3> DEFINE here == {o \in P : ObjectOf[o] = x}
        <3> DEFINE rest == AtAnyOf(P, s \ {x})
        <3>1. x \in s
            BY <2>2 DEF AnyOf
        <3> HIDE DEF x
        <3>2. AtAnyOf(P, s) = here \cup rest /\ here \cap rest = {}
            BY <3>1 DEF AtAnyOf
        <3>3. here \in SUBSET P /\ rest \in SUBSET P
            BY DEF AtAnyOf
        <3>4. /\ g[s] = Cardinality(AtAnyOf(P, s)) /\ F[x] = Cardinality(here)
              /\ g[s \ {x}] = Cardinality(rest)
            BY <3>1 DEF CountsOn
        <3> HIDE DEF here, rest
        <3>5. /\ IsFiniteSet(here) /\ Cardinality(here) \in Nat
              /\ IsFiniteSet(rest) /\ Cardinality(rest) \in Nat
            BY <3>3, FS_Subset, FS_CardinalityType
        <3>6. Cardinality(here \cap rest) = 0
            BY <3>2, FS_EmptySet
        <3>7. Cardinality(AtAnyOf(P, s)) = Cardinality(here) + Cardinality(rest)
            <4>1. Cardinality(here \cup rest) =
                    Cardinality(here) + Cardinality(rest) - Cardinality(here \cap rest)
                BY <3>5, FS_Union
            <4> QED
                BY <3>2, <3>5, <3>6, <4>1
        <3>8. g[s] = F[x] + g[s \ {x}]
            BY <3>4, <3>7
        <3> QED
            BY <2>2, <3>8 DEF x
    <2> QED
        BY <2>1, <2>2
<1>2. g = [s \in SUBSET D |-> g[s]]
    BY DEF CountsOn
<1> HIDE DEF g
<1>3. g = [s \in SUBSET D |-> IF s = {} THEN 0 ELSE F[AnyOf(s)] + g[s \ {AnyOf(s)}]]
    BY <1>1, <1>2
<1> QED
    BY <1>3 DEF Adds, g

LEMMA SumIsCount ==
    ASSUME NEW P, IsFiniteSet(P), NEW D, IsFiniteSet(D), \A o \in P : ObjectOf[o] \in D,
           NEW F, \A ob \in D : F[ob] = Cardinality({o \in P : ObjectOf[o] = ob}),
           NEW g, Adds(g, F, D)
    PROVE  g[D] = Cardinality(P)
<1>1. Adds(CountsOn(P, D), F, D)
    BY CountsAdd
<1>2. g[D] = CountsOn(P, D)[D]
    BY <1>1, AddsIsUnique
<1>3. AtAnyOf(P, D) = P
    BY DEF AtAnyOf
<1> QED
    BY <1>2, <1>3 DEF CountsOn

\* What the fold of a field of the rows is: the sums of that field.
LEMMA TotalAdds ==
    ASSUME NEW rows, NEW planned, NEW done,
           planned = [ob \in DOMAIN rows |-> rows[ob].planned],
           done = [ob \in DOMAIN rows |-> rows[ob].done],
           NEW g, NEW h, Adds(g, planned, DOMAIN rows), Adds(h, done, DOMAIN rows)
    PROVE  /\ \E k : /\ Adds(k, planned, DOMAIN rows)
                     /\ Total(rows, LAMBDA r : r.planned) = k[DOMAIN rows]
           /\ \E k : /\ Adds(k, done, DOMAIN rows)
                     /\ Total(rows, LAMBDA r : r.done) = k[DOMAIN rows]
<1> DEFINE D == DOMAIN rows
<1> DEFINE Plans(k) == k = [s \in SUBSET D |->
                IF s = {} THEN 0
                ELSE rows[CHOOSE x \in s : TRUE].planned + k[s \ {CHOOSE x \in s : TRUE}]]
<1> DEFINE Dones(k) == k = [s \in SUBSET D |->
                IF s = {} THEN 0
                ELSE rows[CHOOSE x \in s : TRUE].done + k[s \ {CHOOSE x \in s : TRUE}]]
<1>1. /\ Total(rows, LAMBDA r : r.planned) = (CHOOSE k : Plans(k))[D]
      /\ Total(rows, LAMBDA r : r.done) = (CHOOSE k : Dones(k))[D]
    BY Zenon DEF Total, MapThenSumSet, MapThenFoldSet
<1>2. ASSUME NEW s \in SUBSET D, s # {}
      PROVE  /\ rows[AnyOf(s)].planned = planned[AnyOf(s)]
             /\ rows[AnyOf(s)].done = done[AnyOf(s)]
    BY <1>2 DEF AnyOf
<1>3. ASSUME NEW k PROVE Plans(k) <=> Adds(k, planned, D)
    <2>1. [s \in SUBSET D |-> IF s = {} THEN 0
                ELSE rows[AnyOf(s)].planned + k[s \ {AnyOf(s)}]]
            = [s \in SUBSET D |-> IF s = {} THEN 0 ELSE planned[AnyOf(s)] + k[s \ {AnyOf(s)}]]
        BY <1>2
    <2> QED
        BY <2>1 DEF Adds, AnyOf
<1>4. ASSUME NEW k PROVE Dones(k) <=> Adds(k, done, D)
    <2>1. [s \in SUBSET D |-> IF s = {} THEN 0
                ELSE rows[AnyOf(s)].done + k[s \ {AnyOf(s)}]]
            = [s \in SUBSET D |-> IF s = {} THEN 0 ELSE done[AnyOf(s)] + k[s \ {AnyOf(s)}]]
        BY <1>2
    <2> QED
        BY <2>1 DEF Adds, AnyOf
<1> HIDE DEF Plans, Dones
<1>5. Plans(CHOOSE k : Plans(k)) /\ Dones(CHOOSE k : Dones(k))
    <2>1. Plans(g) /\ Dones(h)
        BY <1>3, <1>4
    <2> QED
        BY <2>1, Zenon
<1>6. /\ Adds(CHOOSE k : Plans(k), planned, D)
      /\ Adds(CHOOSE k : Dones(k), done, D)
    BY <1>3, <1>4, <1>5
<1> QED
    BY <1>1, <1>6, Zenon

-----------------------------------------------------------------------------
(***************************************************************************)
(* The dashboard: one row per order, so it counts orders.                  *)
(***************************************************************************)

\* Of the executions of an order, which are in a strict order, one is the latest.
LEMMA OneLatest ==
    ASSUME TablesOK, CreatedOK, NEW o
    PROVE  \E e \in Executions \cup {NULL} : LatestExecutionOf(o) = {e}
<1>1. CASE EvidenceOf(o) = {}
    BY <1>1 DEF LatestExecutionOf
<1>2. CASE EvidenceOf(o) # {}
    <2> DEFINE S == EvidenceOf(o)
    <2> DEFINE rank == [e \in S |-> Cardinality(Newer(S, e))]
    <2>1. S \in SUBSET DOMAIN execution /\ DOMAIN execution \subseteq Executions
        BY DEF EvidenceOf, TablesOK, IInv, TypeOK, IsTable
    <2>2. /\ S \in SUBSET Executions /\ S \subseteq DOMAIN createdAt
          /\ \A e \in S : createdAt[e] \in Nat
        BY <2>1 DEF CreatedOK, Time
    <2>3. IsFiniteSet(S)
        BY <2>1, FS_Subset DEF TablesOK, TablesAreFinite
    <2> HIDE DEF S
    <2>4. /\ \A e \in S : Cardinality(Newer(S, e)) \in Nat
          /\ \A e, f \in S : Before(e, CursorOf(f)) =>
                Cardinality(Newer(S, f)) < Cardinality(Newer(S, e))
        BY <2>2, <2>3, NewerShrinks
    <2>5. \A e, f \in S : e # f => (Before(e, CursorOf(f)) <=> ~Before(f, CursorOf(e)))
        BY <2>2, BeforeOrders
    <2>6. PICK e \in S : \A f \in S : Cardinality(Newer(S, e)) <= Cardinality(Newer(S, f))
        <3>1. rank \in [S -> Nat] /\ S # {}
            BY <1>2, <2>4 DEF S
        <3>2. \E e \in S : \A f \in S : rank[e] <= rank[f]
            BY <3>1, LeastRank
        <3> QED
            BY <3>2
    <2>7. \A f \in S \ {e} : Before(f, CursorOf(e))
        BY <2>4, <2>5, <2>6
    <2>8. LatestExecutionOf(o) = {f \in S : \A g \in S \ {f} : Before(g, CursorOf(f))}
        BY <1>2 DEF LatestExecutionOf, S
    <2>9. LatestExecutionOf(o) = {e}
        BY <2>5, <2>6, <2>7, <2>8
    <2> QED
        BY <2>2, <2>6, <2>9
<1> QED
    BY <1>1, <1>2

RowsOf(A) ==
    {row \in [order: A, last: Executions \cup {NULL}] : row.last \in LatestExecutionOf(row.order)}

LEMMA RowsCountOrders ==
    ASSUME TablesOK, CreatedOK, NEW A, IsFiniteSet(A)
    PROVE  Cardinality(RowsOf(A)) = Cardinality(A)
<1> DEFINE row == [o \in A |-> [order |-> o, last |-> CHOOSE e : e \in LatestExecutionOf(o)]]
<1>1. \A o \in A : /\ row[o].order = o
                   /\ row[o].last \in Executions \cup {NULL}
                   /\ LatestExecutionOf(o) = {row[o].last}
    <2> SUFFICES ASSUME NEW o \in A
                 PROVE  /\ row[o].order = o
                        /\ row[o].last \in Executions \cup {NULL}
                        /\ LatestExecutionOf(o) = {row[o].last}
        OBVIOUS
    <2>1. PICK e \in Executions \cup {NULL} : LatestExecutionOf(o) = {e}
        BY OneLatest
    <2>2. (CHOOSE f : f \in LatestExecutionOf(o)) = e
        BY <2>1
    <2> QED
        BY <2>1, <2>2
<1>2. \A o \in A : row[o] \in RowsOf(A)
    BY <1>1 DEF RowsOf
<1>3. ASSUME NEW r \in RowsOf(A) PROVE r.order \in A /\ row[r.order] = r
    <2>1. r.order \in A /\ r.last \in LatestExecutionOf(r.order)
        BY DEF RowsOf
    <2>2. r.last = row[r.order].last
        BY <1>1, <2>1
    <2>3. /\ r = [order |-> r.order, last |-> r.last]
          /\ row[r.order] = [order |-> r.order, last |-> row[r.order].last]
        BY <2>1 DEF RowsOf
    <2> QED
        BY <2>1, <2>2, <2>3
<1>4. row \in [A -> RowsOf(A)]
    BY <1>2
<1>5. \A o, p \in A : row[o] = row[p] => o = p
    BY <1>1
<1> HIDE DEF row
<1>6. row \in Bijection(A, RowsOf(A))
    BY <1>3, <1>4, <1>5 DEF Bijection, Injection, IsInjective, Surjection
<1>7. ExistsBijection(A, RowsOf(A))
    BY <1>6 DEF ExistsBijection
<1> QED
    BY <1>7, FS_Bijection

\* The counts of a dashboard are of orders, and those of a report of the day of
\* the same ones.
LEMMA DashboardCounts ==
    ASSUME TablesOK, CreatedOK, NEW t \in Tenants, NEW date \in Nat
    PROVE  LET q == [tenant |-> t, from |-> date, to |-> date, contract |-> NULL]
               S == OrdersOfReport(q)
           IN  /\ DashboardTotals(t, date).total = Cardinality(S)
               /\ DashboardTotals(t, date).done =
                    Cardinality({o \in S : order[o].status = "done"})
               /\ date = TenantToday(t) => DashboardTotals(t, date).overdue = 0
<1> DEFINE q == [tenant |-> t, from |-> date, to |-> date, contract |-> NULL]
<1> DEFINE S == OrdersOfReport(q)
<1> DEFINE done == {o \in S : order[o].status = "done"}
<1> DEFINE rows == ListDashboardOrders(t, date)
<1>1. S \in SUBSET DOMAIN order /\ done \in SUBSET DOMAIN order
    BY DEF OrdersOfReport
<1>2. S = {o \in DOMAIN order : order[o].tenant = t /\ order[o].due = date}
    <2>1. \A o \in DOMAIN order : order[o].due \in Nat
        BY DEF TablesOK, IInv, TypeOK, IsTable, OrderRow
    <2> QED
        BY <2>1 DEF OrdersOfReport
<1>3. IsFiniteSet(S) /\ IsFiniteSet(done)
    BY <1>1, FS_Subset DEF TablesOK, TablesAreFinite
<1>4. rows = RowsOf(S)
    BY <1>2 DEF ListDashboardOrders, RowsOf
<1>5. {r \in rows : order[r.order].status \in {"done"}} = RowsOf(done)
    <2> HIDE DEF S
    <2> QED
        BY <1>4 DEF RowsOf
<1>6. /\ DashboardTotals(t, date).total = Cardinality(rows)
      /\ DashboardTotals(t, date).done =
            Cardinality({r \in rows : order[r.order].status \in {"done"}})
    <2> HIDE DEF rows
    <2> QED
        BY DEF DashboardTotals, rows
<1>7. ASSUME date = TenantToday(t) PROVE DashboardTotals(t, date).overdue = 0
    <2>1. ~(date < TenantToday(t))
        BY <1>7
    <2> QED
        BY <2>1 DEF DashboardTotals
<1> HIDE DEF S, done, rows
<1>8. Cardinality(RowsOf(S)) = Cardinality(S) /\ Cardinality(RowsOf(done)) = Cardinality(done)
    BY <1>3, RowsCountOrders
<1> QED
    BY <1>4, <1>5, <1>6, <1>7, <1>8 DEF S, done

\* The totals of a report's summary count each of its orders once.
LEMMA ReportTotals ==
    ASSUME TablesOK, NEW q
    PROVE  LET S == OrdersOfReport(q)
           IN  /\ Total(ReportSummaryRows(q), LAMBDA r : r.planned) = Cardinality(S)
               /\ Total(ReportSummaryRows(q), LAMBDA r : r.done) =
                    Cardinality({o \in S : order[o].status = "done"})
<1> DEFINE S == OrdersOfReport(q)
<1> DEFINE done == {o \in S : order[o].status = "done"}
<1> DEFINE rows == ReportSummaryRows(q)
<1> DEFINE D == DOMAIN rows
<1> DEFINE planned == [ob \in D |-> rows[ob].planned]
<1> DEFINE dones == [ob \in D |-> rows[ob].done]
<1>1. S \in SUBSET DOMAIN order /\ done \in SUBSET S
    BY DEF OrdersOfReport
<1>2. IsFiniteSet(S) /\ IsFiniteSet(done)
    BY <1>1, FS_Subset DEF TablesOK, TablesAreFinite
<1>3. D = {ObjectOf[o] : o \in S}
    BY DEF ReportSummaryRows
<1>4. ASSUME NEW ob \in D
      PROVE  /\ planned[ob] = Cardinality({o \in S : ObjectOf[o] = ob})
             /\ dones[ob] = Cardinality({o \in done : ObjectOf[o] = ob})
    <2>1. rows[ob] = CountsOf({o \in S : ObjectOf[o] = ob})
        BY <1>3 DEF ReportSummaryRows
    <2>2. {o \in {p \in S : ObjectOf[p] = ob} : order[o].status = "done"}
            = {o \in done : ObjectOf[o] = ob}
        OBVIOUS
    <2> DEFINE here == {p \in S : ObjectOf[p] = ob}
    <2> DEFINE doneHere == {o \in here : order[o].status = "done"}
    <2>3. planned[ob] = rows[ob].planned /\ dones[ob] = rows[ob].done
        OBVIOUS
    <2> HIDE DEF S, done, rows, here, planned, dones
    <2>4. rows[ob].planned = Cardinality(here) /\ rows[ob].done = Cardinality(doneHere)
        BY <2>1 DEF CountsOf, here
    <2> QED
        BY <2>2, <2>3, <2>4 DEF here
<1> HIDE DEF S, done, rows
<1>5. IsFiniteSet(D)
    <2> DEFINE at == [o \in S |-> ObjectOf[o]]
    <2>1. at \in Surjection(S, D)
        BY <1>3 DEF Surjection
    <2> QED
        BY <1>2, <2>1, FS_Surjection
<1>6. /\ \A o \in S : ObjectOf[o] \in D
      /\ \A o \in done : ObjectOf[o] \in D
    BY <1>1, <1>3
<1> HIDE DEF D
<1>7. /\ planned = [ob \in DOMAIN rows |-> rows[ob].planned]
      /\ dones = [ob \in DOMAIN rows |-> rows[ob].done]
    BY DEF D
<1> HIDE DEF planned, dones
<1>8. Adds(CountsOn(S, D), planned, D) /\ Adds(CountsOn(done, D), dones, D)
    BY <1>2, <1>4, CountsAdd
<1>9. /\ \E k : Adds(k, planned, D) /\ Total(rows, LAMBDA r : r.planned) = k[D]
      /\ \E k : Adds(k, dones, D) /\ Total(rows, LAMBDA r : r.done) = k[D]
    BY <1>7, <1>8, TotalAdds, Zenon DEF D
<1>10. /\ \A k : Adds(k, planned, D) => k[D] = Cardinality(S)
       /\ \A k : Adds(k, dones, D) => k[D] = Cardinality(done)
    BY <1>2, <1>4, <1>5, <1>6, SumIsCount
<1>11. /\ Total(rows, LAMBDA r : r.planned) = Cardinality(S)
       /\ Total(rows, LAMBDA r : r.done) = Cardinality(done)
    BY <1>9, <1>10, Zenon
<1> QED
    BY <1>11, Zenon DEF S, done, rows

-----------------------------------------------------------------------------
(***************************************************************************)
(* Theorems                                                                *)
(***************************************************************************)

\* The reads in flight, the creation times and the contracts keep their types,
\* and no execution was created in the future.
THEOREM ReadsTypeCorrect == ReadsSpec => []ReadsTypeOK
<1>1. ReadsIInv => ReadsTypeOK
    BY DEF ReadsIInv
<1> QED
    BY <1>1, ReadsInductive, PTL

\* A history leaves no execution out and returns none twice, for any page size,
\* any number of executions of one instant and any uploads between the pages.
THEOREM HistoriesAreExact == ReadsSpec => []HistoryIsExact
<1>1. ReadsIInv => HistoryIsExact
    <2> SUFFICES ASSUME ReadsIInv, reader # NULL, reader.kind = "history", NEW e \in Executions
                 PROVE  /\ reader.times[e] <= 1
                        /\ ~reader.more /\ e \in reader.stood => reader.times[e] = 1
        BY DEF HistoryIsExact
    <2> QED
        BY DEF ReadsIInv, PagesAddUp
<1> QED
    BY <1>1, ReadsInductive, PTL

\* No report shows a job of an order it lists as missed.
THEOREM MissedOrdersHaveNoJob == ReadsSpec => []MissedHasNoJob
<1>1. ReadsIInv => MissedHasNoJob
    BY DEF ReadsIInv, JobsHaveEvidence, MissedHasNoJob, Built
<1> QED
    BY <1>1, ReadsInductive, PTL

\* A report nobody disturbs drops no job, and every order its summary counts
\* done has one, though uploads and sweeps go on between its statements.
THEOREM ReportsCoverDone == ReadsSpec => []ReportCoversDone
<1>1. ReadsIInv => ReportCoversDone
    <2> SUFFICES ASSUME ReadsIInv, Built, ~reader.disturbed
                 PROVE  /\ Printed = reader.jobs
                        /\ \A ob \in DOMAIN reader.summary :
                            reader.summary[ob].done <= Cardinality(OrdersDone(ob))
        BY DEF ReportCoversDone
    <2>1. reader # NULL /\ reader.kind = "report" /\ reader.next > 3
        BY QueriesAre DEF Built
    <2>2. reader.next \in Nat
        BY <2>1, ReaderKinds DEF ReadsIInv, ReportReader, HistoryReader
    <2>3. /\ DoneAreAmong(reader.jobs)
          /\ DOMAIN reader.summary = {ObjectOf[o] : o \in OrdersOfReport(reader.req)}
          /\ \A e \in reader.jobs : execution[e].order \in OrdersOfReport(reader.req)
        BY <2>1, <2>2 DEF ReadsIInv, SummaryIsCovered
    <2>4. Printed = reader.jobs
        BY <2>3 DEF Printed
    <2>5. \A ob : OrdersDone(ob) = OrdersOfJobs(reader.jobs, ob)
        BY <2>4 DEF OrdersDone, OrdersOfJobs
    <2> QED
        BY <2>3, <2>4, <2>5 DEF DoneAreAmong
<1> QED
    BY <1>1, ReadsInductive, PTL

\* The dashboard of any day and tenant has the totals of the report of that day,
\* however many executions an order has.
THEOREM DashboardsMatchReports == ReadsSpec => []DashboardMatchesReport
<1>1. ReadsIInv => DashboardMatchesReport
    <2> SUFFICES ASSUME ReadsIInv, NEW t \in Tenants,
                        NEW date \in {order[o].due : o \in DOMAIN order}
                 PROVE  LET totals == DashboardTotals(t, date)
                            rows == ReportSummaryRows([tenant |-> t, from |-> date, to |-> date,
                                                       contract |-> NULL])
                        IN  /\ totals.total = Total(rows, LAMBDA r : r.planned)
                            /\ totals.done = Total(rows, LAMBDA r : r.done)
                            /\ date = TenantToday(t) => totals.overdue = 0
        BY Zenon DEF DashboardMatchesReport
    <2> DEFINE q == [tenant |-> t, from |-> date, to |-> date, contract |-> NULL]
    <2>1. date \in Nat
        BY DEF ReadsIInv, TablesOK, IInv, TypeOK, IsTable, OrderRow
    <2>2. TablesOK /\ CreatedOK
        BY DEF ReadsIInv, ReadsTypeOK, CreatedOK
    <2>3. /\ DashboardTotals(t, date).total = Cardinality(OrdersOfReport(q))
          /\ DashboardTotals(t, date).done =
                Cardinality({o \in OrdersOfReport(q) : order[o].status = "done"})
          /\ date = TenantToday(t) => DashboardTotals(t, date).overdue = 0
        BY <2>1, <2>2, DashboardCounts
    <2>4. /\ Total(ReportSummaryRows(q), LAMBDA r : r.planned) = Cardinality(OrdersOfReport(q))
          /\ Total(ReportSummaryRows(q), LAMBDA r : r.done) =
                Cardinality({o \in OrdersOfReport(q) : order[o].status = "done"})
        BY <2>2, ReportTotals, Zenon
    <2> QED
        BY <2>3, <2>4, Zenon
<1> QED
    BY <1>1, ReadsInductive, PTL

===============================================================================
