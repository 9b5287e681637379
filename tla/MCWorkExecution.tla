--------------------------- MODULE MCWorkExecution ---------------------------
(***************************************************************************)
(* A small instance of WorkExecution.  Tenant t1 has the workers w1 and w2 *)
(* and the order o1, pinned to checklist version v1; t2 has the worker w3  *)
(* and the order o2.  The requests are those of one working day with       *)
(* everything that makes uploads hard: a snapshot in progress and its      *)
(* completion, a second execution of the same order, the work of the next  *)
(* assignee, and ids that collide with another order, tenant or execution. *)
(***************************************************************************)
EXTENDS WorkExecution, TLC

CONSTANTS t1, t2, w1, w2, w3, o1, o2, e1, e2, i1, i2, a, b, v1, v2, n1, n2

MCTenantOf == w1 :> t1 @@ w2 :> t1 @@ w3 :> t2

MCUtcOffset == t1 :> 0 @@ t2 :> 1

MCVersionOf == a :> v1 @@ b :> v2

Body(w, e, o, note, finished, items) ==
    [worker |-> w, execution |-> e, order |-> o, note |-> note,
     deviceFinishedAt |-> finished, items |-> items]

Tick0(template) == [template |-> template, checked |-> FALSE]
Tick1(template) == [template |-> template, checked |-> TRUE]

MCRequests == {
    Body(w1, e1, o1, n1, NULL, i1 :> Tick0(a)),       \* started
    Body(w1, e1, o1, n2, 0, i1 :> Tick1(a)),          \* finished at 0
    Body(w1, e2, o1, n1, NULL, i2 :> Tick0(a)),       \* a second execution
    Body(w2, e2, o1, n1, 0, i1 :> Tick0(a)),          \* next assignee, item id of e1
    Body(w3, e1, o2, n1, NULL, EmptyTable),           \* execution id of another tenant
    Body(w1, e1, o1, n1, 0, i2 :> Tick1(b)) }         \* item of another version

MCBatches == {
    [tenant |-> t1, rows |-> o1 :> [version |-> v1, assignee |-> w1, due |-> 0]],
    [tenant |-> t2, rows |-> o2 :> [version |-> v2, assignee |-> w3, due |-> 0]] }

MCPatches == {
    [tenant |-> t1, order |-> o1, assignee |-> w2, due |-> NULL],
    [tenant |-> t1, order |-> o1, assignee |-> w1, due |-> 1] }

CallSymmetry == Permutations(Calls)

==============================================================================
