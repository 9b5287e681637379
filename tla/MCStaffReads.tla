----------------------------- MODULE MCStaffReads -----------------------------
(***************************************************************************)
(* One tenant with two objects of an order each.  The two executions of    *)
(* the first order may share an instant, and the second stays unfinished.  *)
(***************************************************************************)
EXTENDS StaffReads, TLC

CONSTANTS t1, w1, o1, o2, e1, e2, b1, b2, v1, n1, k1

MCTenantOf == w1 :> t1

MCUtcOffset == t1 :> 0

MCVersionOf == [m \in Templates |-> v1]

MCObjectOf == o1 :> b1 @@ o2 :> b2

MCId == e1 :> 1 @@ e2 :> 2

Body(e, o, finished) ==
    [worker |-> w1, execution |-> e, order |-> o, note |-> n1,
     deviceFinishedAt |-> finished, items |-> EmptyTable]

MCRequests == {Body(e1, o1, NULL), Body(e1, o1, 0), Body(e2, o1, NULL)}

Planned == [version |-> v1, assignee |-> w1, due |-> 0]

MCBatches == {[tenant |-> t1, rows |-> o1 :> Planned @@ o2 :> Planned]}

MCPatches == {[tenant |-> t1, order |-> o1, assignee |-> NULL, due |-> 1]}

MCReports ==
    {[tenant |-> t1, from |-> 0, to |-> 0, contract |-> NULL],
     [tenant |-> t1, from |-> 0, to |-> 1, contract |-> k1]}

MCObjectPatches == {[object |-> b1, contract |-> k1]}

===============================================================================
