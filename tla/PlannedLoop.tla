----------------------------- MODULE PlannedLoop -----------------------------
(***************************************************************************)
(* The planned loop as staff see it: orders are planned, assigned, worked  *)
(* on or missed, and each of these is one step.  There are no locks and no *)
(* calls in flight: a snapshot is submitted at one instant, for an         *)
(* execution that is nobody else's, by the worker who has the order at     *)
(* that instant, and the order is in progress or done by whether that      *)
(* execution was ever finished.  Only an order nobody has begun is missed. *)
(***************************************************************************)
EXTENDS Tables

CONSTANTS Orders, Executions, Workers, NULL

VARIABLES
    assignee,   \* whose an order is, if anybody's
    status,
    work        \* the executions: of which order, by whom, and finished or not

Init ==
    /\ assignee = EmptyTable
    /\ status = EmptyTable
    /\ work = EmptyTable

\* Orders come several at a time, a of them the worker of each.
Plan(os, a) ==
    /\ os \cap DOMAIN status = {}
    /\ assignee' = [o \in DOMAIN assignee \cup os |-> IF o \in os THEN a[o] ELSE assignee[o]]
    /\ status' = [o \in DOMAIN status \cup os |-> IF o \in os THEN "scheduled" ELSE status[o]]
    /\ UNCHANGED work

Assign(o, w) ==
    /\ o \in DOMAIN assignee
    /\ assignee' = [assignee EXCEPT ![o] = w]
    /\ UNCHANGED <<status, work>>

Submit(e, o, w, finished) ==
    LET done == finished \/ (e \in DOMAIN work /\ work[e].finished)
    IN  /\ o \in DOMAIN assignee /\ assignee[o] = w
        /\ e \in DOMAIN work => work[e].order = o /\ work[e].worker = w
        /\ work' = Put(work, e, [order |-> o, worker |-> w, finished |-> done])
        /\ status' = [status EXCEPT ![o] = IF done THEN "done" ELSE "in_progress"]
        /\ UNCHANGED assignee

\* One sweep misses several orders; none of them has any work.
Miss(os) ==
    /\ \A o \in os : status[o] = "scheduled" /\ \A e \in DOMAIN work : work[e].order # o
    /\ status' = [o \in DOMAIN status |-> IF o \in os THEN "missed" ELSE status[o]]
    /\ UNCHANGED <<assignee, work>>

Next ==
    \/ \E os \in SUBSET Orders : \E a \in [os -> Workers \cup {NULL}] : Plan(os, a)
    \/ \E o \in Orders, w \in Workers \cup {NULL} : Assign(o, w)
    \/ \E e \in Executions, o \in Orders, w \in Workers, finished \in BOOLEAN :
            Submit(e, o, w, finished)
    \/ \E os \in SUBSET DOMAIN status : Miss(os)

Spec == Init /\ [][Next]_<<assignee, status, work>>

==============================================================================
