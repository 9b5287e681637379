--------------------------- MODULE ReportLifecycle ---------------------------
(***************************************************************************)
(* What the report API promises whoever polls GET /staff/reports/{id}: a   *)
(* report that was enqueued is generating until it is answered, once and   *)
(* for good, with a document or with a failure; a ready report has its     *)
(* document, and the document of an answered report never changes          *)
(* ("a generated report is immutable", docs/09-pdf-report.md:50).                      *)
(***************************************************************************)
CONSTANTS Reports, Documents, NULL

VARIABLES
    status,    \* what a poll of the report answers
    document   \* what its download URL leads to

Init ==
    /\ status = [r \in Reports |-> "none"]
    /\ document = [r \in Reports |-> NULL]

Enqueue(r) ==
    /\ status[r] = "none"
    /\ status' = [status EXCEPT ![r] = "generating"]
    /\ UNCHANGED document

Store(r, d) ==
    /\ status[r] = "generating"
    /\ document' = [document EXCEPT ![r] = d]
    /\ UNCHANGED status

Deliver(r) ==
    /\ status[r] = "generating"
    /\ document[r] # NULL
    /\ status' = [status EXCEPT ![r] = "ready"]
    /\ UNCHANGED document

\* Reports given up may be answered several at a time.
GiveUp(rs) ==
    /\ \A r \in rs : status[r] = "generating"
    /\ status' = [r \in Reports |-> IF r \in rs THEN "failed" ELSE status[r]]
    /\ UNCHANGED document

Next ==
    \/ \E r \in Reports : Enqueue(r) \/ Deliver(r) \/ \E d \in Documents : Store(r, d)
    \/ \E rs \in SUBSET Reports : GiveUp(rs)

Spec == Init /\ [][Next]_<<status, document>>

==============================================================================
