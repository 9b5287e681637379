---------------------------- MODULE MCReportQueue ----------------------------
(***************************************************************************)
(* A small instance of ReportQueue.  It is checked for liveness too, so    *)
(* its interchangeable values are not declared symmetric.                  *)
(***************************************************************************)
EXTENDS ReportQueue

==============================================================================
