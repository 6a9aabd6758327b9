-------------------------- MODULE MCReportExecutions --------------------------
(***************************************************************************)
(* Instances of ReportExecutions for TLC.                                  *)
(***************************************************************************)
EXTENDS ReportExecutions, TLC

==============================================================================
