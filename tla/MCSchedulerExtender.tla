------------------------ MODULE MCSchedulerExtender ------------------------
(***************************************************************************)
(* Model-checking instance of SchedulerExtender: Pods and nodes are model  *)
(* values.                                                                 *)
(***************************************************************************)
EXTENDS SchedulerExtender
=============================================================================
