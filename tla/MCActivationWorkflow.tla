------------------------- MODULE MCActivationWorkflow -------------------------
(***************************************************************************)
(* Instances of ActivationWorkflow for TLC.                                *)
(***************************************************************************)
EXTENDS ActivationWorkflow

==============================================================================
