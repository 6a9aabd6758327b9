--------------------------- MODULE MCRadiusSessions ---------------------------
(***************************************************************************)
(* Instances of RadiusSessions for TLC.                                    *)
(***************************************************************************)
EXTENDS RadiusSessions, TLC

==============================================================================
