------------------------- MODULE MCConfigurationStore -------------------------
(***************************************************************************)
(* Instances of ConfigurationStore for TLC.                                *)
(***************************************************************************)
EXTENDS ConfigurationStore, TLC

==============================================================================
