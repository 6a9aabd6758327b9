-------------------------- MODULE MCOLTConnectionPool --------------------------
(***************************************************************************)
(* Instances of OLTConnectionPool for TLC.                                 *)
(***************************************************************************)
EXTENDS OLTConnectionPool, TLC

Symmetry == Permutations(Clients)

==============================================================================
