------------------------------- MODULE MCTree -------------------------------
(***************************************************************************)
(* The instances of MCOverlay whose links form a tree.                     *)
(***************************************************************************)
EXTENDS MCOverlay

ASSUME TreeAssumption == Tree

=============================================================================
