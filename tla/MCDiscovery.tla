----------------------------- MODULE MCDiscovery -----------------------------
(***************************************************************************)
(* Discovery on small instances.  Builders and snapshot rows are           *)
(* interchangeable: the specification compares them for equality only.     *)
(***************************************************************************)
EXTENDS Discovery, TLC

Symmetry == Permutations(Builders) \cup Permutations(Snapshots)
=============================================================================
