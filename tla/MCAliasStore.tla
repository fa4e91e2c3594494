---------------------------- MODULE MCAliasStore ----------------------------
(* Instances of AliasStore for TLC.                                         *)
EXTENDS AliasStore, TLC

Symmetry == Permutations(Devices) \cup Permutations(Slots)
=============================================================================
