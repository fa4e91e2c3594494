----------------------------- MODULE MCPublicIP -----------------------------
(* Instances of PublicIP for TLC.                                           *)
EXTENDS PublicIP, TLC

Symmetry == Permutations(Callers) \cup Permutations(Addrs)
=============================================================================
