------------------------- MODULE MCWireGuardService -------------------------
(* Instances of WireGuardService for TLC.                                   *)
EXTENDS WireGuardService, TLC

Symmetry == Permutations(Slots) \cup Permutations(Peers)
            \cup Permutations(Egresses)

\* Bound: a deploy and a reset that overlap, and failures that are passed over,
\* are looked at one without the other.
OneTrouble == ~mixed \/ ignored = {}
=============================================================================
