--------------------------- MODULE MCSessionAlias ---------------------------
(* Instances of SessionAlias for TLC.                                       *)
EXTENDS SessionAlias, TLC

Symmetry == Permutations(Devices) \cup Permutations(Operators)
            \cup Permutations(Handlers) \cup Permutations(Names)
=============================================================================
