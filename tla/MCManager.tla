----------------------------- MODULE MCManager -----------------------------
(* Instances of Manager for TLC.  Connections and commands are              *)
(* interchangeable, and so are devices.                                     *)
EXTENDS Manager, TLC

Symmetry == Permutations(Devices) \cup Permutations(Conns)
              \cup Permutations(Commands)
=============================================================================
