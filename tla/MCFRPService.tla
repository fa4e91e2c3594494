---------------------------- MODULE MCFRPService ----------------------------
(* Instances of FRPService for TLC.                                         *)
EXTENDS FRPService

=============================================================================
