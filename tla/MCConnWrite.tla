---------------------------- MODULE MCConnWrite ----------------------------
(* Instances of ConnWrite for TLC.                                          *)
EXTENDS ConnWrite

=============================================================================
