---------------------------- MODULE MCHTTPServer ----------------------------
(* Instances of HTTPServer for TLC.                                         *)
EXTENDS HTTPServer

\* Seconds that are refused, that fit, and that wrap around to a negative and
\* to a positive number.
SomeSeconds == {-2, 0, 1, 3, 6}
=============================================================================
