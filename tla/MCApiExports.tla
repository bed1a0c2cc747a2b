---------------------------- MODULE MCApiExports -----------------------------
(* Instances of ApiExports for TLC.                                          *)
EXTENDS ApiExports

CONSTANTS c1, c2, q1, q2
=============================================================================
