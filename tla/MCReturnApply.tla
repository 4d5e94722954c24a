---------------------------- MODULE MCReturnApply ----------------------------
(* Model checking of ReturnApply.                                          *)
EXTENDS ReturnApply
=============================================================================
