------------------------ MODULE MCInvocationAdmission ------------------------
(* One Bridge and one task identity for TLC.                               *)
EXTENDS InvocationAdmission
=============================================================================
