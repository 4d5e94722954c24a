--------------------------- MODULE MCPlanAttempt ---------------------------
(***************************************************************************)
(* Three Hosts and every kind of step: the requester finds a file, sends it  *)
(* to a second Host, which transforms it and sends it on to a third.  The   *)
(* requester stands between the two others in the order of delivery.        *)
(***************************************************************************)
EXTENDS PlanAttempt

MCOrder  == <<"b", "r", "c">>
MCOp     == <<"search", "transfer", "managed", "transfer">>
MCRunner == <<"r", "r", "b", "b">>
MCDest   == <<"r", "b", "b", "c">>
MCDeps   == <<{}, {1}, {2}, {3}>>
=============================================================================
