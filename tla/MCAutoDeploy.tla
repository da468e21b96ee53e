---------------------------- MODULE MCAutoDeploy ----------------------------
(* Bounds for TLC: two loops of one stack and one handler goroutine, a      *)
(* breaker that trips at the second failure and cools down for two ticks.   *)
EXTENDS AutoDeploy
=============================================================================
