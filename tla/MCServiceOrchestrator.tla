------------------------ MODULE MCServiceOrchestrator ------------------------
(***************************************************************************)
(* Small instances of ServiceOrchestrator: one card with every command,    *)
(* two cards that can be stopped and so share the timer, and two that      *)
(* cannot (`stop' is a capability that is off unless the mapping says so). *)
(***************************************************************************)
EXTENDS ServiceOrchestrator, TLC

CONSTANTS a, b

OneCard   == a :> Commands
BothStop  == a :> {"stop", "restart"} @@ b :> {"stop"}
NoneStops == a :> {"start", "restart", "autostart"} @@ b :> {"autostart"}
=============================================================================
