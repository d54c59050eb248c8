------------------------------ MODULE MCDaemon ------------------------------
(* Model values for the checks of Daemon. *)
EXTENDS Daemon

MCClasses == {"critical_pressure", "gaming", "idle"}
MCPressures == {"Watch", "Pressure"}
MCPlans == {"p", "q"}
MCDecisions == {[state |-> "Watch", plan |-> "p"],
                [state |-> "Pressure", plan |-> "p"],
                [state |-> "Pressure", plan |-> "q"]}
=============================================================================
