-------------------------- MODULE MCPressurePolicy --------------------------
(***************************************************************************)
(* Representative inputs for PressurePolicy: every level of available      *)
(* memory with every pattern of signals that target_state tells apart.     *)
(***************************************************************************)
EXTENDS PressurePolicy

Pattern(level) == [name \in SignalNames |-> level]

SignalPatterns ==
    {Pattern("absent"),
     [Pattern("absent") EXCEPT !["swap_in"] = "below"],
     [Pattern("below") EXCEPT !["major_faults"] = "high"],
     [Pattern("absent") EXCEPT !["swap_in"] = "high", !["swap_out"] = "high"],
     [Pattern("below") EXCEPT !["psi_full"] = "emergency"]}

MCTelemetry == [available : 0..4, signals : SignalPatterns]

Ready ==
    [gaming |-> FALSE, safety_event |-> FALSE, capabilities_ready |-> TRUE,
     actuator_available |-> TRUE, unknown_processes |-> FALSE,
     observe |-> FALSE]

MCContexts ==
    {Ready,
     [Ready EXCEPT !.gaming = TRUE, !.unknown_processes = TRUE],
     [Ready EXCEPT !.safety_event = TRUE],
     [Ready EXCEPT !.observe = TRUE],
     [Ready EXCEPT !.capabilities_ready = FALSE],
     [Ready EXCEPT !.actuator_available = FALSE]}

\* One context for the runs whose property is not about the plan.
OneContext == {[Ready EXCEPT !.observe = TRUE]}
============================================================================
