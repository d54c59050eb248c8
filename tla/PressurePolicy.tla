--------------------------- MODULE PressurePolicy ---------------------------
(***************************************************************************)
(* The deterministic policy engine of Nemor (crates/policy-engine): the    *)
(* pressure state machine with its hysteresis (transition.rs), the         *)
(* planner (planner.rs) and PolicyEngine::evaluate (policy.rs) that joins  *)
(* them.                                                                   *)
(*                                                                         *)
(* Data abstraction.  A percentage or a rate only matters through the      *)
(* configured threshold it is compared with, so                            *)
(*   - available_percent is the number of thresholds it has fallen to,     *)
(*     0 (above watch) .. 4 (at or below emergency); the configuration     *)
(*     check watch > pressure > critical > emergency makes this a scale;   *)
(*   - a signal is "absent" (None), "below" or "high" (at or above its     *)
(*     threshold); psi_full may also be "emergency", which is above its    *)
(*     own threshold because emergency_psi_full > psi_full is validated.   *)
(* Nanoseconds are clock ticks; the two holds are numbers of ticks.        *)
(***************************************************************************)
EXTENDS Integers, FiniteSets

CONSTANTS
    Telemetry,       \* the telemetry samples the callers may present
    Contexts,        \* the planning contexts the callers may present
    StateHold,       \* pressure.state_hold_seconds
    RecoveryHold,    \* pressure.recovery_hold_seconds
    MaxTime          \* bound of the model: largest timestamp explored

None == "None"
NoTime == -1

PressureStates ==
    {"Normal", "Watch", "Pressure", "Critical", "Emergency", "Stabilizing"}

\* The derived order of the Rust enum: the order of its variants.
Rank(s) ==
    CASE s = "Normal" -> 0
      [] s = "Watch" -> 1
      [] s = "Pressure" -> 2
      [] s = "Critical" -> 3
      [] s = "Emergency" -> 4
      [] s = "Stabilizing" -> 5

Severe == {"Pressure", "Critical", "Emergency"}

SignalNames == {"psi_some", "psi_full", "major_faults", "swap_in", "swap_out"}
Levels == {"absent", "below", "high", "emergency"}

TelemetryType == [available : 0..4, signals : [SignalNames -> Levels]]

\* What plan_actions reads of the input besides the state.
ContextType ==
    [gaming : BOOLEAN, safety_event : BOOLEAN, capabilities_ready : BOOLEAN,
     actuator_available : BOOLEAN, unknown_processes : BOOLEAN,
     observe : BOOLEAN]

ASSUME TelemetryAssumption == Telemetry \subseteq TelemetryType
ASSUME ContextsAssumption == Contexts \subseteq ContextType
ASSUME HoldAssumption == StateHold \in Nat /\ RecoveryHold \in Nat
ASSUME ClockAssumption == MaxTime \in Nat

VARIABLES
    now,             \* the wall clock the caller stamps inputs with
    current,         \* PersistentState.current
    previous,        \* PersistentState.previous
    entered_at,      \* PersistentState.entered_at_ns
    candidate,       \* PersistentState.candidate
    candidate_since, \* PersistentState.candidate_since_ns
    decision,        \* what the last evaluate call returned
    severeAt,        \* history: the last time a severe state was confirmed
    steppedBack      \* history: the clock stepped back since the engine started

state == <<current, previous, entered_at, candidate, candidate_since>>
vars == <<now, state, decision, severeAt, steppedBack>>

----------------------------------------------------------------------------
(* transition.rs *)

Signal(t, name) == t.signals[name]
High(t, name) == Signal(t, name) \in {"high", "emergency"}
FullEmergency(t) == Signal(t, "psi_full") = "emergency"

Corroborating(t) == Cardinality({name \in SignalNames : High(t, name)})

TargetState(t) ==
    IF t.available >= 4 /\ (FullEmergency(t) \/ Corroborating(t) >= 2)
    THEN "Emergency"
    ELSE IF t.available >= 3 /\ Corroborating(t) >= 2 THEN "Critical"
    ELSE IF t.available >= 2 /\ Corroborating(t) >= 1 THEN "Pressure"
    ELSE IF t.available >= 1 \/ Corroborating(t) >= 1 THEN "Watch"
    ELSE "Normal"

\* At least one of the five corroborating signals was read.
Sufficient(t) == \E name \in SignalNames : Signal(t, name) # "absent"

\* Mutant: recovery is not routed through STABILIZING.
RecoveryTargetDirect(cur, observed) == observed

RecoveryTarget(cur, observed) ==
    IF cur \in Severe
    THEN IF Rank(observed) < Rank(cur) THEN "Stabilizing" ELSE observed
    ELSE IF cur = "Stabilizing" /\ observed = "Watch" THEN "Stabilizing"
    ELSE observed

\* Mutant: only the entry into STABILIZING takes the recovery hold.
IsRecoveryEntryOnly(cur, desired) == desired = "Stabilizing"

IsRecovery(cur, desired) ==
    desired = "Stabilizing" \/ (cur = "Stabilizing" /\ desired = "Normal")

HoldFor(cur, desired) ==
    IF IsRecovery(cur, desired) THEN RecoveryHold ELSE StateHold

Immediate(t, desired) ==
    desired = "Emergency" /\ t.available >= 4 /\ FullEmergency(t)

\* candidate_since of the code: the streak goes on, or starts with this input.
StreakStart(desired) ==
    IF candidate = desired THEN candidate_since ELSE now

Held(desired) == now - StreakStart(desired) >= HoldFor(current, desired)

\* Insufficient telemetry, or evidence that agrees with the current state.
StayPut(t) ==
    /\ ~Sufficient(t) \/ RecoveryTarget(current, TargetState(t)) = current
    /\ candidate' = None
    /\ candidate_since' = NoTime
    /\ UNCHANGED <<current, previous, entered_at>>

KeepWaiting(t, desired) ==
    /\ ~Immediate(t, desired) /\ ~Held(desired)
    /\ candidate' = desired
    /\ candidate_since' = StreakStart(desired)
    /\ UNCHANGED <<current, previous, entered_at>>

ChangeState(t, desired) ==
    /\ Immediate(t, desired) \/ Held(desired)
    /\ previous' = current
    /\ current' = desired
    /\ entered_at' = now
    /\ candidate' = None
    /\ candidate_since' = NoTime

Transition(t) ==
    \/ StayPut(t)
    \/ /\ Sufficient(t)
       /\ LET desired == RecoveryTarget(current, TargetState(t))
          IN  /\ desired # current
              /\ KeepWaiting(t, desired) \/ ChangeState(t, desired)

----------------------------------------------------------------------------
(* planner.rs: planned and rejected actions, named by their ActionKind.    *)

Mutating ==
    {"ProtectForeground", "ApplyBackgroundSoftLimit", "RollbackCgroupMeasures"}

ZramProfile(s, ctx) ==
    IF s \in Severe \union {"Watch"} /\ ctx.gaming THEN "Gaming"
    ELSE IF s = "Pressure" THEN "Capacity" ELSE "Safe"

MemoryBackend(s, ctx) ==
    IF s = "Pressure" /\ ~ctx.gaming THEN "ZswapNvme" ELSE "Zram"

\* What the state asks for, before the safety filters.
Requested(s) ==
    CASE s = "Normal" -> {"NoAction"}
      [] s = "Watch" -> {"PrepareForegroundProtection"}
      [] s \in Severe -> {"ProtectForeground", "ApplyBackgroundSoftLimit"}
      [] s = "Stabilizing" -> {"RollbackCgroupMeasures"}

\* The first filter that applies, in the order the code tries them.
RejectionReason(s, ctx) ==
    IF s \notin Severe \union {"Stabilizing"} THEN None
    ELSE IF ctx.safety_event THEN "recent_cgroup_safety_event"
    ELSE IF s \in Severe /\ ~ctx.capabilities_ready
         THEN "cgroup_capability_unavailable"
    ELSE IF ctx.observe THEN "observe_mode"
    ELSE IF s \in Severe /\ ~ctx.actuator_available THEN "actuator_unavailable"
    ELSE None

PlanActions(s, ctx) ==
    LET reason == RejectionReason(s, ctx)
    IN  [planned  |-> IF reason = None THEN Requested(s)
                      ELSE Requested(s) \ Mutating,
         zram     |-> ZramProfile(s, ctx),
         backend  |-> MemoryBackend(s, ctx),
         reason   |-> reason,
         unknown_rejected |-> ctx.unknown_processes]

----------------------------------------------------------------------------
(* policy.rs and the caller *)

NoDecision ==
    [accepted |-> FALSE, sufficient |-> FALSE, planned |-> {}, zram |-> None,
     backend |-> None, reason |-> None, unknown_rejected |-> FALSE]

DecisionType ==
    [accepted : BOOLEAN, sufficient : BOOLEAN,
     planned : SUBSET (Mutating \union {"NoAction", "PrepareForegroundProtection"}),
     zram : {None, "Safe", "Gaming", "Capacity"},
     backend : {None, "Zram", "ZswapNvme"},
     reason : {None, "recent_cgroup_safety_event", "observe_mode",
               "cgroup_capability_unavailable", "actuator_unavailable"},
     unknown_rejected : BOOLEAN]

\* PersistentState::conservative(0), as nemord creates the engine.
Conservative ==
    /\ current = "Watch" /\ previous = None /\ entered_at = 0
    /\ candidate = None /\ candidate_since = NoTime

Init ==
    /\ now = 0
    /\ Conservative
    /\ decision = NoDecision
    /\ severeAt = NoTime /\ steppedBack = FALSE

\* The wall clock moves between two calls; it may also be set back.
Tick ==
    /\ now' \in 0..MaxTime
    /\ steppedBack' = (steppedBack \/ now' < now)
    /\ UNCHANGED <<state, decision, severeAt>>

Decide(t, ctx) ==
    LET plan == PlanActions(current', ctx)
    IN  decision' = [accepted |-> TRUE, sufficient |-> Sufficient(t),
                     planned |-> plan.planned, zram |-> plan.zram,
                     backend |-> plan.backend, reason |-> plan.reason,
                     unknown_rejected |-> plan.unknown_rejected]

\* A severe state is confirmed while no recovery is being timed.
RecordHistory ==
    /\ severeAt' = IF current' \in Severe /\ candidate' # "Stabilizing"
                   THEN now ELSE severeAt
    /\ UNCHANGED steppedBack

\* Mutant: inputs older than the entry into the current state are accepted.
EvaluateAnyTime(t, ctx) ==
    /\ Transition(t)
    /\ Decide(t, ctx)
    /\ RecordHistory
    /\ UNCHANGED now

Evaluate(t, ctx) ==
    /\ now >= entered_at
    /\ Transition(t)
    /\ Decide(t, ctx)
    /\ RecordHistory
    /\ UNCHANGED now

\* PolicyError::TimeRegression: the state is retained, nothing is planned.
EvaluateTimeRegression ==
    /\ now < entered_at
    /\ decision' = NoDecision
    /\ UNCHANGED <<now, state, severeAt, steppedBack>>

\* PolicyInput::validate failed: the state is retained, nothing is planned.
EvaluateInvalid ==
    /\ decision' = NoDecision
    /\ UNCHANGED <<now, state, severeAt, steppedBack>>

\* The daemon restarts without continuity and builds a new engine.
Restart ==
    /\ current' = "Watch" /\ previous' = None /\ entered_at' = 0
    /\ candidate' = None /\ candidate_since' = NoTime
    /\ decision' = NoDecision
    /\ severeAt' = NoTime /\ steppedBack' = FALSE
    /\ UNCHANGED now

Next ==
    \/ Tick
    \/ \E t \in Telemetry, ctx \in Contexts : Evaluate(t, ctx)
    \/ EvaluateTimeRegression
    \/ EvaluateInvalid
    \/ Restart

Spec == Init /\ [][Next]_vars

----------------------------------------------------------------------------
(* Properties *)

Times == 0..MaxTime

\* Every variable has its type; a candidate has a start time and is never
\* the current state.
TypeOK ==
    /\ now \in Times
    /\ current \in PressureStates
    /\ previous \in PressureStates \union {None}
    /\ entered_at \in Times
    /\ candidate \in (PressureStates \ {current}) \union {None}
    /\ candidate_since \in IF candidate = None THEN {NoTime} ELSE Times
    /\ decision \in DecisionType
    /\ severeAt \in Times \union {NoTime}
    /\ steppedBack \in BOOLEAN

\* recovery_target: pressure is left only through STABILIZING, so a rollback
\* of cgroup measures is planned only after a severe state, and NORMAL is
\* never entered straight from one.
RecoveryPath ==
    /\ current = "Stabilizing" => previous \in Severe
    /\ current = "Normal" => previous \in {"Watch", "Stabilizing"}
    /\ current = "Watch" => previous \in {None, "Normal"}

\* Unless the clock stepped back since the engine started, the engine reports NORMAL only when
\* two complete recovery holds lie between the last evaluation that confirmed
\* a severe state and the entry into NORMAL.
TwoHoldRecovery ==
    ~steppedBack /\ current = "Normal" /\ severeAt # NoTime
        => entered_at - severeAt >= 2 * RecoveryHold

\* Hysteresis: the engine leaves a state for any other than EMERGENCY only
\* after staying in it for the whole hold of that change, even when the wall
\* clock steps back (inputs older than entered_at_ns are rejected).
NoFlapping ==
    [][(current' # current /\ decision'.accepted /\ current' # "Emergency")
        => entered_at' - entered_at >= HoldFor(current, current')]_vars
============================================================================
