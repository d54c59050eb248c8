------------------------ MODULE PressurePolicyProofs ------------------------
(***************************************************************************)
(* Proofs about the policy engine, for every set of inputs, every pair of  *)
(* holds and every bound on time.                                          *)
(***************************************************************************)
EXTENDS PressurePolicy, TLAPS

----------------------------------------------------------------------------
(* The operators of transition.rs and planner.rs *)

\* target_state classifies a sample as one of the five observable states; it
\* never returns STABILIZING.
LEMMA TargetStateType ==
    \A t \in TelemetryType :
        TargetState(t) \in {"Normal", "Watch", "Pressure", "Critical", "Emergency"}
BY DEF TargetState

\* recovery_target: where each state may go.
LEMMA RecoveryTargetCases ==
    ASSUME NEW t \in TelemetryType, NEW cur \in PressureStates,
           NEW desired, desired = RecoveryTarget(cur, TargetState(t))
    PROVE  /\ desired \in PressureStates
           /\ desired = "Stabilizing" => cur \in Severe \union {"Stabilizing"}
           /\ desired = "Normal" => cur \in {"Normal", "Watch", "Stabilizing"}
           /\ desired = "Watch" => cur \in {"Normal", "Watch"}
BY TargetStateType DEF RecoveryTarget, PressureStates, Severe, Rank

\* plan_actions returns a decision of the closed vocabulary.
LEMMA PlanType ==
    ASSUME NEW s \in PressureStates, NEW ctx \in ContextType
    PROVE  LET plan == PlanActions(s, ctx)
           IN  /\ plan.planned \in SUBSET (Mutating \union
                                    {"NoAction", "PrepareForegroundProtection"})
               /\ plan.zram \in {"Safe", "Gaming", "Capacity"}
               /\ plan.backend \in {"Zram", "ZswapNvme"}
               /\ plan.reason \in {None, "recent_cgroup_safety_event",
                                   "observe_mode", "cgroup_capability_unavailable",
                                   "actuator_unavailable"}
               /\ plan.unknown_rejected \in BOOLEAN
<1>1. Requested(s) \in SUBSET (Mutating \union
                                 {"NoAction", "PrepareForegroundProtection"})
  BY DEF Requested, Mutating, Severe, PressureStates
<1> QED
  BY <1>1 DEF PlanActions, ZramProfile, MemoryBackend, RejectionReason, ContextType

----------------------------------------------------------------------------
(* Type correctness *)

\* One evaluation keeps the engine's own state well typed.
LEMMA TransitionType ==
    ASSUME TypeOK, NEW t \in TelemetryType, now >= entered_at, Transition(t)
    PROVE  /\ current' \in PressureStates
           /\ previous' \in PressureStates \union {None}
           /\ entered_at' \in Times
           /\ candidate' \in (PressureStates \ {current'}) \union {None}
           /\ candidate_since' \in IF candidate' = None THEN {NoTime} ELSE Times
<1>1. CASE StayPut(t)
  BY <1>1 DEF StayPut, TypeOK
<1>2. ASSUME NEW desired, desired = RecoveryTarget(current, TargetState(t)),
             desired # current, KeepWaiting(t, desired)
      PROVE  /\ candidate' = desired /\ desired \in PressureStates
             /\ candidate_since' \in Times
             /\ UNCHANGED <<current, previous, entered_at>>
  <2>1. desired \in PressureStates
    BY <1>2, RecoveryTargetCases DEF TypeOK
  <2> QED
    BY <1>2, <2>1 DEF KeepWaiting, StreakStart, TypeOK, PressureStates, None
<1>3. ASSUME NEW desired, desired = RecoveryTarget(current, TargetState(t)),
             desired # current, ChangeState(t, desired)
      PROVE  /\ current' = desired /\ desired \in PressureStates
             /\ previous' = current /\ entered_at' = now
             /\ candidate' = None /\ candidate_since' = NoTime
  BY <1>3, RecoveryTargetCases DEF ChangeState, TypeOK
<1> QED
  BY <1>1, <1>2, <1>3 DEF Transition, TypeOK, PressureStates, None

\* The decision an evaluation returns is well typed.
LEMMA DecideType ==
    ASSUME NEW t \in TelemetryType, NEW ctx \in ContextType,
           current' \in PressureStates, Decide(t, ctx)
    PROVE  decision' \in DecisionType
<1> DEFINE plan == PlanActions(current', ctx)
<1>1. /\ plan.planned \in SUBSET (Mutating \union
                                    {"NoAction", "PrepareForegroundProtection"})
      /\ plan.zram \in {"Safe", "Gaming", "Capacity"}
      /\ plan.backend \in {"Zram", "ZswapNvme"}
      /\ plan.reason \in {None, "recent_cgroup_safety_event", "observe_mode",
                          "cgroup_capability_unavailable", "actuator_unavailable"}
      /\ plan.unknown_rejected \in BOOLEAN
  BY PlanType
<1>2. Sufficient(t) \in BOOLEAN
  BY DEF Sufficient
<1> HIDE DEF plan
<1>3. decision' = [accepted |-> TRUE, sufficient |-> Sufficient(t),
                   planned |-> plan.planned, zram |-> plan.zram,
                   backend |-> plan.backend, reason |-> plan.reason,
                   unknown_rejected |-> plan.unknown_rejected]
  BY DEF Decide, plan
<1> QED
  BY <1>1, <1>2, <1>3 DEF DecisionType

\* What evaluate leaves behind when it returns an error.
LEMMA NoDecisionType == NoDecision \in DecisionType
BY DEF NoDecision, DecisionType, None

\* Every reachable state of the engine is well typed.
THEOREM TypeCorrect == Spec => []TypeOK
<1>1. Init => TypeOK
  <2> SUFFICES ASSUME Init PROVE TypeOK
    OBVIOUS
  <2>1. steppedBack \in BOOLEAN
    BY DEF Init
  <2> QED
    BY <2>1, ClockAssumption, NoDecisionType
       DEF Init, Conservative, TypeOK, PressureStates, Times, None, NoTime
<1>2. TypeOK /\ [Next]_vars => TypeOK'
  <2> SUFFICES ASSUME TypeOK, [Next]_vars PROVE TypeOK'
    OBVIOUS
  <2> USE ClockAssumption
  <2>1. CASE Tick
    BY <2>1 DEF Tick, state, TypeOK, Times
  <2>2. ASSUME NEW t \in Telemetry, NEW ctx \in Contexts, Evaluate(t, ctx)
        PROVE  TypeOK'
    <3>1. t \in TelemetryType /\ ctx \in ContextType
      BY TelemetryAssumption, ContextsAssumption
    <3>2. /\ current' \in PressureStates
          /\ previous' \in PressureStates \union {None}
          /\ entered_at' \in Times
          /\ candidate' \in (PressureStates \ {current'}) \union {None}
          /\ candidate_since' \in IF candidate' = None THEN {NoTime} ELSE Times
      BY <2>2, <3>1, TransitionType DEF Evaluate
    <3>3. decision' \in DecisionType
      BY <2>2, <3>1, <3>2, DecideType DEF Evaluate
    <3>4. now' \in Times /\ severeAt' \in Times \union {NoTime}
          /\ steppedBack' \in BOOLEAN
      BY <2>2 DEF Evaluate, RecordHistory, TypeOK
    <3> QED
      BY <3>2, <3>3, <3>4 DEF TypeOK, Times
  <2>3. CASE EvaluateTimeRegression \/ EvaluateInvalid
    BY <2>3, NoDecisionType DEF EvaluateTimeRegression, EvaluateInvalid, state,
       TypeOK, Times
  <2>4. CASE Restart
    <3>1. steppedBack' \in BOOLEAN
      BY <2>4 DEF Restart
    <3> QED
      BY <2>4, <3>1, NoDecisionType
         DEF Restart, TypeOK, PressureStates, Times, None, NoTime
  <2>5. CASE UNCHANGED vars
    BY <2>5 DEF vars, state, TypeOK, Times
  <2> QED
    BY <2>1, <2>2, <2>3, <2>4, <2>5 DEF Next
<1> QED
  BY <1>1, <1>2, PTL DEF Spec

----------------------------------------------------------------------------
(* The recovery path *)

\* What one evaluation may do to the state machine: it keeps the state, or it
\* changes it after the whole hold (at once only for EMERGENCY).
LEMMA TransitionCases ==
    ASSUME TypeOK, NEW t \in TelemetryType, Transition(t)
    PROVE  \/ /\ UNCHANGED <<current, previous, entered_at>>
              /\ \/ candidate' = None
                 \/ /\ candidate' = candidate
                    /\ candidate_since' = candidate_since
                 \/ candidate' # None /\ candidate' # candidate
                    /\ candidate_since' = now
              /\ candidate' = "Stabilizing" => current \in Severe
           \/ /\ previous' = current /\ current' # current
              /\ entered_at' = now /\ candidate' = None
              /\ current' = "Stabilizing" => current \in Severe
              /\ current' = "Normal" => current \in {"Watch", "Stabilizing"}
              /\ current' = "Watch" => current = "Normal"
              /\ \/ current' = "Emergency"
                 \/ /\ candidate = current'
                    /\ now - candidate_since >= HoldFor(current, current')
                 \/ HoldFor(current, current') = 0
<1>1. CASE StayPut(t)
  BY <1>1 DEF StayPut, None
<1>2. ASSUME NEW desired, desired = RecoveryTarget(current, TargetState(t)),
             desired # current
      PROVE  /\ desired \in PressureStates
             /\ desired = "Stabilizing" => current \in Severe
             /\ desired = "Normal" => current \in {"Watch", "Stabilizing"}
             /\ desired = "Watch" => current = "Normal"
  BY <1>2, RecoveryTargetCases DEF TypeOK, Severe
<1>3. ASSUME NEW desired, desired = RecoveryTarget(current, TargetState(t)),
             desired # current, KeepWaiting(t, desired)
      PROVE  /\ UNCHANGED <<current, previous, entered_at>>
             /\ \/ candidate' = candidate /\ candidate_since' = candidate_since
                \/ candidate' # None /\ candidate' # candidate
                   /\ candidate_since' = now
             /\ candidate' = "Stabilizing" => current \in Severe
  BY <1>3, <1>2 DEF KeepWaiting, StreakStart, PressureStates, None
<1>4. ASSUME NEW desired, desired = RecoveryTarget(current, TargetState(t)),
             desired # current, ChangeState(t, desired)
      PROVE  /\ previous' = current /\ current' = desired
             /\ entered_at' = now /\ candidate' = None
             /\ \/ desired = "Emergency"
                \/ /\ candidate = desired
                   /\ now - candidate_since >= HoldFor(current, desired)
                \/ HoldFor(current, desired) = 0
  <2>1. Immediate(t, desired) => desired = "Emergency"
    BY DEF Immediate
  <2>2. Held(desired) => \/ /\ candidate = desired
                            /\ now - candidate_since >= HoldFor(current, desired)
                         \/ HoldFor(current, desired) = 0
    BY HoldAssumption DEF Held, StreakStart, HoldFor, TypeOK, Times
  <2> QED
    BY <1>4, <2>1, <2>2 DEF ChangeState
<1> QED
  BY <1>1, <1>2, <1>3, <1>4 DEF Transition

\* Pressure is left only through STABILIZING.
THEOREM RecoveryPathHolds == Spec => []RecoveryPath
<1>1. Init => RecoveryPath
  BY DEF Init, Conservative, RecoveryPath
<1>2. TypeOK /\ RecoveryPath /\ [Next]_vars => RecoveryPath'
  <2> SUFFICES ASSUME TypeOK, RecoveryPath, [Next]_vars PROVE RecoveryPath'
    OBVIOUS
  <2>1. ASSUME NEW t \in Telemetry, NEW ctx \in Contexts, Evaluate(t, ctx)
        PROVE  RecoveryPath'
    <3>1. t \in TelemetryType /\ Transition(t)
      BY <2>1, TelemetryAssumption DEF Evaluate
    <3> QED
      BY <3>1, TransitionCases DEF RecoveryPath
  <2>2. CASE Tick \/ EvaluateTimeRegression \/ EvaluateInvalid \/ UNCHANGED vars
    BY <2>2 DEF Tick, EvaluateTimeRegression, EvaluateInvalid, vars, state,
       RecoveryPath
  <2>3. CASE Restart
    BY <2>3 DEF Restart, RecoveryPath
  <2> QED
    BY <2>1, <2>2, <2>3 DEF Next
<1> QED
  BY <1>1, <1>2, TypeCorrect, PTL DEF Spec

----------------------------------------------------------------------------
(* Hysteresis *)

\* A hold is timed from inside the state it may end: the TimeRegression check
\* keeps every candidate younger than the entry into the state.
CandidateIsFresh == candidate # None => candidate_since >= entered_at

\* The candidate of every reachable state is younger than the state.
LEMMA CandidateIsFreshHolds == Spec => []CandidateIsFresh
<1>1. Init => CandidateIsFresh
  BY DEF Init, Conservative, CandidateIsFresh
<1>2. TypeOK /\ CandidateIsFresh /\ [Next]_vars => CandidateIsFresh'
  <2> SUFFICES ASSUME TypeOK, CandidateIsFresh, [Next]_vars
               PROVE  CandidateIsFresh'
    OBVIOUS
  <2>1. ASSUME NEW t \in Telemetry, NEW ctx \in Contexts, Evaluate(t, ctx)
        PROVE  CandidateIsFresh'
    <3>1. t \in TelemetryType /\ Transition(t) /\ now >= entered_at
      BY <2>1, TelemetryAssumption DEF Evaluate
    <3> QED
      BY <3>1, TransitionCases DEF CandidateIsFresh
  <2>2. CASE Tick \/ EvaluateTimeRegression \/ EvaluateInvalid \/ UNCHANGED vars
    BY <2>2 DEF Tick, EvaluateTimeRegression, EvaluateInvalid, vars, state,
       CandidateIsFresh
  <2>3. CASE Restart
    BY <2>3 DEF Restart, CandidateIsFresh
  <2> QED
    BY <2>1, <2>2, <2>3 DEF Next
<1> QED
  BY <1>1, <1>2, TypeCorrect, PTL DEF Spec

\* The engine never flaps, whatever the wall clock does.
THEOREM NoFlappingHolds == Spec => NoFlapping
<1>1. TypeOK /\ CandidateIsFresh /\ [Next]_vars
        => [(current' # current /\ decision'.accepted /\ current' # "Emergency")
              => entered_at' - entered_at >= HoldFor(current, current')]_vars
  <2> SUFFICES ASSUME TypeOK, CandidateIsFresh, Next,
                      current' # current, decision'.accepted,
                      current' # "Emergency"
               PROVE  entered_at' - entered_at >= HoldFor(current, current')
    OBVIOUS
  <2>1. ASSUME NEW t \in Telemetry, NEW ctx \in Contexts, Evaluate(t, ctx)
        PROVE  entered_at' - entered_at >= HoldFor(current, current')
    <3>1. t \in TelemetryType /\ Transition(t) /\ now >= entered_at
      BY <2>1, TelemetryAssumption DEF Evaluate
    <3>2. HoldFor(current, current') \in Nat
      BY HoldAssumption DEF HoldFor
    <3>3. entered_at \in Nat /\ now \in Nat
      BY ClockAssumption DEF TypeOK, Times
    <3>4. /\ entered_at' = now
          /\ \/ /\ candidate = current'
                /\ now - candidate_since >= HoldFor(current, current')
             \/ HoldFor(current, current') = 0
      BY <3>1, TransitionCases
    <3>5. CASE HoldFor(current, current') = 0
      BY <3>1, <3>3, <3>4, <3>5
    <3>6. CASE /\ candidate = current'
               /\ now - candidate_since >= HoldFor(current, current')
      <4>1. candidate # None
        BY <3>6, <3>1, TransitionType DEF PressureStates, None
      <4>2. candidate_since \in Nat /\ candidate_since >= entered_at
        BY <4>1, ClockAssumption DEF CandidateIsFresh, TypeOK, Times
      <4> QED
        BY <3>2, <3>3, <3>4, <3>6, <4>2
    <3> QED
      BY <3>4, <3>5, <3>6
  <2>2. CASE Tick \/ EvaluateTimeRegression \/ EvaluateInvalid
    BY <2>2 DEF Tick, EvaluateTimeRegression, EvaluateInvalid, state
  <2>3. CASE Restart
    BY <2>3 DEF Restart, NoDecision
  <2> QED
    BY <2>1, <2>2, <2>3 DEF Next
<1> QED
  BY <1>1, TypeCorrect, CandidateIsFreshHolds, PTL DEF Spec, NoFlapping

----------------------------------------------------------------------------
(* Two complete holds of recovery, when the clock does not step back *)

\* Nothing recorded lies in the future.
HistoryIsPast ==
    /\ entered_at <= now /\ severeAt <= now
    /\ candidate # None => candidate_since <= now

\* TwoHoldRecovery strengthened: the holds already served in each state.
HoldsServed ==
    /\ candidate = "Stabilizing"
         => current \in Severe /\ severeAt <= candidate_since
    /\ severeAt # NoTime =>
         /\ current = "Stabilizing" => entered_at - severeAt >= RecoveryHold
         /\ current \in {"Normal", "Watch"}
              => entered_at - severeAt >= 2 * RecoveryHold

\* A step that does not set the clock back preserves the strengthening.
LEMMA HoldsServedStep ==
    ASSUME ~steppedBack', TypeOK, CandidateIsFresh, HistoryIsPast,
           HoldsServed, [Next]_vars
    PROVE  HistoryIsPast' /\ HoldsServed'
<1> USE ClockAssumption, HoldAssumption
<1>1. CASE Tick
  <2>1. ~(now' < now)
    BY <1>1 DEF Tick
  <2> QED
    BY <1>1, <2>1 DEF Tick, state, HistoryIsPast, HoldsServed, TypeOK, Times, NoTime
<1>2. ASSUME NEW t \in Telemetry, NEW ctx \in Contexts, Evaluate(t, ctx)
      PROVE  HistoryIsPast' /\ HoldsServed'
  <2>1. t \in TelemetryType /\ Transition(t) /\ now >= entered_at /\ now' = now
    BY <1>2, TelemetryAssumption DEF Evaluate
  <2>2. severeAt' = IF current' \in Severe /\ candidate' # "Stabilizing"
                    THEN now ELSE severeAt
    BY <1>2 DEF Evaluate, RecordHistory
  <2>3. /\ now \in Nat /\ entered_at \in Nat /\ severeAt \in Int
        /\ severeAt # NoTime => severeAt \in Nat
        /\ candidate # None => candidate_since \in Nat
        /\ current \in PressureStates
    BY DEF TypeOK, Times, NoTime
  <2>4. CASE /\ UNCHANGED <<current, previous, entered_at>>
             /\ \/ candidate' = None
                \/ /\ candidate' = candidate
                   /\ candidate_since' = candidate_since
                \/ candidate' # None /\ candidate' # candidate
                   /\ candidate_since' = now
             /\ candidate' = "Stabilizing" => current \in Severe
    BY <2>1, <2>2, <2>3, <2>4 DEF HistoryIsPast, HoldsServed, Severe, None
  <2>5. CASE /\ previous' = current /\ current' # current
             /\ entered_at' = now /\ candidate' = None
             /\ current' = "Stabilizing" => current \in Severe
             /\ current' = "Normal" => current \in {"Watch", "Stabilizing"}
             /\ current' = "Watch" => current = "Normal"
             /\ \/ current' = "Emergency"
                \/ /\ candidate = current'
                   /\ now - candidate_since >= HoldFor(current, current')
                \/ HoldFor(current, current') = 0
    <3>1. HistoryIsPast'
      BY <2>1, <2>2, <2>3, <2>5 DEF HistoryIsPast
    <3>2. CASE current' \in Severe
      BY <2>2, <2>5, <3>1, <3>2 DEF HoldsServed, Severe, None
    <3>3. CASE current' = "Stabilizing"
      <4>1. severeAt' = severeAt /\ HoldFor(current, current') = RecoveryHold
        BY <2>2, <3>3 DEF Severe, HoldFor, IsRecovery
      <4>2. candidate = "Stabilizing" => severeAt <= candidate_since
        BY DEF HoldsServed
      <4>3. now - severeAt >= RecoveryHold
        BY <2>3, <2>5, <3>3, <4>1, <4>2 DEF HistoryIsPast, None
      <4> QED
        BY <2>5, <3>1, <3>3, <4>1, <4>3 DEF HoldsServed, None
    <3>4. CASE current' \in {"Normal", "Watch"}
      <4>1. severeAt' = severeAt
        BY <2>2, <3>4 DEF Severe
      <4>2. current = "Stabilizing" => HoldFor(current, current') = RecoveryHold
        BY <2>5, <3>4 DEF HoldFor, IsRecovery
      <4>3. severeAt # NoTime => now - severeAt >= 2 * RecoveryHold
        <5>1. CASE current \in {"Normal", "Watch"}
          BY <2>1, <2>3, <5>1 DEF HoldsServed
        <5>2. CASE current = "Stabilizing"
          BY <2>1, <2>3, <2>5, <3>4, <4>2, <5>2
             DEF HoldsServed, CandidateIsFresh, None
        <5> QED
          BY <2>5, <3>4, <5>1, <5>2
      <4> QED
        BY <2>5, <3>1, <3>4, <4>1, <4>3 DEF HoldsServed, None
    <3>5. current' \in PressureStates
      BY <2>1, TransitionType
    <3> QED
      BY <3>1, <3>2, <3>3, <3>4, <3>5 DEF PressureStates, Severe
  <2> QED
    BY <2>1, <2>4, <2>5, TransitionCases
<1>3. CASE EvaluateTimeRegression \/ EvaluateInvalid \/ UNCHANGED vars
  BY <1>3 DEF EvaluateTimeRegression, EvaluateInvalid, vars, state,
     HistoryIsPast, HoldsServed
<1>4. CASE Restart
  BY <1>4 DEF Restart, HistoryIsPast, HoldsServed, TypeOK, Times, NoTime, None
<1> QED
  BY <1>1, <1>2, <1>3, <1>4 DEF Next

\* A new engine has served no hold and owes none, and only a new engine
\* forgets that the clock stepped back.
LEMMA SteppedBackStep ==
    ASSUME TypeOK, [Next]_vars
    PROVE  \/ steppedBack => steppedBack'
           \/ HistoryIsPast' /\ HoldsServed'
<1>1. CASE Restart
  BY <1>1 DEF Restart, HistoryIsPast, HoldsServed, TypeOK, Times, NoTime, None
<1>2. CASE ~Restart
  BY <1>2 DEF Next, Tick, Evaluate, RecordHistory, EvaluateTimeRegression,
     EvaluateInvalid, vars
<1> QED
  BY <1>1, <1>2

\* NORMAL is reported only two complete recovery holds after the last
\* evaluation that confirmed a severe state, if the clock did not step back.
THEOREM TwoHoldRecoveryHolds == Spec => []TwoHoldRecovery
<1> DEFINE Inv == ~steppedBack => HistoryIsPast /\ HoldsServed
<1>1. Init => Inv
  BY DEF Init, Conservative, HistoryIsPast, HoldsServed, NoTime, None
<1>2. TypeOK /\ CandidateIsFresh /\ Inv /\ [Next]_vars => Inv'
  BY HoldsServedStep, SteppedBackStep
<1>3. Inv => TwoHoldRecovery
  BY DEF HoldsServed, TwoHoldRecovery
<1> HIDE DEF Inv
<1> QED
  BY <1>1, <1>2, <1>3, TypeCorrect, CandidateIsFreshHolds, PTL DEF Spec
============================================================================
