----------------------- MODULE ZramTransactionProofs -----------------------
(***************************************************************************)
(* Proofs about ZramTransaction, for every set of device names, planning   *)
(* contexts and numbers of failures and crashes: type correctness, that no *)
(* step loses the last swap device, that a rollback which reports success  *)
(* is complete, and that the transaction implements SwapSet.               *)
(***************************************************************************)
EXTENDS ZramTransaction, TLAPS

USE DEF None

\* The state before the first transaction is well typed.
LEMMA InitType == Init => TypeOK
BY NamesAssumption
   DEF Init, TypeOK, SnapshotType, PlanType, NoSnapshot, NoPlan, Phases, Steps,
       ApplySteps, RollbackSteps, ReplacementSteps

\* An error of apply_after_create leaves a well typed, pending snapshot.
LEMMA UndoType ==
    ASSUME TypeOK, Undo
    PROVE  /\ snap' \in SnapshotType /\ plan' \in PlanType
           /\ pc' = "rb_original" /\ had_swap' = had_swap
           /\ snap' = [snap EXCEPT !.pending = TRUE]
BY NamesAssumption DEF TypeOK, Undo, SnapshotType, PlanType, NoPlan

\* A step of apply_after_create that works changes the phase only.
LEMMA AdvanceType ==
    ASSUME TypeOK, NEW phase \in Phases, NEW next, Advance(phase, next)
    PROVE  /\ snap' \in SnapshotType /\ plan' = plan
           /\ pc' = next /\ had_swap' = had_swap
           /\ snap'.replacement = snap.replacement
BY DEF TypeOK, Advance, SnapshotType

\* Every step of apply_plan preserves the types.
LEMMA ApplyType == TypeOK /\ ApplyStep => TypeOK'
<1> SUFFICES ASSUME TypeOK, ApplyStep PROVE TypeOK'
  OBVIOUS
<1> USE NamesAssumption, BoundsAssumption
    DEF Steps, ApplySteps, RollbackSteps, ReplacementSteps, Replacement,
        ReadOnly, Works, Fails, CountFailure, kernel, budget, RequireOwned
<1>1. CASE Undo /\ UNCHANGED <<present, sized, owned, crashes>> /\ failures' \in Nat
           /\ active' \subseteq sized
  <2>1. snap' \in SnapshotType /\ plan' \in PlanType /\ pc' = "rb_original"
        /\ had_swap' \in BOOLEAN
    BY <1>1, UndoType DEF TypeOK
  <2> QED BY <1>1, <2>1 DEF TypeOK
<1>2. ASSUME NEW phase \in Phases, NEW next \in Steps, Advance(phase, next),
             pc \in ReplacementSteps, next # "rb_remove",
             UNCHANGED <<present, owned, budget>>,
             sized' \subseteq present, active' \subseteq sized'
      PROVE  TypeOK'
  <2>1. snap' \in SnapshotType /\ plan' = plan /\ pc' = next
        /\ had_swap' = had_swap /\ snap'.replacement = snap.replacement
    BY <1>2, AdvanceType
  <2> QED BY <1>2, <2>1 DEF TypeOK
<1>3. CASE ApplyRefused
  BY <1>3 DEF TypeOK, SnapshotType, PlanType, NoPlan, ApplyRefused, Return
<1>4. CASE ApplyBegin
  BY <1>4 DEF TypeOK, SnapshotType, PlanType, Phases, ApplyBegin, EffectiveCapacity
<1>5. CASE CreateDevice BY <1>5 DEF TypeOK, SnapshotType, PlanType, CreateDevice
<1>6. CASE RecordReplacement
  BY <1>6 DEF TypeOK, SnapshotType, PlanType, Phases, RecordReplacement
<1>7. CASE CreateFails
  BY <1>7 DEF TypeOK, SnapshotType, PlanType, NoPlan, CreateFails, Return
<1>8. CASE ConfigureAlgorithm
  <2>1. CASE Undo BY <2>1, <1>1, <1>8 DEF ConfigureAlgorithm, TypeOK
  <2>2. CASE Advance("AlgorithmConfigured", "initialize") /\ ReadOnly /\ Works
    BY <2>2, <1>2, <1>8 DEF ConfigureAlgorithm, TypeOK, Phases
  <2> QED BY <2>1, <2>2, <1>8 DEF ConfigureAlgorithm
<1>9. CASE InitializeDevice
  <2>1. CASE Undo BY <2>1, <1>1, <1>9 DEF InitializeDevice, TypeOK, Undo, Advance
  <2>2. CASE Advance("Initialized", "readback")
    BY <2>2, <1>2, <1>9 DEF InitializeDevice, TypeOK, Phases, Undo, Advance
  <2> QED BY <2>1, <2>2, <1>9 DEF InitializeDevice
<1>10. CASE Readback
  <2>1. CASE Undo BY <2>1, <1>1, <1>10 DEF Readback, TypeOK
  <2>2. CASE Advance("Initialized", "activate") /\ ReadOnly /\ Works
    BY <2>2, <1>2, <1>10 DEF Readback, TypeOK, Phases
  <2> QED BY <2>1, <2>2, <1>10 DEF Readback
<1>11. CASE ActivateReplacement
  <2>1. CASE Undo /\ ActivateFails(Replacement)
    BY <2>1, <1>1, <1>11 DEF ActivateReplacement, ActivateFails, SwapOn, TypeOK
  <2>2. CASE Advance("Activated", "ensure") /\ Activate(Replacement)
    BY <2>2, <1>2, <1>11 DEF ActivateReplacement, Activate, SwapOn, TypeOK, Phases
  <2> QED BY <2>1, <2>2, <1>11 DEF ActivateReplacement
<1>12. CASE EnsureSwap
  <2>1. CASE Undo BY <2>1, <1>1, <1>12 DEF EnsureSwap, TypeOK
  <2>2. CASE Advance(snap.phase, "migrate") /\ ReadOnly /\ Works
    BY <2>2, <1>2, <1>12 DEF EnsureSwap, TypeOK, SnapshotType
  <2>3. CASE Advance(snap.phase, "verify") /\ ReadOnly /\ Works
    BY <2>3, <1>2, <1>12 DEF EnsureSwap, TypeOK, SnapshotType
  <2> QED BY <2>1, <2>2, <2>3, <1>12 DEF EnsureSwap
<1>13. CASE DeactivateOriginal
  <2>1. CASE Undo /\ DeactivateFails(snap.original)
    BY <2>1, <1>1, <1>13 DEF DeactivateOriginal, DeactivateFails, SwapOff, TypeOK
  <2>2. CASE Advance("OriginalDeactivated", "ensure") /\ Deactivate(snap.original)
    BY <2>2, <1>2, <1>13 DEF DeactivateOriginal, Deactivate, SwapOff, TypeOK, Phases
  <2> QED BY <2>1, <2>2, <1>13 DEF DeactivateOriginal
<1>14. CASE VerifyReplacement
  <2>1. CASE Undo BY <2>1, <1>1, <1>14 DEF VerifyReplacement, TypeOK, Undo, Return
  <2>2. CASE Return
    BY <2>2, <1>14
       DEF VerifyReplacement, TypeOK, Undo, Return, SnapshotType, PlanType, NoPlan, Phases
  <2> QED BY <2>1, <2>2, <1>14 DEF VerifyReplacement
<1> QED
  BY <1>3, <1>4, <1>5, <1>6, <1>7, <1>8, <1>9, <1>10, <1>11, <1>12, <1>13, <1>14
     DEF ApplyStep

\* Every step of rollback preserves the types.
LEMMA RollbackType == TypeOK /\ RollbackStep => TypeOK'
<1> SUFFICES ASSUME TypeOK, RollbackStep PROVE TypeOK'
  OBVIOUS
<1> USE NamesAssumption, BoundsAssumption
    DEF Steps, ApplySteps, RollbackSteps, ReplacementSteps, Replacement,
        ReadOnly, Works, Fails, CountFailure, kernel, budget, RequireOwned
<1>1. ASSUME RollbackReturns, UNCHANGED <<present, sized, owned, crashes>>,
             failures' \in Nat, active' \subseteq sized
      PROVE  TypeOK'
  BY <1>1 DEF TypeOK, RollbackReturns, Return, PlanType, NoPlan
<1>2. ASSUME NEW next \in Steps, To(next), UNCHANGED <<present, owned, budget>>,
             sized' \subseteq present, active' \subseteq sized',
             next \in ReplacementSteps => Replacement # None,
             next = "rb_remove" => Replacement \notin sized'
      PROVE  TypeOK'
  BY <1>2 DEF TypeOK, To
<1>3. CASE RollbackOriginal
  <2>1. CASE RollbackReturns
    BY <2>1, <1>1, <1>3
       DEF RollbackOriginal, Activate, ActivateFails, SwapOn, TypeOK, To, Return, RollbackReturns
  <2>2. CASE To("rb_reactivated") /\ Activate(snap.original)
    BY <2>2, <1>2 DEF Activate, SwapOn, TypeOK
  <2>3. CASE To("rb_replacement") /\ ReadOnly /\ Works
    BY <2>3, <1>2 DEF TypeOK
  <2> QED BY <2>1, <2>2, <2>3, <1>3 DEF RollbackOriginal
<1>4. ASSUME RollbackDone, UNCHANGED budget, present' \subseteq Names,
             sized' \subseteq present', active' \subseteq sized', owned' \subseteq present'
      PROVE  TypeOK'
  BY <1>4 DEF TypeOK, RollbackDone, Return, PlanType, NoPlan, SnapshotType, Phases
<1>5. CASE RollbackReplacement
  <2>1. CASE RollbackDone /\ ReadOnly /\ Works
    BY <2>1, <1>4 DEF TypeOK
  <2>2. CASE Replacement # None /\ To("rb_reset") /\ ReadOnly /\ Works
    BY <2>2, <1>2 DEF TypeOK
  <2>3. CASE Replacement # None /\ To("rb_deactivated") /\ Deactivate(Replacement)
    BY <2>3, <1>2 DEF Deactivate, SwapOff, TypeOK
  <2>4. CASE RollbackReturns /\ (Fails \/ DeactivateFails(Replacement))
    BY <2>4, <1>1 DEF DeactivateFails, SwapOff, TypeOK
  <2> QED BY <2>1, <2>2, <2>3, <2>4, <1>5 DEF RollbackReplacement
<1>6. CASE RollbackEnsure
  <2>1. CASE RollbackReturns
    BY <2>1, <1>1, <1>6 DEF RollbackEnsure, TypeOK
  <2>2. CASE pc = "rb_reactivated" /\ To("rb_replacement") /\ ReadOnly /\ Works
    BY <2>2, <1>2 DEF TypeOK
  <2>3. CASE pc = "rb_deactivated" /\ To("rb_reset") /\ ReadOnly /\ Works
    BY <2>3, <1>2 DEF TypeOK
  <2> QED BY <2>1, <2>2, <2>3, <1>6 DEF RollbackEnsure
<1>7. CASE ResetReplacement
  <2>1. CASE RollbackReturns /\ ReadOnly /\ (Works \/ CountFailure)
    BY <2>1, <1>1 DEF TypeOK
  <2>2. CASE /\ Replacement # None /\ Replacement \notin active
             /\ sized' = sized \ {Replacement} /\ To("rb_remove")
             /\ UNCHANGED <<present, active, owned, budget>>
    BY <2>2, <1>2 DEF TypeOK
  <2> QED BY <2>1, <2>2, <1>7 DEF ResetReplacement, TypeOK
<1>8. CASE RemoveReplacement
  BY <1>8, <1>1, <1>4 DEF RemoveReplacement, TypeOK
<1> QED BY <1>3, <1>5, <1>6, <1>7, <1>8 DEF RollbackStep

\* Every step of the system preserves the types.
LEMMA NextType == TypeOK /\ [Next]_vars => TypeOK'
<1> SUFFICES ASSUME TypeOK, [Next]_vars PROVE TypeOK'
  OBVIOUS
<1> USE NamesAssumption
    DEF TypeOK, SnapshotType, PlanType, NoPlan, Steps, ApplySteps, RollbackSteps,
        ReplacementSteps, Replacement, ReadOnly, Works, kernel, budget, call
<1>1. ASSUME NEW d \in Names, NEW c \in Contexts, Plan(d, c) PROVE TypeOK'
  <2>1. c.algorithm \in BOOLEAN /\ c.size \in BOOLEAN
    BY ContextsAssumption DEF ContextType
  <2>2. plan' \in PlanType
    BY <1>1, <2>1 DEF Plan, Allowed, RequiresMigration
  <2> QED BY <1>1, <2>2 DEF Plan
<1>2. CASE Rollback BY <1>2 DEF Rollback
<1>3. CASE Crash
  <2>1. crashes' \in Nat BY <1>3 DEF Crash
  <2>2. snap' \in SnapshotType BY <1>3 DEF Crash, NoSnapshot, Phases
  <2> QED BY <1>3, <2>1, <2>2 DEF Crash
<1>4. CASE UNCHANGED vars BY <1>4 DEF vars
<1> QED BY <1>1, <1>2, <1>3, <1>4, ApplyType, RollbackType DEF Next

\* Type correctness of the transaction: an active swap device is always an
\* initialised one that exists, and no step of apply_plan or rollback names a
\* missing replacement.
THEOREM TypeCorrect == Spec => []TypeOK
BY InitType, NextType, PTL DEF Spec

----------------------------------------------------------------------------
(* No step loses the last swap device. *)

\* Before the first transaction the invariant holds trivially.
LEMMA InitSwap == Init => SwapInv
<1> SUFFICES ASSUME Init PROVE SwapInv
  OBVIOUS
<1>1. Replacement = None /\ active \subseteq Names /\ None \notin active
  BY NamesAssumption DEF Init, NoSnapshot, Replacement
<1>2. had_swap => OtherSwap
  BY <1>1 DEF Init, OtherSwap
<1>3. CallSound
  BY <1>1, NamesAssumption DEF Init, CallSound, NoSnapshot, ApplySteps
<1> QED BY <1>2, <1>3 DEF SwapInv, SwapWitness

\* The steps of apply_plan keep a swap device that the rollback relies on.
LEMMA ApplySwap == TypeOK /\ SwapInv /\ ApplyStep => SwapInv'
<1> SUFFICES ASSUME TypeOK, SwapInv, ApplyStep PROVE SwapInv'
  OBVIOUS
<1> USE NamesAssumption
    DEF SwapInv, CallSound, SwapWitness, OtherSwap, TakenOver,
        ApplySteps, RollbackSteps, Replacement, ReadOnly, Works, Fails,
        CountFailure, kernel, budget
<1>t. snap \in SnapshotType /\ plan \in PlanType
      /\ present \subseteq Names /\ sized \subseteq present /\ active \subseteq sized
  BY DEF TypeOK
<1>1. ASSUME Undo, active' = active \/ active' = active \union {Replacement} PROVE SwapInv'
  <2>1. /\ snap'.original = snap.original /\ snap'.replacement = snap.replacement
        /\ snap'.active_swap = snap.active_swap /\ snap'.phase = snap.phase
        /\ pc' = "rb_original" /\ had_swap' = had_swap
    BY <1>1, <1>t DEF Undo, SnapshotType
  <2> QED BY <1>1, <2>1
<1>2. ASSUME NEW phase \in Phases \ {"RolledBack"}, NEW next \in ApplySteps \ {"planned", "create", "record"},
             Advance(phase, next), pc \in ApplySteps \ {"planned"},
             active' = active \/ active' = active \union {Replacement},
             next \in {"ensure", "migrate", "verify"} => Replacement \in active',
             next = "migrate" => plan.migration
      PROVE SwapInv'
  <2>1. /\ snap'.original = snap.original /\ snap'.replacement = snap.replacement
        /\ snap'.active_swap = snap.active_swap /\ snap'.phase = phase
        /\ pc' = next /\ had_swap' = had_swap /\ plan' = plan
    BY <1>2, <1>t DEF Advance, SnapshotType
  <2> QED BY <1>2, <2>1
<1>3. CASE ApplyRefused BY <1>3 DEF ApplyRefused, Return
<1>4. CASE ApplyBegin BY <1>4, <1>t DEF ApplyBegin, EffectiveCapacity, PlanType
<1>5. CASE CreateDevice BY <1>5, <1>t DEF CreateDevice, PlanType
<1>6. CASE RecordReplacement BY <1>6, <1>t DEF RecordReplacement, SnapshotType, PlanType
<1>7. CASE CreateFails BY <1>7 DEF CreateFails, Return
<1>8. CASE ConfigureAlgorithm
  <2>1. CASE Undo BY <2>1, <1>1, <1>8 DEF ConfigureAlgorithm
  <2>2. CASE Advance("AlgorithmConfigured", "initialize")
    BY <2>2, <1>2, <1>8 DEF ConfigureAlgorithm, Phases
  <2> QED BY <2>1, <2>2, <1>8 DEF ConfigureAlgorithm
<1>9. CASE InitializeDevice
  <2>1. CASE Undo BY <2>1, <1>1, <1>9 DEF InitializeDevice
  <2>2. CASE Advance("Initialized", "readback")
    BY <2>2, <1>2, <1>9 DEF InitializeDevice, Phases
  <2> QED BY <2>1, <2>2, <1>9 DEF InitializeDevice
<1>10. CASE Readback
  <2>1. CASE Undo BY <2>1, <1>1, <1>10 DEF Readback
  <2>2. CASE Advance("Initialized", "activate")
    BY <2>2, <1>2, <1>10 DEF Readback, Phases
  <2> QED BY <2>1, <2>2, <1>10 DEF Readback
<1>11. CASE ActivateReplacement
  <2>1. CASE Undo /\ ActivateFails(Replacement)
    BY <2>1, <1>1 DEF ActivateFails, SwapOn
  <2>2. CASE Advance("Activated", "ensure") /\ Activate(Replacement)
    BY <2>2, <1>2, <1>11 DEF ActivateReplacement, Activate, SwapOn, Phases
  <2> QED BY <2>1, <2>2, <1>11 DEF ActivateReplacement
<1>12. CASE EnsureSwap
  <2>1. CASE Undo BY <2>1, <1>1, <1>12 DEF EnsureSwap
  <2>2. CASE Advance(snap.phase, "migrate") /\ plan.migration /\ ReadOnly
    BY <2>2, <1>2, <1>12, <1>t DEF EnsureSwap, SnapshotType
  <2>3. CASE Advance(snap.phase, "verify") /\ ReadOnly
    BY <2>3, <1>2, <1>12, <1>t DEF EnsureSwap, SnapshotType
  <2> QED BY <2>1, <2>2, <2>3, <1>12 DEF EnsureSwap
<1>13. CASE DeactivateOriginal
  \* The original may go off: the replacement is active and takes over.
  <2>1. /\ plan.migration /\ snap.active_swap /\ snap.phase # "RolledBack"
        /\ Replacement \in active /\ Replacement # snap.original
        /\ Replacement # None
    BY <1>13, <1>t DEF DeactivateOriginal
  <2>2. active' = active \/ active' = active \ {snap.original}
    BY <1>13 DEF DeactivateOriginal, Deactivate, DeactivateFails, SwapOff
  <2>3. Replacement \in active'
    BY <2>1, <2>2
  <2>4. CASE Undo
    <3>1. /\ snap'.original = snap.original /\ snap'.replacement = snap.replacement
          /\ snap'.active_swap = snap.active_swap /\ snap'.phase = snap.phase
          /\ pc' = "rb_original"
      BY <2>4, <1>t DEF Undo, SnapshotType
    <3> QED BY <2>1, <2>3, <3>1
  <2>5. CASE Advance("OriginalDeactivated", "ensure")
    <3>1. /\ snap'.original = snap.original /\ snap'.replacement = snap.replacement
          /\ snap'.active_swap = snap.active_swap
          /\ snap'.phase = "OriginalDeactivated" /\ pc' = "ensure" /\ plan' = plan
      BY <2>5, <1>t DEF Advance, SnapshotType
    <3> QED BY <2>1, <2>3, <3>1
  <2> QED BY <2>4, <2>5, <1>13 DEF DeactivateOriginal
<1>14. CASE VerifyReplacement
  <2>1. CASE Undo BY <2>1, <1>1, <1>14 DEF VerifyReplacement
  <2>2. CASE Return /\ snap' = [snap EXCEPT !.phase = "Verified", !.pending = FALSE]
             /\ UNCHANGED <<active, had_swap>>
    <3>1. /\ snap'.original = snap.original /\ snap'.replacement = snap.replacement
          /\ snap'.active_swap = snap.active_swap
          /\ snap'.phase = "Verified" /\ pc' = "idle"
      BY <2>2, <1>t DEF SnapshotType, Return
    <3> QED BY <2>2, <3>1, <1>14
  <2> QED BY <2>1, <2>2, <1>14 DEF VerifyReplacement
<1> QED
  BY <1>3, <1>4, <1>5, <1>6, <1>7, <1>8, <1>9, <1>10, <1>11, <1>12, <1>13, <1>14
     DEF ApplyStep

\* The steps of rollback reactivate the original before they touch the
\* replacement, so they never need the replacement as the last device.
LEMMA RollbackSwap == TypeOK /\ SwapInv /\ RollbackStep => SwapInv'
<1> SUFFICES ASSUME TypeOK, SwapInv, RollbackStep PROVE SwapInv'
  OBVIOUS
<1> USE NamesAssumption
    DEF SwapInv, CallSound, SwapWitness, OtherSwap, TakenOver,
        ApplySteps, RollbackSteps, Replacement, ReadOnly, Works, Fails,
        CountFailure, kernel, budget
<1>t. snap \in SnapshotType /\ active \subseteq Names
  BY DEF TypeOK
<1>1. ASSUME RollbackReturns, active' = active PROVE SwapInv'
  BY <1>1 DEF RollbackReturns, Return
<1>2. ASSUME OtherSwap, RollbackDone,
             active' = active
      PROVE  SwapInv'
  <2>1. /\ snap'.original = snap.original /\ snap'.replacement = snap.replacement
        /\ pc' = "idle" /\ had_swap' = had_swap
    BY <1>2, <1>t DEF RollbackDone, Return, SnapshotType
  <2> QED BY <1>2, <2>1
<1>3. ASSUME ~had_swap, pc' \in RollbackSteps \union {"idle"},
             UNCHANGED had_swap,
             snap' = snap \/ snap' = [snap EXCEPT !.phase = "RolledBack", !.pending = FALSE]
      PROVE  SwapInv'
  <2>1. snap'.original = snap.original /\ snap'.replacement = snap.replacement
    BY <1>3, <1>t DEF SnapshotType
  <2> QED BY <1>3, <2>1
<1>4. ASSUME had_swap, pc \in RollbackSteps \ {"rb_original"} PROVE OtherSwap
  BY <1>4
<1>5. CASE RollbackOriginal
  <2>1. CASE To("rb_replacement") /\ ReadOnly /\ (snap.active_swap => snap.original \in active)
    BY <2>1 DEF To
  <2>2. CASE To("rb_reactivated") /\ Activate(snap.original)
    BY <2>2 DEF To, Activate, SwapOn
  <2>3. CASE RollbackReturns /\ active' = active
    BY <2>3, <1>1
  <2>4. CASE RollbackReturns /\ active' = active \union {snap.original}
    BY <2>4 DEF RollbackReturns, Return
  <2> QED BY <2>1, <2>2, <2>3, <2>4, <1>5 DEF RollbackOriginal, ActivateFails, SwapOn
<1>6. CASE RollbackReplacement
  <2>1. CASE ~had_swap
    BY <2>1, <1>3, <1>6 DEF RollbackReplacement, RollbackDone, RollbackReturns, Return, To
  <2>2. CASE had_swap
    <3>1. OtherSwap BY <2>2, <1>4, <1>6 DEF RollbackReplacement
    <3>2. CASE RollbackDone /\ ReadOnly BY <3>1, <3>2, <1>2
    <3>3. CASE To("rb_reset") /\ ReadOnly BY <3>1, <3>3 DEF To
    <3>4. CASE To("rb_deactivated") /\ Deactivate(Replacement)
      BY <3>1, <3>4 DEF To, Deactivate, SwapOff
    <3>5. CASE RollbackReturns /\ active' = active
      BY <3>5, <1>1
    <3>6. CASE RollbackReturns /\ active' = active \ {Replacement}
      BY <3>1, <3>6 DEF RollbackReturns, Return
    <3> QED
      BY <3>2, <3>3, <3>4, <3>5, <3>6, <1>6
         DEF RollbackReplacement, DeactivateFails, SwapOff
  <2> QED BY <2>1, <2>2 DEF TypeOK
<1>7. CASE RollbackEnsure
  <2>1. CASE RollbackReturns BY <2>1, <1>1, <1>7 DEF RollbackEnsure
  <2>2. CASE \E next \in {"rb_replacement", "rb_reset"} : To(next)
    BY <2>2, <1>7 DEF RollbackEnsure, To, RollbackReturns, Return
  <2> QED BY <2>1, <2>2, <1>7 DEF RollbackEnsure
<1>8. CASE ResetReplacement
  <2>1. CASE RollbackReturns
    BY <2>1, <1>1, <1>8 DEF ResetReplacement, RollbackReturns, Return, To
  <2>2. CASE To("rb_remove") BY <2>2, <1>8 DEF ResetReplacement, To
  <2> QED BY <2>1, <2>2, <1>8 DEF ResetReplacement
<1>9. CASE RemoveReplacement
  <2>1. CASE ~had_swap
    BY <2>1, <1>3, <1>9 DEF RemoveReplacement, RollbackDone, RollbackReturns, Return
  <2>2. CASE had_swap
    <3>1. OtherSwap BY <2>2, <1>4, <1>9 DEF RemoveReplacement
    <3> QED BY <3>1, <1>1, <1>2, <1>9 DEF RemoveReplacement
  <2> QED BY <2>1, <2>2 DEF TypeOK
<1> QED BY <1>5, <1>6, <1>7, <1>8, <1>9 DEF RollbackStep

\* Every step of the system keeps the invariant; a crash forgets the snapshot
\* and the owned names, and some device is active all the same.
LEMMA NextSwap == TypeOK /\ SwapInv /\ [Next]_vars => SwapInv'
<1> SUFFICES ASSUME TypeOK, SwapInv, [Next]_vars PROVE SwapInv'
  OBVIOUS
<1> USE NamesAssumption
    DEF SwapInv, CallSound, SwapWitness, OtherSwap, TakenOver,
        ApplySteps, RollbackSteps, Replacement, ReadOnly, Works, kernel, budget, call
<1>1. ASSUME NEW d \in Names, NEW c \in Contexts, Plan(d, c) PROVE SwapInv'
  BY <1>1 DEF Plan, RequiresMigration
<1>2. CASE Rollback BY <1>2 DEF Rollback
<1>3. CASE Crash
  <2>1. /\ snap'.original = Original /\ snap'.replacement = None
        /\ pc' = "idle" /\ had_swap' = had_swap /\ active' = active
    BY <1>3 DEF Crash, NoSnapshot
  <2>2. had_swap => active # {}
    BY DEF TypeOK
  <2>3. None \notin active
    BY DEF TypeOK
  <2> QED BY <2>1, <2>2, <2>3
<1>4. CASE UNCHANGED vars BY <1>4 DEF vars
<1> QED BY <1>1, <1>2, <1>3, <1>4, ApplySwap, RollbackSwap DEF Next

\* The invariant gives the promise of ensure_swap.
LEMMA SwapInvSuffices == TypeOK /\ SwapInv => NoSwapLoss
BY DEF TypeOK, SwapInv, SwapWitness, OtherSwap, TakenOver, NoSwapLoss,
       EffectiveCapacity

\* apply_plan, rollback and recover_pending never lose the last swap device of
\* a host that had one, for every number of devices, failing or timed out
\* helpers and crashes.
THEOREM NoSwapLossHolds == Spec => []NoSwapLoss
<1>1. TypeOK /\ SwapInv /\ [Next]_vars => (TypeOK /\ SwapInv)'
  BY NextType, NextSwap
<1> QED BY <1>1, InitType, InitSwap, SwapInvSuffices, PTL DEF Spec

----------------------------------------------------------------------------
(* A rollback that reports success is complete. *)

\* Until the snapshot is rolled back the replacement it names is a device the
\* running process added and knows to be its own, for a process that does not
\* know it has lost the snapshot as well; and rollback passes its first step
\* only with the original active again.
RollbackInv ==
    /\ Baseline \subseteq present
    /\ pc = "record" => plan.target \in owned \ Baseline
    /\ snap.phase # "RolledBack" /\ Replacement # None =>
         Replacement \in owned \ Baseline
    /\ pc \in RollbackSteps => snap.phase # "RolledBack"
    /\ pc \in RollbackSteps \ {"rb_original"} /\ snap.active_swap =>
         snap.original \in active

CompleteInv == RollbackInv /\ RollbackComplete

\* Before the first transaction nothing was rolled back.
LEMMA InitComplete == Init => CompleteInv
BY NamesAssumption
   DEF Init, CompleteInv, RollbackInv, RollbackComplete, NoSnapshot, Replacement, RollbackSteps

\* apply_plan learns the name of a device it owns; whatever fails after that
\* leaves the snapshot short of RolledBack.
LEMMA ApplyComplete == TypeOK /\ CallSound /\ CompleteInv /\ ApplyStep => CompleteInv'
<1> SUFFICES ASSUME TypeOK, CallSound, CompleteInv, ApplyStep PROVE CompleteInv'
  OBVIOUS
<1> USE NamesAssumption
    DEF CompleteInv, RollbackInv, RollbackComplete, ApplySteps, RollbackSteps, Replacement,
        ReadOnly, Works, Fails, CountFailure, kernel, budget
<1>t. snap \in SnapshotType /\ plan \in PlanType /\ owned \subseteq present
  BY DEF TypeOK
<1>p. pc \in ApplySteps \ {"planned"} => snap.phase # "RolledBack"
  BY DEF CallSound
<1>1. ASSUME Undo, pc \in ApplySteps \ {"planned"}, UNCHANGED <<present, owned>>
      PROVE  CompleteInv'
  <2>1. /\ snap'.replacement = snap.replacement /\ snap'.phase = snap.phase
        /\ pc' = "rb_original"
    BY <1>1, <1>t DEF Undo, SnapshotType
  <2> QED BY <1>1, <1>p, <2>1
<1>2. ASSUME NEW phase \in Phases \ {"RolledBack"}, NEW next \in ApplySteps \ {"record"},
             Advance(phase, next), pc \in ApplySteps \ {"planned"}, UNCHANGED <<present, owned>>
      PROVE  CompleteInv'
  <2>1. /\ snap'.replacement = snap.replacement /\ snap'.phase = phase
        /\ pc' = next /\ plan' = plan
    BY <1>2, <1>t DEF Advance, SnapshotType
  <2> QED BY <1>2, <1>p, <2>1
<1>3. CASE ApplyRefused BY <1>3 DEF ApplyRefused, Return
<1>4. CASE ApplyBegin BY <1>4 DEF ApplyBegin
<1>5. CASE CreateDevice BY <1>5, <1>t DEF CreateDevice, PlanType, CallSound
<1>6. CASE RecordReplacement BY <1>6, <1>t DEF RecordReplacement, SnapshotType, PlanType
<1>7. CASE CreateFails BY <1>7 DEF CreateFails, Return
<1>8. CASE ConfigureAlgorithm
  <2>1. CASE Undo BY <2>1, <1>1, <1>8 DEF ConfigureAlgorithm
  <2>2. CASE Advance("AlgorithmConfigured", "initialize")
    BY <2>2, <1>2, <1>8 DEF ConfigureAlgorithm, Phases
  <2> QED BY <2>1, <2>2, <1>8 DEF ConfigureAlgorithm
<1>9. CASE InitializeDevice
  <2>1. CASE Undo BY <2>1, <1>1, <1>9 DEF InitializeDevice
  <2>2. CASE Advance("Initialized", "readback")
    BY <2>2, <1>2, <1>9 DEF InitializeDevice, Phases
  <2> QED BY <2>1, <2>2, <1>9 DEF InitializeDevice
<1>10. CASE Readback
  <2>1. CASE Undo BY <2>1, <1>1, <1>10 DEF Readback
  <2>2. CASE Advance("Initialized", "activate")
    BY <2>2, <1>2, <1>10 DEF Readback, Phases
  <2> QED BY <2>1, <2>2, <1>10 DEF Readback
<1>11. CASE ActivateReplacement
  <2>1. CASE Undo /\ ActivateFails(Replacement)
    BY <2>1, <1>1, <1>11 DEF ActivateReplacement, ActivateFails, SwapOn
  <2>2. CASE Advance("Activated", "ensure") /\ Activate(Replacement)
    BY <2>2, <1>2, <1>11 DEF ActivateReplacement, Activate, SwapOn, Phases
  <2> QED BY <2>1, <2>2, <1>11 DEF ActivateReplacement
<1>12. CASE EnsureSwap
  <2>0. snap.phase \in Phases \ {"RolledBack"} BY <1>12, <1>t, <1>p DEF EnsureSwap, SnapshotType
  <2>1. CASE Undo BY <2>1, <1>1, <1>12 DEF EnsureSwap
  <2>2. CASE Advance(snap.phase, "migrate") /\ ReadOnly
    BY <2>0, <2>2, <1>2, <1>12 DEF EnsureSwap
  <2>3. CASE Advance(snap.phase, "verify") /\ ReadOnly
    BY <2>0, <2>3, <1>2, <1>12 DEF EnsureSwap
  <2> QED BY <2>1, <2>2, <2>3, <1>12 DEF EnsureSwap
<1>13. CASE DeactivateOriginal
  <2>1. CASE Undo /\ DeactivateFails(snap.original)
    BY <2>1, <1>1, <1>13 DEF DeactivateOriginal, DeactivateFails, SwapOff
  <2>2. CASE Advance("OriginalDeactivated", "ensure") /\ Deactivate(snap.original)
    BY <2>2, <1>2, <1>13 DEF DeactivateOriginal, Deactivate, SwapOff, Phases
  <2> QED BY <2>1, <2>2, <1>13 DEF DeactivateOriginal
<1>14. CASE VerifyReplacement
  <2>1. CASE Undo BY <2>1, <1>1, <1>14 DEF VerifyReplacement
  <2>2. CASE Return BY <2>2, <1>14, <1>t, <1>p DEF VerifyReplacement, Return, Undo, SnapshotType
  <2> QED BY <2>1, <2>2, <1>14 DEF VerifyReplacement
<1> QED
  BY <1>3, <1>4, <1>5, <1>6, <1>7, <1>8, <1>9, <1>10, <1>11, <1>12, <1>13, <1>14
     DEF ApplyStep

\* rollback says RolledBack only when the replacement is removed, or when
\* there was none: one that exists is owned and therefore never skipped.
LEMMA RollbackCompletes == TypeOK /\ CallSound /\ CompleteInv /\ RollbackStep => CompleteInv'
<1> SUFFICES ASSUME TypeOK, CallSound, CompleteInv, RollbackStep PROVE CompleteInv'
  OBVIOUS
<1> USE NamesAssumption
    DEF CompleteInv, RollbackInv, RollbackComplete, RollbackSteps, Replacement,
        ReadOnly, Works, Fails, CountFailure, kernel, budget
<1>t. snap \in SnapshotType /\ owned \subseteq present /\ Replacement # snap.original
  BY DEF TypeOK, CallSound
<1>1. ASSUME RollbackReturns, pc \in RollbackSteps, UNCHANGED <<present, owned>>
      PROVE  CompleteInv'
  BY <1>1 DEF RollbackReturns, Return
<1>2. ASSUME NEW next \in RollbackSteps, To(next), pc \in RollbackSteps,
             UNCHANGED <<present, owned>>, snap.active_swap => snap.original \in active'
      PROVE  CompleteInv'
  BY <1>2 DEF To
<1>3. ASSUME RollbackDone, pc \in RollbackSteps \ {"rb_original"}, active' = active,
             Baseline \subseteq present', Replacement # None => Replacement \notin present'
      PROVE  CompleteInv'
  <2>1. /\ snap'.original = snap.original /\ snap'.replacement = snap.replacement
        /\ snap'.active_swap = snap.active_swap /\ snap'.phase = "RolledBack" /\ pc' = "idle"
    BY <1>3, <1>t DEF RollbackDone, Return, SnapshotType
  <2> QED BY <1>3, <2>1
<1>4. CASE RollbackOriginal
  <2>1. CASE To("rb_replacement") /\ ReadOnly /\ (snap.active_swap => snap.original \in active)
    BY <2>1, <1>2, <1>4 DEF RollbackOriginal
  <2>2. CASE To("rb_reactivated") /\ Activate(snap.original)
    BY <2>2, <1>2, <1>4 DEF RollbackOriginal, Activate, SwapOn
  <2>3. CASE RollbackReturns
    BY <2>3, <1>1, <1>4 DEF RollbackOriginal, Activate, ActivateFails, SwapOn
  <2> QED BY <2>1, <2>2, <2>3, <1>4 DEF RollbackOriginal
<1>5. CASE RollbackReplacement
  <2>1. CASE Replacement = None /\ RollbackDone /\ ReadOnly
    BY <2>1, <1>3, <1>5 DEF RollbackReplacement
  <2>2. CASE Replacement # None /\ ~RequireOwned(Replacement)
    BY <2>2, <1>5 DEF RollbackReplacement, RequireOwned
  <2>3. CASE To("rb_reset") /\ ReadOnly BY <2>3, <1>2, <1>5 DEF RollbackReplacement
  <2>4. CASE To("rb_deactivated") /\ Deactivate(Replacement)
    BY <2>4, <1>t, <1>2, <1>5 DEF RollbackReplacement, Deactivate, SwapOff
  <2>5. CASE RollbackReturns /\ (Fails \/ DeactivateFails(Replacement))
    BY <2>5, <1>1, <1>5 DEF RollbackReplacement, DeactivateFails, SwapOff
  <2> QED BY <2>1, <2>2, <2>3, <2>4, <2>5, <1>5 DEF RollbackReplacement
<1>6. CASE RollbackEnsure
  <2>1. CASE RollbackReturns BY <2>1, <1>1, <1>6 DEF RollbackEnsure
  <2>2. CASE \E next \in {"rb_replacement", "rb_reset"} : To(next)
    BY <2>2, <1>2, <1>6 DEF RollbackEnsure, RollbackReturns, Return, To
  <2> QED BY <2>1, <2>2, <1>6 DEF RollbackEnsure
<1>7. CASE ResetReplacement
  <2>1. CASE RollbackReturns BY <2>1, <1>1, <1>7 DEF ResetReplacement
  <2>2. CASE To("rb_remove") BY <2>2, <1>2, <1>7 DEF ResetReplacement, RollbackReturns, Return, To
  <2> QED BY <2>1, <2>2, <1>7 DEF ResetReplacement
<1>8. CASE RemoveReplacement
  <2>1. CASE RollbackReturns /\ Fails BY <2>1, <1>1, <1>8 DEF RemoveReplacement
  <2>2. CASE RollbackDone /\ present' = present \ {Replacement} /\ UNCHANGED active
    <3>1. Replacement \notin Baseline
      BY <1>8 DEF RemoveReplacement, TypeOK, ReplacementSteps
    <3> QED BY <2>2, <3>1, <1>3, <1>8 DEF RemoveReplacement
  <2> QED BY <2>1, <2>2, <1>8 DEF RemoveReplacement
<1> QED BY <1>4, <1>5, <1>6, <1>7, <1>8 DEF RollbackStep

\* Every step keeps the invariant; a crash leaves no snapshot to report on.
LEMMA NextComplete == TypeOK /\ SwapInv /\ CompleteInv /\ [Next]_vars => CompleteInv'
<1> SUFFICES ASSUME TypeOK, CallSound, CompleteInv, [Next]_vars PROVE CompleteInv'
  BY DEF SwapInv
<1> USE NamesAssumption
    DEF CompleteInv, RollbackInv, RollbackComplete, RollbackSteps, Replacement,
        ReadOnly, Works, kernel, budget, call
<1>1. ASSUME NEW d \in Names, NEW c \in Contexts, Plan(d, c) PROVE CompleteInv'
  BY <1>1 DEF Plan
<1>2. CASE Rollback BY <1>2 DEF Rollback
<1>3. CASE Crash BY <1>3 DEF Crash, NoSnapshot
<1>4. CASE UNCHANGED vars BY <1>4 DEF vars
<1> QED BY <1>1, <1>2, <1>3, <1>4, ApplyComplete, RollbackCompletes DEF Next

\* A rollback reports RolledBack only once the original is the active swap it
\* was and the replacement is gone, whichever calls failed before and however
\* often it was retried, for every number of devices, failures and crashes.
THEOREM RollbackCompleteHolds == Spec => []RollbackComplete
<1>1. TypeOK /\ SwapInv /\ CompleteInv /\ [Next]_vars => (TypeOK /\ SwapInv /\ CompleteInv)'
  BY NextType, NextSwap, NextComplete
<1>2. CompleteInv => RollbackComplete
  BY DEF CompleteInv
<1> QED BY <1>1, <1>2, InitType, InitSwap, InitComplete, PTL DEF Spec

----------------------------------------------------------------------------
(* The transaction implements SwapSet. *)

\* No step changes the set of active devices by more than one device, and
\* only apply_plan's first step may change what is promised.
LEMMA OneDeviceAtATime ==
    ASSUME TypeOK, [Next]_vars
    PROVE  \/ active' = active /\ had_swap' = had_swap
           \/ active' = active /\ had_swap' = EffectiveCapacity
           \/ /\ had_swap' = had_swap
              /\ \E d \in Names : active' \in {active \union {d}, active \ {d}}
<1> USE NamesAssumption
    DEF ReadOnly, Works, Fails, CountFailure, kernel, budget, call
<1>t. snap.original \in Names /\ (Replacement # None => Replacement \in Names)
  BY DEF TypeOK, SnapshotType, Replacement
<1>1. CASE ApplyStep
  <2>1. CASE ActivateReplacement \/ DeactivateOriginal
    <3>1. had_swap' = had_swap
      BY <2>1 DEF ActivateReplacement, DeactivateOriginal, Undo, Advance
    <3>2. CASE ActivateReplacement
      BY <3>1, <3>2, <1>t
         DEF ActivateReplacement, Activate, ActivateFails, SwapOn, TypeOK, ReplacementSteps
    <3>3. CASE DeactivateOriginal
      BY <3>1, <3>3, <1>t DEF DeactivateOriginal, Deactivate, DeactivateFails, SwapOff
    <3> QED BY <2>1, <3>2, <3>3
  <2>2. CASE ApplyRefused \/ ApplyBegin \/ CreateDevice \/ RecordReplacement \/ CreateFails
    BY <2>2 DEF ApplyRefused, ApplyBegin, CreateDevice, RecordReplacement, CreateFails
  <2>3. CASE ConfigureAlgorithm \/ InitializeDevice \/ Readback
    BY <2>3 DEF ConfigureAlgorithm, InitializeDevice, Readback, Undo, Advance
  <2>4. CASE EnsureSwap \/ VerifyReplacement
    BY <2>4 DEF EnsureSwap, VerifyReplacement, Undo, Advance
  <2> QED BY <1>1, <2>1, <2>2, <2>3, <2>4 DEF ApplyStep
<1>2. CASE RollbackStep
  <2>1. had_swap' = had_swap
    BY <1>2 DEF RollbackStep, RollbackOriginal, RollbackReplacement, RollbackEnsure,
                ResetReplacement, RemoveReplacement, RollbackReturns, RollbackDone, To
  <2>2. CASE RollbackOriginal
    BY <2>1, <2>2, <1>t DEF RollbackOriginal, Activate, ActivateFails, SwapOn
  <2>3. CASE RollbackReplacement
    BY <2>1, <2>3, <1>t DEF RollbackReplacement, Deactivate, DeactivateFails, SwapOff
  <2>4. CASE RollbackEnsure \/ ResetReplacement \/ RemoveReplacement
    BY <2>1, <2>4 DEF RollbackEnsure, ResetReplacement, RemoveReplacement
  <2> QED BY <1>2, <2>2, <2>3, <2>4 DEF RollbackStep
<1>3. CASE Rollback \/ Crash \/ UNCHANGED vars
  BY <1>3 DEF Rollback, Crash, vars
<1>4. ASSUME NEW d \in Names, NEW c \in Contexts, Plan(d, c)
      PROVE  active' = active /\ had_swap' = had_swap
  BY <1>4 DEF Plan
<1> QED BY <1>1, <1>2, <1>3, <1>4 DEF Next

\* The zram transaction keeps the abstract promise: swap devices come and go
\* one at a time, and the last one stays while a transaction that started
\* with valid swap is the latest.
THEOREM SwapPromiseHolds == Spec => SwapPromise
<1>1. Init => Promise!Init
  BY NamesAssumption DEF Init, Promise!Init
<1>2. TypeOK /\ SwapInv /\ [Next]_vars => (TypeOK /\ SwapInv)'
  BY NextType, NextSwap
<1>3. TypeOK /\ SwapInv /\ (TypeOK /\ SwapInv)' /\ [Next]_vars => [Promise!Next]_(Promise!vars)
  <2> SUFFICES ASSUME TypeOK, NoSwapLoss', TypeOK', [Next]_vars
               PROVE  [Promise!Next]_(Promise!vars)
    BY SwapInvSuffices, NextType DEF TypeOK, SwapInv, SwapWitness, OtherSwap,
       TakenOver, NoSwapLoss, EffectiveCapacity, Replacement
  <2> USE DEF Promise!Next, Promise!vars, Promise!Start, Promise!SwapOn, Promise!SwapOff
  <2>1. EffectiveCapacity = (active # {}) /\ (had_swap' => active' # {})
    BY DEF TypeOK, EffectiveCapacity, NoSwapLoss
  <2>2. CASE active' = active /\ (had_swap' = had_swap \/ had_swap' = EffectiveCapacity)
    BY <2>1, <2>2
  <2>3. ASSUME NEW d \in Names, had_swap' = had_swap,
               active' \in {active \union {d}, active \ {d}}
        PROVE  [Promise!Next]_(Promise!vars)
    <3>1. CASE active' = active
      BY <2>3, <3>1
    <3>2. CASE d \notin active /\ active' = active \union {d}
      BY <2>3, <3>2
    <3>3. CASE d \in active /\ active' = active \ {d}
      <4>1. had_swap => active # {d} BY <2>1, <2>3, <3>3
      <4> QED BY <2>3, <3>3, <4>1
    <3> QED BY <2>3, <3>1, <3>2, <3>3
  <2> QED BY <2>2, <2>3, OneDeviceAtATime
<1> QED BY <1>1, <1>2, <1>3, InitType, InitSwap, PTL DEF Spec, SwapPromise, Promise!Spec
=============================================================================
