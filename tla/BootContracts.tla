---------------------------- MODULE BootContracts ----------------------------
(***************************************************************************)
(* The boot validation contracts v2, v3, v5 and v6 of the tiering crate:   *)
(* the stages of each, its transition table, and what each of its          *)
(* functions does.  Every function is a straight sequence of durable       *)
(* writes, host mutations, evidence files and checks, so it is a program:  *)
(* a sequence of steps, one for each point between which the process can   *)
(* die.  BootLifecycle runs these programs.                                *)
(*                                                                         *)
(* v3, v5 and v6 differ in the name under which the zram baseline is filed *)
(* and in the order of the first two writes; v2 has no baseline            *)
(* measurement, no staged helper and no activation stages.                 *)
(***************************************************************************)
EXTENDS Naturals, Sequences

-----------------------------------------------------------------------------
(* Stages and transitions. *)

BeforeOneShot == {"Prepared", "RootPreflighted", "BaselineMeasuring",
                  "BaselineMeasured", "Applying", "Applied"}
OneShotStages == {"OneShotSelecting", "OneShotSelected"}
Activating == {"ActivationPreparing", "ZswapDisabling",
               "ZswapParametersApplying", "ZswapEnabling", "SwapActivating"}
Terminal == {"Restored", "Recovered"}
BaselineStages == {"BaselineSelecting", "BaselineSelected", "BaselineBoot",
                   "BaselineVerified"}

StagesV2 ==
    (BeforeOneShot \ {"BaselineMeasuring", "BaselineMeasured"})
    \cup OneShotStages \cup BaselineStages \cup Terminal
    \cup {"ExperimentalBoot", "PostBootMeasuring", "PostBootValidated",
          "Cleaning", "Failed"}
StagesV3 ==
    BeforeOneShot \cup OneShotStages \cup Activating \cup BaselineStages
    \cup Terminal
    \cup {"ExperimentalBootDetected", "ActivationVerified",
          "ActivationFailed", "PostBootMeasuring", "PostBootValidated",
          "Cleaning", "Failed"}
StagesV5 == StagesV3
StagesV6 == StagesV3

Stages == [v2 |-> StagesV2, v3 |-> StagesV3, v5 |-> StagesV5, v6 |-> StagesV6]

\* The pairs of neighbours in a sequence of stages.
Chain(s) == {<<s[i], s[i + 1]>> : i \in 1..(Len(s) - 1)}

ReturnChain == <<"BaselineSelecting", "BaselineSelected", "BaselineBoot",
                 "BaselineVerified", "Cleaning", "Restored">>

LegalV2 ==
    Chain(<<"Prepared", "RootPreflighted", "Applying", "Applied",
            "OneShotSelecting", "OneShotSelected", "ExperimentalBoot",
            "PostBootMeasuring", "PostBootValidated">> \o ReturnChain)
    \cup {<<"ExperimentalBoot", "BaselineSelecting">>}
    \cup (StagesV2 \X {"Failed"})
    \cup ({"Prepared", "RootPreflighted", "Applying", "Applied",
           "OneShotSelecting", "OneShotSelected", "BaselineVerified",
           "Cleaning"} \X {"Recovered"})

LegalV3 ==
    Chain(<<"Prepared", "RootPreflighted", "BaselineMeasuring",
            "BaselineMeasured", "Applying", "Applied", "OneShotSelecting",
            "OneShotSelected", "ExperimentalBootDetected",
            "ActivationPreparing", "ZswapDisabling",
            "ZswapParametersApplying", "ZswapParametersApplying",
            "ZswapEnabling", "SwapActivating", "ActivationVerified",
            "PostBootMeasuring", "PostBootValidated">> \o ReturnChain)
    \cup (Activating \X {"ActivationFailed"})
    \cup ((Activating \cup {"ActivationFailed", "ActivationVerified",
              "PostBootMeasuring", "Failed"}) \X {"BaselineSelecting"})
    \cup (StagesV3 \X {"Failed"})
    \cup ((BeforeOneShot \cup OneShotStages \cup Activating \cup
              {"BaselineVerified", "Cleaning", "ActivationFailed", "Failed"})
          \X {"Recovered"})
LegalV5 == LegalV3
LegalV6 == LegalV3

Legal == [v2 |-> LegalV2, v3 |-> LegalV3, v5 |-> LegalV5, v6 |-> LegalV6]

-----------------------------------------------------------------------------
(* Operations, documents and steps. *)

\* owned_artifacts of the manifest, and the swapfile; v2 owns no helper.
Owned == {"entry", "unit", "helper", "swapfile"}

Op(act, on) == [act |-> act, on |-> on]
Ops == {Op(act, x) : act \in {"create", "remove"}, x \in Owned}
       \cup {Op("oneshot", e) : e \in {"experimental", "baseline", "none"}}
       \cup {Op("zswap", z) : z \in {"off", "parameters", "on"}}
       \cup {Op("swap", s) : s \in {"on", "off"}}
NoOp == Op("none", "none")

\* The documents a validation files besides the transaction itself; the zram
\* baseline has two names.
Documents == {"root", "manifest", "preflight", "apply", "oneshot",
              "activation", "postboot", "restore", "authority", "recovery",
              "zram-v2", "zram-v4"}

\* The document that must be sealed before the first boot artifact.
BaselineDocument == [v2 |-> "preflight", v3 |-> "zram-v2",
                     v5 |-> "zram-v2", v6 |-> "zram-v4"]

Plain == [k |-> "save", to |-> "", op |-> NoOp, done |-> FALSE,
          ev |-> "", uuid |-> FALSE, fail |-> "abort", n |-> 0]

\* Durable writes: a transition, an intent, a completion, a document's hash.
To(s) == [Plain EXCEPT !.to = s]
Intend(op) == [Plain EXCEPT !.op = op]
ToIntend(s, op) == [Plain EXCEPT !.to = s, !.op = op]
Done == [Plain EXCEPT !.done = TRUE]
DoneTo(s) == [Plain EXCEPT !.done = TRUE, !.to = s]
NoteTo(ev, s) == [Plain EXCEPT !.ev = ev, !.to = s]
DoneNoteTo(ev, s) == [Plain EXCEPT !.done = TRUE, !.ev = ev, !.to = s]
SwapUuid == [Plain EXCEPT !.uuid = TRUE]

\* Everything else: a mutation of the host, a new document, a check, a step
\* that skips the next n when its condition does not hold, the end.
Do(op, fail) == [Plain EXCEPT !.k = "do", !.op = op, !.fail = fail]
Try(op, n) == [Plain EXCEPT !.k = "do", !.op = op, !.fail = "skip", !.n = n]
Put(ev) == [Plain EXCEPT !.k = "put", !.ev = ev]
Check(what, fail) == [Plain EXCEPT !.k = "check", !.ev = what, !.fail = fail]
Unless(what, n) == [Plain EXCEPT !.k = "check", !.ev = what,
                                 !.fail = "skip", !.n = n]
FailTransaction == [Plain EXCEPT !.k = "fail"]
Seal == [Plain EXCEPT !.k = "seal"]
Return == [Plain EXCEPT !.k = "return"]

\* Steps that are taken only where a condition holds, and those that are
\* taken only when an announced operation has succeeded.
Optionally(what, steps) == <<Unless(what, Len(steps))>> \o steps
Attempt(op, steps) == <<Intend(op), Try(op, Len(steps))>> \o steps

-----------------------------------------------------------------------------
(* The durable transaction: what a new one holds, and what a durable write   *)
(* puts into it (transition, record_intent, complete_last, the hash of a     *)
(* document, the identity of the swapfile).                                  *)

\* DurableTransaction::new, in the boot that becomes the baseline's.
FreshV2(boot) ==
    [stage |-> "Prepared", born |-> boot, failedFrom |-> "", intents |-> {},
     completed |-> {}, last |-> NoOp, evidence |-> {}, uuid |-> FALSE]
FreshV3(boot) == FreshV2(boot)
FreshV5(boot) == FreshV2(boot)
FreshV6(boot) == FreshV2(boot)

Fresh(contract, boot) ==
    CASE contract = "v2" -> FreshV2(boot) [] contract = "v3" -> FreshV3(boot)
      [] contract = "v5" -> FreshV5(boot) [] contract = "v6" -> FreshV6(boot)

WrittenV2(t, s) ==
    [t EXCEPT
        !.stage = IF s.to = "" THEN @ ELSE s.to,
        !.intents = IF s.op = NoOp THEN @ ELSE @ \cup {s.op},
        !.completed = IF s.done THEN @ \cup {t.last} ELSE @ \ {s.op},
        !.last = IF s.op = NoOp THEN @ ELSE s.op,
        !.evidence = IF s.ev = "" THEN @ ELSE @ \cup {s.ev},
        !.uuid = @ \/ s.uuid]
WrittenV3(t, s) == WrittenV2(t, s)
WrittenV5(t, s) == WrittenV2(t, s)
WrittenV6(t, s) == WrittenV2(t, s)

Written(contract, t, s) ==
    CASE contract = "v2" -> WrittenV2(t, s) [] contract = "v3" -> WrittenV3(t, s)
      [] contract = "v5" -> WrittenV5(t, s) [] contract = "v6" -> WrittenV6(t, s)

\* fail_transaction
FailingV2(t) == [t EXCEPT !.failedFrom = t.stage, !.stage = "Failed"]
FailingV3(t) == FailingV2(t)
FailingV5(t) == FailingV2(t)
FailingV6(t) == FailingV2(t)

Failing(contract, t) ==
    CASE contract = "v2" -> FailingV2(t) [] contract = "v3" -> FailingV3(t)
      [] contract = "v5" -> FailingV5(t) [] contract = "v6" -> FailingV6(t)

-----------------------------------------------------------------------------
(* The gates: what the binary observes of the machine h, and what each       *)
(* contract asks of the observation o and the transaction t.  The facts that *)
(* no step of the lifecycle changes (the sealed manifest, kernel, topology,  *)
(* the protected zram, free space, the numbers of the workload) are left to  *)
(* the fault of a check.                                                     *)

\* collect_preflight; begun: the transaction root exists, alone: no other
\* validator runs
CollectPreflight(h, begun, alone) ==
    [boot_matches |-> h.entry = "baseline",
     one_shot_matches |-> h.oneShot = "none",
     zswap_matches |-> ~h.zswap,
     parents_safe |-> \A x \in Owned : h.owned[x] = "absent",
     validation_destinations_absent |->
        \A x \in Owned \ {"swapfile"} : h.owned[x] = "absent",
     stale_state_absent |-> ~begun /\ \A x \in Owned : h.owned[x] = "absent",
     validation_process_absent |-> alone]

\* validate_preflight, derived_preflight_ready
PreflightReadyV2(o) ==
    /\ o.boot_matches /\ o.one_shot_matches /\ o.zswap_matches
    /\ o.parents_safe /\ o.stale_state_absent /\ o.validation_process_absent
PreflightReadyV3(o) ==
    PreflightReadyV2(o) /\ o.validation_destinations_absent
PreflightReadyV5(o) == PreflightReadyV3(o)
PreflightReadyV6(o) == PreflightReadyV3(o)

PreflightReady(contract, o) ==
    CASE contract = "v2" -> PreflightReadyV2(o)
      [] contract = "v3" -> PreflightReadyV3(o)
      [] contract = "v5" -> PreflightReadyV5(o)
      [] contract = "v6" -> PreflightReadyV6(o)

\* collect_post_boot
CollectPostBoot(h) ==
    [boot_id |-> h.boot, booted_entry |-> h.entry, zswap |-> h.zswap,
     swap |-> h.swapOn, unit_active |-> h.unitRan]

\* validate_actual_post_boot
PostBootMeasuredV2(o, t) ==
    /\ t.stage = "PostBootMeasuring" /\ o.boot_id # t.born
    /\ o.booted_entry = "experimental"
    /\ o.zswap /\ o.unit_active /\ o.swap
PostBootMeasuredV3(o, t) == PostBootMeasuredV2(o, t)
PostBootMeasuredV5(o, t) == PostBootMeasuredV2(o, t)
PostBootMeasuredV6(o, t) == PostBootMeasuredV2(o, t)

PostBootMeasured(contract, o, t) ==
    CASE contract = "v2" -> PostBootMeasuredV2(o, t)
      [] contract = "v3" -> PostBootMeasuredV3(o, t)
      [] contract = "v5" -> PostBootMeasuredV5(o, t)
      [] contract = "v6" -> PostBootMeasuredV6(o, t)

\* collect_baseline
CollectBaseline(h) ==
    [boot_id |-> h.boot, booted_entry |-> h.entry, zswap |-> h.zswap,
     swap |-> h.swapOn, one_shot |-> h.oneShot]

\* verify_baseline_before_cleanup: the one-shot the manifest records is none,
\* and its swaps are those of the baseline.
BaselineProvenV2(o, t) ==
    /\ t.stage = "BaselineBoot" /\ o.boot_id # t.born
    /\ o.booted_entry = "baseline"
    /\ ~o.zswap /\ ~o.swap /\ o.one_shot = "none"
BaselineProvenV3(o, t) == BaselineProvenV2(o, t)
BaselineProvenV5(o, t) == BaselineProvenV2(o, t)
BaselineProvenV6(o, t) == BaselineProvenV2(o, t)

\* MUTANT: the cleanup trusts the stage and does not look at the machine.
BaselineTrusted(contract, o, t) ==
    t.stage = "BaselineBoot" /\ o.boot_id # t.born

BaselineProven(contract, o, t) ==
    CASE contract = "v2" -> BaselineProvenV2(o, t)
      [] contract = "v3" -> BaselineProvenV3(o, t)
      [] contract = "v5" -> BaselineProvenV5(o, t)
      [] contract = "v6" -> BaselineProvenV6(o, t)

-----------------------------------------------------------------------------
(* The first command: the transaction, and in v3 to v6 the baseline. *)

\* The first two writes behind the new root.
TransactionFirst == <<Put("root"), Plain, Put("manifest")>>
ManifestFirst == <<Put("root"), Put("manifest"), Plain>>

Preflighted == <<Put("preflight"), NoteTo("preflight", "RootPreflighted")>>

\* run_bounded_workload_scope: the workload runs in a scope of its own, which
\* must answer in time, end well and report what it did.
BoundedWorkload == Check("workload", "fail")

\* The trusted helper is staged before the workload of the baseline runs.
StageAndMeasure ==
    <<Intend(Op("create", "helper")), Do(Op("create", "helper"), "fail"),
      Done, To("BaselineMeasuring"), BoundedWorkload>>

\* MUTANT: the hash of the baseline is recorded before its document exists.
MeasureStepsV6Eager ==
    ManifestFirst \o Preflighted \o StageAndMeasure
    \o <<NoteTo("zram-v4", "BaselineMeasured"), Put("zram-v4")>>

\* initialize_and_measure_baseline
MeasureStepsV3 ==
    TransactionFirst \o Preflighted \o StageAndMeasure
    \o <<Put("zram-v2"), NoteTo("zram-v2", "BaselineMeasured")>>
MeasureStepsV5 == MeasureStepsV3
MeasureStepsV6 ==
    ManifestFirst \o Preflighted \o StageAndMeasure
    \o <<Put("zram-v4"), NoteTo("zram-v4", "BaselineMeasured")>>

-----------------------------------------------------------------------------
(* Apply, and the rollback of what it has completed. *)

\* MUTANT: the intent is recorded after the file has been created.
CreatingUnannounced(x, fail) ==
    <<Do(Op("create", x), fail), Intend(Op("create", x)), Done>>

Creating(x, fail) ==
    <<Intend(Op("create", x)), Do(Op("create", x), fail), Done>>

\* The identity of the new swapfile is durable before it is judged.
CreatingSwapfile ==
    <<Intend(Op("create", "swapfile")), Do(Op("create", "swapfile"), "fail"),
      SwapUuid, Check("identity", "undo_swapfile"), Done>>

\* apply_exact_transaction: v2 begins the transaction here
ApplyStepsV2 ==
    TransactionFirst \o Preflighted \o <<To("Applying")>> \o CreatingSwapfile
    \o Creating("entry", "undo_entry") \o Creating("unit", "undo_unit")
    \o <<Check("settings", "undo_all"), To("Applied")>>
ApplyStepsV3 ==
    <<To("Applying")>> \o CreatingSwapfile
    \o Creating("entry", "undo_entry") \o Creating("unit", "undo_unit")
    \o <<Check("helper", "fail"), Check("settings", "undo_all"),
         Put("apply"), NoteTo("apply", "Applied")>>
ApplyStepsV5 == ApplyStepsV3
ApplyStepsV6 == ApplyStepsV3

\* rollback_partial_apply of the artifacts created so far, last one first, and
\* the fail_transaction after it; a removal that fails is only noted.
RollbackSteps(created) ==
    [i \in DOMAIN created |-> Try(Op("remove", created[i]), 0)]
    \o <<Try(Op("remove", "swapfile"), 0), FailTransaction>>

\* The artifact whose creation failed is not among the created ones.
RollbackV2 ==
    [undo_swapfile |-> RollbackSteps(<<>>),
     undo_entry |-> RollbackSteps(<<>>),
     undo_unit |-> RollbackSteps(<<"entry">>),
     undo_all |-> RollbackSteps(<<"unit", "entry">>)]
RollbackV3 ==
    [undo_swapfile |-> RollbackSteps(<<>>),
     undo_entry |-> RollbackSteps(<<"helper">>),
     undo_unit |-> RollbackSteps(<<"entry", "helper">>),
     undo_all |-> RollbackSteps(<<"unit", "entry", "helper">>)]
RollbackV5 == RollbackV3
RollbackV6 == RollbackV3

-----------------------------------------------------------------------------
(* One-shot, measurement in the experimental boot, and the way back. *)

\* select_exact_one_shot
SelectOneShotStepsV2 ==
    <<To("OneShotSelecting"), Intend(Op("oneshot", "experimental")),
      Do(Op("oneshot", "experimental"), "fail"),
      Put("oneshot"), DoneNoteTo("oneshot", "OneShotSelected")>>
SelectOneShotStepsV3 == <<Check("helper", "abort")>> \o SelectOneShotStepsV2
SelectOneShotStepsV5 == SelectOneShotStepsV3
SelectOneShotStepsV6 == SelectOneShotStepsV3

MeasureProfile ==
    <<To("PostBootMeasuring"), BoundedWorkload,
      Check("measured", "abort"),
      Put("postboot"), NoteTo("postboot", "PostBootValidated")>>

\* collect_and_validate_post_boot: v2 enters ExperimentalBoot by itself, the
\* others need an activation verified by the unit.
PostBootStepsV2 ==
    Optionally("chosen", <<To("ExperimentalBoot")>>) \o MeasureProfile
PostBootStepsV3 ==
    <<Check("activated", "abort"), Check("helper", "abort")>>
    \o MeasureProfile
PostBootStepsV5 == PostBootStepsV3
PostBootStepsV6 == PostBootStepsV3

\* select_baseline_rollback
SelectBaselineStepsV2 ==
    <<To("BaselineSelecting"), Intend(Op("oneshot", "baseline")),
      Do(Op("oneshot", "baseline"), "fail"), DoneTo("BaselineSelected")>>
SelectBaselineStepsV3 == SelectBaselineStepsV2
SelectBaselineStepsV5 == SelectBaselineStepsV2
SelectBaselineStepsV6 == SelectBaselineStepsV2

Removing(x) ==
    <<Intend(Op("remove", x)), Do(Op("remove", x), "fail"), Done>>

ProveBaseline ==
    Optionally("selected", <<To("BaselineBoot")>>)
    \o <<Check("baseline", "abort"), Put("restore"),
         NoteTo("restore", "BaselineVerified"), To("Cleaning")>>

RemoveSwapfile ==
    <<Intend(Op("remove", "swapfile")), Do(Op("remove", "swapfile"), "fail"),
      Check("cleaned", "fail"), Check("finalize", "fail")>>

\* verify_then_cleanup; v3 to v6 also file the authority for a recommendation,
\* from the baseline filed as "zram-v2"
CleanupStepsV2 ==
    ProveBaseline \o Removing("unit") \o Removing("entry") \o RemoveSwapfile
    \o <<DoneTo("Restored"), Seal>>
CleanupStepsV3 ==
    ProveBaseline \o Removing("helper") \o Removing("unit")
    \o Removing("entry") \o RemoveSwapfile
    \o <<Check("authority", "abort"), Put("authority"),
         DoneNoteTo("authority", "Restored"), Seal>>
CleanupStepsV5 == CleanupStepsV3
CleanupStepsV6 == CleanupStepsV3

-----------------------------------------------------------------------------
(* Recovery. *)

\* MUTANT: a selected one-shot is not cleared before the files are removed.
RecoveryActionV6NoClear(stage, experimental) ==
    CASE stage \in BeforeOneShot \cup OneShotStages -> "remove"
      [] stage \in {"BaselineSelected", "BaselineBoot",
                    "BaselineVerified", "Cleaning"} -> "cleanup"
      [] stage \in Terminal \cup {"Failed"} -> ""
      [] OTHER -> "baseline"

\* recovery_action; "" where it does nothing or asks for a diagnosis.
RecoveryActionV2(stage, experimental) ==
    CASE stage \in BeforeOneShot -> "remove"
      [] stage \in OneShotStages /\ ~experimental -> "clear"
      [] stage \in {"BaselineSelected", "BaselineBoot",
                    "BaselineVerified", "Cleaning"} -> "cleanup"
      [] stage \in Terminal \cup {"Failed"} -> ""
      [] OTHER -> "baseline"
RecoveryActionV3(stage, experimental) == RecoveryActionV2(stage, experimental)
RecoveryActionV5(stage, experimental) == RecoveryActionV2(stage, experimental)
RecoveryActionV6(stage, experimental) == RecoveryActionV2(stage, experimental)

RecoveryAction(contract, stage, experimental) ==
    CASE contract = "v2" -> RecoveryActionV2(stage, experimental)
      [] contract = "v3" -> RecoveryActionV3(stage, experimental)
      [] contract = "v5" -> RecoveryActionV5(stage, experimental)
      [] contract = "v6" -> RecoveryActionV6(stage, experimental)
=============================================================================
