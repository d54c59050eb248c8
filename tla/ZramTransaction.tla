-------------------------- MODULE ZramTransaction --------------------------
(***************************************************************************)
(* The replacement-first zram transaction of Nemor (crates/zram): the      *)
(* planning gate of plan_profile, apply_plan, rollback and recover_pending *)
(* over LinuxZramBackend.  Every backend call is a step of its own; a call *)
(* may fail, and a helper that is killed by its timeout (swapon, swapoff)  *)
(* may have taken effect all the same.                                     *)
(*                                                                         *)
(* Data abstraction.  A disk size is only zero or not, so a device is      *)
(* "sized" or not and the effective valid swap capacity is positive iff a  *)
(* sized device is an active swap.  The snapshot and the backend's set of  *)
(* owned names live in the memory of the process: apply_plan stores        *)
(* nothing between its steps, so a crash loses both and leaves the devices *)
(* as they are.  Nobody but Nemor switches swap devices on or off.         *)
(***************************************************************************)
EXTENDS Integers, FiniteSets

CONSTANTS
    Names,            \* device names
    Baseline,         \* devices that were there before Nemor's first hot_add
    Original,         \* a device Nemor hot-added and initialised earlier
    Adopted,          \* baseline devices the inventory reports as Adopted
    Contexts,         \* the planning contexts the callers may present
    MaxFailures,      \* bound: failing backend calls
    MaxCrashes        \* bound: crashes of the process

None == "None"

\* What plan_profile reads: its block conditions, and whether the selected
\* algorithm and the proposed size are Some and differ from the current ones.
ContextType ==
    [dry_run : BOOLEAN, provider_ok : BOOLEAN, safety_event : BOOLEAN,
     headroom : BOOLEAN, unsafe_pressure : BOOLEAN, gaming : BOOLEAN,
     allow_reconfigure : BOOLEAN, reset_writable : BOOLEAN,
     reinit : BOOLEAN, algorithm : BOOLEAN, size : BOOLEAN]

ASSUME NamesAssumption ==
    /\ None \notin Names /\ Original \in Names
    /\ Baseline \subseteq Names \ {Original} /\ Adopted \subseteq Baseline
ASSUME ContextsAssumption == Contexts \subseteq ContextType
ASSUME BoundsAssumption == MaxFailures \in Nat /\ MaxCrashes \in Nat

VARIABLES
    present,   \* kernel: the zram devices that exist
    sized,     \* kernel: those that are initialised with a disk size
    active,    \* kernel: those in use as swap
    owned,     \* LinuxZramBackend.owned
    snap,      \* the MutationSnapshot of the latest transaction
    plan,      \* the plan the call in progress was made with
    pc,        \* the next step of the call in progress, "idle" if there is none
    had_swap,  \* initial_capacity > 0
    failures,  \* failing calls so far
    crashes    \* crashes so far

call == <<snap, plan, pc, had_swap>>
budget == <<failures, crashes>>
kernel == <<present, sized, active>>
vars == <<kernel, owned, call, budget>>

Phases ==
    {"Snapshot", "ReplacementCreated", "AlgorithmConfigured", "Initialized",
     "Activated", "OriginalDeactivated", "Verified", "RolledBack"}

ApplySteps ==
    {"planned", "create", "record", "configure", "initialize", "readback",
     "activate", "ensure", "migrate", "verify"}
RollbackSteps ==
    {"rb_original", "rb_reactivated", "rb_replacement", "rb_deactivated",
     "rb_reset", "rb_remove"}
Steps == {"idle"} \union ApplySteps \union RollbackSteps

\* Before the first transaction there is nothing to roll back.
NoSnapshot ==
    [original |-> Original, active_swap |-> FALSE, replacement |-> None,
     phase |-> "RolledBack", pending |-> FALSE]

NoPlan ==
    [target |-> Original, active_swap |-> FALSE, executable |-> FALSE,
     algorithm |-> FALSE, size |-> FALSE, migration |-> FALSE]

Init ==
    /\ present = Baseline \union {Original}
    /\ sized = present
    /\ active \in SUBSET present
    /\ owned = {Original}
    /\ snap = NoSnapshot
    /\ plan = NoPlan
    /\ pc = "idle"
    /\ had_swap = (active # {})
    /\ failures = 0 /\ crashes = 0

----------------------------------------------------------------------------
(* The backend *)

\* A read-only or refused call: no device changes.
ReadOnly == UNCHANGED <<kernel, owned>>

RequireOwned(d) == d \in owned

EffectiveCapacity == active \intersect sized # {}

Works == UNCHANGED budget

\* One of the calls fails; the bound keeps the model finite.
CountFailure ==
    /\ failures < MaxFailures
    /\ failures' = failures + 1
    /\ UNCHANGED crashes

Fails == CountFailure /\ ReadOnly

SwapOn(d) ==
    /\ RequireOwned(d) /\ d \in sized
    /\ active' = active \union {d}
    /\ UNCHANGED <<present, sized, owned>>

SwapOff(d) ==
    /\ RequireOwned(d) /\ d \in active
    /\ active' = active \ {d}
    /\ UNCHANGED <<present, sized, owned>>

\* mkswap and swapon, or swapoff: the ownership check refuses the device, or
\* the helper fails or times out, before or after it took effect.
Activate(d) == SwapOn(d) /\ Works

ActivateFails(d) ==
    \/ ~RequireOwned(d) /\ ReadOnly /\ Works
    \/ Fails
    \/ SwapOn(d) /\ CountFailure

Deactivate(d) == SwapOff(d) /\ Works

DeactivateFails(d) ==
    \/ ~(RequireOwned(d) /\ d \in active) /\ ReadOnly /\ Works
    \/ Fails
    \/ SwapOff(d) /\ CountFailure

----------------------------------------------------------------------------
(* plan_profile *)

RequiresMigration(c, d) == d \in active /\ c.reinit

\* The block list is empty; Critical and Emergency, a worsening trend, full
\* PSI and swap-in are one condition, unsafe_pressure.
Allowed(c, d) ==
    /\ d \in owned \union Adopted /\ c.provider_ok
    /\ ~snap.pending /\ ~c.safety_event
    /\ c.headroom /\ ~c.unsafe_pressure
    /\ ~(c.gaming /\ c.reinit)
    /\ c.reinit => c.allow_reconfigure
    /\ RequiresMigration(c, d) => c.reset_writable

\* A caller inspects a device and plans for it.
Plan(d, c) ==
    /\ pc = "idle" /\ d \in present
    /\ plan' = [target |-> d, active_swap |-> d \in active,
                executable |-> Allowed(c, d) /\ ~c.dry_run,
                algorithm |-> c.algorithm, size |-> c.size,
                migration |-> RequiresMigration(c, d)]
    /\ pc' = "planned"
    /\ ReadOnly /\ Works /\ UNCHANGED <<snap, had_swap>>

----------------------------------------------------------------------------
(* apply_plan *)

Return == pc' = "idle" /\ plan' = NoPlan

\* Dry run, a blocked plan or ambiguous ownership.
ApplyRefused ==
    /\ pc = "planned" /\ ~plan.executable
    /\ Return
    /\ ReadOnly /\ Works /\ UNCHANGED <<snap, had_swap>>

\* The caller's snapshot, and initial_capacity.
ApplyBegin ==
    /\ pc = "planned" /\ plan.executable
    /\ snap' = [original |-> plan.target, active_swap |-> plan.active_swap,
                replacement |-> None, phase |-> "Snapshot", pending |-> FALSE]
    /\ had_swap' = EffectiveCapacity
    /\ pc' = "create"
    /\ ReadOnly /\ Works /\ UNCHANGED plan

\* hot_add: the new index becomes owned at once.
CreateDevice ==
    /\ pc = "create"
    /\ \E d \in Names \ present :
         /\ present' = present \union {d}
         /\ owned' = owned \union {d}
         /\ plan' = [plan EXCEPT !.target = d]
    /\ pc' = "record"
    /\ Works /\ UNCHANGED <<sized, active, snap, had_swap>>

\* create_isolated_managed_device ends with verify; only then does
\* apply_plan learn the name.
RecordReplacement ==
    /\ pc = "record" /\ plan.target \in present
    /\ snap' = [snap EXCEPT !.replacement = plan.target,
                            !.phase = "ReplacementCreated"]
    /\ pc' = "configure"
    /\ ReadOnly /\ Works /\ UNCHANGED <<plan, had_swap>>

\* hot_add or the verify after it fails (hot_add also when no index is
\* left): apply_plan returns before anything is rolled back.
CreateFails ==
    /\ pc \in {"create", "record"}
    /\ \/ Fails
       \/ pc = "create" /\ present = Names /\ ReadOnly /\ Works
    /\ Return
    /\ UNCHANGED <<snap, had_swap>>

\* An error of apply_after_create starts the rollback.
Undo ==
    /\ snap' = [snap EXCEPT !.pending = TRUE]
    /\ pc' = "rb_original" /\ plan' = NoPlan
    /\ UNCHANGED had_swap

Advance(phase, next) ==
    /\ snap' = [snap EXCEPT !.phase = phase]
    /\ pc' = next
    /\ UNCHANGED <<plan, had_swap>>

Replacement == snap.replacement

ConfigureAlgorithm ==
    /\ pc = "configure"
    /\ \/ /\ plan.algorithm /\ RequireOwned(Replacement)
          /\ Advance("AlgorithmConfigured", "initialize")
          /\ ReadOnly /\ Works
       \/ ~plan.algorithm /\ Undo /\ ReadOnly /\ Works
       \/ Undo /\ Fails

InitializeDevice ==
    /\ pc = "initialize"
    /\ \/ /\ plan.size /\ RequireOwned(Replacement)
          /\ sized' = sized \union {Replacement}
          /\ Advance("Initialized", "readback")
          /\ Works /\ UNCHANGED <<present, active, owned>>
       \/ ~plan.size /\ Undo /\ ReadOnly /\ Works
       \/ Undo /\ Fails

\* The size that is read back may differ from the one requested.
Readback ==
    /\ pc = "readback"
    /\ \/ /\ Replacement \in present
          /\ Advance("Initialized", "activate") /\ ReadOnly /\ Works
       \/ Undo /\ Fails

\* Mutant: the replacement is taken for active without swapon.
ActivateReplacementSkipped ==
    /\ pc = "activate"
    /\ Advance("Activated", "ensure") /\ ReadOnly /\ Works

ActivateReplacement ==
    /\ pc = "activate"
    /\ \/ Activate(Replacement) /\ Advance("Activated", "ensure")
       \/ ActivateFails(Replacement) /\ Undo

\* ensure_swap after the activation, and again after the migration; a
\* migration that started without swap is refused here.
EnsureSwap ==
    /\ pc = "ensure"
    /\ \/ /\ EffectiveCapacity
          /\ \/ /\ plan.migration /\ snap.phase = "Activated" /\ had_swap
                /\ Advance(snap.phase, "migrate")
             \/ /\ plan.migration => snap.phase = "OriginalDeactivated"
                /\ Advance(snap.phase, "verify")
             \/ plan.migration /\ snap.phase = "Activated" /\ ~had_swap /\ Undo
          /\ ReadOnly /\ Works
       \/ ~EffectiveCapacity /\ Undo /\ ReadOnly /\ Works
       \/ Undo /\ Fails

DeactivateOriginal ==
    /\ pc = "migrate"
    /\ \/ Deactivate(snap.original) /\ Advance("OriginalDeactivated", "ensure")
       \/ DeactivateFails(snap.original) /\ Undo

VerifyReplacement ==
    /\ pc = "verify"
    /\ \/ /\ Replacement \in active
          /\ snap' = [snap EXCEPT !.phase = "Verified", !.pending = FALSE]
          /\ Return
          /\ ReadOnly /\ Works /\ UNCHANGED had_swap
       \/ Replacement \notin active /\ Undo /\ ReadOnly /\ Works
       \/ Undo /\ Fails

ApplyStep ==
    \/ ApplyRefused \/ ApplyBegin \/ CreateDevice \/ RecordReplacement
    \/ CreateFails \/ ConfigureAlgorithm \/ InitializeDevice \/ Readback
    \/ ActivateReplacement \/ EnsureSwap \/ DeactivateOriginal
    \/ VerifyReplacement

----------------------------------------------------------------------------
(* rollback and recover_pending *)

\* Mutant: the replacement is removed before the original is back.
RollbackReplacementFirst ==
    /\ pc = "idle" /\ snap.phase # "RolledBack"
    /\ pc' = "rb_replacement"
    /\ ReadOnly /\ Works /\ UNCHANGED <<snap, plan, had_swap>>

\* A caller undoes a transaction; rolling back twice is a no-op.
Rollback ==
    /\ pc = "idle" /\ snap.phase # "RolledBack"
    /\ pc' = "rb_original"
    /\ ReadOnly /\ Works /\ UNCHANGED <<snap, plan, had_swap>>

RecoverPending == snap.pending /\ Rollback

To(next) == pc' = next /\ UNCHANGED <<snap, plan, had_swap>>

\* Any error leaves the snapshot as it is and returns.
RollbackReturns == Return /\ UNCHANGED <<snap, had_swap>>

\* Mutant: the original is reactivated without looking whether it is active,
\* which mkswap refuses.
RollbackOriginalBlind ==
    /\ pc = "rb_original"
    /\ LET o == snap.original IN
       \/ ~snap.active_swap /\ To("rb_replacement") /\ ReadOnly /\ Works
       \/ snap.active_swap /\ o \in active /\ RollbackReturns /\ ReadOnly /\ Works
       \/ /\ snap.active_swap /\ o \in present /\ o \notin active
          /\ \/ Activate(o) /\ To("rb_reactivated")
             \/ ActivateFails(o) /\ RollbackReturns

RollbackOriginal ==
    /\ pc = "rb_original"
    /\ LET o == snap.original IN
       \/ /\ snap.active_swap => o \in active
          /\ To("rb_replacement") /\ ReadOnly /\ Works
       \/ /\ snap.active_swap /\ o \in present /\ o \notin active
          /\ \/ Activate(o) /\ To("rb_reactivated")
             \/ ActivateFails(o) /\ RollbackReturns
       \/ /\ snap.active_swap /\ o \notin present
          /\ RollbackReturns /\ ReadOnly /\ Works
       \/ snap.active_swap /\ RollbackReturns /\ Fails

RollbackDone ==
    /\ snap' = [snap EXCEPT !.phase = "RolledBack", !.pending = FALSE]
    /\ Return
    /\ UNCHANGED had_swap

\* Mutant: only a replacement that is in use is undone.
RollbackReplacementInUse ==
    /\ pc = "rb_replacement"
    /\ LET r == Replacement IN
       \/ /\ r = None \/ r \notin active
          /\ RollbackDone /\ ReadOnly /\ Works
       \/ /\ r # None /\ RequireOwned(r) /\ r \in active
          /\ \/ Deactivate(r) /\ To("rb_deactivated")
             \/ DeactivateFails(r) /\ RollbackReturns

\* A replacement that is not registered as owned is skipped.
RollbackReplacement ==
    /\ pc = "rb_replacement"
    /\ LET r == Replacement IN
       \/ /\ r = None \/ ~RequireOwned(r)
          /\ RollbackDone /\ ReadOnly /\ Works
       \/ /\ r # None /\ RequireOwned(r) /\ r \in present /\ r \notin active
          /\ To("rb_reset") /\ ReadOnly /\ Works
       \/ /\ r # None /\ RequireOwned(r) /\ r \in active
          /\ \/ Deactivate(r) /\ To("rb_deactivated")
             \/ DeactivateFails(r) /\ RollbackReturns
       \/ r # None /\ RequireOwned(r) /\ RollbackReturns /\ Fails

RollbackEnsure ==
    /\ pc \in {"rb_reactivated", "rb_deactivated"}
    /\ \/ /\ EffectiveCapacity
          /\ To(IF pc = "rb_reactivated" THEN "rb_replacement" ELSE "rb_reset")
          /\ ReadOnly /\ Works
       \/ ~EffectiveCapacity /\ RollbackReturns /\ ReadOnly /\ Works
       \/ RollbackReturns /\ Fails

\* reset_managed_device and hot_remove, the halves of remove_managed_device.
ResetReplacement ==
    /\ pc = "rb_reset"
    /\ \/ /\ Replacement \notin active
          /\ sized' = sized \ {Replacement}
          /\ To("rb_remove") /\ Works /\ UNCHANGED <<present, active, owned>>
       \/ Replacement \in active /\ RollbackReturns /\ ReadOnly /\ Works
       \/ RollbackReturns /\ Fails

RemoveReplacement ==
    /\ pc = "rb_remove"
    /\ \/ /\ present' = present \ {Replacement}
          /\ owned' = owned \ {Replacement}
          /\ RollbackDone /\ Works /\ UNCHANGED <<sized, active>>
       \/ RollbackReturns /\ Fails

RollbackStep ==
    \/ RollbackOriginal \/ RollbackReplacement \/ RollbackEnsure
    \/ ResetReplacement \/ RemoveReplacement

----------------------------------------------------------------------------
(* The environment *)

\* The process dies, during a call or between two, and is started again with
\* LinuxZramBackend::default: no snapshot, no owned name.
Crash ==
    /\ crashes < MaxCrashes
    /\ crashes' = crashes + 1
    /\ pc' = "idle" /\ plan' = NoPlan
    /\ snap' = NoSnapshot /\ owned' = {}
    /\ UNCHANGED <<kernel, had_swap, failures>>

Next ==
    \/ \E d \in Names, c \in Contexts : Plan(d, c)
    \/ ApplyStep \/ Rollback \/ RollbackStep
    \/ Crash

Spec == Init /\ [][Next]_vars

\* A call that has started goes on, and recovery is tried again as long as a
\* snapshot is pending.
FairSpec ==
    Spec /\ WF_vars(ApplyStep \/ RollbackStep) /\ SF_vars(RecoverPending)

----------------------------------------------------------------------------
(* Properties *)

SnapshotType ==
    [original : Names, active_swap : BOOLEAN, replacement : Names \union {None},
     phase : Phases, pending : BOOLEAN]
PlanType ==
    [target : Names, active_swap : BOOLEAN, executable : BOOLEAN,
     algorithm : BOOLEAN, size : BOOLEAN, migration : BOOLEAN]

\* Steps that work on a replacement the snapshot must name.
ReplacementSteps ==
    {"configure", "initialize", "readback", "activate", "ensure", "migrate",
     "verify", "rb_deactivated", "rb_reset", "rb_remove"}

\* Type invariant: every variable has its type, swap devices are initialised
\* and exist, the steps of apply_plan and rollback that name the replacement
\* only run when there is one, and hot_remove only meets a reset device.
TypeOK ==
    /\ present \subseteq Names /\ sized \subseteq present
    /\ active \subseteq sized
    /\ owned \subseteq present
    /\ snap \in SnapshotType
    /\ plan \in PlanType
    /\ pc \in Steps
    /\ had_swap \in BOOLEAN
    /\ failures \in Nat /\ crashes \in Nat
    /\ pc \in ReplacementSteps => Replacement # None
    /\ pc = "rb_remove" => Replacement \notin sized

\* apply_plan, rollback and recover_pending never leave the host without
\* swap when the transaction started with some, whichever calls fail or time
\* out and wherever the process dies (the check in ensure_swap never fires).
NoSwapLoss == had_swap => EffectiveCapacity

\* Why no swap is lost: another device than the replacement is active, or
\* the replacement has taken over from an original that rollback reactivates
\* before it touches the replacement.
CallSound ==
    /\ Replacement # snap.original
    /\ pc = "planned" =>
         plan.target \in present /\ (plan.migration => plan.active_swap)
    /\ pc = "create" => snap.original \in present
    /\ pc \in {"create", "record"} => Replacement = None
    /\ pc = "record" => /\ plan.target # snap.original
                        /\ plan.target \notin active
    /\ pc \in ApplySteps \ {"planned"} =>
         /\ snap.phase # "RolledBack"
         /\ plan.migration => snap.active_swap
    /\ pc \in {"ensure", "migrate", "verify"} => Replacement \in active
    /\ pc = "migrate" => plan.migration

OtherSwap == active \ {Replacement} # {}

TakenOver ==
    /\ Replacement # None /\ Replacement \in active
    /\ snap.active_swap /\ snap.phase # "RolledBack"
    /\ pc \notin RollbackSteps \ {"rb_original"}

SwapWitness == had_swap => OtherSwap \/ TakenOver

SwapInv == CallSound /\ SwapWitness

\* Once rollback has reported RolledBack to the process that made the
\* transaction, the original is the active swap it was when the snapshot was
\* taken, and the replacement is gone: whichever calls of apply_plan and of
\* earlier rollbacks failed, or took effect and were reported as failed, no
\* retry skips what an earlier attempt left.  A process that died reports
\* nothing; what it leaves is the subject of NoSwapLoss.
RollbackComplete ==
    snap.phase = "RolledBack" =>
        /\ snap.active_swap => snap.original \in active
        /\ Replacement # None => Replacement \notin present

\* A pending snapshot is eventually rolled back, through failing calls, by
\* the process that holds it, or is lost with that process.
PendingResolved == snap.pending ~> ~snap.pending

\* The transaction implements the abstract promise about swap devices.
Promise == INSTANCE SwapSet WITH active <- active, promised <- had_swap
SwapPromise == Promise!Spec
=============================================================================
