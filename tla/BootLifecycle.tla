---------------------------- MODULE BootLifecycle ----------------------------
(***************************************************************************)
(* The validation-only boot lifecycle of the tiering crate as              *)
(* nemor-tiering-boot-validation drives it: a durable transaction, a       *)
(* loader entry, a unit, a staged helper and a swapfile that Nemor owns, a *)
(* one-shot boot into the experimental entry, the activation by the unit,  *)
(* the measurement, the one-shot back, the cleanup, and the recovery from  *)
(* every stage.                                                            *)
(*                                                                         *)
(* What each command does is a program of BootContracts or one of those    *)
(* below; what a step does, and where a failing step leads, is the same in *)
(* all of them.  The binary drives contract v6; the older contracts of the *)
(* library run under the same driver and host.                             *)
(***************************************************************************)
EXTENDS BootContracts, FiniteSets

CONSTANTS
    Contracts,      \* the contracts of which one is in force
    MaxReboots,     \* bound: reboots, for each contract
    MaxDeaths,      \* bound: processes killed in the middle of a command
    MaxFaults,      \* bound: steps of the backend that fail
    NoTx,           \* no transaction file
    Torn            \* a candidate file that was not written to its end

ASSUME LifecycleAssumption ==
    /\ Contracts \subseteq {"v2", "v3", "v5", "v6"}
    /\ MaxReboots \in [Contracts -> Nat] /\ MaxDeaths \in Nat /\ MaxFaults \in Nat
ASSUME SentinelsAssumption ==
    /\ NoTx # Torn
    /\ {NoTx, Torn} \cap
        [stage : UNION {Stages[c] : c \in Contracts}, born : Nat,
         failedFrom : {""} \cup UNION {Stages[c] : c \in Contracts},
         intents : SUBSET Ops, completed : SUBSET Ops, last : Ops \cup {NoOp},
         evidence : SUBSET Documents, uuid : BOOLEAN] = {}

VARIABLES
    disk,       \* transaction-v6.json
    cand,       \* transaction-v6.new
    files,      \* the other documents in the transaction root
    host,       \* what Nemor changes on the machine, and the boot it is in
    proc,       \* the operator's command and the unit's activation
    sealed,     \* the transaction as SHA256SUMS records it
    contract,   \* the contract this validation follows
    budget,     \* reboots, deaths and faults so far
    overlapped  \* whether the operator and the unit ever ran at once

vars == <<disk, cand, files, host, proc, sealed, contract, budget, overlapped>>

-----------------------------------------------------------------------------
(* The programs of nemor-tiering-boot-validation itself. *)

\* experimental_activate
ActivateSteps ==
    <<To("ExperimentalBootDetected"), To("ActivationPreparing")>>
    \o <<ToIntend("ZswapDisabling", Op("zswap", "off")),
         Do(Op("zswap", "off"), "activation"), Done>>
    \o <<To("ZswapParametersApplying"), Intend(Op("zswap", "parameters")),
         Do(Op("zswap", "parameters"), "activation"), Done>>
    \o <<ToIntend("ZswapEnabling", Op("zswap", "on")),
         Do(Op("zswap", "on"), "activation"), Done>>
    \o <<ToIntend("SwapActivating", Op("swap", "on")),
         Do(Op("swap", "on"), "activation"),
         Put("activation"), DoneNoteTo("activation", "ActivationVerified")>>

\* activation_failure
ActivationFailureSteps ==
    Optionally("active", Attempt(Op("swap", "off"), <<Done>>))
    \o Attempt(Op("zswap", "off"),
               <<Done>> \o Attempt(Op("zswap", "parameters"), <<Done>>)
                        \o Attempt(Op("zswap", "off"), <<Done>>))
    \o Attempt(Op("oneshot", "baseline"), <<DoneTo("ActivationFailed"), Return>>)
    \o <<To("ActivationFailed")>>

RemovingExact(x) ==
    Optionally(x, <<Intend(Op("remove", x)),
                    Do(Op("remove", x), "abort"), Done>>)

\* MUTANT: the recovery forgets the swapfile.
RemoveStepsKeepSwap ==
    RemovingExact("helper") \o RemovingExact("unit") \o RemovingExact("entry")
    \o <<Check("finalize", "abort"), To("Recovered"),
         Put("recovery"), NoteTo("recovery", ""), Seal>>

\* The removing branches of recover
RemoveSteps ==
    RemovingExact("helper") \o RemovingExact("unit") \o RemovingExact("entry")
    \o <<Intend(Op("remove", "swapfile")),
         Do(Op("remove", "swapfile"), "abort"), Check("finalize", "abort"),
         DoneTo("Recovered")>>
    \o <<Put("recovery"), NoteTo("recovery", ""), Seal>>

ClearThenRemoveSteps ==
    <<Check("oneshot", "abort"), Intend(Op("oneshot", "none")),
      Do(Op("oneshot", "none"), "abort"), Done>> \o RemoveSteps

\* What the operator's and the unit's commands run: those of the binary, and
\* those of the library for each contract.
OwnProgram ==
    [activate |-> ActivateSteps, activation |-> ActivationFailureSteps,
     remove |-> RemoveSteps, clear |-> ClearThenRemoveSteps,
     fail |-> <<FailTransaction>>]

LibraryProgram ==
    [v2 |-> [apply |-> ApplyStepsV2, one_shot |-> SelectOneShotStepsV2,
             post_boot |-> PostBootStepsV2, baseline |-> SelectBaselineStepsV2,
             cleanup |-> CleanupStepsV2],
     v3 |-> [measure |-> MeasureStepsV3, apply |-> ApplyStepsV3,
             one_shot |-> SelectOneShotStepsV3, post_boot |-> PostBootStepsV3,
             baseline |-> SelectBaselineStepsV3, cleanup |-> CleanupStepsV3],
     v5 |-> [measure |-> MeasureStepsV5, apply |-> ApplyStepsV5,
             one_shot |-> SelectOneShotStepsV5, post_boot |-> PostBootStepsV5,
             baseline |-> SelectBaselineStepsV5, cleanup |-> CleanupStepsV5],
     v6 |-> [measure |-> MeasureStepsV6, apply |-> ApplyStepsV6,
             one_shot |-> SelectOneShotStepsV6, post_boot |-> PostBootStepsV6,
             baseline |-> SelectBaselineStepsV6, cleanup |-> CleanupStepsV6]]

Rollback == [v2 |-> RollbackV2, v3 |-> RollbackV3, v5 |-> RollbackV5, v6 |-> RollbackV6]

Commands(c) ==
    DOMAIN OwnProgram \cup DOMAIN Rollback[c] \cup DOMAIN LibraryProgram[c]

Program(c, cmd) ==
    CASE cmd \in DOMAIN OwnProgram -> OwnProgram[cmd]
      [] cmd \in DOMAIN Rollback[c] -> Rollback[c][cmd]
      [] OTHER -> LibraryProgram[c][cmd]

-----------------------------------------------------------------------------
(* The transaction and the host. *)

Transactions ==
    [stage : Stages[contract], born : 0..MaxReboots[contract],
     failedFrom : Stages[contract] \cup {""},
     intents : SUBSET Ops, completed : SUBSET Ops, last : Ops \cup {NoOp},
     evidence : SUBSET Documents, uuid : BOOLEAN]

Hosts ==
    [owned : [Owned -> {"absent", "partial", "exact"}],
     oneShot : {"none", "experimental", "baseline"},
     zswap : BOOLEAN, swapOn : BOOLEAN, unitRan : BOOLEAN,
     boot : 0..MaxReboots[contract], entry : {"baseline", "experimental"},
     tried : BOOLEAN]

\* What a mutation does when it succeeds.  The experimental parameters of
\* zswap are the baseline's with enabled=Y, so a parameter keeps its value.
Effect(op) ==
    CASE op.act = "create" -> [host EXCEPT !.owned[op.on] = "exact"]
      [] op.act = "remove" -> [host EXCEPT !.owned[op.on] = "absent"]
      [] op.act = "oneshot" -> [host EXCEPT !.oneShot = op.on]
      [] op.act = "zswap" ->
            [host EXCEPT !.zswap = IF op.on = "parameters" THEN @
                                   ELSE op.on = "on"]
      [] op.act = "swap" -> [host EXCEPT !.swapOn = op.on = "on"]

\* write_new refuses an existing file, remove_artifact a file that is not the
\* exact one, remove_swapfile a swapfile whose UUID is not durably known.
Able(op) ==
    CASE op.act = "create" -> host.owned[op.on] = "absent"
      [] op.act = "remove" ->
            \/ host.owned[op.on] = "absent"
            \/ host.owned[op.on] = "exact" /\ (op.on = "swapfile" => disk.uuid)
      [] OTHER -> TRUE

\* A mutation that fails may have had its effect (the readback differs, the
\* helper exits with an error), and a file may be there only in part.
Spoiled(op) ==
    {host}
    \cup (IF Able(op) THEN {Effect(op)} ELSE {})
    \cup (IF op.act = "create" /\ Able(op) /\ op.on # "swapfile"
          THEN {[host EXCEPT !.owned[op.on] = "partial"]} ELSE {})

\* The two raw documents verify_then_cleanup derives the authority from.
AuthorityFiled(t) == {"zram-v2", "postboot"} \subseteq t.evidence

Holds(t, what) ==
    CASE what = "helper" -> host.owned["helper"] = "exact"
      [] what \in {"unit", "entry"} -> host.owned[what] = "exact"
      [] what = "active" -> host.swapOn
      [] what = "selected" -> t.stage = "BaselineSelected"
      [] what = "chosen" -> t.stage = "OneShotSelected"
      [] what = "activated" -> t.stage = "ActivationVerified"
      [] what = "oneshot" -> host.oneShot = "experimental"
      [] what = "measured" ->
            PostBootMeasured(contract, CollectPostBoot(host), t)
      [] what = "baseline" ->
            BaselineProven(contract, CollectBaseline(host), t)
      [] what = "cleaned" -> \A x \in Owned : host.owned[x] = "absent"
      [] what = "finalize" -> \A x \in {"unit", "helper"} :
                                            host.owned[x] = "absent"
      [] what = "authority" -> AuthorityFiled(t)
      [] what \in {"workload", "settings", "identity"} -> TRUE

\* The checks that look at the machine, and so may also fail on their own.
Fallible == {"workload", "settings", "identity", "measured", "baseline",
             "finalize"}

\* seal_archive: exact membership of the ledger.
Required(t) ==
    {"root", "manifest", "preflight"} \cup t.evidence
    \cup (IF t.stage = "Restored" THEN {"oneshot", "postboot", "restore"}
                                  ELSE {"recovery"})

-----------------------------------------------------------------------------
(* Processes. *)

Procs == {"operator", "unit"}
Idle == [cmd |-> "", pc |-> 0, tx |-> NoTx]
Busy(p) == proc[p].cmd # ""
Step(p) == Program(contract, proc[p].cmd)[proc[p].pc]
End(p) == proc' = [proc EXCEPT ![p] = Idle]

\* The step after the next n ones; behind its last step a command returns.
Advance(p, t, n) ==
    LET pc == proc[p].pc + 1 + n
    IN  proc' = [proc EXCEPT ![p] =
                    IF pc > Len(Program(contract, @.cmd)) THEN Idle
                    ELSE [cmd |-> @.cmd, pc |-> pc, tx |-> t]]

\* Where a step that fails leads.
Miss(p) ==
    LET s == Step(p)
    IN  CASE s.fail = "abort" -> End(p)
          [] s.fail = "skip" -> Advance(p, proc[p].tx, s.n)
          [] OTHER -> proc' = [proc EXCEPT ![p] =
                                  [cmd |-> s.fail, pc |-> 1, tx |-> @.tx]]

Init ==
    /\ disk = NoTx /\ cand = NoTx /\ files = {} /\ sealed = NoTx
    /\ host = [owned |-> [x \in Owned |-> "absent"], oneShot |-> "none",
               zswap |-> FALSE, swapOn |-> FALSE, unitRan |-> FALSE,
               boot |-> 0, entry |-> "baseline", tried |-> FALSE]
    /\ proc = [p \in Procs |-> Idle]
    /\ contract \in Contracts
    /\ budget = [reboots |-> 0, deaths |-> 0, faults |-> 0]
    /\ overlapped = FALSE

LegalTransition(from, to) == <<from, to>> \in Legal[contract]

\* The records of old are a prefix of those of new: a completion rewrites the
\* last record, so that it is none.
RecordsExtend(old, new) ==
    /\ old.intents \subseteq new.intents
    /\ new.completed \subseteq old.completed

\* reconcile_transaction_new: the candidate an interrupted write left is
\* adopted when it is intact and a successor of the transaction.
Loadable ==
    /\ "manifest" \in files
    /\ \/ cand = NoTx /\ disk # NoTx
       \/ /\ disk = NoTx /\ cand \notin {NoTx, Torn}
          /\ cand.stage = "Prepared" /\ cand.intents = {}
       \/ /\ disk # NoTx /\ cand \notin {NoTx, Torn}
          /\ RecordsExtend(disk, cand)
          /\ \/ cand.stage = disk.stage
             \/ LegalTransition(disk.stage, cand.stage)
Loaded == IF cand = NoTx THEN disk ELSE cand

\* load_transaction by a command that stops at its own conditions: it may
\* have completed the interrupted write.
Load ==
    /\ ~Busy("operator") /\ Loadable /\ cand # NoTx
    /\ disk' = Loaded /\ cand' = NoTx
    /\ UNCHANGED <<files, host, proc, sealed, contract, budget, overlapped>>

Launch(p, cmd) ==
    /\ Loadable
    /\ disk' = Loaded /\ cand' = NoTx
    /\ proc' = [proc EXCEPT ![p] = [cmd |-> cmd, pc |-> 1, tx |-> Loaded]]
    /\ overlapped' = (overlapped \/ \E q \in Procs : Busy(q))

\* The operator gives one command after another; nothing keeps him from doing
\* so while the unit is at work.
OperatorFree == ~Busy("operator")

\* The command that begins the transaction: measure-baseline, apply in v2.
MeasureBaseline ==
    /\ OperatorFree
    /\ PreflightReady(contract,
            CollectPreflight(host, "root" \in files, ~Busy("unit")))
    /\ proc' = [proc EXCEPT !["operator"] =
                    [cmd |-> IF contract = "v2" THEN "apply" ELSE "measure",
                     pc |-> 1, tx |-> Fresh(contract, host.boot)]]
    /\ UNCHANGED <<disk, cand, files, host, sealed, contract, budget, overlapped>>

Apply ==
    /\ OperatorFree /\ Loadable /\ contract # "v2"
    /\ Loaded.stage = "BaselineMeasured"
    /\ BaselineDocument[contract] \in Loaded.evidence
    /\ Launch("operator", "apply")
    /\ UNCHANGED <<files, host, sealed, contract, budget>>

SelectOneShot ==
    /\ OperatorFree /\ Launch("operator", "one_shot")
    /\ UNCHANGED <<files, host, sealed, contract, budget>>

PostBootValidate ==
    /\ OperatorFree /\ Launch("operator", "post_boot")
    /\ UNCHANGED <<files, host, sealed, contract, budget>>

SelectBaselineRollback ==
    /\ OperatorFree /\ Launch("operator", "baseline")
    /\ UNCHANGED <<files, host, sealed, contract, budget>>

VerifyFinalRestore ==
    /\ OperatorFree /\ Launch("operator", "cleanup")
    /\ UNCHANGED <<files, host, sealed, contract, budget>>

RecoveryStage(t) == IF t.failedFrom # "" THEN t.failedFrom ELSE t.stage

\* What recover does with the transaction it loads, in this boot.
RecoveryCommand ==
    RecoveryAction(contract, RecoveryStage(Loaded),
                   host.entry = "experimental")

Recover ==
    /\ OperatorFree /\ Loadable
    /\ RecoveryCommand # ""
    /\ Launch("operator", RecoveryCommand)
    /\ UNCHANGED <<files, host, sealed, contract, budget>>

\* VerifyIdempotence is Recover, save that it never removes.
VerifyIdempotence ==
    /\ OperatorFree /\ Loadable
    /\ RecoveryCommand \in {"baseline", "cleanup"}
    /\ Launch("operator", RecoveryCommand)
    /\ UNCHANGED <<files, host, sealed, contract, budget>>

\* experimental_activate, started by systemd once in an experimental boot.
UnitDue ==
    /\ host.entry = "experimental" /\ ~host.unitRan
    /\ host.owned["unit"] = "exact"
    /\ contract # "v2" => host.owned["helper"] = "exact"

ActivationAllowed ==
    /\ contract # "v2" /\ Loadable /\ Loaded.stage = "OneShotSelected" /\ Loaded.uuid
    /\ host.boot # Loaded.born /\ host.owned["swapfile"] = "exact" /\ ~host.swapOn

ExperimentalActivate ==
    /\ UnitDue /\ ActivationAllowed
    /\ Launch("unit", "activate")
    /\ host' = [host EXCEPT !.unitRan = TRUE]
    /\ UNCHANGED <<files, sealed, contract, budget>>

ActivationRefused ==
    /\ UnitDue
    /\ \/ ~ActivationAllowed /\ UNCHANGED budget
       \/ /\ budget.faults < MaxFaults
          /\ budget' = [budget EXCEPT !.faults = @ + 1]
    /\ host' = [host EXCEPT !.unitRan = TRUE]
    /\ UNCHANGED <<disk, cand, files, proc, sealed, contract, overlapped>>

\* The unit of a v2 validation: it leaves no trace in the transaction.
ActivateUnrecorded ==
    /\ UnitDue /\ contract = "v2" /\ host.owned["swapfile"] = "exact"
    /\ host' = [host EXCEPT !.unitRan = TRUE, !.swapOn = TRUE]
    /\ UNCHANGED <<disk, cand, files, proc, sealed, contract, budget, overlapped>>

-----------------------------------------------------------------------------
(* The steps of a command. *)

Fault == /\ budget.faults < MaxFaults
         /\ budget' = [budget EXCEPT !.faults = @ + 1]

\* MUTANT: the transition table is not consulted.
AllowedAlways(t, s) == TRUE

\* transition and complete_last: an illegal transition, or a completion
\* without a record, ends the command.
Allowed(t, s) ==
    /\ s.to = "" \/ LegalTransition(t.stage, s.to)
    /\ s.done => t.last # NoOp

Save(p) ==
    /\ Busy(p) /\ Step(p).k = "save" /\ cand = NoTx
    /\ Allowed(proc[p].tx, Step(p))
    /\ disk' = Written(contract, proc[p].tx, Step(p))
    /\ Advance(p, disk', 0)
    /\ UNCHANGED <<cand, files, host, sealed, contract, budget, overlapped>>

\* An illegal transition, or a candidate that is still there.
Illegal(p) ==
    /\ Busy(p) /\ Step(p).k = "save"
    /\ ~Allowed(proc[p].tx, Step(p)) \/ cand # NoTx
    /\ End(p)
    /\ UNCHANGED <<disk, cand, files, host, sealed, contract, budget, overlapped>>

FailSave(p) ==
    /\ Busy(p) /\ Step(p).k = "fail"
    /\ disk' = IF cand = NoTx THEN Failing(contract, proc[p].tx) ELSE disk
    /\ End(p)
    /\ UNCHANGED <<cand, files, host, sealed, contract, budget, overlapped>>

Mutate(p) ==
    /\ Busy(p) /\ Step(p).k = "do"
    /\ \/ /\ Able(Step(p).op)
          /\ host' = Effect(Step(p).op)
          /\ Advance(p, proc[p].tx, 0)
          /\ UNCHANGED budget
       \/ /\ ~Able(Step(p).op)
          /\ Miss(p)
          /\ UNCHANGED <<host, budget>>
       \/ /\ Fault
          /\ host' \in Spoiled(Step(p).op)
          /\ Miss(p)
    /\ UNCHANGED <<disk, cand, files, sealed, contract, overlapped>>

\* persist_evidence creates the file and fails when it is there.
PutDocument(p) ==
    /\ Busy(p) /\ Step(p).k = "put"
    /\ IF Step(p).ev \in files THEN End(p) /\ UNCHANGED files
       ELSE /\ files' = files \cup {Step(p).ev}
            /\ Advance(p, proc[p].tx, 0)
    /\ UNCHANGED <<disk, cand, host, sealed, contract, budget, overlapped>>

RunCheck(p) ==
    /\ Busy(p) /\ Step(p).k = "check"
    /\ \/ /\ Holds(proc[p].tx, Step(p).ev)
          /\ Advance(p, proc[p].tx, 0)
          /\ UNCHANGED budget
       \/ ~Holds(proc[p].tx, Step(p).ev) /\ Miss(p) /\ UNCHANGED budget
       \/ Step(p).ev \in Fallible /\ Fault /\ Miss(p)
    /\ UNCHANGED <<disk, cand, files, host, sealed, contract, overlapped>>

SealArchive(p) ==
    /\ Busy(p) /\ Step(p).k = "seal"
    /\ sealed' = IF sealed = NoTx /\ files = Required(proc[p].tx)
                 THEN disk ELSE sealed
    /\ End(p)
    /\ UNCHANGED <<disk, cand, files, host, contract, budget, overlapped>>

Finish(p) ==
    /\ Busy(p) /\ Step(p).k = "return"
    /\ End(p)
    /\ UNCHANGED <<disk, cand, files, host, sealed, contract, budget, overlapped>>

\* The process is killed, or a durable write fails and ends the command: a
\* candidate may be left, whole or torn, and a file that was being created.
Die(p) ==
    /\ Busy(p) /\ budget.deaths < MaxDeaths
    /\ budget' = [budget EXCEPT !.deaths = @ + 1]
    /\ \/ UNCHANGED <<cand, host>>
       \/ /\ Step(p).k = "save" /\ Allowed(proc[p].tx, Step(p)) /\ cand = NoTx
          /\ cand' \in {Torn, Written(contract, proc[p].tx, Step(p))}
          /\ UNCHANGED host
       \/ /\ Step(p).k = "fail" /\ cand = NoTx
          /\ cand' \in {Torn, Failing(contract, proc[p].tx)}
          /\ UNCHANGED host
       \/ /\ Step(p).k = "do"
          /\ host' \in Spoiled(Step(p).op) \ {host}
          /\ UNCHANGED cand
    /\ End(p)
    /\ UNCHANGED <<disk, files, sealed, contract, overlapped>>

\* The loader consumes the one-shot; the experimental command line enables
\* zswap; no swapfile is active after a boot.  A boot before the transaction
\* begins changes nothing that is looked at later, so none is counted.
Reboot ==
    /\ \A p \in Procs : ~Busy(p)
    /\ files # {} /\ budget.reboots < MaxReboots[contract]
    /\ budget' = [budget EXCEPT !.reboots = @ + 1]
    /\ LET exp == /\ host.oneShot = "experimental"
                  /\ host.owned["entry"] = "exact"
       IN  host' = [host EXCEPT
                !.oneShot = "none", !.swapOn = FALSE, !.unitRan = FALSE,
                !.entry = IF exp THEN "experimental" ELSE "baseline",
                !.zswap = exp, !.boot = @ + 1, !.tried = @ \/ exp]
    /\ UNCHANGED <<disk, cand, files, proc, sealed, contract, overlapped>>

Next ==
    \/ Load \/ MeasureBaseline \/ Apply \/ SelectOneShot \/ PostBootValidate
    \/ SelectBaselineRollback \/ VerifyFinalRestore \/ Recover
    \/ VerifyIdempotence \/ ExperimentalActivate \/ ActivationRefused
    \/ ActivateUnrecorded
    \/ Reboot
    \/ \E p \in Procs :
          Save(p) \/ Illegal(p) \/ FailSave(p) \/ Mutate(p) \/ PutDocument(p)
          \/ RunCheck(p) \/ SealArchive(p) \/ Finish(p) \/ Die(p)

Spec == Init /\ [][Next]_vars

-----------------------------------------------------------------------------
(* Properties. *)

\* Every variable has its type; a transaction on disk is a whole one.
TypeOK ==
    /\ disk \in Transactions \cup {NoTx}
    /\ cand \in Transactions \cup {NoTx, Torn}
    /\ files \subseteq Documents
    /\ host \in Hosts
    /\ proc \in [Procs -> [cmd : Commands(contract) \cup {""}, pc : Nat,
                           tx : Transactions \cup {NoTx}]]
    /\ \A p \in Procs : Busy(p) =>
            /\ proc[p].tx # NoTx
            /\ proc[p].pc \in 1..Len(Program(contract, proc[p].cmd))
    /\ sealed \in Transactions \cup {NoTx}
    /\ contract \in Contracts
    /\ budget \in [reboots : 0..MaxReboots[contract], deaths : 0..MaxDeaths,
                   faults : 0..MaxFaults]
    /\ overlapped \in BOOLEAN

Recorded(op) == disk # NoTx /\ op \in disk.intents

\* Whatever Nemor has changed on the machine was announced durably before:
\* each owned file, the one-shot entry and the active swapfile have their
\* intent in the transaction on disk, wherever the process died.  Only an
\* operator's command that runs beside the unit can lose an intent.
WriteAhead ==
    ~overlapped =>
    /\ \A x \in Owned : host.owned[x] # "absent" => Recorded(Op("create", x))
    /\ host.oneShot # "none" => Recorded(Op("oneshot", host.oneShot))
    /\ host.swapOn /\ contract # "v2" => Recorded(Op("swap", "on"))

\* The machine is never one reboot away from an experimental entry whose
\* files are gone: while the one-shot names it, entry, unit, helper and
\* swapfile are all in place.  (A v2 validation has no helper to look for, so
\* that its one-shot can be selected after a recovery that failed half way.)
BootableEntry ==
    contract # "v2" /\ host.oneShot = "experimental" =>
        \A x \in Owned : host.owned[x] = "exact"

\* An owned file is removed only in a baseline boot, with the swapfile off
\* and the one-shot not pointing at it; and once the experimental entry has
\* been booted, only after the baseline was proven.
BaselineProvenFirst ==
    [][\A x \in Owned :
          host.owned[x] = "exact" /\ host'.owned[x] = "absent" =>
              /\ host.entry = "baseline" /\ ~host.swapOn
              /\ host.oneShot # "experimental"
              /\ host.tried => disk.stage = "Cleaning"]_vars

\* The zram baseline is sealed before the first boot artifact, and every hash
\* in the transaction names a document that is on disk.
EvidenceBacked ==
    /\ disk # NoTx => disk.evidence \subseteq files
    /\ (\E x \in Owned \ {"helper"} : host.owned[x] # "absent") =>
            BaselineDocument[contract] \in disk.evidence

\* A transaction that calls itself restored or recovered has left no swapfile,
\* no unit, no helper, no intact entry and no one-shot boot of its own.
TerminalClean ==
    disk # NoTx /\ disk.stage \in Terminal =>
        /\ \A x \in Owned \ {"entry"} : host.owned[x] = "absent"
        /\ host.owned["entry"] # "exact"
        /\ host.oneShot # "experimental" /\ ~host.swapOn

\* The stage on disk moves only along legal transitions, whichever process
\* wrote it and whatever an interrupted write left behind, as long as no
\* command of the operator ran beside the unit.
StageMonotone ==
    [][disk # NoTx /\ ~overlapped =>
            \/ disk'.stage = disk.stage
            \/ LegalTransition(disk.stage, disk'.stage)]_vars

\* A validation that measured its profile, met no fault and lost no process
\* does not stop in Cleaning: the cleanup that removed everything finds the
\* two documents it derives the authority from and ends Restored.
RestoreCompletes ==
    /\ disk # NoTx /\ disk.stage = "Cleaning" /\ "postboot" \in disk.evidence
    /\ budget.faults = 0 /\ budget.deaths = 0
    => \E p \in Procs : Busy(p)

\* A transaction or a candidate that was written to its end can be loaded
\* again after the process that wrote it died: the candidate is a monotonic
\* successor, so reconcile_transaction_new adopts it, and the manifest it is
\* checked against is there.
Reconcilable ==
    /\ disk # NoTx \/ cand # NoTx
    /\ cand # Torn /\ \A p \in Procs : ~Busy(p)
    => Loadable
=============================================================================
