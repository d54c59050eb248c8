# Nemor: verification project

Nemor is a Linux memory manager written in Rust: a daemon that samples the
host, classifies its workload, decides a pressure state and plans actions; and
a set of actuators, live validations and benchmarks that change the machine
(cgroups, zram, KSM, DAMON/DAMOS, zswap and swapfiles, boot entries) and
promise to put everything back. This project models the parts of it that keep
state, checks them with TLC on small instances, and proves the most important
properties with TLAPS for every value of the constants.

The daemon runs observe-only at this commit. The actuators are libraries with
their own transactions; `nemor-privileged-validation` and
`nemor-tiering-boot-validation` drive them on a live machine.

## 1. Inventory

| Component (crate) | State it keeps | Operations | Talks to |
|---|---|---|---|
| policy-engine | pressure state, entry time, candidate and its start, history | `evaluate` (transition, planner); a new process starts with a fresh engine | called by nemord on every classification tick; its plan is data |
| actuator (cgroups) | snapshot rows, managed-group rows, the cgroup tree | `plan`, `apply_one`, `rollback_one`, `recover` | kernel cgroup files, SQLite snapshot store, processes that exit and whose PID is reused |
| zram | `MutationSnapshot`, the backend's in-memory `owned` set, devices and active swaps | `plan_profile`, `apply_plan`, `rollback`, `recover_pending` | sysfs, `swapon`/`swapoff` with a timeout |
| nemord, storage, classifier/stabilize | schema version, sessions, decision/event/audit rows, stabilizer, timers | startup, migrations, four ticks, store calls, shutdown | signals, wall clock, SQLite |
| ksm and its live validation | protocol, controller, scanner, children, decision files | `validate_ksm`, drop guard, `ksm_target_worker` | `/sys/kernel/mm/ksm`, child processes over files, other users of KSM |
| tiering boot validation (contracts v2, v3, v5, v6) | durable transaction with write-ahead intents, evidence files, ledger | measure, apply, select, activate, validate, rollback, restore, recover | systemd unit in the next boot, `bootctl`, zswap, swapfile |
| tiering plans, swapfile, zswap | in-memory `MutationSnapshot` | `apply_swapfile`, `rollback_swapfile`, zswap apply/rollback | helpers, `/sys/module/zswap` |
| privileged validation of cgroups, zram, tiering | guards, evidence, crash record, report of the last run | `--cgroups`, `--zram`, `--tiering`, `--all`, crash workers, `--cleanup-owned-residue` | the actuators above, sleepers, other users of zram |
| damon and its live validation | kdamond slot, trace instances, capture thread, guard | probes on a size ladder, final session, crash worker, recovery | `/sys/kernel/mm/damon`, tracefs, a target child over files |
| damos and its live validation | the scheme, its quota, fence and ceiling, the target's kind | capability probe, shadow session, decision, live session, refault | the same, and a target that another party may own |
| benchmark: systemd scopes, observer service | transient units, staged files, audit report | `run_job`, `start_owned_scope`, `recover_owned_scope`, `start_performance_observer` | systemd over D-Bus |
| benchmark: pressure | levels, worker over IPC, incremental store | `execute_pressure_with_backend`, level transitions, cleanup | worker process, scope, SQLite |
| benchmark: capacity, performance, reports | evidence records | orchestration plans, validation, statistics | files |
| common, collector, classifier (scoring), nemorctl | none beyond the last sample | parsing, rates, scores, read-only reports | `/proc`, `/sys`, SQLite read-only |

What is hard in this code, and therefore what the properties are about
(`PROJECT.json`, "hazards", gives the lines):

* **Crashes between a mutation and its record.** The cgroup actuator persists a
  snapshot first and marks it applied after the attach; the zram backend keeps
  ownership only in memory; the boot lifecycle announces every mutation with an
  intent; migrations cannot run twice.
* **Several steps, one of which fails, and whose rollback fails too.** All the
  transactions drop the error of their own rollback and rely on a retry.
* **Other actors.** PIDs and zram device numbers are reused, other parties
  write KSM's `run` or take the kdamond slot, the activation unit and the
  operator share a transaction file without a lock.
* **Mutations that outlive the process.** A kdamond and its DAMOS scheme go on
  in the kernel while the harness is held up, fails or dies.
* **Time.** The daemon uses the wall clock: it may be set back, and hysteresis,
  deduplication and heartbeats must survive it or say that they do not.
* **Progress.** A biased `select!`, children that are joined before they are
  killed, recovery that must be retried.

## 2. Modules

Each component module has its state as variables, one action per operation or
per point between which something else can happen, and the properties at its
end. Some definitions come in a second, wrong form right before the right one;
these are the mutants `PROJECT.json` names, plausible slips such as a dropped
guard or a swapped order, and TLC refutes a property for each of them. They
are not used otherwise. `PROJECT.json`, "map", gives the source lines of every
definition. Every component module states its `TypeOK`; it is the first
conjunct of the inductive invariants and is proved where the module has proofs.
The runs are spent on the other properties.

### PressurePolicy (`crates/policy-engine`)

`Evaluate(t, ctx)` is one call of `evaluate`: `TargetState` is `target_state`,
`RecoveryTarget` and `HoldFor` are the hysteresis of `transition.rs`, and
`PlanActions` the planner. The samples are abstracted to what the code
compares: the band of available memory and, for each signal, absent, below,
high or emergency. `Tick` moves the wall clock, backwards too;
`EvaluateTimeRegression` and `EvaluateInvalid` are the early returns;
`Restart` is a new process, whose engine starts afresh in Watch.

* `RecoveryPath`: the severe states are left downwards only through
  Stabilizing, which is entered from nowhere else; Normal is never entered
  straight from one of them.
* `TwoHoldRecovery`: Normal follows the last confirmed severe evaluation by
  two complete recovery holds, unless the clock stepped back.
* `NoFlapping`: no state but Emergency is entered before the hold that
  applies has passed since the last change, whatever the clock does.

### CgroupActuator (`crates/actuator`)

`apply_one` and `rollback_one` are split at every write: the row is persisted,
the group created, registered, limited, the process attached, the row marked
applied, the limits read back, the row marked verified. Every call may fail,
the process may crash between any two, and processes exit and their PIDs come
back as other instances (`Reuse`). `recover` walks the pending rows in id order
and goes on after a row that fails.

* `AccountedFor`: every process in a managed group has an open snapshot of its
  very instance.
* `NoResidue`: once every snapshot is rolled back no managed group is left.
* `RecoveryCompletes`: recovery that is retried empties the pending set,
  unless a live process has lost its original group.

`ReuseDuringOp` lets a PID be reused between the start-time check and
`attach_pid`. The runs leave it FALSE: the kernel offers the code no way to
close that window, and the hazard list names it. `AllowReapply` lets a
process that is already managed be planned again; no caller in the repository
does that.

### ZramTransaction, SwapSet (`crates/zram`)

The replacement-first migration of `apply_plan`, its `rollback` and
`recover_pending`, over the calls of `LinuxZramBackend`. A `swapon` or
`swapoff` that is killed at its timeout may have taken effect. `apply_plan`
stores nothing between its steps, and no program registers the devices of a
snapshot again, so `Crash` loses the snapshot together with the backend's
`owned` set and leaves the devices as they are.

* `NoSwapLoss`: a transaction that started with working swap never leaves the
  host without.
* `RollbackComplete`: what a rollback that reports success has achieved: the
  original is the active swap it was, and the replacement is gone. It is about
  the process that made the transaction; after a crash there is no snapshot to
  roll back from.
* `PendingResolved`: recovery that the process retries resolves its pending
  snapshot.
* `SwapPromise`: refinement. `SwapSet` is the abstract promise: a set of active
  swap devices of which one is switched at a time and of which the last is
  never switched off during a transaction. `ZramTransaction` implements it
  under the mapping active -> swaps.

### Daemon (`crates/nemord`, `crates/storage`, `crates/classifier/src/stabilize.rs`)

Startup with one transaction per migration, the session row, the biased
`select!` with its ticks, the workload stabilizer, the policy tick with its
deduplicated decision row and the audits that follow it one by one, the batches
of process rows with the workload event in the last one, and the shutdown. A
store call may fail at any time, which ends the process, as a crash does; then
another session may start.

* `SchemaSound`: a version is recorded exactly when its statements ran, and a
  session only runs over the schema of this build.
* `CleanIsComplete`: a session that is marked clean lacks no workload event and
  no mandatory audit.
* `EventChain`: the events of a session form a chain that ends in the class of
  the stabilizer.
* `AuditCurrent`: deduplication never hides a change: the latest decision row
  shows the last evaluation and is younger than the heartbeat.
* `WorkloadHysteresis`: a class takes over only after the configured number of
  consecutive equal outcomes, Critical excepted.
* `ShutdownCompletes`: a signal leads to a closed session or a dead process.

`EventChain` and `AuditCurrent` exclude sessions in which the wall clock was
set back (`steppedBack`); there the code really may drop rows.

### KsmValidation (`crates/ksm`, `validate_ksm`, `ksm_target_worker`)

The harness, two children, the files through which they talk (open and filled
are two steps), the scanner, and other parties who may write `run` or register
pages (`Foreign`). Every `?` leads to the guard's `drop`, which stops an owned
scanner, writes the stop file and joins the children. The protocol of ten
gates, the controller and the verdicts follow the library; measured numbers are
abstracted to the conditions they are compared for (`Measurements`).

* `AuditFirst`: the decision is on disk before any child registers its memory
  and before Nemor switches the scanner on, and as long as either lasts.
* `ScannerReturned`: at the end no scanner of Nemor runs and no child is left,
  a refused last write excepted.
* `PassEarned`: behind a passing report the monitoring met no interference, no
  write was refused, the configuration is the one found, the contents were
  intact, and the evidence of the scenario is complete.
* `Finishes`: every run ends.

### BootContracts, BootLifecycle (`boot_validation_v2/v3/v5/v6.rs`, `nemor-tiering-boot-validation.rs`)

`BootContracts` holds what the four contracts say: the stages, the transition
table, and each lifecycle function. A function is a straight sequence of
durable saves, host mutations, evidence files and checks, so it is a program, a
sequence of steps. The gates over what the machine shows (preflight, baseline,
post-boot measurement) are predicates over the modelled host, per contract.
v3, v5 and v6 differ in the name under which the zram baseline is filed and in
the order of the first two writes; v2 has no baseline measurement, no staged
helper and no activation stages.

`BootLifecycle` runs the programs under the driver of the binary, which is
written for v6; the older contracts run under the same driver and host.
`Save`, `Mutate`, `PutDocument`, `RunCheck`, `SealArchive` say once what a step
does and where a failing one leads. The durable transaction is written through
a `.new` candidate: `Save` may be killed with a torn candidate or between the
candidate and the rename, and `Loadable` is what the next command makes of it.
There are two processes, the operator's command and the activation unit, which
starts in the experimental boot; `Die`, `Fault` and `Reboot` may happen at any
time.

* `WriteAhead`: each owned file, the one-shot and the active swapfile have
  their intent in the transaction on disk (v2 announces no swap activation).
* `BootableEntry`: the one-shot never names an entry of which a file is gone.
  v2 is excluded: it has no helper to look for, and its one-shot can be selected
  after a recovery that failed half way.
* `EvidenceBacked`: every hash in the transaction names a document on disk, and
  the zram baseline is filed before the first boot artifact.
* `TerminalClean`: Restored and Recovered leave no swapfile, unit, helper,
  intact entry or one-shot. (An entry that was only written in part is skipped
  by the cleanup; the property says what does hold.)
* `BaselineProvenFirst`: owned files are removed only in a baseline boot, with
  the swapfile off and no one-shot on them, and once the experimental entry has
  been booted only after the baseline was proven.
* `StageMonotone`: only the transitions the contract declares legal.
* `RestoreCompletes`, `Reconcilable`: see Findings.

`WriteAhead` and `StageMonotone` are stated for histories in which the operator
gave no command while the unit ran (`overlapped`): the transaction file has no
lock, and with two writers the later save wins. The other four hold for
overlapping writers too.

### DamonHost, DamonSession (`validate_damon`, `damon-target`, `crates/damon`)

`DamonHost` is what the DAMON and DAMOS validations share: the one kdamond
slot, the trace instances, the capture thread, the target with the files it
polls, the `DamonCleanup` guard, and another user of DAMON. The harness is
sequential, so its program is the sequence `todo`; a step that returns an error
replaces the rest of its scope by the destructors that then run. A write to
sysfs may take effect and fail its readback, in which case the guard does not
learn of it. `DamonSession` adds the reference probe, the ladder of base-page
sizes, the final session with its baseline run, the crash worker that is killed
with its kdamond on, and the recovery by slot number.

* `SessionsSeparate`: when a session begins nothing of the one before is left.
* `WorkloadAfterOn`: a monitored target works only once its kdamond is on.
* `DamonPassEarned`: a pass leaves nothing, and the target was active and wrote
  its fingerprints.
* `ForeignKept`: no step of the harness changes a kdamond of another user.
* `Finishes`: the run comes to a verdict and no kdamond of Nemor runs on.

### DamosReclaim (`validate_damos`, `crates/damos`)

The capability probe, the shadow session that only counts, the decision and the
plan, the live session that pages out the COLD zone, the controlled refault and
the end of the target, for an internal target and for one of another creator.
The kernel applies the scheme once per interval and renews the quota after
`ResetTicks`; the harness may be held up between any two steps.

* `PageoutBounded`: whatever becomes of the harness, no more than the quota is
  paged out, and only of the COLD zone. The quota alone does not give this: it
  is renewed, and only the snapshot ceiling ends the scheme before that.
* `PageoutAudited`: a scheme that pages out runs only after the shadow session
  passed and the decision was recorded.
* `ExternalSpared`: a target of another creator is never killed or reaped.
* `PassEarned`: a pass means pages went out, came back and nothing is left.
* `NoRunaway`: no kdamond of Nemor runs for ever.

### HostValidation (`nemor-privileged-validation`, `crates/tiering/src/backend.rs`)

The scopes `--cgroups`, `--zram`, `--tiering` and `--all`, each a list of steps
whose guards are dropped in reverse order, the crash workers, the deadline, the
reports, the swapfile transaction of the tiering crate, and
`--cleanup-owned-residue`, which works from the names of an old report. Device
numbers are given out again, another tool may take one, helpers may be killed
after they took effect, and the harness itself may be killed.

The guards look at a baseline: `Protected(o)` is `/dev/zram0` and every number
that existed when the harness, or its crash worker, took its snapshot. `Add`
and `resume_isolated_managed_device`, through which `DropZram` goes, refuse
such a number, whoever uses it by then.

* `PassClean`: a run that passes has left no device (under a new or a reused
  number), group, sleeper or swapfile, also where `compare_host` does not look.
* `ErrorPathsClean`: what a run that fails may leave. For each kind of resource
  a set (`DeviceRisks`, `GroupRisks`, `FileRisks`) names the steps that make it
  before a guard knows it, give the guard up before it is gone, or are the
  guard; the property says that no other step leaves one. A device that the
  guard refused for its number (`base.refused`) is the one further exception.
* `RollbackHonest`: a swapfile transaction that says rolled back has left no
  active swapfile, and none that `create_owned` has made. What a
  `create_owned` that failed leaves is not in the snapshot and outside it.
* `ForeignSpared`: a validation run never switches off or removes a device it
  did not add, even one whose number was its own before.

## 3. Runs

| Run | Expect | Bounds | Distinct states |
|---|---|---|---|
| `policy_hysteresis` | pass | 25 kinds of sample, holds 1 and 2, time 6 | 51 thousand |
| `cgroup_lifecycle` | pass | 2 PIDs, 2 instances each, 4 candidates, 2 snapshots, 1 failure, 1 crash | 567 thousand |
| `cgroup_verify` | violation | 1 snapshot, nothing fails | |
| `zram_transaction` | pass | 4 device names, 2 failures, 1 crash, 7 plans | 114 thousand |
| `daemon_session` | pass | 3 classes, 3 decisions, 2 confirmations, heartbeat 2, time 2, 2 sessions, 2 migrations, 2 rows per table, 2 batches | 620 thousand |
| `ksm_validation` | pass | 2 children (as in the code), 2 acts of others, 1 dead child, 1 refused write | 610 thousand |
| `boot_lifecycle` | pass | 4 contracts; 3 reboots for v6, 2 for the others; 1 death, 1 fault | 2.6 million |
| `boot_restored` | violation | v6, 3 reboots, nothing fails | |
| `boot_reconcile` | violation | v6, 3 reboots, 1 death | |
| `damon_session` | pass | 2 sizes on the ladder, 1 failing step, 2 acts of others | 67 thousand |
| `damos_reclaim` | pass | 2 failing steps, 1 act of others, quota 1, ceiling 2, deadline 2, quota renewed after 3 intervals | 116 thousand |
| `host_validation` | pass | 2 runs, 5 device numbers, at most one of another tool at the start, 1 failing call, 1 act of others | 2.9 million |

Why these bounds show the interesting cases: the longer policy hold is two
ticks and time is six, so the complete way from a severe state to Normal and a
step back in the middle of it fit; two cgroup snapshots allow a shared group and
a second rollback after a failed first; two zram failures allow a failed apply
whose rollback fails, and the crash may come after both; two daemon sessions
allow a crash in a migration or in a row sequence and a restart over it; one
confirmation short of two is a pending class; two reboots are the experimental
boot and the return, and the third is one more than the lifecycle needs; two
sizes on the DAMON ladder are one that is not stable and a next one; two acts
of others let a foreign kdamond come and go; two DAMOS failures are one in the
session and one in the guard that cleans up after it, and a ceiling below the
renewal, as in the code (`VALIDATION_MAX_NR_SNAPSHOTS` against
`VALIDATION_RESET_INTERVAL_MS`), is what the bound on the pages rests on; a
second host validation meets what the first one left, and five device numbers
are `/dev/zram0`, the pair, the worker's and a foreign one.

CHECK_DEADLOCK is FALSE where the system may stop: a finished validation, a
bound that is exhausted, an operator who gives no more commands.

### Fairness

* Cgroup and zram: a call that has begun goes on (weak fairness of the apply
  and rollback steps: straight-line code without a wait other than helpers
  that have timeouts). Recovery is called again and again (strong fairness of
  `Recover`/`RecoverPending`, for it is disabled while another call runs): this
  is an assumption on the caller, and the properties say what retrying gains.
* Daemon: a handler that has begun goes on, the runtime delivers a signal that
  was raised (strong fairness of `SignalSeen`, for the loop is not at its
  `select!` all the time), and the shutdown branch, which comes first in the
  biased `select!`, is taken when ready.
* KSM: the harness and the children are scheduled, and a deadline passes
  (`Expire`). Nothing is assumed of other parties.
* DAMON and DAMOS: the harness goes on, for each of its waits has a timeout,
  and the kernel stops a kdamond whose target is gone. For DAMOS the target
  worker also reaches its runtime limit (`TargetEnds`); a DAMON target need not
  do anything, the harness kills it.
* Boot and host validation: no liveness is claimed. The operator need not do
  anything, and a harness may be killed.

### Findings

Three runs each show one sentence of the repository that the code does not keep:

* `cgroup_verify`: on the Linux backend the readback of a background soft limit
  compares `Some(0)` with `None` and always rolls back; the tests use the fake
  backend.
* `boot_restored`: the v6 cleanup looks for the baseline under the older
  contracts' name, after everything has been removed, and stops in Cleaning.
* `boot_reconcile`: the candidate of a completion rewrites the last mutation
  record, so that it is no successor in the sense of
  `reconcile_transaction_new`; a process that dies before the rename leaves a
  transaction no command loads any more.

### Observations

What the models say about the code besides, without a run of its own. The
properties above are stated so that they hold with these.

* Policy: insufficient telemetry keeps a severe state and still plans its
  mutating actions, where `docs/policy-engine.md` says it emits none. In observe
  mode, the only one the daemon uses, they are rejected.
* Cgroups: a crash between the attach and the update that sets `applied` leaves
  a moved process that `pending` does not list.
* zram: `docs/zram.md` lists "persist snapshot" and "restart recovery"; nothing
  stores a `MutationSnapshot`, and after a crash the replacement stays as a
  device nobody owns. A rollback from a snapshot that was kept elsewhere would
  find `owned` empty, skip the replacement and report success.
* KSM: a scanner that another party starts between the baseline and the start is
  taken for the owned one and switched off at the end.
* Boot: `recovery_action` names steps the transition table refuses; a cleanup
  that died in Cleaning cannot be resumed; v2 has no way out of
  PostBootMeasuring and Failed; when the bounded workload is not ready in time,
  its child keeps running.
* DAMON: the recovery of the crashed worker knows the slot only by its number.
  `ForeignKept` holds because another user takes a slot only when there is none
  (`Foreign`); a user who overwrites a slot in use is outside the model. A
  capture thread that is dropped keeps its trace open.
* DAMOS: the number of kdamonds is not looked at again before the live session.
* Host validation: `hot_add` makes a device before the guard knows it; the
  residue command trusts the names of an old report, whose number may be another
  tool's by then; `rollback_swapfile` compares the baseline only after
  `swapoff`; the swapfile has no drop guard, and its ownership is given up
  before the unlink; a `chmod` that fails after `fallocate`, or a removal that
  fails after `mkswap`, leaves the file while the transaction says rolled back;
  a harness that is killed, or whose `remove_dir_all` fails, leaves its state
  directory, and the next run refuses to start. A number that another tool gave
  up during the run may be given to the crash worker: the harness adopts that
  device, and its guard refuses it after an error, so that it stays, active if
  `swapoff` has not been reached. No run passes with it.

## 4. Proofs

The theorems hold for every value of the constants that satisfies the named
assumptions of the component modules; the bounds are constants too, so they
hold for any number of failures, crashes and sessions.

* **PressurePolicyProofs**: `TypeCorrect`, `RecoveryPathHolds`,
  `NoFlappingHolds`, `TwoHoldRecoveryHolds`. The operators of `transition.rs`
  come first, as lemmas on what `TargetState` and `RecoveryTarget` may return.
  `NoFlapping` needs `CandidateIsFresh` (a candidate is never older than the
  entry into the current state: without it a candidate left over from before
  could serve the hold early). `TwoHoldRecovery` needs `HoldsServed`, which
  carries the time of the last severe evaluation through Stabilizing.
* **CgroupActuatorProofs**: `TypeCorrect`, and, when `AllowReapply` and
  `ReuseDuringOp` are FALSE, `AccountedForHolds` and `NoResidueHolds`. Both are
  parts of `CallInv`, which adds what holds at each point of a call: apply_one
  works on an open row of the plan's own instance (`ApplyInv`), whose process
  was not managed before (`PlannedInv`, `OriginalsInv`); rollback_one moves the
  instance of its row (`MoveInv`), which from then on is in no managed group
  (`MovedInv`), so that marking the row loses no account; and a group that is
  still there when the row is marked is needed by another open row
  (`CleanupInv`), which is where `NoResidue` needs `AccountedFor`.
* **ZramTransactionProofs**: `TypeCorrect`, `NoSwapLossHolds`,
  `SwapPromiseHolds`, `RollbackCompleteHolds`. `NoSwapLoss` is not inductive: whether another device is
  still active when one is switched off depends on where the call is. The
  strengthening `SwapInv` is `CallSound` (which step may run in which phase of
  the snapshot) and `SwapWitness` (at each such step, which device is known to
  be active). Refinement then needs only that a step switches one device
  (`OneDeviceAtATime`) and `NoSwapLoss`. `RollbackComplete` needs
  `CompleteInv`: until a snapshot is rolled back the replacement it names is in
  `owned` (a process that lost the one has lost the other), so that no step of
  the rollback passes over it, and behind each step of the rollback what that
  step put back stays.
* **DaemonProofs**: `TypeCorrect`, `SchemaSoundHolds`,
  `WorkloadHysteresisHolds`, `AuditCurrentHolds`, `EventChainHolds`,
  `CleanIsCompleteHolds`. The inductive invariants are `Sound` (types and row
  ids), `PendingEarned` (the pending count never exceeds the streak of equal
  outcomes), `ClockSound` (without a step back, no row is younger than the
  clock and the newest row by time is the newest by id), `EventsSound` (the
  chain, with the transition that is computed and not stored yet) and
  `AuditsSound` (which audits of the current decision are stored at each
  point of the handler).

* **KsmValidationProofs**: `TypeCorrect`, `AuditFirstHolds`,
  `ScannerReturnedHolds`, `PassEarnedHolds`, for any number of children, acts
  of others, deaths and refused writes. `RunInv` has five parts. `Registered`:
  only a child that has seen its opt-in is registered. `Joined`: no child is
  alive before the guard exists or behind its drop. `Audited`: no opt-in file,
  no registered memory and no scanner of Nemor without the decision on disk.
  `Returned`: the guard knows of every scanner Nemor switched on, and one that
  is still on behind the drop means a refused write. `Evidenced`: as long as no
  failure is recorded nothing went wrong, and a check that passed has its
  evidence.
* **BootLifecycleProofs**: `TypeCorrect`, `WriteAheadHolds`,
  `EvidenceBackedHolds`, `StageMonotoneHolds`, `BootableEntryHolds`,
  `TerminalCleanHolds`, `BaselineProvenFirstHolds`, for each of the contracts
  and any number of reboots, deaths and faults, also while operator and unit
  run at once. The commands are data, a few dozen programs, so the proof has
  three parts. First, a program
  is `Sound` when each step that changes the machine stands right behind the
  save of its intent, each save that names a document right behind its
  creation, and no skip leads to such a step. Soundness is kept by
  concatenation (`Concat`), so each program is sound because its short pieces
  are. Second, the invariant of the processes, from soundness alone: `Booted`
  (the boots are those the bound counts), `RootFirst` and `Filed` (no
  transaction before the root, none that names a document that is not there),
  `Synced` (a running process and the file agree on the transaction unless two
  ran at once), `Announced` (the step a process stands at has its intent on
  disk), `BaselineFirst`. Third, what the commands do to the machine:
  `Speaks` says of a program where a failing step leads, which operations it
  does and which stages it moves to (kept by concatenation as well), `Shape`
  which step stands where in apply, one-shot, remove, clear and cleanup. On
  these rests `Safe` (`SafeInvariant`): `Trial` (an experimental boot was
  tried, swap is on in it only, the one-shot is selected only while it is
  untried and all files are there), `Kept` (every record on disk, in the
  candidate file or in a process's hands is `Sane`: once the one-shot is
  selected or booted the record is past it, a terminal record means nothing is
  left, an armed record with the helper there means all files are), `Manned`
  and `Alone` (the unit runs in the experimental boot only, with its own
  commands; in a baseline boot only the operator writes), `Doing` (what a
  command has reached at each place) and `Risked` (behind the one-shot there
  is a transaction on disk). `LegalSteady` gives what the transition table
  rules out for a record another process wrote. `SentinelsAssumption` says
  that `NoTx` and `Torn` are no transactions, as a missing and a torn file are
  none.
* **DamonProofs**, on DamosReclaim: `Invariant`, `TypeCorrect`, `PageoutBoundedHolds`,
  `PageoutAuditedHolds`, `PassEarnedHolds`, `ExternalSparedHolds`, for every
  quota, ceiling, deadline and reset interval and any number of faults and
  foreign acts. `Plan` writes the program of `validate_damos` out in 69 places
  (`Begins` proves that it is `DamosSteps`). `Control`: what is left to do is
  the plan from some place, or the refault in between, or `Undo` after an
  error. With each place go `Scheme` (what has been written to the scheme so
  far) and `Established` (what the steps before ensured). `PlaceKept` proves
  that kernel, target and others cannot disturb either. `Bounded` says what
  survives a harness that stalls or fails: a running scheme only counts, or it
  has quota, fence and ceiling, the ceiling lies below the renewal of the quota
  (the gate `validate_attempt2_bounds`), and everything that was paged out is
  charged to it. No assumption relates the constants to each other: where the
  gate does not pass, no live session begins.
* **DamonProofs**, on DamonSession: `DamonInvariant`, `DamonTypeCorrect`,
  `SessionsSeparateHolds`, `WorkloadAfterOnHolds`, `DamonPassEarnedHolds`,
  `ForeignKeptHolds`, for every length of the ladder and any number of faults
  and foreign acts. The program is put together at run time (the ladder puts a
  probe or the final session in front of what is left, the crash worker its own
  steps), so there is no one plan to number. The invariant `DamonInv` speaks of
  the steps ahead instead, each part a property of a sequence of steps that
  survives dropping its first one: `Lapses` (what is held now, or taken on the
  way, is closed before the next session begins; once each for slot, trace
  instance, reader and target), `Owned` (a step that takes the slot for Nemor's
  stands behind the one that makes it so, with no release between), `Unstarted`
  (no START before the kdamond of the same target), `Recovers` and `Found`
  (the order of the recovery, and that it acts on Nemor's slot), `Gates` and
  `Evidenced` (what a gate that is behind has established). `Planned` says them
  of a program that starts with nothing held; it is proved of the ladder, the
  final session and the crash worker written out, and `NothingHeld` gives the
  start where one of them is put in. `Remembered` ties what is held to the
  guard: a slot that the guard never heard of is left only by an error, after
  which no session begins (`AfterError`). `ForeignKept` needs `GuardHolds` (a
  flag of the guard means that the slot is Nemor's), `Owned` and `Found`; the
  remaining writes are refused by a slot that is on. TLC checked `DamonInv` on
  the instance of the run before it was proved.
* **HostValidationProofs**: `Invariance`, `TypeCorrect`, `RollbackHonestHolds`,
  `PassCleanHolds`, `ErrorPathsCleanHolds`, `ForeignSparedHolds`, for any
  number of device numbers, runs, failing calls and acts of others, whichever
  devices another tool has at the start. Every step that makes, hands over or
  gives back a resource has one place in the longest program (`--all`), and the
  programs of the scopes, and what is left of them after a step or an
  unwinding, are `WellMade`: in the order of the places, with the steps of their
  scope only, and with the step that gives a resource back behind the one that
  makes it (`Needs`). The set of places that are still ahead then tells what the
  run holds. `Inv` is `TypeOK`, `Control` (what is left is well made, or the
  unwinding of what was done), `Transaction` (what the swapfile's record says
  against what is on disk), `Holding` (what a role, a guard or the snapshot
  names is the run's own, as the places ahead need it), `Guarded` (for each
  kind of resource, as long as none of its risks is blamed, what the run has
  made is held by a guard or given back by a place ahead; devices of earlier
  runs and refused ones are `Excused`) and `Ended`. `PassClean` and
  `ErrorPathsClean` are `Guarded` with nothing ahead and no guard left. A guard
  that refuses a device takes it from its names and adds it to the excused ones
  in one step, which is why `DevicesKept` speaks of both. `ForeignSpared`
  follows from the roles: a role that is switched off or removed is live, and
  the device behind a live role is one the run added.

Only model-checked:

* all liveness (`RecoveryCompletes`, `PendingResolved`, `ShutdownCompletes`,
  `Finishes`, `NoRunaway`), which is outside what TLAPS proves.

Every invariant and every action property that a passing run checks is also
stated by a theorem, under the hypotheses named above.

No module declares a RECURSIVE operator.

## 5. Not modelled

`PROJECT.json` lists every part with its reason. Left out for good: parsers,
formatting, statistics, command lines and read-only reports (`common`,
`collector` parsing, classifier scoring, `nemorctl`, storage reports, the
validation of evidence records), whose results are inputs of the models; the
contents of manifests and the individual checks of a preflight, which are
verdicts; the contracts v1, which keeps no durable transaction, and v4, which
has no lifecycle of its own; `matching_same_host_evidence`, which only tests
call; the tiering plans and inventories, which are pure functions of one
snapshot. Left out so far: what the plan below names.

Abstractions that a reader should keep in mind: limits, sizes and measured
values are members of small sets; the database commits or fails a statement
atomically; only Nemor switches zram swap devices; a process that is killed
leaves a file absent, torn or complete.

## 6. Plan

What is left, in this order:

1. **SystemdScope** and **ObserverService**: a job whose signal is lost, a
   timeout that races the job, a unit that disappears on its own; that no unit
   of Nemor is left after an error that says `mutation_may_have_started`, and
   that staged files are removed when the service is gone.
2. **PressureRun**, composed with SystemdScope: harness, worker and scope;
   level protocol with late answers, evidence persisted incrementally, cleanup
   that reconciles with a scope that is already gone.
3. **CapacitySearch** and the rates of the collector as pure operators against
   a reference definition.
