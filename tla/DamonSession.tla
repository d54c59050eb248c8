---------------------------- MODULE DamonSession ----------------------------
(***************************************************************************)
(* validate_damon: a THP reference probe, base-page probes of growing size *)
(* until one is stable, the final session with its baseline run, the crash *)
(* worker and its recovery, and the verdict of main.                       *)
(*                                                                         *)
(* The damon-target worker polls files of the state directory.  It writes  *)
(* damon-target.json in place (a reader may find it torn) and its progress *)
(* by rename; the harness never waits for it without a timeout.            *)
(***************************************************************************)
EXTENDS DamonHost

CONSTANT MaxRungs   \* bound: base-page sizes the free memory may allow (3)

ASSUME RungsAssumption == MaxRungs \in Nat

VARIABLES
    rungs,    \* sizes of the ladder that are left
    stable,   \* is the latest base-page probe stable_enough?
    active    \* was the workload active in every window of the session?

session == <<rungs, stable, active>>
damonVars == <<host, session>>

----------------------------------------------------------------------------
(* The programs *)

TargetSteps == <<"spawn", "await", "meta", "judge">>
TraceSteps == <<"mkdir", "clock", "event_on", "tracing_on", "capture">>
AttachSteps == <<"slot", "configure", "on", "started", "progress">>
MonitorSteps == <<"start", "window", "off", "stop", "drain", "tracing_off", "event_off">>

\* Mutant: the probe relies on the next one to clean up.
ProbeStepsNoCleanup ==
    <<"nr_zero", "guard">> \o TargetSteps \o TraceSteps \o AttachSteps \o MonitorSteps
        \o <<"judge", "reap", "evidence">>

\* run_damon_probe.
ProbeSteps ==
    <<"nr_zero", "guard">> \o TargetSteps \o TraceSteps \o AttachSteps \o MonitorSteps
        \o <<"judge", "reap">> \o Releases \o <<"evidence">>

\* The preflight of validate_damon.
DamonPreflight == <<"inspect", "nr_zero", "ladder_size">>

\* The baseline run of the final session, without a kdamond.
BaselineSteps ==
    <<"guard", "spawn", "await", "start", "progress", "progress", "stop", "terminate">>

\* The final session up to the end of its monitoring window.
FinalSessionSteps ==
    TargetSteps \o TraceSteps \o <<"slot", "configure", "progress", "on", "started">>
        \o <<"start", "judge", "window", "off", "stop", "drain", "tracing_off", "event_off">>

\* Evidence, dataset, reaping the child, fingerprints; cleanup, twice.
FinalEndSteps ==
    <<"activity", "signal", "overhead", "dataset", "reap", "progress", "fingerprint">> \o Releases \o Releases
        \o <<"gate_cleanup">>

\* damon_crash_worker in its own process.
CrashSteps ==
    <<"nr_zero", "guard", "mkdir", "slot", "configure", "record", "on_self", "started",
      "worker_exit">>

RecoverSteps == <<"rec_begin", "rec_state", "rec_off", "rec_slot", "rec_instance", "rec_file">>

FinalSteps ==
    BaselineSteps \o FinalSessionSteps \o FinalEndSteps \o <<"run_worker">> \o RecoverSteps
        \o <<"gate_recovery">> \o RecoverSteps \o <<"restored">>

DamonSteps == DamonPreflight \o ProbeSteps \o <<"ladder", "close_damon">>

SessionInit ==
    /\ kd = NoSlot /\ inst = {} /\ readers = {}
    /\ tgt = "none" /\ files = {} /\ progress = "none"
    /\ sess = 0 /\ flags = {} /\ child = FALSE /\ unwinding = FALSE
    /\ errors = {} /\ failed = {} /\ verdict = "none"
    /\ faults = 0 /\ acts = 0
    /\ rungs \in 0 .. MaxRungs /\ stable = FALSE /\ active = FALSE

DamonInit == SessionInit /\ todo = DamonSteps \o <<"report">>

----------------------------------------------------------------------------
(* Preflight and ladder *)

\* inspect_linux finds a running session of another party; or DAMON lacks.
Inspect ==
    /\ Step("inspect")
    /\ IF kd.own = "foreign" /\ kd.on THEN Require(FALSE) ELSE Judge
    /\ UNCHANGED session

LadderSize ==
    /\ Step("ladder_size")
    /\ Require(rungs > 0)
    /\ UNCHANGED session

\* The next size, the final session, or no size that is stable.
Ladder ==
    /\ Step("ladder")
    /\ \/ stable /\ todo' = FinalSteps \o AfterScope
          /\ UNCHANGED <<rungs, unwinding, report>>
       \/ ~stable /\ rungs > 0 /\ rungs' = rungs - 1
          /\ todo' = ProbeSteps \o todo /\ Smooth
       \/ ~stable /\ rungs = 0 /\ Fail /\ UNCHANGED rungs
    /\ Untouched
    /\ UNCHANGED <<kernel, process, flags, faults, acts, stable, active>>

\* Evidence of a probe.  The THP reference, the first one, is never selected.
Evidence ==
    /\ Step("evidence")
    /\ stable' \in {FALSE, active /\ sess > 1}
    /\ Proceed /\ Smooth /\ Untouched
    /\ UNCHANGED <<kernel, process, flags, faults, acts, rungs, active>>

----------------------------------------------------------------------------
(* The target, seen by the harness *)

\* Mutant: signals of the previous target stay.
SpawnOverStale ==
    /\ Step("spawn")
    /\ tgt' = "booting" /\ progress' = "none"
    /\ files' = files \ {"target", "metadata"}
    /\ Proceed /\ Smooth
    /\ UNCHANGED <<kernel, sess, flags, child, faults, acts, session>>

\* spawn_synthetic_target removes what the previous target left, then spawns.
SpawnSynthetic ==
    /\ Step("spawn")
    /\ tgt' = "booting" /\ progress' = "none"
    /\ files' = files \ ({"target", "metadata"} \union SignalFiles)
    /\ Proceed /\ Smooth
    /\ UNCHANGED <<kernel, sess, flags, child, faults, acts, session>>

\* Five seconds for the metadata; then the start ticks, without which nobody
\* is left to kill the child.
AwaitTarget ==
    /\ Step("await")
    /\ \/ "target" \in files /\ child' = TRUE /\ Proceed /\ Smooth /\ UNCHANGED <<tgt, faults>>
       \/ "target" \in files /\ Fault /\ Fail /\ UNCHANGED <<tgt, child>>
       \/ "target" \notin files /\ tgt' = "none" /\ Fail /\ UNCHANGED <<child, faults>>
    /\ UNCHANGED <<kernel, files, progress, sess, flags, acts, session>>

ReadMetadata ==
    /\ Step("meta")
    /\ Require("metadata" \in files)
    /\ UNCHANGED session

SignalWorker ==
    /\ \E name \in {"start", "stop"} :
          Step(name) /\ files' = files \union {name}
    /\ Proceed /\ Smooth /\ Untouched
    /\ UNCHANGED <<kernel, tgt, progress, flags, faults, acts, session>>

\* The window ends; progress in all of it needs a target that still works.
\* Reading the progress fails as long as there is none.
Window ==
    /\ Step("window")
    /\ Require(progress # "none")
    /\ active' \in {FALSE, tgt = "active"}
    /\ UNCHANGED <<rungs, stable>>

\* Mutant: wait_for_exit has no deadline.
ReapPatiently ==
    /\ Step("reap") /\ tgt = "exited"
    /\ tgt' = "none" /\ child' = FALSE
    /\ Proceed /\ Smooth
    /\ UNCHANGED <<kernel, files, progress, sess, flags, faults, acts, session>>

\* wait_for_exit: after two seconds the child is killed.
Reap ==
    /\ Step("reap")
    /\ tgt' = "none" /\ child' = FALSE
    /\ Proceed /\ Smooth
    /\ UNCHANGED <<kernel, files, progress, sess, flags, faults, acts, session>>

Terminate ==
    /\ Step("terminate")
    /\ tgt' = "none" /\ child' = FALSE
    /\ Proceed /\ Smooth
    /\ UNCHANGED <<kernel, files, progress, sess, flags, faults, acts, session>>

----------------------------------------------------------------------------
(* Gates *)

Gate(name, passes) == Assess(name, passes) /\ UNCHANGED session

\* Gates on what was captured and measured: the trace with the workload's
\* activity, the signal of the zones, the overhead, the exported dataset.
ActivityGate == Step("activity") /\ \E captured \in BOOLEAN : Gate("measured", captured /\ active)
SignalGate == Step("signal") /\ \E accepted \in BOOLEAN : Gate("measured", accepted)
OverheadGate == Step("overhead") /\ \E allowed \in BOOLEAN : Gate("measured", allowed)
DatasetGate == Step("dataset") /\ \E exported \in BOOLEAN : Gate("measured", exported)

\* Mutant: any fingerprint will do.
FingerprintAny == Step("fingerprint") /\ Gate("fingerprint", TRUE)

\* Only the last progress record of a target that was stopped has them.
Fingerprint == Step("fingerprint") /\ Gate("fingerprint", progress = "final")

GateCleanup ==
    /\ Step("gate_cleanup")
    /\ Gate("cleanup", sess \notin inst /\ kd.own = "none")

GateRecovery == Step("gate_recovery") /\ Gate("recovery", kd.own = "none")

Restored ==
    /\ Step("restored")
    /\ Require(inst = {} /\ kd.own = "none")
    /\ UNCHANGED session

----------------------------------------------------------------------------
(* The crash worker and recover_damon_crash *)

RunWorker ==
    /\ Step("run_worker")
    /\ todo' = CrashSteps \o Tail(todo)
    /\ Smooth /\ Untouched
    /\ UNCHANGED <<kernel, process, flags, faults, acts, session>>

Record ==
    /\ Step("record")
    /\ \/ files' = files \union {"recovery"} /\ Proceed /\ Smooth /\ UNCHANGED faults
       \/ Fault /\ Fail /\ UNCHANGED files
    /\ Untouched /\ UNCHANGED <<kernel, tgt, progress, flags, acts, session>>

\* The guard is forgotten; a worker that failed makes run_worker fail.
WorkerExit ==
    /\ Step("worker_exit")
    /\ flags' = {}
    /\ Proceed /\ Smooth /\ Untouched
    /\ UNCHANGED <<kernel, process, faults, acts, session>>

SkipTo(step) ==
    \E i \in DOMAIN todo :
        /\ todo[i] = step /\ \A j \in 1 .. i - 1 : todo[j] # step
        /\ todo' = SubSeq(todo, i, Len(todo))

\* recover_damon_crash, whose look at the state and whose write are two calls.
Recover ==
    /\ \/ /\ Step("rec_begin")
          /\ IF "recovery" \in files THEN Proceed
             ELSE todo' = SubSeq(todo, Len(RecoverSteps) + 1, Len(todo))
          /\ Smooth /\ UNCHANGED <<kd, inst, files>>
       \/ /\ Step("rec_state")
          /\ SkipTo(IF kd.own = "none" THEN "rec_instance"
                    ELSE IF kd.on THEN "rec_off" ELSE "rec_slot")
          /\ Smooth /\ UNCHANGED <<kd, inst, files>>
       \/ /\ Step("rec_off") /\ UNCHANGED <<inst, files>>
          /\ IF Takes("off") THEN kd' = SlotAfter("off") /\ Proceed /\ Smooth
                             ELSE Fail /\ UNCHANGED kd
       \/ /\ Step("rec_slot") /\ UNCHANGED <<inst, files>>
          /\ IF Takes("release") THEN kd' = SlotAfter("release") /\ Proceed /\ Smooth
                                 ELSE Fail /\ UNCHANGED kd
       \/ /\ Step("rec_instance") /\ inst' = inst \ {sess}
          /\ Proceed /\ Smooth /\ UNCHANGED <<kd, files>>
       \/ /\ Step("rec_file") /\ files' = files \ {"recovery"}
          /\ Proceed /\ Smooth /\ UNCHANGED <<kd, inst>>
    /\ Untouched
    /\ UNCHANGED <<readers, tgt, progress, flags, faults, acts, session>>

----------------------------------------------------------------------------
(* The target worker *)

TargetStep(from, to) == tgt = from /\ tgt' = to
WorkerOnly == UNCHANGED <<kernel, todo, sess, flags, child, unwinding, report, acts, session>>

\* damon_target_worker: metadata, progress, START barrier, work, STOP.
TargetWorker ==
    /\ \/ TargetStep("booting", "torn") /\ files' = files \union {"target"}
          /\ UNCHANGED progress
       \/ TargetStep("torn", "ready") /\ files' = files \union {"metadata"}
          /\ UNCHANGED progress
       \/ TargetStep("ready", "waiting") /\ progress' = "idle" /\ UNCHANGED files
       \/ TargetStep("waiting", "active") /\ "start" \in files
          /\ progress' = "running" /\ UNCHANGED files
       \/ TargetStep("active", "stopped") /\ "stop" \in files
          /\ UNCHANGED <<files, progress>>
       \/ TargetStep("stopped", "exited") /\ progress' = "final" /\ UNCHANGED files
    /\ WorkerOnly /\ UNCHANGED faults

\* The child dies, or its START barrier times out.
WorkerDies ==
    /\ Running /\ tgt' = "exited" /\ Fault
    /\ WorkerOnly /\ UNCHANGED <<files, progress>>

----------------------------------------------------------------------------

CloseDamon == CloseScope("close_damon") /\ UNCHANGED session
ReportDamon == Conclude(files) /\ UNCHANGED session

DamonHarness ==
    \/ Host /\ UNCHANGED session
    \/ Inspect \/ LadderSize \/ Ladder \/ Evidence
    \/ SpawnSynthetic \/ AwaitTarget \/ ReadMetadata \/ SignalWorker \/ Window
    \/ Reap \/ Terminate
    \/ ActivityGate \/ SignalGate \/ OverheadGate \/ DatasetGate \/ Fingerprint \/ GateCleanup \/ GateRecovery \/ Restored
    \/ RunWorker \/ Record \/ WorkerExit \/ Recover \/ CloseDamon \/ ReportDamon

DamonWorld ==
    \/ KernelStops /\ UNCHANGED session
    \/ Foreign /\ UNCHANGED session
    \/ TargetWorker \/ WorkerDies

DamonNext == DamonHarness \/ DamonWorld

\* The harness goes on because every wait of it is bounded, and the kernel
\* notices a target that is gone.  Nothing is assumed of the target.
DamonSpec ==
    DamonInit /\ [][DamonNext]_damonVars /\ WF_damonVars(DamonHarness)
         /\ WF_damonVars(KernelStops /\ UNCHANGED session)

----------------------------------------------------------------------------

(* Every variable has its type; trace instances and capture threads belong  *)
(* to sessions that have begun.                                             *)
DamonTypeOK ==
    /\ HostTypeOK
    /\ rungs \in 0 .. MaxRungs /\ stable \in BOOLEAN /\ active \in BOOLEAN

\* What Nemor has in the kernel, and its processes.
Residue == inst # {} \/ readers # {} \/ kd.own = "nemor" \/ tgt # "none"

(* When a probe, the final session or the crash worker begins, nothing of  *)
(* the session before it is left: child, kdamond and trace instance are    *)
(* gone whatever the target did.                                           *)
SessionsSeparate == todo # <<>> /\ Head(todo) \in {"nr_zero", "guard"} => ~Residue

(* A target that is monitored does not begin its workload before its       *)
(* kdamond was switched on, so every access falls into the session.  Only  *)
(* the baseline run works without one.                                     *)
WorkloadAfterOn == tgt = "active" => ~Pending("on") \/ Pending("terminate")

(* A run that passes has left nothing in the kernel, and its final target  *)
(* stayed alive and wrote its fingerprints after the session.              *)
DamonPassEarned == verdict = "pass" => ~Residue /\ progress = "final" /\ active

(* However the target behaves, the validation comes to a verdict, and no   *)
(* kdamond of Nemor runs on: one that the harness cannot or does not stop  *)
(* watches a process that the destructors kill.                            *)
Finishes == <>[](verdict # "none" /\ ~(kd.own = "nemor" /\ kd.on))
=============================================================================
