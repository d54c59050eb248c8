----------------------------- MODULE DamonHost -----------------------------
(***************************************************************************)
(* What the DAMON and DAMOS validations of nemor-privileged-validation      *)
(* share: the kernel's one kdamond slot, the isolated trace instances, the *)
(* capture thread, the monitored target process with the files it polls,   *)
(* and the DamonCleanup guard.                                             *)
(*                                                                         *)
(* The harness is sequential, so its program is the sequence todo of the   *)
(* steps that remain; a step that returns an error replaces the steps up   *)
(* to the end of its scope by the destructors that then run.  Everything   *)
(* else happens between any two steps: the target works or dies, the       *)
(* kernel stops a kdamond whose target is gone, another party uses DAMON.  *)
(*                                                                         *)
(* Data abstraction.  Addresses, intervals and byte counts are the         *)
(* verdicts the code derives from them; sysfs writes that are only         *)
(* configuration and are followed by the same reaction are one step.       *)
(***************************************************************************)
EXTENDS Integers, Sequences, FiniteSets, SequencesExt

CONSTANTS
    MaxFaults,    \* bound: steps that fail for a reason outside this model
    MaxForeign    \* bound: acts of another user of DAMON

ASSUME HostBounds == MaxFaults \in Nat /\ MaxForeign \in Nat

VARIABLES
    kd,           \* kernel: the kdamond slot 0 and its owner
    inst,         \* kernel: trace instances of Nemor, by session
    readers,      \* kernel: instances whose trace a capture thread has open
    tgt,          \* where the target process stands
    files,        \* files of the state directory the target polls or writes
    progress,     \* content of damon-progress
    todo,         \* harness: the steps that remain
    sess,         \* harness: number of the current session
    flags,        \* harness: what DamonCleanup remembers to release
    child,        \* harness: is there a RegisteredChild to kill?
    unwinding,    \* harness: are destructors running after an error?
    errors,       \* report: scopes that returned an error
    failed,       \* report: mandatory gates that did not pass
    verdict,      \* outcome of the run
    faults, acts  \* faults and foreign acts so far

kernel == <<kd, inst, readers>>
process == <<tgt, files, progress>>
report == <<errors, failed, verdict>>
host == <<kernel, process, todo, sess, flags, child, unwinding, report, faults, acts>>

NoSlot == [own |-> "none", on |-> FALSE, watch |-> "none"]
Slots ==
    [own : {"none", "nemor", "foreign"}, on : BOOLEAN,
     watch : {"none", "target", "worker", "other"}]

\* A process is there until it is reaped, also after it has exited.
TargetStates ==
    {"none", "booting", "torn", "ready", "waiting", "active", "stopped", "exited"}
Running == tgt \notin {"none", "exited"}

SignalFiles == {"start", "stop", "refault"}
FileNames == SignalFiles \union {"target", "metadata", "recovery", "decision"}
Flags == {"on", "slot", "tracing", "event", "instance"}

----------------------------------------------------------------------------
(* The program of the harness *)

Step(name) == todo # <<>> /\ Head(todo) = name /\ verdict = "none"
Proceed == todo' = Tail(todo)

Closings == {"close_damon", "close_damos", "report"}
IsClosing(step) == step \in Closings

\* What main does after the scope that runs now, however that ends.
AfterScope == SubSeq(todo, SelectInSeq(todo, IsClosing), Len(todo))
Scope == CASE Head(AfterScope) = "close_damon" -> "damon"
           [] Head(AfterScope) = "close_damos" -> "damos"
           [] OTHER -> "main"

Pending(step) == \E i \in DOMAIN todo : todo[i] = step

\* The crash worker runs the steps up to its exit in a process of its own.
WorkerAlive == Pending("worker_exit")

\* The destructors, in the reverse order of the declarations.  The DAMOS
\* session is a function of its own, so its guard goes before the child does.
Releases == <<"rel_on", "rel_slot", "rel_tracing", "rel_event", "rel_instance">>
Destructors ==
    IF WorkerAlive THEN Releases \o <<"worker_exit">>
    ELSE IF Scope = "damon" THEN <<"detach", "kill">> \o Releases
    ELSE <<"detach">> \o Releases \o <<"kill">>

IsRelease(step) == step \in {Releases[i] : i \in DOMAIN Releases}
NotRelease(step) == ~IsRelease(step)
PastReleases == SubSeq(todo, SelectInSeq(todo, NotRelease), Len(todo))

\* An error: the question mark in the code.
Fail ==
    /\ todo' = Destructors \o AfterScope
    /\ unwinding' = TRUE
    /\ errors' = errors \union {Scope}
    /\ UNCHANGED <<failed, verdict>>

Fault == faults < MaxFaults /\ faults' = faults + 1
Smooth == UNCHANGED <<unwinding, report>>
Untouched == UNCHANGED <<sess, child>>

\* A step that looks at the world and goes on or returns an error.
Require(condition) ==
    /\ IF condition THEN Proceed /\ Smooth ELSE Fail
    /\ Untouched /\ UNCHANGED <<kernel, process, flags, faults, acts>>

\* A step whose outcome this model does not determine.
Judge ==
    /\ \/ Proceed /\ Smooth /\ UNCHANGED faults
       \/ Fault /\ Fail
    /\ Untouched /\ UNCHANGED <<kernel, process, flags, acts>>

----------------------------------------------------------------------------
(* Kernel objects, written with write_readback *)

\* What the kernel makes of a write, if it takes it.
Takes(write) ==
    CASE write = "slot" -> ~kd.on
      [] write = "configure" -> kd.own # "none" /\ ~kd.on
      [] write = "on" -> kd.own # "none" /\ ~kd.on /\ tgt # "none"
      [] write = "on_self" -> kd.own # "none" /\ ~kd.on
      [] write = "off" -> kd.on
      [] write = "release" -> ~kd.on
      [] OTHER -> TRUE

SlotAfter(write) ==
    CASE write = "slot" -> [NoSlot EXCEPT !.own = "nemor"]
      [] write = "on" -> [kd EXCEPT !.on = TRUE, !.watch = "target"]
      [] write = "on_self" -> [kd EXCEPT !.on = TRUE, !.watch = "worker"]
      [] write = "off" -> [kd EXCEPT !.on = FALSE]
      [] write = "release" -> NoSlot
      [] OTHER -> kd

FlagOf(write) ==
    CASE write = "slot" -> "slot"
      [] write \in {"on", "off", "on_self"} -> "on"
      [] write \in {"event_on", "event_off"} -> "event"
      [] write \in {"tracing_on", "tracing_off"} -> "tracing"
      [] OTHER -> "none"

FlagsAfter(write) ==
    IF FlagOf(write) = "none" THEN flags
    ELSE IF write \in {"off", "event_off", "tracing_off"}
         THEN flags \ {FlagOf(write)} ELSE flags \union {FlagOf(write)}

Writes ==
    {"clock", "event_on", "tracing_on", "slot", "configure", "on", "on_self",
     "off", "tracing_off", "event_off"}

\* The write is refused; or it works; or it works, and the readback does not,
\* so that the guard never hears of it.
WriteReadback(write) ==
    /\ Step(write)
    /\ \/ Takes(write) /\ kd' = SlotAfter(write) /\ flags' = FlagsAfter(write)
          /\ Proceed /\ Smooth /\ UNCHANGED faults
       \/ ~Takes(write) /\ Fail /\ UNCHANGED <<kd, flags, faults>>
       \/ Takes(write) /\ Fault /\ kd' \in {kd, SlotAfter(write)}
          /\ Fail /\ UNCHANGED flags
    /\ Untouched /\ UNCHANGED <<inst, readers, process, acts>>

\* A session begins: a guard that remembers nothing, then its trace instance.
NewGuard ==
    /\ Step("guard")
    /\ sess' = sess + 1 /\ flags' = {}
    /\ Proceed /\ Smooth /\ UNCHANGED <<kernel, process, child, faults, acts>>

MakeInstance ==
    /\ Step("mkdir")
    /\ \/ inst' = inst \union {sess} /\ flags' = flags \union {"instance"}
          /\ Proceed /\ Smooth /\ UNCHANGED faults
       \/ Fault /\ Fail /\ UNCHANGED <<inst, flags>>
    /\ Untouched /\ UNCHANGED <<kd, readers, process, acts>>

\* TraceCaptureWorker::start: a thread that keeps the trace file open.  The
\* readiness timeout returns after the thread is there.
StartCapture ==
    /\ Step("capture")
    /\ \/ readers' = readers \union {sess} /\ Proceed /\ Smooth /\ UNCHANGED faults
       \/ Fault /\ Fail /\ readers' \in {readers, readers \union {sess}}
    /\ Untouched /\ UNCHANGED <<kd, inst, process, flags, acts>>

\* drain_and_stop joins the thread before it parses what was read.
DrainCapture ==
    /\ Step("drain")
    /\ readers' = readers \ {sess}
    /\ \/ Proceed /\ Smooth /\ UNCHANGED faults
       \/ Fault /\ Fail
    /\ Untouched /\ UNCHANGED <<kd, inst, process, flags, acts>>

CheckNoSlot ==
    /\ Step("nr_zero")
    /\ Require(kd.own = "none")

\* wait_kdamond_started: three seconds for the state to read "on".
AwaitStarted ==
    /\ Step("started")
    /\ Require(kd.on)

----------------------------------------------------------------------------
(* DamonCleanup::cleanup and the other destructors *)

\* Mutant: cleanup does not ask its flags.
RemembersAll(flag) == TRUE
Remembers(flag) == flag \in flags

\* A release that is refused ends the cleanup; Drop ignores the error.
Released(flag, taken, slot, instances) ==
    /\ \/ ~Remembers(flag) /\ Proceed /\ Smooth
          /\ UNCHANGED <<kd, inst, flags, faults>>
       \/ Remembers(flag) /\ taken /\ flags' = flags \ {flag}
          /\ kd' = slot /\ inst' = instances
          /\ Proceed /\ Smooth /\ UNCHANGED faults
       \/ Remembers(flag) /\ (Fault \/ (~taken /\ UNCHANGED faults))
          /\ (IF unwinding THEN todo' = PastReleases /\ Smooth ELSE Fail)
          /\ UNCHANGED <<kd, inst, flags>>
    /\ UNCHANGED readers

Cleanup ==
    /\ \/ Step("rel_on") /\ Released("on", Takes("off"), SlotAfter("off"), inst)
       \/ Step("rel_slot")
          /\ Released("slot", Takes("release"), SlotAfter("release"), inst)
       \/ Step("rel_tracing") /\ Released("tracing", TRUE, kd, inst)
       \/ Step("rel_event") /\ Released("event", TRUE, kd, inst)
       \/ Step("rel_instance")
          /\ Released("instance", sess \notin readers, kd, inst \ {sess})
    /\ Untouched /\ UNCHANGED <<process, acts>>

\* A capture worker that is dropped leaves its thread behind, trace open.
DetachCapture ==
    /\ Step("detach")
    /\ Proceed /\ Smooth /\ Untouched
    /\ UNCHANGED <<kernel, process, flags, faults, acts>>

\* RegisteredChild::drop kills and reaps.
KillChild ==
    /\ Step("kill")
    /\ tgt' = IF child THEN "none" ELSE tgt
    /\ child' = FALSE
    /\ Proceed /\ Smooth
    /\ UNCHANGED <<kernel, files, progress, sess, flags, faults, acts>>

----------------------------------------------------------------------------
(* Looking at the target, gates and verdict *)

\* read_progress waits five seconds for the file and reads what is there.
ReadProgress ==
    /\ Step("progress")
    /\ Require(progress # "none")

JudgeStep == Step("judge") /\ Judge

\* A gate of the report: the harness goes on whether it passes or not.
Assess(gate, passes) ==
    /\ failed' = IF passes THEN failed ELSE failed \union {gate}
    /\ Proceed /\ Untouched
    /\ UNCHANGED <<kernel, process, flags, unwinding, errors, verdict, faults, acts>>

\* main takes the result of a scope.
CloseScope(step) ==
    /\ Step(step)
    /\ unwinding' = FALSE
    /\ Proceed /\ Untouched
    /\ UNCHANGED <<kernel, process, flags, report, faults, acts>>

\* The mandatory gates.  compare_host looks neither at DAMON nor at targets, and
\* the state directory and the capture threads go away with the process.
Conclude(removed) ==
    /\ Step("report")
    /\ verdict' = IF errors = {} /\ failed = {} THEN "pass" ELSE "fail"
    /\ files' = files \ removed /\ readers' = {} /\ Proceed /\ Untouched
    /\ UNCHANGED <<kd, inst, tgt, progress, flags, unwinding, errors, failed, faults, acts>>

Host ==
    \/ \E write \in Writes : WriteReadback(write)
    \/ NewGuard \/ MakeInstance \/ StartCapture \/ DrainCapture \/ CheckNoSlot
    \/ AwaitStarted \/ Cleanup \/ DetachCapture \/ KillChild \/ ReadProgress \/ JudgeStep

----------------------------------------------------------------------------
(* The world around the harness *)

\* A kdamond ends by itself once the process it watches is gone.
WatchGone == \/ kd.watch = "target" /\ tgt = "none"
             \/ kd.watch = "worker" /\ ~WorkerAlive

KernelStops ==
    /\ kd.on /\ kd.own = "nemor" /\ WatchGone
    /\ kd' = [kd EXCEPT !.on = FALSE]
    /\ UNCHANGED <<inst, readers, process, todo, sess, flags, child, unwinding,
                   report, faults, acts>>

\* Another user of DAMON takes the slot only if there is none.
Foreign ==
    /\ acts < MaxForeign /\ acts' = acts + 1
    /\ \/ kd.own = "none"
          /\ kd' \in [own : {"foreign"}, on : BOOLEAN, watch : {"other"}]
       \/ kd.own = "foreign" /\ ~kd.on
          /\ kd' \in {[kd EXCEPT !.on = TRUE], NoSlot}
       \/ kd.own = "foreign" /\ kd.on /\ kd' = [kd EXCEPT !.on = FALSE]
    /\ UNCHANGED <<inst, readers, process, todo, sess, flags, child, unwinding,
                   report, faults>>

HostTypeOK ==
    /\ kd \in Slots
    /\ inst \subseteq 1 .. sess /\ readers \subseteq 1 .. sess
    /\ tgt \in TargetStates /\ files \subseteq FileNames
    /\ progress \in {"none", "idle", "running", "final"}
    /\ sess \in Nat /\ flags \subseteq Flags
    /\ child \in BOOLEAN /\ unwinding \in BOOLEAN
    /\ errors \subseteq {"damon", "damos", "main"}
    /\ verdict \in {"none", "pass", "fail"}
    /\ faults \in 0 .. MaxFaults /\ acts \in 0 .. MaxForeign

(* A kdamond that another party runs is never stopped or taken away by     *)
(* Nemor: probes, sessions, guards and recovery act on the slot only while *)
(* they know it to be theirs.                                              *)
ForeignKept ==
    [][kd.own = "foreign" /\ kd.on /\ acts' = acts => kd' = kd]_host
============================================================================
