---------------------------- MODULE DamosReclaim ----------------------------
(***************************************************************************)
(* validate_damos: a shadow session that only counts, the decision and the *)
(* plan, a live session that pages out the COLD zone of one target, the    *)
(* controlled refault, and the end of the target.                          *)
(*                                                                         *)
(* The target is a worker of nemor-benchmark (external to this crate, used *)
(* through commands it removes when it reads them).  It is either a child  *)
(* of the harness or the process of another creator, handed over with a    *)
(* descriptor; it stops by itself after its runtime limit.                 *)
(*                                                                         *)
(* The kernel applies the scheme once per apply interval; the interval is  *)
(* the unit of Deadline, Ceiling and ResetTicks, and Quota is in units of  *)
(* bytes.  The harness may be stopped for any time between two steps.      *)
(***************************************************************************)
EXTENDS DamonHost

CONSTANTS
    Quota,        \* VALIDATION_BYTE_QUOTA
    Ceiling,      \* VALIDATION_MAX_NR_SNAPSHOTS
    Deadline,     \* VALIDATION_LIVE_DEADLINE_MS
    ResetTicks    \* VALIDATION_RESET_INTERVAL_MS

ASSUME QuotaAssumption == {Quota, Ceiling, Deadline, ResetTicks} \subseteq Nat \ {0}

VARIABLES
    kind,         \* is the target "internal" (a child) or "external"?
    refaulted,    \* target: did it touch COLD on command?
    sch,          \* kernel: the scheme of Nemor's kdamond
    applied,      \* history: units the live action paged out
    zones,        \* history: zones it paged out of
    stats,        \* harness: the statistics of the session, as read
    shadow        \* harness: has the shadow session passed its gate?

damos == <<kind, refaulted, sch, applied, zones, stats, shadow>>
vars == <<host, damos>>

Zones == {"hot", "warm", "cold"}
NoScheme ==
    [action |-> "none", quota |-> FALSE, fence |-> FALSE, ceiling |-> FALSE,
     shots |-> 0, spent |-> 0, tried |-> FALSE]
NoStats == [tried |-> FALSE, applied |-> 0]

----------------------------------------------------------------------------
(* The programs *)

SchemeSteps == <<"quota", "fence">>

\* Mutant: the action that probed the capability stays.
ShadowActionKept == <<"act_pageout">>

\* The capability probe: pageout, written back to stat before anything runs.
ShadowAction == <<"act_pageout", "act_stat">>

\* Mutant: the live session trusts its own deadline.
LiveSchemeNoCeiling == <<"act_pageout">> \o SchemeSteps

LiveScheme == <<"act_pageout">> \o SchemeSteps \o <<"ceiling">>

ShadowScheme == ShadowAction \o SchemeSteps

\* run_owned_damos_session.
SessionSteps(scheme) ==
    <<"identity", "guard", "mkdir", "clock", "event_on", "tracing_on", "capture",
      "slot", "configure">> \o scheme
    \o <<"on", "started", "monitor", "off", "drain">> \o Releases \o <<"cleaned">>

PreflightSteps == <<"capability", "nr_zero">>
AcquireSteps ==
    IF kind = "internal" THEN <<"spawn", "await">> ELSE <<"accept">>
ReadySteps == <<"identity", "judge", "start", "progress", "cold_gate", "bounds">>
DecideSteps == <<"shadow_gate", "decide", "judge", "progress">>
LiveEndSteps == <<"progress", "live_gates">>
EndSteps == <<"stop", "wait_exit", "cleanup_gate">>

DamosSteps ==
    PreflightSteps \o AcquireSteps \o ReadySteps \o SessionSteps(ShadowScheme)
        \o DecideSteps \o SessionSteps(LiveScheme) \o LiveEndSteps \o EndSteps

Init ==
    /\ kind \in {"internal", "external"}
    /\ IF kind = "internal" THEN tgt = "none" /\ files = {} /\ progress = "none"
       ELSE tgt = "waiting" /\ files = {"target"} /\ progress = "idle"
    /\ kd = NoSlot /\ inst = {} /\ readers = {}
    /\ sess = 0 /\ flags = {} /\ child = FALSE /\ unwinding = FALSE
    /\ errors = {} /\ failed = {} /\ verdict = "none" /\ faults = 0 /\ acts = 0
    /\ refaulted = FALSE /\ sch = NoScheme /\ applied = 0 /\ zones = {}
    /\ stats = NoStats /\ shadow = FALSE
    /\ todo = DamosSteps \o <<"close_damos", "report">>

\* A scheme is gone with its kdamond, and a new slot has none.
HostStep ==
    /\ Host
    /\ sch' = IF kd'.own = "nemor" /\ ~Step("slot") THEN sch ELSE NoScheme
    /\ UNCHANGED <<kind, refaulted, applied, zones, stats, shadow>>

----------------------------------------------------------------------------
(* Preflight and target *)

\* inspect_linux finds a running session of another party; or DAMON lacks, or
\* there is too little memory.
Capability ==
    /\ Step("capability")
    /\ IF kd.own = "foreign" /\ kd.on THEN Require(FALSE) ELSE Judge
    /\ UNCHANGED damos

\* spawn_reusable_damos_target up to the spawn.
Spawn ==
    /\ Step("spawn")
    /\ \/ tgt' = "booting" /\ Proceed /\ Smooth /\ UNCHANGED faults
       \/ Fault /\ Fail /\ UNCHANGED tgt
    /\ Untouched /\ UNCHANGED <<kernel, files, progress, flags, acts, damos>>

\* Five seconds for the descriptor; what fails after that, up to the
\* RegisteredChild, leaves the child to its own runtime limit.
Await ==
    /\ Step("await")
    /\ \/ "target" \in files /\ child' = TRUE /\ Proceed /\ Smooth /\ UNCHANGED <<tgt, faults>>
       \/ "target" \in files /\ Fault /\ Fail /\ UNCHANGED <<tgt, child>>
       \/ "target" \notin files /\ tgt' = "none" /\ Fail /\ UNCHANGED <<child, faults>>
    /\ UNCHANGED <<kernel, files, progress, sess, flags, acts, damos>>

\* Mutant: an external target is registered like a child.
AcceptAsChild ==
    /\ Step("accept") /\ tgt # "none"
    /\ child' = TRUE /\ files' = files \union {"metadata"}
    /\ Proceed /\ Smooth
    /\ UNCHANGED <<kernel, tgt, progress, sess, flags, faults, acts, damos>>

\* The external descriptor: validated against its live owner, consumed once.
Accept ==
    /\ Step("accept")
    /\ \/ tgt # "none" /\ files' = files \union {"metadata"}
          /\ Proceed /\ Smooth /\ UNCHANGED faults
       \/ tgt = "none" /\ Fail /\ UNCHANGED <<files, faults>>
       \/ Fault /\ Fail /\ UNCHANGED files
    /\ Untouched /\ UNCHANGED <<kernel, tgt, progress, flags, acts, damos>>

\* The process with the recorded start ticks is still there.
Identity ==
    /\ Step("identity")
    /\ Require(tgt # "none")
    /\ UNCHANGED damos

\* signal_damos_target writes a command file.
Signal ==
    /\ \E name \in SignalFiles : Step(name) /\ files' = files \union {name}
    /\ Proceed /\ Smooth /\ Untouched
    /\ UNCHANGED <<kernel, tgt, progress, flags, faults, acts, damos>>

ColdGate ==
    /\ Step("cold_gate")
    /\ Assess("cold", ~refaulted)
    /\ UNCHANGED damos

\* validate_attempt2_bounds.
Bounds ==
    /\ Step("bounds")
    /\ Require(Deadline < ResetTicks /\ Ceiling <= Deadline)
    /\ UNCHANGED damos

----------------------------------------------------------------------------
(* A session: the scheme and its statistics *)

SchemeAfter(write) ==
    CASE write = "act_stat" -> [sch EXCEPT !.action = "stat"]
      [] write = "act_pageout" -> [sch EXCEPT !.action = "pageout"]
      [] write = "quota" -> [sch EXCEPT !.quota = TRUE]
      [] write = "fence" -> [sch EXCEPT !.fence = TRUE]
      [] write = "ceiling" -> [sch EXCEPT !.ceiling = TRUE]

WriteScheme ==
    /\ \E write \in {"act_stat", "act_pageout", "quota", "fence", "ceiling"} :
        /\ Step(write)
        /\ \/ sch' = SchemeAfter(write) /\ Proceed /\ Smooth /\ UNCHANGED faults
           \/ Fault /\ sch' \in {sch, SchemeAfter(write)} /\ Fail
    /\ Untouched
    /\ UNCHANGED <<kernel, process, flags, acts>>
    /\ UNCHANGED <<kind, refaulted, applied, zones, stats, shadow>>

\* The window, with its writes to the state file, which only a running kdamond
\* takes, and the statistics that are read at its end.
Monitor ==
    /\ Step("monitor")
    /\ Require(kd.on)
    /\ stats' = [tried |-> sch.tried,
                 applied |-> IF sch.action = "pageout" THEN applied ELSE 0]
    /\ UNCHANGED <<kind, refaulted, sch, applied, zones, shadow>>

Cleaned ==
    /\ Step("cleaned")
    /\ Assess("cleaned", kd.own = "none")
    /\ UNCHANGED damos

----------------------------------------------------------------------------
(* Shadow gate, decision, live gates, refault *)

\* A shadow session that tried nothing, or whose evidence is not good, ends it.
ShadowGate ==
    /\ Step("shadow_gate")
    /\ IF stats.tried THEN Judge ELSE Require(FALSE)
    /\ shadow' = ~unwinding'
    /\ UNCHANGED <<kind, refaulted, sch, applied, zones, stats>>

Decide ==
    /\ Step("decide")
    /\ \/ files' = files \union {"decision"} /\ Proceed /\ Smooth /\ UNCHANGED faults
       \/ Fault /\ Fail /\ UNCHANGED files
    /\ Untouched /\ UNCHANGED <<kernel, tgt, progress, flags, acts, damos>>

\* Mutant: what was tried counts as applied.
SuccessfulIfTried == stats.tried

\* Bytes were applied and the residency of COLD shows it.
Successful == stats.applied > 0 /\ "cold" \in zones

\* The live gates; only a successful reclaim leads to the refault.
LiveGates ==
    /\ Step("live_gates")
    /\ \E good \in BOOLEAN :
          failed' = failed
              \union (IF good /\ stats.applied <= Quota /\ zones \subseteq {"cold"}
                      THEN {} ELSE {"live"})
              \union (IF Successful THEN {} ELSE {"refault"})
    /\ todo' = (IF Successful THEN <<"refault", "await_refault">> ELSE <<>>) \o Tail(todo)
    /\ Untouched
    /\ UNCHANGED <<kernel, process, flags, unwinding, errors, verdict, faults, acts, damos>>

\* Five seconds for the target to acknowledge.
AwaitRefault ==
    /\ Step("await_refault")
    /\ Require(refaulted)
    /\ UNCHANGED damos

\* DamosTarget::wait_for_exit.
WaitExit ==
    /\ Step("wait_exit")
    /\ \/ kind = "internal" /\ tgt' = "none" /\ child' = FALSE /\ Proceed /\ Smooth
       \/ kind = "external" /\ UNCHANGED <<tgt, child>>
          /\ IF progress = "final" THEN Proceed /\ Smooth ELSE Fail
    /\ UNCHANGED <<kernel, files, progress, sess, flags, faults, acts, damos>>

CleanupGate ==
    /\ Step("cleanup_gate")
    /\ Assess("cleanup", kd.own = "none" /\ inst = {})
    /\ UNCHANGED damos

Close == CloseScope("close_damos") /\ UNCHANGED damos

\* The transaction directory of an external target is its creator's.
Report ==
    /\ Conclude(IF kind = "internal" THEN files ELSE {"decision"})
    /\ UNCHANGED damos

----------------------------------------------------------------------------
(* Kernel and target *)

\* What the quota leaves; beyond Quota + 1 applied amounts are not told apart.
Room == IF sch.quota THEN Quota - sch.spent ELSE Quota + 1
Capped(n) == IF n > Quota THEN Quota + 1 ELSE n

\* One apply interval.  The quota window begins when the kdamond does.
Apply ==
    /\ kd.on /\ kd.own = "nemor" /\ Running /\ sch.action # "none"
    /\ sch.ceiling => sch.shots < Ceiling
    /\ \E tried \in BOOLEAN, n \in 0 .. Room, zone \in Zones :
        /\ n > 0 => tried
        /\ sch.fence => zone = "cold"
        /\ LET shots == IF sch.ceiling THEN sch.shots + 1 ELSE (sch.shots + 1) % ResetTicks
               charged == Capped(sch.spent + n)
           IN sch' = [sch EXCEPT !.shots = shots, !.tried = @ \/ tried,
                                 !.spent = IF shots % ResetTicks = 0 THEN 0 ELSE charged]
        /\ IF sch.action = "pageout" /\ n > 0
           THEN applied' = Capped(applied + n) /\ zones' = zones \union {zone}
           ELSE UNCHANGED <<applied, zones>>
    /\ UNCHANGED <<host, kind, refaulted, stats, shadow>>

TargetOnly ==
    /\ UNCHANGED <<kernel, todo, sess, flags, child, unwinding, report, acts>>
    /\ UNCHANGED <<kind, sch, applied, zones, stats, shadow>>

Command(name) == name \in files /\ files' = files \ {name}

\* run_target_worker: progress, then the descriptor, then commands.
Target ==
    /\ \/ tgt = "booting" /\ tgt' = "ready" /\ progress' = "idle"
          /\ UNCHANGED <<files, refaulted>>
       \/ tgt = "ready" /\ tgt' = "waiting" /\ files' = files \union {"target"}
          /\ UNCHANGED <<progress, refaulted>>
       \/ tgt = "waiting" /\ Command("start") /\ tgt' = "active" /\ progress' = "running"
          /\ UNCHANGED refaulted
       \/ tgt = "active" /\ Command("refault") /\ refaulted' = TRUE
          /\ UNCHANGED <<tgt, progress>>
       \/ tgt \in {"waiting", "active"} /\ Command("stop") /\ tgt' = "stopped"
          /\ UNCHANGED <<progress, refaulted>>
       \/ tgt = "stopped" /\ tgt' = "exited" /\ progress' = "final"
          /\ UNCHANGED <<files, refaulted>>
    /\ TargetOnly /\ UNCHANGED faults

\* Mutant: the target has no runtime limit.
TargetWaits ==
    /\ \/ tgt = "stopped" /\ tgt' = "exited" /\ progress' = "final"
       \/ tgt = "exited" /\ (kind = "external" \/ verdict # "none") /\ tgt' = "none"
          /\ UNCHANGED progress
    /\ TargetOnly /\ UNCHANGED <<files, refaulted, faults>>

\* Its runtime limit, and whoever reaps a process that is not a child any more.
TargetEnds ==
    /\ \/ tgt \in {"waiting", "active"} /\ tgt' = "stopped" /\ UNCHANGED progress
       \/ tgt = "stopped" /\ tgt' = "exited" /\ progress' = "final"
       \/ tgt = "exited" /\ (kind = "external" \/ verdict # "none") /\ tgt' = "none"
          /\ UNCHANGED progress
    /\ TargetOnly /\ UNCHANGED <<files, refaulted, faults>>

TargetDies ==
    /\ Running /\ tgt' = "exited" /\ Fault
    /\ TargetOnly /\ UNCHANGED <<files, progress, refaulted>>

----------------------------------------------------------------------------

Harness ==
    \/ HostStep \/ Capability \/ Spawn \/ Await \/ Accept \/ Identity \/ Signal
    \/ ColdGate \/ Bounds \/ WriteScheme \/ Monitor \/ Cleaned \/ ShadowGate \/ Decide
    \/ LiveGates \/ AwaitRefault \/ WaitExit \/ CleanupGate \/ Close \/ Report

Stops == KernelStops /\ UNCHANGED damos

World == Stops \/ (Foreign /\ UNCHANGED damos) \/ Apply \/ Target \/ TargetEnds \/ TargetDies

Next == Harness \/ World

\* Every wait of the harness is bounded, the kernel notices that a target is
\* gone, and the target worker has a runtime limit.
Spec ==
    Init /\ [][Next]_vars /\ WF_vars(Harness) /\ WF_vars(Stops) /\ WF_vars(TargetEnds)

----------------------------------------------------------------------------

(* Every variable has its type; the scheme spends no more than its quota    *)
(* and one region.                                                          *)
TypeOK ==
    /\ HostTypeOK
    /\ kind \in {"internal", "external"} /\ refaulted \in BOOLEAN /\ shadow \in BOOLEAN
    /\ sch \in [action : {"none", "stat", "pageout"}, quota : BOOLEAN, fence : BOOLEAN,
                ceiling : BOOLEAN, shots : 0 .. Ceiling + ResetTicks, spent : 0 .. Quota + 1,
                tried : BOOLEAN]
    /\ applied \in 0 .. Quota + 1 /\ zones \subseteq Zones
    /\ stats \in [tried : BOOLEAN, applied : 0 .. Quota + 1]

(* However long the harness is held up, and also when it fails and cannot  *)
(* switch its kdamond off, no more than the byte quota is paged out: the   *)
(* snapshot ceiling ends the live scheme before its quota is renewed.  All *)
(* of it comes from the COLD zone, which the address filter fences.        *)
PageoutBounded == applied <= Quota /\ zones \subseteq {"cold"}

(* A scheme that pages out runs only after the shadow session passed and   *)
(* the decision was recorded; the capability probe never runs.             *)
PageoutAudited ==
    verdict = "none" /\ kd.own = "nemor" /\ kd.on /\ sch.action = "pageout" =>
        shadow /\ "decision" \in files

(* The harness never kills or reaps a target that another party created:   *)
(* such a process goes only after it has exited.                           *)
ExternalSpared ==
    [][kind = "external" /\ Running => tgt' # "none"]_vars

(* A pass means that pages were paged out, that the target brought them    *)
(* back on command and that nothing of Nemor is left in the kernel.        *)
PassEarned ==
    verdict = "pass" =>
        /\ applied > 0 /\ refaulted /\ shadow
        /\ inst = {} /\ kd.own # "nemor" /\ (kind = "internal" => tgt = "none")

(* No kdamond of Nemor runs for ever, also when the harness failed to      *)
(* switch it off and the target is not its own.                            *)
NoRunaway == <>[](~(kd.own = "nemor" /\ kd.on))
=============================================================================
