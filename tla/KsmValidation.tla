--------------------------- MODULE KsmValidation ---------------------------
(***************************************************************************)
(* The live KSM validation of Nemor: validate_ksm and its drop guard in    *)
(* nemor-privileged-validation, the cooperating children that run          *)
(* ksm_target_worker, and the controller and protocol of crates/ksm.       *)
(*                                                                         *)
(* Harness and children share nothing but files of the state directory,    *)
(* which they poll.  fs::write is not atomic: a file exists before it has  *)
(* its content, and a reader that comes in between reads nothing ("torn"). *)
(* Other parties may write ksm/run and the scanner's settings, or start to *)
(* use KSM themselves, at any time; a child may die at any time.           *)
(*                                                                         *)
(* Data abstraction.  The scanner's settings, its advisor and the values   *)
(* that are only preserved are one value, which is either as found or      *)
(* changed.  Byte counts, profits and CPU shares are the verdicts the code *)
(* derives from them.  Smaps and ksm_stat say what the process has done.   *)
(* A failure already decides the verdict, so the evidence and the checks   *)
(* are only kept as long as there is none.                                 *)
(***************************************************************************)
EXTENDS Integers, FiniteSets

CONSTANTS
    N,            \* children of a validation (two in the code)
    Scenarios,    \* the scenarios to explore
    MaxForeign,   \* bound: acts of other parties
    MaxDeaths,    \* bound: children that die on their own
    MaxRefusals   \* bound: writes to ksm/run that are refused

ASSUME CountAssumption == N \in Nat \ {0}
ASSUME ScenariosAssumption == Scenarios \subseteq {"positive", "inefficient"}
ASSUME BoundsAssumption ==
    MaxForeign \in Nat /\ MaxDeaths \in Nat /\ MaxRefusals \in Nat

VARIABLES
    run,          \* kernel: ksm/run
    writer,       \* who wrote it last
    settings,     \* kernel: the scanner's other settings
    external,     \* does another process use KSM?
    scans,        \* kernel: full scans of this session, up to 2
    child,        \* where each child stands in ksm_target_worker
    mergeable,    \* the children whose range is registered with KSM
    files,        \* files that exist, as <<kind, child or 0>>
    torn,         \* those whose content is not written yet
    pc,           \* the next step of the harness
    cur,          \* the child its loop is at
    guard,        \* KsmValidationGuard.scanner_started
    protocol,     \* ValidationProtocol.state
    controller,   \* ControllerState
    eval,         \* the scenario, and the evidence of the evaluation loop
    passed,       \* checks whose latest outcome is a pass
    failure,      \* evaluation_failure, or the error returned
    verdict,      \* the outcome of the whole run
    expired,      \* has the evaluation window passed?
    seen,         \* history: interference the monitoring came across
    refused,      \* history: refused writes to ksm/run, by step
    acts, deaths  \* acts and deaths so far

kernel == <<run, writer, settings, external, scans>>
children == <<child, mergeable>>
dir == <<files, torn>>
harness ==
    <<pc, cur, guard, protocol, controller, eval, passed, failure, verdict>>
history == <<expired, seen, refused, acts, deaths>>
vars == <<kernel, children, dir, harness, history>>

Children == 1 .. N
None == "none"

FileKinds ==
    {"target", "opt_in", "opted", "unmerge", "unmerged", "check", "checked"}
Files == FileKinds \X Children \union {<<"decision", 0>>, <<"stop", 0>>}
Stop == <<"stop", 0>>
Decision == <<"decision", 0>>

Written(f) == f \in files \ torn

WorkerStates ==
    {"absent", "booting", "publishing", "waiting", "advised", "serving",
     "unmerged", "checking", "done", "exited"}

ProtocolStates ==
    {"ReadyUnmergeable", "Audited", "DuplicateMergeable", "ScannerRunning",
     "ScannerStopped", "Unmerged"}
ControllerStates ==
    {"Unknown", "Evaluating", "Profitable", "Inefficient", "Cooldown"}

Gates ==
    {"scanner_ownership_preserved", "scanner_progress", "gain", "cpu_budget",
     "inefficiency", "auto_disable", "cooldown", "scanner_stopped",
     "owned_content_intact", "cleanup", "configuration_restored"}

Required(scenario) ==
    Gates \ (IF scenario = "positive"
             THEN {"inefficiency", "auto_disable", "cooldown"}
             ELSE {"gain"})

Interference == {"scanner_ownership_lost", "external_ksm_interference"}
Failures ==
    {None, "error", "refused", "cpu_budget_exceeded", "unexpected_positive_gain",
     "not_profitable", "cleanup_failure", "content_integrity_failure"}
    \union Interference

\* Steps of validate_ksm before the guard exists, while it exists, and the
\* steps of its Drop and of main after it.
Unguarded == {"baseline", "isolation"}
Guarded ==
    {"spawn", "ready", "recheck", "audit", "opt_in", "opt_fill", "opt_wait",
     "scope", "prerun", "start", "readback", "evaluate", "stop_read", "stop",
     "stop_check", "settle", "headroom", "unmerge", "unmerge_wait", "unmerge_scope",
     "check", "check_wait", "stop_file", "join", "restored"}
Ending ==
    {"halt", "drop", "drop_stop", "drop_wait", "cleanup", "final", "done"}

NoEval(scenario) ==
    [scenario |-> scenario, gained |-> FALSE, peak |-> 0, resolved |-> FALSE,
     auto_disable |-> FALSE, run_before |-> 0]

Init ==
    /\ run \in 0 .. 2 /\ writer = "other"
    /\ settings = "found" /\ external \in BOOLEAN /\ scans = 0
    /\ child = [c \in Children |-> "absent"] /\ mergeable = {}
    /\ files = {} /\ torn = {}
    /\ pc = "baseline" /\ cur = 1 /\ guard = FALSE
    /\ protocol = "ReadyUnmergeable" /\ controller = "Unknown"
    /\ eval \in {NoEval(s) : s \in Scenarios}
    /\ passed = {} /\ failure = None /\ verdict = None
    /\ expired = FALSE /\ seen = {} /\ refused = {}
    /\ acts = 0 /\ deaths = 0

----------------------------------------------------------------------------
(* Steps of the harness *)

Goto(step) == pc' = step /\ cur' = 1

\* Go on with the next child at step again, or to step next after the last.
NextChild(again, next) ==
    IF cur < N THEN pc' = again /\ cur' = cur + 1 ELSE Goto(next)

\* From now on the verdict is a failure.
Fail(reason) == failure' = reason /\ passed' = {} /\ eval' = NoEval(eval.scenario)
NoFailure == UNCHANGED <<failure, passed, eval>>

\* validate_ksm returns an error: once the guard exists it is dropped.
FailWith(reason) ==
    /\ Fail(reason)
    /\ Goto(IF pc \in Unguarded THEN "cleanup" ELSE "drop")

Keep == UNCHANGED <<guard, protocol, controller, verdict>>
World == UNCHANGED <<kernel, children, history>>

\* A check that is not passed is an early return of the code with this reason.
Expect(condition, reason, next) ==
    /\ IF condition THEN Goto(next) /\ NoFailure ELSE FailWith(reason)
    /\ Keep /\ World /\ UNCHANGED dir

Alive(c) == child[c] \notin {"absent", "exited"}

\* observe_owned_ksm_processes succeeds for identities that are still there.
AllAlive == \A c \in Children : Alive(c)

\* inspect_external_ksm_processes_owned with the own children excluded.
Isolated == ~external

ReadBaseline ==
    /\ pc = "baseline"
    /\ Expect(run = 0, "refused", "isolation")

InspectBaseline ==
    /\ pc = "isolation"
    /\ Expect(Isolated, "refused", "spawn")

Spawn ==
    /\ pc = "spawn"
    /\ child' = [child EXCEPT ![cur] = "booting"]
    /\ NextChild("spawn", "ready")
    /\ Keep /\ NoFailure /\ UNCHANGED <<kernel, mergeable, dir, history>>

\* A child is ready when its metadata can be read and its ranges are intact.
AwaitReady ==
    /\ pc = "ready" /\ <<"target", cur>> \in files
    /\ IF Written(<<"target", cur>>) /\ Alive(cur) /\ cur \notin mergeable
       THEN NextChild("ready", "recheck") /\ NoFailure
       ELSE FailWith("error")
    /\ Keep /\ World /\ UNCHANGED dir

RecheckIsolation ==
    /\ pc = "recheck"
    /\ Expect(Isolated /\ AllAlive /\ mergeable = {}, "refused", "audit")

\* Mutant: the audit is only recorded in memory.
RecordAuditInMemory ==
    /\ pc = "audit" /\ protocol = "ReadyUnmergeable"
    /\ protocol' = "Audited"
    /\ Goto("opt_in")
    /\ World /\ NoFailure /\ UNCHANGED <<dir, guard, controller, verdict>>

RecordAudit ==
    /\ pc = "audit" /\ protocol = "ReadyUnmergeable"
    /\ files' = files \union {Decision} /\ UNCHANGED torn
    /\ protocol' = "Audited"
    /\ Goto("opt_in")
    /\ World /\ NoFailure /\ UNCHANGED <<guard, controller, verdict>>

\* fs::write of the opt-in file, in its two halves.
OpenOptIn ==
    /\ pc = "opt_in"
    /\ files' = files \union {<<"opt_in", cur>>}
    /\ torn' = torn \union {<<"opt_in", cur>>}
    /\ pc' = "opt_fill"
    /\ Keep /\ World /\ NoFailure /\ UNCHANGED cur

FillOptIn ==
    /\ pc = "opt_fill"
    /\ torn' = torn \ {<<"opt_in", cur>>}
    /\ pc' = "opt_wait"
    /\ Keep /\ World /\ NoFailure /\ UNCHANGED <<files, cur>>

AwaitOptIn ==
    /\ pc = "opt_wait" /\ <<"opted", cur>> \in files
    /\ NextChild("opt_in", "scope")
    /\ Keep /\ World /\ NoFailure /\ UNCHANGED dir

\* opt_in_duplicate, then ksm_stat and smaps of both children.
VerifyScope ==
    /\ pc = "scope" /\ protocol = "Audited"
    /\ protocol' = "DuplicateMergeable"
    /\ IF AllAlive /\ mergeable = Children
       THEN Goto("prerun") /\ NoFailure ELSE FailWith("error")
    /\ World /\ UNCHANGED <<dir, guard, controller, verdict>>

InspectBeforeRun ==
    /\ pc = "prerun"
    /\ Expect(Isolated, "external_ksm_interference", "start")

WriteRun(value) ==
    /\ run' = value /\ writer' = "nemor"
    /\ UNCHANGED <<settings, external, scans, children, dir, history>>

\* A write to ksm/run that fails; the kernel keeps the old value.
RefuseRun ==
    /\ Cardinality(refused) < MaxRefusals
    /\ refused' = refused \union {pc}
    /\ UNCHANGED <<kernel, children, dir, expired, seen, acts, deaths>>

StartScanner ==
    /\ pc = "start" /\ protocol = "DuplicateMergeable"
    /\ WriteRun(1)
    /\ guard' = TRUE
    /\ protocol' = "ScannerRunning"
    /\ Goto("readback")
    /\ NoFailure /\ UNCHANGED <<controller, verdict>>

StartRefused ==
    /\ pc = "start"
    /\ RefuseRun /\ FailWith("error") /\ Keep

\* The start is read back; without ksmd accounting the scanner is halted too.
ReadBack(accounting) ==
    /\ pc = "readback"
    /\ IF run = 1 /\ accounting
       THEN Goto("evaluate") /\ controller' = "Evaluating" /\ NoFailure
       ELSE /\ Goto("halt") /\ UNCHANGED controller
            /\ Fail(IF run = 1 THEN "error" ELSE "scanner_ownership_lost")
    /\ World /\ UNCHANGED <<dir, guard, protocol, verdict>>

----------------------------------------------------------------------------
(* The evaluation loop *)

controller_transition(state, profit, cooldown) ==
    CASE cooldown -> "Cooldown"
      [] ~cooldown /\ state = "Unknown" -> "Evaluating"
      [] ~cooldown /\ state = "Evaluating" /\ (profit = "young" \/ scans = 0) ->
            "Evaluating"
      [] ~cooldown /\ state = "Evaluating" /\ profit = "inefficient" /\ scans > 0 ->
            "Inefficient"
      [] ~cooldown /\ state = "Evaluating" /\ profit = "profitable" /\ scans > 0 ->
            "Profitable"
      [] OTHER -> state

\* attempt_one_global_state_owned
Owned == run = 1 /\ settings = "found"

\* What one turn of the loop measures beside the kernel's state: the CPU share
\* over a window that may still be too coarse, whether the other processes
\* could be inspected, whether the gain suffices, what the evaluation tells the
\* controller, and what the children's own counters say.
Measurements ==
    [cpu : {"coarse", "within", "over"}, inspected : BOOLEAN, gain : BOOLEAN,
     profit : {"young", "inefficient", "profitable"},
     owned : {"unseen", "inefficient", "gainful"}]

\* Interference the turn comes across; processes are only inspected while the
\* scanner is still as the harness left it.
Found(m) ==
    CASE ~Owned -> "scanner_ownership_lost"
      [] Owned /\ ~(m.inspected /\ Isolated) -> "external_ksm_interference"
      [] OTHER -> None

\* Mutant: the turn only looks at the scanner, not at other processes.
TurnFailureScannerOnly(m) ==
    CASE m.cpu = "over" -> "cpu_budget_exceeded"
      [] m.cpu # "over" /\ ~Owned -> "scanner_ownership_lost"
      [] OTHER -> None

\* The failure of a turn: the CPU budget is judged last and replaces what came
\* before it.
TurnFailure(m) == IF m.cpu = "over" THEN "cpu_budget_exceeded" ELSE Found(m)

\* In the inefficient scenario the controller is consulted after two scans.
Consulted(m) ==
    /\ eval.scenario = "inefficient"
    /\ scans >= 2 /\ m.cpu # "coarse" /\ m.owned # "unseen"

\* Leave the loop with a failure, or without one and with the evidence.
BreakFailed(reason) == Fail(reason) /\ Goto("stop_read")

Break(m, disabled) ==
    /\ eval' = [eval EXCEPT !.gained = m.gain, !.peak = scans,
                            !.resolved = m.cpu # "coarse", !.auto_disable = disabled]
    /\ Goto("stop_read")
    /\ UNCHANGED <<failure, passed>>

\* One turn of the evaluation loop.
Evaluate(m) ==
    /\ pc = "evaluate" /\ AllAlive
    /\ m.gain => scans > 0
    /\ seen' = seen \union ({Found(m)} \ {None})
    /\ LET next == IF Consulted(m) /\ TurnFailure(m) = None
                   THEN controller_transition(controller, m.profit, FALSE)
                   ELSE controller
       IN /\ controller' = next
          /\ CASE TurnFailure(m) # None -> BreakFailed(TurnFailure(m))
               [] TurnFailure(m) = None /\ eval.scenario = "positive"
                    /\ m.gain /\ m.cpu # "coarse" -> Break(m, FALSE)
               [] TurnFailure(m) = None /\ Consulted(m) /\ next = "Inefficient"
                    /\ m.owned = "inefficient" -> Break(m, TRUE)
               [] TurnFailure(m) = None /\ Consulted(m)
                    /\ (next = "Profitable" \/ m.owned = "gainful") ->
                       BreakFailed("unexpected_positive_gain")
               [] OTHER -> IF expired THEN BreakFailed("not_profitable")
                           ELSE NoFailure /\ UNCHANGED <<pc, cur>>
    /\ UNCHANGED <<kernel, children, dir, guard, protocol, verdict, expired,
                   refused, acts, deaths>>

----------------------------------------------------------------------------
(* Stopping, unmerging and checking the children *)

ReadRunBeforeStop ==
    /\ pc = "stop_read"
    /\ eval' = IF failure = None THEN [eval EXCEPT !.run_before = run] ELSE eval
    /\ Goto("stop")
    /\ World /\ UNCHANGED <<dir, guard, protocol, controller, passed, failure, verdict>>

\* stop_owned_ksm_scanner: the write, then the flag of the guard.  After an
\* early failure ("halt") its result is ignored.
StopScanner ==
    /\ pc \in {"stop", "halt"}
    /\ WriteRun(0)
    /\ guard' = FALSE
    /\ Goto(IF pc = "stop" THEN "stop_check" ELSE "drop")
    /\ NoFailure /\ UNCHANGED <<protocol, controller, verdict>>

\* Mutant: the guard's flag is cleared before the write.
StopRefusedForgotten ==
    /\ pc \in {"stop", "halt"}
    /\ RefuseRun
    /\ IF pc = "stop" THEN Fail("error") ELSE NoFailure
    /\ guard' = FALSE
    /\ Goto("drop")
    /\ UNCHANGED <<protocol, controller, verdict>>

StopRefused ==
    /\ pc \in {"stop", "halt"}
    /\ RefuseRun
    /\ IF pc = "stop" THEN Fail("error") ELSE NoFailure
    /\ Goto("drop")
    /\ Keep

\* A scanner that is still on replaces whatever went wrong before.  The checks
\* that follow from the evaluation.
CheckStop ==
    /\ pc = "stop_check"
    /\ protocol' = "ScannerStopped"
    /\ IF run # 0 THEN Fail("cleanup_failure")
       ELSE /\ passed' = {g \in Gates : failure = None /\
                    CASE g = "scanner_stopped" -> TRUE
                      [] g = "scanner_ownership_preserved" -> TRUE
                      [] g = "scanner_progress" -> eval.peak > 0
                      [] g = "gain" -> eval.gained
                      [] g = "inefficiency" -> controller = "Inefficient"
                                               /\ eval.peak >= 2 /\ eval.resolved
                      [] g = "auto_disable" -> eval.auto_disable /\ eval.run_before = 1
                      [] OTHER -> FALSE}
            /\ UNCHANGED <<failure, eval>>
    /\ Goto("settle")
    /\ World /\ UNCHANGED <<dir, guard, controller, verdict>>

\* Final accounting; an inefficient plan enters its cooldown, in which
\* evaluate_eligibility rejects it.
Settle(within) ==
    /\ pc = "settle" /\ AllAlive
    /\ LET cooled == eval.scenario = "inefficient" /\ eval.auto_disable
       IN /\ passed' = passed \union {g \in {"cpu_budget", "cooldown"} :
                \/ g = "cpu_budget" /\ eval.resolved /\ within
                \/ g = "cooldown" /\ cooled}
          /\ controller' = IF cooled
                           THEN controller_transition(controller, "inefficient", TRUE)
                           ELSE controller
    /\ Goto("headroom")
    /\ World /\ UNCHANGED <<dir, guard, protocol, eval, failure, verdict>>

\* choose_unmerge_disposition: without headroom the children just end.
ChooseUnmerge(enough) ==
    /\ pc = "headroom"
    /\ Goto(IF enough THEN "unmerge" ELSE "check")
    /\ Keep /\ World /\ NoFailure /\ UNCHANGED dir

Request(kind, step, wait) ==
    /\ pc = step
    /\ files' = files \union {<<kind, cur>>}
    /\ pc' = wait
    /\ Keep /\ World /\ NoFailure /\ UNCHANGED <<torn, cur>>

RequestUnmerge == Request("unmerge", "unmerge", "unmerge_wait")

AwaitUnmerge ==
    /\ pc = "unmerge_wait" /\ <<"unmerged", cur>> \in files
    /\ NextChild("unmerge", "unmerge_scope")
    /\ Keep /\ World /\ NoFailure /\ UNCHANGED dir

VerifyUnmerge ==
    /\ pc = "unmerge_scope"
    /\ protocol' = "Unmerged"
    /\ IF AllAlive /\ mergeable = {}
       THEN Goto("check") /\ NoFailure ELSE FailWith("cleanup_failure")
    /\ World /\ UNCHANGED <<dir, guard, controller, verdict>>

RequestCheck == Request("check", "check", "check_wait")

\* The fingerprints of the child are compared with those it started with; the
\* check is passed when all are intact.  A mismatch does not hide an earlier
\* failure.
AwaitCheck(intact) ==
    /\ pc = "check_wait" /\ <<"checked", cur>> \in files
    /\ CASE ~Written(<<"checked", cur>>) -> FailWith("error")
         [] Written(<<"checked", cur>>) /\ failure = None /\ ~intact ->
                Fail("content_integrity_failure") /\ NextChild("check", "stop_file")
         [] OTHER ->
                /\ NextChild("check", "stop_file")
                /\ passed' = passed \union {g \in {"owned_content_intact"} :
                                                failure = None /\ cur = N}
                /\ UNCHANGED <<failure, eval>>
    /\ World /\ UNCHANGED <<dir, guard, protocol, controller, verdict>>

WriteStop(step, next) ==
    /\ pc = step
    /\ files' = files \union {Stop} /\ UNCHANGED torn
    /\ Goto(next)
    /\ Keep /\ World /\ NoFailure

WriteStopFile == WriteStop("stop_file", "join")

\* Child::wait
Join(step, next) ==
    /\ pc = step /\ ~Alive(cur)
    /\ NextChild(step, next)
    /\ Keep /\ World /\ NoFailure /\ UNCHANGED dir

JoinChild == Join("join", "restored")

\* The snapshot at the end equals the baseline; main takes it again after the
\* guard is gone.
Restored(checks) ==
    IF run = 0 /\ settings = "found" /\ failure = None
    THEN checks \union {"configuration_restored"}
    ELSE checks \ {"configuration_restored"}

ValidationEnds ==
    /\ pc = "restored"
    /\ passed' = Restored(passed)
    /\ Goto("drop")
    /\ Keep /\ World /\ UNCHANGED <<dir, failure, eval>>

\* Any other early return: KSM cannot be used or its settings are unsuitable,
\* there is no headroom, a read fails, a file does not appear in time, a child
\* is gone or unreadable, the deadline has passed.
Abort ==
    /\ pc \in Unguarded \union Guarded
    /\ FailWith("error")
    /\ Keep /\ World /\ UNCHANGED dir

----------------------------------------------------------------------------
(* KsmValidationGuard::drop, and main after it *)

DropScanner ==
    /\ pc = "drop" /\ guard
    /\ WriteRun(0)
    /\ Goto("drop_stop")
    /\ Keep /\ NoFailure

\* The write of the guard is refused, which nobody notices.
DropRefused ==
    /\ pc = "drop" /\ guard
    /\ RefuseRun /\ Goto("drop_stop")
    /\ Keep /\ NoFailure

DropIdle ==
    /\ pc = "drop" /\ ~guard
    /\ Goto("drop_stop")
    /\ Keep /\ World /\ NoFailure /\ UNCHANGED dir

DropStopFile == WriteStop("drop_stop", "drop_wait")

DropJoin == Join("drop_wait", "cleanup")

CheckCleanup ==
    /\ pc = "cleanup"
    /\ passed' = passed \union {g \in {"cleanup"} :
                    failure = None /\ \A c \in Children : ~Alive(c)}
    /\ Goto("final")
    /\ Keep /\ World /\ UNCHANGED <<dir, failure, eval>>

\* The snapshot of main, finalize_ksm_outcome, and the removal of the directory.
Finalize ==
    /\ pc = "final"
    /\ passed' = Restored(passed)
    /\ verdict' = IF Required(eval.scenario) \subseteq passed' /\ failure = None
                  THEN "pass" ELSE "fail"
    /\ files' = {} /\ torn' = {}
    /\ Goto("done")
    /\ World /\ UNCHANGED <<guard, protocol, controller, eval, failure>>

----------------------------------------------------------------------------
(* ksm_target_worker *)

Move(c, from, to) == child[c] = from /\ child' = [child EXCEPT ![c] = to]

Rest == UNCHANGED <<kernel, harness, history>>

\* Maps, fills and describes its memory; the metadata file appears empty first.
Boot(c) ==
    /\ Move(c, "booting", "publishing")
    /\ files' = files \union {<<"target", c>>}
    /\ torn' = torn \union {<<"target", c>>}
    /\ Rest /\ UNCHANGED mergeable

\* Without MADV_NOHUGEPAGE the child leaves after it has said so.
Publish(c, advised) ==
    /\ Move(c, "publishing", IF advised THEN "waiting" ELSE "exited")
    /\ torn' = torn \ {<<"target", c>>}
    /\ Rest /\ UNCHANGED <<files, mergeable>>

\* Mutant: the stop file is only honoured once the opt-in is there.
LeaveUnadvisedLate(c) ==
    /\ <<"opt_in", c>> \in files /\ Stop \in files
    /\ Move(c, "waiting", "exited")
    /\ Rest /\ UNCHANGED <<mergeable, dir>>

\* The opt-in is looked for before the stop file.
LeaveUnadvised(c) ==
    /\ <<"opt_in", c>> \notin files /\ Stop \in files
    /\ Move(c, "waiting", "exited")
    /\ Rest /\ UNCHANGED <<mergeable, dir>>

OptIn(c) ==
    /\ <<"opt_in", c>> \in files
    /\ IF Written(<<"opt_in", c>>)
       THEN /\ Move(c, "waiting", "advised")
            /\ mergeable' = mergeable \union {c}
       ELSE /\ Move(c, "waiting", "exited")
            /\ UNCHANGED mergeable
    /\ Rest /\ UNCHANGED dir

Answer(c, kind, from, to) ==
    /\ Move(c, from, to)
    /\ files' = files \union {<<kind, c>>}
    /\ Rest /\ UNCHANGED <<mergeable, torn>>

ReportOptIn(c) == Answer(c, "opted", "advised", "serving")

Unmerge(c) ==
    /\ <<"unmerge", c>> \in files
    /\ Move(c, "serving", "unmerged")
    /\ mergeable' = mergeable \ {c}
    /\ files' = files \union {<<"unmerged", c>>}
    /\ Rest /\ UNCHANGED torn

\* The fingerprints are computed and their file is opened.
Fingerprint(c) ==
    /\ <<"check", c>> \in files
    /\ child[c] = "serving" => <<"unmerge", c>> \notin files
    /\ \E from \in {"serving", "unmerged"} : Move(c, from, "checking")
    /\ files' = files \union {<<"checked", c>>}
    /\ torn' = torn \union {<<"checked", c>>}
    /\ Rest /\ UNCHANGED mergeable

ReportContent(c) ==
    /\ Move(c, "checking", "done")
    /\ torn' = torn \ {<<"checked", c>>}
    /\ Rest /\ UNCHANGED <<files, mergeable>>

\* The stop file ends the child from any of its waits; its mappings go with it.
Leave(c) ==
    /\ Stop \in files
    /\ child[c] = "serving" => {<<"unmerge", c>>, <<"check", c>>} \intersect files = {}
    /\ child[c] = "unmerged" => <<"check", c>> \notin files
    /\ \E from \in {"serving", "unmerged", "done"} : Move(c, from, "exited")
    /\ mergeable' = mergeable \ {c}
    /\ Rest /\ UNCHANGED dir

Worker(c) ==
    \/ Boot(c) \/ LeaveUnadvised(c) \/ OptIn(c) \/ ReportOptIn(c)
    \/ \E advised \in BOOLEAN : Publish(c, advised)
    \/ Unmerge(c) \/ Fingerprint(c) \/ ReportContent(c) \/ Leave(c)

----------------------------------------------------------------------------
(* Everybody else *)

ChildDies(c) ==
    /\ Alive(c) /\ deaths < MaxDeaths
    /\ child' = [child EXCEPT ![c] = "exited"]
    /\ mergeable' = mergeable \ {c}
    /\ deaths' = deaths + 1
    /\ UNCHANGED <<kernel, dir, harness, expired, seen, refused, acts>>

\* ksmd completes a pass over the registered ranges.
FullScan ==
    /\ run = 1 /\ mergeable # {} /\ scans < 2
    /\ scans' = scans + 1
    /\ UNCHANGED <<run, writer, settings, external, children, dir, harness, history>>

\* Another party changes the scanner or begins or ends to use KSM.
Foreign ==
    /\ acts < MaxForeign /\ pc # "done"
    /\ acts' = acts + 1
    /\ \/ /\ run' \in (0 .. 2) \ {run} /\ writer' = "other"
          /\ UNCHANGED <<settings, external>>
       \/ /\ pc # "baseline"
          /\ settings' \in {"found", "changed"} \ {settings}
          /\ UNCHANGED <<run, writer, external>>
       \/ external' = ~external /\ UNCHANGED <<run, writer, settings>>
    /\ UNCHANGED <<scans, children, dir, harness, expired, seen, refused, deaths>>

\* The evaluation window of thirty seconds passes.
Expire ==
    /\ pc = "evaluate" /\ ~expired
    /\ expired' = TRUE
    /\ UNCHANGED <<kernel, children, dir, harness, seen, refused, acts, deaths>>

Prepare ==
    \/ ReadBaseline \/ InspectBaseline \/ Spawn \/ AwaitReady
    \/ RecheckIsolation \/ RecordAudit \/ OpenOptIn \/ FillOptIn \/ AwaitOptIn
    \/ VerifyScope \/ InspectBeforeRun

Scan ==
    \/ StartScanner \/ StartRefused
    \/ \E accounting \in BOOLEAN : ReadBack(accounting)
    \/ \E m \in Measurements : Evaluate(m)
    \/ ReadRunBeforeStop \/ StopScanner \/ StopRefused \/ CheckStop
    \/ \E within \in BOOLEAN : Settle(within)

Wind ==
    \/ \E enough \in BOOLEAN : ChooseUnmerge(enough)
    \/ RequestUnmerge \/ AwaitUnmerge \/ VerifyUnmerge \/ RequestCheck
    \/ \E intact \in BOOLEAN : AwaitCheck(intact)
    \/ WriteStopFile \/ JoinChild \/ ValidationEnds

Drop ==
    \/ DropScanner \/ DropRefused \/ DropIdle \/ DropStopFile \/ DropJoin
    \/ CheckCleanup \/ Finalize

Harness == Prepare \/ Scan \/ Wind \/ Drop \/ Abort

Next ==
    \/ Harness
    \/ \E c \in Children : Worker(c) \/ ChildDies(c)
    \/ FullScan \/ Foreign \/ Expire

Spec == Init /\ [][Next]_vars

\* The harness and the children are processes the scheduler runs; their waits
\* poll.  The window ends because time passes.  Nothing makes the kernel scan.
Fairness ==
    /\ WF_vars(Harness) /\ WF_vars(Expire)
    /\ \A c \in Children : WF_vars(Worker(c))

FairSpec == Spec /\ Fairness

----------------------------------------------------------------------------
(* Properties *)

EvalType ==
    [scenario : Scenarios, gained : BOOLEAN, peak : 0 .. 2, resolved : BOOLEAN,
     auto_disable : BOOLEAN, run_before : 0 .. 2]

\* Type correctness: files are only torn while they exist, and only children
\* that live are registered with KSM.
TypeOK ==
    /\ run \in 0 .. 2 /\ writer \in {"other", "nemor"}
    /\ settings \in {"found", "changed"} /\ external \in BOOLEAN /\ scans \in 0 .. 2
    /\ child \in [Children -> WorkerStates]
    /\ mergeable \subseteq {c \in Children : Alive(c)}
    /\ files \subseteq Files /\ torn \subseteq files
    /\ pc \in Unguarded \union Guarded \union Ending /\ cur \in Children
    /\ guard \in BOOLEAN /\ protocol \in ProtocolStates
    /\ controller \in ControllerStates /\ eval \in EvalType
    /\ passed \subseteq Gates /\ failure \in Failures
    /\ verdict \in {None, "pass", "fail"}
    /\ expired \in BOOLEAN /\ seen \subseteq Interference
    /\ refused \subseteq {"start", "stop", "halt", "drop"}
    /\ acts \in 0 .. MaxForeign /\ deaths \in 0 .. MaxDeaths

\* The decision is on disk before any child registers its memory and before
\* Nemor switches the scanner on, and stays there as long as either lasts
\* ("audit_before_mergeable").
AuditFirst ==
    mergeable # {} \/ (run = 1 /\ writer = "nemor" /\ pc # "done")
        => Written(Decision)

\* However the run ends, no child is left behind, and the scanner Nemor switched
\* on is off again, unless the guard's own last write was refused; then the
\* verdict is a failure (KsmValidationGuard::drop, "configuration_restored").
ScannerReturned ==
    pc = "done" =>
        /\ \A c \in Children : ~Alive(c)
        /\ run # 0 /\ writer = "nemor" => "drop" \in refused /\ verdict = "fail"

\* A pass is earned: the monitoring never came across interference, the
\* configuration is the one found, the contents are intact, and the scenario's
\* evidence is complete, up to the cooldown of an inefficient plan.
PassEarned ==
    verdict = "pass" =>
        /\ seen = {} /\ refused = {}
        /\ run = 0 /\ settings = "found"
        /\ "owned_content_intact" \in passed
        /\ eval.peak > 0
        /\ eval.scenario = "positive" => eval.gained
        /\ eval.scenario = "inefficient" =>
                eval.peak >= 2 /\ eval.auto_disable /\ controller = "Cooldown"

\* Every run comes to an end, whatever the children and other parties do.
Finishes == <>(pc = "done")
============================================================================
