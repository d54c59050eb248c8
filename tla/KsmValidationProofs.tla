------------------------ MODULE KsmValidationProofs ------------------------
(***************************************************************************)
(* Proofs about KsmValidation, for every number of children, acts of other *)
(* parties, dying children and refused writes: type correctness, that the  *)
(* audit comes first, that the scanner is given back, and that a pass is   *)
(* earned.                                                                 *)
(***************************************************************************)
EXTENDS KsmValidation, TLAPS

USE DEF None

\* The steps before the audit, before the scanner is started, and before the
\* checks are derived from the evaluation.
Early == {"baseline", "isolation", "spawn", "ready", "recheck", "audit"}
BeforeStart == Early \union {"opt_in", "opt_fill", "opt_wait", "scope", "prerun", "start"}
Scanning == {"readback", "evaluate", "stop_read", "stop"}
BeforeChecks == BeforeStart \union Scanning \union {"stop_check"}
AfterDrop == {"drop_stop", "drop_wait", "cleanup", "final", "done"}

\* Only a child that has seen its opt-in, and has not undone it, is registered.
Registered ==
    \A c \in mergeable : child[c] \in {"advised", "serving", "checking", "done"}

\* Before the guard exists there is no child, and its drop leaves none.
Joined ==
    /\ pc \in Unguarded => \A c \in Children : child[c] = "absent"
    /\ pc = "drop_wait" => \A c \in Children : c < cur => ~Alive(c)
    /\ pc \in {"cleanup", "final", "done"} => \A c \in Children : ~Alive(c)

\* The decision is there from the audit on, and no opt-in without it.
Audited ==
    /\ Decision \notin torn
    /\ pc \in Early => Decision \notin files
    /\ pc \in (Guarded \ Early) \union {"halt"} => Decision \in files
    /\ mergeable # {} => Decision \in files
    /\ \A c \in Children : <<"opt_in", c>> \in files => Decision \in files
    /\ run = 1 /\ writer = "nemor" /\ pc # "done" => Decision \in files

\* The guard knows of a scanner that Nemor switched on, from the start to the
\* end, and gives it back unless its write is refused.
Returned ==
    /\ run # 0 /\ writer = "nemor" => run = 1 /\ guard
    /\ guard => pc \notin BeforeStart
    /\ run # 0 /\ writer = "nemor" /\ pc \in AfterDrop => "drop" \in refused

\* As long as no failure is recorded nothing went wrong, and every check that
\* is passed has its evidence.
Evidenced ==
    /\ failure = None => seen = {} /\ refused = {}
    /\ pc = "halt" => failure # None
    /\ guard /\ pc \notin Scanning => failure # None
    /\ pc \in BeforeChecks => passed = {}
    /\ "scanner_progress" \in passed => eval.peak > 0
    /\ "gain" \in passed => eval.gained
    /\ "inefficiency" \in passed => eval.peak >= 2
    /\ "cooldown" \in passed => eval.auto_disable /\ controller = "Cooldown"
    /\ verdict # None => pc = "done"

RunInv == Registered /\ Joined /\ Audited /\ Returned /\ Evidenced
Inv == TypeOK /\ RunInv /\ ScannerReturned /\ PassEarned

\* An error leaves no evidence behind, and that is well typed.
LEMMA FailType ==
    ASSUME TypeOK, NEW reason \in Failures, Fail(reason)
    PROVE  failure' \in Failures /\ passed' = {} /\ eval' \in EvalType
<1>1. eval.scenario \in Scenarios
  BY DEF TypeOK, EvalType
<1>2. NoEval(eval.scenario) \in EvalType
  BY <1>1 DEF NoEval, EvalType
<1> QED BY <1>2 DEF Fail

\* The steps up to the start preserve the types.
LEMMA PrepareType ==
    ASSUME TypeOK, RunInv, Prepare
    PROVE  TypeOK'
<1> USE FailType, CountAssumption, ScenariosAssumption, BoundsAssumption
    DEF TypeOK, Unguarded, Guarded, Ending, Goto, NextChild, Expect, FailWith,
        NoFailure, Keep, World, kernel, children, dir, history, WriteRun,
        RefuseRun, Children, Failures, Interference, Alive, ProtocolStates
<1>1. CASE ReadBaseline BY <1>1 DEF ReadBaseline
<1>2. CASE InspectBaseline BY <1>2 DEF InspectBaseline
<1>3. CASE Spawn BY <1>3 DEF Spawn, RunInv, Audited, Early, WorkerStates
<1>4. CASE AwaitReady BY <1>4 DEF AwaitReady
<1>5. CASE RecheckIsolation BY <1>5 DEF RecheckIsolation
<1>6. CASE RecordAudit BY <1>6 DEF RecordAudit, Files, Decision
<1>7. CASE OpenOptIn BY <1>7 DEF OpenOptIn, Files, FileKinds
<1>8. CASE FillOptIn BY <1>8 DEF FillOptIn
<1>9. CASE AwaitOptIn BY <1>9 DEF AwaitOptIn
<1>10. CASE VerifyScope BY <1>10 DEF VerifyScope
<1>11. CASE InspectBeforeRun BY <1>11 DEF InspectBeforeRun
<1> QED BY <1>1, <1>2, <1>3, <1>4, <1>5, <1>6, <1>7, <1>8, <1>9, <1>10, <1>11 DEF Prepare

\* Starting, evaluating and stopping preserve the types.
LEMMA ScanType ==
    ASSUME TypeOK, Scan
    PROVE  TypeOK'
<1> USE FailType, CountAssumption, ScenariosAssumption, BoundsAssumption
    DEF TypeOK, Unguarded, Guarded, Ending, Goto, NextChild, Expect, FailWith,
        NoFailure, Keep, World, kernel, children, dir, history, WriteRun,
        RefuseRun, Children, Failures, Interference, Alive, ProtocolStates,
        ControllerStates, Gates
<1>1. CASE StartScanner BY <1>1 DEF StartScanner
<1>2. CASE StartRefused BY <1>2 DEF StartRefused
<1>3. ASSUME NEW accounting \in BOOLEAN, ReadBack(accounting) PROVE TypeOK'
  <2>1. CASE run = 1 /\ accounting
    <3>1. pc' = "evaluate" /\ cur' = 1 /\ controller' = "Evaluating"
      BY <1>3, <2>1 DEF ReadBack
    <3>2. cur' \in Children BY <3>1
    <3>3. pc' \in Unguarded \union Guarded \union Ending BY <3>1
    <3>4. controller' \in ControllerStates BY <3>1
    <3>5. UNCHANGED <<kernel, children, dir, history, guard, protocol, verdict, failure,
                      passed, eval>>
      BY <1>3, <2>1 DEF ReadBack
    <3> QED BY <3>2, <3>3, <3>4, <3>5
  <2>2. CASE ~(run = 1 /\ accounting)
    <3>1. \E reason \in Failures : Fail(reason) BY <1>3, <2>2 DEF ReadBack
    <3> QED BY <1>3, <2>2, <3>1 DEF ReadBack
  <2> QED BY <2>1, <2>2
<1>4. ASSUME NEW m \in Measurements, Evaluate(m) PROVE TypeOK'
  <2>1. TurnFailure(m) \in Failures BY DEF TurnFailure, Found
  <2>2. seen' \subseteq Interference BY <1>4 DEF Evaluate, Found
  <2>3. controller_transition(controller, m.profit, FALSE) \in ControllerStates
    BY DEF controller_transition
  <2>4. controller' \in ControllerStates BY <1>4, <2>3 DEF Evaluate
  <2>5. ASSUME NEW disabled \in BOOLEAN, Break(m, disabled)
        PROVE  eval' \in EvalType /\ failure' = failure /\ passed' = passed
               /\ pc' = "stop_read" /\ cur' = 1
    BY <2>5 DEF Break, Measurements, EvalType
  <2>6. /\ eval' \in EvalType /\ failure' \in Failures /\ passed' \subseteq Gates
        /\ pc' \in {"evaluate", "stop_read"} /\ cur' \in Children
    <3>1. ASSUME NEW reason \in Failures, BreakFailed(reason)
          PROVE  /\ eval' \in EvalType /\ failure' \in Failures /\ passed' \subseteq Gates
                 /\ pc' = "stop_read" /\ cur' = 1
      BY <3>1 DEF BreakFailed
    <3>2. \/ \E reason \in Failures : BreakFailed(reason)
          \/ \E disabled \in BOOLEAN : Break(m, disabled)
          \/ NoFailure /\ UNCHANGED <<pc, cur>>
      BY <1>4, <2>1 DEF Evaluate
    <3> QED BY <3>1, <3>2, <2>5, <1>4 DEF Evaluate
  <2>7. UNCHANGED <<kernel, children, dir, guard, protocol, verdict, expired,
                    refused, acts, deaths>>
    BY <1>4 DEF Evaluate
  <2> QED BY <2>2, <2>4, <2>6, <2>7
<1>5. CASE ReadRunBeforeStop BY <1>5 DEF ReadRunBeforeStop, EvalType
<1>6. CASE StopScanner
  <2>1. pc' \in {"stop_check", "drop"} /\ cur' = 1 BY <1>6 DEF StopScanner
  <2>2. pc' \in Unguarded \union Guarded \union Ending BY <2>1
  <2>3. /\ run' = 0 /\ writer' = "nemor" /\ guard' = FALSE
        /\ UNCHANGED <<settings, external, scans, children, dir, history, protocol,
                       controller, verdict, failure, passed, eval>>
    BY <1>6 DEF StopScanner
  <2>4. /\ run' \in 0 .. 2 /\ writer' \in {"other", "nemor"}
        /\ settings' \in {"found", "changed"} /\ external' \in BOOLEAN /\ scans' \in 0 .. 2
    BY <2>3
  <2>5. /\ (child \in [Children -> WorkerStates])'
        /\ (mergeable \subseteq {c \in Children : Alive(c)})'
    BY <2>3
  <2>6. /\ files' \subseteq Files /\ torn' \subseteq files' BY <2>3
  <2>7. cur' \in Children BY <2>1
  <2>8. /\ guard' \in BOOLEAN /\ protocol' \in ProtocolStates
        /\ controller' \in ControllerStates /\ eval' \in EvalType
     BY <2>3
  <2>9. /\ passed' \subseteq Gates /\ failure' \in Failures
    /\ verdict' \in {None, "pass", "fail"}
    BY <2>3
  <2>10. (/\ expired \in BOOLEAN /\ seen \subseteq Interference
    /\ refused \subseteq {"start", "stop", "halt", "drop"}
    /\ acts \in 0 .. MaxForeign /\ deaths \in 0 .. MaxDeaths)'
    BY <2>3
  <2> QED BY <2>2, <2>4, <2>5, <2>6, <2>7, <2>8, <2>9, <2>10
<1>7. CASE StopRefused
  <2>1. CASE pc = "stop" BY <1>7, <2>1 DEF StopRefused
  <2>2. CASE pc = "halt"
    <3>1. pc' = "drop" /\ cur' = 1 /\ refused' = refused \union {"halt"}
      BY <1>7, <2>2 DEF StopRefused
    <3>2. UNCHANGED <<kernel, children, dir, expired, seen, acts, deaths, guard, protocol,
                      controller, verdict, failure, passed, eval>>
      BY <1>7, <2>2 DEF StopRefused
    <3> QED BY <3>1, <3>2
  <2> QED BY <1>7, <2>1, <2>2 DEF StopRefused
<1>8. CASE CheckStop BY <1>8 DEF CheckStop
<1>9. ASSUME NEW within \in BOOLEAN, Settle(within) PROVE TypeOK'
  BY <1>9 DEF Settle, controller_transition
<1> QED BY <1>1, <1>2, <1>3, <1>4, <1>5, <1>6, <1>7, <1>8, <1>9 DEF Scan

\* Unmerging, checking and joining preserve the types.
LEMMA WindType ==
    ASSUME TypeOK, Wind
    PROVE  TypeOK'
<1> USE FailType, CountAssumption, ScenariosAssumption, BoundsAssumption
    DEF TypeOK, Unguarded, Guarded, Ending, Goto, NextChild, Expect, FailWith,
        NoFailure, Keep, World, kernel, children, dir, history, WriteRun,
        RefuseRun, Children, Failures, Interference, Alive, ProtocolStates,
        Gates, Files, FileKinds, Stop
<1>1. ASSUME NEW enough \in BOOLEAN, ChooseUnmerge(enough) PROVE TypeOK'
  BY <1>1 DEF ChooseUnmerge
<1>2. CASE RequestUnmerge BY <1>2 DEF RequestUnmerge, Request
<1>3. CASE AwaitUnmerge BY <1>3 DEF AwaitUnmerge
<1>4. CASE VerifyUnmerge
  <2>1. CASE AllAlive /\ mergeable = {}
    <3>1. pc' = "check" /\ cur' = 1 /\ protocol' = "Unmerged"
      BY <1>4, <2>1 DEF VerifyUnmerge
    <3>2. cur' \in Children BY <3>1
    <3>3. pc' \in Unguarded \union Guarded \union Ending BY <3>1
    <3>4. protocol' \in ProtocolStates BY <3>1
    <3>5. UNCHANGED <<kernel, children, dir, history, guard, controller, verdict, failure,
                      passed, eval>>
      BY <1>4, <2>1 DEF VerifyUnmerge
    <3> QED BY <3>2, <3>3, <3>4, <3>5
  <2>2. CASE ~(AllAlive /\ mergeable = {}) BY <1>4, <2>2 DEF VerifyUnmerge
  <2> QED BY <2>1, <2>2
<1>5. CASE RequestCheck BY <1>5 DEF RequestCheck, Request
<1>6. ASSUME NEW intact \in BOOLEAN, AwaitCheck(intact) PROVE TypeOK'
  BY <1>6 DEF AwaitCheck
<1>7. CASE WriteStopFile BY <1>7 DEF WriteStopFile, WriteStop
<1>8. CASE JoinChild BY <1>8 DEF JoinChild, Join
<1>9. CASE ValidationEnds BY <1>9 DEF ValidationEnds, Restored
<1> QED BY <1>1, <1>2, <1>3, <1>4, <1>5, <1>6, <1>7, <1>8, <1>9 DEF Wind

\* The guard and main preserve the types.
LEMMA DropType ==
    ASSUME TypeOK, Drop
    PROVE  TypeOK'
<1> USE FailType, CountAssumption, ScenariosAssumption, BoundsAssumption
    DEF TypeOK, Unguarded, Guarded, Ending, Goto, NextChild, Expect, FailWith,
        NoFailure, Keep, World, kernel, children, dir, history, WriteRun,
        RefuseRun, Children, Failures, Interference, Alive, Gates, Files, Stop
<1>1. CASE DropScanner BY <1>1 DEF DropScanner
<1>2. CASE DropRefused BY <1>2 DEF DropRefused
<1>3. CASE DropIdle BY <1>3 DEF DropIdle
<1>4. CASE DropStopFile BY <1>4 DEF DropStopFile, WriteStop
<1>5. CASE DropJoin BY <1>5 DEF DropJoin, Join
<1>6. CASE CheckCleanup
  <2>1. passed' \subseteq Gates BY <1>6 DEF CheckCleanup
  <2> QED BY <1>6, <2>1 DEF CheckCleanup
<1>7. CASE Finalize BY <1>7 DEF Finalize, Restored
<1> QED BY <1>1, <1>2, <1>3, <1>4, <1>5, <1>6, <1>7 DEF Drop

\* An early return preserves the types.
LEMMA AbortType ==
    ASSUME TypeOK, Abort
    PROVE  TypeOK'
BY FailType, CountAssumption
   DEF TypeOK, Abort, Unguarded, Guarded, Ending, Goto, FailWith, Keep, World, kernel,
       children, dir, history, Children, Failures, Interference, Alive

\* The children preserve the types.
LEMMA WorkerType ==
    ASSUME NEW c \in Children, TypeOK, Registered, Worker(c)
    PROVE  TypeOK'
<1> USE CountAssumption DEF TypeOK, Move, Rest, kernel, harness, history, dir, Children, Alive,
    WorkerStates, Files, FileKinds
<1>1. CASE Boot(c) BY <1>1 DEF Boot
<1>2. CASE LeaveUnadvised(c) BY <1>2 DEF LeaveUnadvised, Registered
<1>3. CASE OptIn(c) BY <1>3 DEF OptIn, Registered
<1>4. CASE ReportOptIn(c) BY <1>4 DEF ReportOptIn, Answer
<1>5. ASSUME NEW advised \in BOOLEAN, Publish(c, advised) PROVE TypeOK'
  BY <1>5 DEF Publish, Registered
<1>6. CASE Unmerge(c) BY <1>6 DEF Unmerge
<1>7. CASE Fingerprint(c) BY <1>7 DEF Fingerprint
<1>8. CASE ReportContent(c) BY <1>8 DEF ReportContent
<1>9. CASE Leave(c) BY <1>9 DEF Leave
<1> QED BY <1>1, <1>2, <1>3, <1>4, <1>5, <1>6, <1>7, <1>8, <1>9 DEF Worker

\* So do the kernel, other parties, time and the death of a child.
LEMMA WorldType ==
    ASSUME TypeOK, FullScan \/ Foreign \/ Expire \/ \E c \in Children : ChildDies(c)
    PROVE  TypeOK'
<1> USE BoundsAssumption DEF TypeOK, kernel, children, harness, history, dir, Alive
<1>1. CASE FullScan BY <1>1 DEF FullScan
<1>2. CASE Foreign
  <2>1. UNCHANGED <<scans, children, dir, harness, expired, seen, refused, deaths>>
    BY <1>2 DEF Foreign
  <2>2. /\ run' \in 0 .. 2 /\ writer' \in {"other", "nemor"}
        /\ settings' \in {"found", "changed"} /\ acts' \in 0 .. MaxForeign
    BY <1>2 DEF Foreign
  <2>3. external' \in BOOLEAN
    BY <1>2, Zenon DEF Foreign
  <2> QED BY <2>1, <2>2, <2>3
<1>3. CASE Expire BY <1>3 DEF Expire
<1>4. ASSUME NEW c \in Children, ChildDies(c) PROVE TypeOK'
  BY <1>4 DEF ChildDies, WorkerStates
<1> QED BY <1>1, <1>2, <1>3, <1>4

----------------------------------------------------------------------------
(* Children: only the registered ones are mergeable, and none is left *)

\* The harness only makes children; what they do is theirs.
LEMMA ChildrenKept ==
    ASSUME Prepare \/ Scan \/ Wind \/ Drop \/ Abort, ~Spawn
    PROVE  UNCHANGED children
<1> USE DEF Expect, World, WriteRun, RefuseRun
<1>1. CASE Prepare
  BY <1>1 DEF Prepare, ReadBaseline, InspectBaseline, AwaitReady, RecheckIsolation,
         RecordAudit, OpenOptIn, FillOptIn, AwaitOptIn, VerifyScope,
         InspectBeforeRun
<1>2. CASE Scan
  BY <1>2 DEF Scan, StartScanner, StartRefused, ReadBack, Evaluate,
         ReadRunBeforeStop, StopScanner, StopRefused, CheckStop, Settle
<1>3. CASE Wind
  BY <1>3 DEF Wind, ChooseUnmerge, RequestUnmerge, Request, AwaitUnmerge,
         VerifyUnmerge, RequestCheck, AwaitCheck, WriteStopFile, WriteStop,
         JoinChild, Join, ValidationEnds
<1>4. CASE Drop
  BY <1>4 DEF Drop, DropScanner, DropRefused, DropIdle, DropStopFile, WriteStop,
         DropJoin, Join, CheckCleanup, Finalize
<1>5. CASE Abort BY <1>5 DEF Abort
<1> QED BY <1>1, <1>2, <1>3, <1>4, <1>5

\* Nobody is registered while children are started: the decision is missing.
LEMMA RegisteredKept ==
    ASSUME Inv, Next
    PROVE  Registered'
<1> USE DEF Inv, RunInv, TypeOK, Registered
<1>1. CASE Spawn
  BY <1>1 DEF Audited, Early, Spawn
<1>2. CASE Harness /\ ~Spawn
  BY <1>2, ChildrenKept DEF Harness, children
<1>3. ASSUME NEW c \in Children, Worker(c) PROVE Registered'
  BY <1>3 DEF Worker, Boot, LeaveUnadvised, OptIn, ReportOptIn, Publish, Unmerge, Fingerprint,
              ReportContent, Leave, Answer, Move
<1>4. ASSUME NEW c \in Children, ChildDies(c) PROVE Registered'
  BY <1>4 DEF ChildDies
<1>5. CASE FullScan \/ Foreign \/ Expire
  BY <1>5 DEF FullScan, Foreign, Expire, children
<1> QED BY <1>1, <1>2, <1>3, <1>4, <1>5 DEF Next

\* A child that was not started does nothing, and one that has exited stays away.
LEMMA ChildrenStay ==
    ASSUME TypeOK, NEW c \in Children, Worker(c) \/ ChildDies(c)
    PROVE  /\ UNCHANGED harness
           /\ \A d \in Children : child[d] = "absent" => child'[d] = "absent"
           /\ \A d \in Children : ~Alive(d) => ~Alive(d)'
<1> USE DEF TypeOK, Alive
<1>1. CASE Worker(c)
  BY <1>1 DEF Worker, Boot, LeaveUnadvised, OptIn, ReportOptIn, Publish, Unmerge, Fingerprint,
              ReportContent, Leave, Answer, Move, Rest
<1>2. CASE ChildDies(c)
  BY <1>2 DEF ChildDies
<1> QED BY <1>1, <1>2

\* An error before the guard exists leaves no child, later it goes to the drop.
LEMMA JoinedKept ==
    ASSUME Inv, Next
    PROVE  Joined'
<1> USE CountAssumption DEF Inv, RunInv, TypeOK, Joined, Children, Unguarded, Alive
<1>1. CASE Prepare
  <2> USE DEF Goto, NextChild, Expect, FailWith, Keep, World, children
  <2>1. CASE ReadBaseline BY <2>1 DEF ReadBaseline
  <2>2. CASE InspectBaseline BY <2>2 DEF InspectBaseline
  <2>3. CASE Spawn BY <2>3 DEF Spawn
  <2>4. CASE AwaitReady BY <2>4 DEF AwaitReady
  <2>5. CASE RecheckIsolation BY <2>5 DEF RecheckIsolation
  <2>6. CASE RecordAudit BY <2>6 DEF RecordAudit
  <2>7. CASE OpenOptIn BY <2>7 DEF OpenOptIn
  <2>8. CASE FillOptIn BY <2>8 DEF FillOptIn
  <2>9. CASE AwaitOptIn BY <2>9 DEF AwaitOptIn
  <2>10. CASE VerifyScope BY <2>10 DEF VerifyScope
  <2>11. CASE InspectBeforeRun BY <2>11 DEF InspectBeforeRun
  <2> QED BY <1>1, <2>1, <2>2, <2>3, <2>4, <2>5, <2>6, <2>7, <2>8, <2>9, <2>10,
             <2>11 DEF Prepare
<1>2. CASE Scan
  <2> USE DEF Goto, FailWith, Keep, World, WriteRun, RefuseRun, children
  <2>1. CASE StartScanner BY <2>1 DEF StartScanner
  <2>2. CASE StartRefused BY <2>2 DEF StartRefused
  <2>3. ASSUME NEW accounting \in BOOLEAN, ReadBack(accounting) PROVE Joined'
    BY <2>3 DEF ReadBack
  <2>4. ASSUME NEW m \in Measurements, Evaluate(m) PROVE Joined'
    BY <2>4 DEF Evaluate, BreakFailed, Break
  <2>5. CASE ReadRunBeforeStop BY <2>5 DEF ReadRunBeforeStop
  <2>6. CASE StopScanner BY <2>6 DEF StopScanner
  <2>7. CASE StopRefused BY <2>7 DEF StopRefused
  <2>8. CASE CheckStop BY <2>8 DEF CheckStop
  <2>9. ASSUME NEW within \in BOOLEAN, Settle(within) PROVE Joined'
    BY <2>9 DEF Settle
  <2> QED BY <1>2, <2>1, <2>2, <2>3, <2>4, <2>5, <2>6, <2>7, <2>8, <2>9 DEF Scan
<1>3. CASE Wind
  <2> USE DEF Goto, NextChild, FailWith, Keep, World, children
  <2>1. ASSUME NEW enough \in BOOLEAN, ChooseUnmerge(enough) PROVE Joined'
    BY <2>1 DEF ChooseUnmerge
  <2>2. CASE RequestUnmerge BY <2>2 DEF RequestUnmerge, Request
  <2>3. CASE AwaitUnmerge BY <2>3 DEF AwaitUnmerge
  <2>4. CASE VerifyUnmerge BY <2>4 DEF VerifyUnmerge
  <2>5. CASE RequestCheck BY <2>5 DEF RequestCheck, Request
  <2>6. ASSUME NEW intact \in BOOLEAN, AwaitCheck(intact) PROVE Joined'
    BY <2>6 DEF AwaitCheck
  <2>7. CASE WriteStopFile BY <2>7 DEF WriteStopFile, WriteStop
  <2>8. CASE JoinChild BY <2>8 DEF JoinChild, Join
  <2>9. CASE ValidationEnds BY <2>9 DEF ValidationEnds
  <2> QED BY <1>3, <2>1, <2>2, <2>3, <2>4, <2>5, <2>6, <2>7, <2>8, <2>9 DEF Wind
<1>4. CASE Drop
  <2> USE DEF Goto, NextChild, Keep, World, WriteRun, RefuseRun, children
  <2>1. CASE DropScanner BY <2>1 DEF DropScanner
  <2>2. CASE DropRefused BY <2>2 DEF DropRefused
  <2>3. CASE DropIdle BY <2>3 DEF DropIdle
  <2>4. CASE DropStopFile BY <2>4 DEF DropStopFile, WriteStop
  <2>5. CASE DropJoin BY <2>5 DEF DropJoin, Join
  <2>6. CASE CheckCleanup BY <2>6 DEF CheckCleanup
  <2>7. CASE Finalize BY <2>7 DEF Finalize
  <2> QED BY <1>4, <2>1, <2>2, <2>3, <2>4, <2>5, <2>6, <2>7 DEF Drop
<1>5. CASE Abort BY <1>5 DEF Abort, FailWith, Goto, World, children, Guarded
<1>6. ASSUME NEW c \in Children, Worker(c) \/ ChildDies(c) PROVE Joined'
  BY <1>6, ChildrenStay DEF harness
<1>7. CASE FullScan \/ Foreign \/ Expire
  BY <1>7 DEF FullScan, Foreign, Expire, children, harness
<1> QED BY <1>1, <1>2, <1>3, <1>4, <1>5, <1>6, <1>7 DEF Next, Harness

----------------------------------------------------------------------------
(* The audit comes first, and the scanner is given back *)

\* The decision is written once, by the harness, before the first opt-in.
LEMMA AuditedKept ==
    ASSUME Inv, Next
    PROVE  Audited'
<1> USE DEF Inv, RunInv, TypeOK, Audited, Decision, Early
<1>1. CASE Prepare
  <2> USE DEF Goto, NextChild, Expect, FailWith, Keep, World, children, kernel, dir,
              Guarded, Unguarded
  <2>1. CASE ReadBaseline BY <2>1 DEF ReadBaseline
  <2>2. CASE InspectBaseline BY <2>2 DEF InspectBaseline
  <2>3. CASE Spawn BY <2>3 DEF Spawn
  <2>4. CASE AwaitReady BY <2>4 DEF AwaitReady
  <2>5. CASE RecheckIsolation BY <2>5 DEF RecheckIsolation
  <2>6. CASE RecordAudit BY <2>6 DEF RecordAudit
  <2>7. CASE OpenOptIn BY <2>7 DEF OpenOptIn
  <2>8. CASE FillOptIn BY <2>8 DEF FillOptIn
  <2>9. CASE AwaitOptIn BY <2>9 DEF AwaitOptIn
  <2>10. CASE VerifyScope BY <2>10 DEF VerifyScope
  <2>11. CASE InspectBeforeRun BY <2>11 DEF InspectBeforeRun
  <2> QED BY <1>1, <2>1, <2>2, <2>3, <2>4, <2>5, <2>6, <2>7, <2>8, <2>9, <2>10,
             <2>11 DEF Prepare
<1>2. CASE Scan
  <2> USE DEF Goto, NextChild, Expect, FailWith, Keep, World, children, kernel, dir,
              Guarded, Unguarded, WriteRun, RefuseRun
  <2>1. CASE StartScanner BY <2>1 DEF StartScanner
  <2>2. CASE StartRefused BY <2>2 DEF StartRefused
  <2>3. ASSUME NEW accounting \in BOOLEAN, ReadBack(accounting) PROVE Audited'
    BY <2>3 DEF ReadBack
  <2>4. ASSUME NEW m \in Measurements, Evaluate(m) PROVE Audited'
    BY <2>4 DEF Evaluate, BreakFailed, Break
  <2>5. CASE ReadRunBeforeStop BY <2>5 DEF ReadRunBeforeStop
  <2>6. CASE StopScanner BY <2>6 DEF StopScanner
  <2>7. CASE StopRefused BY <2>7 DEF StopRefused
  <2>8. CASE CheckStop BY <2>8 DEF CheckStop
  <2>9. ASSUME NEW within \in BOOLEAN, Settle(within) PROVE Audited'
    BY <2>9 DEF Settle
  <2> QED BY <1>2, <2>1, <2>2, <2>3, <2>4, <2>5, <2>6, <2>7, <2>8, <2>9 DEF Scan
<1>3. CASE Wind
  <2> USE DEF Goto, NextChild, Expect, FailWith, Keep, World, children, kernel, dir,
              Guarded, Unguarded
  <2>1. ASSUME NEW enough \in BOOLEAN, ChooseUnmerge(enough) PROVE Audited'
    BY <2>1 DEF ChooseUnmerge
  <2>2. CASE RequestUnmerge BY <2>2 DEF RequestUnmerge, Request
  <2>3. CASE AwaitUnmerge BY <2>3 DEF AwaitUnmerge
  <2>4. CASE VerifyUnmerge BY <2>4 DEF VerifyUnmerge
  <2>5. CASE RequestCheck BY <2>5 DEF RequestCheck, Request
  <2>6. ASSUME NEW intact \in BOOLEAN, AwaitCheck(intact) PROVE Audited'
    BY <2>6 DEF AwaitCheck
  <2>7. CASE WriteStopFile BY <2>7 DEF WriteStopFile, WriteStop, Stop
  <2>8. CASE JoinChild BY <2>8 DEF JoinChild, Join
  <2>9. CASE ValidationEnds BY <2>9 DEF ValidationEnds
  <2> QED BY <1>3, <2>1, <2>2, <2>3, <2>4, <2>5, <2>6, <2>7, <2>8, <2>9 DEF Wind
<1>4. CASE Drop
  <2> USE DEF Goto, NextChild, Expect, FailWith, Keep, World, children, kernel, dir,
              Guarded, Unguarded, WriteRun, RefuseRun
  <2>1. CASE DropScanner BY <2>1 DEF DropScanner
  <2>2. CASE DropRefused BY <2>2 DEF DropRefused
  <2>3. CASE DropIdle BY <2>3 DEF DropIdle
  <2>4. CASE DropStopFile BY <2>4 DEF DropStopFile, WriteStop, Stop
  <2>5. CASE DropJoin BY <2>5 DEF DropJoin, Join
  <2>6. CASE CheckCleanup BY <2>6 DEF CheckCleanup
  <2>7. CASE Finalize BY <2>7 DEF Finalize, Joined
  <2> QED BY <1>4, <2>1, <2>2, <2>3, <2>4, <2>5, <2>6, <2>7 DEF Drop
<1>5. CASE Abort
  BY <1>5 DEF Abort, FailWith, Goto, World, children, kernel, dir, Guarded, Unguarded
<1>6. ASSUME NEW c \in Children, Worker(c) PROVE Audited'
  BY <1>6 DEF Worker, Boot, LeaveUnadvised, OptIn, ReportOptIn, Publish, Unmerge, Fingerprint,
              ReportContent, Leave, Answer, Move, Rest, kernel, harness, dir
<1>7. ASSUME NEW c \in Children, ChildDies(c) PROVE Audited'
  BY <1>7 DEF ChildDies, kernel, harness, dir
<1>8. CASE FullScan \/ Foreign \/ Expire
  BY <1>8 DEF FullScan, Foreign, Expire, kernel, children, harness, dir
<1> QED BY <1>1, <1>2, <1>3, <1>4, <1>5, <1>6, <1>7, <1>8 DEF Next, Harness

\* The children touch neither the kernel's settings nor the harness.
LEMMA WorkerFrame ==
    ASSUME NEW c \in Children, Worker(c) \/ ChildDies(c)
    PROVE  UNCHANGED <<kernel, harness, expired, seen, refused, acts>>
BY DEF Worker, Boot, LeaveUnadvised, OptIn, ReportOptIn, Publish, Unmerge, Fingerprint,
       ReportContent, Leave, Answer, Rest, ChildDies, history

\* The flag of the guard is set with the write that starts the scanner, and
\* cleared only by the one that stops it.
LEMMA ReturnedKept ==
    ASSUME Inv, Next
    PROVE  Returned'
<1> USE DEF Inv, RunInv, TypeOK, Returned, BeforeStart, Early, AfterDrop
<1>1. CASE Prepare
  <2> USE DEF Goto, NextChild, Expect, FailWith, Keep, World, kernel, history, Unguarded
  <2>1. CASE ReadBaseline BY <2>1 DEF ReadBaseline
  <2>2. CASE InspectBaseline BY <2>2 DEF InspectBaseline
  <2>3. CASE Spawn BY <2>3 DEF Spawn
  <2>4. CASE AwaitReady BY <2>4 DEF AwaitReady
  <2>5. CASE RecheckIsolation BY <2>5 DEF RecheckIsolation
  <2>6. CASE RecordAudit BY <2>6 DEF RecordAudit
  <2>7. CASE OpenOptIn BY <2>7 DEF OpenOptIn
  <2>8. CASE FillOptIn BY <2>8 DEF FillOptIn
  <2>9. CASE AwaitOptIn BY <2>9 DEF AwaitOptIn
  <2>10. CASE VerifyScope BY <2>10 DEF VerifyScope
  <2>11. CASE InspectBeforeRun BY <2>11 DEF InspectBeforeRun
  <2> QED BY <1>1, <2>1, <2>2, <2>3, <2>4, <2>5, <2>6, <2>7, <2>8, <2>9, <2>10,
             <2>11 DEF Prepare
<1>2. CASE Scan
  <2> USE DEF Goto, NextChild, Expect, FailWith, Keep, World, kernel, history,
              Unguarded, WriteRun, RefuseRun
  <2>1. CASE StartScanner BY <2>1 DEF StartScanner
  <2>2. CASE StartRefused BY <2>2 DEF StartRefused
  <2>3. ASSUME NEW accounting \in BOOLEAN, ReadBack(accounting) PROVE Returned'
    BY <2>3 DEF ReadBack
  <2>4. ASSUME NEW m \in Measurements, Evaluate(m) PROVE Returned'
    BY <2>4 DEF Evaluate, BreakFailed, Break
  <2>5. CASE ReadRunBeforeStop BY <2>5 DEF ReadRunBeforeStop
  <2>6. CASE StopScanner BY <2>6 DEF StopScanner
  <2>7. CASE StopRefused BY <2>7 DEF StopRefused
  <2>8. CASE CheckStop BY <2>8 DEF CheckStop
  <2>9. ASSUME NEW within \in BOOLEAN, Settle(within) PROVE Returned'
    BY <2>9 DEF Settle
  <2> QED BY <1>2, <2>1, <2>2, <2>3, <2>4, <2>5, <2>6, <2>7, <2>8, <2>9 DEF Scan
<1>3. CASE Wind
  <2> USE DEF Goto, NextChild, Expect, FailWith, Keep, World, kernel, history, Unguarded
  <2>1. ASSUME NEW enough \in BOOLEAN, ChooseUnmerge(enough) PROVE Returned'
    BY <2>1 DEF ChooseUnmerge
  <2>2. CASE RequestUnmerge BY <2>2 DEF RequestUnmerge, Request
  <2>3. CASE AwaitUnmerge BY <2>3 DEF AwaitUnmerge
  <2>4. CASE VerifyUnmerge BY <2>4 DEF VerifyUnmerge
  <2>5. CASE RequestCheck BY <2>5 DEF RequestCheck, Request
  <2>6. ASSUME NEW intact \in BOOLEAN, AwaitCheck(intact) PROVE Returned'
    BY <2>6 DEF AwaitCheck
  <2>7. CASE WriteStopFile BY <2>7 DEF WriteStopFile, WriteStop
  <2>8. CASE JoinChild BY <2>8 DEF JoinChild, Join
  <2>9. CASE ValidationEnds BY <2>9 DEF ValidationEnds
  <2> QED BY <1>3, <2>1, <2>2, <2>3, <2>4, <2>5, <2>6, <2>7, <2>8, <2>9 DEF Wind
<1>4. CASE Drop
  <2> USE DEF Goto, NextChild, Expect, FailWith, Keep, World, kernel, history,
              Unguarded, WriteRun, RefuseRun
  <2>1. CASE DropScanner BY <2>1 DEF DropScanner
  <2>2. CASE DropRefused BY <2>2 DEF DropRefused
  <2>3. CASE DropIdle BY <2>3 DEF DropIdle
  <2>4. CASE DropStopFile BY <2>4 DEF DropStopFile, WriteStop
  <2>5. CASE DropJoin BY <2>5 DEF DropJoin, Join
  <2>6. CASE CheckCleanup BY <2>6 DEF CheckCleanup
  <2>7. CASE Finalize BY <2>7 DEF Finalize
  <2> QED BY <1>4, <2>1, <2>2, <2>3, <2>4, <2>5, <2>6, <2>7 DEF Drop
<1>5. CASE Abort
  BY <1>5 DEF Abort, FailWith, Goto, World, Keep, kernel, history, Guarded, Unguarded
<1>6. ASSUME NEW c \in Children, Worker(c) \/ ChildDies(c) PROVE Returned'
  BY <1>6, WorkerFrame DEF kernel, harness
<1>7. CASE FullScan \/ Foreign \/ Expire
  BY <1>7 DEF FullScan, Foreign, Expire, kernel, harness, history
<1> QED BY <1>1, <1>2, <1>3, <1>4, <1>5, <1>6, <1>7 DEF Next, Harness

----------------------------------------------------------------------------
(* A pass is earned *)

\* A turn of the evaluation ends with a failure, with evidence, or is repeated;
\* without a failure it has found no interference.
LEMMA Turn ==
    ASSUME TypeOK, NEW m \in Measurements, Evaluate(m)
    PROVE  \/ \E reason \in Failures \ {None} : BreakFailed(reason)
           \/ seen' = seen /\ \E disabled \in BOOLEAN : Break(m, disabled)
           \/ seen' = seen /\ NoFailure /\ UNCHANGED <<pc, cur>>
<1>1. TurnFailure(m) \in Failures
  BY DEF TurnFailure, Found, Failures, Interference
<1>2. TurnFailure(m) = None => Found(m) = None
  BY DEF TurnFailure
<1>3. "unexpected_positive_gain" \in Failures \ {None} /\ "not_profitable" \in Failures \ {None}
  BY DEF Failures
<1>4. \/ TurnFailure(m) # None /\ BreakFailed(TurnFailure(m))
      \/ TurnFailure(m) = None /\ \E disabled \in BOOLEAN : Break(m, disabled)
      \/ BreakFailed("unexpected_positive_gain")
      \/ BreakFailed("not_profitable")
      \/ TurnFailure(m) = None /\ NoFailure /\ UNCHANGED <<pc, cur>>
  BY DEF Evaluate
<1>5. seen' = seen \union ({Found(m)} \ {None})
  BY DEF Evaluate
<1> QED BY <1>1, <1>2, <1>3, <1>4, <1>5

\* Checks are only passed while there is no failure, and each after the step
\* that gathered what it stands for.
LEMMA EvidencedKept ==
    ASSUME Inv, Next
    PROVE  Evidenced'
<1> USE DEF Inv, RunInv, TypeOK, Evidenced, BeforeStart, Early, BeforeChecks, Scanning
<1>1. CASE Prepare
  <2> USE DEF Goto, NextChild, Expect, FailWith, Fail, NoFailure, Keep, World, history,
              Unguarded
  <2>1. CASE ReadBaseline BY <2>1 DEF ReadBaseline
  <2>2. CASE InspectBaseline BY <2>2 DEF InspectBaseline
  <2>3. CASE Spawn BY <2>3 DEF Spawn
  <2>4. CASE AwaitReady BY <2>4 DEF AwaitReady
  <2>5. CASE RecheckIsolation BY <2>5 DEF RecheckIsolation
  <2>6. CASE RecordAudit BY <2>6 DEF RecordAudit
  <2>7. CASE OpenOptIn BY <2>7 DEF OpenOptIn
  <2>8. CASE FillOptIn BY <2>8 DEF FillOptIn
  <2>9. CASE AwaitOptIn BY <2>9 DEF AwaitOptIn
  <2>10. CASE VerifyScope BY <2>10 DEF VerifyScope
  <2>11. CASE InspectBeforeRun BY <2>11 DEF InspectBeforeRun
  <2> QED BY <1>1, <2>1, <2>2, <2>3, <2>4, <2>5, <2>6, <2>7, <2>8, <2>9, <2>10,
             <2>11 DEF Prepare
<1>2. CASE Scan
  <2> USE DEF Goto, NextChild, Expect, FailWith, Fail, NoFailure, Keep, World, history,
              Unguarded, WriteRun, RefuseRun
  <2>1. CASE StartScanner BY <2>1 DEF StartScanner
  <2>2. CASE StartRefused BY <2>2 DEF StartRefused
  <2>3. ASSUME NEW accounting \in BOOLEAN, ReadBack(accounting) PROVE Evidenced'
    BY <2>3 DEF ReadBack
  <2>4. ASSUME NEW m \in Measurements, Evaluate(m) PROVE Evidenced'
    <3>1. pc = "evaluate" /\ UNCHANGED <<guard, refused, verdict>>
      BY <2>4 DEF Evaluate
    <3>2. ASSUME NEW reason \in Failures \ {None}, BreakFailed(reason) PROVE Evidenced'
      BY <3>1, <3>2 DEF BreakFailed
    <3>3. ASSUME NEW disabled \in BOOLEAN, seen' = seen, Break(m, disabled) PROVE Evidenced'
      BY <3>1, <3>3 DEF Break
    <3>4. CASE seen' = seen /\ NoFailure /\ UNCHANGED <<pc, cur>>
      BY <3>1, <3>4
    <3> QED BY <2>4, <3>2, <3>3, <3>4, Turn
  <2>5. CASE ReadRunBeforeStop BY <2>5 DEF ReadRunBeforeStop
  <2>6. CASE StopScanner BY <2>6 DEF StopScanner
  <2>7. CASE StopRefused BY <2>7 DEF StopRefused
  <2>8. CASE CheckStop BY <2>8 DEF CheckStop
  <2>9. ASSUME NEW within \in BOOLEAN, Settle(within) PROVE Evidenced'
    <3>1. controller_transition(controller, "inefficient", TRUE) = "Cooldown"
      BY DEF controller_transition
    <3>2. /\ passed' \subseteq passed \union {"cpu_budget", "cooldown"}
          /\ "cooldown" \in passed' =>
                \/ "cooldown" \in passed
                \/ eval.scenario = "inefficient" /\ eval.auto_disable
      BY <2>9 DEF Settle
    <3>3. /\ controller' \in {controller, "Cooldown"}
          /\ eval.scenario = "inefficient" /\ eval.auto_disable => controller' = "Cooldown"
      BY <2>9, <3>1 DEF Settle
    <3>4. /\ pc = "settle" /\ pc' = "headroom"
          /\ UNCHANGED <<guard, eval, failure, verdict, seen, refused>>
      BY <2>9 DEF Settle
    <3> QED BY <3>2, <3>3, <3>4
  <2> QED BY <1>2, <2>1, <2>2, <2>3, <2>4, <2>5, <2>6, <2>7, <2>8, <2>9 DEF Scan
<1>3. CASE Wind
  <2> USE DEF Goto, NextChild, Expect, FailWith, Fail, NoFailure, Keep, World, history,
              Unguarded
  <2>1. ASSUME NEW enough \in BOOLEAN, ChooseUnmerge(enough) PROVE Evidenced'
    BY <2>1 DEF ChooseUnmerge
  <2>2. CASE RequestUnmerge BY <2>2 DEF RequestUnmerge, Request
  <2>3. CASE AwaitUnmerge BY <2>3 DEF AwaitUnmerge
  <2>4. CASE VerifyUnmerge BY <2>4 DEF VerifyUnmerge
  <2>5. CASE RequestCheck BY <2>5 DEF RequestCheck, Request
  <2>6. ASSUME NEW intact \in BOOLEAN, AwaitCheck(intact) PROVE Evidenced'
    BY <2>6 DEF AwaitCheck
  <2>7. CASE WriteStopFile BY <2>7 DEF WriteStopFile, WriteStop
  <2>8. CASE JoinChild BY <2>8 DEF JoinChild, Join
  <2>9. CASE ValidationEnds BY <2>9 DEF ValidationEnds, Restored
  <2> QED BY <1>3, <2>1, <2>2, <2>3, <2>4, <2>5, <2>6, <2>7, <2>8, <2>9 DEF Wind
<1>4. CASE Drop
  <2> USE DEF Goto, NextChild, Expect, FailWith, Fail, NoFailure, Keep, World, history,
              Unguarded, WriteRun, RefuseRun
  <2>1. CASE DropScanner BY <2>1 DEF DropScanner
  <2>2. CASE DropRefused BY <2>2 DEF DropRefused
  <2>3. CASE DropIdle BY <2>3 DEF DropIdle
  <2>4. CASE DropStopFile BY <2>4 DEF DropStopFile, WriteStop
  <2>5. CASE DropJoin BY <2>5 DEF DropJoin, Join
  <2>6. CASE CheckCleanup BY <2>6 DEF CheckCleanup
  <2>7. CASE Finalize BY <2>7 DEF Finalize, Restored
  <2> QED BY <1>4, <2>1, <2>2, <2>3, <2>4, <2>5, <2>6, <2>7 DEF Drop
<1>5. CASE Abort
  BY <1>5 DEF Abort, FailWith, Fail, Goto, World, Keep, history, Guarded, Unguarded
<1>6. ASSUME NEW c \in Children, Worker(c) \/ ChildDies(c) PROVE Evidenced'
  BY <1>6, WorkerFrame DEF harness
<1>7. CASE FullScan \/ Foreign \/ Expire
  <2>1. UNCHANGED <<harness, seen, refused>>
    BY <1>7 DEF FullScan, Foreign, Expire, history
  <2> QED BY <2>1 DEF harness
<1> QED BY <1>1, <1>2, <1>3, <1>4, <1>5, <1>6, <1>7 DEF Next, Harness

\* main ends in one step, and it alone decides the verdict.
LEMMA Verdict ==
    ASSUME TypeOK, Harness, ~Finalize
    PROVE  pc # "done" /\ pc' # "done" /\ UNCHANGED verdict
<1> USE DEF Goto, NextChild, Expect, FailWith, Keep, Unguarded
<1>1. CASE Prepare
  BY <1>1 DEF Prepare, ReadBaseline, InspectBaseline, Spawn, AwaitReady,
         RecheckIsolation, RecordAudit, OpenOptIn, FillOptIn, AwaitOptIn,
         VerifyScope, InspectBeforeRun
<1>2. CASE Scan /\ ~\E m \in Measurements : Evaluate(m)
  BY <1>2 DEF Scan, StartScanner, StartRefused, ReadBack, ReadRunBeforeStop,
         StopScanner, StopRefused, CheckStop, Settle
<1>3. ASSUME NEW m \in Measurements, Evaluate(m)
      PROVE  pc # "done" /\ pc' # "done" /\ UNCHANGED verdict
  BY <1>3, Turn DEF Evaluate, BreakFailed, Break
<1>4. CASE Wind
  BY <1>4 DEF Wind, ChooseUnmerge, RequestUnmerge, Request, AwaitUnmerge,
         VerifyUnmerge, RequestCheck, AwaitCheck, WriteStopFile, WriteStop,
         JoinChild, Join, ValidationEnds
<1>5. CASE Drop
  BY <1>5 DEF Drop, DropScanner, DropRefused, DropIdle, DropStopFile, WriteStop,
         DropJoin, Join, CheckCleanup
<1>6. CASE Abort
  BY <1>6 DEF Abort, Guarded
<1> QED BY <1>1, <1>2, <1>3, <1>4, <1>5, <1>6 DEF Harness

\* Once the run is over only the children's corpses and ksmd are left, and
\* neither changes what the verdict spoke of.
LEMMA AfterDone ==
    ASSUME Inv, Next, ~Harness, pc = "done"
    PROVE  /\ UNCHANGED <<harness, run, writer, settings, seen, refused>>
           /\ \A c \in Children : ~Alive(c) => ~Alive(c)'
<1>1. ASSUME NEW c \in Children, Worker(c) \/ ChildDies(c)
      PROVE  /\ UNCHANGED <<harness, run, writer, settings, seen, refused>>
             /\ \A d \in Children : ~Alive(d) => ~Alive(d)'
  BY <1>1, ChildrenStay, WorkerFrame DEF Inv, kernel
<1>2. CASE FullScan
  BY <1>2 DEF FullScan, children, history, Alive
<1>3. ~Foreign /\ ~Expire
  BY DEF Foreign, Expire
<1> QED BY <1>1, <1>2, <1>3 DEF Next

\* The directory is removed after the children are gone; a scanner that could
\* not be switched off shows in the snapshot of main.
LEMMA ScannerReturnedKept ==
    ASSUME Inv, Next
    PROVE  ScannerReturned'
<1> USE DEF Inv, RunInv, ScannerReturned
<1>1. CASE Finalize
  <2>1. \A c \in Children : ~Alive(c)'
    BY <1>1 DEF Finalize, Joined, Alive, World, children
  <2>2. run # 0 => "configuration_restored" \notin passed'
    BY <1>1 DEF Finalize, Restored
  <2>3. "configuration_restored" \in Required(eval.scenario)
    BY DEF Required, Gates
  <2>4. run # 0 => verdict' = "fail"
    BY <1>1, <2>2, <2>3 DEF Finalize
  <2>5. pc = "final" /\ UNCHANGED <<run, writer, refused>>
    BY <1>1 DEF Finalize, World, kernel, history
  <2> QED BY <2>1, <2>4, <2>5 DEF Returned, AfterDrop
<1>2. CASE Harness /\ ~Finalize
  BY <1>2, Verdict
<1>3. CASE ~Harness /\ pc = "done"
  BY <1>3, AfterDone DEF harness
<1>4. CASE ~Harness /\ pc # "done"
  <2>1. UNCHANGED harness
    BY <1>4, WorkerFrame DEF Next, FullScan, Foreign, Expire
  <2> QED BY <1>4, <2>1 DEF harness
<1> QED BY <1>1, <1>2, <1>3, <1>4

\* All checks the scenario requires are passed, each with its evidence.
LEMMA PassEarnedKept ==
    ASSUME Inv, Next
    PROVE  PassEarned'
<1> USE DEF Inv, RunInv, PassEarned
<1>1. CASE Finalize
  <2>1. SUFFICES ASSUME verdict' = "pass" PROVE PassEarned'
    OBVIOUS
  <2>2. /\ Required(eval.scenario) \subseteq passed' /\ failure = None
        /\ passed' = Restored(passed)
        /\ UNCHANGED <<run, settings, seen, refused, eval, controller>>
    BY <1>1, <2>1 DEF Finalize, World, kernel, history
  <2>3. "configuration_restored" \in passed' /\ run = 0 /\ settings = "found"
    <3>1. "configuration_restored" \in Required(eval.scenario)
      BY DEF Required, Gates
    <3> QED BY <2>2, <3>1 DEF Restored
  <2>4. \A g \in Gates : g # "configuration_restored" /\ g \in passed' => g \in passed
    BY <2>2 DEF Restored
  <2>5. "owned_content_intact" \in passed' /\ "scanner_progress" \in passed'
    BY <2>2 DEF Required, Gates
  <2>6. eval.scenario = "positive" => "gain" \in passed'
    BY <2>2 DEF Required, Gates
  <2>7. eval.scenario = "inefficient" => "inefficiency" \in passed' /\ "cooldown" \in passed'
    BY <2>2 DEF Required, Gates
  <2> QED BY <2>2, <2>3, <2>4, <2>5, <2>6, <2>7 DEF Evidenced, Gates
<1>2. CASE Harness /\ ~Finalize
  BY <1>2, Verdict DEF Evidenced
<1>3. CASE ~Harness /\ pc = "done"
  BY <1>3, AfterDone DEF harness
<1>4. CASE ~Harness /\ pc # "done"
  <2>1. UNCHANGED harness
    BY <1>4, WorkerFrame DEF Next, FullScan, Foreign, Expire
  <2> QED BY <1>4, <2>1 DEF harness, Evidenced
<1> QED BY <1>1, <1>2, <1>3, <1>4

----------------------------------------------------------------------------
(* The theorems *)

\* The invariant holds before the run begins.
LEMMA InitInv == ASSUME Init PROVE Inv
<1> USE CountAssumption, ScenariosAssumption, BoundsAssumption DEF Init
<1>1. eval \in EvalType
  <2>1. PICK s \in Scenarios : eval = NoEval(s)
    OBVIOUS
  <2> QED BY <2>1 DEF NoEval, EvalType
<1>2. TypeOK
  <2>1. child \in [Children -> WorkerStates] /\ cur \in Children
    BY DEF Children, WorkerStates
  <2>2. pc \in Unguarded /\ protocol \in ProtocolStates
    BY DEF Unguarded, ProtocolStates
  <2>3. controller \in ControllerStates /\ failure \in Failures
    BY DEF ControllerStates, Failures
  <2>4. /\ run \in 0 .. 2 /\ writer \in {"other", "nemor"} /\ settings \in {"found", "changed"}
        /\ external \in BOOLEAN /\ scans \in 0 .. 2
    OBVIOUS
  <2>5. /\ mergeable = {} /\ files = {} /\ torn = {} /\ passed = {} /\ seen = {} /\ refused = {}
        /\ guard = FALSE /\ expired = FALSE /\ verdict = None
        /\ acts \in 0 .. MaxForeign /\ deaths \in 0 .. MaxDeaths
    OBVIOUS
  <2> HIDE DEF Init
  <2> QED BY <1>1, <2>1, <2>2, <2>3, <2>4, <2>5 DEF TypeOK
<1>3. Registered /\ Joined
  BY DEF Registered, Joined
<1>4. Audited /\ Returned
  BY DEF Audited, Returned, Guarded, Early, AfterDrop
<1>5. Evidenced /\ ScannerReturned /\ PassEarned
  BY DEF Evidenced, ScannerReturned, PassEarned
<1> QED BY <1>2, <1>3, <1>4, <1>5 DEF Inv, RunInv

\* It is kept by every action of harness, children and kernel.
LEMMA NextInv == ASSUME Inv, [Next]_vars PROVE Inv'
<1>1. CASE Next
  <2>1. TypeOK'
    BY <1>1, PrepareType, ScanType, WindType, DropType, AbortType, WorkerType, WorldType
       DEF Next, Harness, Inv, RunInv
  <2> QED BY <1>1, <2>1, RegisteredKept, JoinedKept, AuditedKept, ReturnedKept,
             EvidencedKept,
             ScannerReturnedKept, PassEarnedKept DEF Inv, RunInv
<1>2. CASE UNCHANGED vars
  <2> USE <1>2 DEF vars, kernel, children, dir, harness, history, Inv, RunInv
  <2>1. TypeOK' BY DEF TypeOK, Alive
  <2>2. Registered' /\ Joined' BY DEF Registered, Joined, Alive
  <2>3. Audited' /\ Returned' BY DEF Audited, Returned
  <2>4. Evidenced' BY DEF Evidenced
  <2>5. ScannerReturned' /\ PassEarned' BY DEF ScannerReturned, PassEarned, Alive
  <2> QED BY <2>1, <2>2, <2>3, <2>4, <2>5
<1> QED BY <1>1, <1>2

\* The inductive invariant holds in every reachable state.
THEOREM Invariant == Spec => []Inv
<1>1. Init => Inv BY InitInv
<1>2. Inv /\ [Next]_vars => Inv' BY NextInv
<1> QED BY <1>1, <1>2, PTL DEF Spec

\* Type correctness: only children that live are registered with KSM, and only
\* files that exist are torn (validate_ksm, ksm_target_worker).
THEOREM TypeCorrect == Spec => []TypeOK
<1>1. Inv => TypeOK BY DEF Inv
<1> QED BY <1>1, Invariant, PTL

\* The decision is on disk before any child registers its memory and before
\* Nemor switches the scanner on (record_audit in validate_ksm), however many
\* children there are, whoever dies and whatever other parties write.
THEOREM AuditFirstHolds == Spec => []AuditFirst
<1>1. Inv => AuditFirst
  BY DEF Inv, RunInv, Audited, AuditFirst, Written
<1> QED BY <1>1, Invariant, PTL

\* No run leaves a child behind, and a scanner Nemor switched on is only left
\* on when the guard's own write was refused, with a failure for a verdict
\* (KsmValidationGuard::drop).
THEOREM ScannerReturnedHolds == Spec => []ScannerReturned
<1>1. Inv => ScannerReturned BY DEF Inv
<1> QED BY <1>1, Invariant, PTL

\* Every pass has the evidence its scenario calls for, and no write was refused
\* and no interference met on the way (finalize_ksm_outcome).
THEOREM PassEarnedHolds == Spec => []PassEarned
<1>1. Inv => PassEarned BY DEF Inv
<1> QED BY <1>1, Invariant, PTL
============================================================================
