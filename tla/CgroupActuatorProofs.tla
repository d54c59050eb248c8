------------------------ MODULE CgroupActuatorProofs ------------------------
(***************************************************************************)
(* Proofs about CgroupActuator, for any processes, candidates, limits and  *)
(* numbers of snapshots, failures and crashes: type correctness, and, when *)
(* no process is planned twice and no PID is reused in the middle of a     *)
(* call, that every managed process is accounted for and that rolling all  *)
(* snapshots back leaves no group.                                         *)
(***************************************************************************)
EXTENDS CgroupActuator, TLAPS

-----------------------------------------------------------------------------
(* The inductive invariant *)

\* Nothing but a process of the user's session was ever moved.
OriginalsInv == \A i \in DOMAIN snaps : snaps[i].original_group = App

\* A plan that would still be applied is for a process that is not managed.
PlannedInv ==
    pc = "planned" /\ SameInstance(plan.pid, plan.start)
        => proc[plan.pid].group = App

\* From its row on, apply_one works for the plan on an open row of the same
\* instance, and nobody else has taken its PID.
ApplyInv ==
    pc \in ApplyPcs \ {"planned"} =>
        /\ Snapshot.pid = plan.pid /\ Snapshot.start = plan.start
        /\ Snapshot.target = plan.target /\ ~Snapshot.rolled_back
        /\ Alive(plan.pid) => proc[plan.pid].start = plan.start

\* What rollback_one moves is the instance of the row.
MoveInv ==
    pc = "rb_attach" /\ Alive(Snapshot.pid)
        => proc[Snapshot.pid].start = Snapshot.start

\* Past the move the instance of the row is in no managed group.
MovedInv ==
    pc \in {"rb_set", "rb_cleanup", "rb_unregister", "rb_mark"}
        /\ SameInstance(Snapshot.pid, Snapshot.start)
        => proc[Snapshot.pid].group \notin Managed

\* A group that outlives the cleanup is needed by another open row.
CleanupInv ==
    /\ pc = "rb_unregister" => ~group[Snapshot.target].exists
    /\ pc = "rb_mark" /\ group[Snapshot.target].exists =>
          \E j \in DOMAIN snaps : /\ j # sid /\ ~snaps[j].rolled_back
                                  /\ snaps[j].target = Snapshot.target

CallInv ==
    /\ OriginalsInv /\ PlannedInv /\ ApplyInv
    /\ MoveInv /\ MovedInv /\ CleanupInv
    /\ AccountedFor /\ NoResidue

-----------------------------------------------------------------------------
(* Type correctness *)

\* Writing limits to a group changes nothing else.
LEMMA WriteType ==
    ASSUME NEW g \in GroupType, NEW l \in Limits
    PROVE  /\ WriteLow(g, l) \in GroupType
           /\ WriteLimits(g, l) \in GroupType
           /\ WriteLow(g, l).exists = g.exists
           /\ WriteLimits(g, l).exists = g.exists
BY DEF WriteLow, WriteLimits, Limits, GroupType

\* A group that was created or removed is a group.
LEMMA NewGroupType ==
    /\ NewGroup \in GroupType
    /\ [exists |-> FALSE, low |-> 0, high |-> NoLimit] \in GroupType
BY DEF NewGroup, GroupType

\* Setting a flag of a row changes nothing else.
LEMMA MarkType ==
    ASSUME NEW row \in SnapshotType
    PROVE  /\ [row EXCEPT !.applied = TRUE] \in SnapshotType
           /\ [row EXCEPT !.verified = TRUE] \in SnapshotType
           /\ [row EXCEPT !.rolled_back = TRUE] \in SnapshotType
<1>1. [row EXCEPT !.applied = TRUE] \in SnapshotType BY DEF SnapshotType
<1>2. [row EXCEPT !.verified = TRUE] \in SnapshotType BY DEF SnapshotType
<1>3. [row EXCEPT !.rolled_back = TRUE] \in SnapshotType BY DEF SnapshotType
<1> QED BY <1>1, <1>2, <1>3

\* The state before the first plan is well typed.
LEMMA InitType == Init => TypeOK
<1> SUFFICES ASSUME Init PROVE TypeOK
  OBVIOUS
<1>1. proc \in [Pids -> ProcessType]
  BY BoundsAssumption DEF Init, ProcessType, Groups
<1>2. group \in [Groups -> GroupType]
  <2>1. \A g \in Groups :
           [exists |-> g = App, low |-> 0, high |-> NoLimit] \in GroupType
    BY DEF GroupType
  <2> QED BY <2>1 DEF Init
<1>3. snaps \in Seq(SnapshotType) /\ queue \subseteq DOMAIN snaps
  BY DEF Init
<1>4. plan \in IF pc \in ApplyPcs THEN PlanType ELSE PlanType \union {NoPlan}
  BY DEF Init, ApplyPcs
<1>5. /\ pc \in {"idle"} \union ApplyPcs \union RollbackPcs
      /\ sid \in IF pc \in {"idle", "planned"} THEN {0} ELSE DOMAIN snaps
      /\ managed \subseteq Managed
      /\ failures \in 0..MaxFailures /\ crashes \in 0..MaxCrashes
  BY BoundsAssumption DEF Init
<1>6. disturbed \in BOOLEAN
  BY Zenon DEF Init
<1> QED BY <1>1, <1>2, <1>3, <1>4, <1>5, <1>6 DEF TypeOK

\* A call that returns leaves the types of its own variables.
LEMMA ReturnType ==
    ASSUME TypeOK, Return, snaps' \in Seq(SnapshotType)
    PROVE  /\ pc' = "idle" /\ plan' = NoPlan /\ sid' = 0
           /\ queue' \subseteq DOMAIN snaps'
BY DEF Return

\* A failing call is counted.
LEMMA FailType ==
    ASSUME TypeOK, Fail
    PROVE  failures' \in 0..MaxFailures /\ crashes' \in 0..MaxCrashes
           /\ disturbed' = TRUE
BY BoundsAssumption DEF Fail, TypeOK

\* A plan is for a live process and one of Nemor's groups.
LEMMA PlanStepType ==
    ASSUME TypeOK, NEW c \in Candidates, Plan(c)
    PROVE  TypeOK'
<1>1. c \in CandidateType BY CandidatesAssumption
<1>2. plan' \in PlanType
  <2>1. proc[c.pid].start \in 1..MaxStart
    BY <1>1 DEF TypeOK, CandidateType, ProcessType
  <2>2. PICK low \in LowValues, high \in HighValues :
           plan' = [pid |-> c.pid, start |-> proc[c.pid].start,
                    allowed |-> ~Blocked(c),
                    target |-> IF c.protected THEN Foreground ELSE Background,
                    request |-> IF c.protected
                                THEN [low |-> low, high |-> NoLimit]
                                ELSE [low |-> NoLimit, high |-> high]]
    BY DEF Plan
  <2>3. (IF c.protected THEN Foreground ELSE Background) \in Managed
    BY DEF Managed
  <2>4. (IF c.protected THEN [low |-> low, high |-> NoLimit]
         ELSE [low |-> NoLimit, high |-> high]) \in Limits
    BY DEF Limits
  <2>5. (~Blocked(c)) \in BOOLEAN BY Zenon
  <2> QED BY <1>1, <2>1, <2>2, <2>3, <2>4, <2>5 DEF PlanType, CandidateType
<1>3. pc = "idle" /\ pc' = "planned" /\ UNCHANGED <<kernel, store, sid, queue, history>>
  BY DEF Plan
<1> QED BY <1>2, <1>3 DEF TypeOK, kernel, store, history, ApplyPcs

\* Every step of apply_one preserves the types.
LEMMA ApplyType == TypeOK /\ ApplyStep => TypeOK'
<1> SUFFICES ASSUME TypeOK, ApplyStep PROVE TypeOK'
  OBVIOUS
<1> USE DEF kernel, store, history, ApplyPcs, RollbackPcs
<1>1. CASE ApplyRefused
  BY <1>1, ReturnType DEF TypeOK, ApplyRefused
<1>2. CASE ApplyPersist
  <2>1. NewSnapshot \in SnapshotType
    <3>1. plan \in PlanType /\ proc[plan.pid].group \in Groups
      BY <1>2 DEF TypeOK, ApplyPersist, SameInstance, Alive, PlanType, ProcessType
    <3>2. group[plan.target] \in GroupType
      BY <3>1 DEF TypeOK, PlanType, Groups
    <3>3. (IF group[plan.target].exists
           THEN [low |-> group[plan.target].low, high |-> group[plan.target].high]
           ELSE NoLimits) \in Limits
      BY <3>2 DEF GroupType, Limits, NoLimits
    <3> QED BY <3>1, <3>3 DEF NewSnapshot, SnapshotType, PlanType
  <2>2. /\ snaps' \in Seq(SnapshotType) /\ sid' \in DOMAIN snaps'
        /\ queue' \subseteq DOMAIN snaps'
    BY <1>2, <2>1 DEF TypeOK, ApplyPersist, PersistRow
  <2> QED BY <1>2, <2>2 DEF TypeOK, ApplyPersist
<1>3. CASE ApplyCreate
  <2>1. group' \in [Groups -> GroupType]
    BY <1>3, NewGroupType DEF TypeOK, ApplyCreate
  <2> QED BY <1>3, <2>1 DEF TypeOK, ApplyCreate
<1>4. CASE ApplyRecord
  BY <1>4 DEF TypeOK, ApplyRecord, RecordManagedGroup, PlanType
<1>5. CASE ApplySetProperties
  <2>1. plan \in PlanType /\ plan.target \in Groups /\ plan.request \in Limits
    BY <1>5 DEF TypeOK, ApplySetProperties, PlanType, Groups
  <2>2. WriteLimits(group[plan.target], plan.request) \in GroupType
    BY <2>1, WriteType DEF TypeOK
  <2>3. group' \in [Groups -> GroupType]
    BY <1>5, <2>2 DEF TypeOK, ApplySetProperties
  <2> QED BY <1>5, <2>3 DEF TypeOK, ApplySetProperties
<1>6. CASE ApplyAttach
  <2>1. proc' \in [Pids -> ProcessType]
    BY <1>6 DEF TypeOK, ApplyAttach, Attach, PlanType, ProcessType, Groups
  <2> QED BY <1>6, <2>1 DEF TypeOK, ApplyAttach, Attach
<1>7. ASSUME NEW row \in SnapshotType, UpdateRow(row), sid \in DOMAIN snaps
      PROVE  snaps' \in Seq(SnapshotType) /\ DOMAIN snaps' = DOMAIN snaps
  BY <1>7 DEF TypeOK, UpdateRow
<1>8. CASE ApplyMarkApplied
  <2>1. sid \in DOMAIN snaps /\ Snapshot \in SnapshotType
    BY <1>8 DEF TypeOK, ApplyMarkApplied, Snapshot
  <2>2. [Snapshot EXCEPT !.applied = TRUE] \in SnapshotType
    BY <2>1, MarkType
  <2> QED BY <1>7, <1>8, <2>1, <2>2 DEF TypeOK, ApplyMarkApplied
<1>9. CASE ApplyReadback
  BY <1>9 DEF TypeOK, ApplyReadback
<1>10. CASE ApplyMarkVerified
  <2>1. sid \in DOMAIN snaps /\ Snapshot \in SnapshotType
    BY <1>10 DEF TypeOK, ApplyMarkVerified, Snapshot
  <2>2. [Snapshot EXCEPT !.verified = TRUE] \in SnapshotType
    BY <2>1, MarkType
  <2>3. snaps' \in Seq(SnapshotType)
    BY <1>7, <1>10, <2>1, <2>2 DEF ApplyMarkVerified
  <2> QED BY <1>10, <2>3, ReturnType DEF TypeOK, ApplyMarkVerified
<1>11. CASE ApplyUndo
  BY <1>11 DEF TypeOK, ApplyUndo
<1>12. CASE ApplyFailsEarly
  BY <1>12, FailType, ReturnType DEF TypeOK, ApplyFailsEarly
<1>13. CASE ApplySetFails
  <2>1. plan \in PlanType /\ plan.target \in Groups /\ plan.request \in Limits
    BY <1>13 DEF TypeOK, ApplySetFails, PlanType, Groups
  <2>2. WriteLow(group[plan.target], plan.request) \in GroupType
    BY <2>1, WriteType DEF TypeOK
  <2>3. group' \in [Groups -> GroupType]
    BY <1>13, <2>2 DEF TypeOK, ApplySetFails
  <2> QED BY <1>13, <2>3, FailType DEF TypeOK, ApplySetFails
<1>14. CASE ApplyAttachFails
  BY <1>14, FailType DEF TypeOK, ApplyAttachFails
<1>15. CASE ApplyUpdateFails
  BY <1>15, FailType, ReturnType DEF TypeOK, ApplyUpdateFails
<1> QED
  BY <1>1, <1>2, <1>3, <1>4, <1>5, <1>6, <1>8, <1>9, <1>10, <1>11, <1>12,
     <1>13, <1>14, <1>15 DEF ApplyStep

\* rollback_one returns to its caller, or recover goes on with another row.
LEMMA RollbackReturnsType ==
    ASSUME TypeOK, RollbackReturns, DOMAIN snaps' = DOMAIN snaps
    PROVE  /\ pc' \in {"idle", "rb_check"}
           /\ plan' \in {plan, NoPlan}
           /\ sid' \in IF pc' = "idle" THEN {0} ELSE DOMAIN snaps'
           /\ queue' \subseteq DOMAIN snaps'
BY DEF TypeOK, RollbackReturns, Return, IsFirst

\* Every step of rollback_one preserves the types.
LEMMA RollbackType == TypeOK /\ RollbackStep => TypeOK'
<1> SUFFICES ASSUME TypeOK, RollbackStep PROVE TypeOK'
  OBVIOUS
<1> USE DEF kernel, store, history, ApplyPcs, RollbackPcs
<1>0. /\ pc \in RollbackPcs /\ plan \in PlanType \union {NoPlan}
      /\ sid \in DOMAIN snaps /\ Snapshot \in SnapshotType
  <2>1. pc \in RollbackPcs
    BY DEF RollbackStep, RollbackCheck, RollbackAttach, RollbackSetProperties,
           RollbackCleanup, RollbackUnregister, RollbackMark,
           RollbackAttachGone, RollbackFails
  <2> QED BY <2>1 DEF TypeOK, Snapshot
<1>1. ASSUME RollbackReturns, DOMAIN snaps' = DOMAIN snaps,
             snaps' \in Seq(SnapshotType), group' \in [Groups -> GroupType],
             UNCHANGED <<proc, managed>>, failures' \in 0..MaxFailures,
             crashes' \in 0..MaxCrashes, disturbed' \in BOOLEAN
      PROVE  TypeOK'
  BY <1>0, <1>1, RollbackReturnsType DEF TypeOK
<1>2. CASE RollbackCheck
  <2>1. CASE RollbackReturns /\ UNCHANGED <<kernel, store, history>>
    BY <1>1, <2>1 DEF TypeOK
  <2>2. CASE /\ pc' \in {"rb_attach", "rb_set"}
             /\ UNCHANGED <<plan, sid, queue, kernel, store, history>>
    BY <1>0, <2>2 DEF TypeOK
  <2> QED BY <1>2, <2>1, <2>2 DEF RollbackCheck
<1>3. CASE RollbackAttach
  <2>1. Snapshot.pid \in Pids /\ Snapshot.original_group \in Groups
    BY <1>0 DEF SnapshotType
  <2>2. proc' \in [Pids -> ProcessType]
    BY <1>3, <2>1 DEF TypeOK, RollbackAttach, Attach, ProcessType
  <2> QED BY <1>0, <1>3, <2>2 DEF TypeOK, RollbackAttach, Attach
<1>4. CASE RollbackSetProperties
  <2>1. Snapshot.target \in Groups /\ Snapshot.original \in Limits
    BY <1>0 DEF SnapshotType, Groups
  <2>2. WriteLimits(group[Snapshot.target], Snapshot.original) \in GroupType
    BY <2>1, WriteType DEF TypeOK
  <2>3. group' \in [Groups -> GroupType]
    BY <1>4, <2>2 DEF TypeOK, RollbackSetProperties
  <2> QED BY <1>0, <1>4, <2>3 DEF TypeOK, RollbackSetProperties
<1>5. CASE RollbackCleanup
  <2>1. group' \in [Groups -> GroupType]
    BY <1>5, NewGroupType DEF TypeOK, RollbackCleanup
  <2> QED BY <1>0, <1>5, <2>1 DEF TypeOK, RollbackCleanup
<1>6. CASE RollbackUnregister
  BY <1>0, <1>6 DEF TypeOK, RollbackUnregister, RemoveManagedGroup
<1>7. CASE RollbackMark
  <2>1. [Snapshot EXCEPT !.rolled_back = TRUE] \in SnapshotType
    BY <1>0, MarkType
  <2>2. snaps' \in Seq(SnapshotType) /\ DOMAIN snaps' = DOMAIN snaps
    BY <1>0, <1>7, <2>1 DEF TypeOK, RollbackMark, UpdateRow
  <2> QED BY <1>1, <1>7, <2>2 DEF TypeOK, RollbackMark
<1>8. CASE RollbackAttachGone
  BY <1>1, <1>8 DEF TypeOK, RollbackAttachGone
<1>9. CASE RollbackFails
  <2>1. Snapshot.target \in Groups /\ Snapshot.original \in Limits
    BY <1>0 DEF SnapshotType, Groups
  <2>2. WriteLow(group[Snapshot.target], Snapshot.original) \in GroupType
    BY <2>1, WriteType DEF TypeOK
  <2>3. group' \in [Groups -> GroupType]
    BY <1>9, <2>2 DEF TypeOK, RollbackFails
  <2>4. disturbed' \in BOOLEAN
    BY <1>9, FailType, Zenon DEF RollbackFails
  <2> QED BY <1>1, <1>9, <2>3, <2>4, FailType DEF TypeOK, RollbackFails
<1> QED
  BY <1>2, <1>3, <1>4, <1>5, <1>6, <1>7, <1>8, <1>9 DEF RollbackStep

\* The actuator dies, processes come and go, the user's session ends.
LEMMA EnvironmentType == TypeOK /\ Environment => TypeOK'
<1> SUFFICES ASSUME TypeOK, Environment PROVE TypeOK'
  OBVIOUS
<1> USE DEF kernel, store, call, history, ApplyPcs, RollbackPcs
<1>1. CASE Crash
  BY <1>1, ReturnType, BoundsAssumption DEF TypeOK, Crash
<1>2. CASE RemoveApp
  <2>1. group' \in [Groups -> GroupType]
    BY <1>2 DEF TypeOK, RemoveApp, GroupType
  <2> QED BY <1>2, <2>1 DEF TypeOK, RemoveApp
<1>3. ASSUME NEW p \in Pids, Exit(p) PROVE TypeOK'
  <2>1. proc' \in [Pids -> ProcessType]
    BY <1>3 DEF TypeOK, Exit, ProcessType
  <2> QED BY <1>3, <2>1 DEF TypeOK, Exit
<1>4. ASSUME NEW p \in Pids, Reuse(p) PROVE TypeOK'
  <2>1. proc' \in [Pids -> ProcessType]
    BY <1>4, BoundsAssumption DEF TypeOK, Reuse, ProcessType, Groups
  <2> QED BY <1>4, <2>1 DEF TypeOK, Reuse
<1> QED BY <1>1, <1>2, <1>3, <1>4 DEF Environment

\* Every step preserves the types.
LEMMA NextType == TypeOK /\ [Next]_vars => TypeOK'
<1> SUFFICES ASSUME TypeOK, [Next]_vars PROVE TypeOK'
  OBVIOUS
<1>1. ASSUME NEW i \in DOMAIN snaps, RollbackOne(i) PROVE TypeOK'
  BY <1>1 DEF TypeOK, RollbackOne, kernel, store, history, ApplyPcs, RollbackPcs
<1>2. CASE Recover
  BY <1>2 DEF TypeOK, Recover, IsFirst, Pending, kernel, store, history, ApplyPcs, RollbackPcs
<1>3. CASE UNCHANGED vars
  BY <1>3 DEF TypeOK, vars, kernel, store, call, history
<1> QED
  BY <1>1, <1>2, <1>3, PlanStepType, ApplyType, RollbackType, EnvironmentType
     DEF Next

\* Every reachable state of the actuator, its store and the kernel is well
\* typed, and a call past its first check works on a row of the store.
THEOREM TypeCorrect == Spec => []TypeOK
BY InitType, NextType, PTL DEF Spec

-----------------------------------------------------------------------------
(* Every managed process is accounted for, and no group is left behind. *)

\* What is said of the rows, the processes and the groups alone survives a
\* step that moves no process, keeps what matters of every row and creates no
\* group.
LEMMA Frame ==
    ASSUME CallInv, UNCHANGED proc, DOMAIN snaps' = DOMAIN snaps,
           \A i \in DOMAIN snaps :
               /\ snaps'[i].pid = snaps[i].pid
               /\ snaps'[i].start = snaps[i].start
               /\ snaps'[i].target = snaps[i].target
               /\ snaps'[i].original_group = snaps[i].original_group
               /\ snaps'[i].rolled_back = snaps[i].rolled_back,
           \A g \in Managed : group'[g].exists => group[g].exists
    PROVE  OriginalsInv' /\ AccountedFor' /\ NoResidue'
<1>1. OriginalsInv'
  BY DEF CallInv, OriginalsInv
<1>2. AccountedFor'
  BY DEF CallInv, AccountedFor
<1>3. NoResidue'
  BY DEF CallInv, NoResidue
<1> QED BY <1>1, <1>2, <1>3

\* Where no call is in progress, or a rollback has not looked yet, nothing is
\* said of the call.
LEMMA AtRest ==
    ASSUME OriginalsInv', AccountedFor', NoResidue', pc' \in {"idle", "rb_check"}
    PROVE  CallInv'
BY DEF CallInv, PlannedInv, ApplyInv, MoveInv, MovedInv, CleanupInv, ApplyPcs

\* A call that returns and leaves everything else as it is.
LEMMA ReturnInv ==
    ASSUME CallInv, UNCHANGED <<proc, snaps>>, pc' \in {"idle", "rb_check"},
           \A g \in Managed : group'[g].exists => group[g].exists
    PROVE  CallInv'
BY Frame, AtRest

\* Before the first plan nothing is managed.
LEMMA InitInv == Init => CallInv
<1> SUFFICES ASSUME Init PROVE CallInv
  OBVIOUS
<1>1. \A p \in Pids : proc[p].group = App
  BY DEF Init
<1>2. \A g \in Managed : ~group[g].exists
  BY DEF Init, Groups, Managed, App, Foreground, Background
<1>3. snaps = <<>> /\ pc = "idle"
  BY DEF Init
<1> QED BY <1>1, <1>2, <1>3
  DEF CallInv, OriginalsInv, PlannedInv, ApplyInv, MoveInv, MovedInv, CleanupInv,
      AccountedFor, NoResidue, ApplyPcs, App, Managed, Foreground, Background

\* plan: a process that no open row names is in no managed group.
LEMMA PlanInv ==
    ASSUME AllowReapply = FALSE, TypeOK, CallInv, NEW c \in Candidates, Plan(c)
    PROVE  CallInv'
<1>1. OriginalsInv' /\ AccountedFor' /\ NoResidue'
  BY Frame DEF Plan, kernel, store
<1>2. c.pid \in Pids
  BY CandidatesAssumption DEF CandidateType
<1>3. proc[c.pid].group = App
  <2>1. proc[c.pid].group \in Groups
    BY <1>2 DEF TypeOK, ProcessType, Plan, Alive
  <2>2. proc[c.pid].group \notin Managed
    BY <1>2 DEF Plan, UnderManagement, CallInv, AccountedFor
  <2> QED BY <2>1, <2>2 DEF Groups
<1>4. plan'.pid = c.pid /\ pc' = "planned" /\ UNCHANGED proc
  BY DEF Plan, kernel
<1>5. PlannedInv'
  BY <1>3, <1>4 DEF PlannedInv
<1> QED BY <1>1, <1>4, <1>5
  DEF CallInv, ApplyInv, MoveInv, MovedInv, CleanupInv, ApplyPcs

\* From the row on, a step of apply_one that neither moves a process nor
\* changes what matters of a row.
LEMMA ApplyGoesOn ==
    ASSUME TypeOK, CallInv, pc \in ApplyPcs \ {"planned"}, pc' \in ApplyPcs \ {"planned"},
           UNCHANGED <<plan, sid>>, DOMAIN snaps' = DOMAIN snaps,
           \A p \in Pids : /\ proc'[p].start = proc[p].start
                           /\ Alive(p)' => Alive(p),
           \A i \in DOMAIN snaps :
               /\ snaps'[i].pid = snaps[i].pid
               /\ snaps'[i].start = snaps[i].start
               /\ snaps'[i].target = snaps[i].target
               /\ snaps'[i].rolled_back = snaps[i].rolled_back,
           OriginalsInv', AccountedFor', NoResidue'
    PROVE  CallInv'
<1>1. sid \in DOMAIN snaps /\ plan \in PlanType
  BY DEF TypeOK, ApplyPcs
<1>2. plan.pid \in Pids
  BY <1>1 DEF PlanType
<1>3. ApplyInv'
  BY <1>1, <1>2 DEF CallInv, ApplyInv, Snapshot
<1> QED BY <1>3
  DEF CallInv, PlannedInv, MoveInv, MovedInv, CleanupInv, ApplyPcs

\* apply_one persists the row before it creates the group and moves the
\* process, and updates nothing but its own row.
LEMMA ApplyCallInv == TypeOK /\ CallInv /\ ApplyStep => CallInv'
<1> SUFFICES ASSUME TypeOK, CallInv, ApplyStep PROVE CallInv'
  OBVIOUS
<1> USE DEF kernel, store, history
<1>1. CASE ApplyRefused
  BY <1>1, ReturnInv DEF ApplyRefused, Return
<1>2. CASE ApplyPersist
  <2>1. /\ pc = "planned" /\ pc' = "create" /\ sid' = Len(snaps) + 1
        /\ snaps' = Append(snaps, NewSnapshot)
        /\ UNCHANGED <<proc, group, plan>>
    BY <1>2 DEF ApplyPersist, PersistRow
  <2>2. snaps \in Seq(SnapshotType) /\ plan.pid \in Pids
    BY <2>1 DEF TypeOK, ApplyPcs, PlanType
  <2>3. /\ DOMAIN snaps' = DOMAIN snaps \union {sid'} /\ sid' \notin DOMAIN snaps
        /\ snaps'[sid'] = NewSnapshot
        /\ \A i \in DOMAIN snaps : snaps'[i] = snaps[i]
    BY <2>1, <2>2
  <2>4. /\ NewSnapshot.original_group = App /\ NewSnapshot.pid = plan.pid
        /\ NewSnapshot.start = plan.start /\ NewSnapshot.target = plan.target
        /\ ~NewSnapshot.rolled_back
    BY <1>2, <2>1 DEF NewSnapshot, ApplyPersist, CallInv, PlannedInv
  <2>5. OriginalsInv'
    BY <2>3, <2>4 DEF CallInv, OriginalsInv
  <2>6. AccountedFor'
    BY <2>1, <2>3 DEF CallInv, AccountedFor
  <2>7. NoResidue'
    BY <2>1, <2>3 DEF CallInv, NoResidue
  <2>8. ApplyInv'
    BY <1>2, <2>1, <2>3, <2>4 DEF ApplyInv, Snapshot, ApplyPersist, SameInstance
  <2> QED BY <2>1, <2>5, <2>6, <2>7, <2>8
    DEF CallInv, PlannedInv, MoveInv, MovedInv, CleanupInv, ApplyPcs
<1>3. CASE ApplyCreate
  <2>1. /\ pc \in ApplyPcs \ {"planned"} /\ pc' \in ApplyPcs \ {"planned"}
        /\ UNCHANGED <<proc, snaps, plan, sid>>
    BY <1>3 DEF ApplyCreate, ApplyPcs
  <2>2. sid \in DOMAIN snaps /\ ~snaps[sid].rolled_back /\ snaps[sid].target = plan.target
    BY <2>1 DEF TypeOK, CallInv, ApplyInv, Snapshot, ApplyPcs
  <2>3. NoResidue'
    <3>1. \A g \in Managed : g # plan.target => group'[g] = group[g]
      BY <1>3 DEF ApplyCreate, TypeOK, Groups
    <3> QED BY <2>1, <2>2, <3>1 DEF CallInv, NoResidue
  <2>4. OriginalsInv' /\ AccountedFor'
    BY <2>1 DEF CallInv, OriginalsInv, AccountedFor
  <2> QED BY <2>1, <2>3, <2>4, ApplyGoesOn DEF Alive
<1>4. CASE ApplyRecord
  <2>1. /\ pc \in ApplyPcs \ {"planned"} /\ pc' \in ApplyPcs \ {"planned"}
        /\ UNCHANGED <<kernel, snaps, plan, sid>>
    BY <1>4 DEF ApplyRecord, ApplyPcs
  <2> QED BY <2>1, Frame, ApplyGoesOn DEF Alive
<1>5. CASE ApplySetProperties \/ ApplySetFails
  <2>1. /\ pc \in ApplyPcs \ {"planned"} /\ pc' \in ApplyPcs \ {"planned"}
        /\ UNCHANGED <<proc, snaps, plan, sid>>
    BY <1>5 DEF ApplySetProperties, ApplySetFails, ApplyPcs
  <2>2. plan.target \in Groups /\ plan.request \in Limits
    BY <2>1 DEF TypeOK, PlanType, Groups, ApplyPcs
  <2>3. \A g \in Managed : group'[g].exists => group[g].exists
    <3>1. group[plan.target] \in GroupType
      BY <2>2 DEF TypeOK
    <3>2. /\ WriteLimits(group[plan.target], plan.request).exists = group[plan.target].exists
          /\ WriteLow(group[plan.target], plan.request).exists = group[plan.target].exists
      BY <2>2, <3>1, WriteType
    <3> QED BY <1>5, <3>2 DEF ApplySetProperties, ApplySetFails, TypeOK, Groups
  <2> QED BY <2>1, <2>3, Frame, ApplyGoesOn DEF Alive
<1>6. CASE ApplyAttach
  <2>1. /\ pc \in ApplyPcs \ {"planned"} /\ pc' \in ApplyPcs \ {"planned"}
        /\ Alive(plan.pid) /\ UNCHANGED <<group, snaps, plan, sid>>
        /\ proc' = [proc EXCEPT ![plan.pid].group = plan.target]
    BY <1>6 DEF ApplyAttach, Attach, ApplyPcs
  <2>2. /\ sid \in DOMAIN snaps /\ plan.pid \in Pids
        /\ snaps[sid].pid = plan.pid /\ snaps[sid].target = plan.target
        /\ snaps[sid].start = proc[plan.pid].start /\ ~snaps[sid].rolled_back
    BY <2>1 DEF TypeOK, PlanType, CallInv, ApplyInv, Snapshot, ApplyPcs
  <2>3. /\ \A p \in Pids : proc'[p].start = proc[p].start
        /\ \A p \in Pids \ {plan.pid} : proc'[p] = proc[p]
        /\ proc'[plan.pid].group = plan.target
    BY <2>1, <2>2 DEF TypeOK, ProcessType
  <2>4. AccountedFor'
    BY <2>1, <2>2, <2>3 DEF CallInv, AccountedFor
  <2>5. OriginalsInv' /\ NoResidue'
    BY <2>1 DEF CallInv, OriginalsInv, NoResidue
  <2> QED BY <2>1, <2>3, <2>4, <2>5, ApplyGoesOn DEF Alive
<1>7. ASSUME NEW row, UpdateRow(row), sid \in DOMAIN snaps,
             row.pid = Snapshot.pid, row.start = Snapshot.start,
             row.target = Snapshot.target,
             row.original_group = Snapshot.original_group,
             row.rolled_back = Snapshot.rolled_back
      PROVE  /\ DOMAIN snaps' = DOMAIN snaps
             /\ \A i \in DOMAIN snaps :
                   /\ snaps'[i].pid = snaps[i].pid
                   /\ snaps'[i].start = snaps[i].start
                   /\ snaps'[i].target = snaps[i].target
                   /\ snaps'[i].original_group = snaps[i].original_group
                   /\ snaps'[i].rolled_back = snaps[i].rolled_back
  BY <1>7 DEF TypeOK, UpdateRow, Snapshot
<1>8. CASE ApplyMarkApplied
  <2>1. /\ pc \in ApplyPcs \ {"planned"} /\ pc' \in ApplyPcs \ {"planned"}
        /\ UpdateRow([Snapshot EXCEPT !.applied = TRUE])
        /\ UNCHANGED <<kernel, plan, sid>>
    BY <1>8 DEF ApplyMarkApplied, ApplyPcs
  <2>2. sid \in DOMAIN snaps /\ Snapshot \in SnapshotType
    BY <2>1 DEF TypeOK, Snapshot, ApplyPcs
  <2>3. LET row == [Snapshot EXCEPT !.applied = TRUE]
        IN  /\ row.pid = Snapshot.pid /\ row.start = Snapshot.start
            /\ row.target = Snapshot.target
            /\ row.original_group = Snapshot.original_group
            /\ row.rolled_back = Snapshot.rolled_back
    BY <2>2 DEF SnapshotType
  <2> QED BY <1>7, <2>1, <2>2, <2>3, Frame, ApplyGoesOn DEF Alive
<1>9. CASE ApplyReadback \/ ApplyUndo \/ ApplyAttachFails
  <2>1. CASE pc = "undo"
    BY <1>9, <2>1, ReturnInv DEF ApplyReadback, ApplyUndo, ApplyAttachFails
  <2>2. CASE pc # "undo"
    <3>1. /\ pc \in ApplyPcs \ {"planned"} /\ pc' \in ApplyPcs \ {"planned"}
          /\ UNCHANGED <<kernel, snaps, plan, sid>>
      BY <1>9, <2>2 DEF ApplyReadback, ApplyUndo, ApplyAttachFails, ApplyPcs
    <3> QED BY <3>1, Frame, ApplyGoesOn DEF Alive
  <2> QED BY <2>1, <2>2
<1>10. CASE ApplyMarkVerified
  <2>1. /\ pc = "mark_verified" /\ pc' = "idle"
        /\ UpdateRow([Snapshot EXCEPT !.verified = TRUE]) /\ UNCHANGED kernel
    BY <1>10 DEF ApplyMarkVerified, Return
  <2>2. sid \in DOMAIN snaps /\ Snapshot \in SnapshotType
    BY <2>1 DEF TypeOK, Snapshot, ApplyPcs
  <2>3. LET row == [Snapshot EXCEPT !.verified = TRUE]
        IN  /\ row.pid = Snapshot.pid /\ row.start = Snapshot.start
            /\ row.target = Snapshot.target
            /\ row.original_group = Snapshot.original_group
            /\ row.rolled_back = Snapshot.rolled_back
    BY <2>2 DEF SnapshotType
  <2> QED BY <1>7, <2>1, <2>2, <2>3, Frame, AtRest
<1>11. CASE ApplyFailsEarly \/ ApplyUpdateFails
  BY <1>11, ReturnInv DEF ApplyFailsEarly, ApplyUpdateFails, Return
<1> QED
  BY <1>1, <1>2, <1>3, <1>4, <1>5, <1>6, <1>8, <1>9, <1>10, <1>11 DEF ApplyStep

\* rollback_one moves the instance of its row back before it marks the row,
\* and marks it only when the group is gone or another open row needs it.
LEMMA RollbackCallInv == TypeOK /\ CallInv /\ RollbackStep => CallInv'
<1> SUFFICES ASSUME TypeOK, CallInv, RollbackStep PROVE CallInv'
  OBVIOUS
<1> USE DEF kernel, store, history
<1>1. /\ pc \in RollbackPcs /\ sid \in DOMAIN snaps /\ Snapshot \in SnapshotType
  <2>1. pc \in RollbackPcs
    BY DEF RollbackStep, RollbackCheck, RollbackAttach, RollbackSetProperties,
           RollbackCleanup, RollbackUnregister, RollbackMark,
           RollbackAttachGone, RollbackFails, RollbackPcs
  <2> QED BY <2>1 DEF TypeOK, Snapshot, RollbackPcs
<1>2. /\ Snapshot.pid \in Pids /\ Snapshot.target \in Managed
      /\ Snapshot.target \in Groups /\ Snapshot.original \in Limits
      /\ Snapshot.original_group = App
  BY <1>1 DEF SnapshotType, Groups, CallInv, OriginalsInv, Snapshot
<1>3. group[Snapshot.target] \in GroupType
  BY <1>2 DEF TypeOK
<1>4. /\ WriteLimits(group[Snapshot.target], Snapshot.original).exists
            = group[Snapshot.target].exists
      /\ WriteLow(group[Snapshot.target], Snapshot.original).exists
            = group[Snapshot.target].exists
  BY <1>2, <1>3, WriteType
<1>5. RollbackReturns => pc' \in {"idle", "rb_check"}
  BY DEF RollbackReturns, Return
<1>6. CASE RollbackCheck
  <2>1. UNCHANGED <<proc, group, snaps>>
    BY <1>6 DEF RollbackCheck
  <2>2. OriginalsInv' /\ AccountedFor' /\ NoResidue'
    BY <2>1, Frame
  <2>3. CASE RollbackReturns
    BY <1>5, <2>2, <2>3, AtRest
  <2>4. CASE /\ SameInstance(Snapshot.pid, Snapshot.start)
             /\ pc' = "rb_attach" /\ UNCHANGED <<plan, sid, queue>>
    BY <2>1, <2>2, <2>4
       DEF CallInv, PlannedInv, ApplyInv, MoveInv, MovedInv, CleanupInv, ApplyPcs,
           SameInstance, Snapshot
  <2>5. CASE /\ ~SameInstance(Snapshot.pid, Snapshot.start)
             /\ pc' = "rb_set" /\ UNCHANGED <<plan, sid, queue>>
    BY <2>1, <2>2, <2>5
       DEF CallInv, PlannedInv, ApplyInv, MoveInv, MovedInv, CleanupInv, ApplyPcs,
           SameInstance, Alive, Snapshot
  <2> QED BY <1>6, <2>3, <2>4, <2>5 DEF RollbackCheck
<1>7. CASE RollbackAttach
  <2>1. /\ pc' = "rb_set" /\ UNCHANGED <<group, snaps, plan, sid>>
        /\ proc' = [proc EXCEPT ![Snapshot.pid].group = App]
    BY <1>2, <1>7 DEF RollbackAttach, Attach
  <2>2. /\ \A p \in Pids \ {Snapshot.pid} : proc'[p] = proc[p]
        /\ proc'[Snapshot.pid].group = App /\ App \notin Managed
    BY <1>2, <2>1 DEF TypeOK, ProcessType, App, Managed, Foreground, Background
  <2>3. AccountedFor'
    BY <2>1, <2>2 DEF CallInv, AccountedFor
  <2>4. OriginalsInv' /\ NoResidue'
    BY <2>1 DEF CallInv, OriginalsInv, NoResidue
  <2>5. Snapshot' = Snapshot
    BY <2>1 DEF Snapshot
  <2>6. MovedInv'
    BY <2>2, <2>5 DEF MovedInv
  <2> QED BY <2>1, <2>3, <2>4, <2>6
    DEF CallInv, PlannedInv, ApplyInv, MoveInv, CleanupInv, ApplyPcs
<1>8. CASE RollbackSetProperties
  <2>1. /\ pc = "rb_set" /\ UNCHANGED <<proc, snaps, plan, sid>>
        /\ pc' = IF group[Snapshot.target].exists THEN "rb_cleanup" ELSE "rb_mark"
        /\ ~group[Snapshot.target].exists => group' = group
    BY <1>8 DEF RollbackSetProperties
  <2>2. \A g \in Managed : group'[g].exists => group[g].exists
    BY <1>4, <1>8 DEF RollbackSetProperties, TypeOK, Groups
  <2>3. OriginalsInv' /\ AccountedFor' /\ NoResidue'
    BY <2>1, <2>2, Frame
  <2>4. Snapshot' = Snapshot
    BY <2>1 DEF Snapshot
  <2>5. MovedInv'
    BY <2>1, <2>4 DEF CallInv, MovedInv, SameInstance, Alive
  <2>6. CleanupInv'
    BY <2>1, <2>4 DEF CleanupInv
  <2> QED BY <2>1, <2>3, <2>5, <2>6
    DEF CallInv, PlannedInv, ApplyInv, MoveInv, ApplyPcs
<1>9. CASE RollbackCleanup
  <2>1. pc = "rb_cleanup" /\ UNCHANGED <<proc, snaps, plan, sid>>
    BY <1>9 DEF RollbackCleanup
  <2>2. Snapshot' = Snapshot
    BY <2>1 DEF Snapshot
  <2>3. \A g \in Managed : group'[g].exists => group[g].exists
    BY <1>9 DEF RollbackCleanup, TypeOK, Groups
  <2>4. OriginalsInv' /\ AccountedFor' /\ NoResidue'
    BY <2>1, <2>3, Frame
  <2>5. pc' \in {"rb_unregister", "rb_mark"}
    BY <1>9 DEF RollbackCleanup
  <2>6. MovedInv'
    BY <2>1, <2>2 DEF CallInv, MovedInv, SameInstance, Alive
  <2>7. CleanupInv'
    <3>1. CASE Members(Snapshot.target) = {}
      <4>1. pc' = "rb_unregister" /\ ~group'[Snapshot.target].exists
        BY <1>2, <1>9, <3>1 DEF RollbackCleanup, TypeOK
      <4> QED BY <2>2, <4>1 DEF CleanupInv
    <3>2. CASE Members(Snapshot.target) # {}
      <4>1. pc' = "rb_mark"
        BY <1>9, <3>2 DEF RollbackCleanup
      <4>2. PICK p \in Pids : proc[p].group = Snapshot.target
        BY <3>2 DEF Members
      <4>3. PICK j \in DOMAIN snaps :
               /\ snaps[j].pid = p /\ snaps[j].start = proc[p].start
               /\ snaps[j].target = proc[p].group /\ ~snaps[j].rolled_back
        BY <1>2, <4>2 DEF CallInv, AccountedFor
      <4>4. Alive(p)
        BY <1>2, <4>2 DEF Alive, None, Managed, Foreground, Background
      <4>5. j # sid
        BY <1>2, <2>1, <4>2, <4>3, <4>4 DEF CallInv, MovedInv, SameInstance, Snapshot
      <4> QED BY <2>1, <2>2, <4>1, <4>2, <4>3, <4>5 DEF CleanupInv
    <3> QED BY <3>1, <3>2
  <2> QED BY <2>4, <2>5, <2>6, <2>7
    DEF CallInv, PlannedInv, ApplyInv, MoveInv, ApplyPcs
<1>10. CASE RollbackUnregister
  <2>1. /\ pc = "rb_unregister" /\ pc' = "rb_mark"
        /\ UNCHANGED <<proc, group, snaps, plan, sid>>
    BY <1>10 DEF RollbackUnregister
  <2>2. OriginalsInv' /\ AccountedFor' /\ NoResidue'
    BY <2>1, Frame
  <2>3. Snapshot' = Snapshot
    BY <2>1 DEF Snapshot
  <2>4. MovedInv'
    BY <2>1, <2>3 DEF CallInv, MovedInv, SameInstance, Alive
  <2>5. CleanupInv'
    BY <2>1, <2>3 DEF CallInv, CleanupInv
  <2> QED BY <2>1, <2>2, <2>4, <2>5
    DEF CallInv, PlannedInv, ApplyInv, MoveInv, ApplyPcs
<1>11. CASE RollbackMark
  <2>1. /\ pc = "rb_mark" /\ RollbackReturns /\ UNCHANGED <<proc, group>>
        /\ snaps' = [snaps EXCEPT ![sid] = [Snapshot EXCEPT !.rolled_back = TRUE]]
    BY <1>11 DEF RollbackMark, UpdateRow
  <2>2. /\ DOMAIN snaps' = DOMAIN snaps
        /\ \A i \in DOMAIN snaps \ {sid} : snaps'[i] = snaps[i]
        /\ snaps'[sid] = [Snapshot EXCEPT !.rolled_back = TRUE]
    BY <1>1, <2>1 DEF TypeOK
  <2>3. OriginalsInv'
    BY <1>1, <1>2, <2>2 DEF CallInv, OriginalsInv, SnapshotType
  <2>4. AccountedFor'
    <3> SUFFICES ASSUME NEW p \in Pids, proc[p].group \in Managed
                 PROVE  \E i \in DOMAIN snaps :
                          /\ snaps'[i].pid = p /\ snaps'[i].start = proc[p].start
                          /\ snaps'[i].target = proc[p].group
                          /\ ~snaps'[i].rolled_back
      BY <2>1, <2>2 DEF AccountedFor
    <3>1. PICK i \in DOMAIN snaps :
             /\ snaps[i].pid = p /\ snaps[i].start = proc[p].start
             /\ snaps[i].target = proc[p].group /\ ~snaps[i].rolled_back
      BY DEF CallInv, AccountedFor
    <3>2. Alive(p)
      BY DEF Alive, None, Managed, Foreground, Background
    <3>3. i # sid
      BY <2>1, <3>1, <3>2 DEF CallInv, MovedInv, SameInstance, Snapshot
    <3> QED BY <2>2, <3>1, <3>3
  <2>5. NoResidue'
    <3> SUFFICES ASSUME NEW g \in Managed, group[g].exists
                 PROVE  \E i \in DOMAIN snaps :
                          snaps'[i].target = g /\ ~snaps'[i].rolled_back
      BY <2>1, <2>2 DEF NoResidue
    <3>1. PICK i \in DOMAIN snaps : snaps[i].target = g /\ ~snaps[i].rolled_back
      BY DEF CallInv, NoResidue
    <3>2. CASE i # sid
      BY <2>2, <3>1, <3>2
    <3>3. CASE i = sid
      <4>1. PICK j \in DOMAIN snaps : /\ j # sid /\ ~snaps[j].rolled_back
                                      /\ snaps[j].target = g
        BY <2>1, <3>1, <3>3 DEF CallInv, CleanupInv, Snapshot
      <4> QED BY <2>2, <4>1
    <3> QED BY <3>2, <3>3
  <2> QED BY <1>5, <2>1, <2>3, <2>4, <2>5, AtRest
<1>12. CASE RollbackAttachGone
  BY <1>5, <1>12, ReturnInv DEF RollbackAttachGone
<1>13. CASE RollbackFails
  <2>1. \A g \in Managed : group'[g].exists => group[g].exists
    BY <1>4, <1>13 DEF RollbackFails, TypeOK, Groups
  <2> QED BY <1>5, <1>13, <2>1, ReturnInv DEF RollbackFails
<1> QED
  BY <1>6, <1>7, <1>8, <1>9, <1>10, <1>11, <1>12, <1>13 DEF RollbackStep

\* A rollback works on a row of the store.
LEMMA RowOfCall ==
    ASSUME TypeOK, pc \in RollbackPcs
    PROVE  Snapshot.pid \in Pids /\ Snapshot.target \in Managed
<1>1. Snapshot \in SnapshotType
  BY DEF TypeOK, Snapshot, RollbackPcs
<1> QED BY <1>1 DEF SnapshotType

\* A crash forgets the call; processes exit and PIDs come back as others, but
\* not in the middle of a call.
LEMMA EnvironmentInv ==
    ASSUME ReuseDuringOp = FALSE, TypeOK, CallInv, Environment
    PROVE  CallInv'
<1> USE DEF kernel, store, call, history
<1>1. CASE Crash
  BY <1>1, ReturnInv DEF Crash, Return
<1>2. CASE RemoveApp
  <2>1. /\ UNCHANGED <<proc, snaps, pc, plan, sid>>
        /\ \A g \in Managed : group'[g] = group[g]
    BY <1>2 DEF RemoveApp, TypeOK, Groups, App, Managed, Foreground, Background
  <2>2. OriginalsInv' /\ AccountedFor' /\ NoResidue'
    BY <2>1, Frame
  <2>3. CleanupInv'
    <3>1. pc \in {"rb_unregister", "rb_mark"} => Snapshot.target \in Managed
      BY RowOfCall DEF RollbackPcs
    <3> QED BY <2>1, <3>1 DEF CallInv, CleanupInv, Snapshot
  <2>4. PlannedInv' /\ ApplyInv' /\ MoveInv' /\ MovedInv'
    BY <2>1 DEF CallInv, PlannedInv, ApplyInv, MoveInv, MovedInv, Snapshot,
                SameInstance, Alive
  <2> QED BY <2>2, <2>3, <2>4 DEF CallInv
<1>3. ASSUME NEW p \in Pids, Exit(p) \/ Reuse(p)
      PROVE  CallInv'
  <2>1. UNCHANGED <<group, snaps, pc, plan, sid>>
    BY <1>3 DEF Exit, Reuse
  <2>2. /\ proc'[p].group \notin Managed
        /\ \A q \in Pids \ {p} : proc'[q] = proc[q]
    BY <1>3 DEF Exit, Reuse, TypeOK, ProcessType, None, App, Managed, Foreground, Background
  <2>3. AccountedFor' /\ OriginalsInv' /\ NoResidue' /\ CleanupInv'
    BY <2>1, <2>2 DEF CallInv, AccountedFor, OriginalsInv, NoResidue, CleanupInv, Snapshot
  <2>4. MovedInv'
    <3>1. pc \in {"rb_set", "rb_cleanup", "rb_unregister", "rb_mark"} =>
             Snapshot.pid \in Pids
      BY RowOfCall DEF RollbackPcs
    <3> QED BY <2>1, <2>2, <3>1 DEF CallInv, MovedInv, SameInstance, Alive, Snapshot
  <2>5. PlannedInv'
    <3>1. pc = "planned" => plan.pid \in Pids
      BY DEF TypeOK, PlanType, ApplyPcs
    <3>2. Alive(p)' => proc'[p].group = App
      BY <1>3 DEF Alive, Exit, Reuse, TypeOK, ProcessType
    <3> QED BY <2>1, <2>2, <3>1, <3>2 DEF CallInv, PlannedInv, SameInstance, Alive
  <2>6. ApplyInv' /\ MoveInv'
    <3>1. pc \in (ApplyPcs \ {"planned"}) \union {"rb_attach"} =>
             (Alive(p)' => proc'[p].start = proc[p].start /\ Alive(p))
      BY <1>3 DEF Alive, Exit, Reuse, TypeOK, ProcessType, ApplyPcs
    <3>2. /\ pc \in ApplyPcs => plan.pid \in Pids
          /\ pc = "rb_attach" => Snapshot.pid \in Pids
      BY RowOfCall DEF TypeOK, PlanType, RollbackPcs
    <3>3. ApplyInv'
      BY <2>1, <2>2, <3>1, <3>2 DEF CallInv, ApplyInv, Alive, Snapshot
    <3>4. MoveInv'
      BY <2>1, <2>2, <3>1, <3>2 DEF CallInv, MoveInv, Alive, Snapshot
    <3> QED BY <3>3, <3>4
  <2> QED BY <2>3, <2>4, <2>5, <2>6 DEF CallInv
<1> QED BY <1>1, <1>2, <1>3 DEF Environment

\* Every step preserves the inductive invariant.
LEMMA NextInv ==
    ASSUME AllowReapply = FALSE, ReuseDuringOp = FALSE, TypeOK, CallInv, [Next]_vars
    PROVE  CallInv'
<1> USE DEF kernel, store, call, history
<1>1. ASSUME NEW i \in DOMAIN snaps, RollbackOne(i) PROVE CallInv'
  BY <1>1, ReturnInv DEF RollbackOne
<1>2. CASE Recover
  BY <1>2, ReturnInv DEF Recover
<1>3. CASE UNCHANGED vars
  BY <1>3 DEF vars, CallInv, OriginalsInv, PlannedInv, ApplyInv, MoveInv, MovedInv,
              CleanupInv, AccountedFor, NoResidue, Snapshot, SameInstance, Alive
<1> QED
  BY <1>1, <1>2, <1>3, PlanInv, ApplyCallInv, RollbackCallInv, EnvironmentInv
     DEF Next

\* The inductive invariant holds throughout.
LEMMA CallInvHolds ==
    ASSUME AllowReapply = FALSE, ReuseDuringOp = FALSE
    PROVE  Spec => []CallInv
<1>1. TypeOK /\ CallInv /\ [Next]_vars => CallInv'
  BY NextInv
<1> QED BY <1>1, InitInv, TypeCorrect, PTL DEF Spec

\* If no process is planned while it is managed and no PID is reused between
\* a check and its use, then through any crashes, failing calls, exits and
\* later PID reuse every process in a managed group is the very instance that
\* a snapshot which is not rolled back names.
THEOREM AccountedForHolds ==
    ASSUME AllowReapply = FALSE, ReuseDuringOp = FALSE
    PROVE  Spec => []AccountedFor
<1>1. CallInv => AccountedFor BY DEF CallInv
<1> QED BY <1>1, CallInvHolds, PTL

\* Under the same assumptions a managed group never outlives the rollback of
\* all the snapshots that name it.
THEOREM NoResidueHolds ==
    ASSUME AllowReapply = FALSE, ReuseDuringOp = FALSE
    PROVE  Spec => []NoResidue
<1>1. CallInv => NoResidue BY DEF CallInv
<1> QED BY <1>1, CallInvHolds, PTL
=============================================================================
