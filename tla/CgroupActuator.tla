--------------------------- MODULE CgroupActuator ---------------------------
(***************************************************************************)
(* The cgroup v2 actuator of Nemor (crates/actuator): plan, apply_one,     *)
(* rollback_one and recover over the Linux backend, with the persistent    *)
(* snapshot store.  Every backend or store call that changes something is  *)
(* a step of its own, so that a crash, a failing call, a process that      *)
(* exits or a PID that is reused can fall between any two of them.         *)
(*                                                                         *)
(* A kernel limit is a number; memory.low of a new group reads 0 and       *)
(* memory.high reads "max", which the backend parses as None.              *)
(***************************************************************************)
EXTENDS Integers, Sequences, FiniteSets

CONSTANTS
    Pids,          \* process ids
    Candidates,    \* classified processes a plan may be asked for
    LowValues,     \* values memory_low_bytes may compute
    HighValues,    \* values memory_high_bytes may compute
    DryRun,        \* observe mode, cgroups.dry_run or not cgroups.enabled
    AllowMove,     \* cgroups.allow_move
    AllowReapply,  \* may a process be planned again while it is managed?
    ReuseDuringOp, \* may a PID be reused between a check and its use?
    MaxStart,      \* bound: process instances per PID
    MaxSnapshots,  \* bound: snapshots persisted
    MaxFailures,   \* bound: failing backend and store calls
    MaxCrashes     \* bound: crashes of the actuator

None == "None"
NoLimit == -1      \* Option::None of a limit, and "max"

Foreground == "nemor-foreground.slice"
Background == "nemor-background.slice"
Managed == {Foreground, Background}
App == "/user.slice/app.scope"
Groups == Managed \union {App}

CandidateType ==
    [pid : Pids, allow_listed : BOOLEAN, unknown : BOOLEAN,
     protected : BOOLEAN, background : BOOLEAN]

ASSUME CandidatesAssumption == Candidates \subseteq CandidateType
ASSUME ValuesAssumption == LowValues \subseteq Nat /\ HighValues \subseteq Nat
ASSUME FlagsAssumption ==
    {DryRun, AllowMove, AllowReapply, ReuseDuringOp} \subseteq BOOLEAN
ASSUME BoundsAssumption ==
    /\ MaxStart \in Nat /\ MaxStart >= 1
    /\ MaxSnapshots \in Nat /\ MaxFailures \in Nat /\ MaxCrashes \in Nat

VARIABLES
    proc,      \* kernel: start ticks and cgroup of the process behind a PID
    group,     \* kernel: does a cgroup exist, and its two limits
    snaps,     \* store: the rows of cgroup_snapshots, in id order
    managed,   \* store: the registered managed groups
    pc,        \* where the call in progress stands, "idle" if there is none
    plan,      \* the plan being applied
    sid,       \* id of the snapshot the call works on
    queue,     \* pending snapshots recover has still to roll back
    failures,  \* failing calls so far
    crashes,   \* crashes so far
    disturbed  \* history: a failure, a crash or an exit happened

kernel == <<proc, group>>
store == <<snaps, managed>>
call == <<pc, plan, sid, queue>>
history == <<failures, crashes, disturbed>>
vars == <<kernel, store, call, history>>

Limits == [low : LowValues \union {0, NoLimit}, high : HighValues \union {NoLimit}]
NoLimits == [low |-> NoLimit, high |-> NoLimit]
NoPlan == [pid |-> None, start |-> 0, allowed |-> FALSE, target |-> None,
           request |-> NoLimits]

Alive(p) == proc[p].group # None
Members(g) == {p \in Pids : proc[p].group = g}

\* The snapshot store; ids are the order of the sequence.
PersistRow(row) == snaps' = Append(snaps, row)
UpdateRow(row) == snaps' = [snaps EXCEPT ![sid] = row]
RecordManagedGroup(g) == managed' = managed \union {g}
RemoveManagedGroup(g) == managed' = managed \ {g}

Pending == {i \in DOMAIN snaps : snaps[i].applied /\ ~snaps[i].rolled_back}

Snapshot == snaps[sid]

\* The process behind the PID is the instance the snapshot was taken of.
SameInstance(p, start) == Alive(p) /\ proc[p].start = start

Init ==
    /\ proc = [p \in Pids |-> [start |-> 1, group |-> App]]
    /\ group = [g \in Groups |->
                  [exists |-> g = App, low |-> 0, high |-> NoLimit]]
    /\ snaps = <<>> /\ managed = {}
    /\ pc = "idle" /\ plan = NoPlan /\ sid = 0 /\ queue = {}
    /\ failures = 0 /\ crashes = 0 /\ disturbed = FALSE

----------------------------------------------------------------------------
(* plan *)

Blocked(c) ==
    \/ ~c.allow_listed
    \/ c.unknown
    \/ ~c.protected /\ ~c.background
    \/ ~AllowMove

\* Is the process already under a snapshot that was not rolled back?
UnderManagement(p) ==
    \E i \in DOMAIN snaps : /\ snaps[i].pid = p /\ snaps[i].start = proc[p].start
                           /\ ~snaps[i].rolled_back

\* The sample behind the plan was taken while the process was alive.
Plan(c) ==
    /\ pc = "idle" /\ Len(snaps) < MaxSnapshots
    /\ Alive(c.pid)
    /\ AllowReapply \/ ~UnderManagement(c.pid)
    /\ \E low \in LowValues, high \in HighValues :
         plan' = [pid |-> c.pid, start |-> proc[c.pid].start,
                  allowed |-> ~Blocked(c),
                  target |-> IF c.protected THEN Foreground ELSE Background,
                  request |-> IF c.protected
                              THEN [low |-> low, high |-> NoLimit]
                              ELSE [low |-> NoLimit, high |-> high]]
    /\ pc' = "planned"
    /\ UNCHANGED <<kernel, store, sid, queue, history>>

----------------------------------------------------------------------------
(* apply_one *)

Return ==
    /\ pc' = "idle" /\ plan' = NoPlan /\ sid' = 0 /\ queue' = {}

\* A failing backend or store call; the bound keeps the model finite.
Fail ==
    /\ failures < MaxFailures
    /\ failures' = failures + 1
    /\ disturbed' = TRUE
    /\ UNCHANGED crashes

\* Dry run, a blocked plan, or an identity that no longer matches.
ApplyRefused ==
    /\ pc = "planned"
    /\ DryRun \/ ~plan.allowed \/ ~SameInstance(plan.pid, plan.start)
    /\ Return
    /\ UNCHANGED <<kernel, store, history>>

NewSnapshot ==
    [pid |-> plan.pid, start |-> plan.start,
     original_group |-> proc[plan.pid].group, target |-> plan.target,
     original |-> IF group[plan.target].exists
                  THEN [low |-> group[plan.target].low,
                        high |-> group[plan.target].high]
                  ELSE NoLimits,
     requested |-> plan.request,
     applied |-> FALSE, verified |-> FALSE, rolled_back |-> FALSE]

\* Mutant: the process is known by its PID alone.
ApplyPersistAnyInstance ==
    /\ pc = "planned"
    /\ ~DryRun /\ plan.allowed /\ Alive(plan.pid)
    /\ PersistRow(NewSnapshot)
    /\ sid' = Len(snaps) + 1
    /\ pc' = "create"
    /\ UNCHANGED <<kernel, managed, plan, queue, history>>

\* The checks passed: read the placement and the target's limits, persist.
ApplyPersist ==
    /\ pc = "planned"
    /\ ~DryRun /\ plan.allowed /\ SameInstance(plan.pid, plan.start)
    /\ PersistRow(NewSnapshot)
    /\ sid' = Len(snaps) + 1
    /\ pc' = "create"
    /\ UNCHANGED <<kernel, managed, plan, queue, history>>

NewGroup == [exists |-> TRUE, low |-> 0, high |-> NoLimit]

ApplyCreate ==
    /\ pc = "create"
    /\ IF group[plan.target].exists
       THEN pc' = "set" /\ UNCHANGED group
       ELSE pc' = "record" /\ group' = [group EXCEPT ![plan.target] = NewGroup]
    /\ UNCHANGED <<proc, store, plan, sid, queue, history>>

ApplyRecord ==
    /\ pc = "record"
    /\ RecordManagedGroup(plan.target)
    /\ pc' = "set"
    /\ UNCHANGED <<kernel, snaps, plan, sid, queue, history>>

\* LinuxCgroupBackend::set_properties writes only the limits that are Some.
WriteLow(g, l) ==
    IF l.low = NoLimit THEN g ELSE [g EXCEPT !.low = l.low]
WriteLimits(g, l) ==
    LET h == WriteLow(g, l)
    IN  IF l.high = NoLimit THEN h ELSE [h EXCEPT !.high = l.high]

ApplySetProperties ==
    /\ pc = "set"
    /\ group' = [group EXCEPT ![plan.target] = WriteLimits(@, plan.request)]
    /\ pc' = "attach"
    /\ UNCHANGED <<proc, store, plan, sid, queue, history>>

\* The kernel moves whatever process has the PID now; a dead one is an error.
Attach(p, g) ==
    /\ Alive(p) /\ group[g].exists
    /\ proc' = [proc EXCEPT ![p].group = g]
    /\ UNCHANGED group

ApplyAttach ==
    /\ pc = "attach"
    /\ Attach(plan.pid, plan.target)
    /\ pc' = "mark_applied"
    /\ UNCHANGED <<store, plan, sid, queue, history>>

ApplyMarkApplied ==
    /\ pc = "mark_applied"
    /\ UpdateRow([Snapshot EXCEPT !.applied = TRUE])
    /\ pc' = "readback"
    /\ UNCHANGED <<kernel, managed, plan, sid, queue, history>>

\* inspect_group: memory.low always parses, memory.high "max" does not.
Readback(g) == [low |-> group[g].low, high |-> group[g].high]

ReadbackMatches ==
    /\ proc[plan.pid].group = plan.target
    /\ Readback(plan.target) = plan.request

ApplyReadback ==
    /\ pc = "readback"
    /\ pc' = IF ReadbackMatches THEN "mark_verified" ELSE "undo"
    /\ UNCHANGED <<kernel, store, plan, sid, queue, history>>

ApplyMarkVerified ==
    /\ pc = "mark_verified"
    /\ UpdateRow([Snapshot EXCEPT !.verified = TRUE])
    /\ Return
    /\ UNCHANGED <<kernel, managed, history>>

\* The error is recorded in the row before rollback_one is called.
ApplyUndo ==
    /\ pc = "undo"
    /\ pc' = "rb_check"
    /\ UNCHANGED <<kernel, store, plan, sid, queue, history>>

\* A missing capability, or a call before the first write to the target that
\* fails: `?` returns at once.
ApplyFailsEarly ==
    /\ pc \in {"planned", "create", "record"}
    /\ Fail /\ Return
    /\ UNCHANGED <<kernel, store>>

\* set_properties fails before or after its first write.
ApplySetFails ==
    /\ pc = "set"
    /\ Fail
    /\ group' \in {group, [group EXCEPT ![plan.target] = WriteLow(@, plan.request)]}
    /\ pc' = "undo"
    /\ UNCHANGED <<proc, store, plan, sid, queue>>

\* attach_pid fails, by itself or because the process is gone.
ApplyAttachFails ==
    /\ pc = "attach"
    /\ IF Alive(plan.pid) THEN Fail ELSE UNCHANGED history
    /\ pc' = "undo"
    /\ UNCHANGED <<kernel, store, plan, sid, queue>>

\* The store refuses an update of the row: `?` returns at once.
ApplyUpdateFails ==
    /\ pc \in {"mark_applied", "mark_verified", "undo"}
    /\ Fail /\ Return
    /\ UNCHANGED <<kernel, store>>

----------------------------------------------------------------------------
(* rollback_one and recover *)

IsFirst(i, ids) == i \in ids /\ \A j \in ids : i <= j

\* rollback_one returns; recover goes on with the next pending snapshot.
RollbackReturns ==
    IF queue = {} THEN Return
    ELSE \E i \in queue :
            /\ IsFirst(i, queue)
            /\ sid' = i /\ queue' = queue \ {i}
            /\ pc' = "rb_check"
            /\ UNCHANGED plan

\* rollback_one on the snapshot apply_one returned.
RollbackOne(i) ==
    /\ pc = "idle"
    /\ snaps[i].verified /\ ~snaps[i].rolled_back
    /\ sid' = i /\ pc' = "rb_check"
    /\ UNCHANGED <<kernel, store, plan, queue, history>>

Recover ==
    /\ pc = "idle"
    /\ \E i \in Pending :
          IsFirst(i, Pending) /\ sid' = i /\ queue' = Pending \ {i}
    /\ pc' = "rb_check"
    /\ UNCHANGED <<kernel, store, plan, history>>

\* Mutant: a terminated or reused PID makes the rollback fail.
RollbackCheckStrict ==
    /\ pc = "rb_check"
    /\ IF SameInstance(Snapshot.pid, Snapshot.start)
          /\ group[Snapshot.original_group].exists
       THEN pc' = "rb_attach" /\ UNCHANGED <<plan, sid, queue>>
       ELSE RollbackReturns
    /\ UNCHANGED <<kernel, store, history>>

\* Only the same process instance is moved back, and only to a group that
\* still exists.
RollbackCheck ==
    /\ pc = "rb_check"
    /\ IF SameInstance(Snapshot.pid, Snapshot.start)
       THEN IF group[Snapshot.original_group].exists
            THEN pc' = "rb_attach" /\ UNCHANGED <<plan, sid, queue>>
            ELSE RollbackReturns
       ELSE pc' = "rb_set" /\ UNCHANGED <<plan, sid, queue>>
    /\ UNCHANGED <<kernel, store, history>>

RollbackAttach ==
    /\ pc = "rb_attach"
    /\ Attach(Snapshot.pid, Snapshot.original_group)
    /\ pc' = "rb_set"
    /\ UNCHANGED <<store, plan, sid, queue, history>>

RollbackSetProperties ==
    /\ pc = "rb_set"
    /\ IF group[Snapshot.target].exists
       THEN /\ group' = [group EXCEPT ![Snapshot.target] =
                                        WriteLimits(@, Snapshot.original)]
            /\ pc' = "rb_cleanup"
       ELSE pc' = "rb_mark" /\ UNCHANGED group
    /\ UNCHANGED <<proc, store, plan, sid, queue, history>>

\* Mutant: the test for emptiness is inverted.
RollbackCleanupInverted ==
    /\ pc = "rb_cleanup"
    /\ IF Members(Snapshot.target) # {}
       THEN /\ group' = [group EXCEPT ![Snapshot.target] =
                           [exists |-> FALSE, low |-> 0, high |-> NoLimit]]
            /\ pc' = "rb_unregister"
       ELSE pc' = "rb_mark" /\ UNCHANGED group
    /\ UNCHANGED <<proc, store, plan, sid, queue, history>>

\* cleanup_empty_owned_group removes the group only when it holds no PID.
RollbackCleanup ==
    /\ pc = "rb_cleanup"
    /\ IF Members(Snapshot.target) = {}
       THEN /\ group' = [group EXCEPT ![Snapshot.target] =
                           [exists |-> FALSE, low |-> 0, high |-> NoLimit]]
            /\ pc' = "rb_unregister"
       ELSE pc' = "rb_mark" /\ UNCHANGED group
    /\ UNCHANGED <<proc, store, plan, sid, queue, history>>

RollbackUnregister ==
    /\ pc = "rb_unregister"
    /\ RemoveManagedGroup(Snapshot.target)
    /\ pc' = "rb_mark"
    /\ UNCHANGED <<kernel, snaps, plan, sid, queue, history>>

RollbackMark ==
    /\ pc = "rb_mark"
    /\ UpdateRow([Snapshot EXCEPT !.rolled_back = TRUE])
    /\ RollbackReturns
    /\ UNCHANGED <<kernel, managed, history>>

\* The process or its original group went away after the check.
RollbackAttachGone ==
    /\ pc = "rb_attach"
    /\ ~Alive(Snapshot.pid) \/ ~group[Snapshot.original_group].exists
    /\ RollbackReturns
    /\ UNCHANGED <<kernel, store, history>>

RollbackFails ==
    /\ pc \in {"rb_attach", "rb_set", "rb_cleanup", "rb_unregister", "rb_mark"}
    /\ Fail /\ RollbackReturns
    /\ IF pc = "rb_set" /\ group[Snapshot.target].exists
       THEN group' \in {group, [group EXCEPT ![Snapshot.target] =
                                   WriteLow(@, Snapshot.original)]}
       ELSE UNCHANGED group
    /\ UNCHANGED <<proc, store>>

----------------------------------------------------------------------------
(* The environment *)

\* The actuator's process dies; the kernel and the database stay.
Crash ==
    /\ pc # "idle" /\ crashes < MaxCrashes
    /\ Return
    /\ crashes' = crashes + 1 /\ disturbed' = TRUE
    /\ UNCHANGED <<kernel, store, failures>>

Exit(p) ==
    /\ Alive(p)
    /\ proc' = [proc EXCEPT ![p].group = None]
    /\ disturbed' = TRUE
    /\ UNCHANGED <<group, store, call, failures, crashes>>

\* A new process gets the PID of one that is gone.
Reuse(p) ==
    /\ ~Alive(p) /\ proc[p].start < MaxStart /\ group[App].exists
    /\ ReuseDuringOp \/ pc \in {"idle", "planned", "rb_check"}
    /\ proc' = [proc EXCEPT ![p] = [start |-> @.start + 1, group |-> App]]
    /\ UNCHANGED <<group, store, call, history>>

\* The user session ends: its empty cgroup goes away.
RemoveApp ==
    /\ group[App].exists /\ Members(App) = {}
    /\ group' = [group EXCEPT ![App].exists = FALSE]
    /\ UNCHANGED <<proc, store, call, history>>

ApplyStep ==
    \/ ApplyRefused \/ ApplyPersist \/ ApplyCreate \/ ApplyRecord
    \/ ApplySetProperties \/ ApplyAttach \/ ApplyMarkApplied
    \/ ApplyReadback \/ ApplyMarkVerified \/ ApplyUndo
    \/ ApplyFailsEarly \/ ApplySetFails \/ ApplyAttachFails
    \/ ApplyUpdateFails

RollbackStep ==
    \/ RollbackCheck \/ RollbackAttach \/ RollbackSetProperties
    \/ RollbackCleanup \/ RollbackUnregister \/ RollbackMark
    \/ RollbackAttachGone \/ RollbackFails

Environment ==
    \/ Crash \/ RemoveApp
    \/ \E p \in Pids : Exit(p) \/ Reuse(p)

Next ==
    \/ \E c \in Candidates : Plan(c)
    \/ ApplyStep
    \/ \E i \in DOMAIN snaps : RollbackOne(i)
    \/ Recover
    \/ RollbackStep
    \/ Environment

Spec == Init /\ [][Next]_vars

\* A call in progress goes on, and recovery is retried while rows are pending,
\* however often other calls come in between.
Fairness == WF_vars(ApplyStep) /\ WF_vars(RollbackStep) /\ SF_vars(Recover)

FairSpec == Spec /\ Fairness

----------------------------------------------------------------------------
(* Properties *)

ApplyPcs ==
    {"planned", "create", "record", "set", "attach", "mark_applied",
     "readback", "mark_verified", "undo"}
RollbackPcs ==
    {"rb_check", "rb_attach", "rb_set", "rb_cleanup", "rb_unregister", "rb_mark"}

ProcessType == [start : 1..MaxStart, group : Groups \union {None}]

GroupType ==
    [exists : BOOLEAN, low : LowValues \union {0},
     high : HighValues \union {NoLimit}]

SnapshotType ==
    [pid : Pids, start : 1..MaxStart, original_group : Groups,
     target : Managed, original : Limits, requested : Limits,
     applied : BOOLEAN, verified : BOOLEAN, rolled_back : BOOLEAN]

PlanType ==
    [pid : Pids, start : 1..MaxStart, allowed : BOOLEAN, target : Managed,
     request : Limits]

\* Every variable has its type; a call past its first check works on a row
\* of the store.
TypeOK ==
    /\ proc \in [Pids -> ProcessType]
    /\ group \in [Groups -> GroupType]
    /\ snaps \in Seq(SnapshotType)
    /\ managed \subseteq Managed
    /\ pc \in {"idle"} \union ApplyPcs \union RollbackPcs
    /\ plan \in IF pc \in ApplyPcs THEN PlanType ELSE PlanType \union {NoPlan}
    /\ sid \in IF pc \in {"idle", "planned"} THEN {0} ELSE DOMAIN snaps
    /\ queue \subseteq DOMAIN snaps
    /\ failures \in 0..MaxFailures /\ crashes \in 0..MaxCrashes
    /\ disturbed \in BOOLEAN

\* apply_one persists before it moves and rollback_one moves back before it
\* marks: through crashes, failing calls, exits and PID reuse between calls,
\* every process inside a managed group is the very instance some snapshot
\* that is not rolled back put there.
AccountedFor ==
    \A p \in Pids : proc[p].group \in Managed =>
        \E i \in DOMAIN snaps :
            /\ snaps[i].pid = p /\ snaps[i].start = proc[p].start
            /\ snaps[i].target = proc[p].group /\ ~snaps[i].rolled_back

\* rollback_one: once every snapshot of a managed group is rolled back, in
\* whatever order and after whatever retries, the group is gone from the
\* kernel, and its limits with it.
NoResidue ==
    \A g \in Managed :
        (\A i \in DOMAIN snaps : snaps[i].target = g => snaps[i].rolled_back)
            => ~group[g].exists

\* recover, retried, ends with no pending row, unless a live process has lost
\* the group it should go back to ("placement left untouched").
RecoveryCompletes ==
    <>[](Pending = {} \/ ~group[App].exists)

\* tests.rs: an apply that nothing disturbed is verified.
UndisturbedApplyVerifies == pc = "undo" => disturbed
============================================================================
