--------------------------- MODULE HostValidation ---------------------------
(***************************************************************************)
(* nemor-privileged-validation --cgroups, --zram, --tiering and --all (the *)
(* three scopes one after another), with the swapfile transaction of the   *)
(* tiering crate, the two crash workers and --cleanup-owned-residue.       *)
(*                                                                         *)
(* A scope is a list of steps.  A step that fails ends its scope: the      *)
(* guards of the scope (and of the worker it runs) are dropped in reverse  *)
(* order of their creation, errors in them are ignored, and the next scope *)
(* begins.  DAMON, DAMOS and KSM have modules of their own.                *)
(*                                                                         *)
(* zram devices are numbers, 0 is the protected /dev/zram0; the swapfile   *)
(* of run r is the swap -r, as every run derives a new path from the clock.*)
(***************************************************************************)
EXTENDS Integers, FiniteSets, Sequences, SequencesExt

CONSTANTS
    Others,      \* zram devices another tool may have at the start
    MaxIndex,    \* bound: zram devices 0 .. MaxIndex
    MaxRuns,     \* bound: validation runs
    MaxFaults,   \* bound: calls that fail
    MaxForeign   \* bound: steps of other parties

ASSUME BoundsAssumption == {MaxIndex, MaxRuns, MaxFaults, MaxForeign} \subseteq Nat
ASSUME OthersAssumption == Others \subseteq 1 .. MaxIndex

VARIABLES
    dev,       \* host: who made each zram device
    swaps,     \* host: the active swaps
    file,      \* host: the swapfile of each run
    groups,    \* host: validation cgroups
    proc,      \* host: where each sleeper is
    stateDir,  \* host: does STATE_DIR exist?
    record,    \* host: the device zram-recovery.json names
    report,    \* host: what the report on disk names
    run,       \* harness: number of the run
    todo,      \* harness: the steps still to take
    base,      \* harness: the baseline snapshots of the run and of its worker;
               \*   history: devices that earlier runs left, or a guard refused
    name,      \* harness: the device that plays each role
    reg,       \* harness: ZramCleanup.names of the run and of its worker
    guards,    \* harness: armed guards of sleepers and groups
    evid,      \* harness: device names in the evidence
    snap,      \* harness: MutationSnapshot of the swapfile, and its ownership
    late,      \* harness: are the 180 seconds over?
    unwinding, \* harness: are guards being dropped?
    blame,     \* history: steps that failed in this run
    verdict,   \* harness: how the run ended
    faults, acts

host == <<dev, swaps, file, groups, proc, stateDir, record, report>>
zram == <<dev, reg, name, evid, record>>
cgroup == <<groups, proc, guards>>
swapfile == <<file, snap>>
rest == <<run, base, acts>>
ended == <<stateDir, report, verdict>>
vars == <<host, run, todo, base, name, reg, guards, evid, snap, late,
          unwinding, blame, verdict, faults, acts>>

Index == 0 .. MaxIndex
NoDev == -1
Roles == {"bench", "a", "b", "w"}
Sleepers == {"main", "crash"}
Owners == {"harness", "worker"}
Guards == {"child", "cleanup", "w_child", "w_cleanup", "recovery", "crash_group"}
Fresh == [created |-> FALSE, activated |-> FALSE, rolled |-> FALSE, owned |-> FALSE]
NoReport == [names |-> {}, devs |-> {}, valid |-> FALSE]

Existing == {d \in Index : dev[d] # "none"}
Free == Index \ Existing
Lowest(s) == CHOOSE d \in s : \A e \in s : d <= e
Path == -run

----------------------------------------------------------------------------
(* The programs *)

S(op, arg) == [op |-> op, arg |-> arg]

CgroupWorkerSteps ==
    <<S("spawn", "crash"), S("guard", "crash"), S("apply", "crash"), S("w_forget", "none")>>

CgroupSteps ==
    <<S("spawn", "main"), S("guard", "main"), S("deadline", "none"), S("apply", "main"),
      S("inspect", "none"), S("rollback", "main"), S("rollback", "main")>>
    \o CgroupWorkerSteps
    \o <<S("adopt", "none"), S("rollback", "crash"), S("rollback", "crash"),
         S("end_sleeper", "crash"), S("end_child", "main"), S("no_groups", "none")>>

ZramWorkerSteps ==
    <<S("w_base", "none"), S("add", "w"), S("setup", "w"), S("on", "w"), S("check", "w"),
      S("w_persist", "w")>>

ZramSteps ==
    <<S("deadline", "none"), S("add", "bench"), S("setup", "bench"), S("benchmark", "none"),
      S("remove", "bench"), S("deadline", "none"), S("add", "a"), S("add", "b"),
      S("setup", "a"), S("setup", "b"), S("on", "a"), S("check", "a"), S("on", "b"),
      S("check", "ab"), S("off", "a"), S("check", "b"), S("off", "b"),
      S("remove", "a"), S("remove", "b"), S("deadline", "none")>>
    \o ZramWorkerSteps
    \o <<S("adopt_zram", "w"), S("resume", "w"), S("off", "w"), S("remove", "w"),
         S("zram0_same", "none")>>

ApplyFile == <<S("file_create", "none"), S("file_on", "none"), S("file_verify", "none")>>
RollbackFile == <<S("file_off", "none"), S("file_unlink", "none")>>

TieringSteps ==
    <<S("inspect", "none"), S("deadline", "none")>> \o ApplyFile
    \o <<S("file_check", "none"), S("file_deadline", "none"), S("file_resume", "none")>>
    \o RollbackFile \o RollbackFile \o <<S("inspect", "none")>>

ScopeSteps(s) ==
    <<S("scope_deadline", s)>>
    \o (CASE s = "cgroups" -> CgroupSteps
          [] s = "zram" -> ZramSteps
          [] s = "tiering" -> TieringSteps)
    \o <<S("close", s)>>

\* One scope, or all of them.
Programs ==
    {ScopeSteps(s) \o <<S("conclude", "none")>> : s \in {"cgroups", "zram", "tiering"}}
    \union {ScopeSteps("cgroups") \o ScopeSteps("zram") \o ScopeSteps("tiering")
            \o <<S("conclude", "none")>>}

\* Mutant: the groups are cleaned before the recovered sleeper is stopped.
CgroupDropsEarly == <<"w_cleanup", "w_child", "cleanup", "recovery", "child">>

\* Guards in reverse order of their declaration, the worker's first.
CgroupDrops == <<"w_cleanup", "w_child", "recovery", "cleanup", "child">>

Destructors(s) ==
    CASE s = "cgroups" -> [i \in DOMAIN CgroupDrops |-> S("drop", CgroupDrops[i])]
      [] s = "zram" -> <<S("drop_zram", "worker"), S("drop_zram", "harness")>>
      [] s = "tiering" -> <<>>

----------------------------------------------------------------------------
(* Steps, failures and unwinding *)

Running == todo # <<>>
At(op) == Running /\ Head(todo).op = op
Arg == Head(todo).arg
AfterScope == SelectInSeq(todo, LAMBDA s : s.op = "close")
Scope == todo[AfterScope].arg

Proceed == todo' = Tail(todo)
Smooth == UNCHANGED <<unwinding, blame>>

\* `?` in a scope: its guards are dropped, then main goes on after the scope.
Unwind(drops, why) ==
    /\ todo' = drops \o SubSeq(todo, AfterScope, Len(todo))
    /\ unwinding' = TRUE
    /\ blame' = blame \union {why}
FailInto(drops) == Unwind(drops, Head(todo).op)
Fail == FailInto(Destructors(Scope))

Fault == faults < MaxFaults /\ faults' = faults + 1
Fine == Proceed /\ Smooth /\ UNCHANGED faults
Fails == Fault /\ Fail
Require(ok) == IF ok THEN Fine ELSE Fail /\ UNCHANGED faults

\* A step that only reads or computes, and may fail.
Reads == \/ Fine
         \/ Fails

----------------------------------------------------------------------------
(* Runs *)

Init ==
    /\ \E others \in SUBSET Others :
         /\ dev = [d \in Index |-> CASE d = 0 -> "host"
                                     [] d \in others -> "other"
                                     [] OTHER -> "none"]
         /\ swaps = {0} \union others
    /\ file = [r \in 1 .. MaxRuns |-> "absent"]
    /\ groups = {} /\ proc = [c \in Sleepers |-> "none"]
    /\ stateDir = FALSE /\ record = NoDev /\ report = NoReport
    /\ run = 0 /\ todo = <<>>
    /\ base = [devs |-> {}, swaps |-> {}, worker |-> {}, left |-> {}, refused |-> {}]
    /\ name = [r \in Roles |-> NoDev] /\ reg = [o \in Owners |-> {}]
    /\ guards = {} /\ evid = {} /\ snap = Fresh
    /\ late = FALSE /\ unwinding = FALSE /\ blame = {} /\ verdict = "none"
    /\ faults = 0 /\ acts = 0

ValidBaseline ==
    /\ groups = {}
    /\ \A c \in Sleepers : proc[c] = "none"
    /\ 0 \in swaps

\* main up to the first scope: an existing STATE_DIR or an ambiguous baseline
\* is refused.
Start ==
    /\ ~Running /\ run < MaxRuns
    /\ ~stateDir /\ ValidBaseline
    /\ todo' \in Programs
    /\ run' = run + 1 /\ stateDir' = TRUE
    /\ base' = [devs |-> Existing, swaps |-> swaps, worker |-> {},
                left |-> {d \in Index : dev[d] = "nemor"}, refused |-> {}]
    /\ name' = [r \in Roles |-> NoDev] /\ reg' = [o \in Owners |-> {}]
    /\ guards' = {} /\ evid' = {} /\ snap' = Fresh /\ late' = FALSE
    /\ unwinding' = FALSE /\ blame' = {} /\ verdict' = "none"
    /\ UNCHANGED <<dev, swaps, file, groups, proc, record, report, faults, acts>>

\* Drop for StateDir ignores an error, which may leave the directory with or
\* without the recovery file.
DropStateDir ==
    /\ stateDir' \in {FALSE, stateDir} /\ record' \in {NoDev, record}
    /\ ~stateDir' => record' = NoDev

\* `?` in main: STATE_DIR is dropped, no report is written.
Abort ==
    /\ todo' = <<>> /\ DropStateDir /\ verdict' = "fail"
    /\ UNCHANGED <<report, unwinding>>

ScopeDeadline ==
    /\ At("scope_deadline")
    /\ IF late THEN Abort /\ blame' = blame \union {"scope_deadline"} /\ UNCHANGED faults
       ELSE Fine /\ UNCHANGED <<ended, record>>
    /\ UNCHANGED <<dev, swaps, file, cgroup, name, reg, evid, snap, late, rest>>

Deadline ==
    /\ At("deadline") /\ Require(~late)
    /\ UNCHANGED <<zram, swaps, cgroup, swapfile, late, ended, rest>>

\* Nine rounds on the raw device, each after a look at the deadline.
Benchmark ==
    /\ At("benchmark")
    /\ \/ Require(~late)
       \/ Fails
    /\ UNCHANGED <<zram, swaps, cgroup, swapfile, late, ended, rest>>

\* safety checks, readbacks, storage topology and block accounting
Inspect ==
    /\ At("inspect") /\ Reads
    /\ UNCHANGED <<zram, swaps, cgroup, swapfile, late, ended, rest>>

Close ==
    /\ At("close")
    /\ Proceed /\ unwinding' = FALSE
    /\ guards' = {} /\ reg' = [o \in Owners |-> {}] /\ name' = [r \in Roles |-> NoDev]
    /\ UNCHANGED <<dev, evid, record, swaps, groups, proc, swapfile, late, ended, rest,
                   blame, faults>>

HostUnchanged ==
    /\ swaps = base.swaps /\ Existing = base.devs
    /\ groups = {} /\ \A c \in Sleepers : proc[c] = "none"

\* Mutant: the host comparison alone decides.
PassedUnchanged == HostUnchanged

Passed == blame = {} /\ HostUnchanged

\* The final snapshot, compare_host, the report and the exit status.
Conclude ==
    /\ At("conclude")
    /\ \/ /\ todo' = <<>> /\ DropStateDir
          /\ report' = [names |-> evid, devs |-> base.devs, valid |-> TRUE]
          /\ verdict' = IF Passed THEN "pass" ELSE "fail"
          /\ UNCHANGED <<unwinding, blame, faults>>
       \/ Fault /\ Abort /\ blame' = blame \union {"conclude"}
    /\ UNCHANGED <<dev, swaps, file, cgroup, name, reg, evid, snap, late, rest>>

Main == Start \/ ScopeDeadline \/ Deadline \/ Benchmark \/ Inspect \/ Close \/ Conclude

----------------------------------------------------------------------------
(* --cgroups *)

Alive(c) == proc[c] # "none"
ChildGuard(c) == IF c = "main" THEN "child" ELSE "w_child"
CleanupGuard(c) == IF c = "main" THEN "cleanup" ELSE "w_cleanup"
KeepsCgroup == UNCHANGED <<zram, swaps, swapfile, late, ended, rest>>

Spawn ==
    /\ At("spawn")
    /\ \/ Fine /\ proc' = [proc EXCEPT ![Arg] = "origin"]
       \/ Fails /\ UNCHANGED proc
    /\ UNCHANGED <<groups, guards>> /\ KeepsCgroup

\* RegisteredChild and CgroupCleanup; an error before the first leaves the
\* sleeper without a guard.
Guard ==
    /\ At("guard")
    /\ \/ /\ Require(Alive(Arg))
          /\ guards' = IF Alive(Arg) THEN guards \union {ChildGuard(Arg), CleanupGuard(Arg)}
                       ELSE guards
       \/ Fails /\ guards' \in {guards, guards \union {ChildGuard(Arg)}}
    /\ UNCHANGED <<groups, proc>> /\ KeepsCgroup

\* apply_one: it undoes some of its own errors, and leaves an empty group or
\* the moved process behind on others.
Apply ==
    /\ At("apply")
    /\ LET made == groups \union {Arg}
           moved == [proc EXCEPT ![Arg] = Arg]
       IN  \/ Alive(Arg) /\ Fine /\ groups' = made /\ proc' = moved
           \/ Alive(Arg) /\ Fails /\ groups' = made /\ proc' \in {proc, moved}
           \/ Fails /\ UNCHANGED <<groups, proc>>
           \/ ~Alive(Arg) /\ Require(FALSE) /\ UNCHANGED <<groups, proc>>
    /\ UNCHANGED guards /\ KeepsCgroup

Back(c) == [proc EXCEPT ![c] = IF Alive(c) THEN "origin" ELSE "none"]

\* rollback_one, and recover for the worker's snapshot; a second call finds
\* nothing left to do.
Rollback ==
    /\ At("rollback")
    /\ \/ Fine /\ proc' = Back(Arg) /\ groups' = groups \ {Arg}
       \/ Fails /\ proc' \in {proc, Back(Arg)} /\ UNCHANGED groups
    /\ UNCHANGED guards /\ KeepsCgroup

\* The worker writes cgroup-recovery.json and forgets its guards.
WorkerForgets ==
    /\ At("w_forget")
    /\ \/ Fine /\ guards' = guards \ {"w_child", "w_cleanup"}
       \/ Fails /\ UNCHANGED guards
    /\ UNCHANGED <<groups, proc>> /\ KeepsCgroup

Adopt ==
    /\ At("adopt")
    /\ \/ Fine /\ guards' = guards \union {"recovery", "crash_group"}
       \/ Fails /\ UNCHANGED guards
    /\ UNCHANGED <<groups, proc>> /\ KeepsCgroup

\* terminate_worker_child and RegisteredChild::terminate.
EndSleeper ==
    /\ At("end_sleeper") \/ At("end_child")
    /\ \/ /\ Alive(Arg) /\ Fine
          /\ proc' = [proc EXCEPT ![Arg] = "none"]
          /\ guards' = guards \ {IF Arg = "main" THEN "child" ELSE "recovery"}
       \/ (Fails \/ (~Alive(Arg) /\ Require(FALSE))) /\ UNCHANGED <<proc, guards>>
    /\ UNCHANGED groups /\ KeepsCgroup

NoGroups ==
    /\ At("no_groups")
    /\ Require(groups = {})
    /\ guards' = IF groups = {} THEN {} ELSE guards
    /\ UNCHANGED <<groups, proc>> /\ KeepsCgroup

\* What dropping guard g does to the sleepers, and the groups it covers.
ProcAfter(g) ==
    CASE g = "child" -> [proc EXCEPT !["main"] = "none"]
      [] g \in {"w_child", "recovery"} -> [proc EXCEPT !["crash"] = "none"]
      [] g = "cleanup" -> Back("main")
      [] g = "w_cleanup" -> Back("crash")
Covered(g) ==
    CASE g = "cleanup" -> {"main"} \union (IF "crash_group" \in guards THEN {"crash"} ELSE {})
      [] g = "w_cleanup" -> {"crash"}
      [] OTHER -> {}

\* cleanup_empty_owned_group leaves a group with processes alone.
Drop ==
    /\ At("drop") /\ Proceed /\ UNCHANGED unwinding
    /\ guards' = guards \ {Arg}
    /\ \/ /\ Arg \in guards
          /\ proc' = ProcAfter(Arg)
          /\ groups' = {g \in groups : g \in Covered(Arg) => \E c \in Sleepers : proc'[c] = g}
          /\ UNCHANGED <<faults, blame>>
       \/ Arg \in guards /\ Fault /\ blame' = blame \union {"drop"} /\ UNCHANGED <<proc, groups>>
       \/ Arg \notin guards /\ UNCHANGED <<proc, groups, faults, blame>>
    /\ KeepsCgroup

Cgroups == Spawn \/ Guard \/ Apply \/ Rollback \/ WorkerForgets \/ Adopt \/ EndSleeper
           \/ NoGroups \/ Drop

----------------------------------------------------------------------------
(* --zram *)

KeepsOthers == UNCHANGED <<cgroup, swapfile, late, ended, run, acts>>
KeepsZram == KeepsOthers /\ UNCHANGED base
OwnerOf(role) == IF role = "w" THEN "worker" ELSE "harness"
Names(roles) == {name[r] : r \in roles}
Expected == [a |-> {"a"}, ab |-> {"a", "b"}, b |-> {"b"}, w |-> {"w"}]

Registered(role, d) == [reg EXCEPT ![OwnerOf(role)] = @ \union {d}]

\* The evidence names the benchmark device at once, the pair when both exist.
EvidenceAfter(role, d) ==
    CASE role = "bench" -> evid \union {d}
      [] role = "b" -> evid \union {name["a"], d}
      [] OTHER -> evid

\* What the guard of owner o and require_new_test_zram take for foreign:
\* /dev/zram0 and the numbers in the baseline of its process.
Protected(o) == {0} \union (IF o = "worker" THEN base.worker ELSE base.devs)

\* create_isolated_managed_device and require_new_test_zram: the device
\* exists before any guard knows it.
Add ==
    /\ At("add")
    /\ IF Free = {} THEN Require(FALSE) /\ UNCHANGED <<dev, name, reg, evid>>
       ELSE LET d == Lowest(Free)
                made == [dev EXCEPT ![d] = "nemor"]
                new == d \notin Protected(OwnerOf(Arg))
            IN  \/ /\ dev' = made /\ Require(new)
                   /\ IF new
                      THEN /\ name' = [name EXCEPT ![Arg] = d]
                           /\ reg' = Registered(Arg, d) /\ evid' = EvidenceAfter(Arg, d)
                      ELSE UNCHANGED <<name, reg, evid>>
                \/ Fails /\ dev' \in {dev, made} /\ UNCHANGED <<name, reg, evid>>
    /\ UNCHANGED <<record, swaps>> /\ KeepsZram

\* configure_uninitialized, initialize, and what is read back.
Setup ==
    /\ At("setup") \/ At("resume")
    /\ Reads /\ UNCHANGED <<zram, swaps>> /\ KeepsZram

\* activate: a helper killed at its timeout may have done its work.
SwapOn ==
    /\ At("on")
    /\ LET on == swaps \union {name[Arg]}
       IN  \/ Fine /\ swaps' = on
           \/ Fails /\ swaps' \in {swaps, on}
    /\ UNCHANGED zram /\ KeepsZram

SwapOff ==
    /\ At("off")
    /\ LET off == swaps \ {name[Arg]}
       IN  \/ Fine /\ swaps' = off
           \/ Fails /\ swaps' \in {swaps, off}
    /\ UNCHANGED zram /\ KeepsZram

\* verify_swap_checkpoint.
Checkpoint ==
    /\ At("check")
    /\ Require({0} \union Names(Expected[Arg]) \subseteq swaps)
    /\ UNCHANGED <<zram, swaps>> /\ KeepsZram

\* Mutant: the name stays with the guard.
RegAfterRemoveKept(d) == reg

RegAfterRemove(d) == [reg EXCEPT !["harness"] = @ \ {d}]

\* remove_managed_device: never an active swap.
RemoveDevice ==
    /\ At("remove")
    /\ LET d == name[Arg]
       IN  \/ /\ d \notin swaps /\ Fine
              /\ dev' = [dev EXCEPT ![d] = "none"] /\ reg' = RegAfterRemove(d)
           \/ (Fails \/ (d \in swaps /\ Require(FALSE))) /\ UNCHANGED <<dev, reg>>
    /\ UNCHANGED <<name, evid, record, swaps>> /\ KeepsZram

\* The worker is a process of its own, with a baseline of its own.
WorkerBaseline ==
    /\ At("w_base")
    /\ Require(ValidBaseline)
    /\ base' = IF ValidBaseline THEN [base EXCEPT !.worker = Existing] ELSE base
    /\ UNCHANGED <<zram, swaps>> /\ KeepsOthers

\* The worker writes zram-recovery.json and forgets its guard.
WorkerPersists ==
    /\ At("w_persist")
    /\ \/ Fine /\ record' = name["w"] /\ reg' = [reg EXCEPT !["worker"] = {}]
       \/ Fails /\ UNCHANGED <<record, reg>>
    /\ UNCHANGED <<dev, name, evid, swaps>> /\ KeepsZram

AdoptZram ==
    /\ At("adopt_zram")
    /\ \/ Fine /\ reg' = [reg EXCEPT !["harness"] = @ \union {record}]
       \/ Fails /\ UNCHANGED reg
    /\ UNCHANGED <<dev, name, evid, record, swaps>> /\ KeepsZram

ZramSame ==
    /\ At("zram0_same")
    /\ Require(0 \in swaps) /\ UNCHANGED <<zram, swaps>> /\ KeepsZram

\* Drop for ZramCleanup, one name at a time; resume_isolated_managed_device
\* refuses a protected number, and the device stays.
DropZram ==
    /\ At("drop_zram") /\ UNCHANGED unwinding
    /\ IF reg[Arg] = {} THEN Proceed /\ UNCHANGED <<dev, reg, swaps, faults, blame, base>>
       ELSE LET d == Lowest(reg[Arg])
            IN  /\ UNCHANGED todo
                /\ reg' = [reg EXCEPT ![Arg] = @ \ {d}]
                /\ \/ /\ d \in Protected(Arg) /\ blame' = blame \union {"refused"}
                      /\ base' = [base EXCEPT !.refused = @ \union {d}]
                      /\ UNCHANGED <<dev, swaps, faults>>
                   \/ /\ d \notin Protected(Arg)
                      /\ dev' = [dev EXCEPT ![d] = "none"] /\ swaps' = swaps \ {d}
                      /\ UNCHANGED <<faults, blame, base>>
                   \/ /\ d \notin Protected(Arg) /\ Fault /\ blame' = blame \union {"drop_zram"}
                      /\ swaps' \in {swaps, swaps \ {d}} /\ UNCHANGED <<dev, base>>
    /\ UNCHANGED <<name, evid, record>> /\ KeepsOthers

Zram == Add \/ Setup \/ SwapOn \/ SwapOff \/ Checkpoint \/ RemoveDevice \/ WorkerBaseline
        \/ WorkerPersists \/ AdoptZram \/ ZramSame \/ DropZram

----------------------------------------------------------------------------
(* --tiering: apply_swapfile, rollback_swapfile and LinuxSwapfileBackend *)

KeepsFile == UNCHANGED <<zram, cgroup, late, ended, rest>>
BaselineLeft(s) == base.swaps # {} => base.swaps \intersect s # {}

\* A failing create_owned: the ext4 helpers before mkswap return past the
\* removal, and an error of the removal itself is ignored, so that a file with
\* or without a swap header may stay.
FileCreate ==
    /\ At("file_create")
    /\ \/ /\ Fine /\ file' = [file EXCEPT ![run] = "ready"]
          /\ snap' = [snap EXCEPT !.created = TRUE, !.owned = TRUE]
       \/ /\ Fault /\ FailInto(RollbackFile)
          /\ \E f \in {"absent", "raw", "formatted"} : file' = [file EXCEPT ![run] = f]
          /\ UNCHANGED snap
    /\ UNCHANGED swaps /\ KeepsFile

FileOn ==
    /\ At("file_on")
    /\ LET on == swaps \union {Path}
       IN  \/ Fine /\ swaps' = on /\ snap' = [snap EXCEPT !.activated = TRUE]
           \/ Fault /\ FailInto(RollbackFile) /\ swaps' \in {swaps, on} /\ UNCHANGED snap
    /\ UNCHANGED file /\ KeepsFile

FileVerify ==
    /\ At("file_verify")
    /\ \/ Path \in swaps /\ BaselineLeft(swaps) /\ Fine
       \/ ~(Path \in swaps /\ BaselineLeft(swaps)) /\ FailInto(RollbackFile) /\ UNCHANGED faults
       \/ Fault /\ FailInto(RollbackFile)
    /\ UNCHANGED <<swaps, swapfile>> /\ KeepsFile

\* The look after apply: its own error returns without a rollback.
FileCheck ==
    /\ At("file_check")
    /\ \/ {0, Path} \subseteq swaps /\ Fine
       \/ ~({0, Path} \subseteq swaps) /\ FailInto(RollbackFile) /\ UNCHANGED faults
       \/ Fails
    /\ UNCHANGED <<swaps, swapfile>> /\ KeepsFile

\* The backend is dropped, and with it the ownership.
FileDeadline ==
    /\ At("file_deadline")
    /\ Require(~late)
    /\ snap' = [snap EXCEPT !.owned = FALSE]
    /\ UNCHANGED <<swaps, file>> /\ KeepsFile

FileResume ==
    /\ At("file_resume")
    /\ \/ Fine /\ snap' = [snap EXCEPT !.owned = TRUE]
       \/ Fails /\ UNCHANGED snap
    /\ UNCHANGED <<swaps, file>> /\ KeepsFile

\* `?` in rollback_swapfile: ignored when it runs for a failed apply.
RollbackError ==
    IF unwinding THEN /\ todo' = SubSeq(todo, AfterScope, Len(todo))
                      /\ blame' = blame \union {Head(todo).op} /\ UNCHANGED unwinding
    ELSE Fail

\* The first half of rollback_swapfile; the baseline is looked at after the
\* swapfile is off.  A second rollback comes after another look at the swaps.
FileOff ==
    /\ At("file_off")
    /\ LET off == swaps \ {Path}
           blocked == ~snap.owned /\ (snap.created \/ snap.activated)
           needed == snap.activated /\ Path \in swaps
       IN  CASE snap.rolled -> Reads /\ UNCHANGED swaps
             [] ~snap.rolled /\ blocked -> RollbackError /\ UNCHANGED <<swaps, faults>>
             [] ~snap.rolled /\ ~blocked /\ ~needed -> Fine /\ UNCHANGED swaps
             [] OTHER ->
                \/ BaselineLeft(off) /\ Fine /\ swaps' = off
                \/ ~BaselineLeft(off) /\ RollbackError /\ swaps' = off /\ UNCHANGED faults
                \/ Fault /\ RollbackError /\ swaps' \in {swaps, off}
    /\ UNCHANGED swapfile /\ KeepsFile

\* Mutant: an unlink that fails is ignored.
UnlinkBlind ==
    /\ Fine /\ snap' = [snap EXCEPT !.owned = FALSE, !.rolled = TRUE]
    /\ file' = [file EXCEPT ![run] = IF Path \in swaps THEN @ ELSE "absent"]

\* remove_owned gives the path up before it unlinks it; an active swapfile
\* cannot be unlinked.
Unlink ==
    \/ /\ Path \notin swaps /\ Fine
       /\ snap' = [snap EXCEPT !.owned = FALSE, !.rolled = TRUE]
       /\ file' = [file EXCEPT ![run] = "absent"]
    \/ /\ (Path \in swaps /\ UNCHANGED faults) \/ Fault
       /\ RollbackError
       /\ snap' = [snap EXCEPT !.owned = FALSE] /\ UNCHANGED file

FileUnlink ==
    /\ At("file_unlink")
    /\ CASE snap.rolled -> Fine /\ UNCHANGED swapfile
         [] ~snap.rolled /\ snap.created -> Unlink
         [] OTHER -> Fine /\ snap' = [snap EXCEPT !.rolled = TRUE] /\ UNCHANGED file
    /\ UNCHANGED swaps /\ KeepsFile

Tiering == FileCreate \/ FileOn \/ FileVerify \/ FileCheck \/ FileDeadline \/ FileResume
           \/ FileOff \/ FileUnlink

----------------------------------------------------------------------------
(* --cleanup-owned-residue: what the last report names *)

ResidueStart ==
    /\ ~Running /\ report.valid /\ report.names \intersect Existing # {}
    /\ todo' = <<S("residue", "none")>>
    /\ reg' = [reg EXCEPT !["harness"] = report.names]
    /\ base' = [base EXCEPT !.devs = report.devs]
    /\ verdict' = "cleaning"
    /\ UNCHANGED <<host, run, name, guards, evid, snap, late, unwinding, blame,
                   faults, acts>>

ResidueEnds(how) == todo' = <<>> /\ verdict' = how

Residue ==
    /\ At("residue")
    /\ IF reg["harness"] = {}
       THEN /\ ResidueEnds(IF Existing = base.devs THEN "cleaned" ELSE "unclean")
            /\ UNCHANGED <<dev, swaps, reg, faults>>
       ELSE LET d == Lowest(reg["harness"])
            IN  /\ reg' = [reg EXCEPT !["harness"] = @ \ {d}]
                /\ CASE d = 0 \/ d \in base.devs ->
                          ResidueEnds("unclean") /\ UNCHANGED <<dev, swaps, faults>>
                     [] dev[d] = "none" -> UNCHANGED <<todo, verdict, dev, swaps, faults>>
                     [] OTHER ->
                        \/ /\ dev' = [dev EXCEPT ![d] = "none"] /\ swaps' = swaps \ {d}
                           /\ UNCHANGED <<todo, verdict, faults>>
                        \/ /\ Fault /\ ResidueEnds("unclean")
                           /\ swaps' \in {swaps, swaps \ {d}} /\ UNCHANGED dev
    /\ UNCHANGED <<file, cgroup, stateDir, record, report, name, evid, snap, late, unwinding,
                   blame, rest>>

----------------------------------------------------------------------------
(* Time, signals and other parties *)

Validating == Running /\ verdict = "none"

Expire ==
    /\ Validating /\ ~late /\ late' = TRUE
    /\ UNCHANGED <<host, run, todo, base, name, reg, guards, evid, snap, unwinding,
                   blame, verdict, faults, acts>>

\* The harness is killed; STATE_DIR stays and refuses the next run.
Kill ==
    /\ Validating /\ Fault
    /\ todo' = <<>> /\ verdict' = "killed" /\ guards' = {} /\ reg' = [o \in Owners |-> {}]
    /\ UNCHANGED <<host, run, base, name, evid, snap, late, unwinding, blame, acts>>

InWorker ==
    \/ Head(todo).op \in {"w_forget", "w_persist"}
    \/ Head(todo).op \in {"guard", "apply"} /\ Arg = "crash"
    \/ Head(todo).op \in {"setup", "on", "check"} /\ Arg = "w"

KillWorker ==
    /\ Validating /\ InWorker /\ Fault
    /\ Unwind(Destructors(Scope), "killed")
    /\ guards' = guards \ {"w_child", "w_cleanup"}
    /\ reg' = [reg EXCEPT !["worker"] = {}]
    /\ UNCHANGED <<host, run, base, name, evid, snap, late, verdict, acts>>

\* A sleeper ends by itself after 120 seconds; a child of a running harness
\* stays as a zombie.
SleeperEnds ==
    /\ \E c \in Sleepers : /\ Alive(c) /\ (c = "crash" \/ ~Running)
                           /\ proc' = [proc EXCEPT ![c] = "none"]
    /\ UNCHANGED <<dev, swaps, file, groups, stateDir, record, report, run, todo, base,
                   name, reg, guards, evid, snap, late, unwinding, blame, verdict, faults, acts>>

\* Another tool adds a zram swap of its own and removes it again; an
\* administrator switches /dev/zram0 off.
Foreign ==
    /\ acts < MaxForeign /\ acts' = acts + 1
    /\ \/ /\ Free # {} /\ dev' = [dev EXCEPT ![Lowest(Free)] = "other"]
          /\ swaps' = swaps \union {Lowest(Free)}
       \/ \E d \in Index : /\ dev[d] = "other" /\ dev' = [dev EXCEPT ![d] = "none"]
                            /\ swaps' = swaps \ {d}
       \/ 0 \in swaps /\ swaps' = swaps \ {0} /\ UNCHANGED dev
    /\ UNCHANGED <<file, groups, proc, stateDir, record, report, run, todo, base, name,
                   reg, guards, evid, snap, late, unwinding, blame, verdict, faults>>

Harness == Main \/ Cgroups \/ Zram \/ Tiering

Next == Harness \/ ResidueStart \/ Residue \/ Expire \/ Kill \/ KillWorker \/ SleeperEnds \/ Foreign

Spec == Init /\ [][Next]_vars

----------------------------------------------------------------------------
(* Properties *)

\* An active swap is a device or file that exists, a sleeper is in a group
\* that exists, and every name the guards hold is a device number.
TypeOK ==
    /\ dev \in [Index -> {"none", "host", "nemor", "other"}]
    /\ swaps \subseteq Existing \union {-r : r \in {q \in 1 .. MaxRuns : file[q] = "ready"}}
    /\ file \in [1 .. MaxRuns -> {"absent", "raw", "formatted", "ready"}]
    /\ groups \subseteq Sleepers
    /\ proc \in [Sleepers -> {"none", "origin"} \union groups]
    /\ reg \in [Owners -> SUBSET Index] /\ guards \subseteq Guards
    /\ name \in [Roles -> Index \union {NoDev}] /\ evid \subseteq Index
    /\ record \in Index \union {NoDev} /\ report.names \subseteq Index
    /\ verdict \in {"none", "pass", "fail", "killed", "cleaning", "cleaned", "unclean"}

DevicesLeft == {d \in Index : dev[d] = "nemor"} \ base.left
NoGroupLeft == groups = {} /\ \A c \in Sleepers : ~Alive(c)
NoFileLeft == file[run] = "absent" /\ Path \notin swaps

\* A run that passes has left nothing of its own: no device, under a new or a
\* reused number, no group, no sleeper and no swapfile (which compare_host does
\* not look for), whatever other parties did.
PassClean == verdict = "pass" => DevicesLeft = {} /\ NoGroupLeft /\ NoFileLeft

\* Steps whose failure is known to leave a device, a group or sleeper, or the
\* swapfile: no guard covers it yet or any more, or it is the guard that fails
\* or dies with its worker.
DeviceRisks == {"add", "adopt_zram", "drop_zram", "killed"}
GroupRisks == {"guard", "adopt", "drop", "killed"}
FileRisks == {"file_create", "file_on", "file_check", "file_deadline", "file_resume",
              "file_off", "file_unlink"}

\* Every other error path cleans up: of a run that ends with an error, a
\* device is left only after one of the DeviceRisks or when the guard refuses
\* it, as its number was in the baseline (another tool had given the number
\* up, and the crash worker got it); a group or sleeper only after one of the
\* GroupRisks, the swapfile only after one of the FileRisks.
ErrorPathsClean ==
    verdict = "fail" =>
        /\ blame \intersect DeviceRisks = {} => DevicesLeft \subseteq base.refused
        /\ blame \intersect GroupRisks = {} => NoGroupLeft
        /\ blame \intersect FileRisks = {} => NoFileLeft

\* A swapfile transaction that says rolled back has left no active swapfile,
\* and no swapfile at all that create_owned has made.  (What a create_owned
\* that failed leaves is not in the snapshot: the code reports it rolled back.)
RollbackHonest ==
    snap.rolled => Path \notin swaps /\ (snap.created => file[run] = "absent")

\* A validation run never switches off or removes a device it did not add:
\* /dev/zram0, another tool's device, or a number that was its own before.
ForeignSpared ==
    [][Validating /\ acts' = acts =>
         \A d \in Existing :
           dev[d] # "nemor" => dev'[d] = dev[d] /\ (d \in swaps => d \in swaps')]_vars
=============================================================================
