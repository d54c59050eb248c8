------------------------------- MODULE Daemon -------------------------------
(***************************************************************************)
(* The life of the daemon nemord: Storage::open with its migrations, the   *)
(* session row, the sampling loop (run_sampling_loop) with its workload    *)
(* stabilizer and its deduplicated audit rows, and the shutdown.           *)
(*                                                                         *)
(* Every handler of the loop runs to its end before the loop selects       *)
(* again, but each store call is a step of its own: it may fail, which     *)
(* ends the process, and the process may die between two of them.          *)
(*                                                                         *)
(* Data abstraction.  A table is the set of its rows, numbered by id.      *)
(* Sample rows are written and trimmed, and read by no decision of the     *)
(* daemon, so they are not state.  What is due at a tick is a free choice: *)
(* the intervals are monotonic and independent of the wall clock that      *)
(* stamps the rows.  The pressure state machine is module PressurePolicy;  *)
(* here a decision is any state and plan it might return.                  *)
(***************************************************************************)
EXTENDS Integers, FiniteSets, Sequences

CONSTANTS
    Classes,        \* the workload classes
    Critical,       \* WorkloadClass::CriticalPressure
    Confirmations,  \* classification.confirmation_samples
    Pressures,      \* the pressure states a decision may report
    Conservative,   \* the state of a new engine, Watch
    Plans,          \* the planned and rejected actions a decision may list
    Decisions,      \* the pairs of both that the engine may return
    Heartbeat,      \* policy.decision_heartbeat_seconds
    Latest,         \* the number of migrations of this build
    MaxTime,        \* bound of the model: largest timestamp
    MaxSessions,    \* bound of the model: sessions opened
    MaxRows,        \* bound of the model: rows of both audited tables
    MaxChunks       \* bound of the model: batches of one process tick

None == "None"
NoTime == -1

ASSUME ClassAssumption == Critical \in Classes /\ None \notin Classes
ASSUME PressureAssumption ==
    Conservative \in Pressures /\ Decisions \subseteq [state : Pressures, plan : Plans]
ASSUME CountAssumption == Confirmations \in Nat \ {0}
ASSUME HeartbeatAssumption == Heartbeat \in Nat \ {0}
ASSUME BoundAssumption ==
    /\ MaxTime \in Nat /\ MaxSessions \in Nat
    /\ MaxRows \in Nat /\ MaxChunks \in Nat \ {0}
ASSUME LatestAssumption == Latest \in Nat \ {0}

Times == 0..MaxTime
Sessions == 1..MaxSessions
Versions == 1..Latest
Ids == 1..(MaxRows + 1)
Audits == <<"zram", "tiering", "damon", "damos", "ksm">>

VARIABLES
    now,            \* the wall clock
    steppedBack,    \* history: "Yes" once it was set back in this session
    schema,         \* schema_migrations: whose checksum is stored per version
    ddl,            \* the versions whose statements the tables went through
    pc,             \* where the process is
    signal,         \* "None", "Raised" (flag set) or "Seen" (future ready)
    session,        \* the id of the last session opened, 0 before the first
    closed,         \* sessions with ended_at and clean_shutdown = 1
    latest_system,  \* whether a system sample was taken: "None" or "Some"
    current,        \* WorkloadStabilizer.current
    pending,        \* WorkloadStabilizer.pending
    streak,         \* history: the run of equal outcomes up to the last one
    engine,         \* the engine's state and the time it was entered
    tick,           \* timestamp_ns of the running process handler
    transition,     \* the transition it still has to store: at most one
    chunks,         \* batches it still has to store
    audit,          \* position in Audits
    events,         \* rows of workload_events
    decisions,      \* rows of policy_decisions
    snapshots,      \* rows of configuration_snapshots every decision must have:
                    \* <<decision id, reason>>
    emitted,        \* history: the transitions returned in this session
    evaluated       \* history: the last decision of this session, at most one

process == <<pc, signal, latest_system, current, pending, streak, engine, tick,
             transition, chunks, audit>>
tables == <<events, decisions, snapshots>>
clock == <<now, steppedBack>>
vars == <<clock, schema, ddl, session, closed, process, tables, emitted, evaluated>>

NoPending == [class |-> None, count |-> 0]
NewEngine == [state |-> Conservative, entered |-> 0]

----------------------------------------------------------------------------
(* storage: the rows a query reads, and the rows an insert adds.           *)

\* ORDER BY timestamp_ns DESC, id DESC LIMIT 1, within the session.
Newest(rows) ==
    {r \in rows :
        /\ r.session = session
        /\ \A q \in rows : q.session = session =>
              q.ts < r.ts \/ (q.ts = r.ts /\ q.id <= r.id)}

NextId(rows) == Cardinality(rows) + 1

\* Mutant: the plan is left out of the comparison.
SuppressedByState(d) ==
    \E r \in Newest(decisions) :
        r.decision.state = d.state /\ tick - r.ts < Heartbeat

\* insert_policy_decision returns false: the latest row has the same state
\* and plan, and the heartbeat is not over.
Suppressed(d) ==
    \E r \in Newest(decisions) : r.decision = d /\ tick - r.ts < Heartbeat

DecisionRow(d) ==
    [id |-> NextId(decisions), session |-> session, ts |-> tick, decision |-> d]

EventRow(t) ==
    [id |-> NextId(events), session |-> session, ts |-> t.ts,
     previous |-> t.previous, new |-> t.new]

\* insert_classification_batch: the event, unless the latest row of the
\* session already names its class.
InsertTransition(ts) ==
    events' = events \union
        {EventRow(t) : t \in {u \in ts : \A r \in Newest(events) : r.new # u.new}}

----------------------------------------------------------------------------
(* The process and its startup *)

\* A database is new, or went through a prefix of some build's migrations.
Init ==
    /\ now = 0 /\ steppedBack = "No"
    /\ \E n \in 0..Latest : \E foreign \in SUBSET (1..n) :
          /\ ddl = 1..n
          /\ schema = [v \in Versions |-> IF v > n THEN "absent"
                                          ELSE IF v \in foreign THEN "foreign"
                                          ELSE "ours"]
    /\ session = 0 /\ closed = {}
    /\ pc = "Down" /\ signal = "None" /\ latest_system = "None"
    /\ current = None /\ pending = NoPending /\ streak = NoPending
    /\ engine = NewEngine /\ tick = NoTime /\ transition = {} /\ chunks = 0
    /\ audit = 0
    /\ events = {} /\ decisions = {} /\ snapshots = {}
    /\ emitted = {} /\ evaluated = {}

\* The wall clock advances or is set back.  A handler reads it once, when it
\* begins, so a move during a handler is the same as one after it.
ClockMoves ==
    /\ pc \in {"Down", "Loop"}
    /\ now' \in Times \ {now}
    /\ steppedBack' = IF now' < now THEN "Yes" ELSE steppedBack
    /\ UNCHANGED <<schema, ddl, session, closed, process, tables, emitted, evaluated>>

\* The process ends and loses what it holds in memory.
Exit ==
    /\ pc' = "Down" /\ signal' = "None" /\ latest_system' = "None"
    /\ current' = None /\ pending' = NoPending /\ streak' = NoPending
    /\ engine' = NewEngine /\ tick' = NoTime /\ transition' = {} /\ chunks' = 0
    /\ audit' = 0
    /\ evaluated' = {}
    /\ UNCHANGED <<clock, schema, ddl, session, tables>>

\* A crash, or an error returned up to main, which exits with code 1: host
\* metadata, a statement of any store call, a timestamp, the signal handlers.
Abort ==
    /\ pc # "Down"
    /\ Exit
    /\ emitted' = {}
    /\ UNCHANGED closed

Start ==
    /\ pc = "Down" /\ session < MaxSessions
    /\ pc' = "Migrating"
    /\ UNCHANGED <<clock, schema, ddl, session, closed, signal, latest_system,
                   current, pending, streak, engine, tick, transition, chunks,
                   audit, tables, emitted, evaluated>>

\* The versions that are not recorded with this build's checksum, and the
\* first of them, which migrate applies or fails at.
Behind == {v \in Versions : schema[v] # "ours"}
IsNext(v) == v \in Behind /\ \A w \in Behind : v <= w

\* Mutant: the version is recorded by a transaction of its own, later.
ApplyMigrationInTwo(v) ==
    /\ pc = "Migrating" /\ IsNext(v) /\ schema[v] = "absent"
    /\ ddl' = ddl \union {v}
    /\ schema' = IF v \in ddl
                 THEN [schema EXCEPT ![v] = "ours"] ELSE schema
    /\ UNCHANGED <<clock, session, closed, process, tables, emitted, evaluated>>

\* apply_migration: one immediate transaction runs the statements and records
\* the version.  A foreign checksum stops the startup (Abort).
ApplyMigration(v) ==
    /\ pc = "Migrating" /\ IsNext(v) /\ schema[v] = "absent"
    /\ ddl' = ddl \union {v}
    /\ schema' = [schema EXCEPT ![v] = "ours"]
    /\ UNCHANGED <<clock, session, closed, process, tables, emitted, evaluated>>

\* upsert_host, then open_session; the loop starts with fresh state.
OpenSession ==
    /\ pc = "Migrating" /\ Behind = {}
    /\ session' = session + 1
    /\ pc' = "Loop"
    /\ steppedBack' = "No" /\ emitted' = {}
    /\ UNCHANGED <<now, schema, ddl, closed, signal, latest_system, current,
                   pending, streak, engine, tick, transition, chunks, audit,
                   tables, evaluated>>

----------------------------------------------------------------------------
(* classifier/stabilize.rs *)

Saturated(n) == IF n > Confirmations THEN Confirmations ELSE n

\* The run of equal outcomes that ends with this one.
StreakWith(outcome) ==
    IF outcome = "Unknown" THEN NoPending
    ELSE IF streak.class = outcome
         THEN [class |-> outcome, count |-> Saturated(streak.count + 1)]
         ELSE [class |-> outcome, count |-> 1]

CountWith(class) == IF pending.class = class THEN pending.count + 1 ELSE 1

Confirmed(class) == class = Critical \/ CountWith(class) >= Confirmations

\* Mutant: an unknown outcome leaves the pending class in place.
ObserveUnknownKeepsPending(outcome) ==
    /\ outcome \in {"Unknown", current}
    /\ transition' = {}
    /\ UNCHANGED <<current, pending, emitted>>

ObserveNothingNew(outcome) ==
    /\ outcome \in {"Unknown", current}
    /\ pending' = NoPending
    /\ transition' = {}
    /\ UNCHANGED <<current, emitted>>

ObserveUnconfirmed(outcome) ==
    /\ outcome \notin {"Unknown", current} /\ ~Confirmed(outcome)
    /\ pending' = [class |-> outcome, count |-> CountWith(outcome)]
    /\ transition' = {}
    /\ UNCHANGED <<current, emitted>>

ObserveChange(outcome) ==
    /\ outcome \notin {"Unknown", current} /\ Confirmed(outcome)
    /\ current' = outcome
    /\ pending' = NoPending
    /\ transition' = {[ts |-> now, previous |-> current, new |-> outcome]}
    /\ emitted' = emitted \union transition'

Observe(outcome) ==
    /\ streak' = StreakWith(outcome)
    /\ \/ ObserveNothingNew(outcome)
       \/ ObserveUnconfirmed(outcome)
       \/ ObserveChange(outcome)

----------------------------------------------------------------------------
(* The loop: select! is biased, so nothing runs once the shutdown future is *)
(* ready.  A sample that cannot be read is skipped and changes nothing.    *)

\* Mutant: the branches are not biased towards the shutdown.
SelectsUnbiased == pc = "Loop"

Selects == pc = "Loop" /\ signal # "Seen"

SignalRaised ==
    /\ pc \notin {"Down", "Migrating", "Closing"} /\ signal = "None"
    /\ signal' = "Raised"
    /\ UNCHANGED <<clock, schema, ddl, session, closed, pc, latest_system,
                   current, pending, streak, engine, tick, transition, chunks,
                   audit, tables, emitted, evaluated>>

\* wait_for_shutdown_signal looks at the flags every 25 ms, when the loop
\* polls it.
SignalSeen ==
    /\ pc = "Loop" /\ signal = "Raised"
    /\ signal' = "Seen"
    /\ UNCHANGED <<clock, schema, ddl, session, closed, pc, latest_system,
                   current, pending, streak, engine, tick, transition, chunks,
                   audit, tables, emitted, evaluated>>

Shutdown ==
    /\ pc = "Loop" /\ signal = "Seen"
    /\ pc' = "Closing"
    /\ UNCHANGED <<clock, schema, ddl, session, closed, signal, latest_system,
                   current, pending, streak, engine, tick, transition, chunks,
                   audit, tables, emitted, evaluated>>

\* main: close_session(id, true), then exit code 0.
CloseSession ==
    /\ pc = "Closing"
    /\ closed' = closed \union {session}
    /\ Exit
    /\ UNCHANGED emitted

SystemTick ==
    /\ Selects
    /\ latest_system' = "Some"
    /\ UNCHANGED <<clock, schema, ddl, session, closed, pc, signal, current,
                   pending, streak, engine, tick, transition, chunks, audit,
                   tables, emitted, evaluated>>

BeginHandler ==
    /\ Selects
    /\ tick' = now
    /\ chunks' \in 1..MaxChunks
    /\ Cardinality(events) + Cardinality(decisions) < MaxRows
    /\ UNCHANGED <<clock, schema, ddl, session, closed, signal, latest_system,
                   engine, audit, tables, evaluated>>

\* A process tick before the classification is due again.
ProcessTick ==
    /\ BeginHandler
    /\ pc' = "Storing" /\ transition' = {}
    /\ UNCHANGED <<current, pending, streak, emitted>>

\* A process tick that classifies; the policy is evaluated when it is due
\* too and a system sample exists.
ClassifyTick(outcome) ==
    /\ BeginHandler
    /\ Observe(outcome)
    /\ \/ pc' = "Policy" /\ latest_system = "Some"
       \/ pc' = "Storing"

\* PolicyError: the decision is refused and the handler goes on.
PolicyRefused ==
    /\ pc = "Policy"
    /\ pc' = "Storing"
    /\ UNCHANGED <<clock, schema, ddl, session, closed, signal, latest_system,
                   current, pending, streak, engine, tick, transition, chunks,
                   audit, tables, emitted, evaluated>>

\* evaluate, then insert_policy_decision.
Policy(d) ==
    /\ pc = "Policy" /\ tick >= engine.entered
    /\ engine' = IF d.state = engine.state THEN engine
                 ELSE [state |-> d.state, entered |-> tick]
    /\ evaluated' = {[decision |-> d, ts |-> tick]}
    /\ \/ /\ Suppressed(d)
          /\ pc' = "Storing"
          /\ UNCHANGED <<decisions, audit>>
       \/ /\ ~Suppressed(d)
          /\ decisions' = decisions \union {DecisionRow(d)}
          /\ pc' = "Auditing" /\ audit' = 1
    /\ UNCHANGED <<clock, schema, ddl, session, closed, signal, latest_system,
                   current, pending, streak, tick, transition, chunks, events,
                   snapshots, emitted>>

AdvanceAudit ==
    /\ IF audit < Len(Audits) THEN audit' = audit + 1 /\ pc' = pc
       ELSE audit' = 0 /\ pc' = "Storing"
    /\ UNCHANGED <<clock, schema, ddl, session, closed, signal, latest_system,
                   current, pending, streak, engine, tick, transition, chunks,
                   events, decisions, emitted, evaluated>>

Mandatory == {"damon", "damos", "ksm"}

\* insert_configuration_snapshot with the audit's reason.  An inventory of
\* zram or tiering that cannot be read is logged and not stored.
Audit ==
    /\ pc = "Auditing"
    /\ snapshots' = snapshots \union
          ({<<Cardinality(decisions), Audits[audit]>>} \intersect (Ids \X Mandatory))
    /\ AdvanceAudit

\* Mutant: the transition goes with the first of two batches only.
StoreBatchFirst ==
    /\ pc = "Storing"
    /\ chunks' = chunks - 1
    /\ InsertTransition(IF chunks = 2 THEN transition ELSE {})
    /\ IF chunks = 1 THEN pc' = "Loop" /\ transition' = {} /\ tick' = NoTime
       ELSE UNCHANGED <<pc, transition, tick>>
    /\ UNCHANGED <<clock, schema, ddl, session, closed, signal, latest_system,
                   current, pending, streak, engine, audit, decisions,
                   snapshots, emitted, evaluated>>

\* Mutant: a failed batch is logged and the loop goes on.
StoreBatchLossy ==
    /\ pc = "Storing"
    /\ chunks' = chunks - 1
    /\ InsertTransition(IF chunks = 1 THEN transition ELSE {}) \/ UNCHANGED events
    /\ IF chunks = 1 THEN pc' = "Loop" /\ transition' = {} /\ tick' = NoTime
       ELSE UNCHANGED <<pc, transition, tick>>
    /\ UNCHANGED <<clock, schema, ddl, session, closed, signal, latest_system,
                   current, pending, streak, engine, audit, decisions,
                   snapshots, emitted, evaluated>>

\* store_classified with one batch; the last one carries the transition.
StoreBatch ==
    /\ pc = "Storing"
    /\ chunks' = chunks - 1
    /\ InsertTransition(IF chunks = 1 THEN transition ELSE {})
    /\ IF chunks = 1 THEN pc' = "Loop" /\ transition' = {} /\ tick' = NoTime
       ELSE UNCHANGED <<pc, transition, tick>>
    /\ UNCHANGED <<clock, schema, ddl, session, closed, signal, latest_system,
                   current, pending, streak, engine, audit, decisions,
                   snapshots, emitted, evaluated>>

Handlers ==
    \/ PolicyRefused
    \/ \E d \in Decisions : Policy(d)
    \/ Audit
    \/ StoreBatch

Next ==
    \/ ClockMoves
    \/ Abort
    \/ Start
    \/ \E v \in Versions : ApplyMigration(v)
    \/ OpenSession
    \/ SignalRaised
    \/ SignalSeen
    \/ Shutdown
    \/ CloseSession
    \/ SystemTick
    \/ ProcessTick
    \/ \E outcome \in Classes \union {"Unknown"} : ClassifyTick(outcome)
    \/ Handlers

Spec == Init /\ [][Next]_vars

\* A handler runs to its end, and every turn of the loop polls the shutdown
\* future first.
FairSpec ==
    /\ Spec
    /\ WF_vars(Handlers) /\ SF_vars(SignalSeen)
    /\ WF_vars(Shutdown) /\ WF_vars(CloseSession)

----------------------------------------------------------------------------
(* Properties *)

PendingType == [class : Classes \union {None}, count : 0..Confirmations]
TransitionType ==
    [ts : Times, previous : Classes \union {None}, new : Classes]
EventType ==
    [id : Ids, session : Sessions, ts : Times,
     previous : Classes \union {None}, new : Classes]
DecisionType ==
    [id : Ids, session : Sessions, ts : Times, decision : Decisions]

\* Every variable has its type.
TypeOK ==
    /\ now \in Times /\ steppedBack \in {"No", "Yes"}
    /\ schema \in [Versions -> {"absent", "ours", "foreign"}]
    /\ ddl \subseteq Versions
    /\ pc \in {"Down", "Migrating", "Loop", "Policy", "Auditing", "Storing", "Closing"}
    /\ signal \in {"None", "Raised", "Seen"}
    /\ session \in 0..MaxSessions /\ closed \subseteq Sessions
    /\ latest_system \in {"None", "Some"}
    /\ current \in Classes \union {None}
    /\ pending \in PendingType /\ streak \in PendingType
    /\ engine \in [state : Pressures, entered : Times]
    /\ tick \in Times \union {NoTime}
    /\ transition \subseteq TransitionType
    /\ chunks \in 0..MaxChunks /\ audit \in 0..Len(Audits)
    /\ events \subseteq EventType /\ decisions \subseteq DecisionType
    /\ snapshots \subseteq Ids \X Mandatory
    /\ emitted \subseteq TransitionType
    /\ evaluated \subseteq [decision : Decisions, ts : Times]

Running == pc \notin {"Down", "Migrating"}

\* apply_migration: whatever crashes or fails between two migrations, a
\* version is recorded exactly when its statements ran (they do not bear to
\* run twice), and a session runs only over this build's schema.
SchemaSound ==
    /\ \A v \in Versions : v \in ddl <=> schema[v] # "absent"
    /\ Running => \A v \in Versions : schema[v] = "ours"

Rows(table) == {r \in table : r.session = session}

Stored(t) ==
    \E r \in Rows(events) :
        r.ts = t.ts /\ r.previous = t.previous /\ r.new = t.new

Audited(r) == \A reason \in Mandatory : <<r.id, reason>> \in snapshots

\* A session that is closed clean is complete: every transition the
\* stabilizer returned in it has its row, unless the wall clock was set back,
\* and every decision row has its DAMON, DAMOS and KSM snapshots.  What a
\* failed or killed handler left half stored is in a session left unclosed.
CleanIsComplete ==
    session \in closed =>
        /\ steppedBack = "No" => \A t \in emitted : Stored(t)
        /\ \A r \in Rows(decisions) : Audited(r)

\* Unless the wall clock was set back in the session, its rows of
\* workload_events form a chain: a row's previous class is the new class of
\* the row before it, and between handlers the last row names the class the
\* stabilizer holds.
EventChain ==
    steppedBack = "No" =>
        /\ \A r \in Rows(events) :
              \/ r.previous = None /\ \A q \in Rows(events) : r.id <= q.id
              \/ \E q \in Rows(events) : q.id = r.id - 1 /\ q.new = r.previous
        /\ pc = "Loop" => current = None \/ \E r \in Newest(events) : r.new = current

\* Unless the wall clock was set back in the session, the latest decision row
\* shows the state and plan of the last evaluation and is younger than the
\* heartbeat, although equal decisions are not stored again.
AuditCurrent ==
    steppedBack = "No" =>
        \A e \in evaluated : \E r \in Newest(decisions) :
            r.decision = e.decision /\ e.ts - r.ts < Heartbeat

\* docs/classification.md: a change to a class other than critical pressure
\* takes the configured number of consecutive equal observations.
WorkloadHysteresis ==
    [][current' \notin {current, None, Critical} =>
        streak'.class = current' /\ streak'.count >= Confirmations]_vars

\* A signal that reached the flags ends the process, whatever the intervals
\* keep ready.
ShutdownCompletes == signal # "None" ~> pc = "Down"
=============================================================================
