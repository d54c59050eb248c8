---------------------------- MODULE DaemonProofs ----------------------------
(***************************************************************************)
(* Proofs about Daemon, for every set of classes, every number of          *)
(* confirmations, migrations, sessions and rows: type correctness, the     *)
(* hysteresis of the workload class, the migrations, and what the stored   *)
(* rows say of the daemon.                                                 *)
(***************************************************************************)
EXTENDS Daemon, FiniteSetTheorems, TLAPS

USE DEF None, NoTime

InHandler == pc \in {"Policy", "Auditing", "Storing"}

\* The rows that may still be added before the bound of the model is met.
Budget ==
    IF pc = "Policy" THEN MaxRows - 1 ELSE IF InHandler THEN MaxRows ELSE MaxRows + 1

\* The tables are finite and their ids count the rows.
TablesSound ==
    /\ IsFiniteSet(events) /\ IsFiniteSet(decisions)
    /\ \A r \in events : r.id <= Cardinality(events) /\ r.session <= session
    /\ \A r \in decisions : r.id <= Cardinality(decisions) /\ r.session <= session
    /\ Cardinality(events) + Cardinality(decisions) <= Budget

\* What a handler holds while it runs, and only then.
HandlerSound ==
    /\ InHandler => tick \in Times /\ chunks >= 1
    /\ ~InHandler => transition = {}
    /\ transition = {} \/ \E t \in TransitionType : transition = {t}
    /\ pc = "Auditing" => audit >= 1 /\ Cardinality(decisions) >= 1
    /\ pc \notin {"Down", "Migrating"} => session >= 1
    /\ pc = "Migrating" => session < MaxSessions

Sound == TypeOK /\ TablesSound /\ HandlerSound

\* The state before the first start.
LEMMA InitSound == Init => Sound
<1> SUFFICES ASSUME Init PROVE Sound
  OBVIOUS
<1> USE ClassAssumption, PressureAssumption, CountAssumption, BoundAssumption, LatestAssumption
<1>1. PICK n \in 0..Latest : \E foreign \in SUBSET (1..n) :
        /\ ddl = 1..n
        /\ schema = [v \in Versions |-> IF v > n THEN "absent"
                                        ELSE IF v \in foreign THEN "foreign"
                                        ELSE "ours"]
  BY DEF Init
<1>2. ddl \subseteq Versions /\ schema \in [Versions -> {"absent", "ours", "foreign"}]
  BY <1>1 DEF Versions
<1>3. TypeOK
  BY <1>2 DEF Init, TypeOK, Times, Sessions, Ids, PendingType, NoPending, NewEngine, Audits
<1>4. TablesSound BY FS_EmptySet DEF Init, TablesSound, Budget, InHandler
<1>5. HandlerSound BY DEF Init, HandlerSound, InHandler
<1> QED BY <1>3, <1>4, <1>5 DEF Sound

\* The steps that write no row and run no handler.
LEMMA QuietType ==
    ASSUME Sound, \/ ClockMoves \/ Abort \/ Start \/ OpenSession
                  \/ \E v \in Versions : ApplyMigration(v)
                  \/ SignalRaised \/ SignalSeen \/ Shutdown \/ CloseSession \/ SystemTick
    PROVE  Sound'
<1> USE ClassAssumption, PressureAssumption, CountAssumption, BoundAssumption, LatestAssumption
<1> USE DEF clock, process, tables, Sound, TypeOK, HandlerSound, InHandler
<1>1. UNCHANGED <<events, decisions, snapshots>> /\ session <= session'
      /\ session' \in 0..MaxSessions
  BY DEF ClockMoves, Abort, Start, ApplyMigration, OpenSession, SignalRaised, SignalSeen,
         Shutdown, CloseSession, SystemTick, Exit
<1>2. pc' \notin {"Policy", "Auditing", "Storing"} \/ pc' = pc
  BY DEF ClockMoves, Abort, Start, ApplyMigration, OpenSession, SignalRaised, SignalSeen,
         Shutdown, CloseSession, SystemTick, Exit
<1>3. TablesSound'
  <2>1. Cardinality(events) \in Nat /\ Cardinality(decisions) \in Nat
    BY FS_CardinalityType DEF TablesSound
  <2>2. Cardinality(events) + Cardinality(decisions) <= Budget'
    BY <1>2, <2>1 DEF TablesSound, Budget
  <2>3. /\ \A r \in events : r.session <= session'
        /\ \A r \in decisions : r.session <= session'
    BY <1>1 DEF TablesSound, EventType, DecisionType, Sessions
  <2> QED BY <1>1, <2>2, <2>3 DEF TablesSound
<1>4. TypeOK'
  <2>1. CASE ClockMoves BY <2>1 DEF ClockMoves
  <2>2. CASE Abort BY <2>2 DEF Abort, Exit, NoPending, NewEngine, PendingType, Times, Audits
  <2>3. CASE Start BY <2>3 DEF Start
  <2>4. CASE \E v \in Versions : ApplyMigration(v) BY <2>4 DEF ApplyMigration
  <2>5. CASE OpenSession BY <2>5, <1>1 DEF OpenSession
  <2>6. CASE SignalRaised BY <2>6 DEF SignalRaised
  <2>7. CASE SignalSeen BY <2>7 DEF SignalSeen
  <2>8. CASE Shutdown BY <2>8 DEF Shutdown
  <2>9. CASE CloseSession
    BY <2>9 DEF CloseSession, Exit, NoPending, NewEngine, PendingType, Times, Audits, Sessions
  <2>10. CASE SystemTick BY <2>10 DEF SystemTick
  <2> QED BY <2>1, <2>2, <2>3, <2>4, <2>5, <2>6, <2>7, <2>8, <2>9, <2>10
<1>5. HandlerSound'
  BY <1>1, FS_CardinalityType
     DEF ClockMoves, Abort, Start, ApplyMigration, OpenSession, SignalRaised, SignalSeen,
         Shutdown, CloseSession, SystemTick, Exit, Selects
<1> QED BY <1>3, <1>4, <1>5

\* The steps that begin a handler.
LEMMA BeginType ==
    ASSUME Sound,
           ProcessTick \/ \E outcome \in Classes \union {"Unknown"} : ClassifyTick(outcome)
    PROVE  Sound'
<1> USE ClassAssumption, CountAssumption, BoundAssumption
<1> USE DEF Sound, clock, tables
<1>1. /\ BeginHandler
      /\ pc' \in {"Policy", "Storing"}
  BY DEF ProcessTick, ClassifyTick
<1>2. /\ UNCHANGED <<now, steppedBack, schema, ddl, session, closed, signal,
                     latest_system, engine, audit, events, decisions, snapshots, evaluated>>
      /\ tick' = now /\ chunks' \in 1..MaxChunks /\ pc = "Loop"
      /\ Cardinality(events) + Cardinality(decisions) < MaxRows
  BY <1>1 DEF BeginHandler, Selects
<1>3. /\ current' \in Classes \union {None}
      /\ pending' \in PendingType /\ streak' \in PendingType
      /\ transition' \subseteq TransitionType /\ emitted' \subseteq TransitionType
      /\ transition' = {} \/ \E t \in TransitionType : transition' = {t}
  <2>1. CASE ProcessTick BY <2>1 DEF ProcessTick, TypeOK
  <2>2. ASSUME NEW outcome \in Classes \union {"Unknown"}, Observe(outcome)
        PROVE  /\ current' \in Classes \union {None}
               /\ pending' \in PendingType /\ streak' \in PendingType
               /\ transition' \subseteq TransitionType /\ emitted' \subseteq TransitionType
               /\ transition' = {} \/ \E t \in TransitionType : transition' = {t}
    <3>1. streak' \in PendingType
      BY <2>2 DEF Observe, StreakWith, Saturated, PendingType, NoPending, TypeOK
    <3>2. CASE ObserveNothingNew(outcome)
      BY <3>1, <3>2 DEF ObserveNothingNew, TypeOK, PendingType, NoPending
    <3>3. CASE ObserveUnconfirmed(outcome)
      BY <3>1, <3>3 DEF ObserveUnconfirmed, Confirmed, CountWith, TypeOK, PendingType
    <3>4. CASE ObserveChange(outcome)
      <4> DEFINE t == [ts |-> now, previous |-> current, new |-> outcome]
      <4>1. t \in TransitionType
        BY <2>2, <3>4 DEF ObserveChange, TypeOK, TransitionType
      <4>2. transition' = {t} /\ emitted' = emitted \union {t}
        BY <3>4 DEF ObserveChange
      <4> QED BY <3>1, <3>4, <4>1, <4>2 DEF ObserveChange, TypeOK, PendingType, NoPending
    <3> QED BY <2>2, <3>2, <3>3, <3>4 DEF Observe
  <2> QED BY <2>1, <2>2 DEF ClassifyTick
<1>4. TypeOK' BY <1>1, <1>2, <1>3 DEF TypeOK
<1>5. TablesSound'
  <2>1. Cardinality(events) \in Nat /\ Cardinality(decisions) \in Nat
    BY FS_CardinalityType DEF TablesSound
  <2> QED BY <1>1, <1>2, <2>1 DEF TablesSound, Budget, InHandler
<1>6. HandlerSound' BY <1>1, <1>2, <1>3 DEF HandlerSound, InHandler, TypeOK
<1> QED BY <1>4, <1>5, <1>6

\* A decision row is new and its id is the next one.
LEMMA NewDecision ==
    ASSUME Sound, pc = "Policy", NEW d \in Decisions
    PROVE  /\ DecisionRow(d) \in DecisionType
           /\ DecisionRow(d) \notin decisions
           /\ DecisionRow(d).id = Cardinality(decisions) + 1
           /\ DecisionRow(d).session = session
           /\ IsFiniteSet(decisions \union {DecisionRow(d)})
           /\ Cardinality(decisions \union {DecisionRow(d)}) = Cardinality(decisions) + 1
<1> USE BoundAssumption
<1>1. Cardinality(events) \in Nat /\ Cardinality(decisions) \in Nat
  BY FS_CardinalityType DEF Sound, TablesSound
<1>2. Cardinality(decisions) + 1 \in Ids
  BY <1>1 DEF Sound, TablesSound, Budget, Ids
<1>3. DecisionRow(d) \in DecisionType
  BY <1>2 DEF DecisionRow, NextId, DecisionType, Sound, TypeOK, HandlerSound, InHandler, Sessions
<1>4. DecisionRow(d) \notin decisions
  BY <1>1 DEF DecisionRow, NextId, Sound, TablesSound
<1> QED BY <1>1, <1>3, <1>4, FS_AddElement DEF DecisionRow, NextId, Sound, TablesSound

\* Evaluating the policy and storing its row.
LEMMA PolicyType ==
    ASSUME Sound, PolicyRefused \/ \E d \in Decisions : Policy(d)
    PROVE  Sound'
<1> USE BoundAssumption, PressureAssumption
<1> USE DEF Sound, clock, tables
<1>1. Cardinality(events) \in Nat /\ Cardinality(decisions) \in Nat
  BY FS_CardinalityType DEF TablesSound
<1>2. CASE PolicyRefused
  <2>1. TypeOK' BY <1>2 DEF PolicyRefused, TypeOK
  <2>2. TablesSound' BY <1>1, <1>2 DEF PolicyRefused, TablesSound, Budget, InHandler
  <2>3. HandlerSound' BY <1>2 DEF PolicyRefused, HandlerSound, InHandler
  <2> QED BY <2>1, <2>2, <2>3
<1>3. ASSUME NEW d \in Decisions, Policy(d) PROVE Sound'
  <2>1. /\ UNCHANGED <<now, steppedBack, schema, ddl, session, closed, signal, latest_system,
                       current, pending, streak, tick, transition, chunks, events,
                       snapshots, emitted>>
        /\ pc = "Policy" /\ pc' \in {"Storing", "Auditing"}
    BY <1>3 DEF Policy
  <2>2. \/ decisions' = decisions /\ audit' = audit /\ pc' = "Storing"
        \/ decisions' = decisions \union {DecisionRow(d)} /\ audit' = 1
    BY <1>3 DEF Policy
  <2>3. engine' \in [state : Pressures, entered : Times] /\ d \in [state : Pressures, plan : Plans]
    BY <1>3, <2>1 DEF Policy, TypeOK, HandlerSound, InHandler
  <2>4. evaluated' \subseteq [decision : Decisions, ts : Times]
    BY <1>3, <2>1 DEF Policy, TypeOK, HandlerSound, InHandler
  <2>8. /\ DecisionRow(d) \in DecisionType
        /\ DecisionRow(d).id = Cardinality(decisions) + 1
        /\ DecisionRow(d).session = session
    BY <2>1, NewDecision
  <2>9. decisions' \subseteq DecisionType /\ audit' \in 0..Len(Audits) /\ session \in Int
    BY <2>2, <2>8 DEF TypeOK, Audits
  <2>5. TypeOK' BY <2>1, <2>3, <2>4, <2>9 DEF TypeOK
  <2>6. TablesSound'
    <3>1. CASE decisions' = decisions
      BY <1>1, <2>1, <3>1 DEF TablesSound, Budget, InHandler
    <3>2. CASE decisions' = decisions \union {DecisionRow(d)}
      <4>1. Cardinality(decisions') = Cardinality(decisions) + 1 /\ IsFiniteSet(decisions')
        BY <2>1, <3>2, NewDecision
      <4>2. \A r \in decisions' : r.id <= Cardinality(decisions') /\ r.session <= session
        <5> SUFFICES ASSUME NEW r \in decisions'
                     PROVE  r.id <= Cardinality(decisions') /\ r.session <= session
          OBVIOUS
        <5>1. CASE r = DecisionRow(d) BY <1>1, <2>8, <2>9, <4>1, <5>1
        <5>2. CASE r \in decisions
          BY <1>1, <4>1, <5>2 DEF TablesSound, TypeOK, DecisionType, Ids
        <5> QED BY <3>2, <5>1, <5>2
      <4>3. Cardinality(events') + Cardinality(decisions') <= Budget'
        BY <1>1, <2>1, <4>1 DEF TablesSound, Budget, InHandler
      <4> QED BY <2>1, <4>1, <4>2, <4>3 DEF TablesSound
    <3> QED BY <2>2, <3>1, <3>2
  <2>7. HandlerSound'
    <3>1. pc' = "Auditing" => Cardinality(decisions') >= 1
      BY <1>1, <2>1, <2>2, NewDecision
    <3> QED BY <2>1, <2>2, <3>1 DEF HandlerSound, InHandler
  <2> QED BY <2>5, <2>6, <2>7
<1> QED BY <1>2, <1>3

\* Storing the observe-only audits of a decision.
LEMMA AuditType ==
    ASSUME Sound, Audit
    PROVE  Sound'
<1> USE BoundAssumption
<1> USE DEF Sound, clock
<1>1. /\ UNCHANGED <<now, steppedBack, schema, ddl, session, closed, signal, latest_system,
                     current, pending, streak, engine, tick, transition, chunks,
                     events, decisions, emitted, evaluated>>
      /\ pc = "Auditing" /\ pc' \in {"Auditing", "Storing"}
      /\ audit' \in 0..5 /\ (pc' = "Auditing" => audit' >= 1)
      /\ snapshots' \subseteq Ids \X Mandatory
  BY DEF Audit, AdvanceAudit, Audits, TypeOK, HandlerSound
<1>2. Cardinality(events) \in Nat /\ Cardinality(decisions) \in Nat
  BY FS_CardinalityType DEF TablesSound
<1>3. TypeOK' BY <1>1 DEF TypeOK, Audits
<1>4. TablesSound' BY <1>1, <1>2 DEF TablesSound, Budget, InHandler
<1>5. HandlerSound' BY <1>1 DEF HandlerSound, InHandler
<1> QED BY <1>3, <1>4, <1>5

\* An event row is new and its id is the next one.
LEMMA NewEvent ==
    ASSUME Sound, pc = "Storing", NEW t \in TransitionType
    PROVE  /\ EventRow(t) \in EventType
           /\ EventRow(t) \notin events
           /\ EventRow(t).id = Cardinality(events) + 1
           /\ EventRow(t).session = session
           /\ IsFiniteSet(events \union {EventRow(t)})
           /\ Cardinality(events \union {EventRow(t)}) = Cardinality(events) + 1
<1> USE BoundAssumption
<1>1. Cardinality(events) \in Nat /\ Cardinality(decisions) \in Nat
  BY FS_CardinalityType DEF Sound, TablesSound
<1>2. Cardinality(events) + 1 \in Ids
  BY <1>1 DEF Sound, TablesSound, Budget, InHandler, Ids
<1>3. EventRow(t) \in EventType
  BY <1>2 DEF EventRow, NextId, EventType, TransitionType, Sound, TypeOK, HandlerSound, Sessions
<1>4. EventRow(t) \notin events
  BY <1>1 DEF EventRow, NextId, Sound, TablesSound
<1> QED BY <1>1, <1>3, <1>4, FS_AddElement DEF EventRow, NextId, Sound, TablesSound

\* A batch adds the row of the transition, or none.
LEMMA BatchRows ==
    ASSUME Sound, StoreBatch
    PROVE  \/ events' = events
           \/ chunks = 1 /\ \E t \in transition :
                 events' = events \union {EventRow(t)} /\ transition = {t}
<1> DEFINE T == IF chunks = 1 THEN transition ELSE {}
<1>1. events' = events \union
         {EventRow(t) : t \in {u \in T : \A r \in Newest(events) : r.new # u.new}}
  BY DEF StoreBatch, InsertTransition
<1>2. CASE T = {} BY <1>1, <1>2
<1>3. CASE T # {}
  <2>1. chunks = 1 /\ T = transition BY <1>3
  <2>2. PICK t \in TransitionType : transition = {t}
    BY <1>3, <2>1 DEF Sound, HandlerSound
  <2> QED BY <1>1, <2>1, <2>2
<1> QED BY <1>2, <1>3

\* Storing a batch of classified processes.
LEMMA StoreType ==
    ASSUME Sound, StoreBatch
    PROVE  Sound'
<1> USE BoundAssumption
<1> USE DEF clock
<1>1. Cardinality(events) \in Nat /\ Cardinality(decisions) \in Nat
  BY FS_CardinalityType DEF Sound, TablesSound
<1>2. /\ UNCHANGED <<now, steppedBack, schema, ddl, session, closed, signal, latest_system,
                     current, pending, streak, engine, audit, decisions, snapshots,
                     emitted, evaluated>>
      /\ pc = "Storing" /\ chunks' = chunks - 1 /\ chunks >= 1 /\ chunks \in 0..MaxChunks
      /\ \/ chunks = 1 /\ pc' = "Loop" /\ transition' = {} /\ tick' = NoTime
         \/ chunks # 1 /\ UNCHANGED <<pc, transition, tick>>
  BY DEF StoreBatch, Sound, HandlerSound, InHandler, TypeOK
<1> DEFINE Grown ==
      /\ events' \subseteq EventType /\ IsFiniteSet(events')
      /\ \A r \in events' : r.id <= Cardinality(events') /\ r.session <= session
      /\ Cardinality(events') \in Nat
      /\ Cardinality(events') <= Cardinality(events) + (IF chunks = 1 THEN 1 ELSE 0)
<1>3. Grown
  <2>1. CASE events' = events BY <1>1, <2>1 DEF Sound, TypeOK, TablesSound
  <2>2. ASSUME chunks = 1, NEW t \in transition, events' = events \union {EventRow(t)}
        PROVE  Grown
    <3>1. t \in TransitionType /\ session \in Int BY DEF Sound, TypeOK
    <3>2. /\ EventRow(t) \in EventType
          /\ EventRow(t).id = Cardinality(events) + 1
          /\ EventRow(t).session = session
          /\ IsFiniteSet(events')
          /\ Cardinality(events') = Cardinality(events) + 1
      BY <1>2, <2>2, <3>1, NewEvent
    <3>3. \A r \in events : r.id <= Cardinality(events) /\ r.session <= session /\ r.id \in Int
      BY DEF Sound, TypeOK, TablesSound, EventType, Ids
    <3>4. events \subseteq EventType BY DEF Sound, TypeOK
    <3>5. ASSUME NEW r \in events' PROVE r.id <= Cardinality(events') /\ r.session <= session
      <4>1. CASE r \in events BY <1>1, <3>2, <3>3, <4>1
      <4>2. CASE r = EventRow(t) BY <1>1, <3>1, <3>2, <4>2
      <4> QED BY <2>2, <3>5, <4>1, <4>2
    <3>6. events' \subseteq EventType BY <2>2, <3>2, <3>4
    <3> QED BY <1>1, <2>2, <3>2, <3>5, <3>6
  <2> QED BY <2>1, <2>2, BatchRows
<1> HIDE DEF Grown
<1>4. TypeOK' BY <1>2, <1>3 DEF Grown, Sound, TypeOK
<1>5. TablesSound'
  <2>1. Cardinality(events') + Cardinality(decisions') <= Budget'
    BY <1>1, <1>2, <1>3 DEF Grown, Sound, TablesSound, Budget, InHandler
  <2> QED BY <1>2, <1>3, <2>1 DEF Grown, Sound, TablesSound
<1>6. HandlerSound' BY <1>2 DEF Sound, HandlerSound, InHandler
<1> QED BY <1>4, <1>5, <1>6 DEF Sound

\* Every step keeps the daemon well typed and its tables sound.
LEMMA NextSound == Sound /\ [Next]_vars => Sound'
<1> SUFFICES ASSUME Sound, [Next]_vars PROVE Sound'
  OBVIOUS
<1>1. CASE UNCHANGED vars
  BY <1>1 DEF vars, process, tables, clock, Sound, TypeOK, TablesSound, HandlerSound,
              Budget, InHandler
<1>2. CASE Next
  BY <1>2, QuietType, BeginType, PolicyType, AuditType, StoreType DEF Next, Handlers
<1> QED BY <1>1, <1>2

\* The invariant the other proofs start from.
LEMMA SoundHolds == Spec => []Sound
BY InitSound, NextSound, PTL DEF Spec

\* In every reachable state the daemon's variables have their types.
THEOREM TypeCorrect == Spec => []TypeOK
<1>1. Sound => TypeOK BY DEF Sound
<1> QED BY <1>1, SoundHolds, PTL

----------------------------------------------------------------------------
(* The workload class *)

\* The pending count of the stabilizer never runs ahead of what it observed.
PendingEarned ==
    pending.class # None => streak.class = pending.class /\ streak.count >= pending.count

\* A step either classifies, or leaves the stabilizer alone, or ends the
\* process.
LEMMA StabilizerStep ==
    ASSUME [Next]_vars
    PROVE  \/ \E outcome \in Classes \union {"Unknown"} : Observe(outcome)
           \/ UNCHANGED <<current, pending, streak>>
           \/ current' = None /\ pending' = NoPending
BY DEF Next, Handlers, vars, process, tables, clock, ClockMoves, Abort, Start, ApplyMigration,
       OpenSession, SignalRaised, SignalSeen, Shutdown, CloseSession, SystemTick, Exit,
       ProcessTick, ClassifyTick, PolicyRefused, Policy, Audit, AdvanceAudit, StoreBatch

\* A confirmed class was observed often enough, and the count stays earned.
LEMMA ObserveEarned ==
    ASSUME Sound, PendingEarned, NEW outcome \in Classes \union {"Unknown"}, Observe(outcome)
    PROVE  /\ PendingEarned'
           /\ current' \notin {current, None, Critical} =>
                 streak'.class = current' /\ streak'.count >= Confirmations
<1> USE ClassAssumption, CountAssumption
<1>1. pending \in PendingType /\ streak \in PendingType BY DEF Sound, TypeOK
<1>2. CASE ObserveNothingNew(outcome)
  BY <1>2 DEF ObserveNothingNew, PendingEarned, NoPending
<1>3. CASE ObserveUnconfirmed(outcome)
  BY <1>1, <1>3 DEF ObserveUnconfirmed, PendingEarned, Observe, StreakWith, CountWith,
                    Confirmed, Saturated, PendingType
<1>4. CASE ObserveChange(outcome)
  <2>1. PendingEarned' BY <1>4 DEF ObserveChange, PendingEarned, NoPending
  <2>2. ASSUME outcome # Critical PROVE streak'.class = outcome /\ streak'.count >= Confirmations
    BY <1>1, <1>4, <2>2 DEF ObserveChange, Confirmed, CountWith, PendingEarned, Observe,
                            StreakWith, Saturated, PendingType
  <2> QED BY <1>4, <2>1, <2>2 DEF ObserveChange
<1> QED BY <1>2, <1>3, <1>4 DEF Observe

\* WorkloadStabilizer::observe: however classified, unknown and skipped ticks
\* interleave, a class other than critical pressure takes over only after the
\* configured number of consecutive equal outcomes.
THEOREM WorkloadHysteresisHolds == Spec => WorkloadHysteresis
<1> DEFINE Earned == current' \notin {current, None, Critical} =>
                        streak'.class = current' /\ streak'.count >= Confirmations
<1>1. Init => PendingEarned BY DEF Init, PendingEarned, NoPending
<1>2. ASSUME Sound, PendingEarned, [Next]_vars PROVE PendingEarned' /\ Earned
  <2>1. CASE \E outcome \in Classes \union {"Unknown"} : Observe(outcome)
    BY <1>2, <2>1, ObserveEarned
  <2>2. CASE UNCHANGED <<current, pending, streak>> BY <1>2, <2>2 DEF PendingEarned
  <2>3. CASE current' = None /\ pending' = NoPending BY <2>3 DEF PendingEarned, NoPending
  <2> QED BY <1>2, <2>1, <2>2, <2>3, StabilizerStep
<1>3. Sound /\ PendingEarned /\ [Next]_vars => PendingEarned' BY <1>2
<1>4. Sound /\ PendingEarned /\ [Next]_vars => [Earned]_vars BY <1>2
<1>5. WorkloadHysteresis <=> [][Earned]_vars BY DEF WorkloadHysteresis
<1> QED BY <1>1, <1>3, <1>4, <1>5, SoundHolds, PTL DEF Spec

----------------------------------------------------------------------------
(* The migrations *)

\* Storage::apply_migration: whatever dies between two migrations, a version
\* is recorded exactly when its statements ran, and a session runs only over
\* this build's schema.
THEOREM SchemaSoundHolds == Spec => []SchemaSound
<1>1. Init => SchemaSound
  <2> SUFFICES ASSUME Init PROVE SchemaSound
    OBVIOUS
  <2>1. PICK n \in 0..Latest : \E foreign \in SUBSET (1..n) :
          /\ ddl = 1..n
          /\ schema = [v \in Versions |-> IF v > n THEN "absent"
                                          ELSE IF v \in foreign THEN "foreign"
                                          ELSE "ours"]
    BY DEF Init
  <2> QED BY <2>1, LatestAssumption DEF Init, SchemaSound, Running, Versions
<1>2. ASSUME Sound, SchemaSound, [Next]_vars PROVE SchemaSound'
  <2>1. CASE \E v \in Versions : ApplyMigration(v)
    BY <1>2, <2>1 DEF Sound, TypeOK, SchemaSound, Running, ApplyMigration, process, IsNext, Behind
  <2>2. CASE OpenSession
    BY <1>2, <2>2 DEF SchemaSound, Running, OpenSession, Behind
  <2>3. CASE /\ UNCHANGED <<schema, ddl>>
             /\ pc' \notin {"Down", "Migrating"} => pc \notin {"Down", "Migrating"}
    BY <1>2, <2>3 DEF SchemaSound, Running
  <2>4. \/ \E v \in Versions : ApplyMigration(v)
        \/ OpenSession
        \/ /\ UNCHANGED <<schema, ddl>>
           /\ pc' \notin {"Down", "Migrating"} => pc \notin {"Down", "Migrating"}
    BY <1>2 DEF Next, Handlers, vars, process, tables, clock, ClockMoves, Abort, Start,
                SignalRaised, SignalSeen, Shutdown, CloseSession, SystemTick, Exit, Selects,
                ProcessTick, ClassifyTick, BeginHandler, PolicyRefused, Policy, Audit,
                AdvanceAudit, StoreBatch
  <2> QED BY <2>1, <2>2, <2>3, <2>4
<1>3. Sound /\ SchemaSound /\ [Next]_vars => SchemaSound' BY <1>2
<1> QED BY <1>1, <1>3, SoundHolds, PTL DEF Spec

----------------------------------------------------------------------------
(* The wall clock and the decision rows *)

\* A handler works with the time at which it began; unless the clock was set
\* back, no row of the session is younger than the clock.
ClockSound ==
    /\ InHandler => tick = now
    /\ ~Running => evaluated = {}
    /\ steppedBack = "No" =>
          /\ \A r \in Rows(events) : r.ts <= now
          /\ \A r \in Rows(decisions) : r.ts <= now
          /\ \A t \in transition : t.ts = tick

\* The steps that leave the rows, the transition and the session alone.
LEMMA RowsUntouched ==
    ASSUME Sound, [Next]_vars, ~OpenSession, ~StoreBatch, \A d \in Decisions : ~Policy(d)
    PROVE  /\ UNCHANGED <<events, decisions, session>>
           /\ steppedBack' = "No" => steppedBack = "No" /\ now <= now'
           /\ InHandler => now' = now
BY DEF Sound, TypeOK, Times, InHandler, Next, Handlers, vars, process, tables, clock,
       ClockMoves, Abort, Start, ApplyMigration, SignalRaised, SignalSeen, Shutdown,
       CloseSession, SystemTick, Exit, ProcessTick, ClassifyTick, BeginHandler, Selects,
       PolicyRefused, Audit, AdvanceAudit

\* Every step keeps the rows behind the clock.
LEMMA ClockStep == Sound /\ ClockSound /\ [Next]_vars => ClockSound'
<1> SUFFICES ASSUME Sound, ClockSound, [Next]_vars PROVE ClockSound'
  OBVIOUS
<1> USE DEF InHandler, Running
<1>1. CASE OpenSession
  <2>1. Rows(events)' = {} /\ Rows(decisions)' = {}
    BY <1>1 DEF OpenSession, tables, Rows, Sound, TablesSound, TypeOK, EventType, DecisionType,
                Sessions
  <2> QED BY <1>1, <2>1 DEF OpenSession, ClockSound, Sound, HandlerSound
<1>2. CASE StoreBatch
  <2>1. /\ UNCHANGED <<now, steppedBack, session, decisions, evaluated>>
        /\ pc = "Storing" /\ transition' \subseteq transition
        /\ \/ pc' = "Loop" /\ transition' = {}
           \/ UNCHANGED <<pc, tick>>
    BY <1>2 DEF StoreBatch, clock
  <2>2. \A r \in events' \ events : \E t \in transition : r.ts = t.ts
    BY <1>2, BatchRows DEF EventRow
  <2>3. steppedBack = "No" => \A r \in Rows(events)' : r.ts <= now
    <3> SUFFICES ASSUME steppedBack = "No", NEW r \in Rows(events)' PROVE r.ts <= now
      OBVIOUS
    <3>1. CASE r \in events BY <2>1, <3>1 DEF ClockSound, Rows
    <3>2. CASE r \notin events
      BY <2>1, <2>2, <3>2 DEF ClockSound, Rows, Sound, TypeOK, Times
    <3> QED BY <3>1, <3>2
  <2> QED BY <2>1, <2>3 DEF ClockSound, Rows
<1>3. ASSUME NEW d \in Decisions, Policy(d) PROVE ClockSound'
  <2>1. /\ UNCHANGED <<now, steppedBack, session, events, tick, transition>>
        /\ pc = "Policy" /\ pc' \in {"Storing", "Auditing"}
        /\ decisions' = decisions \/ decisions' = decisions \union {DecisionRow(d)}
    BY <1>3 DEF Policy, clock
  <2>2. DecisionRow(d).ts = tick BY DEF DecisionRow
  <2> QED BY <2>1, <2>2 DEF ClockSound, Rows, Sound, TypeOK, Times
<1>4. CASE ~OpenSession /\ ~StoreBatch /\ \A d \in Decisions : ~Policy(d)
  <2>1. /\ UNCHANGED <<events, decisions, session>>
        /\ steppedBack' = "No" => steppedBack = "No" /\ now <= now'
        /\ InHandler => now' = now
    BY <1>4, RowsUntouched
  <2>2. /\ InHandler' => tick' = now'
        /\ ~Running' => evaluated' = {}
        /\ \/ transition' = {}
           \/ transition' = transition /\ tick' = tick
           \/ \A t \in transition' : t.ts = tick'
    BY <1>4 DEF ClockSound, Sound, HandlerSound, Next, Handlers, vars, process, tables, clock,
       ClockMoves, Abort, Start, ApplyMigration, SignalRaised, SignalSeen, Shutdown,
       CloseSession, SystemTick, Exit, ProcessTick, ClassifyTick, BeginHandler, Selects,
       PolicyRefused, Audit, AdvanceAudit, Observe, ObserveNothingNew, ObserveUnconfirmed,
       ObserveChange
  <2>3. \A r \in Rows(events) \union Rows(decisions) : r.ts \in Times
    BY DEF Sound, TypeOK, Rows, EventType, DecisionType
  <2>4. now \in Times /\ now' \in Times BY NextSound DEF Sound, TypeOK
  <2> QED BY <2>1, <2>2, <2>3, <2>4 DEF ClockSound, Rows, Times
<1> QED BY <1>1, <1>2, <1>3, <1>4

\* The rows are behind the clock in every reachable state.
LEMMA ClockSoundHolds == Spec => []ClockSound
<1>1. Init => ClockSound BY DEF Init, ClockSound, InHandler, Running, Rows
<1> QED BY <1>1, ClockStep, SoundHolds, PTL DEF Spec

\* Storage::insert_policy_decision: although equal decisions are not stored
\* again, the latest row of the session always shows the last evaluation and
\* is younger than the heartbeat, unless the wall clock was set back.
THEOREM AuditCurrentHolds == Spec => []AuditCurrent
<1>1. Init => AuditCurrent BY DEF Init, AuditCurrent
<1>2. ASSUME Sound, ClockSound, AuditCurrent, [Next]_vars PROVE AuditCurrent'
  <2>1. CASE OpenSession
    BY <1>2, <2>1 DEF OpenSession, AuditCurrent, ClockSound, Running
  <2>2. ASSUME NEW d \in Decisions, Policy(d) PROVE AuditCurrent'
    <3> SUFFICES ASSUME steppedBack' = "No" PROVE AuditCurrent'
      BY DEF AuditCurrent
    <3>1. /\ UNCHANGED <<steppedBack, session>> /\ pc = "Policy"
          /\ evaluated' = {[decision |-> d, ts |-> tick]}
          /\ \/ Suppressed(d) /\ decisions' = decisions
             \/ decisions' = decisions \union {DecisionRow(d)}
      BY <2>2 DEF Policy, clock
    <3>2. CASE Suppressed(d) /\ decisions' = decisions
      BY <3>1, <3>2 DEF Suppressed, AuditCurrent, Newest
    <3>3. CASE decisions' = decisions \union {DecisionRow(d)}
      <4> DEFINE row == DecisionRow(d)
      <4>1. row.session = session /\ row.ts = tick /\ row.decision = d
            /\ row.id = Cardinality(decisions) + 1
        BY DEF DecisionRow, NextId
      <4>2. tick = now /\ tick \in Int BY <1>2, <3>1 DEF ClockSound, InHandler, Sound, TypeOK, Times
      <4>3. \A q \in decisions : q.session = session =>
               q.ts <= tick /\ q.ts \in Int /\ q.id \in Int /\ q.id <= row.id
        <5>1. Cardinality(decisions) \in Nat
          BY <1>2, FS_CardinalityType DEF Sound, TablesSound
        <5> QED BY <1>2, <3>1, <4>1, <4>2, <5>1
                DEF ClockSound, Rows, Sound, TypeOK, TablesSound, DecisionType, Ids, Times
      <4>4. row \in decisions' /\ row.id \in Int
        BY <1>2, <3>3, <4>1, FS_CardinalityType DEF Sound, TablesSound
      <4> HIDE DEF row
      <4>5. decisions' = decisions \union {row} BY <3>3 DEF row
      <4>6. row \in Newest(decisions)'
        BY <3>1, <4>1, <4>2, <4>3, <4>4, <4>5 DEF Newest
      <4> QED BY <3>1, <4>1, <4>2, <4>6, HeartbeatAssumption DEF AuditCurrent
    <3> QED BY <3>1, <3>2, <3>3
  <2>3. CASE ~OpenSession /\ \A d \in Decisions : ~Policy(d)
    <3>1. /\ UNCHANGED <<decisions, session>> /\ (evaluated' = {} \/ evaluated' = evaluated)
          /\ steppedBack' = "No" => steppedBack = "No"
      BY <1>2, <2>3 DEF Next, Handlers, vars, process, tables, clock, ClockMoves, Abort, Start,
         ApplyMigration, SignalRaised, SignalSeen, Shutdown, CloseSession, SystemTick, Exit,
         ProcessTick, ClassifyTick, BeginHandler, PolicyRefused, Audit, AdvanceAudit, StoreBatch
    <3> QED BY <1>2, <3>1 DEF AuditCurrent, Newest
  <2> QED BY <2>1, <2>2, <2>3
<1>3. Sound /\ ClockSound /\ AuditCurrent /\ [Next]_vars => AuditCurrent' BY <1>2
<1> QED BY <1>1, <1>3, SoundHolds, ClockSoundHolds, PTL DEF Spec

----------------------------------------------------------------------------
(* The workload events *)

\* The session's last row, which is also the last of the table, names c; no
\* row yet stands for None.
LastNames(c) ==
    IF c = None THEN Rows(events) = {}
    ELSE \E r \in Newest(events) : r.new = c /\ r.id = Cardinality(events)

Chained ==
    \A r \in Rows(events) :
        \/ r.previous = None /\ \A q \in Rows(events) : r.id <= q.id
        \/ \E q \in Rows(events) : q.id = r.id - 1 /\ q.new = r.previous

\* The rows are a chain that ends in the stabilizer's class, or in the class
\* the transition still to be stored comes from; nothing returned is lost.
EventsSound ==
    /\ \A r, q \in events : r.id = q.id => r = q
    /\ ~Running => current = None
    /\ steppedBack = "No" =>
          /\ Chained
          /\ Running /\ transition = {} => LastNames(current)
          /\ \A t \in transition :
                t.new = current /\ t.previous # t.new /\ LastNames(t.previous)
          /\ \A t \in emitted : Stored(t) \/ t \in transition

\* Unless the clock was set back, the last batch of a handler that holds a
\* transition does store it.
LEMMA TransitionStored ==
    ASSUME Sound, ClockSound, EventsSound, StoreBatch, steppedBack = "No", chunks = 1,
           NEW t, transition = {t}
    PROVE  events' = events \union {EventRow(t)}
<1>1. \A r \in Newest(events) : r.new # t.new
  <2> SUFFICES ASSUME NEW r \in Newest(events) PROVE r.new # t.new
    OBVIOUS
  <2>1. LastNames(t.previous) /\ t.previous # t.new BY DEF EventsSound
  <2>2. t.previous # None BY <2>1 DEF LastNames, Newest, Rows
  <2>3. PICK q \in Newest(events) : q.new = t.previous BY <2>1, <2>2 DEF LastNames
  <2>4. q \in events /\ r \in events /\ q.id \in Int /\ r.id \in Int /\ q.ts \in Int /\ r.ts \in Int
    BY DEF Newest, Sound, TypeOK, EventType, Ids, Times
  <2>5. q.id = r.id BY <2>4 DEF Newest
  <2> QED BY <2>1, <2>3, <2>4, <2>5 DEF EventsSound
<1>2. {u \in transition : \A r \in Newest(events) : r.new # u.new} = {t} BY <1>1
<1> QED BY <1>2 DEF StoreBatch, InsertTransition

\* A step that leaves the rows alone, and the class and transition too or
\* ends the process.
LEMMA EventsFrame ==
    ASSUME EventsSound, UNCHANGED <<events, session>>,
           steppedBack' = "No" => steppedBack = "No",
           \/ UNCHANGED <<current, transition, emitted>> /\ (Running' <=> Running)
           \/ current' = None /\ transition' = {} /\ ~Running' /\ transition = {} /\ emitted' = emitted
           \/ current' = None /\ transition' = {} /\ ~Running' /\ emitted' = {}
    PROVE  EventsSound'
BY DEF EventsSound, Chained, LastNames, Rows, Newest, Stored

\* Every step keeps the chain.
LEMMA EventsStep == Sound /\ ClockSound /\ EventsSound /\ [Next]_vars => EventsSound'
<1> SUFFICES ASSUME Sound, ClockSound, EventsSound, [Next]_vars PROVE EventsSound'
  OBVIOUS
<1>1. CASE OpenSession
  <2>1. Rows(events)' = {}
    BY <1>1 DEF OpenSession, tables, Rows, Sound, TablesSound, TypeOK, EventType, Sessions
  <2>2. /\ transition' = {} /\ current' = None /\ events' = events /\ emitted' = {}
    BY <1>1 DEF OpenSession, tables, Sound, HandlerSound, InHandler, EventsSound, Running
  <2> QED BY <1>1, <2>1, <2>2 DEF EventsSound, Chained, LastNames, OpenSession, Running
<1>2. CASE StoreBatch
  <2>1. /\ UNCHANGED <<now, steppedBack, session, current, emitted>> /\ pc = "Storing"
        /\ \/ chunks = 1 /\ pc' = "Loop" /\ transition' = {}
           \/ chunks # 1 /\ UNCHANGED <<pc, transition>>
    BY <1>2 DEF StoreBatch, clock
  <2>2. \A r, q \in events' : r.id = q.id => r = q
    <3>1. CASE events' = events BY <3>1 DEF EventsSound
    <3>2. ASSUME NEW t \in transition, events' = events \union {EventRow(t)}
          PROVE  \A r, q \in events' : r.id = q.id => r = q
      <4>1. EventRow(t).id = Cardinality(events) + 1
        BY <2>1, NewEvent DEF Sound, TypeOK
      <4>2. \A r \in events : r.id <= Cardinality(events) /\ r.id \in Int
        BY DEF Sound, TablesSound, TypeOK, EventType, Ids
      <4>3. Cardinality(events) \in Nat BY FS_CardinalityType DEF Sound, TablesSound
      <4> QED BY <3>2, <4>1, <4>2, <4>3 DEF EventsSound
    <3> QED BY <1>2, <3>1, <3>2, BatchRows
  <2>3. CASE events' = events /\ (transition = {} \/ chunks # 1)
    BY <2>1, <2>3 DEF EventsSound, Chained, LastNames, Rows, Newest, Stored, Running
  <2>4. CASE steppedBack # "No" BY <2>1, <2>2, <2>4 DEF EventsSound, Running
  <2>5. ASSUME steppedBack = "No", chunks = 1, NEW t, transition = {t} PROVE EventsSound'
    <3> DEFINE row == EventRow(t)
    <3>1. events' = events \union {row} BY <1>2, <2>5, TransitionStored
    <3>2. t \in TransitionType BY <2>5 DEF Sound, TypeOK
    <3>3. /\ row \in EventType /\ row \notin events
          /\ row.id = Cardinality(events) + 1 /\ row.session = session
          /\ Cardinality(events') = Cardinality(events) + 1
      BY <2>1, <3>1, <3>2, NewEvent
    <3>4. row.ts = t.ts /\ row.previous = t.previous /\ row.new = t.new BY DEF EventRow
    <3>5. t.ts = now /\ now \in Int
      BY <2>1, <2>5 DEF ClockSound, InHandler, Sound, TypeOK, Times
    <3>6. \A q \in Rows(events) : q.ts <= now /\ q.ts \in Int /\ q.id \in Int /\ q.id < row.id
      <4>1. Cardinality(events) \in Nat BY FS_CardinalityType DEF Sound, TablesSound
      <4> QED BY <2>5, <3>3, <4>1
              DEF ClockSound, Rows, Sound, TypeOK, TablesSound, EventType, Ids, Times
    <3>7. row.id \in Int BY <3>3 DEF EventType, Ids
    <3> HIDE DEF row
    <3>8. Rows(events)' = Rows(events) \union {row} BY <2>1, <3>1, <3>3 DEF Rows
    <3>9. row \in Newest(events)'
      BY <2>1, <3>1, <3>3, <3>4, <3>5, <3>6, <3>7 DEF Newest, Rows
    <3>10. t.new = current /\ LastNames(t.previous) /\ t.new # None /\ Chained
      BY <2>5, <3>2, ClassAssumption DEF EventsSound, TransitionType
    <3>11. LastNames(current)'
      BY <2>1, <3>3, <3>4, <3>9, <3>10 DEF LastNames
    <3>12. \/ row.previous = None /\ \A q \in Rows(events)' : row.id <= q.id
           \/ \E q \in Rows(events)' : q.id = row.id - 1 /\ q.new = row.previous
      <4>1. CASE t.previous = None
        BY <3>4, <3>7, <3>8, <3>10, <4>1 DEF LastNames
      <4>2. CASE t.previous # None
        <5>1. PICK q \in Newest(events) : q.new = t.previous /\ q.id = Cardinality(events)
          BY <3>10, <4>2 DEF LastNames
        <5>2. Cardinality(events) \in Nat BY FS_CardinalityType DEF Sound, TablesSound
        <5>3. q \in Rows(events) BY DEF Newest, Rows
        <5> QED BY <3>3, <3>4, <3>8, <5>1, <5>2, <5>3
      <4> QED BY <4>1, <4>2
    <3>13. Chained'
      <4> SUFFICES ASSUME NEW r \in Rows(events)'
                   PROVE \/ r.previous = None /\ \A q \in Rows(events)' : r.id <= q.id
                         \/ \E q \in Rows(events)' : q.id = r.id - 1 /\ q.new = r.previous
        BY DEF Chained
      <4>1. CASE r = row BY <3>12, <4>1
      <4>2. CASE r \in Rows(events)
        BY <3>6, <3>7, <3>8, <3>10, <4>2 DEF Chained
      <4> QED BY <3>8, <4>1, <4>2
    <3>14. \A u \in emitted' : Stored(u)'
      <4> SUFFICES ASSUME NEW u \in emitted PROVE Stored(u)'
        BY <2>1
      <4>1. CASE Stored(u) BY <3>8, <4>1 DEF Stored
      <4>2. CASE u = t BY <3>4, <3>8, <4>2 DEF Stored
      <4> QED BY <2>5, <4>1, <4>2 DEF EventsSound
    <3> QED BY <2>1, <2>2, <2>5, <3>11, <3>13, <3>14 DEF EventsSound, Running
  <2> QED BY <1>2, <2>3, <2>4, <2>5, BatchRows DEF Sound, HandlerSound
<1>3. ASSUME NEW outcome \in Classes \union {"Unknown"}, ClassifyTick(outcome) PROVE EventsSound'
  <2>1. /\ UNCHANGED <<events, session, steppedBack>> /\ pc = "Loop" /\ Running'
        /\ transition = {}
    BY <1>3 DEF ClassifyTick, BeginHandler, Selects, tables, clock, Running, Sound,
                HandlerSound, InHandler
  <2>2. CASE UNCHANGED <<current, emitted>> /\ transition' = {}
    BY <2>1, <2>2 DEF EventsSound, Chained, LastNames, Rows, Newest, Stored, Running
  <2>3. CASE ObserveChange(outcome)
    <3> DEFINE t == [ts |-> now, previous |-> current, new |-> outcome]
    <3>1. current' = t.new /\ transition' = {t} /\ emitted' = emitted \union {t}
          /\ t.previous = current /\ t.previous # t.new
      BY <2>3 DEF ObserveChange
    <3> HIDE DEF t
    <3> QED BY <2>1, <3>1 DEF EventsSound, Chained, LastNames, Rows, Newest, Stored, Running
  <2> QED BY <1>3, <2>2, <2>3 DEF ClassifyTick, Observe, ObserveNothingNew, ObserveUnconfirmed
<1>4. CASE /\ ~OpenSession /\ ~StoreBatch
           /\ \A outcome \in Classes \union {"Unknown"} : ~ClassifyTick(outcome)
  <2>1. /\ UNCHANGED <<events, session>>
        /\ steppedBack' = "No" => steppedBack = "No"
        /\ \/ UNCHANGED <<current, transition, emitted>> /\ (Running' <=> Running)
           \/ current' = None /\ transition' = {} /\ ~Running' /\ transition = {}
              /\ emitted' = emitted
           \/ current' = None /\ transition' = {} /\ ~Running' /\ emitted' = {}
    BY <1>4 DEF Running, Sound, HandlerSound, InHandler, Next, Handlers, vars, process, tables,
       clock, ClockMoves, Abort, Start, ApplyMigration, SignalRaised, SignalSeen, Shutdown,
       CloseSession, SystemTick, Exit, ProcessTick, BeginHandler, Selects, PolicyRefused,
       Policy, Audit, AdvanceAudit
  <2> QED BY <2>1, EventsFrame
<1> QED BY <1>1, <1>2, <1>3, <1>4

\* The chain holds in every reachable state.
LEMMA EventsSoundHolds == Spec => []EventsSound
<1>1. Init => EventsSound
  BY DEF Init, EventsSound, Chained, Running, Rows
<1> QED BY <1>1, EventsStep, SoundHolds, ClockSoundHolds, PTL DEF Spec

\* The stored workload events of a session form a chain that ends, between
\* handlers, in the class the stabilizer holds, unless the wall clock was set
\* back: insert_classification_batch drops and repeats nothing.
THEOREM EventChainHolds == Spec => []EventChain
<1>1. Sound /\ EventsSound => EventChain
  BY DEF EventsSound, EventChain, Chained, LastNames, Running, Sound, HandlerSound, InHandler
<1> QED BY <1>1, SoundHolds, EventsSoundHolds, PTL

----------------------------------------------------------------------------
(* Clean sessions *)

\* Only the decision being audited may lack snapshots while the daemon runs,
\* and a session left by an error stays unclosed.
AuditsSound ==
    /\ \A s \in closed : s <= session
    /\ Running => session \notin closed
    /\ Running \/ session \in closed =>
          \A r \in Rows(decisions) :
             Audited(r) \/ (pc = "Auditing" /\ r.id = Cardinality(decisions))
    /\ pc = "Auditing" =>
          /\ audit > 3 => <<Cardinality(decisions), "damon">> \in snapshots
          /\ audit > 4 => <<Cardinality(decisions), "damos">> \in snapshots

\* Every step keeps the audits complete.
LEMMA AuditsStep == Sound /\ AuditsSound /\ [Next]_vars => AuditsSound'
<1> SUFFICES ASSUME Sound, AuditsSound, [Next]_vars PROVE AuditsSound'
  OBVIOUS
<1> USE DEF Running
<1>1. CASE OpenSession
  <2>1. Rows(decisions)' = {}
    BY <1>1 DEF OpenSession, tables, Rows, Sound, TablesSound, TypeOK, DecisionType, Sessions
  <2> QED BY <1>1, <2>1 DEF OpenSession, AuditsSound, Sound, TypeOK, Sessions
<1>2. CASE CloseSession
  <2>1. /\ pc = "Closing" /\ pc' = "Down" /\ closed' = closed \union {session}
        /\ UNCHANGED <<session, decisions, snapshots>>
    BY <1>2 DEF CloseSession, Exit, tables
  <2> QED BY <2>1 DEF AuditsSound, Rows, Audited, Sound, TypeOK
<1>3. ASSUME NEW d \in Decisions, Policy(d) PROVE AuditsSound'
  <2>1. /\ UNCHANGED <<session, closed, snapshots>> /\ pc = "Policy"
        /\ \/ decisions' = decisions /\ pc' = "Storing"
           \/ decisions' = decisions \union {DecisionRow(d)} /\ pc' = "Auditing" /\ audit' = 1
    BY <1>3 DEF Policy
  <2>2. CASE decisions' = decisions /\ pc' = "Storing"
    BY <2>1, <2>2 DEF AuditsSound, Rows, Audited
  <2>3. CASE decisions' = decisions \union {DecisionRow(d)} /\ pc' = "Auditing" /\ audit' = 1
    <3>1. DecisionRow(d).id = Cardinality(decisions')
      BY <2>1, <2>3, NewDecision
    <3> QED BY <2>1, <2>3, <3>1 DEF AuditsSound, Rows, Audited
  <2> QED BY <2>1, <2>2, <2>3
<1>4. CASE Audit
  <2> DEFINE id == Cardinality(decisions)
  <2>1. /\ UNCHANGED <<session, closed, decisions>> /\ pc = "Auditing"
        /\ snapshots' = snapshots \union ({<<id, Audits[audit]>>} \intersect (Ids \X Mandatory))
        /\ audit \in 1..5
        /\ \/ audit < 5 /\ audit' = audit + 1 /\ pc' = "Auditing"
           \/ audit = 5 /\ audit' = 0 /\ pc' = "Storing"
    BY <1>4 DEF Audit, AdvanceAudit, Audits, Sound, TypeOK, HandlerSound
  <2>2. id \in Ids
    <3>1. Cardinality(events) \in Nat /\ id \in Nat
      BY FS_CardinalityType DEF Sound, TablesSound
    <3> QED BY <2>1, <3>1, BoundAssumption
            DEF Sound, TablesSound, HandlerSound, Budget, InHandler, Ids
  <2> HIDE DEF id
  <2>3. /\ audit = 3 => <<id, "damon">> \in snapshots'
        /\ audit = 4 => <<id, "damos">> \in snapshots'
        /\ audit = 5 => <<id, "ksm">> \in snapshots'
        /\ snapshots \subseteq snapshots'
    BY <2>1, <2>2 DEF Audits, Mandatory
  <2>4. /\ audit > 3 => <<id, "damon">> \in snapshots
        /\ audit > 4 => <<id, "damos">> \in snapshots
        /\ \A r \in Rows(decisions) : Audited(r) \/ r.id = id
    BY <2>1 DEF AuditsSound, id
  <2>5. \A r \in Rows(decisions) : Audited(r) => Audited(r)'
    BY <2>3 DEF Audited
  <2>6. ASSUME audit = 5 PROVE \A r \in Rows(decisions) : Audited(r)'
    <3>1. \A reason \in Mandatory : <<id, reason>> \in snapshots'
      BY <2>3, <2>4, <2>6 DEF Mandatory
    <3>2. ASSUME NEW r \in Rows(decisions), r.id = id PROVE Audited(r)'
      BY <3>1, <3>2 DEF Audited
    <3> QED BY <2>4, <2>5, <3>2
  <2>7. pc' = "Auditing" =>
          /\ audit' > 3 => <<id, "damon">> \in snapshots'
          /\ audit' > 4 => <<id, "damos">> \in snapshots'
    BY <2>1, <2>3, <2>4
  <2>8. Rows(decisions)' = Rows(decisions) /\ id = Cardinality(decisions)'
    BY <2>1 DEF Rows, id
  <2>9. \A r \in Rows(decisions)' :
             Audited(r)' \/ (pc' = "Auditing" /\ r.id = Cardinality(decisions)')
    BY <2>1, <2>4, <2>5, <2>6, <2>8
  <2> QED BY <2>1, <2>7, <2>8, <2>9 DEF AuditsSound
<1>5. CASE /\ ~OpenSession /\ ~CloseSession /\ ~Audit
           /\ \A d \in Decisions : ~Policy(d)
  <2>1. /\ UNCHANGED <<session, closed, decisions, snapshots>>
        /\ \/ ~Running'
           \/ pc' = pc /\ audit' = audit
           \/ Running /\ pc # "Auditing" /\ pc' # "Auditing"
        /\ (Running' => Running)
    BY <1>5 DEF Next, Handlers, vars, process, tables, clock, ClockMoves, Abort, Start,
       ApplyMigration, SignalRaised, SignalSeen, Shutdown, SystemTick, Exit, ProcessTick,
       ClassifyTick, BeginHandler, Selects, PolicyRefused, StoreBatch
  <2> QED BY <2>1 DEF AuditsSound, Rows, Audited
<1> QED BY <1>1, <1>2, <1>3, <1>4, <1>5

\* A session closed with clean_shutdown = 1 lacks nothing: neither a
\* transition the stabilizer returned (unless the wall clock was set back)
\* nor a snapshot of a stored decision.
THEOREM CleanIsCompleteHolds == Spec => []CleanIsComplete
<1>1. Init => AuditsSound BY DEF Init, AuditsSound, Rows, Running
<1>2. Sound /\ EventsSound /\ AuditsSound => CleanIsComplete
  <2> SUFFICES ASSUME Sound, EventsSound, AuditsSound, session \in closed PROVE CleanIsComplete
    BY DEF CleanIsComplete
  <2>1. pc \in {"Down", "Migrating"} /\ transition = {}
    BY DEF AuditsSound, Running, Sound, HandlerSound, InHandler
  <2> QED BY <2>1 DEF CleanIsComplete, EventsSound, AuditsSound
<1> QED BY <1>1, <1>2, AuditsStep, SoundHolds, EventsSoundHolds, PTL DEF Spec
=============================================================================
