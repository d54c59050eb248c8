---------------------------- MODULE DamonProofs ----------------------------
(***************************************************************************)
(* The safety of validate_damos and of validate_damon, whose sessions share *)
(* DamonHost, for every number of faults and of foreign acts.              *)
(*                                                                         *)
(* The first part is validate_damos, for every quota, ceiling, deadline    *)
(* and reset interval: a program with a counter.  Plan writes the steps of *)
(* the harness out in 69 places; todo is always what remains of it from    *)
(* some place, or the refault that a successful reclaim puts in between,   *)
(* or what is left to undo after an error (Control).  With every place go  *)
(* the scheme as it is written there (Scheme) and the facts that the steps *)
(* before have established (Established).  The world between two steps     *)
(* cannot disturb them (PlaceKept), and Bounded carries the quota through  *)
(* a stalled or failed harness: a running scheme only counts, or all it    *)
(* paged out is still charged to a quota that its snapshot ceiling keeps   *)
(* from being renewed.                                                     *)
(*                                                                         *)
(* The second part is validate_damon, for every length of its ladder.  Its *)
(* program is put together at run time, so the invariant (DamonInv) speaks *)
(* of the steps ahead instead of places: what is held now or taken on the  *)
(* way is released before the next session begins (Separate, Remembered),  *)
(* steps that use the slot come behind the one that takes it (Owned), and  *)
(* gates that are behind have left their evidence (Evidenced).             *)
(***************************************************************************)
EXTENDS DamosReclaim, DamonSession, SequenceTheorems, WellFoundedInduction, TLAPS

(***************************************************************************)
(* The program written out.  Its place 1 is empty when the target is       *)
(* external; with it the steps behind the acquisition have the same places *)
(* for both kinds of target.                                               *)
(***************************************************************************)
Plan ==
    <<IF kind = "internal" THEN "capability" ELSE "",
      IF kind = "internal" THEN "nr_zero" ELSE "capability",
      IF kind = "internal" THEN "spawn" ELSE "nr_zero",
      IF kind = "internal" THEN "await" ELSE "accept",
      "identity", "judge", "start", "progress", "cold_gate", "bounds",
      "identity", "guard", "mkdir", "clock", "event_on", "tracing_on", "capture", "slot",
      "configure", "act_pageout", "act_stat", "quota", "fence",
      "on", "started", "monitor", "off", "drain",
      "rel_on", "rel_slot", "rel_tracing", "rel_event", "rel_instance", "cleaned",
      "shadow_gate", "decide", "judge", "progress",
      "identity", "guard", "mkdir", "clock", "event_on", "tracing_on", "capture", "slot",
      "configure", "act_pageout", "quota", "fence", "ceiling",
      "on", "started", "monitor", "off", "drain",
      "rel_on", "rel_slot", "rel_tracing", "rel_event", "rel_instance", "cleaned",
      "progress", "live_gates", "stop", "wait_exit", "cleanup_gate", "close_damos", "report">>

\* What is left to do after an error.
Undo ==
    <<"detach", "rel_on", "rel_slot", "rel_tracing", "rel_event", "rel_instance", "kill",
      "close_damos", "report">>

\* What remains at place k of the program, at place j of the undoing, and in
\* the refault that a successful reclaim puts in between.
From(k) == SubSeq(Plan, k, 69)
Rest(j) == SubSeq(Undo, j, 9)
Ask ==
    <<"refault", "await_refault", "stop", "wait_exit", "cleanup_gate", "close_damos", "report">>
Asked ==
    <<"await_refault", "stop", "wait_exit", "cleanup_gate", "close_damos", "report">>

\* The scheme as it has been written so far, into a kdamond that is off.
Written(action, quota, fence, ceiling) ==
    /\ kd.own = "nemor" /\ ~kd.on
    /\ sch = [action |-> action, quota |-> quota, fence |-> fence, ceiling |-> ceiling,
              shots |-> 0, spent |-> 0, tried |-> FALSE]

Scheme(k) ==
    /\ k \in {19, 20, 47, 48} => Written("none", FALSE, FALSE, FALSE)
    /\ k \in {21, 49} => Written("pageout", FALSE, FALSE, FALSE)
    /\ k = 22 => Written("stat", FALSE, FALSE, FALSE)
    /\ k = 23 => Written("stat", TRUE, FALSE, FALSE)
    /\ k = 24 => Written("stat", TRUE, TRUE, FALSE)
    /\ k = 50 => Written("pageout", TRUE, FALSE, FALSE)
    /\ k = 51 => Written("pageout", TRUE, TRUE, FALSE)
    /\ k = 52 => Written("pageout", TRUE, TRUE, TRUE)

\* What the steps before place k have established.
Established(k) ==
    /\ k <= 52 => /\ applied = 0 /\ zones = {}
                  /\ kd.own = "nemor" /\ kd.on => sch.action = "stat"
    /\ k <= 18 \/ k \in 28 .. 46 => ~(kd.own = "nemor" /\ kd.on)
    /\ k >= 11 => Ceiling < ResetTicks
    /\ k >= 13 => sess > 0
    /\ k >= 36 => shadow
    /\ k \in 37 .. 69 => "decision" \in files
    /\ k >= 65 /\ failed = {} => applied > 0 /\ refaulted
    /\ k >= 67 /\ kind = "internal" => tgt = "none"
    /\ k >= 68 /\ failed = {} => inst = {} /\ kd.own # "nemor"

\* Where the harness is: at a place of its program, asking for the refault, or
\* undoing after an error.
At(k) == todo = From(k) /\ errors = {} /\ ~unwinding /\ Scheme(k) /\ Established(k)
Asking ==
    /\ todo \in {Ask, Asked} /\ errors = {} /\ ~unwinding
    /\ applied > 0 /\ shadow /\ "decision" \in files
    /\ Ceiling < ResetTicks /\ sess > 0
Undoing(j) == todo = Rest(j) /\ errors # {} /\ (j < 9 => unwinding)

Control == (\E k \in 1 .. 70 : At(k)) \/ Asking \/ (\E j \in 1 .. 10 : Undoing(j))

\* A scheme of Nemor's that runs only counts, or it is the live one: bounded,
\* fenced, with a ceiling below the renewal of its quota, announced, and all
\* that was paged out is charged to it.
Live ==
    /\ sch.quota /\ sch.fence /\ sch.ceiling
    /\ sch.shots <= Ceiling /\ Ceiling < ResetTicks
    /\ sch.spent = applied
    /\ shadow /\ (verdict = "none" => "decision" \in files)
Bounded ==
    kd.own = "nemor" /\ kd.on => sch.action = "stat" \/ (sch.action = "pageout" /\ Live)

\* Only a child of the harness is registered to be killed.
Ours == kind = "external" => ~child

\* Statistics that show applied bytes are not made up.
Counted == stats.applied > 0 => applied > 0

Inv ==
    /\ TypeOK /\ Control /\ Bounded /\ Ours /\ Counted
    /\ PageoutBounded /\ PassEarned

-----------------------------------------------------------------------------
(* The program as a sequence *)

Names == {Plan[i] : i \in 1 .. 69}
UndoNames == {Undo[i] : i \in 1 .. 9}
Ending == <<"stop", "wait_exit", "cleanup_gate", "close_damos", "report">>

(* A function on 1 .. n is a sequence of n elements. *)
LEMMA TupleSeq == \A S : \A n \in Nat : \A f \in [1 .. n -> S] : f \in Seq(S) /\ Len(f) = n
OBVIOUS

(* A sequence that starts like s and goes on like t is their concatenation. *)
LEMMA Joins ==
  ASSUME NEW S, NEW s \in Seq(S), NEW t \in Seq(S), NEW u \in Seq(S),
         Len(u) = Len(s) + Len(t),
         \A i \in 1 .. Len(s) : u[i] = s[i],
         \A i \in 1 .. Len(t) : u[Len(s) + i] = t[i]
  PROVE  s \o t = u
<1>1. /\ s \o t \in Seq(S) /\ Len(s \o t) = Len(s) + Len(t)
      /\ \A i \in 1 .. Len(s) + Len(t) :
            (s \o t)[i] = IF i <= Len(s) THEN s[i] ELSE t[i - Len(s)]
  BY ConcatProperties
<1>2. Len(s) \in Nat /\ Len(t) \in Nat
  BY LenProperties
<1>3. ASSUME NEW i \in 1 .. Len(s) + Len(t)
      PROVE  (s \o t)[i] = u[i]
  <2>1. CASE i <= Len(s)
    BY <1>1, <1>2, <2>1
  <2>2. CASE i > Len(s)
    <3>1. i - Len(s) \in 1 .. Len(t) /\ Len(s) + (i - Len(s)) = i /\ ~(i <= Len(s))
      BY <1>2, <2>2
    <3>2. u[Len(s) + (i - Len(s))] = t[i - Len(s)]
      BY <3>1
    <3>3. (s \o t)[i] = t[i - Len(s)]
      BY <1>1, <3>1
    <3> QED BY <3>1, <3>2, <3>3
  <2> QED BY <1>2, <2>1, <2>2
<1> QED BY <1>1, <1>3, SeqEqual

(* The program is a sequence of 69 places. *)
LEMMA PlanSeq == Plan \in Seq(Names) /\ Len(Plan) = 69
<1>1. Plan = [i \in 1 .. 69 |-> Plan[i]]
  BY DEF Plan
<1>2. Plan \in [1 .. 69 -> Names]
  BY <1>1 DEF Names
<1>3. 69 \in Nat
  OBVIOUS
<1> QED BY <1>2, <1>3, TupleSeq, ZenonT(30)

(* The steps of the places 1 to 4. *)
LEMMA StepsAcquiring ==
    /\ Plan[1] = (IF kind = "internal" THEN "capability" ELSE "")
    /\ Plan[2] = (IF kind = "internal" THEN "nr_zero" ELSE "capability")
    /\ Plan[3] = (IF kind = "internal" THEN "spawn" ELSE "nr_zero")
    /\ Plan[4] = (IF kind = "internal" THEN "await" ELSE "accept")
BY DEF Plan

(* The same, by place. *)
LEMMA Acquiring ==
  ASSUME NEW k \in 1 .. 4
  PROVE  \/ k = 1 /\ Plan[k] = (IF kind = "internal" THEN "capability" ELSE "")
         \/ k = 2 /\ Plan[k] = (IF kind = "internal" THEN "nr_zero" ELSE "capability")
         \/ k = 3 /\ Plan[k] = (IF kind = "internal" THEN "spawn" ELSE "nr_zero")
         \/ k = 4 /\ Plan[k] = (IF kind = "internal" THEN "await" ELSE "accept")
<1>1. k = 1 \/ k = 2 \/ k = 3 \/ k = 4
  OBVIOUS
<1> QED BY <1>1, StepsAcquiring, Zenon

(* The steps of the places 5 to 12. *)
LEMMA StepsPreparing ==
    /\ Plan[5] = "identity"
    /\ Plan[6] = "judge"
    /\ Plan[7] = "start"
    /\ Plan[8] = "progress"
    /\ Plan[9] = "cold_gate"
    /\ Plan[10] = "bounds"
    /\ Plan[11] = "identity"
    /\ Plan[12] = "guard"
BY DEF Plan

(* The same, by place. *)
LEMMA Preparing ==
  ASSUME NEW k \in 5 .. 12
  PROVE  \/ k = 5 /\ Plan[k] = "identity"
         \/ k = 6 /\ Plan[k] = "judge"
         \/ k = 7 /\ Plan[k] = "start"
         \/ k = 8 /\ Plan[k] = "progress"
         \/ k = 9 /\ Plan[k] = "cold_gate"
         \/ k = 10 /\ Plan[k] = "bounds"
         \/ k = 11 /\ Plan[k] = "identity"
         \/ k = 12 /\ Plan[k] = "guard"
<1>1. k = 5 \/ k = 6 \/ k = 7 \/ k = 8 \/ k = 9 \/ k = 10 \/ k = 11 \/ k = 12
  OBVIOUS
<1> QED BY <1>1, StepsPreparing

(* The steps of the places 13 to 23. *)
LEMMA StepsOpening ==
    /\ Plan[13] = "mkdir"
    /\ Plan[14] = "clock"
    /\ Plan[15] = "event_on"
    /\ Plan[16] = "tracing_on"
    /\ Plan[17] = "capture"
    /\ Plan[18] = "slot"
    /\ Plan[19] = "configure"
    /\ Plan[20] = "act_pageout"
    /\ Plan[21] = "act_stat"
    /\ Plan[22] = "quota"
    /\ Plan[23] = "fence"
BY DEF Plan

(* The same, by place. *)
LEMMA Opening ==
  ASSUME NEW k \in 13 .. 23
  PROVE  \/ k = 13 /\ Plan[k] = "mkdir"
         \/ k = 14 /\ Plan[k] = "clock"
         \/ k = 15 /\ Plan[k] = "event_on"
         \/ k = 16 /\ Plan[k] = "tracing_on"
         \/ k = 17 /\ Plan[k] = "capture"
         \/ k = 18 /\ Plan[k] = "slot"
         \/ k = 19 /\ Plan[k] = "configure"
         \/ k = 20 /\ Plan[k] = "act_pageout"
         \/ k = 21 /\ Plan[k] = "act_stat"
         \/ k = 22 /\ Plan[k] = "quota"
         \/ k = 23 /\ Plan[k] = "fence"
<1>1. k = 13 \/ k = 14 \/ k = 15 \/ k = 16 \/ k = 17
       \/ k = 18 \/ k = 19 \/ k = 20 \/ k = 21 \/ k = 22 \/ k = 23
  OBVIOUS
<1> QED BY <1>1, StepsOpening

(* The steps of the places 24 to 38. *)
LEMMA StepsWatching ==
    /\ Plan[24] = "on"
    /\ Plan[25] = "started"
    /\ Plan[26] = "monitor"
    /\ Plan[27] = "off"
    /\ Plan[28] = "drain"
    /\ Plan[29] = "rel_on"
    /\ Plan[30] = "rel_slot"
    /\ Plan[31] = "rel_tracing"
    /\ Plan[32] = "rel_event"
    /\ Plan[33] = "rel_instance"
    /\ Plan[34] = "cleaned"
    /\ Plan[35] = "shadow_gate"
    /\ Plan[36] = "decide"
    /\ Plan[37] = "judge"
    /\ Plan[38] = "progress"
BY DEF Plan

(* The same, by place. *)
LEMMA Watching ==
  ASSUME NEW k \in 24 .. 38
  PROVE  \/ k = 24 /\ Plan[k] = "on"
         \/ k = 25 /\ Plan[k] = "started"
         \/ k = 26 /\ Plan[k] = "monitor"
         \/ k = 27 /\ Plan[k] = "off"
         \/ k = 28 /\ Plan[k] = "drain"
         \/ k = 29 /\ Plan[k] = "rel_on"
         \/ k = 30 /\ Plan[k] = "rel_slot"
         \/ k = 31 /\ Plan[k] = "rel_tracing"
         \/ k = 32 /\ Plan[k] = "rel_event"
         \/ k = 33 /\ Plan[k] = "rel_instance"
         \/ k = 34 /\ Plan[k] = "cleaned"
         \/ k = 35 /\ Plan[k] = "shadow_gate"
         \/ k = 36 /\ Plan[k] = "decide"
         \/ k = 37 /\ Plan[k] = "judge"
         \/ k = 38 /\ Plan[k] = "progress"
<1>1. k = 24 \/ k = 25 \/ k = 26 \/ k = 27 \/ k = 28 \/ k = 29 \/ k = 30
       \/ k = 31 \/ k = 32 \/ k = 33 \/ k = 34 \/ k = 35 \/ k = 36 \/ k = 37 \/ k = 38
  OBVIOUS
<1> QED BY <1>1, StepsWatching

(* The steps of the places 39 to 51. *)
LEMMA StepsReopening ==
    /\ Plan[39] = "identity"
    /\ Plan[40] = "guard"
    /\ Plan[41] = "mkdir"
    /\ Plan[42] = "clock"
    /\ Plan[43] = "event_on"
    /\ Plan[44] = "tracing_on"
    /\ Plan[45] = "capture"
    /\ Plan[46] = "slot"
    /\ Plan[47] = "configure"
    /\ Plan[48] = "act_pageout"
    /\ Plan[49] = "quota"
    /\ Plan[50] = "fence"
    /\ Plan[51] = "ceiling"
BY DEF Plan

(* The same, by place. *)
LEMMA Reopening ==
  ASSUME NEW k \in 39 .. 51
  PROVE  \/ k = 39 /\ Plan[k] = "identity"
         \/ k = 40 /\ Plan[k] = "guard"
         \/ k = 41 /\ Plan[k] = "mkdir"
         \/ k = 42 /\ Plan[k] = "clock"
         \/ k = 43 /\ Plan[k] = "event_on"
         \/ k = 44 /\ Plan[k] = "tracing_on"
         \/ k = 45 /\ Plan[k] = "capture"
         \/ k = 46 /\ Plan[k] = "slot"
         \/ k = 47 /\ Plan[k] = "configure"
         \/ k = 48 /\ Plan[k] = "act_pageout"
         \/ k = 49 /\ Plan[k] = "quota"
         \/ k = 50 /\ Plan[k] = "fence"
         \/ k = 51 /\ Plan[k] = "ceiling"
<1>1. k = 39 \/ k = 40 \/ k = 41 \/ k = 42 \/ k = 43 \/ k = 44
       \/ k = 45 \/ k = 46 \/ k = 47 \/ k = 48 \/ k = 49 \/ k = 50 \/ k = 51
  OBVIOUS
<1> QED BY <1>1, StepsReopening

(* The steps of the places 52 to 69. *)
LEMMA StepsFinishing ==
    /\ Plan[52] = "on"
    /\ Plan[53] = "started"
    /\ Plan[54] = "monitor"
    /\ Plan[55] = "off"
    /\ Plan[56] = "drain"
    /\ Plan[57] = "rel_on"
    /\ Plan[58] = "rel_slot"
    /\ Plan[59] = "rel_tracing"
    /\ Plan[60] = "rel_event"
    /\ Plan[61] = "rel_instance"
    /\ Plan[62] = "cleaned"
    /\ Plan[63] = "progress"
    /\ Plan[64] = "live_gates"
    /\ Plan[65] = "stop"
    /\ Plan[66] = "wait_exit"
    /\ Plan[67] = "cleanup_gate"
    /\ Plan[68] = "close_damos"
    /\ Plan[69] = "report"
BY DEF Plan

(* The same, by place. *)
LEMMA Finishing ==
  ASSUME NEW k \in 52 .. 69
  PROVE  \/ k = 52 /\ Plan[k] = "on"
         \/ k = 53 /\ Plan[k] = "started"
         \/ k = 54 /\ Plan[k] = "monitor"
         \/ k = 55 /\ Plan[k] = "off"
         \/ k = 56 /\ Plan[k] = "drain"
         \/ k = 57 /\ Plan[k] = "rel_on"
         \/ k = 58 /\ Plan[k] = "rel_slot"
         \/ k = 59 /\ Plan[k] = "rel_tracing"
         \/ k = 60 /\ Plan[k] = "rel_event"
         \/ k = 61 /\ Plan[k] = "rel_instance"
         \/ k = 62 /\ Plan[k] = "cleaned"
         \/ k = 63 /\ Plan[k] = "progress"
         \/ k = 64 /\ Plan[k] = "live_gates"
         \/ k = 65 /\ Plan[k] = "stop"
         \/ k = 66 /\ Plan[k] = "wait_exit"
         \/ k = 67 /\ Plan[k] = "cleanup_gate"
         \/ k = 68 /\ Plan[k] = "close_damos"
         \/ k = 69 /\ Plan[k] = "report"
<1>1. k = 52 \/ k = 53 \/ k = 54 \/ k = 55 \/ k = 56 \/ k = 57 \/ k = 58 \/ k = 59 \/ k = 60
       \/ k = 61 \/ k = 62 \/ k = 63 \/ k = 64 \/ k = 65 \/ k = 66 \/ k = 67 \/ k = 68 \/ k = 69
  OBVIOUS
<1> QED BY <1>1, StepsFinishing

(* The places of every step. *)
LEMMA Where ==
  ASSUME NEW k \in 1 .. 69
  PROVE  /\ Plan[k] = "capability" => k \in {1, 2}
         /\ Plan[k] = "nr_zero" => k \in {2, 3}
         /\ Plan[k] = "spawn" => k = 3 /\ kind = "internal"
         /\ Plan[k] = "await" => k = 4 /\ kind = "internal"
         /\ Plan[k] = "accept" => k = 4
         /\ Plan[k] = "identity" => k \in {5, 11, 39}
         /\ Plan[k] = "judge" => k \in {6, 37}
         /\ Plan[k] = "start" => k = 7
         /\ Plan[k] = "progress" => k \in {8, 38, 63}
         /\ Plan[k] = "cold_gate" => k = 9
         /\ Plan[k] = "bounds" => k = 10
         /\ Plan[k] = "guard" => k \in {12, 40}
         /\ Plan[k] = "mkdir" => k \in {13, 41}
         /\ Plan[k] = "clock" => k \in {14, 42}
         /\ Plan[k] = "event_on" => k \in {15, 43}
         /\ Plan[k] = "tracing_on" => k \in {16, 44}
         /\ Plan[k] = "capture" => k \in {17, 45}
         /\ Plan[k] = "slot" => k \in {18, 46}
         /\ Plan[k] = "configure" => k \in {19, 47}
         /\ Plan[k] = "act_pageout" => k \in {20, 48}
         /\ Plan[k] = "act_stat" => k = 21
         /\ Plan[k] = "quota" => k \in {22, 49}
         /\ Plan[k] = "fence" => k \in {23, 50}
         /\ Plan[k] = "on" => k \in {24, 52}
         /\ Plan[k] = "started" => k \in {25, 53}
         /\ Plan[k] = "monitor" => k \in {26, 54}
         /\ Plan[k] = "off" => k \in {27, 55}
         /\ Plan[k] = "drain" => k \in {28, 56}
         /\ Plan[k] = "rel_on" => k \in {29, 57}
         /\ Plan[k] = "rel_slot" => k \in {30, 58}
         /\ Plan[k] = "rel_tracing" => k \in {31, 59}
         /\ Plan[k] = "rel_event" => k \in {32, 60}
         /\ Plan[k] = "rel_instance" => k \in {33, 61}
         /\ Plan[k] = "cleaned" => k \in {34, 62}
         /\ Plan[k] = "shadow_gate" => k = 35
         /\ Plan[k] = "decide" => k = 36
         /\ Plan[k] = "ceiling" => k = 51
         /\ Plan[k] = "live_gates" => k = 64
         /\ Plan[k] = "stop" => k = 65
         /\ Plan[k] = "wait_exit" => k = 66
         /\ Plan[k] = "cleanup_gate" => k = 67
         /\ Plan[k] = "close_damos" => k = 68
         /\ Plan[k] = "report" => k = 69
         /\ Plan[k] \notin {"worker_exit", "on_self", "tracing_off", "event_off"}
         /\ Plan[k] \notin {"close_damon", "detach", "kill", "refault", "await_refault"}
<1>1. CASE k \in 1 .. 4
  BY <1>1, Acquiring, Zenon
<1>2. CASE k \in 5 .. 12
  BY <1>2, Preparing
<1>3. CASE k \in 13 .. 23
  BY <1>3, Opening
<1>4. CASE k \in 24 .. 38
  BY <1>4, Watching
<1>5. CASE k \in 39 .. 51
  BY <1>5, Reopening
<1>6. CASE k \in 52 .. 69
  BY <1>6, Finishing
<1> QED BY <1>1, <1>2, <1>3, <1>4, <1>5, <1>6

(* Those of the steps that write the scheme. *)
LEMMA WhereWritten ==
  ASSUME NEW k \in 1 .. 69
  PROVE  /\ Plan[k] = "act_pageout" => k \in {20, 48}
         /\ Plan[k] = "act_stat" => k = 21
         /\ Plan[k] = "quota" => k \in {22, 49}
         /\ Plan[k] = "fence" => k \in {23, 50}
         /\ Plan[k] = "ceiling" => k = 51
<1>1. Plan[k] = "act_pageout" => k \in {20, 48}
  BY Where, ZenonT(30)
<1>2. Plan[k] = "act_stat" => k = 21
  BY Where, ZenonT(30)
<1>3. Plan[k] = "quota" => k \in {22, 49}
  BY Where, ZenonT(30)
<1>4. Plan[k] = "fence" => k \in {23, 50}
  BY Where, ZenonT(30)
<1>5. Plan[k] = "ceiling" => k = 51
  BY Where, ZenonT(30)
<1> QED BY <1>1, <1>2, <1>3, <1>4, <1>5

(* A step at place k is the k-th of the program; what remains is From(k + 1). *)
LEMMA StepAt ==
  ASSUME NEW k \in 1 .. 70, todo = From(k), NEW name, Step(name)
  PROVE  k \in 1 .. 69 /\ Plan[k] = name /\ Tail(todo) = From(k + 1)
<1>1. k # 70
  <2>1. SubSeq(Plan, 70, 69) = <<>>
    BY SubSeqEmpty
  <2> QED BY <2>1 DEF From, Step
<1>2. k \in 1 .. 69
  BY <1>1
<1>3. Head(From(k)) = Plan[k] /\ Tail(From(k)) = From(k + 1)
  BY <1>2, PlanSeq, HeadTailOfSubSeq DEF From
<1> QED BY <1>2, <1>3 DEF Step

(* The elements of what remains. *)
LEMMA FromSeq ==
  ASSUME NEW k \in 1 .. 69
  PROVE  /\ From(k) \in Seq(Names) /\ Len(From(k)) = 70 - k
         /\ \A i \in 1 .. 70 - k : From(k)[i] = Plan[k + i - 1]
<1>1. \A i \in k .. 69 : Plan[i] \in Names
  BY DEF Names
<1> QED BY <1>1, SubSeqProperties DEF From

(* The undoing as a sequence. *)
LEMMA UndoSeq == Undo \in Seq(UndoNames) /\ Len(Undo) = 9
<1>1. Undo = [i \in 1 .. 9 |-> Undo[i]]
  BY DEF Undo
<1>2. Undo \in [1 .. 9 -> UndoNames]
  BY <1>1 DEF UndoNames
<1> QED BY <1>2, TupleSeq

(* Its steps by place. *)
LEMMA UndoSteps ==
  ASSUME NEW j \in 1 .. 9
  PROVE  \/ j = 1 /\ Undo[j] = "detach"
         \/ j = 2 /\ Undo[j] = "rel_on"
         \/ j = 3 /\ Undo[j] = "rel_slot"
         \/ j = 4 /\ Undo[j] = "rel_tracing"
         \/ j = 5 /\ Undo[j] = "rel_event"
         \/ j = 6 /\ Undo[j] = "rel_instance"
         \/ j = 7 /\ Undo[j] = "kill"
         \/ j = 8 /\ Undo[j] = "close_damos"
         \/ j = 9 /\ Undo[j] = "report"
<1>1. j = 1 \/ j = 2 \/ j = 3 \/ j = 4 \/ j = 5 \/ j = 6 \/ j = 7 \/ j = 8 \/ j = 9
  OBVIOUS
<1> QED BY <1>1 DEF Undo

(* A step of the undoing. *)
LEMMA StepUndo ==
  ASSUME NEW j \in 1 .. 10, todo = Rest(j), NEW name, Step(name)
  PROVE  j \in 1 .. 9 /\ Undo[j] = name /\ Tail(todo) = Rest(j + 1)
<1>1. j # 10
  <2>1. SubSeq(Undo, 10, 9) = <<>>
    BY SubSeqEmpty
  <2> QED BY <2>1 DEF Rest, Step
<1>2. j \in 1 .. 9
  BY <1>1
<1>3. Head(Rest(j)) = Undo[j] /\ Tail(Rest(j)) = Rest(j + 1)
  BY <1>2, UndoSeq, HeadTailOfSubSeq DEF Rest
<1> QED BY <1>2, <1>3 DEF Step

(* What remains after the live gates. *)
LEMMA FromEnding == From(65) = Ending
<1>1. /\ From(65) \in Seq(Names) /\ Len(From(65)) = 5
      /\ From(65)[1] = Plan[65] /\ From(65)[2] = Plan[66] /\ From(65)[3] = Plan[67]
      /\ From(65)[4] = Plan[68] /\ From(65)[5] = Plan[69]
  <2>1. 65 \in 1 .. 69 /\ 70 - 65 = 5
    OBVIOUS
  <2>2. /\ From(65) \in Seq(Names) /\ Len(From(65)) = 5
        /\ \A i \in 1 .. 5 : From(65)[i] = Plan[65 + i - 1]
    BY <2>1, FromSeq, Zenon
  <2>3. /\ From(65)[1] = Plan[65 + 1 - 1] /\ From(65)[2] = Plan[65 + 2 - 1]
        /\ From(65)[3] = Plan[65 + 3 - 1] /\ From(65)[4] = Plan[65 + 4 - 1]
        /\ From(65)[5] = Plan[65 + 5 - 1]
    BY <2>2
  <2> QED BY <2>2, <2>3
<1>2. /\ From(65)[1] = "stop" /\ From(65)[2] = "wait_exit" /\ From(65)[3] = "cleanup_gate"
      /\ From(65)[4] = "close_damos" /\ From(65)[5] = "report"
  BY <1>1, StepsFinishing
<1>3. {"stop", "wait_exit", "cleanup_gate", "close_damos", "report"} \subseteq Names
  BY StepsFinishing DEF Names
<1>4. Ending \in Seq(Names) /\ Len(Ending) = 5
  BY <1>3 DEF Ending
<1>5. \A i \in 1 .. 5 : From(65)[i] = Ending[i]
  <2>1. \A i \in 1 .. 5 : i = 1 \/ i = 2 \/ i = 3 \/ i = 4 \/ i = 5
    OBVIOUS
  <2> QED BY <1>2, <2>1 DEF Ending
<1> HIDE DEF Ending
<1> QED BY <1>1, <1>4, <1>5, SeqEqual

(* The steps of the refault, and the way back into the program. *)
LEMMA StepAsk ==
  ASSUME todo \in {Ask, Asked}, NEW name, Step(name)
  PROVE  \/ todo = Ask /\ name = "refault" /\ Tail(todo) = Asked
         \/ todo = Asked /\ name = "await_refault" /\ Tail(todo) = From(65)
<1>1. CASE todo = Ask
  <2>1. Head(Ask) = "refault" /\ Tail(Ask) = Asked
    BY DEF Ask, Asked
  <2> QED BY <1>1, <2>1 DEF Step
<1>2. CASE todo = Asked
  <2>1. Head(Asked) = "await_refault"
    BY DEF Asked
  <2>2. Tail(Asked) = Ending
    BY DEF Asked, Ending
  <2> QED BY <1>2, <2>1, <2>2, FromEnding DEF Step
<1> QED BY <1>1, <1>2

(* A successful reclaim puts the refault in between. *)
LEMMA AskAfter == <<"refault", "await_refault">> \o From(65) = Ask
<1> DEFINE first == <<"refault", "await_refault">>
           S == {Ask[i] : i \in 1 .. 7}
<1>1. Ask \in Seq(S) /\ Len(Ask) = 7
  BY DEF Ask
<1>2. first \in Seq(S) /\ Len(first) = 2 /\ first[1] = Ask[1] /\ first[2] = Ask[2]
  BY DEF Ask
<1>3. Ending \in Seq(S) /\ Len(Ending) = 5
  BY DEF Ask, Ending
<1>4. \A i \in 1 .. 2 : Ask[i] = first[i]
  BY <1>2
<1>5. \A i \in 1 .. 5 : Ask[2 + i] = Ending[i]
  <2>1. \A i \in 1 .. 5 : i = 1 \/ i = 2 \/ i = 3 \/ i = 4 \/ i = 5
    OBVIOUS
  <2> QED BY <2>1 DEF Ask, Ending
<1> HIDE DEF first, S
<1>6. first \o Ending = Ask
  <2>1. Len(Ask) = Len(first) + Len(Ending)
    BY <1>1, <1>2, <1>3
  <2>2. \A i \in 1 .. Len(first) : Ask[i] = first[i]
    BY <1>2, <1>4
  <2>3. \A i \in 1 .. Len(Ending) : Ask[Len(first) + i] = Ending[i]
    BY <1>2, <1>3, <1>5
  <2> QED BY <1>1, <1>2, <1>3, <2>1, <2>2, <2>3, Joins
<1> QED BY <1>6, FromEnding DEF first

-----------------------------------------------------------------------------
(* Errors *)

(* The least element of a set of numbers. *)
LEMMA MinIs ==
  ASSUME NEW I \in SUBSET Int, NEW m \in I, \A i \in I : m <= i
  PROVE  Min(I) = m
<1>1. \A x \in I : (\A y \in I : x =< y) <=> x = m
  OBVIOUS
<1>2. (CHOOSE x \in I : \A y \in I : x =< y) = m
  BY <1>1
<1> QED BY <1>2 DEF Min

(* A sequence of two. *)
LEMMA Two ==
  ASSUME NEW S, NEW s \in Seq(S), Len(s) = 2
  PROVE  s = <<s[1], s[2]>>
<1>1. s[1] \in S /\ s[2] \in S
  BY ElementOfSeq
<1>2. <<s[1], s[2]>> \in Seq(S) /\ Len(<<s[1], s[2]>>) = 2
  BY <1>1
<1>3. \A i \in 1 .. 2 : s[i] = <<s[1], s[2]>>[i]
  OBVIOUS
<1> QED BY <1>2, <1>3, SeqEqual

(* main goes on with the end of the scope. *)
LEMMA ScopeEnds ==
  ASSUME NEW S, todo \in Seq(S), NEW n \in Nat, n >= 2, Len(todo) = n,
         \A i \in 1 .. n - 2 : todo[i] \notin Closings,
         todo[n - 1] = "close_damos", todo[n] = "report"
  PROVE  AfterScope = <<"close_damos", "report">> /\ Scope = "damos"
<1> DEFINE I == {i \in 1 .. Len(todo) : IsClosing(todo[i])}
<1>1. n - 1 \in I
  BY DEF IsClosing, Closings
<1>2. \A i \in I : n - 1 <= i
  BY DEF IsClosing
<1>3. Min(I) = n - 1
  BY <1>1, <1>2, MinIs
<1>4. SelectInSeq(todo, IsClosing) = n - 1
  <2>1. I # {}
    BY <1>1
  <2> QED BY <1>3, <2>1 DEF SelectInSeq
<1>5. AfterScope = SubSeq(todo, n - 1, n)
  BY <1>4 DEF AfterScope
<1>6. SubSeq(todo, n - 1, n) = <<"close_damos", "report">>
  <2>1. \A i \in n - 1 .. n : todo[i] \in S
    BY ElementOfSeq
  <2>2. /\ SubSeq(todo, n - 1, n) \in Seq(S) /\ Len(SubSeq(todo, n - 1, n)) = 2
        /\ \A i \in 1 .. 2 : SubSeq(todo, n - 1, n)[i] = todo[n - 1 + i - 1]
    BY <2>1, SubSeqProperties
  <2>3. SubSeq(todo, n - 1, n)[1] = todo[n - 1 + 1 - 1] /\ SubSeq(todo, n - 1, n)[2] =
            todo[n - 1 + 2 - 1]
    BY <2>2
  <2>4. n - 1 + 1 - 1 = n - 1 /\ n - 1 + 2 - 1 = n
    OBVIOUS
  <2>5. SubSeq(todo, n - 1, n)[1] = "close_damos" /\ SubSeq(todo, n - 1, n)[2] = "report"
    BY <2>3, <2>4
  <2>6. SubSeq(todo, n - 1, n) = <<SubSeq(todo, n - 1, n)[1], SubSeq(todo, n - 1, n)[2]>>
    BY <2>2, Two
  <2> QED BY <2>5, <2>6
<1>7. AfterScope = <<"close_damos", "report">>
  BY <1>5, <1>6
<1>8. Head(AfterScope) = "close_damos"
  BY <1>7
<1> QED BY <1>7, <1>8 DEF Scope

(* The destructors and the end of the scope are the undoing. *)
LEMMA UndoIs ==
  (<<"detach">> \o Releases \o <<"kill">>) \o <<"close_damos", "report">> = Undo
<1> DEFINE one == <<"detach">>
           six == <<"detach", "rel_on", "rel_slot", "rel_tracing", "rel_event", "rel_instance">>
           kill == <<"kill">>
           seven == <<"detach", "rel_on", "rel_slot", "rel_tracing", "rel_event",
                      "rel_instance", "kill">>
           end == <<"close_damos", "report">>
<1>1. UndoNames = {"detach", "rel_on", "rel_slot", "rel_tracing", "rel_event",
                   "rel_instance", "kill", "close_damos", "report"}
  <2>1. \A i \in 1 .. 9 : Undo[i] \in {"detach", "rel_on", "rel_slot", "rel_tracing",
            "rel_event", "rel_instance", "kill", "close_damos", "report"}
    BY UndoSteps
  <2>2. {Undo[1], Undo[2], Undo[3], Undo[4], Undo[5], Undo[6], Undo[7], Undo[8], Undo[9]}
            \subseteq UndoNames
    BY DEF UndoNames
  <2>3. {"detach", "rel_on", "rel_slot", "rel_tracing", "rel_event", "rel_instance", "kill",
         "close_damos", "report"} \subseteq UndoNames
    BY <2>2 DEF Undo
  <2> QED BY <2>1, <2>3 DEF UndoNames
<1>2. one \in Seq(UndoNames) /\ Len(one) = 1
  BY <1>1
<1>3. Releases \in Seq(UndoNames) /\ Len(Releases) = 5
  BY <1>1 DEF Releases
<1>4. six \in Seq(UndoNames) /\ Len(six) = 6
  BY <1>1
<1>5. kill \in Seq(UndoNames) /\ Len(kill) = 1
  BY <1>1
<1>6. seven \in Seq(UndoNames) /\ Len(seven) = 7
  BY <1>1
<1>7. end \in Seq(UndoNames) /\ Len(end) = 2
  BY <1>1
<1>8. six[1] = one[1] /\ \A i \in 1 .. 5 : six[1 + i] = Releases[i]
  <2>1. \A i \in 1 .. 5 : i = 1 \/ i = 2 \/ i = 3 \/ i = 4 \/ i = 5
    OBVIOUS
  <2> QED BY <2>1 DEF Releases
<1>9. (\A i \in 1 .. 6 : seven[i] = six[i]) /\ seven[7] = kill[1]
  <2>1. \A i \in 1 .. 6 : i = 1 \/ i = 2 \/ i = 3 \/ i = 4 \/ i = 5 \/ i = 6
    OBVIOUS
  <2> QED BY <2>1
<1>10. (\A i \in 1 .. 7 : Undo[i] = seven[i]) /\ Undo[8] = end[1] /\ Undo[9] = end[2]
  <2>1. \A i \in 1 .. 7 : i = 1 \/ i = 2 \/ i = 3 \/ i = 4 \/ i = 5 \/ i = 6 \/ i = 7
    OBVIOUS
  <2> QED BY <2>1 DEF Undo
<1> HIDE DEF one, six, kill, seven, end
<1>11. one \o Releases = six
  <2>1. Len(six) = Len(one) + Len(Releases)
    BY <1>2, <1>3, <1>4
  <2>2. \A i \in 1 .. Len(one) : six[i] = one[i]
    BY <1>2, <1>8
  <2>3. \A i \in 1 .. Len(Releases) : six[Len(one) + i] = Releases[i]
    BY <1>2, <1>3, <1>8
  <2> QED BY <1>2, <1>3, <1>4, <2>1, <2>2, <2>3, Joins
<1>12. six \o kill = seven
  <2>1. Len(seven) = Len(six) + Len(kill)
    BY <1>4, <1>5, <1>6
  <2>2. \A i \in 1 .. Len(six) : seven[i] = six[i]
    BY <1>4, <1>9
  <2>3. \A i \in 1 .. Len(kill) : seven[Len(six) + i] = kill[i]
    BY <1>4, <1>5, <1>9
  <2> QED BY <1>4, <1>5, <1>6, <2>1, <2>2, <2>3, Joins
<1>13. seven \o end = Undo
  <2>1. Len(Undo) = Len(seven) + Len(end)
    BY <1>6, <1>7, UndoSeq
  <2>2. \A i \in 1 .. Len(seven) : Undo[i] = seven[i]
    BY <1>6, <1>10
  <2>3. \A i \in 1 .. Len(end) : Undo[Len(seven) + i] = end[i]
    BY <1>6, <1>7, <1>10
  <2> QED BY <1>6, <1>7, UndoSeq, <2>1, <2>2, <2>3, Joins
<1> QED BY <1>11, <1>12, <1>13 DEF one, kill, end

(* An error in the program begins the undoing. *)
LEMMA FailUndoes ==
  ASSUME NEW S, todo \in Seq(S), NEW n \in Nat, n >= 2, Len(todo) = n,
         \A i \in 1 .. n - 2 : todo[i] \notin Closings,
         \A i \in 1 .. n : todo[i] # "worker_exit",
         todo[n - 1] = "close_damos", todo[n] = "report", Fail
  PROVE  /\ todo' = Undo /\ unwinding' = TRUE /\ errors' = errors \union {"damos"}
         /\ failed' = failed /\ verdict' = verdict
<1>1. AfterScope = <<"close_damos", "report">> /\ Scope = "damos"
  BY ScopeEnds
<1>2. ~WorkerAlive
  <2>1. DOMAIN todo = 1 .. n
    BY LenProperties
  <2> QED BY <2>1 DEF WorkerAlive, Pending
<1>3. Destructors = <<"detach">> \o Releases \o <<"kill">>
  BY <1>1, <1>2 DEF Destructors
<1> QED BY <1>1, <1>3, UndoIs DEF Fail

(* The scope is closed at the end, and there is no worker. *)
LEMMA NoClosing ==
  ASSUME NEW p \in 1 .. 69
  PROVE  Plan[p] # "worker_exit" /\ (p # 68 /\ p # 69 => Plan[p] \notin Closings)
<1>1. Plan[p] # "worker_exit" /\ Plan[p] # "close_damon"
  BY Where
<1>2. (Plan[p] = "close_damos" => p = 68) /\ (Plan[p] = "report" => p = 69)
  BY Where
<1> QED BY <1>1, <1>2 DEF Closings

(* An error at a place of the program. *)
LEMMA FailAt ==
  ASSUME NEW k \in 1 .. 67, todo = From(k), errors = {}, Fail
  PROVE  Undoing(1)' /\ errors' = {"damos"} /\ failed' = failed /\ verdict' = verdict
<1> DEFINE n == 70 - k
<1>1. /\ From(k) \in Seq(Names) /\ Len(From(k)) = n
      /\ \A i \in 1 .. n : From(k)[i] = Plan[k + i - 1]
  <2>1. k \in 1 .. 69
    OBVIOUS
  <2> QED BY <2>1, FromSeq, Zenon
<1>2. n \in Nat /\ n >= 2 /\ k + n - 1 = 69 /\ k + (n - 1) - 1 = 68
  OBVIOUS
<1>6. \A i \in 1 .. n : todo[i] # "worker_exit"
  <2>1. TAKE i \in 1 .. n
  <2>2. k + i - 1 \in 1 .. 69
    OBVIOUS
  <2>3. Plan[k + i - 1] # "worker_exit"
    BY <2>2, NoClosing
  <2> QED BY <1>1, <2>3
<1>7. \A i \in 1 .. n - 2 : todo[i] \notin Closings
  <2>1. TAKE i \in 1 .. n - 2
  <2>2. i \in 1 .. n /\ k + i - 1 \in 1 .. 69 /\ k + i - 1 # 68 /\ k + i - 1 # 69
    OBVIOUS
  <2>3. Plan[k + i - 1] \notin Closings
    BY <2>2, NoClosing
  <2> QED BY <1>1, <2>2, <2>3
<1>8. todo[n - 1] = "close_damos" /\ todo[n] = "report"
  <2>1. n - 1 \in 1 .. n /\ n \in 1 .. n
    OBVIOUS
  <2>2. todo[n - 1] = Plan[k + (n - 1) - 1] /\ todo[n] = Plan[k + n - 1]
    BY <1>1, <2>1
  <2> QED BY <1>2, <2>2, StepsFinishing
<1> HIDE DEF n
<1>9. /\ todo' = Undo /\ unwinding' = TRUE /\ errors' = errors \union {"damos"}
      /\ failed' = failed /\ verdict' = verdict
  BY <1>1, <1>2, <1>6, <1>7, <1>8, FailUndoes
<1>10. Rest(1) = Undo
  BY UndoSeq, SubSeqFull DEF Rest
<1> QED BY <1>9, <1>10 DEF Undoing, Rest, Undo

(* An error while the refault is awaited. *)
LEMMA FailAsked ==
  ASSUME todo = Asked, errors = {}, Fail
  PROVE  Undoing(1)' /\ errors' = {"damos"} /\ failed' = failed /\ verdict' = verdict
<1> DEFINE S == {Asked[i] : i \in 1 .. 6}
<1>1. todo \in Seq(S) /\ Len(todo) = 6
  BY DEF Asked
<1>2. /\ todo[1] = "await_refault" /\ todo[2] = "stop" /\ todo[3] = "wait_exit"
      /\ todo[4] = "cleanup_gate" /\ todo[5] = "close_damos" /\ todo[6] = "report"
  BY DEF Asked
<1> HIDE DEF S
<1>3. \A i \in 1 .. 6 : i = 1 \/ i = 2 \/ i = 3 \/ i = 4 \/ i = 5 \/ i = 6
  OBVIOUS
<1>4. \A i \in 1 .. 6 : todo[i] # "worker_exit"
  BY <1>2, <1>3
<1>5. \A i \in 1 .. 6 - 2 : todo[i] \notin Closings
  BY <1>2, <1>3 DEF Closings
<1>6. todo[6 - 1] = "close_damos" /\ todo[6] = "report"
  BY <1>2
<1>7. /\ todo' = Undo /\ unwinding' = TRUE /\ errors' = errors \union {"damos"}
      /\ failed' = failed /\ verdict' = verdict
  <2>1. 6 \in Nat /\ 6 >= 2
    OBVIOUS
  <2> QED BY <1>1, <1>4, <1>5, <1>6, <2>1, FailUndoes
<1>8. Rest(1) = Undo
  BY UndoSeq, SubSeqFull DEF Rest
<1> QED BY <1>7, <1>8 DEF Undoing, Rest, Undo

(* A release that is refused while an error unwinds ends the releases. *)
LEMMA PastUndo ==
  ASSUME NEW j \in 2 .. 6, todo = Rest(j)
  PROVE  PastReleases = Rest(7)
<1> DEFINE n == 10 - j
           m == 8 - j
           I == {i \in 1 .. Len(todo) : NotRelease(todo[i])}
<1>1. \A i \in j .. 9 : Undo[i] \in UndoNames
  BY DEF UndoNames
<1>2. /\ todo \in Seq(UndoNames) /\ Len(todo) = n
      /\ \A i \in 1 .. n : todo[i] = Undo[j + i - 1]
  BY <1>1, SubSeqProperties DEF Rest
<1>3. \A step : IsRelease(step) <=>
         step \in {"rel_on", "rel_slot", "rel_tracing", "rel_event", "rel_instance"}
  <2>1. DOMAIN Releases = 1 .. 5
    BY DEF Releases
  <2>2. {Releases[i] : i \in 1 .. 5} =
            {Releases[1], Releases[2], Releases[3], Releases[4], Releases[5]}
    <3>1. \A i \in 1 .. 5 : i = 1 \/ i = 2 \/ i = 3 \/ i = 4 \/ i = 5
      OBVIOUS
    <3> QED BY <3>1
  <2>3. {Releases[i] : i \in DOMAIN Releases} =
            {"rel_on", "rel_slot", "rel_tracing", "rel_event", "rel_instance"}
    BY <2>1, <2>2 DEF Releases
  <2> QED BY <2>3 DEF IsRelease
<1>4. Undo[7] = "kill"
  BY DEF Undo
<1>6. \A i \in 1 .. m - 1 : ~NotRelease(todo[i])
  <2>1. TAKE i \in 1 .. m - 1
  <2>2. i \in 1 .. n /\ j + i - 1 \in 1 .. 9 /\ j + i - 1 >= 2 /\ j + i - 1 <= 6
    OBVIOUS
  <2>3. Undo[j + i - 1] \in {"rel_on", "rel_slot", "rel_tracing", "rel_event", "rel_instance"}
    BY <2>2, UndoSteps
  <2> QED BY <1>2, <1>3, <2>2, <2>3 DEF NotRelease
<1>7. m \in 1 .. n /\ j + m - 1 = 7
  OBVIOUS
<1>8. NotRelease(todo[m])
  BY <1>2, <1>3, <1>4, <1>7 DEF NotRelease
<1>9. Min(I) = m
  <2>1. m \in I
    BY <1>2, <1>7, <1>8
  <2>2. \A i \in I : m <= i
    BY <1>2, <1>6
  <2>3. I \in SUBSET Int
    OBVIOUS
  <2> HIDE DEF I, m
  <2> QED BY <2>1, <2>2, <2>3, MinIs
<1>10. SelectInSeq(todo, NotRelease) = m
  <2>1. I # {}
    BY <1>2, <1>7, <1>8
  <2> QED BY <1>9, <2>1 DEF SelectInSeq
<1>11. PastReleases = SubSeq(Rest(j), m, n)
  BY <1>2, <1>10 DEF PastReleases
<1>12. SubSeq(SubSeq(Undo, j, 9), m, n) = SubSeq(Undo, j + m - 1, j + n - 1)
  <2>1. m \in 1 .. 9 - j + 1 /\ n \in 1 .. 9 - j + 1
    OBVIOUS
  <2>2. j \in 1 .. Len(Undo) /\ 9 \in 1 .. Len(Undo)
    BY UndoSeq
  <2> HIDE DEF m, n
  <2> QED BY <2>1, <2>2, UndoSeq, SubSeqOfSubSeq
<1>13. j + m - 1 = 7 /\ j + n - 1 = 9
  OBVIOUS
<1> QED BY <1>11, <1>12, <1>13 DEF Rest

-----------------------------------------------------------------------------
(* The program of Init is the program written out *)

Part(m, n) == SubSeq(Plan, m, n)

(* One step from place m. *)
LEMMA PartOne ==
  ASSUME NEW m \in 1 .. 69
  PROVE  Part(m, m) = <<Plan[m]>>
<1> DEFINE t == <<Plan[m]>>
<1>1. \A i \in m .. m : Plan[i] \in Names
  BY DEF Names
<1>2. /\ Part(m, m) \in Seq(Names) /\ Len(Part(m, m)) = 1
      /\ \A i \in 1 .. 1 : Part(m, m)[i] = Plan[m + i - 1]
  BY <1>1, SubSeqProperties DEF Part
<1>3. t \in Seq(Names) /\ Len(t) = 1
  BY <1>1
<1>4. (\A i \in 1 .. 1 : i = 1) /\ m + 1 - 1 = m /\ t[1] = Plan[m]
  OBVIOUS
<1>5. \A i \in 1 .. 1 : Part(m, m)[i] = t[i]
  <2>1. Part(m, m)[1] = Plan[m]
    BY <1>2, <1>4
  <2> QED BY <1>4, <2>1
<1> HIDE DEF t
<1>6. Part(m, m) = t
  BY <1>2, <1>3, <1>5, SeqEqual
<1> QED BY <1>6 DEF t

(* Two steps from place m. *)
LEMMA PartTwo ==
  ASSUME NEW m \in 1 .. 68
  PROVE  Part(m, m + 1) = <<Plan[m], Plan[m + 1]>>
<1> DEFINE t == <<Plan[m], Plan[m + 1]>>
<1>1. \A i \in m .. m + 1 : Plan[i] \in Names
  BY DEF Names
<1>2. /\ Part(m, m + 1) \in Seq(Names) /\ Len(Part(m, m + 1)) = 2
      /\ \A i \in 1 .. 2 : Part(m, m + 1)[i] = Plan[m + i - 1]
  BY <1>1, SubSeqProperties DEF Part
<1>3. t \in Seq(Names) /\ Len(t) = 2
  BY <1>1
<1>4. \A i \in 1 .. 2 : i = 1 \/ i = 2
  OBVIOUS
<1>5. \A i \in 1 .. 2 : Part(m, m + 1)[i] = t[i]
  BY <1>2, <1>4
<1> HIDE DEF t
<1>6. Part(m, m + 1) = t
  BY <1>2, <1>3, <1>5, SeqEqual
<1> QED BY <1>6 DEF t

(* Three steps from place m. *)
LEMMA PartThree ==
  ASSUME NEW m \in 1 .. 67
  PROVE  Part(m, m + 2) = <<Plan[m], Plan[m + 1], Plan[m + 2]>>
<1> DEFINE t == <<Plan[m], Plan[m + 1], Plan[m + 2]>>
<1>1. \A i \in m .. m + 2 : Plan[i] \in Names
  BY DEF Names
<1>2. /\ Part(m, m + 2) \in Seq(Names) /\ Len(Part(m, m + 2)) = 3
      /\ \A i \in 1 .. 3 : Part(m, m + 2)[i] = Plan[m + i - 1]
  BY <1>1, SubSeqProperties DEF Part
<1>3. t \in Seq(Names) /\ Len(t) = 3
  BY <1>1
<1>4. \A i \in 1 .. 3 : i = 1 \/ i = 2 \/ i = 3
  OBVIOUS
<1>5. \A i \in 1 .. 3 : Part(m, m + 2)[i] = t[i]
  BY <1>2, <1>4
<1> HIDE DEF t
<1>6. Part(m, m + 2) = t
  BY <1>2, <1>3, <1>5, SeqEqual
<1> QED BY <1>6 DEF t

(* Four steps from place m. *)
LEMMA PartFour ==
  ASSUME NEW m \in 1 .. 66
  PROVE  Part(m, m + 3) = <<Plan[m], Plan[m + 1], Plan[m + 2], Plan[m + 3]>>
<1> DEFINE t == <<Plan[m], Plan[m + 1], Plan[m + 2], Plan[m + 3]>>
<1>1. \A i \in m .. m + 3 : Plan[i] \in Names
  BY DEF Names
<1>2. /\ Part(m, m + 3) \in Seq(Names) /\ Len(Part(m, m + 3)) = 4
      /\ \A i \in 1 .. 4 : Part(m, m + 3)[i] = Plan[m + i - 1]
  BY <1>1, SubSeqProperties DEF Part
<1>3. t \in Seq(Names) /\ Len(t) = 4
  BY <1>1
<1>4. \A i \in 1 .. 4 : i = 1 \/ i = 2 \/ i = 3 \/ i = 4
  OBVIOUS
<1>5. \A i \in 1 .. 4 : Part(m, m + 3)[i] = t[i]
  BY <1>2, <1>4
<1> HIDE DEF t
<1>6. Part(m, m + 3) = t
  BY <1>2, <1>3, <1>5, SeqEqual
<1> QED BY <1>6 DEF t

(* Five steps from place m. *)
LEMMA PartFive ==
  ASSUME NEW m \in 1 .. 65
  PROVE  Part(m, m + 4) = <<Plan[m], Plan[m + 1], Plan[m + 2], Plan[m + 3], Plan[m + 4]>>
<1> DEFINE t == <<Plan[m], Plan[m + 1], Plan[m + 2], Plan[m + 3], Plan[m + 4]>>
<1>1. \A i \in m .. m + 4 : Plan[i] \in Names
  BY DEF Names
<1>2. /\ Part(m, m + 4) \in Seq(Names) /\ Len(Part(m, m + 4)) = 5
      /\ \A i \in 1 .. 5 : Part(m, m + 4)[i] = Plan[m + i - 1]
  BY <1>1, SubSeqProperties DEF Part
<1>3. t \in Seq(Names) /\ Len(t) = 5
  BY <1>1
<1>4. \A i \in 1 .. 5 : i = 1 \/ i = 2 \/ i = 3 \/ i = 4 \/ i = 5
  OBVIOUS
<1>5. \A i \in 1 .. 5 : Part(m, m + 4)[i] = t[i]
  BY <1>2, <1>4
<1> HIDE DEF t
<1>6. Part(m, m + 4) = t
  BY <1>2, <1>3, <1>5, SeqEqual
<1> QED BY <1>6 DEF t

(* Six steps from place m. *)
LEMMA PartSix ==
  ASSUME NEW m \in 1 .. 64
  PROVE  Part(m, m + 5) = <<Plan[m], Plan[m + 1], Plan[m + 2], Plan[m + 3], Plan[m + 4],
      Plan[m + 5]>>
<1> DEFINE t == <<Plan[m], Plan[m + 1], Plan[m + 2], Plan[m + 3], Plan[m + 4], Plan[m + 5]>>
<1>1. \A i \in m .. m + 5 : Plan[i] \in Names
  BY DEF Names
<1>2. /\ Part(m, m + 5) \in Seq(Names) /\ Len(Part(m, m + 5)) = 6
      /\ \A i \in 1 .. 6 : Part(m, m + 5)[i] = Plan[m + i - 1]
  BY <1>1, SubSeqProperties DEF Part
<1>3. t \in Seq(Names) /\ Len(t) = 6
  BY <1>1
<1>4. \A i \in 1 .. 6 : i = 1 \/ i = 2 \/ i = 3 \/ i = 4 \/ i = 5 \/ i = 6
  OBVIOUS
<1>5. \A i \in 1 .. 6 : Part(m, m + 5)[i] = t[i]
  BY <1>2, <1>4, SMTT(30)
<1> HIDE DEF t
<1>6. Part(m, m + 5) = t
  BY <1>2, <1>3, <1>5, SeqEqual
<1> QED BY <1>6 DEF t

(* Nine steps from place m. *)
LEMMA PartNine ==
  ASSUME NEW m \in 1 .. 61
  PROVE  Part(m, m + 8) = <<Plan[m], Plan[m + 1], Plan[m + 2], Plan[m + 3], Plan[m + 4],
      Plan[m + 5], Plan[m + 6], Plan[m + 7], Plan[m + 8]>>
<1> DEFINE t == <<Plan[m], Plan[m + 1], Plan[m + 2], Plan[m + 3], Plan[m + 4], Plan[m + 5],
        Plan[m + 6], Plan[m + 7], Plan[m + 8]>>
<1>1. \A i \in m .. m + 8 : Plan[i] \in Names
  BY DEF Names
<1>2. /\ Part(m, m + 8) \in Seq(Names) /\ Len(Part(m, m + 8)) = 9
      /\ \A i \in 1 .. 9 : Part(m, m + 8)[i] = Plan[m + i - 1]
  BY <1>1, SubSeqProperties DEF Part
<1>3. t \in Seq(Names) /\ Len(t) = 9
  BY <1>1
<1>4. \A i \in 1 .. 9 : i = 1 \/ i = 2 \/ i = 3 \/ i = 4 \/ i = 5 \/ i = 6 \/ i = 7 \/ i = 8 \/
          i = 9
  OBVIOUS
<1>5. \A i \in 1 .. 9 : Part(m, m + 8)[i] = t[i]
  <2>1. /\ Part(m, m + 8)[1] = Plan[m + 0]
        /\ Part(m, m + 8)[2] = Plan[m + 1]
        /\ Part(m, m + 8)[3] = Plan[m + 2]
        /\ Part(m, m + 8)[4] = Plan[m + 3]
        /\ Part(m, m + 8)[5] = Plan[m + 4]
        /\ Part(m, m + 8)[6] = Plan[m + 5]
        /\ Part(m, m + 8)[7] = Plan[m + 6]
        /\ Part(m, m + 8)[8] = Plan[m + 7]
        /\ Part(m, m + 8)[9] = Plan[m + 8]
    BY <1>2
  <2> QED BY <1>4, <2>1
<1> HIDE DEF t
<1>6. Part(m, m + 8) = t
  BY <1>2, <1>3, <1>5, SeqEqual
<1> QED BY <1>6 DEF t

(* Adjacent parts. *)
LEMMA Glue ==
  ASSUME NEW m \in 1 .. 69, NEW k \in m .. 69, NEW n \in k .. 69
  PROVE  Part(m, k) \o Part(k + 1, n) = Part(m, n)
BY PlanSeq, ConcatAdjacentSubSeq DEF Part

(* The steps that are the same for both kinds of target. *)
LEMMA Pieces ==
    /\ ReadySteps = Part(5, 10) /\ DecideSteps = Part(35, 38)
    /\ LiveEndSteps = Part(63, 64) /\ EndSteps = Part(65, 67)
    /\ <<"close_damos", "report">> = Part(68, 69)
<1>1. ReadySteps = Part(5, 10)
  <2>1. 5 \in 1 .. 64 /\ 10 = 5 + 5
    OBVIOUS
  <2> QED BY <2>1, PartSix, StepsPreparing DEF ReadySteps
<1>2. DecideSteps = Part(35, 38)
  <2>1. 35 \in 1 .. 66 /\ 38 = 35 + 3
    OBVIOUS
  <2> QED BY <2>1, PartFour, StepsWatching DEF DecideSteps
<1>3. LiveEndSteps = Part(63, 64)
  <2>1. 63 \in 1 .. 68 /\ 64 = 63 + 1
    OBVIOUS
  <2> QED BY <2>1, PartTwo, StepsFinishing DEF LiveEndSteps
<1>4. EndSteps = Part(65, 67)
  <2>1. 65 \in 1 .. 67 /\ 67 = 65 + 2
    OBVIOUS
  <2> QED BY <2>1, PartThree, StepsFinishing DEF EndSteps
<1>5. <<"close_damos", "report">> = Part(68, 69)
  <2>1. 68 \in 1 .. 68 /\ 69 = 68 + 1
    OBVIOUS
  <2> QED BY <2>1, PartTwo, StepsFinishing
<1> QED BY <1>1, <1>2, <1>3, <1>4, <1>5

(* What both sessions begin and end with. *)
Opens ==
    <<"identity", "guard", "mkdir", "clock", "event_on", "tracing_on", "capture", "slot",
      "configure">>
Runs == <<"on", "started", "monitor", "off", "drain">>

(* The shadow session. *)
LEMMA ShadowSession == SessionSteps(ShadowScheme) = Part(11, 34)
<1>1. Opens = Part(11, 19)
  <2>1. 11 \in 1 .. 61 /\ 19 = 11 + 8
    OBVIOUS
  <2> QED BY <2>1, PartNine, StepsPreparing, StepsOpening DEF Opens
<1>2. ShadowAction = Part(20, 21)
  <2>1. 20 \in 1 .. 68 /\ 21 = 20 + 1
    OBVIOUS
  <2> QED BY <2>1, PartTwo, StepsOpening DEF ShadowAction
<1>3. SchemeSteps = Part(22, 23)
  <2>1. 22 \in 1 .. 68 /\ 23 = 22 + 1
    OBVIOUS
  <2> QED BY <2>1, PartTwo, StepsOpening DEF SchemeSteps
<1>4. Runs = Part(24, 28)
  <2>1. 24 \in 1 .. 65 /\ 28 = 24 + 4
    OBVIOUS
  <2> QED BY <2>1, PartFive, StepsWatching DEF Runs
<1>5. Releases = Part(29, 33)
  <2>1. 29 \in 1 .. 65 /\ 33 = 29 + 4
    OBVIOUS
  <2> QED BY <2>1, PartFive, StepsWatching DEF Releases
<1>6. <<"cleaned">> = Part(34, 34)
  <2>1. 34 \in 1 .. 69
    OBVIOUS
  <2> QED BY <2>1, PartOne, StepsWatching
<1>7. ShadowAction \o SchemeSteps = Part(20, 23)
  <2>1. 20 \in 1 .. 69 /\ 21 \in 20 .. 69 /\ 23 \in 21 .. 69 /\ 21 + 1 = 22
    OBVIOUS
  <2>2. Part(20, 21) \o Part(21 + 1, 23) = Part(20, 23)
    BY <2>1, Glue, ZenonT(60)
  <2> QED BY <1>2, <1>3, <2>1, <2>2
<1>8. Opens \o (ShadowAction \o SchemeSteps) = Part(11, 23)
  <2>1. 11 \in 1 .. 69 /\ 19 \in 11 .. 69 /\ 23 \in 19 .. 69 /\ 19 + 1 = 20
    OBVIOUS
  <2>2. Part(11, 19) \o Part(19 + 1, 23) = Part(11, 23)
    BY <2>1, Glue, ZenonT(60)
  <2> QED BY <1>1, <1>7, <2>1, <2>2
<1>9. (Opens \o (ShadowAction \o SchemeSteps)) \o Runs = Part(11, 28)
  <2>1. 11 \in 1 .. 69 /\ 23 \in 11 .. 69 /\ 28 \in 23 .. 69 /\ 23 + 1 = 24
    OBVIOUS
  <2>2. Part(11, 23) \o Part(23 + 1, 28) = Part(11, 28)
    BY <2>1, Glue, ZenonT(60)
  <2> QED BY <1>4, <1>8, <2>1, <2>2
<1>10. ((Opens \o (ShadowAction \o SchemeSteps)) \o Runs) \o Releases = Part(11, 33)
  <2>1. 11 \in 1 .. 69 /\ 28 \in 11 .. 69 /\ 33 \in 28 .. 69 /\ 28 + 1 = 29
    OBVIOUS
  <2>2. Part(11, 28) \o Part(28 + 1, 33) = Part(11, 33)
    BY <2>1, Glue, ZenonT(60)
  <2> QED BY <1>5, <1>9, <2>1, <2>2
<1>11. (((Opens \o (ShadowAction \o SchemeSteps)) \o Runs) \o Releases) \o <<"cleaned">> =
           Part(11, 34)
  <2>1. 11 \in 1 .. 69 /\ 33 \in 11 .. 69 /\ 34 \in 33 .. 69 /\ 33 + 1 = 34
    OBVIOUS
  <2>2. Part(11, 33) \o Part(33 + 1, 34) = Part(11, 34)
    BY <2>1, Glue, ZenonT(60)
  <2> QED BY <1>6, <1>10, <2>1, <2>2
<1> QED BY <1>11 DEF SessionSteps, ShadowScheme, Opens, Runs

(* The live session. *)
LEMMA LiveSession == SessionSteps(LiveScheme) = Part(39, 62)
<1>1. Opens = Part(39, 47)
  <2>1. 39 \in 1 .. 61 /\ 47 = 39 + 8
    OBVIOUS
  <2> QED BY <2>1, PartNine, StepsReopening DEF Opens
<1>2. <<"act_pageout">> = Part(48, 48)
  <2>1. 48 \in 1 .. 69
    OBVIOUS
  <2> QED BY <2>1, PartOne, StepsReopening
<1>3. SchemeSteps = Part(49, 50)
  <2>1. 49 \in 1 .. 68 /\ 50 = 49 + 1
    OBVIOUS
  <2> QED BY <2>1, PartTwo, StepsReopening DEF SchemeSteps
<1>4. <<"ceiling">> = Part(51, 51)
  <2>1. 51 \in 1 .. 69
    OBVIOUS
  <2> QED BY <2>1, PartOne, StepsReopening
<1>5. Runs = Part(52, 56)
  <2>1. 52 \in 1 .. 65 /\ 56 = 52 + 4
    OBVIOUS
  <2> QED BY <2>1, PartFive, StepsFinishing DEF Runs
<1>6. Releases = Part(57, 61)
  <2>1. 57 \in 1 .. 65 /\ 61 = 57 + 4
    OBVIOUS
  <2> QED BY <2>1, PartFive, StepsFinishing DEF Releases
<1>7. <<"cleaned">> = Part(62, 62)
  <2>1. 62 \in 1 .. 69
    OBVIOUS
  <2> QED BY <2>1, PartOne, StepsFinishing
<1>8. <<"act_pageout">> \o SchemeSteps = Part(48, 50)
  <2>1. 48 \in 1 .. 69 /\ 48 \in 48 .. 69 /\ 50 \in 48 .. 69 /\ 48 + 1 = 49
    OBVIOUS
  <2>2. Part(48, 48) \o Part(48 + 1, 50) = Part(48, 50)
    BY <2>1, Glue, ZenonT(60)
  <2> QED BY <1>2, <1>3, <2>1, <2>2
<1>9. (<<"act_pageout">> \o SchemeSteps) \o <<"ceiling">> = Part(48, 51)
  <2>1. 48 \in 1 .. 69 /\ 50 \in 48 .. 69 /\ 51 \in 50 .. 69 /\ 50 + 1 = 51
    OBVIOUS
  <2>2. Part(48, 50) \o Part(50 + 1, 51) = Part(48, 51)
    BY <2>1, Glue, ZenonT(60)
  <2> QED BY <1>4, <1>8, <2>1, <2>2
<1>10. Opens \o ((<<"act_pageout">> \o SchemeSteps) \o <<"ceiling">>) = Part(39, 51)
  <2>1. 39 \in 1 .. 69 /\ 47 \in 39 .. 69 /\ 51 \in 47 .. 69 /\ 47 + 1 = 48
    OBVIOUS
  <2>2. Part(39, 47) \o Part(47 + 1, 51) = Part(39, 51)
    BY <2>1, Glue, ZenonT(60)
  <2> QED BY <1>1, <1>9, <2>1, <2>2
<1>11. (Opens \o ((<<"act_pageout">> \o SchemeSteps) \o <<"ceiling">>)) \o Runs = Part(39, 56)
  <2>1. 39 \in 1 .. 69 /\ 51 \in 39 .. 69 /\ 56 \in 51 .. 69 /\ 51 + 1 = 52
    OBVIOUS
  <2>2. Part(39, 51) \o Part(51 + 1, 56) = Part(39, 56)
    BY <2>1, Glue, ZenonT(60)
  <2> QED BY <1>5, <1>10, <2>1, <2>2
<1>12. ((Opens \o ((<<"act_pageout">> \o SchemeSteps) \o <<"ceiling">>)) \o Runs) \o Releases =
           Part(39, 61)
  <2>1. 39 \in 1 .. 69 /\ 56 \in 39 .. 69 /\ 61 \in 56 .. 69 /\ 56 + 1 = 57
    OBVIOUS
  <2>2. Part(39, 56) \o Part(56 + 1, 61) = Part(39, 61)
    BY <2>1, Glue, ZenonT(60)
  <2> QED BY <1>6, <1>11, <2>1, <2>2
<1>13. (((Opens \o ((<<"act_pageout">> \o SchemeSteps) \o <<"ceiling">>)) \o Runs) \o
           Releases) \o <<"cleaned">> = Part(39, 62)
  <2>1. 39 \in 1 .. 69 /\ 61 \in 39 .. 69 /\ 62 \in 61 .. 69 /\ 61 + 1 = 62
    OBVIOUS
  <2>2. Part(39, 61) \o Part(61 + 1, 62) = Part(39, 62)
    BY <2>1, Glue, ZenonT(60)
  <2> QED BY <1>7, <1>12, <2>1, <2>2
<1> QED BY <1>13 DEF SessionSteps, LiveScheme, Opens, Runs

(* The harness begins at place 1, or at place 2 with an external target. *)
LEMMA Begins ==
  ASSUME Init
  PROVE  \E k \in 1 .. 2 : todo = From(k)
<1> DEFINE A == PreflightSteps \o AcquireSteps
<1>1. \E k \in 1 .. 2 : A = Part(k, 4)
  <2>1. CASE kind = "internal"
    <3>1. PreflightSteps = Part(1, 2)
      <4>1. 1 \in 1 .. 68 /\ 2 = 1 + 1
        OBVIOUS
      <4> QED BY <2>1, <4>1, PartTwo, StepsAcquiring DEF PreflightSteps
    <3>2. AcquireSteps = Part(3, 4)
      <4>1. 3 \in 1 .. 68 /\ 4 = 3 + 1
        OBVIOUS
      <4> QED BY <2>1, <4>1, PartTwo, StepsAcquiring DEF AcquireSteps
    <3>3. 1 \in 1 .. 69 /\ 2 \in 1 .. 69 /\ 4 \in 2 .. 69 /\ 2 + 1 = 3
      OBVIOUS
    <3>4. Part(1, 2) \o Part(3, 4) = Part(1, 4)
      BY <3>3, Glue, Zenon
    <3> QED BY <3>1, <3>2, <3>4
  <2>2. CASE kind = "external"
    <3>1. PreflightSteps = Part(2, 3)
      <4>1. 2 \in 1 .. 68 /\ 3 = 2 + 1
        OBVIOUS
      <4> QED BY <2>2, <4>1, PartTwo, StepsAcquiring, Zenon DEF PreflightSteps
    <3>2. AcquireSteps = Part(4, 4)
      <4>1. 4 \in 1 .. 69
        OBVIOUS
      <4> QED BY <2>2, <4>1, PartOne, StepsAcquiring, Zenon DEF AcquireSteps
    <3>3. 2 \in 1 .. 69 /\ 3 \in 2 .. 69 /\ 4 \in 3 .. 69 /\ 3 + 1 = 4
      OBVIOUS
    <3>4. Part(2, 3) \o Part(4, 4) = Part(2, 4)
      BY <3>3, Glue, Zenon
    <3> QED BY <3>1, <3>2, <3>4
  <2> QED BY <2>1, <2>2 DEF Init
<1>2. PICK k \in 1 .. 2 : A = Part(k, 4)
  BY <1>1
<1> HIDE DEF A
<1> DEFINE B == A \o ReadySteps
<1>3. B = Part(k, 10)
  <2>1. k \in 1 .. 69 /\ 4 \in k .. 69 /\ 10 \in 4 .. 69 /\ 4 + 1 = 5
    OBVIOUS
  <2>2. Part(k, 4) \o Part(4 + 1, 10) = Part(k, 10)
    BY <2>1, Glue, ZenonT(60)
  <2> QED BY <1>2, <2>1, <2>2, Pieces
<1> HIDE DEF B
<1> DEFINE C == B \o SessionSteps(ShadowScheme)
<1>4. C = Part(k, 34)
  <2>1. k \in 1 .. 69 /\ 10 \in k .. 69 /\ 34 \in 10 .. 69 /\ 10 + 1 = 11
    OBVIOUS
  <2>2. Part(k, 10) \o Part(10 + 1, 34) = Part(k, 34)
    BY <2>1, Glue, ZenonT(60)
  <2> QED BY <1>3, <2>1, <2>2, ShadowSession
<1> HIDE DEF C
<1> DEFINE D == C \o DecideSteps
<1>5. D = Part(k, 38)
  <2>1. k \in 1 .. 69 /\ 34 \in k .. 69 /\ 38 \in 34 .. 69 /\ 34 + 1 = 35
    OBVIOUS
  <2>2. Part(k, 34) \o Part(34 + 1, 38) = Part(k, 38)
    BY <2>1, Glue, ZenonT(60)
  <2> QED BY <1>4, <2>1, <2>2, Pieces
<1> HIDE DEF D
<1> DEFINE E == D \o SessionSteps(LiveScheme)
<1>6. E = Part(k, 62)
  <2>1. k \in 1 .. 69 /\ 38 \in k .. 69 /\ 62 \in 38 .. 69 /\ 38 + 1 = 39
    OBVIOUS
  <2>2. Part(k, 38) \o Part(38 + 1, 62) = Part(k, 62)
    BY <2>1, Glue, ZenonT(60)
  <2> QED BY <1>5, <2>1, <2>2, LiveSession
<1> HIDE DEF E
<1> DEFINE F == E \o LiveEndSteps
<1>7. F = Part(k, 64)
  <2>1. k \in 1 .. 69 /\ 62 \in k .. 69 /\ 64 \in 62 .. 69 /\ 62 + 1 = 63
    OBVIOUS
  <2>2. Part(k, 62) \o Part(62 + 1, 64) = Part(k, 64)
    BY <2>1, Glue, ZenonT(60)
  <2> QED BY <1>6, <2>1, <2>2, Pieces
<1> HIDE DEF F
<1> DEFINE G == F \o EndSteps
<1>8. G = Part(k, 67)
  <2>1. k \in 1 .. 69 /\ 64 \in k .. 69 /\ 67 \in 64 .. 69 /\ 64 + 1 = 65
    OBVIOUS
  <2>2. Part(k, 64) \o Part(64 + 1, 67) = Part(k, 67)
    BY <2>1, Glue, ZenonT(60)
  <2> QED BY <1>7, <2>1, <2>2, Pieces
<1> HIDE DEF G
<1> DEFINE H == G \o <<"close_damos", "report">>
<1>9. H = Part(k, 69)
  <2>1. k \in 1 .. 69 /\ 67 \in k .. 69 /\ 69 \in 67 .. 69 /\ 67 + 1 = 68
    OBVIOUS
  <2>2. Part(k, 67) \o Part(67 + 1, 69) = Part(k, 69)
    BY <2>1, Glue, ZenonT(60)
  <2> QED BY <1>8, <2>1, <2>2, Pieces
<1> HIDE DEF H
<1>10. todo = H
  BY DEF Init, DamosSteps, A, B, C, D, E, F, G, H
<1> QED BY <1>9, <1>10 DEF From, Part

-----------------------------------------------------------------------------
(* Types, in parts *)

Schemes ==
    [action : {"none", "stat", "pageout"}, quota : BOOLEAN, fence : BOOLEAN,
     ceiling : BOOLEAN, shots : 0 .. Ceiling + ResetTicks, spent : 0 .. Quota + 1,
     tried : BOOLEAN]
KernelType ==
    kd \in Slots /\ inst \subseteq 1 .. sess /\ readers \subseteq 1 .. sess /\ sess \in Nat
ProcessType ==
    /\ tgt \in TargetStates /\ files \subseteq FileNames
    /\ progress \in {"none", "idle", "running", "final"}
HarnessType ==
    /\ flags \subseteq Flags /\ child \in BOOLEAN /\ unwinding \in BOOLEAN
    /\ errors \subseteq {"damon", "damos", "main"} /\ verdict \in {"none", "pass", "fail"}
    /\ faults \in 0 .. MaxFaults /\ acts \in 0 .. MaxForeign
DamosType ==
    /\ kind \in {"internal", "external"} /\ refaulted \in BOOLEAN /\ shadow \in BOOLEAN
    /\ applied \in 0 .. Quota + 1 /\ zones \subseteq Zones
    /\ stats \in [tried : BOOLEAN, applied : 0 .. Quota + 1]

(* The type invariant and its parts. *)
LEMMA TypeParts ==
    TypeOK <=> KernelType /\ ProcessType /\ HarnessType /\ DamosType /\ sch \in Schemes
BY DEF TypeOK, HostTypeOK, KernelType, ProcessType, HarnessType, DamosType, Schemes

(* The same of the next state. *)
LEMMA TypePartsNext ==
    TypeOK' <=>
        KernelType' /\ ProcessType' /\ HarnessType' /\ DamosType' /\ (sch \in Schemes)'
BY DEF TypeOK, HostTypeOK, KernelType, ProcessType, HarnessType, DamosType, Schemes

(* No scheme is a scheme. *)
LEMMA NoSchemeType == NoScheme \in Schemes
BY QuotaAssumption DEF NoScheme, Schemes

-----------------------------------------------------------------------------
(* Steps in general *)

(* The invariant but for the types and the control. *)
Sound == Bounded /\ Ours /\ Counted /\ PageoutBounded /\ PassEarned

UndoSet ==
    {"detach", "rel_on", "rel_slot", "rel_tracing", "rel_event", "rel_instance", "kill",
     "close_damos", "report"}

(* The program does not change. *)
LEMMA FromKept ==
  ASSUME NEW k, kind' = kind
  PROVE  From(k)' = From(k)
BY DEF From, Plan

(* The steps of the undoing. *)
LEMMA UndoNamed ==
  ASSUME NEW j \in 1 .. 9
  PROVE  Undo[j] \in UndoSet
BY UndoSteps DEF UndoSet

(* A step that belongs neither to the refault nor to the undoing is a step of *)
(* the program, before its end.                                               *)
LEMMA OnPlan ==
  ASSUME Control, NEW name, Step(name), name \notin UndoSet,
         name \notin {"refault", "await_refault"}
  PROVE  \E k \in 1 .. 67 : At(k) /\ Plan[k] = name /\ Tail(todo) = From(k + 1)
<1>1. CASE \E k \in 1 .. 70 : At(k)
  <2>1. PICK k \in 1 .. 70 : At(k)
    BY <1>1
  <2>2. k \in 1 .. 69 /\ Plan[k] = name /\ Tail(todo) = From(k + 1)
    BY <2>1, StepAt DEF At
  <2>3. k # 68 /\ k # 69
    <3>1. Plan[68] = "close_damos" /\ Plan[69] = "report"
      BY StepsFinishing
    <3> QED BY <2>2, <3>1 DEF UndoSet
  <2>4. k \in 1 .. 67
    BY <2>2, <2>3
  <2> QED BY <2>1, <2>2, <2>4, Zenon
<1>2. CASE Asking
  BY <1>2, StepAsk DEF Asking
<1>3. CASE \E j \in 1 .. 10 : Undoing(j)
  <2>1. PICK j \in 1 .. 10 : Undoing(j)
    BY <1>3
  <2>2. j \in 1 .. 9 /\ Undo[j] = name
    BY <2>1, StepUndo DEF Undoing
  <2> QED BY <2>2, UndoNamed
<1> QED BY <1>1, <1>2, <1>3 DEF Control

(* The harness goes on to the next place. *)
LEMMA Onward ==
  ASSUME NEW k \in 1 .. 69, At(k), Tail(todo) = From(k + 1), Proceed,
         errors' = errors, unwinding' = unwinding, kind' = kind,
         Scheme(k + 1)', Established(k + 1)'
  PROVE  Control'
<1>1. k + 1 \in 1 .. 70
  OBVIOUS
<1>2. todo' = From(k + 1)'
  BY FromKept DEF Proceed
<1>3. errors' = {} /\ ~unwinding'
  BY DEF At
<1>4. At(k + 1)'
  BY <1>2, <1>3 DEF At
<1> QED BY <1>1, <1>4 DEF Control

(* Any error but one while undoing begins the undoing. *)
LEMMA FailOut ==
  ASSUME Control, NEW name, Step(name), name \notin UndoSet, name # "refault", Fail
  PROVE  /\ Control' /\ errors' = {"damos"} /\ unwinding' = TRUE
         /\ failed' = failed /\ verdict' = verdict
<1>1. Undoing(1)' /\ errors' = {"damos"} /\ failed' = failed /\ verdict' = verdict
  <2>1. CASE name = "await_refault"
    <3>1. CASE \E k \in 1 .. 70 : At(k)
      <4>1. PICK k \in 1 .. 70 : At(k)
        BY <3>1
      <4>2. k \in 1 .. 69 /\ Plan[k] = name
        BY <4>1, StepAt DEF At
      <4> QED BY <2>1, <4>2, Where
    <3>2. CASE Asking
      <4>1. todo = Asked
        BY <2>1, <3>2, StepAsk DEF Asking
      <4> QED BY <3>2, <4>1, FailAsked DEF Asking
    <3>3. CASE \E j \in 1 .. 10 : Undoing(j)
      <4>1. PICK j \in 1 .. 10 : Undoing(j)
        BY <3>3
      <4>2. j \in 1 .. 9 /\ Undo[j] = name
        BY <4>1, StepUndo DEF Undoing
      <4> QED BY <4>2, UndoNamed
    <3> QED BY <3>1, <3>2, <3>3 DEF Control
  <2>2. CASE name # "await_refault"
    <3>1. PICK k \in 1 .. 67 : At(k)
      BY <2>2, OnPlan
    <3> QED BY <3>1, FailAt DEF At
  <2> QED BY <2>1, <2>2
<1>2. unwinding' = TRUE
  BY DEF Fail
<1> QED BY <1>1, <1>2 DEF Control

(* The places after which nothing new is known. *)
Calm == {1, 2, 3, 4, 5, 6, 7, 8, 9, 11, 13, 14, 15, 16, 17, 19} \union 25 .. 34
            \union {37, 38, 39, 40, 41, 42, 43, 44, 45, 47} \union 53 .. 63 \union {65}

(* There, a step that starts nothing and takes nothing back leaves the facts. *)
LEMMA CalmFacts ==
  ASSUME NEW k \in Calm, Scheme(k), Established(k),
         UNCHANGED <<applied, zones, shadow, refaulted, kind>>,
         kd'.own = "nemor" /\ kd'.on => kd.own = "nemor" /\ kd.on /\ sch' = sch,
         k \in {19, 47} => kd' = kd /\ sch' = sch,
         k = 27 => ~kd'.on,
         "decision" \in files => "decision" \in files',
         sess \in Nat, sess' \in Nat, sess' >= sess,
         failed' = {} => failed = {}
  PROVE  Scheme(k + 1)' /\ Established(k + 1)'
<1>1. k \in Int /\ k + 1 \notin {19, 21, 22, 23, 24, 47, 49, 50, 51, 52} /\ k <= 65
      /\ k \notin {10, 12, 18, 46, 35, 36, 64}
  BY DEF Calm
<1>2. k + 1 \in {20, 48} => k \in {19, 47}
  BY <1>1
<1>3. Scheme(k + 1)'
  <2>1. k + 1 \in {20, 48} => Written("none", FALSE, FALSE, FALSE)'
    <3>1. k \in {19, 47} => Written("none", FALSE, FALSE, FALSE)
      BY DEF Scheme
    <3> QED BY <1>2, <3>1 DEF Written
  <2> QED BY <1>1, <2>1 DEF Scheme
<1>4. Established(k + 1)'
  <2>1. k + 1 <= 52 => k <= 52
    BY <1>1
  <2>2. k + 1 >= 11 => k >= 11
    BY <1>1
  <2>3. k + 1 >= 13 => k >= 13
    BY <1>1
  <2>4. k + 1 >= 36 => k >= 36
    BY <1>1
  <2>5. k + 1 \in 37 .. 69 => k \in 37 .. 69
    BY <1>1
  <2>6. k + 1 >= 65 => k >= 65
    BY <1>1
  <2>7. ~(k + 1 >= 67) /\ ~(k + 1 >= 68)
    BY <1>1
  <2>8. sess > 0 => sess' > 0
    OBVIOUS
  <2>9. k + 1 <= 18 \/ k + 1 \in 28 .. 46 => k <= 18 \/ k \in 28 .. 46 \/ k = 27
    BY <1>1
  <2> QED BY <2>1, <2>2, <2>3, <2>4, <2>5, <2>6, <2>7, <2>8, <2>9 DEF Established
<1> QED BY <1>3, <1>4

(* What a step of the harness keeps when it neither starts a kdamond nor    *)
(* takes anything back.                                                     *)
LEMMA SoundKept ==
  ASSUME Sound, verdict = "none", verdict' = "none",
         UNCHANGED <<applied, zones, kind, stats>>,
         kd'.own = "nemor" /\ kd'.on => kd.own = "nemor" /\ kd.on /\ sch' = sch,
         shadow => shadow',
         "decision" \in files => "decision" \in files',
         child' => child
  PROVE  Sound'
<1>1. Bounded'
  BY DEF Sound, Bounded, Live
<1>2. Ours' /\ Counted' /\ PageoutBounded'
  BY DEF Sound, Ours, Counted, PageoutBounded
<1>3. PassEarned'
  BY DEF PassEarned
<1> QED BY <1>1, <1>2, <1>3 DEF Sound

-----------------------------------------------------------------------------
(* Steps at calm places *)

CalmNames ==
    {"capability", "nr_zero", "spawn", "await", "accept", "identity", "judge", "start",
     "progress", "cold_gate", "mkdir", "clock", "event_on", "tracing_on", "capture",
     "configure", "started", "monitor", "off", "drain", "cleaned", "stop"}

\* How a step of the harness that is not a destructor ends.
Goes == Proceed /\ errors' = errors /\ unwinding' = unwinding /\ verdict' = verdict

(* The places of these steps. *)
LEMMA CalmWhere ==
  ASSUME NEW k \in 1 .. 69, Plan[k] \in CalmNames
  PROVE  /\ k \in Calm /\ (k \in {19, 47} => Plan[k] = "configure")
         /\ k = 27 => Plan[k] = "off"
<1>1. k \in {1, 2, 3, 4, 5, 6, 7, 8, 9, 11, 13, 14, 15, 16, 17, 19, 25, 26, 27, 28, 34, 37, 38,
          39,
             41, 42, 43, 44, 45, 47, 53, 54, 55, 56, 62, 63, 65}
  BY Where DEF CalmNames
<1>2. k \in Calm
  BY <1>1 DEF Calm
<1>3. Plan[19] = "configure" /\ Plan[47] = "configure"
  BY StepsOpening, StepsReopening
<1>4. Plan[27] = "off"
  BY StepsWatching
<1> QED BY <1>2, <1>3, <1>4

(* After such a step the harness is where it should be. *)
LEMMA CalmControl ==
  ASSUME Control, NEW name \in CalmNames, Step(name), Goes \/ Fail,
         UNCHANGED <<applied, zones, shadow, refaulted, kind>>,
         kd'.own = "nemor" /\ kd'.on => kd.own = "nemor" /\ kd.on /\ sch' = sch,
         name = "configure" => kd' = kd /\ (kd.own = "nemor" => sch' = sch),
         name = "off" => Fail \/ ~kd'.on,
         "decision" \in files => "decision" \in files',
         sess \in Nat, sess' \in Nat, sess' >= sess,
         failed' = {} => failed = {}
  PROVE  Control'
<1>1. name \notin UndoSet /\ name \notin {"refault", "await_refault"}
  BY DEF CalmNames, UndoSet
<1>2. CASE Fail
  BY <1>1, <1>2, FailOut
<1>3. CASE Goes /\ ~Fail
  <2>1. PICK k \in 1 .. 67 : At(k) /\ Plan[k] = name /\ Tail(todo) = From(k + 1)
    BY <1>1, OnPlan
  <2>2. k \in 1 .. 69
    OBVIOUS
  <2>3. k \in Calm /\ (k \in {19, 47} => name = "configure") /\ (k = 27 => name = "off")
    BY <2>1, <2>2, CalmWhere
  <2>4. Scheme(k) /\ Established(k)
    BY <2>1 DEF At
  <2>5. k \in {19, 47} => kd' = kd /\ sch' = sch
    <3>1. k \in {19, 47} => kd.own = "nemor"
      BY <2>4 DEF Scheme, Written
    <3> QED BY <2>3, <3>1
  <2>6. Scheme(k + 1)' /\ Established(k + 1)'
    <3>1. k = 27 => ~kd'.on
      BY <1>3, <2>3
    <3> QED BY <2>3, <2>4, <2>5, <3>1, CalmFacts
  <2> QED BY <1>3, <2>1, <2>2, <2>6, Onward DEF Goes
<1> QED BY <1>2, <1>3

(* The types of the harness. *)
LEMMA HarnessKept ==
  ASSUME HarnessType, flags' \subseteq Flags, child' \in BOOLEAN, acts' = acts,
         faults' = faults \/ Fault, verdict' = verdict,
         \/ errors' = errors /\ unwinding' = unwinding
         \/ errors' = {"damos"} /\ unwinding' = TRUE
  PROVE  HarnessType'
<1>1. faults' \in 0 .. MaxFaults
  BY HostBounds DEF HarnessType, Fault
<1> QED BY <1>1 DEF HarnessType

(* A calm step keeps the invariant. *)
LEMMA CalmInv ==
  ASSUME Inv, NEW name \in CalmNames, Step(name), Goes \/ Fail,
         KernelType', ProcessType', (sch \in Schemes)',
         flags' \subseteq Flags, child' = child, acts' = acts, faults' = faults \/ Fault,
         UNCHANGED <<applied, zones, shadow, refaulted, kind, stats>>,
         kd'.own = "nemor" /\ kd'.on => kd.own = "nemor" /\ kd.on,
         kd'.own = "nemor" => sch' = sch,
         name = "configure" => kd' = kd,
         name = "off" => Fail \/ ~kd'.on,
         "decision" \in files => "decision" \in files',
         sess' >= sess,
         failed' = {} => failed = {}
  PROVE  Inv'
<1>1. /\ Control /\ Sound /\ HarnessType /\ DamosType /\ KernelType
  BY TypeParts DEF Inv, Sound
<1>2. sess \in Nat /\ sess' \in Nat
  BY <1>1 DEF KernelType
<1>3. Control'
  BY <1>1, <1>2, CalmControl
<1>4. name \notin UndoSet /\ name # "refault"
  BY DEF CalmNames, UndoSet
<1>5. /\ verdict' = verdict
      /\ \/ errors' = errors /\ unwinding' = unwinding
         \/ errors' = {"damos"} /\ unwinding' = TRUE
  BY <1>1, <1>4, FailOut DEF Goes
<1>6. HarnessType'
  <2>1. child' \in BOOLEAN
    BY <1>1 DEF HarnessType
  <2> QED BY <1>1, <1>5, <2>1, HarnessKept
<1>7. DamosType'
  BY <1>1 DEF DamosType
<1>8. TypeOK'
  BY <1>6, <1>7, TypePartsNext
<1>9. Sound'
  <2>1. verdict = "none" /\ verdict' = "none"
    BY <1>5 DEF Step
  <2>2. child' => child
    OBVIOUS
  <2> QED BY <1>1, <2>1, <2>2, SoundKept
<1> QED BY <1>3, <1>8, <1>9 DEF Inv, Sound

(* A step that only looks. *)
LEMMA LookInv ==
  ASSUME Inv, NEW name \in CalmNames \ {"off"}, Step(name), Goes \/ Fail,
         UNCHANGED <<kernel, process, flags, sess, child, acts>>, faults' = faults \/ Fault,
         UNCHANGED <<applied, zones, shadow, refaulted, kind, stats>>,
         (sch \in Schemes)', kd'.own = "nemor" => sch' = sch,
         failed' = {} => failed = {}
  PROVE  Inv'
<1>1. KernelType /\ ProcessType /\ HarnessType
  BY TypeParts DEF Inv
<1>2. /\ UNCHANGED <<kd, inst, readers, tgt, files, progress>>
  BY DEF kernel, process
<1>3. KernelType'
  BY <1>1, <1>2 DEF KernelType
<1>4. ProcessType'
  BY <1>1, <1>2 DEF ProcessType
<1>5. flags' \subseteq Flags
  BY <1>1 DEF HarnessType
<1>6. sess' >= sess
  BY <1>1 DEF KernelType
<1> QED BY <1>2, <1>3, <1>4, <1>5, <1>6, CalmInv

(* The scheme behind a step of the host. *)
LEMMA HostScheme ==
  ASSUME Inv, NEW name, Step(name), name # "slot",
         sch' = IF kd'.own = "nemor" /\ ~Step("slot") THEN sch ELSE NoScheme
  PROVE  (sch \in Schemes)' /\ (kd'.own = "nemor" => sch' = sch)
<1>1. ~Step("slot")
  BY DEF Step
<1>2. sch \in Schemes
  BY TypeParts DEF Inv
<1>3. sch' \in Schemes
  BY <1>2, NoSchemeType
<1>4. (sch \in Schemes)'
  BY <1>3 DEF Schemes
<1> QED BY <1>1, <1>4

(* Require and Judge, at such a step. *)
LEMMA RequireInv ==
  ASSUME Inv, NEW name \in CalmNames \ {"off"}, Step(name), NEW condition \in BOOLEAN,
      Require(condition),
         UNCHANGED <<applied, zones, shadow, refaulted, kind, stats>>,
         (sch \in Schemes)', kd'.own = "nemor" => sch' = sch
  PROVE  Inv'
<1>1. Goes \/ Fail
  BY DEF Require, Smooth, report, Goes
<1>2. failed' = {} => failed = {}
  BY DEF Require, Smooth, report, Fail
<1>3. UNCHANGED <<kernel, process, flags, sess, child, acts>> /\ faults' = faults
  BY DEF Require, Untouched
<1> QED BY <1>1, <1>2, <1>3, LookInv

(* The same for a step whose outcome is open. *)
LEMMA JudgeInv ==
  ASSUME Inv, NEW name \in CalmNames \ {"off"}, Step(name), Judge,
         UNCHANGED <<applied, zones, shadow, refaulted, kind, stats>>,
         (sch \in Schemes)', kd'.own = "nemor" => sch' = sch
  PROVE  Inv'
<1>1. Goes \/ Fail
  BY DEF Judge, Smooth, report, Goes
<1>2. failed' = {} => failed = {}
  BY DEF Judge, Smooth, report, Fail
<1>3. UNCHANGED <<kernel, process, flags, sess, child, acts>> /\ (faults' = faults \/ Fault)
  BY DEF Judge, Untouched
<1> QED BY <1>1, <1>2, <1>3, LookInv

-----------------------------------------------------------------------------
(* The steps of DamonHost *)

HostFrame ==
    /\ sch' = IF kd'.own = "nemor" /\ ~Step("slot") THEN sch ELSE NoScheme
    /\ UNCHANGED <<kind, refaulted, applied, zones, stats, shadow>>

(* Steps that look at the world. *)
LEMMA HostLooks ==
  ASSUME Inv, HostFrame, CheckNoSlot \/ AwaitStarted \/ ReadProgress \/ JudgeStep
  PROVE  Inv'
<1>1. UNCHANGED <<applied, zones, shadow, refaulted, kind, stats>>
  BY DEF HostFrame
<1>2. CASE CheckNoSlot
  <2>1. Step("nr_zero") /\ Require(kd.own = "none") /\ "nr_zero" \in CalmNames \ {"off"}
    BY <1>2 DEF CheckNoSlot, CalmNames
  <2>2. (sch \in Schemes)' /\ (kd'.own = "nemor" => sch' = sch)
    BY <2>1, HostScheme DEF HostFrame
  <2> QED BY <1>1, <2>1, <2>2, RequireInv
<1>3. CASE AwaitStarted
  <2>1. Step("started") /\ Require(kd.on) /\ "started" \in CalmNames \ {"off"}
    BY <1>3 DEF AwaitStarted, CalmNames
  <2>2. (sch \in Schemes)' /\ (kd'.own = "nemor" => sch' = sch)
    BY <2>1, HostScheme DEF HostFrame
  <2>3. kd.on \in BOOLEAN
    BY TypeParts DEF Inv, KernelType, Slots
  <2> QED BY <1>1, <2>1, <2>2, <2>3, RequireInv
<1>4. CASE ReadProgress
  <2>1. Step("progress") /\ Require(progress # "none") /\ "progress" \in CalmNames \ {"off"}
    BY <1>4 DEF ReadProgress, CalmNames
  <2>2. (sch \in Schemes)' /\ (kd'.own = "nemor" => sch' = sch)
    BY <2>1, HostScheme DEF HostFrame
  <2> QED BY <1>1, <2>1, <2>2, RequireInv
<1>5. CASE JudgeStep
  <2>1. Step("judge") /\ Judge /\ "judge" \in CalmNames \ {"off"}
    BY <1>5 DEF JudgeStep, CalmNames
  <2>2. (sch \in Schemes)' /\ (kd'.own = "nemor" => sch' = sch)
    BY <2>1, HostScheme DEF HostFrame
  <2> QED BY <1>1, <2>1, <2>2, JudgeInv
<1> QED BY <1>2, <1>3, <1>4, <1>5

(* The outcomes of a write. *)
LEMMA WriteOut ==
  ASSUME NEW write, WriteReadback(write)
  PROVE  /\ Step(write) /\ (Goes \/ Fail) /\ (failed' = {} => failed = {})
         /\ kd' = kd \/ (kd' = SlotAfter(write) /\ Takes(write))
         /\ Fail \/ (Goes /\ Takes(write) /\ kd' = SlotAfter(write))
         /\ flags' = flags \/ flags' = FlagsAfter(write)
         /\ faults' = faults \/ Fault
         /\ UNCHANGED <<inst, readers, process, sess, child, acts>>
BY DEF WriteReadback, Smooth, report, Goes, Fail, Untouched

(* The flags stay flags. *)
LEMMA FlagsType ==
  ASSUME NEW write \in Writes, flags \subseteq Flags
  PROVE  FlagsAfter(write) \subseteq Flags
<1>1. FlagOf(write) \in {"slot", "on", "event", "tracing", "none"}
  BY DEF FlagOf, Writes
<1> QED BY <1>1 DEF FlagsAfter, Flags

(* Writes that do not start anything. *)
LEMMA CalmWrite ==
  ASSUME Inv, HostFrame, NEW write \in {"clock", "event_on", "tracing_on", "configure", "off"},
         WriteReadback(write)
  PROVE  Inv'
<1>1. write \in CalmNames /\ write \in Writes /\ write # "slot"
  BY DEF CalmNames, Writes
<1>2. /\ Step(write) /\ (Goes \/ Fail) /\ (failed' = {} => failed = {})
      /\ kd' = kd \/ kd' = SlotAfter(write)
      /\ flags' = flags \/ flags' = FlagsAfter(write)
      /\ faults' = faults \/ Fault
      /\ UNCHANGED <<inst, readers, process, sess, child, acts>>
  BY WriteOut
<1>3. KernelType /\ ProcessType /\ HarnessType
  BY TypeParts DEF Inv
<1>4. kd \in Slots
  BY <1>3 DEF KernelType
<1>5. SlotAfter(write) = kd \/ (write = "off" /\ SlotAfter(write) = [kd EXCEPT !.on = FALSE])
  BY DEF SlotAfter
<1>6. /\ kd' \in Slots
      /\ kd'.own = "nemor" /\ kd'.on => kd.own = "nemor" /\ kd.on
      /\ write = "configure" => kd' = kd
  BY <1>2, <1>4, <1>5 DEF Slots
<1>7. KernelType'
  BY <1>2, <1>3, <1>6 DEF KernelType
<1>8. ProcessType' /\ ("decision" \in files => "decision" \in files')
  BY <1>2, <1>3 DEF ProcessType, process
<1>9. flags' \subseteq Flags
  BY <1>1, <1>2, <1>3, FlagsType DEF HarnessType
<1>10. sess' >= sess
  BY <1>2, <1>3 DEF KernelType
<1>11. (sch \in Schemes)' /\ (kd'.own = "nemor" => sch' = sch)
  BY <1>1, <1>2, HostScheme DEF HostFrame
<1>12. UNCHANGED <<applied, zones, shadow, refaulted, kind, stats>> /\ child' = child /\ acts' =
           acts
  BY <1>2 DEF HostFrame
<1>13. write = "off" => Fail \/ ~kd'.on
  <2>1. Fail \/ kd' = SlotAfter(write)
    BY WriteOut
  <2>2. write = "off" => SlotAfter(write).on = FALSE
    BY <1>4 DEF SlotAfter, Slots
  <2> QED BY <2>1, <2>2
<1> QED BY <1>1, <1>2, <1>6, <1>7, <1>8, <1>9, <1>10, <1>11, <1>12, <1>13, CalmInv

(* Writes of the DAMON validation only. *)
LEMMA NoWrite ==
  ASSUME Inv, NEW write \in {"on_self", "tracing_off", "event_off"}, Step(write)
  PROVE  FALSE
<1>1. write \notin UndoSet /\ write \notin {"refault", "await_refault"}
  BY DEF UndoSet
<1>2. PICK k \in 1 .. 67 : Plan[k] = write
  BY <1>1, OnPlan DEF Inv
<1>3. k \in 1 .. 69
  OBVIOUS
<1> QED BY <1>2, <1>3, Where

(* What a step at a known place has to show. *)
LEMMA PlanInv ==
  ASSUME Inv, NEW k \in 1 .. 67, At(k), Tail(todo) = From(k + 1), Goes \/ Fail,
         Fail \/ (Scheme(k + 1)' /\ Established(k + 1)'),
         kind' = kind, KernelType', ProcessType', DamosType', (sch \in Schemes)',
         flags' \subseteq Flags, child' \in BOOLEAN, acts' = acts, faults' = faults \/ Fault,
         verdict' = verdict => Sound'
  PROVE  Inv'
<1>1. HarnessType
  BY TypeParts DEF Inv
<1>2. CASE Fail
  <2>1. Undoing(1)' /\ errors' = {"damos"} /\ verdict' = verdict
    BY <1>2, FailAt DEF At
  <2>2. unwinding' = TRUE
    BY <1>2 DEF Fail
  <2>3. Control'
    BY <2>1 DEF Control
  <2>4. HarnessType'
    BY <1>1, <2>1, <2>2, HarnessKept
  <2> QED BY <2>1, <2>3, <2>4, TypePartsNext DEF Inv, Sound
<1>3. CASE Goes /\ ~Fail
  <2>1. k \in 1 .. 69
    OBVIOUS
  <2>2. Control'
    BY <1>3, <2>1, Onward DEF Goes
  <2>3. HarnessType'
    BY <1>1, <1>3, HarnessKept DEF Goes
  <2> QED BY <1>3, <2>2, <2>3, TypePartsNext DEF Inv, Sound, Goes
<1> QED BY <1>2, <1>3

(* Slots as they are written. *)
LEMMA SlotTypes ==
    /\ [own |-> "nemor", on |-> FALSE, watch |-> "none"] \in Slots
    /\ [own |-> "nemor", on |-> TRUE, watch |-> "target"] \in Slots
    /\ [own |-> "nemor", on |-> FALSE, watch |-> "none"].on = FALSE
    /\ [own |-> "nemor", on |-> TRUE, watch |-> "target"].own = "nemor"
    /\ NoSlot \in Slots /\ NoSlot.own = "none"
BY DEF Slots, NoSlot

(* A new slot has no scheme and is off. *)
LEMMA SlotInv ==
  ASSUME Inv, HostFrame, WriteReadback("slot")
  PROVE  Inv'
<1>1. /\ Step("slot") /\ (Goes \/ Fail)
      /\ kd' = kd \/ kd' = SlotAfter("slot")
      /\ Fail \/ kd' = SlotAfter("slot")
      /\ flags' = flags \/ flags' = FlagsAfter("slot")
      /\ faults' = faults \/ Fault
      /\ UNCHANGED <<inst, readers, process, sess, child, acts>>
  BY WriteOut
<1>2. "slot" \notin UndoSet /\ "slot" \notin {"refault", "await_refault"} /\ "slot" \in Writes
  BY DEF UndoSet, Writes
<1>3. PICK k \in 1 .. 67 : At(k) /\ Plan[k] = "slot" /\ Tail(todo) = From(k + 1)
  BY <1>1, <1>2, OnPlan DEF Inv
<1>4. k \in {18, 46}
  <2>1. k \in 1 .. 69
    OBVIOUS
  <2>2. Plan[k] = "slot" => k \in {18, 46}
    BY <2>1, Where, ZenonT(30)
  <2> QED BY <1>3, <2>2
<1>5. KernelType /\ ProcessType /\ HarnessType /\ DamosType
  BY TypeParts DEF Inv
<1>6. SlotAfter("slot") = [own |-> "nemor", on |-> FALSE, watch |-> "none"]
  BY DEF SlotAfter, NoSlot
<1>7. kd' \in Slots /\ ~(kd'.own = "nemor" /\ kd'.on)
  <2>1. ~(kd.own = "nemor" /\ kd.on)
    BY <1>3, <1>4 DEF At, Established
  <2>2. kd \in Slots
    BY <1>5 DEF KernelType
  <2>3. SlotAfter("slot") \in Slots /\ ~SlotAfter("slot").on
    BY <1>6, SlotTypes
  <2> QED BY <1>1, <2>1, <2>2, <2>3
<1>8. sch' = NoScheme
  BY <1>1 DEF HostFrame
<1>9. (sch \in Schemes)'
  BY <1>8, NoSchemeType DEF Schemes
<1>10. KernelType'
  BY <1>1, <1>5, <1>7 DEF KernelType
<1>11. ProcessType' /\ files' = files
  BY <1>1, <1>5 DEF ProcessType, process
<1>12. DamosType'
  BY <1>5 DEF DamosType, HostFrame
<1>13. flags' \subseteq Flags
  BY <1>1, <1>2, <1>5, FlagsType DEF HarnessType
<1>14. Fail \/ (Scheme(k + 1)' /\ Established(k + 1)')
  <2>1. SUFFICES ASSUME ~Fail
                 PROVE  Scheme(k + 1)' /\ Established(k + 1)'
    OBVIOUS
  <2>2. kd'.own = "nemor" /\ ~kd'.on
    BY <1>1, <1>6, <2>1
  <2>3. Written("none", FALSE, FALSE, FALSE)'
    BY <1>8, <2>2 DEF Written, NoScheme
  <2>4. Scheme(k + 1)'
    <3>1. k + 1 \notin {21, 22, 23, 24, 49, 50, 51, 52}
      BY <1>4
    <3> QED BY <2>3, <3>1 DEF Scheme
  <2>5. Established(k)
    BY <1>3 DEF At
  <2>6. Established(k + 1)'
    BY <1>1, <1>4, <1>11, <2>2, <2>5 DEF Established, HostFrame
  <2> QED BY <2>4, <2>6
<1>15. verdict' = verdict => Sound'
  BY <1>1, <1>7, <1>11, SoundKept DEF Inv, Sound, HostFrame, Step
<1>16. child' \in BOOLEAN /\ acts' = acts /\ kind' = kind
  BY <1>1, <1>5 DEF HarnessType, HostFrame
<1> QED BY <1>1, <1>3, <1>9, <1>10, <1>11, <1>12, <1>13, <1>14, <1>15, <1>16, PlanInv

(* The kdamond starts with the scheme that was written. *)
LEMMA OnInv ==
  ASSUME Inv, HostFrame, WriteReadback("on")
  PROVE  Inv'
<1>1. /\ Step("on") /\ (Goes \/ Fail)
      /\ kd' = kd \/ kd' = SlotAfter("on")
      /\ flags' = flags \/ flags' = FlagsAfter("on")
      /\ faults' = faults \/ Fault
      /\ UNCHANGED <<inst, readers, process, sess, child, acts>>
  BY WriteOut
<1>2. "on" \notin UndoSet /\ "on" \notin {"refault", "await_refault"} /\ "on" \in Writes
  BY DEF UndoSet, Writes
<1>3. PICK k \in 1 .. 67 : At(k) /\ Plan[k] = "on" /\ Tail(todo) = From(k + 1)
  BY <1>1, <1>2, OnPlan DEF Inv
<1>4. k \in {24, 52}
  <2>1. k \in 1 .. 69
    OBVIOUS
  <2>2. Plan[k] = "on" => k \in {24, 52}
    BY <2>1, Where, ZenonT(30)
  <2> QED BY <1>3, <2>2
<1>5. KernelType /\ ProcessType /\ HarnessType /\ DamosType
  BY TypeParts DEF Inv
<1>6. kd \in Slots
  BY <1>5 DEF KernelType
<1>7. SlotAfter("on") = [own |-> kd.own, on |-> TRUE, watch |-> "target"]
  BY <1>6 DEF SlotAfter, Slots
<1>8. Scheme(k) /\ Established(k)
  BY <1>3 DEF At
<1>9. /\ k = 24 => Written("stat", TRUE, TRUE, FALSE)
      /\ k = 52 => Written("pageout", TRUE, TRUE, TRUE)
  BY <1>8 DEF Scheme
<1>10. kd.own = "nemor"
  BY <1>4, <1>9 DEF Written
<1>11. kd' \in Slots /\ kd'.own = "nemor"
  <2>1. SlotAfter("on") \in Slots /\ SlotAfter("on").own = "nemor"
    BY <1>7, <1>10, SlotTypes
  <2> QED BY <1>1, <1>6, <1>10, <2>1
<1>12. (sch \in Schemes)' /\ (kd'.own = "nemor" => sch' = sch)
  BY <1>1, HostScheme DEF HostFrame
<1>13. sch' = sch
  BY <1>11, <1>12
<1>14. KernelType'
  BY <1>1, <1>5, <1>11 DEF KernelType
<1>15. ProcessType' /\ files' = files
  BY <1>1, <1>5 DEF ProcessType, process
<1>16. DamosType'
  BY <1>5 DEF DamosType, HostFrame
<1>17. flags' \subseteq Flags
  BY <1>1, <1>2, <1>5, FlagsType DEF HarnessType
<1>18. k = 24 => sch.action = "stat"
  BY <1>9 DEF Written
<1>19. Scheme(k + 1)'
  <2>1. k + 1 \notin {19, 20, 21, 22, 23, 24, 47, 48, 49, 50, 51, 52}
    BY <1>4
  <2> QED BY <2>1 DEF Scheme
<1>20. Established(k + 1)'
  BY <1>1, <1>4, <1>8, <1>13, <1>15, <1>18 DEF Established, HostFrame
<1>21. Bounded'
  <2>1. CASE k = 24
    BY <1>13, <1>18, <2>1 DEF Bounded
  <2>2. CASE k = 52
    <3>1. sch = [action |-> "pageout", quota |-> TRUE, fence |-> TRUE, ceiling |-> TRUE,
                 shots |-> 0, spent |-> 0, tried |-> FALSE]
      BY <1>9, <2>2 DEF Written
    <3>2. applied = 0 /\ shadow /\ "decision" \in files /\ Ceiling < ResetTicks
      BY <1>8, <2>2 DEF Established
    <3>3. applied' = 0 /\ shadow' /\ "decision" \in files'
      BY <1>15, <3>2 DEF HostFrame
    <3>4. 0 <= Ceiling
      BY QuotaAssumption
    <3>5. /\ sch'.quota /\ sch'.fence /\ sch'.ceiling /\ sch'.shots = 0 /\ sch'.spent = 0
          /\ sch'.action = "pageout"
      BY <1>13, <3>1
    <3>6. Live'
      BY <3>2, <3>3, <3>4, <3>5 DEF Live
    <3> QED BY <3>5, <3>6 DEF Bounded
  <2> QED BY <1>4, <2>1, <2>2
<1>22. Ours' /\ Counted' /\ PageoutBounded'
  BY <1>1 DEF Inv, Ours, Counted, PageoutBounded, HostFrame
<1>23. verdict' = verdict => PassEarned'
  BY <1>1 DEF PassEarned, Step
<1>24. verdict' = verdict => Sound'
  BY <1>21, <1>22, <1>23 DEF Sound
<1>25. child' \in BOOLEAN /\ acts' = acts /\ kind' = kind
  BY <1>1, <1>5 DEF HarnessType, HostFrame
<1> QED BY <1>1, <1>3, <1>12, <1>14, <1>15, <1>16, <1>17, <1>19, <1>20, <1>24, <1>25, PlanInv

(* A session begins. *)
LEMMA GuardInv ==
  ASSUME Inv, HostFrame, NewGuard
  PROVE  Inv'
<1>1. /\ Step("guard") /\ sess' = sess + 1 /\ flags' = {} /\ Goes
      /\ UNCHANGED <<kernel, process, child, faults, acts, failed>>
  BY DEF NewGuard, Smooth, report, Goes
<1>2. "guard" \notin UndoSet /\ "guard" \notin {"refault", "await_refault"}
  BY DEF UndoSet
<1>3. PICK k \in 1 .. 67 : At(k) /\ Plan[k] = "guard" /\ Tail(todo) = From(k + 1)
  BY <1>1, <1>2, OnPlan DEF Inv
<1>4. k \in {12, 40}
  <2>1. k \in 1 .. 69
    OBVIOUS
  <2>2. Plan[k] = "guard" => k \in {12, 40}
    BY <2>1, Where, ZenonT(30)
  <2> QED BY <1>3, <2>2
<1>5. KernelType /\ ProcessType /\ HarnessType /\ DamosType
  BY TypeParts DEF Inv
<1>6. UNCHANGED <<kd, inst, readers, tgt, files, progress>>
  BY <1>1 DEF kernel, process
<1>7. (sch \in Schemes)' /\ (kd'.own = "nemor" => sch' = sch)
  BY <1>1, HostScheme DEF HostFrame
<1>8. KernelType' /\ sess' > 0
  <2>1. sess \in Nat
    BY <1>5 DEF KernelType
  <2>2. 1 .. sess \subseteq 1 .. sess + 1
    BY <2>1
  <2>3. sess' \in Nat /\ sess' > 0
    BY <1>1, <2>1
  <2> QED BY <1>1, <1>5, <1>6, <2>2, <2>3 DEF KernelType
<1>9. ProcessType'
  BY <1>5, <1>6 DEF ProcessType
<1>10. DamosType'
  BY <1>5 DEF DamosType, HostFrame
<1>11. Scheme(k + 1)'
  <2>1. k + 1 \notin {19, 20, 21, 22, 23, 24, 47, 48, 49, 50, 51, 52}
    BY <1>4
  <2> QED BY <2>1 DEF Scheme
<1>12. Established(k + 1)'
  <2>1. Established(k)
    BY <1>3 DEF At
  <2> QED BY <1>1, <1>4, <1>6, <1>7, <1>8, <2>1 DEF Established, HostFrame
<1>13. verdict' = verdict => Sound'
  BY <1>1, <1>6, <1>7, SoundKept DEF Inv, Sound, HostFrame, Step
<1>14. child' \in BOOLEAN /\ acts' = acts /\ kind' = kind /\ flags' \subseteq Flags /\ faults' =
           faults
  BY <1>1, <1>5 DEF HarnessType, HostFrame
<1> QED BY <1>1, <1>3, <1>7, <1>8, <1>9, <1>10, <1>11, <1>12, <1>13, <1>14, PlanInv

(* After the guard there is a session. *)
LEMMA InSession ==
  ASSUME Inv, NEW name \in {"mkdir", "capture"}, Step(name)
  PROVE  sess > 0
<1>1. name \notin UndoSet /\ name \notin {"refault", "await_refault"}
  BY DEF UndoSet
<1>2. PICK k \in 1 .. 67 : At(k) /\ Plan[k] = name
  BY <1>1, OnPlan DEF Inv
<1>3. k \in {13, 41, 17, 45}
  <2>1. k \in 1 .. 69
    OBVIOUS
  <2> QED BY <1>2, <2>1, Where
<1> QED BY <1>2, <1>3 DEF At, Established

(* The trace instance and its reader. *)
LEMMA TraceInv ==
  ASSUME Inv, HostFrame, MakeInstance \/ StartCapture \/ DrainCapture
  PROVE  Inv'
<1>1. KernelType /\ ProcessType /\ HarnessType
  BY TypeParts DEF Inv
<1>2. PICK name \in {"mkdir", "capture", "drain"} :
         /\ Step(name) /\ (Goes \/ Fail) /\ (failed' = {} => failed = {})
         /\ faults' = faults \/ Fault
         /\ UNCHANGED <<kd, process, sess, child, acts>>
         /\ flags' = flags \/ flags' = flags \union {"instance"}
         /\ inst' = inst \/ (name = "mkdir" /\ inst' = inst \union {sess})
         /\ \/ readers' \subseteq readers
            \/ name = "capture" /\ readers' = readers \union {sess}
  <2>1. CASE MakeInstance
    BY <2>1 DEF MakeInstance, Smooth, report, Goes, Fail, Untouched
  <2>2. CASE StartCapture
    BY <2>2 DEF StartCapture, Smooth, report, Goes, Fail, Untouched
  <2>3. CASE DrainCapture
    BY <2>3 DEF DrainCapture, Smooth, report, Goes, Fail, Untouched
  <2> QED BY <2>1, <2>2, <2>3
<1>3. name \in CalmNames /\ name \notin {"slot", "off", "configure"}
  BY DEF CalmNames
<1>4. (sch \in Schemes)' /\ (kd'.own = "nemor" => sch' = sch)
  BY <1>2, <1>3, HostScheme DEF HostFrame
<1>5. name \in {"mkdir", "capture"} => sess \in 1 .. sess
  BY <1>1, <1>2, InSession DEF KernelType
<1>6. KernelType' /\ sess' >= sess
  <2>1. kd \in Slots /\ sess \in Nat
    BY <1>1 DEF KernelType
  <2>2. inst \subseteq 1 .. sess /\ readers \subseteq 1 .. sess
    BY <1>1 DEF KernelType
  <2>3. inst' \subseteq 1 .. sess /\ readers' \subseteq 1 .. sess
    BY <1>2, <1>5, <2>2
  <2>4. sess' = sess /\ kd' = kd
    BY <1>2
  <2>5. sess' >= sess
    BY <2>1, <2>4
  <2> QED BY <2>1, <2>3, <2>4, <2>5 DEF KernelType
<1>7. ProcessType' /\ ("decision" \in files => "decision" \in files')
  BY <1>1, <1>2 DEF ProcessType, process
<1>8. flags' \subseteq Flags
  BY <1>1, <1>2 DEF HarnessType, Flags
<1>9. UNCHANGED <<applied, zones, shadow, refaulted, kind, stats>> /\ kd' = kd
  BY <1>2 DEF HostFrame
<1>10. child' = child /\ acts' = acts
  BY <1>2
<1> QED BY <1>2, <1>3, <1>4, <1>6, <1>7, <1>8, <1>9, <1>10, CalmInv

(* The next step of the undoing. *)
LEMMA UndoOn ==
  ASSUME NEW j \in 1 .. 9, Undoing(j), todo' = Rest(j + 1), errors' = errors,
         unwinding' = unwinding \/ j = 8
  PROVE  Control'
<1>1. j + 1 \in 1 .. 10 /\ (j + 1 < 9 => j < 9 /\ j # 8)
  OBVIOUS
<1>2. errors' # {} /\ (j + 1 < 9 => unwinding')
  BY <1>1 DEF Undoing
<1>3. Rest(j + 1)' = Rest(j + 1)
  BY DEF Rest, Undo
<1>4. Undoing(j + 1)'
  BY <1>2, <1>3 DEF Undoing
<1> QED BY <1>1, <1>4 DEF Control

(* A destructor runs in the program or in the undoing. *)
LEMMA OnPlanOrUndo ==
  ASSUME Control, NEW name, Step(name), name \notin {"refault", "await_refault"}
  PROVE  \/ \E k \in 1 .. 69 : At(k) /\ Plan[k] = name /\ Tail(todo) = From(k + 1)
         \/ \E j \in 1 .. 9 : Undoing(j) /\ Undo[j] = name /\ Tail(todo) = Rest(j + 1)
<1>1. CASE \E k \in 1 .. 70 : At(k)
  <2>1. PICK k \in 1 .. 70 : At(k)
    BY <1>1
  <2>2. k \in 1 .. 69 /\ Plan[k] = name /\ Tail(todo) = From(k + 1)
    BY <2>1, StepAt DEF At
  <2> QED BY <2>1, <2>2
<1>2. CASE Asking
  BY <1>2, StepAsk DEF Asking
<1>3. CASE \E j \in 1 .. 10 : Undoing(j)
  <2>1. PICK j \in 1 .. 10 : Undoing(j)
    BY <1>3
  <2>2. j \in 1 .. 9 /\ Undo[j] = name /\ Tail(todo) = Rest(j + 1)
    BY <2>1, StepUndo DEF Undoing
  <2> QED BY <2>1, <2>2
<1> QED BY <1>1, <1>2, <1>3 DEF Control

ReleaseNames == {"rel_on", "rel_slot", "rel_tracing", "rel_event", "rel_instance"}

(* The outcomes of a release. *)
LEMMA ReleasedOut ==
  ASSUME NEW flag, NEW taken \in BOOLEAN, NEW slot, NEW instances,
         Released(flag, taken, slot, instances)
  PROVE  /\ (Goes /\ failed' = failed) \/ Fail
            \/ (unwinding /\ todo' = PastReleases /\ Smooth)
         /\ ~unwinding => Goes \/ Fail
         /\ unwinding => (Proceed /\ Smooth) \/ (todo' = PastReleases /\ Smooth)
         /\ kd' = kd \/ kd' = slot
         /\ inst' = inst \/ inst' = instances
         /\ flags' \subseteq flags /\ readers' = readers
         /\ faults' = faults \/ Fault
BY DEF Released, Smooth, report, Goes

(* Where the harness is after a release. *)
LEMMA ReleasedControl ==
  ASSUME Inv, NEW name \in ReleaseNames, Step(name),
         ~unwinding => Goes \/ Fail,
         unwinding => (Proceed /\ Smooth) \/ (todo' = PastReleases /\ Smooth),
         UNCHANGED <<applied, zones, shadow, refaulted, kind>>,
         kd'.own = "nemor" /\ kd'.on => kd.own = "nemor" /\ kd.on /\ sch' = sch,
         files' = files, sess' = sess,
         Fail \/ failed' = failed
  PROVE  /\ Control' /\ verdict' = verdict
         /\ \/ errors' = errors /\ unwinding' = unwinding
            \/ errors' = {"damos"} /\ unwinding' = TRUE
<1>1. name \notin {"refault", "await_refault"}
  BY DEF ReleaseNames
<1>2. CASE \E k \in 1 .. 69 : At(k) /\ Plan[k] = name /\ Tail(todo) = From(k + 1)
  <2>1. PICK k \in 1 .. 69 : At(k) /\ Plan[k] = name /\ Tail(todo) = From(k + 1)
    BY <1>2
  <2>2. k \in {29, 30, 31, 32, 33, 57, 58, 59, 60, 61}
    <3>1. /\ Plan[k] = "rel_on" => k \in {29, 57}
          /\ Plan[k] = "rel_slot" => k \in {30, 58}
          /\ Plan[k] = "rel_tracing" => k \in {31, 59}
          /\ Plan[k] = "rel_event" => k \in {32, 60}
          /\ Plan[k] = "rel_instance" => k \in {33, 61}
      BY Where, ZenonT(30)
    <3>2. Plan[k] \in ReleaseNames
      BY <2>1
    <3> QED BY <3>1, <3>2 DEF ReleaseNames
  <2>3. ~unwinding /\ errors = {}
    BY <2>1 DEF At
  <2>4. CASE Fail
    <3>1. k \in 1 .. 67
      BY <2>2
    <3>2. Undoing(1)' /\ errors' = {"damos"} /\ verdict' = verdict
      BY <2>1, <2>4, <3>1, FailAt DEF At
    <3>3. unwinding' = TRUE
      BY <2>4 DEF Fail
    <3> QED BY <3>2, <3>3 DEF Control
  <2>5. CASE Goes /\ ~Fail
    <3>1. k \in Calm /\ k \notin {19, 47} /\ k # 27
      BY <2>2 DEF Calm
    <3>2. sess \in Nat /\ sess' \in Nat /\ sess' >= sess
      BY TypeParts DEF Inv, KernelType
    <3>3. failed' = {} => failed = {}
      BY <2>5
    <3>4. Scheme(k) /\ Established(k)
      BY <2>1 DEF At
    <3>5. Scheme(k + 1)' /\ Established(k + 1)'
      BY <3>1, <3>2, <3>3, <3>4, CalmFacts
    <3> QED BY <2>1, <2>5, <3>5, Onward DEF Goes
  <2> QED BY <2>3, <2>4, <2>5
<1>3. CASE \E j \in 1 .. 9 : Undoing(j) /\ Undo[j] = name /\ Tail(todo) = Rest(j + 1)
  <2>1. PICK j \in 1 .. 9 : Undoing(j) /\ Undo[j] = name /\ Tail(todo) = Rest(j + 1)
    BY <1>3
  <2>2. j \in 2 .. 6
    BY <2>1, UndoSteps DEF ReleaseNames
  <2>3. unwinding /\ errors # {}
    BY <2>1, <2>2 DEF Undoing
  <2>4. Smooth
    BY <2>3
  <2>5. errors' = errors /\ unwinding' = unwinding /\ verdict' = verdict
    BY <2>4 DEF Smooth, report
  <2>6. CASE Proceed
    <3>1. todo' = Rest(j + 1)
      BY <2>1, <2>6 DEF Proceed
    <3> QED BY <2>1, <2>5, <3>1, UndoOn
  <2>7. CASE todo' = PastReleases
    <3>1. todo' = Rest(7)
      BY <2>1, <2>2, <2>7, PastUndo DEF Undoing
    <3>2. Rest(7)' = Rest(7)
      BY DEF Rest, Undo
    <3>3. Undoing(7)'
      BY <2>3, <2>5, <3>1, <3>2 DEF Undoing
    <3> QED BY <2>5, <3>3 DEF Control
  <2> QED BY <2>3, <2>6, <2>7
<1>4. Control
  BY DEF Inv
<1> QED BY <1>1, <1>2, <1>3, <1>4, OnPlanOrUndo

(* A release keeps the invariant. *)
LEMMA ReleasedInv ==
  ASSUME Inv, HostFrame, NEW name \in ReleaseNames, Step(name),
         NEW flag, NEW taken \in BOOLEAN, NEW slot \in Slots, NEW instances \in SUBSET inst,
         Released(flag, taken, slot, instances), Untouched, UNCHANGED <<process, acts>>,
         slot.own = "nemor" /\ slot.on => kd.own = "nemor" /\ kd.on
  PROVE  Inv'
<1>1. /\ ~unwinding => Goes \/ Fail
      /\ unwinding => (Proceed /\ Smooth) \/ (todo' = PastReleases /\ Smooth)
      /\ kd' = kd \/ kd' = slot
      /\ inst' = inst \/ inst' = instances
      /\ flags' \subseteq flags /\ readers' = readers
      /\ faults' = faults \/ Fault
  BY ReleasedOut
<1>2. Fail \/ failed' = failed
  BY ReleasedOut DEF Smooth, report
<1>3. KernelType /\ ProcessType /\ HarnessType /\ DamosType
  BY TypeParts DEF Inv
<1>4. UNCHANGED <<applied, zones, shadow, refaulted, kind, stats>>
  BY DEF HostFrame
<1>5. UNCHANGED <<sess, child, acts, tgt, files, progress>>
  BY DEF Untouched, process
<1>6. name # "slot"
  BY DEF ReleaseNames
<1>7. (sch \in Schemes)' /\ (kd'.own = "nemor" => sch' = sch)
  BY <1>6, HostScheme DEF HostFrame
<1>8. kd'.own = "nemor" /\ kd'.on => kd.own = "nemor" /\ kd.on /\ sch' = sch
  BY <1>1, <1>7
<1>9. /\ Control' /\ verdict' = verdict
      /\ \/ errors' = errors /\ unwinding' = unwinding
         \/ errors' = {"damos"} /\ unwinding' = TRUE
  BY <1>1, <1>2, <1>4, <1>5, <1>8, ReleasedControl
<1>10. KernelType'
  <2>1. kd' \in Slots
    BY <1>1, <1>3 DEF KernelType
  <2>2. inst' \subseteq 1 .. sess
    BY <1>1, <1>3 DEF KernelType
  <2> QED BY <1>1, <1>3, <1>5, <2>1, <2>2 DEF KernelType
<1>11. ProcessType'
  BY <1>3, <1>5 DEF ProcessType
<1>12. DamosType'
  BY <1>3, <1>4 DEF DamosType
<1>13. HarnessType'
  <2>1. flags' \subseteq Flags /\ child' \in BOOLEAN
    BY <1>1, <1>3, <1>5 DEF HarnessType
  <2> QED BY <1>1, <1>3, <1>5, <1>9, <2>1, HarnessKept
<1>14. Sound'
  <2>1. verdict = "none" /\ verdict' = "none"
    BY <1>9 DEF Step
  <2> QED BY <1>4, <1>5, <1>8, <2>1, SoundKept DEF Inv, Sound
<1> QED BY <1>7, <1>9, <1>10, <1>11, <1>12, <1>13, <1>14, TypePartsNext DEF Inv, Sound

(* Every release of the guard. *)
LEMMA CleanupInv ==
  ASSUME Inv, HostFrame, Cleanup
  PROVE  Inv'
<1>1. kd \in Slots
  BY TypeParts DEF Inv, KernelType
<1>2. Untouched /\ UNCHANGED <<process, acts>>
  BY DEF Cleanup
<1>3. CASE Step("rel_on") /\ Released("on", Takes("off"), SlotAfter("off"), inst)
  <2>1. Takes("off") = kd.on
    BY DEF Takes
  <2>2. SlotAfter("off") = [kd EXCEPT !.on = FALSE]
    BY DEF SlotAfter
  <2>3. [kd EXCEPT !.on = FALSE] \in Slots /\ ~[kd EXCEPT !.on = FALSE].on /\ kd.on \in BOOLEAN
    BY <1>1 DEF Slots
  <2>4. "rel_on" \in ReleaseNames /\ inst \in SUBSET inst
    BY DEF ReleaseNames
  <2>5. SlotAfter("off") \in Slots /\ ~SlotAfter("off").on /\ Takes("off") \in BOOLEAN
    BY <2>1, <2>2, <2>3
  <2> QED BY <1>2, <1>3, <2>4, <2>5, ReleasedInv
<1>4. CASE Step("rel_slot") /\ Released("slot", Takes("release"), SlotAfter("release"), inst)
  <2>1. Takes("release") \in BOOLEAN
    BY DEF Takes
  <2>2. SlotAfter("release") = NoSlot
    BY DEF SlotAfter
  <2>3. SlotAfter("release") \in Slots /\ SlotAfter("release").own # "nemor"
    BY <2>2, SlotTypes
  <2>4. "rel_slot" \in ReleaseNames /\ inst \in SUBSET inst
    BY DEF ReleaseNames
  <2> QED BY <1>2, <1>4, <2>1, <2>3, <2>4, ReleasedInv
<1>5. CASE Step("rel_tracing") /\ Released("tracing", TRUE, kd, inst)
  <2>1. "rel_tracing" \in ReleaseNames /\ inst \in SUBSET inst
    BY DEF ReleaseNames
  <2> QED BY <1>1, <1>2, <1>5, <2>1, ReleasedInv
<1>6. CASE Step("rel_event") /\ Released("event", TRUE, kd, inst)
  <2>1. "rel_event" \in ReleaseNames /\ inst \in SUBSET inst
    BY DEF ReleaseNames
  <2> QED BY <1>1, <1>2, <1>6, <2>1, ReleasedInv
<1>7. CASE /\ Step("rel_instance")
           /\ Released("instance", sess \notin readers, kd, inst \ {sess})
  <2>1. "rel_instance" \in ReleaseNames /\ inst \ {sess} \in SUBSET inst
    BY DEF ReleaseNames
  <2>2. (sess \notin readers) \in BOOLEAN
    OBVIOUS
  <2> QED BY <1>1, <1>2, <1>7, <2>1, <2>2, ReleasedInv
<1> QED BY <1>3, <1>4, <1>5, <1>6, <1>7 DEF Cleanup

(* The last destructors. *)
LEMMA DropInv ==
  ASSUME Inv, HostFrame, DetachCapture \/ KillChild
  PROVE  Inv'
<1>1. KernelType /\ ProcessType /\ HarnessType /\ DamosType /\ Control
  BY TypeParts DEF Inv
<1>2. PICK name \in {"detach", "kill"} :
         /\ Step(name) /\ Proceed /\ Smooth
         /\ UNCHANGED <<kernel, files, progress, sess, flags, faults, acts>>
         /\ child' = child \/ child' = FALSE
         /\ tgt' = tgt \/ tgt' = "none"
  <2>1. CASE DetachCapture
    BY <2>1 DEF DetachCapture, Untouched, process
  <2>2. CASE KillChild
    BY <2>2 DEF KillChild
  <2> QED BY <2>1, <2>2, Zenon
<1>3. UNCHANGED <<kd, inst, readers, errors, failed, verdict, unwinding>>
  BY <1>2 DEF kernel, Smooth, report
<1>4. Control'
  <2>1. name \notin {"refault", "await_refault"}
    OBVIOUS
  <2>2. \A k \in 1 .. 69 : Plan[k] # name
    BY Where
  <2>3. PICK j \in 1 .. 9 : Undoing(j) /\ Tail(todo) = Rest(j + 1)
    BY <1>1, <1>2, <2>1, <2>2, OnPlanOrUndo
  <2>4. todo' = Rest(j + 1)
    BY <1>2, <2>3 DEF Proceed
  <2> QED BY <1>3, <2>3, <2>4, UndoOn
<1>5. name # "slot"
  OBVIOUS
<1>6. (sch \in Schemes)' /\ (kd'.own = "nemor" => sch' = sch)
  BY <1>2, <1>5, HostScheme DEF HostFrame
<1>7. KernelType'
  BY <1>1, <1>2, <1>3 DEF KernelType
<1>8. ProcessType'
  BY <1>1, <1>2 DEF ProcessType, TargetStates
<1>9. HarnessType'
  <2>1. flags' \subseteq Flags /\ child' \in BOOLEAN
    BY <1>1, <1>2 DEF HarnessType
  <2> QED BY <1>1, <1>2, <1>3, <2>1, HarnessKept
<1>10. DamosType'
  BY <1>1 DEF DamosType, HostFrame
<1>11. Sound'
  <2>1. verdict = "none" /\ verdict' = "none"
    BY <1>2, <1>3 DEF Step
  <2>2. child' => child
    BY <1>2, Zenon
  <2>3. UNCHANGED <<applied, zones, kind, stats, shadow, files, kd>>
    BY <1>2, <1>3 DEF HostFrame
  <2> QED BY <1>6, <2>1, <2>2, <2>3, SoundKept DEF Inv, Sound
<1> QED BY <1>4, <1>6, <1>7, <1>8, <1>9, <1>10, <1>11, TypePartsNext DEF Inv, Sound

(* Every step of the host. *)
LEMMA HostStepInv ==
  ASSUME Inv, HostStep
  PROVE  Inv'
<1>1. Host /\ HostFrame
  BY DEF HostStep, HostFrame
<1>2. ASSUME NEW write \in Writes, WriteReadback(write)
      PROVE  Inv'
  <2>1. Step(write)
    BY <1>2 DEF WriteReadback
  <2>2. CASE write \in {"clock", "event_on", "tracing_on", "configure", "off"}
    BY <1>1, <1>2, <2>2, CalmWrite
  <2>3. CASE write = "slot"
    BY <1>1, <1>2, <2>3, SlotInv
  <2>4. CASE write = "on"
    BY <1>1, <1>2, <2>4, OnInv
  <2>5. CASE write \in {"on_self", "tracing_off", "event_off"}
    BY <2>1, <2>5, NoWrite
  <2> QED BY <2>2, <2>3, <2>4, <2>5 DEF Writes
<1> QED BY <1>1, <1>2, GuardInv, TraceInv, HostLooks, CleanupInv, DropInv DEF Host

-----------------------------------------------------------------------------
(* The steps of the DAMOS validation *)

(* The variables of this module, one by one. *)
LEMMA DamosKept ==
  ASSUME Inv, UNCHANGED damos
  PROVE  /\ UNCHANGED <<applied, zones, shadow, refaulted, kind, stats>> /\ sch' = sch
         /\ (sch \in Schemes)' /\ DamosType'
<1>1. UNCHANGED <<applied, zones, shadow, refaulted, kind, stats, sch>>
  BY DEF damos
<1>2. sch \in Schemes /\ DamosType
  BY TypeParts DEF Inv
<1>3. (sch \in Schemes)'
  BY <1>1, <1>2 DEF Schemes
<1>4. DamosType'
  BY <1>1, <1>2 DEF DamosType
<1> QED BY <1>1, <1>3, <1>4

(* Preflight and identity. *)
LEMMA PreflightInv ==
  ASSUME Inv, Capability \/ Identity
  PROVE  Inv'
<1>1. UNCHANGED damos
  BY DEF Capability, Identity
<1>2. UNCHANGED <<applied, zones, shadow, refaulted, kind, stats>> /\ sch' = sch /\
          (sch \in Schemes)'
  BY <1>1, DamosKept
<1>3. CASE Capability
  <2>1. Step("capability") /\ (Require(FALSE) \/ Judge)
    BY <1>3 DEF Capability
  <2>2. "capability" \in CalmNames \ {"off"} /\ FALSE \in BOOLEAN
    BY DEF CalmNames
  <2> QED BY <1>2, <2>1, <2>2, RequireInv, JudgeInv
<1>4. CASE Identity
  <2>1. Step("identity") /\ Require(tgt # "none") /\ (tgt # "none") \in BOOLEAN
    BY <1>4 DEF Identity
  <2>2. "identity" \in CalmNames \ {"off"}
    BY DEF CalmNames
  <2> QED BY <1>2, <2>1, <2>2, RequireInv
<1> QED BY <1>3, <1>4

(* Gates that are only recorded. *)
LEMMA GateInv ==
  ASSUME Inv, ColdGate \/ Cleaned
  PROVE  Inv'
<1>1. UNCHANGED damos
  BY DEF ColdGate, Cleaned
<1>2. UNCHANGED <<applied, zones, shadow, refaulted, kind, stats>> /\ sch' = sch /\
          (sch \in Schemes)'
  BY <1>1, DamosKept
<1>3. PICK name \in {"cold_gate", "cleaned"} :
         /\ Step(name) /\ Goes /\ (failed' = {} => failed = {})
         /\ UNCHANGED <<kernel, process, flags, sess, child, acts, faults>>
  <2>1. CASE ColdGate
    BY <2>1 DEF ColdGate, Assess, Goes, Untouched
  <2>2. CASE Cleaned
    BY <2>2 DEF Cleaned, Assess, Goes, Untouched
  <2> QED BY <2>1, <2>2
<1>4. name \in CalmNames \ {"off"}
  BY DEF CalmNames
<1> QED BY <1>2, <1>3, <1>4, LookInv

(* The target is started or taken over; commands of the calm places. *)
LEMMA TargetMoves ==
  ASSUME Inv, Spawn \/ Accept \/ (Signal /\ ~Step("refault"))
  PROVE  Inv'
<1>1. PICK name \in {"spawn", "accept", "start", "stop"} :
         /\ Step(name) /\ (Goes \/ Fail) /\ (failed' = {} => failed = {})
         /\ UNCHANGED <<kernel, progress, flags, sess, child, acts, damos>>
         /\ faults' = faults \/ Fault
         /\ tgt' = tgt \/ tgt' = "booting"
         /\ files' \in {files, files \union {"metadata"}, files \union {"start"},
                        files \union {"stop"}}
  <2>1. CASE Spawn
    BY <2>1 DEF Spawn, Smooth, report, Goes, Fail, Untouched
  <2>2. CASE Accept
    BY <2>2 DEF Accept, Smooth, report, Goes, Fail, Untouched
  <2>3. CASE Signal /\ ~Step("refault")
    <3>1. PICK name \in SignalFiles : Step(name) /\ files' = files \union {name}
      BY <2>3 DEF Signal
    <3>2. name \in {"start", "stop"}
      BY <2>3, <3>1 DEF SignalFiles
    <3> QED BY <2>3, <3>1, <3>2 DEF Signal, Smooth, report, Goes, Fail, Untouched
  <2> QED BY <2>1, <2>2, <2>3
<1>2. UNCHANGED <<applied, zones, shadow, refaulted, kind, stats>> /\ sch' = sch /\
          (sch \in Schemes)'
  BY <1>1, DamosKept
<1>3. KernelType /\ ProcessType /\ HarnessType
  BY TypeParts DEF Inv
<1>4. UNCHANGED <<kd, inst, readers>>
  BY <1>1 DEF kernel
<1>5. KernelType' /\ sess' >= sess
  BY <1>1, <1>3, <1>4 DEF KernelType
<1>6. ProcessType'
  BY <1>1, <1>3 DEF ProcessType, TargetStates, FileNames, SignalFiles
<1>7. "decision" \in files => "decision" \in files'
  BY <1>1
<1>8. flags' \subseteq Flags /\ child' = child /\ acts' = acts
  BY <1>1, <1>3 DEF HarnessType
<1>9. name \in CalmNames /\ name # "off" /\ name # "configure"
  BY DEF CalmNames
<1> QED BY <1>1, <1>2, <1>4, <1>5, <1>6, <1>7, <1>8, <1>9, CalmInv

(* A child of the harness is registered. *)
LEMMA AwaitInv ==
  ASSUME Inv, Await
  PROVE  Inv'
<1>1. /\ Step("await") /\ (Goes \/ Fail) /\ (failed' = {} => failed = {})
      /\ UNCHANGED <<kernel, files, progress, sess, flags, acts, damos>>
      /\ faults' = faults \/ Fault
      /\ tgt' = tgt \/ tgt' = "none"
      /\ child' = child \/ child' = TRUE
  BY DEF Await, Smooth, report, Goes, Fail
<1>2. UNCHANGED <<applied, zones, shadow, refaulted, kind, stats>> /\ sch' = sch
      /\ (sch \in Schemes)' /\ DamosType'
  BY <1>1, DamosKept
<1>3. KernelType /\ ProcessType /\ HarnessType
  BY TypeParts DEF Inv
<1>4. UNCHANGED <<kd, inst, readers>>
  BY <1>1 DEF kernel
<1>5. KernelType'
  BY <1>1, <1>3, <1>4 DEF KernelType
<1>6. ProcessType'
  BY <1>1, <1>3 DEF ProcessType, TargetStates
<1>7. "await" \notin UndoSet /\ "await" \notin {"refault", "await_refault"}
      /\ "await" \in CalmNames
  BY DEF UndoSet, CalmNames
<1>8. PICK k \in 1 .. 67 : At(k) /\ Plan[k] = "await" /\ Tail(todo) = From(k + 1)
  BY <1>1, <1>7, OnPlan DEF Inv
<1>9. k = 4 /\ kind = "internal"
  <2>1. k \in 1 .. 69
    OBVIOUS
  <2> QED BY <1>8, <2>1, Where
<1>10. Scheme(5)' /\ Established(5)'
  <2>1. 4 \in Calm /\ 4 + 1 = 5
    BY DEF Calm
  <2>2. Scheme(4) /\ Established(4)
    BY <1>8, <1>9 DEF At
  <2>3. sess \in Nat /\ sess' \in Nat /\ sess' >= sess
    BY <1>1, <1>3 DEF KernelType
  <2>4. Scheme(4 + 1)' /\ Established(4 + 1)'
    BY <1>1, <1>2, <1>4, <2>1, <2>2, <2>3, CalmFacts
  <2> QED BY <2>4
<1>11. flags' \subseteq Flags /\ child' \in BOOLEAN /\ acts' = acts
  BY <1>1, <1>3 DEF HarnessType
<1>12. verdict' = verdict => Sound'
  <2>1. Bounded' /\ Counted' /\ PageoutBounded'
    BY <1>1, <1>2, <1>4 DEF Inv, Bounded, Live, Counted, PageoutBounded, Step
  <2>2. Ours'
    BY <1>2, <1>9 DEF Ours
  <2>3. verdict' = verdict => PassEarned'
    BY <1>1 DEF PassEarned, Step
  <2> QED BY <2>1, <2>2, <2>3 DEF Sound
<1>13. k + 1 = 5
  BY <1>9
<1>14. kind' = kind
  BY <1>2
<1> QED BY <1>1, <1>2, <1>5, <1>6, <1>8, <1>10, <1>11, <1>12, <1>13, <1>14, PlanInv

(* The bounds of the attempt are validated before a session. *)
LEMMA BoundsInv ==
  ASSUME Inv, Bounds
  PROVE  Inv'
<1>1. /\ Step("bounds") /\ (Goes \/ Fail) /\ failed' = failed
      /\ Fail \/ (Deadline < ResetTicks /\ Ceiling <= Deadline)
      /\ UNCHANGED <<kernel, process, flags, sess, child, acts, faults, damos>>
  BY DEF Bounds, Require, Smooth, report, Goes, Fail, Untouched
<1>2. UNCHANGED <<applied, zones, shadow, refaulted, kind, stats>> /\ sch' = sch
      /\ (sch \in Schemes)' /\ DamosType'
  BY <1>1, DamosKept
<1>3. KernelType /\ ProcessType /\ HarnessType
  BY TypeParts DEF Inv
<1>4. UNCHANGED <<kd, inst, readers, tgt, files, progress>>
  BY <1>1 DEF kernel, process
<1>5. KernelType'
  BY <1>1, <1>3, <1>4 DEF KernelType
<1>6. ProcessType'
  BY <1>1, <1>3, <1>4 DEF ProcessType
<1>7. "bounds" \notin UndoSet /\ "bounds" \notin {"refault", "await_refault"}
  BY DEF UndoSet
<1>8. PICK k \in 1 .. 67 : At(k) /\ Plan[k] = "bounds" /\ Tail(todo) = From(k + 1)
  BY <1>1, <1>7, OnPlan DEF Inv
<1>9. k = 10
  <2>1. k \in 1 .. 69
    OBVIOUS
  <2> QED BY <1>8, <2>1, Where
<1>10. Fail \/ (Scheme(k + 1)' /\ Established(k + 1)')
  <2>1. SUFFICES ASSUME ~Fail
                 PROVE  Scheme(k + 1)' /\ Established(k + 1)'
    OBVIOUS
  <2>2. Ceiling < ResetTicks
    BY <1>1, <2>1, QuotaAssumption
  <2>3. k + 1 = 11
    BY <1>9
  <2>4. Established(10)
    BY <1>8, <1>9 DEF At
  <2>5. Scheme(k + 1)'
    <3>1. k + 1 \notin {19, 20, 21, 22, 23, 24, 47, 48, 49, 50, 51, 52}
      BY <2>3
    <3> QED BY <3>1 DEF Scheme
  <2>6. Established(k + 1)'
    BY <1>2, <1>4, <2>2, <2>3, <2>4 DEF Established
  <2> QED BY <2>5, <2>6
<1>11. flags' \subseteq Flags /\ child' \in BOOLEAN /\ acts' = acts /\ faults' = faults
  BY <1>1, <1>3 DEF HarnessType
<1>12. verdict' = verdict => Sound'
  BY <1>1, <1>2, <1>4, SoundKept DEF Inv, Sound, Step
<1>13. kind' = kind
  BY <1>2
<1> QED BY <1>1, <1>2, <1>5, <1>6, <1>8, <1>10, <1>11, <1>12, <1>13, PlanInv

(* One field of the scheme is written. *)
LEMMA WriteField ==
  ASSUME NEW a, NEW q, NEW f, NEW c, Written(a, q, f, c), kd' = kd
  PROVE  /\ \A b : sch' = [sch EXCEPT !.action = b] => Written(b, q, f, c)'
         /\ sch' = [sch EXCEPT !.quota = TRUE] => Written(a, TRUE, f, c)'
         /\ sch' = [sch EXCEPT !.fence = TRUE] => Written(a, q, TRUE, c)'
         /\ sch' = [sch EXCEPT !.ceiling = TRUE] => Written(a, q, f, TRUE)'
BY DEF Written

(* The scheme stays a scheme. *)
LEMMA SchemeType ==
  ASSUME NEW write \in {"act_stat", "act_pageout", "quota", "fence", "ceiling"}, sch \in Schemes
  PROVE  SchemeAfter(write) \in Schemes
<1>1. CASE write = "act_stat"
  BY <1>1 DEF SchemeAfter, Schemes
<1>2. CASE write = "act_pageout"
  BY <1>2 DEF SchemeAfter, Schemes
<1>3. CASE write = "quota"
  BY <1>3 DEF SchemeAfter, Schemes
<1>4. CASE write = "fence"
  BY <1>4 DEF SchemeAfter, Schemes
<1>5. CASE write = "ceiling"
  BY <1>5 DEF SchemeAfter, Schemes
<1> QED BY <1>1, <1>2, <1>3, <1>4, <1>5

(* The scheme at the next place. *)
LEMMA NextScheme ==
  ASSUME NEW k \in {20, 21, 22, 23, 48, 49, 50, 51}, Scheme(k), kd' = kd,
         k \in {20, 48} => sch' = SchemeAfter("act_pageout"),
         k = 21 => sch' = SchemeAfter("act_stat"),
         k \in {22, 49} => sch' = SchemeAfter("quota"),
         k \in {23, 50} => sch' = SchemeAfter("fence"),
         k = 51 => sch' = SchemeAfter("ceiling")
  PROVE  Scheme(k + 1)'
<1>1. k \in {20, 48} => Written("pageout", FALSE, FALSE, FALSE)'
  <2>1. k \in {20, 48} => Written("none", FALSE, FALSE, FALSE)
    BY DEF Scheme
  <2> QED BY <2>1, WriteField DEF SchemeAfter
<1>2. k = 21 => Written("stat", FALSE, FALSE, FALSE)'
  <2>1. k = 21 => Written("pageout", FALSE, FALSE, FALSE)
    BY DEF Scheme
  <2> QED BY <2>1, WriteField DEF SchemeAfter
<1>3. k = 22 => Written("stat", TRUE, FALSE, FALSE)'
  <2>1. k = 22 => Written("stat", FALSE, FALSE, FALSE)
    BY DEF Scheme
  <2> QED BY <2>1, WriteField DEF SchemeAfter
<1>4. k = 23 => Written("stat", TRUE, TRUE, FALSE)'
  <2>1. k = 23 => Written("stat", TRUE, FALSE, FALSE)
    BY DEF Scheme
  <2> QED BY <2>1, WriteField DEF SchemeAfter
<1>5. k = 49 => Written("pageout", TRUE, FALSE, FALSE)'
  <2>1. k = 49 => Written("pageout", FALSE, FALSE, FALSE)
    BY DEF Scheme
  <2> QED BY <2>1, WriteField DEF SchemeAfter
<1>6. k = 50 => Written("pageout", TRUE, TRUE, FALSE)'
  <2>1. k = 50 => Written("pageout", TRUE, FALSE, FALSE)
    BY DEF Scheme
  <2> QED BY <2>1, WriteField DEF SchemeAfter
<1>7. k = 51 => Written("pageout", TRUE, TRUE, TRUE)'
  <2>1. k = 51 => Written("pageout", TRUE, TRUE, FALSE)
    BY DEF Scheme
  <2> QED BY <2>1, WriteField DEF SchemeAfter
<1>8. /\ k + 1 \notin {19, 20, 47, 48}
      /\ k + 1 \in {21, 49} => k \in {20, 48}
      /\ (k + 1 = 22 => k = 21) /\ (k + 1 = 23 => k = 22) /\ (k + 1 = 24 => k = 23)
      /\ (k + 1 = 50 => k = 49) /\ (k + 1 = 51 => k = 50) /\ (k + 1 = 52 => k = 51)
  OBVIOUS
<1>9. /\ k + 1 \in {19, 20, 47, 48} => Written("none", FALSE, FALSE, FALSE)'
      /\ k + 1 \in {21, 49} => Written("pageout", FALSE, FALSE, FALSE)'
  BY <1>1, <1>8
<1>10. /\ k + 1 = 22 => Written("stat", FALSE, FALSE, FALSE)'
       /\ k + 1 = 23 => Written("stat", TRUE, FALSE, FALSE)'
       /\ k + 1 = 24 => Written("stat", TRUE, TRUE, FALSE)'
  BY <1>2, <1>3, <1>4, <1>8
<1>11. /\ k + 1 = 50 => Written("pageout", TRUE, FALSE, FALSE)'
       /\ k + 1 = 51 => Written("pageout", TRUE, TRUE, FALSE)'
       /\ k + 1 = 52 => Written("pageout", TRUE, TRUE, TRUE)'
  BY <1>5, <1>6, <1>7, <1>8
<1> QED BY <1>9, <1>10, <1>11, ZenonT(30) DEF Scheme

(* The scheme is written into a kdamond that is off. *)
LEMMA WriteSchemeInv ==
  ASSUME Inv, WriteScheme
  PROVE  Inv'
<1>1. PICK write \in {"act_stat", "act_pageout", "quota", "fence", "ceiling"} :
         /\ Step(write) /\ (Goes \/ Fail) /\ failed' = failed
         /\ Fail \/ sch' = SchemeAfter(write)
         /\ sch' = sch \/ sch' = SchemeAfter(write)
         /\ faults' = faults \/ Fault
         /\ UNCHANGED <<kernel, process, flags, sess, child, acts>>
         /\ UNCHANGED <<kind, refaulted, applied, zones, stats, shadow>>
  BY DEF WriteScheme, Smooth, report, Goes, Fail, Untouched
<1>2. KernelType /\ ProcessType /\ HarnessType /\ DamosType /\ sch \in Schemes
  BY TypeParts DEF Inv
<1>3. UNCHANGED <<kd, inst, readers, tgt, files, progress>>
  BY <1>1 DEF kernel, process
<1>4. (sch \in Schemes)'
  <2>1. sch' \in Schemes
    BY <1>1, <1>2, SchemeType
  <2> QED BY <2>1 DEF Schemes
<1>5. KernelType'
  BY <1>1, <1>2, <1>3 DEF KernelType
<1>6. ProcessType'
  BY <1>2, <1>3 DEF ProcessType
<1>7. DamosType'
  BY <1>1, <1>2 DEF DamosType
<1>8. write \notin UndoSet /\ write \notin {"refault", "await_refault"}
  BY DEF UndoSet
<1>9. PICK k \in 1 .. 67 : At(k) /\ Plan[k] = write /\ Tail(todo) = From(k + 1)
  BY <1>1, <1>8, OnPlan DEF Inv
<1>10. k \in {20, 21, 22, 23, 48, 49, 50, 51}
  <2>1. k \in 1 .. 69
    OBVIOUS
  <2>2. /\ Plan[k] = "act_pageout" => k \in {20, 48}
        /\ Plan[k] = "act_stat" => k = 21
        /\ Plan[k] = "quota" => k \in {22, 49}
        /\ Plan[k] = "fence" => k \in {23, 50}
        /\ Plan[k] = "ceiling" => k = 51
    BY <2>1, WhereWritten, Zenon
  <2> QED BY <1>9, <2>2
<1>11. /\ k \in {20, 48} => write = "act_pageout"
       /\ k = 21 => write = "act_stat"
       /\ k \in {22, 49} => write = "quota"
       /\ k \in {23, 50} => write = "fence"
       /\ k = 51 => write = "ceiling"
  <2>1. k \in 1 .. 69
    OBVIOUS
  <2>2. /\ Plan[k] = "act_pageout" => k \in {20, 48}
        /\ Plan[k] = "act_stat" => k = 21
        /\ Plan[k] = "quota" => k \in {22, 49}
        /\ Plan[k] = "fence" => k \in {23, 50}
        /\ Plan[k] = "ceiling" => k = 51
    BY <2>1, WhereWritten, Zenon
  <2> QED BY <1>9, <2>2
<1>12. Scheme(k) /\ Established(k)
  BY <1>9 DEF At
<1>13. ~kd.on
  BY <1>10, <1>12 DEF Scheme, Written
<1>14. Fail \/ (Scheme(k + 1)' /\ Established(k + 1)')
  <2>1. SUFFICES ASSUME ~Fail
                 PROVE  Scheme(k + 1)' /\ Established(k + 1)'
    OBVIOUS
  <2>2. sch' = SchemeAfter(write)
    BY <1>1, <2>1
  <2>3. Scheme(k + 1)'
    BY <1>3, <1>10, <1>11, <1>12, <2>2, NextScheme
  <2>4. Established(k + 1)'
    BY <1>1, <1>3, <1>10, <1>12, <1>13 DEF Established
  <2> QED BY <2>3, <2>4
<1>15. flags' \subseteq Flags /\ child' \in BOOLEAN /\ acts' = acts
  BY <1>1, <1>2 DEF HarnessType
<1>16. verdict' = verdict => Sound'
  <2>1. ~(kd'.own = "nemor" /\ kd'.on)
    BY <1>3, <1>13
  <2> QED BY <1>1, <1>3, <2>1, SoundKept DEF Inv, Sound, Step
<1>17. kind' = kind
  BY <1>1
<1> QED BY <1>1, <1>4, <1>5, <1>6, <1>7, <1>9, <1>14, <1>15, <1>16, <1>17, PlanInv

(* The statistics of a session. *)
LEMMA MonitorInv ==
  ASSUME Inv, Monitor
  PROVE  Inv'
<1>1. /\ Step("monitor") /\ (Goes \/ Fail) /\ failed' = failed
      /\ UNCHANGED <<kernel, process, flags, sess, child, acts, faults>>
      /\ UNCHANGED <<kind, refaulted, sch, applied, zones, shadow>>
      /\ stats' = [tried |-> sch.tried,
                   applied |-> IF sch.action = "pageout" THEN applied ELSE 0]
  BY DEF Monitor, Require, Smooth, report, Goes, Fail, Untouched
<1>2. KernelType /\ ProcessType /\ HarnessType /\ DamosType /\ sch \in Schemes
  BY TypeParts DEF Inv
<1>3. UNCHANGED <<kd, inst, readers, tgt, files, progress>>
  BY <1>1 DEF kernel, process
<1>4. (sch \in Schemes)'
  BY <1>1, <1>2 DEF Schemes
<1>5. KernelType' /\ sess \in Nat /\ sess' \in Nat /\ sess' >= sess
  BY <1>1, <1>2, <1>3 DEF KernelType
<1>6. ProcessType'
  BY <1>2, <1>3 DEF ProcessType
<1>7. applied \in 0 .. Quota + 1
  BY <1>2 DEF DamosType
<1>8. stats'.applied \in {0, applied}
  BY <1>1
<1>9. DamosType'
  <2>1. sch.tried \in BOOLEAN
    BY <1>2 DEF Schemes
  <2>2. 0 \in 0 .. Quota + 1
    BY QuotaAssumption
  <2>3. stats' \in [tried : BOOLEAN, applied : 0 .. Quota + 1]
    BY <1>1, <1>7, <2>1, <2>2
  <2> QED BY <1>1, <1>2, <2>3 DEF DamosType
<1>10. "monitor" \in CalmNames /\ "monitor" \notin UndoSet
  BY DEF CalmNames, UndoSet
<1>11. Control'
  BY <1>1, <1>3, <1>5, <1>10, CalmControl DEF Inv
<1>12. /\ verdict' = verdict
       /\ \/ errors' = errors /\ unwinding' = unwinding
          \/ errors' = {"damos"} /\ unwinding' = TRUE
  BY <1>1, <1>10, FailOut DEF Goes, Inv
<1>13. HarnessType'
  <2>1. flags' \subseteq Flags /\ child' \in BOOLEAN
    BY <1>1, <1>2 DEF HarnessType
  <2> QED BY <1>1, <1>2, <1>12, <2>1, HarnessKept
<1>14. Bounded' /\ Ours' /\ PageoutBounded'
  BY <1>1, <1>3, <1>12 DEF Inv, Bounded, Live, Ours, PageoutBounded
<1>15. Counted'
  BY <1>1, <1>7, <1>8 DEF Counted
<1>16. PassEarned'
  BY <1>1, <1>12 DEF PassEarned, Step
<1> QED BY <1>4, <1>5, <1>6, <1>9, <1>11, <1>13, <1>14, <1>15, <1>16, TypePartsNext DEF Inv

(* The shadow session passes its gate, or the validation fails. *)
LEMMA ShadowGateInv ==
  ASSUME Inv, ShadowGate
  PROVE  Inv'
<1>1. /\ Step("shadow_gate") /\ (Goes \/ Fail) /\ failed' = failed
      /\ faults' = faults \/ Fault
      /\ UNCHANGED <<kernel, process, flags, sess, child, acts>>
      /\ UNCHANGED <<kind, refaulted, sch, applied, zones, stats>>
      /\ shadow' = ~unwinding'
  BY DEF ShadowGate, Require, Judge, Smooth, report, Goes, Fail, Untouched
<1>2. KernelType /\ ProcessType /\ HarnessType /\ DamosType /\ sch \in Schemes
  BY TypeParts DEF Inv
<1>3. UNCHANGED <<kd, inst, readers, tgt, files, progress>>
  BY <1>1 DEF kernel, process
<1>4. (sch \in Schemes)'
  BY <1>1, <1>2 DEF Schemes
<1>5. KernelType'
  BY <1>1, <1>2, <1>3 DEF KernelType
<1>6. ProcessType'
  BY <1>2, <1>3 DEF ProcessType
<1>7. DamosType'
  BY <1>1, <1>2 DEF DamosType
<1>8. "shadow_gate" \notin UndoSet /\ "shadow_gate" \notin {"refault", "await_refault"}
  BY DEF UndoSet
<1>9. PICK k \in 1 .. 67 : At(k) /\ Plan[k] = "shadow_gate" /\ Tail(todo) = From(k + 1)
  BY <1>1, <1>8, OnPlan DEF Inv
<1>10. k = 35
  <2>1. k \in 1 .. 69
    OBVIOUS
  <2> QED BY <1>9, <2>1, Where
<1>11. Established(35) /\ ~unwinding
  BY <1>9, <1>10 DEF At
<1>12. ~(kd.own = "nemor" /\ kd.on)
  BY <1>11 DEF Established
<1>13. Fail \/ (Scheme(k + 1)' /\ Established(k + 1)')
  <2>1. SUFFICES ASSUME ~Fail
                 PROVE  Scheme(k + 1)' /\ Established(k + 1)'
    OBVIOUS
  <2>2. shadow'
    BY <1>1, <1>11, <2>1 DEF Goes
  <2>3. k + 1 = 36
    BY <1>10
  <2>4. Scheme(k + 1)'
    <3>1. k + 1 \notin {19, 20, 21, 22, 23, 24, 47, 48, 49, 50, 51, 52}
      BY <2>3
    <3> QED BY <3>1 DEF Scheme
  <2>5. Established(k + 1)'
    BY <1>1, <1>3, <1>11, <2>2, <2>3 DEF Established
  <2> QED BY <2>4, <2>5
<1>14. flags' \subseteq Flags /\ child' \in BOOLEAN /\ acts' = acts /\ kind' = kind
  BY <1>1, <1>2 DEF HarnessType
<1>15. verdict' = verdict => Sound'
  <2>1. Bounded'
    BY <1>3, <1>12 DEF Bounded
  <2>2. Ours' /\ Counted' /\ PageoutBounded'
    BY <1>1 DEF Inv, Ours, Counted, PageoutBounded
  <2>3. verdict' = verdict => PassEarned'
    BY <1>1 DEF PassEarned, Step
  <2> QED BY <2>1, <2>2, <2>3 DEF Sound
<1> QED BY <1>1, <1>4, <1>5, <1>6, <1>7, <1>9, <1>13, <1>14, <1>15, PlanInv

(* The decision is recorded before the live session. *)
LEMMA DecideInv ==
  ASSUME Inv, Decide
  PROVE  Inv'
<1>1. /\ Step("decide") /\ (Goes \/ Fail) /\ failed' = failed
      /\ faults' = faults \/ Fault
      /\ UNCHANGED <<kernel, tgt, progress, flags, sess, child, acts, damos>>
      /\ files' = files \/ files' = files \union {"decision"}
      /\ Fail \/ "decision" \in files'
  BY DEF Decide, Smooth, report, Goes, Fail, Untouched
<1>2. UNCHANGED <<applied, zones, shadow, refaulted, kind, stats>> /\ sch' = sch
      /\ (sch \in Schemes)' /\ DamosType'
  BY <1>1, DamosKept
<1>3. KernelType /\ ProcessType /\ HarnessType
  BY TypeParts DEF Inv
<1>4. UNCHANGED <<kd, inst, readers>>
  BY <1>1 DEF kernel
<1>5. KernelType'
  BY <1>1, <1>3, <1>4 DEF KernelType
<1>6. ProcessType'
  BY <1>1, <1>3 DEF ProcessType, FileNames
<1>7. "decide" \notin UndoSet /\ "decide" \notin {"refault", "await_refault"}
  BY DEF UndoSet
<1>8. PICK k \in 1 .. 67 : At(k) /\ Plan[k] = "decide" /\ Tail(todo) = From(k + 1)
  BY <1>1, <1>7, OnPlan DEF Inv
<1>9. k = 36
  <2>1. k \in 1 .. 69
    OBVIOUS
  <2> QED BY <1>8, <2>1, Where
<1>10. Fail \/ (Scheme(k + 1)' /\ Established(k + 1)')
  <2>1. SUFFICES ASSUME ~Fail
                 PROVE  Scheme(k + 1)' /\ Established(k + 1)'
    OBVIOUS
  <2>2. "decision" \in files'
    BY <1>1, <2>1
  <2>3. k + 1 = 37
    BY <1>9
  <2>4. Established(36)
    BY <1>8, <1>9 DEF At
  <2>5. Scheme(k + 1)'
    <3>1. k + 1 \notin {19, 20, 21, 22, 23, 24, 47, 48, 49, 50, 51, 52}
      BY <2>3
    <3> QED BY <3>1 DEF Scheme
  <2>6. Established(k + 1)'
    BY <1>1, <1>2, <1>4, <2>2, <2>3, <2>4 DEF Established
  <2> QED BY <2>5, <2>6
<1>11. flags' \subseteq Flags /\ child' \in BOOLEAN /\ acts' = acts /\ kind' = kind
  BY <1>1, <1>2, <1>3 DEF HarnessType
<1>12. verdict' = verdict => Sound'
  BY <1>1, <1>2, <1>4, SoundKept DEF Inv, Sound, Step
<1> QED BY <1>1, <1>2, <1>5, <1>6, <1>8, <1>10, <1>11, <1>12, PlanInv

(* Only a successful reclaim leads to the refault. *)
LEMMA LiveGatesInv ==
  ASSUME Inv, LiveGates
  PROVE  Inv'
<1>1. /\ Step("live_gates")
      /\ UNCHANGED <<kernel, process, flags, sess, child, unwinding, errors, verdict, faults,
                     acts, damos>>
      /\ Successful \/ "refault" \in failed'
      /\ todo' = (IF Successful THEN <<"refault", "await_refault">> ELSE <<>>) \o Tail(todo)
  BY DEF LiveGates, Untouched
<1>2. UNCHANGED <<applied, zones, shadow, refaulted, kind, stats>> /\ sch' = sch
      /\ (sch \in Schemes)' /\ DamosType'
  BY <1>1, DamosKept
<1>3. KernelType /\ ProcessType /\ HarnessType
  BY TypeParts DEF Inv
<1>4. UNCHANGED <<kd, inst, readers, tgt, files, progress>>
  BY <1>1 DEF kernel, process
<1>5. KernelType'
  BY <1>1, <1>3, <1>4 DEF KernelType
<1>6. ProcessType'
  BY <1>3, <1>4 DEF ProcessType
<1>7. HarnessType'
  BY <1>1, <1>3 DEF HarnessType
<1>8. Sound'
  BY <1>1, <1>2, <1>4, SoundKept DEF Inv, Sound, Step
<1>9. "live_gates" \notin UndoSet /\ "live_gates" \notin {"refault", "await_refault"}
  BY DEF UndoSet
<1>10. PICK k \in 1 .. 67 : At(k) /\ Plan[k] = "live_gates" /\ Tail(todo) = From(k + 1)
  BY <1>1, <1>9, OnPlan DEF Inv
<1>11. k = 64
  <2>1. k \in 1 .. 69
    OBVIOUS
  <2> QED BY <1>10, <2>1, Where
<1>12. Tail(todo) = From(65) /\ Established(64) /\ errors = {} /\ ~unwinding
  BY <1>10, <1>11 DEF At
<1>13. shadow /\ "decision" \in files /\ Ceiling < ResetTicks /\ sess > 0
  BY <1>12 DEF Established
<1>14. CASE Successful
  <2>1. todo' = Ask
    BY <1>1, <1>12, <1>14, AskAfter
  <2>2. applied > 0
    BY <1>14 DEF Successful, Inv, Counted
  <2>3. Asking'
    <3>1. Ask' = Ask
      BY DEF Ask
    <3> QED BY <1>1, <1>2, <1>4, <1>12, <1>13, <2>1, <2>2, <3>1 DEF Asking
  <2> QED BY <1>2, <1>5, <1>6, <1>7, <1>8, <2>3, TypePartsNext DEF Inv, Sound, Control
<1>15. CASE ~Successful
  <2>1. todo' = From(65)
    <3>1. 65 \in 1 .. 69
      OBVIOUS
    <3>2. From(65) \in Seq(Names)
      BY <3>1, FromSeq, Zenon
    <3>3. <<>> \o From(65) = From(65)
      BY <3>2, ConcatEmptySeq
    <3> QED BY <1>1, <1>12, <1>15, <3>3
  <2>2. todo' = From(65)'
    BY <1>2, <2>1, FromKept
  <2>3. Scheme(65)'
    BY DEF Scheme
  <2>4. Established(65)'
    <3>1. failed' # {}
      BY <1>1, <1>15
    <3> QED BY <1>1, <1>2, <1>4, <1>13, <3>1 DEF Established
  <2>5. At(65)'
    BY <1>1, <1>12, <2>2, <2>3, <2>4 DEF At
  <2> QED BY <1>2, <1>5, <1>6, <1>7, <1>8, <2>5, TypePartsNext DEF Inv, Sound, Control
<1> QED BY <1>14, <1>15

(* The command to touch COLD again. *)
LEMMA RefaultInv ==
  ASSUME Inv, Signal, Step("refault")
  PROVE  Inv'
<1>1. /\ Goes /\ files' = files \union {"refault"} /\ failed' = failed
      /\ UNCHANGED <<kernel, tgt, progress, flags, faults, acts, sess, child, damos>>
  <2>1. PICK name \in SignalFiles : Step(name) /\ files' = files \union {name}
    BY DEF Signal
  <2>2. name = "refault"
    BY <2>1 DEF Step
  <2> QED BY <2>1, <2>2 DEF Signal, Smooth, report, Goes, Untouched
<1>2. UNCHANGED <<applied, zones, shadow, refaulted, kind, stats>> /\ sch' = sch
      /\ (sch \in Schemes)' /\ DamosType'
  BY <1>1, DamosKept
<1>3. KernelType /\ ProcessType /\ HarnessType
  BY TypeParts DEF Inv
<1>4. UNCHANGED <<kd, inst, readers>>
  BY <1>1 DEF kernel
<1>5. KernelType'
  BY <1>1, <1>3, <1>4 DEF KernelType
<1>6. ProcessType'
  BY <1>1, <1>3, <1>4 DEF ProcessType, FileNames, SignalFiles
<1>7. HarnessType'
  BY <1>1, <1>3 DEF HarnessType, Goes
<1>8. Sound'
  BY <1>1, <1>2, <1>4, SoundKept DEF Inv, Sound, Step, Goes
<1>9. Asking /\ todo = Ask /\ Tail(todo) = Asked
  <2>1. CASE \E k \in 1 .. 70 : At(k)
    <3>1. PICK k \in 1 .. 70 : At(k)
      BY <2>1
    <3>2. k \in 1 .. 69 /\ Plan[k] = "refault"
      BY <3>1, StepAt DEF At
    <3> QED BY <3>2, Where
  <2>2. CASE Asking
    BY <2>2, StepAsk DEF Asking
  <2>3. CASE \E j \in 1 .. 10 : Undoing(j)
    <3>1. PICK j \in 1 .. 10 : Undoing(j)
      BY <2>3
    <3>2. j \in 1 .. 9 /\ Undo[j] = "refault"
      BY <3>1, StepUndo DEF Undoing
    <3> QED BY <3>2, UndoNamed DEF UndoSet
  <2> QED BY <2>1, <2>2, <2>3 DEF Inv, Control
<1>10. Asking'
  <2>1. todo' = Asked /\ Asked' = Asked
    BY <1>1, <1>9 DEF Goes, Proceed, Asked
  <2>2. applied > 0 /\ shadow /\ "decision" \in files /\ Ceiling < ResetTicks /\ sess > 0
        /\ errors = {} /\ ~unwinding
    BY <1>9 DEF Asking
  <2> QED BY <1>1, <1>2, <2>1, <2>2 DEF Asking, Goes
<1> QED BY <1>2, <1>5, <1>6, <1>7, <1>8, <1>10, TypePartsNext DEF Inv, Sound, Control

(* The acknowledgement of the target. *)
LEMMA AwaitRefaultInv ==
  ASSUME Inv, AwaitRefault
  PROVE  Inv'
<1>1. /\ Step("await_refault") /\ (Goes \/ Fail) /\ failed' = failed
      /\ Fail \/ (Goes /\ refaulted)
      /\ UNCHANGED <<kernel, process, flags, faults, acts, sess, child, damos>>
  BY DEF AwaitRefault, Require, Smooth, report, Goes, Fail, Untouched
<1>2. UNCHANGED <<applied, zones, shadow, refaulted, kind, stats>> /\ sch' = sch
      /\ (sch \in Schemes)' /\ DamosType'
  BY <1>1, DamosKept
<1>3. KernelType /\ ProcessType /\ HarnessType /\ Control
  BY TypeParts DEF Inv
<1>4. UNCHANGED <<kd, inst, readers, tgt, files, progress>>
  BY <1>1 DEF kernel, process
<1>5. KernelType'
  BY <1>1, <1>3, <1>4 DEF KernelType
<1>6. ProcessType'
  BY <1>3, <1>4 DEF ProcessType
<1>7. "await_refault" \notin UndoSet
  BY DEF UndoSet
<1>8. /\ verdict' = verdict
      /\ \/ errors' = errors /\ unwinding' = unwinding
         \/ errors' = {"damos"} /\ unwinding' = TRUE
  BY <1>1, <1>3, <1>7, FailOut DEF Goes
<1>9. HarnessType'
  <2>1. flags' \subseteq Flags /\ child' \in BOOLEAN
    BY <1>1, <1>3 DEF HarnessType
  <2> QED BY <1>1, <1>3, <1>8, <2>1, HarnessKept
<1>10. Sound'
  BY <1>1, <1>2, <1>4, <1>8, SoundKept DEF Inv, Sound, Step
<1>11. Control'
  <2>1. CASE Fail
    BY <1>1, <1>3, <1>7, <2>1, FailOut
  <2>2. CASE ~Fail
    <3>1. Asking /\ Tail(todo) = From(65)
      <4>1. CASE \E k \in 1 .. 70 : At(k)
        <5>1. PICK k \in 1 .. 70 : At(k)
          BY <4>1
        <5>2. k \in 1 .. 69 /\ Plan[k] = "await_refault"
          BY <1>1, <5>1, StepAt DEF At
        <5> QED BY <5>2, Where
      <4>2. CASE Asking
        BY <1>1, <4>2, StepAsk DEF Asking
      <4>3. CASE \E j \in 1 .. 10 : Undoing(j)
        <5>1. PICK j \in 1 .. 10 : Undoing(j)
          BY <4>3
        <5>2. j \in 1 .. 9 /\ Undo[j] = "await_refault"
          BY <1>1, <5>1, StepUndo DEF Undoing
        <5> QED BY <1>7, <5>2, UndoNamed
      <4> QED BY <1>3, <4>1, <4>2, <4>3 DEF Control
    <3>2. todo' = From(65)'
      BY <1>1, <1>2, <2>2, <3>1, FromKept DEF Goes, Proceed
    <3>3. applied > 0 /\ shadow /\ "decision" \in files /\ Ceiling < ResetTicks /\ sess > 0
          /\ errors = {} /\ ~unwinding
      BY <3>1 DEF Asking
    <3>4. Scheme(65)'
      BY DEF Scheme
    <3>5. Established(65)'
      BY <1>1, <1>2, <1>4, <2>2, <3>3 DEF Established
    <3>6. At(65)'
      BY <1>1, <2>2, <3>2, <3>3, <3>4, <3>5 DEF At, Goes
    <3> QED BY <3>6 DEF Control
  <2> QED BY <2>1, <2>2
<1> QED BY <1>2, <1>5, <1>6, <1>9, <1>10, <1>11, TypePartsNext DEF Inv, Sound

(* The end of the target. *)
LEMMA WaitExitInv ==
  ASSUME Inv, WaitExit
  PROVE  Inv'
<1>1. /\ Step("wait_exit") /\ (Goes \/ Fail) /\ failed' = failed
      /\ UNCHANGED <<kernel, files, progress, sess, flags, faults, acts, damos>>
      /\ child' = child \/ child' = FALSE
      /\ tgt' = tgt \/ tgt' = "none"
      /\ kind = "internal" => tgt' = "none"
  BY DEF WaitExit, Smooth, report, Goes, Fail
<1>2. UNCHANGED <<applied, zones, shadow, refaulted, kind, stats>> /\ sch' = sch
      /\ (sch \in Schemes)' /\ DamosType'
  BY <1>1, DamosKept
<1>3. KernelType /\ ProcessType /\ HarnessType
  BY TypeParts DEF Inv
<1>4. UNCHANGED <<kd, inst, readers>>
  BY <1>1 DEF kernel
<1>5. KernelType'
  BY <1>1, <1>3, <1>4 DEF KernelType
<1>6. ProcessType'
  BY <1>1, <1>3 DEF ProcessType, TargetStates
<1>7. "wait_exit" \notin UndoSet /\ "wait_exit" \notin {"refault", "await_refault"}
  BY DEF UndoSet
<1>8. PICK k \in 1 .. 67 : At(k) /\ Plan[k] = "wait_exit" /\ Tail(todo) = From(k + 1)
  BY <1>1, <1>7, OnPlan DEF Inv
<1>9. k = 66
  <2>1. k \in 1 .. 69
    OBVIOUS
  <2> QED BY <1>8, <2>1, Where
<1>10. Established(66) /\ k + 1 = 67
  BY <1>8, <1>9 DEF At
<1>11. Scheme(k + 1)'
  <2>1. k + 1 \notin {19, 20, 21, 22, 23, 24, 47, 48, 49, 50, 51, 52}
    BY <1>10
  <2> QED BY <2>1 DEF Scheme
<1>12. Established(k + 1)'
  BY <1>1, <1>2, <1>4, <1>10 DEF Established
<1>13. flags' \subseteq Flags /\ child' \in BOOLEAN /\ acts' = acts /\ kind' = kind /\ faults' =
           faults
  BY <1>1, <1>2, <1>3 DEF HarnessType
<1>14. verdict' = verdict => Sound'
  <2>1. child' => child
    BY <1>1
  <2> QED BY <1>1, <1>2, <1>4, <2>1, SoundKept DEF Inv, Sound, Step
<1> QED BY <1>1, <1>2, <1>5, <1>6, <1>8, <1>11, <1>12, <1>13, <1>14, PlanInv

(* The last gate: nothing of Nemor is left in the kernel. *)
LEMMA CleanupGateInv ==
  ASSUME Inv, CleanupGate
  PROVE  Inv'
<1>1. /\ Step("cleanup_gate") /\ Goes
      /\ failed' = {} => failed = {} /\ kd.own = "none" /\ inst = {}
      /\ UNCHANGED <<kernel, process, sess, child, flags, faults, acts, damos>>
  BY DEF CleanupGate, Assess, Goes, Untouched
<1>2. UNCHANGED <<applied, zones, shadow, refaulted, kind, stats>> /\ sch' = sch
      /\ (sch \in Schemes)' /\ DamosType'
  BY <1>1, DamosKept
<1>3. KernelType /\ ProcessType /\ HarnessType
  BY TypeParts DEF Inv
<1>4. UNCHANGED <<kd, inst, readers, tgt, files, progress>>
  BY <1>1 DEF kernel, process
<1>5. KernelType'
  BY <1>1, <1>3, <1>4 DEF KernelType
<1>6. ProcessType'
  BY <1>3, <1>4 DEF ProcessType
<1>7. "cleanup_gate" \notin UndoSet /\ "cleanup_gate" \notin {"refault", "await_refault"}
  BY DEF UndoSet
<1>8. PICK k \in 1 .. 67 : At(k) /\ Plan[k] = "cleanup_gate" /\ Tail(todo) = From(k + 1)
  BY <1>1, <1>7, OnPlan DEF Inv
<1>9. k = 67
  <2>1. k \in 1 .. 69
    OBVIOUS
  <2> QED BY <1>8, <2>1, Where
<1>10. Established(67) /\ k + 1 = 68
  BY <1>8, <1>9 DEF At
<1>11. Scheme(k + 1)'
  <2>1. k + 1 \notin {19, 20, 21, 22, 23, 24, 47, 48, 49, 50, 51, 52}
    BY <1>10
  <2> QED BY <2>1 DEF Scheme
<1>12. Established(k + 1)'
  BY <1>1, <1>2, <1>4, <1>10 DEF Established
<1>13. flags' \subseteq Flags /\ child' \in BOOLEAN /\ acts' = acts /\ kind' = kind /\ faults' =
           faults
  BY <1>1, <1>2, <1>3 DEF HarnessType
<1>14. verdict' = verdict => Sound'
  BY <1>1, <1>2, <1>4, SoundKept DEF Inv, Sound, Step
<1> QED BY <1>1, <1>2, <1>5, <1>6, <1>8, <1>11, <1>12, <1>13, <1>14, PlanInv

(* main takes the result. *)
LEMMA CloseInv ==
  ASSUME Inv, Close
  PROVE  Inv'
<1>1. /\ Step("close_damos") /\ unwinding' = FALSE /\ Proceed
      /\ UNCHANGED <<kernel, process, sess, child, flags, errors, failed, verdict, faults, acts,
                     damos>>
  BY DEF Close, CloseScope, report, Untouched
<1>2. UNCHANGED <<applied, zones, shadow, refaulted, kind, stats>> /\ sch' = sch
      /\ (sch \in Schemes)' /\ DamosType'
  BY <1>1, DamosKept
<1>3. KernelType /\ ProcessType /\ HarnessType /\ Control
  BY TypeParts DEF Inv
<1>4. UNCHANGED <<kd, inst, readers, tgt, files, progress>>
  BY <1>1 DEF kernel, process
<1>5. KernelType'
  BY <1>1, <1>3, <1>4 DEF KernelType
<1>6. ProcessType'
  BY <1>3, <1>4 DEF ProcessType
<1>7. HarnessType'
  BY <1>1, <1>3 DEF HarnessType
<1>8. Sound'
  BY <1>1, <1>2, <1>4, SoundKept DEF Inv, Sound, Step
<1>9. Control'
  <2>1. CASE \E k \in 1 .. 69 : At(k) /\ Plan[k] = "close_damos" /\ Tail(todo) = From(k + 1)
    <3>1. PICK k \in 1 .. 69 : At(k) /\ Plan[k] = "close_damos" /\ Tail(todo) = From(k + 1)
      BY <2>1
    <3>2. k = 68
      BY <3>1, Where
    <3>3. Established(68) /\ ~unwinding /\ k + 1 = 69
      BY <3>1, <3>2 DEF At
    <3>4. unwinding \in BOOLEAN
      BY <1>3 DEF HarnessType
    <3>5. unwinding' = unwinding
      BY <1>1, <3>3, <3>4
    <3>6. Scheme(k + 1)'
      <4>1. k + 1 \notin {19, 20, 21, 22, 23, 24, 47, 48, 49, 50, 51, 52}
        BY <3>3
      <4> QED BY <4>1 DEF Scheme
    <3>7. Established(k + 1)'
      BY <1>1, <1>2, <1>4, <3>3 DEF Established
    <3> QED BY <1>1, <1>2, <3>1, <3>5, <3>6, <3>7, Onward
  <2>2. CASE \E j \in 1 .. 9 : /\ Undoing(j) /\ Undo[j] = "close_damos"
                               /\ Tail(todo) = Rest(j + 1)
    <3>1. PICK j \in 1 .. 9 : /\ Undoing(j) /\ Undo[j] = "close_damos"
                              /\ Tail(todo) = Rest(j + 1)
      BY <2>2
    <3>2. j = 8
      BY <3>1, UndoSteps
    <3>3. todo' = Rest(j + 1)
      BY <1>1, <3>1 DEF Proceed
    <3> QED BY <1>1, <3>1, <3>2, <3>3, UndoOn
  <2>3. "close_damos" \notin {"refault", "await_refault"}
    OBVIOUS
  <2> QED BY <1>1, <1>3, <2>1, <2>2, <2>3, OnPlanOrUndo
<1> QED BY <1>2, <1>5, <1>6, <1>7, <1>8, <1>9, TypePartsNext DEF Inv, Sound

(* A pass is what the places before have established. *)
LEMMA ReportInv ==
  ASSUME Inv, Report
  PROVE  Inv'
<1>1. /\ Step("report") /\ Proceed
      /\ verdict' = IF errors = {} /\ failed = {} THEN "pass" ELSE "fail"
      /\ files' \subseteq files /\ readers' = {}
      /\ UNCHANGED <<kd, inst, tgt, progress, sess, child, flags, unwinding, errors, failed,
                     faults, acts, damos>>
  BY DEF Report, Conclude, Untouched
<1>2. UNCHANGED <<applied, zones, shadow, refaulted, kind, stats>> /\ sch' = sch
      /\ (sch \in Schemes)' /\ DamosType'
  BY <1>1, DamosKept
<1>3. KernelType /\ ProcessType /\ HarnessType /\ Control
  BY TypeParts DEF Inv
<1>4. KernelType'
  BY <1>1, <1>3 DEF KernelType
<1>5. ProcessType'
  BY <1>1, <1>3 DEF ProcessType
<1>6. HarnessType'
  BY <1>1, <1>3 DEF HarnessType
<1>7. verdict' # "none"
  BY <1>1
<1>8. Bounded' /\ Ours' /\ Counted' /\ PageoutBounded'
  BY <1>1, <1>2, <1>7 DEF Inv, Bounded, Live, Ours, Counted, PageoutBounded
<1>9. Control' /\ PassEarned'
  <2>1. CASE \E k \in 1 .. 69 : At(k) /\ Plan[k] = "report" /\ Tail(todo) = From(k + 1)
    <3>1. PICK k \in 1 .. 69 : At(k) /\ Plan[k] = "report" /\ Tail(todo) = From(k + 1)
      BY <2>1
    <3>2. k = 69
      BY <3>1, Where
    <3>3. Established(69) /\ k + 1 = 70
      BY <3>1, <3>2 DEF At
    <3>4. Scheme(k + 1)'
      <4>1. k + 1 \notin {19, 20, 21, 22, 23, 24, 47, 48, 49, 50, 51, 52}
        BY <3>3
      <4> QED BY <4>1 DEF Scheme
    <3>5. Established(k + 1)'
      BY <1>1, <1>2, <3>3 DEF Established
    <3>6. PassEarned'
      <4>1. verdict' = "pass" => failed = {}
        BY <1>1
      <4> QED BY <1>1, <1>2, <3>3, <4>1 DEF Established, PassEarned
    <3> QED BY <1>1, <1>2, <3>1, <3>4, <3>5, <3>6, Onward
  <2>2. CASE \E j \in 1 .. 9 : Undoing(j) /\ Undo[j] = "report" /\ Tail(todo) = Rest(j + 1)
    <3>1. PICK j \in 1 .. 9 : Undoing(j) /\ Undo[j] = "report" /\ Tail(todo) = Rest(j + 1)
      BY <2>2
    <3>2. todo' = Rest(j + 1)
      BY <1>1, <3>1 DEF Proceed
    <3>3. Control'
      BY <1>1, <3>1, <3>2, UndoOn
    <3>4. verdict' # "pass"
      BY <1>1, <3>1 DEF Undoing
    <3> QED BY <3>3, <3>4 DEF PassEarned
  <2>3. "report" \notin {"refault", "await_refault"}
    OBVIOUS
  <2> QED BY <1>1, <1>3, <2>1, <2>2, <2>3, OnPlanOrUndo
<1> QED BY <1>2, <1>4, <1>5, <1>6, <1>8, <1>9, TypePartsNext DEF Inv

-----------------------------------------------------------------------------
(* The world *)

(* What holds at a place is not disturbed from outside: a kdamond that is   *)
(* written stays as it is, one that runs may only stop, and the target only *)
(* goes forward.                                                            *)
LEMMA PlaceKept ==
  ASSUME NEW k \in 1 .. 70, At(k),
         UNCHANGED <<todo, errors, failed, unwinding, kind, inst, sess, shadow>>,
         kd'.own = "nemor" => kd.own = "nemor",
         kd'.own = "nemor" /\ kd'.on => kd.own = "nemor" /\ kd.on /\ sch'.action = sch.action,
         kd.own = "nemor" /\ ~kd.on => kd' = kd /\ sch' = sch,
         ~(kd.own = "nemor" /\ kd.on /\ sch.action = "pageout") =>
             applied' = applied /\ zones' = zones,
         applied > 0 => applied' > 0, refaulted => refaulted',
         tgt = "none" => tgt' = "none",
         "decision" \in files => "decision" \in files'
  PROVE  At(k)'
<1>1. Scheme(k)'
  <2>1. \A a, q, f, c : Written(a, q, f, c) => kd' = kd /\ sch' = sch
    BY DEF Written
  <2>2. \A a, q, f, c : Written(a, q, f, c) => Written(a, q, f, c)'
    BY <2>1 DEF Written
  <2> QED BY <2>2 DEF At, Scheme
<1>2. Established(k)'
  <2>1. Established(k)
    BY DEF At
  <2>2. k <= 52 => ~(kd.own = "nemor" /\ kd.on /\ sch.action = "pageout")
    BY <2>1 DEF Established
  <2> QED BY <2>1, <2>2 DEF Established
<1>3. todo' = From(k)'
  BY FromKept DEF At
<1> QED BY <1>1, <1>2, <1>3 DEF At

(* The invariant, from what a step of the world does. *)
LEMMA WorldKeeps ==
  ASSUME Inv, TypeOK', Bounded', PageoutBounded',
         UNCHANGED <<todo, errors, failed, verdict, unwinding, kind, inst, sess, shadow>>,
         UNCHANGED <<child, stats>>,
         kd'.own = "nemor" => kd.own = "nemor",
         kd'.own = "nemor" /\ kd'.on => kd.own = "nemor" /\ kd.on /\ sch'.action = sch.action,
         kd.own = "nemor" /\ ~kd.on => kd' = kd /\ sch' = sch,
         ~(kd.own = "nemor" /\ kd.on /\ sch.action = "pageout") =>
             applied' = applied /\ zones' = zones,
         applied > 0 => applied' > 0, refaulted => refaulted',
         tgt = "none" => tgt' = "none",
         "decision" \in files => "decision" \in files'
  PROVE  Inv'
<1>1. Control'
  <2>1. CASE \E k \in 1 .. 70 : At(k)
    <3>1. PICK k \in 1 .. 70 : At(k)
      BY <2>1
    <3>2. At(k)'
      BY <3>1, PlaceKept
    <3> QED BY <3>2 DEF Control
  <2>2. CASE Asking
    <3>1. Asking'
      BY <2>2 DEF Asking, Ask, Asked
    <3> QED BY <3>1 DEF Control
  <2>3. CASE \E j \in 1 .. 10 : Undoing(j)
    <3>1. PICK j \in 1 .. 10 : Undoing(j)
      BY <2>3
    <3>2. Undoing(j)'
      BY <3>1 DEF Undoing, Rest, Undo
    <3> QED BY <3>2 DEF Control
  <2> QED BY <2>1, <2>2, <2>3 DEF Inv, Control
<1>2. Ours' /\ Counted'
  BY DEF Inv, Ours, Counted
<1>3. PassEarned'
  BY DEF Inv, PassEarned
<1> QED BY <1>1, <1>2, <1>3 DEF Inv

(* A kdamond whose target is gone ends. *)
LEMMA StopsInv ==
  ASSUME Inv, Stops
  PROVE  Inv'
<1>1. /\ kd.on /\ kd.own = "nemor" /\ kd' = [kd EXCEPT !.on = FALSE]
      /\ UNCHANGED <<inst, readers, process, todo, sess, flags, child, unwinding>>
      /\ UNCHANGED <<report, faults, acts, damos>>
  BY DEF Stops, KernelStops
<1>2. UNCHANGED <<applied, zones, shadow, refaulted, kind, stats>> /\ sch' = sch
      /\ (sch \in Schemes)' /\ DamosType'
  BY <1>1, DamosKept
<1>3. KernelType /\ ProcessType /\ HarnessType
  BY TypeParts DEF Inv
<1>4. UNCHANGED <<tgt, files, progress, errors, failed, verdict>>
  BY <1>1 DEF process, report
<1>5. kd' \in Slots /\ ~kd'.on
  BY <1>1, <1>3 DEF KernelType, Slots
<1>6. KernelType'
  BY <1>1, <1>3, <1>5 DEF KernelType
<1>7. ProcessType' /\ HarnessType'
  BY <1>1, <1>3, <1>4 DEF ProcessType, HarnessType
<1>8. TypeOK'
  BY <1>2, <1>6, <1>7, TypePartsNext
<1>9. Bounded' /\ PageoutBounded'
  BY <1>2, <1>5 DEF Inv, Bounded, PageoutBounded
<1> QED BY <1>1, <1>2, <1>4, <1>5, <1>8, <1>9, WorldKeeps

(* Another user of DAMON has no part in Nemor's slot. *)
LEMMA ForeignInv ==
  ASSUME Inv, Foreign, UNCHANGED damos
  PROVE  Inv'
<1>1. /\ acts < MaxForeign /\ acts' = acts + 1
      /\ UNCHANGED <<inst, readers, process, todo, sess, flags, child, unwinding>>
      /\ UNCHANGED <<report, faults, damos>>
  BY DEF Foreign
<1>2. UNCHANGED <<applied, zones, shadow, refaulted, kind, stats>> /\ sch' = sch
      /\ (sch \in Schemes)' /\ DamosType'
  BY <1>1, DamosKept
<1>3. KernelType /\ ProcessType /\ HarnessType
  BY TypeParts DEF Inv
<1>4. UNCHANGED <<tgt, files, progress, errors, failed, verdict>>
  BY <1>1 DEF process, report
<1>5. kd.own # "nemor" /\ kd' \in Slots /\ kd'.own # "nemor"
  <2>1. kd \in Slots
    BY <1>3 DEF KernelType
  <2>2. CASE kd.own = "none" /\ kd' \in [own : {"foreign"}, on : BOOLEAN, watch : {"other"}]
    BY <2>2 DEF Slots
  <2>3. CASE kd.own = "foreign" /\ kd' = [kd EXCEPT !.on = TRUE]
    BY <2>1, <2>3 DEF Slots
  <2>4. CASE kd.own = "foreign" /\ kd' = NoSlot
    BY <2>4 DEF Slots, NoSlot
  <2>5. CASE kd.own = "foreign" /\ kd' = [kd EXCEPT !.on = FALSE]
    BY <2>1, <2>5 DEF Slots
  <2> QED BY <2>2, <2>3, <2>4, <2>5 DEF Foreign
<1>6. KernelType'
  BY <1>1, <1>3, <1>5 DEF KernelType
<1>7. ProcessType'
  BY <1>3, <1>4 DEF ProcessType
<1>8. acts' \in 0 .. MaxForeign
  BY <1>1, <1>3, HostBounds DEF HarnessType
<1>9. HarnessType'
  BY <1>1, <1>3, <1>4, <1>8 DEF HarnessType
<1>10. TypeOK'
  BY <1>2, <1>6, <1>7, <1>9, TypePartsNext
<1>11. Bounded' /\ PageoutBounded'
  BY <1>2, <1>5 DEF Inv, Bounded, PageoutBounded
<1> QED BY <1>1, <1>2, <1>4, <1>5, <1>10, <1>11, WorldKeeps

(* The target only goes forward, and the decision is not its file. *)
LEMMA TargetInv ==
  ASSUME Inv, Target \/ TargetEnds \/ TargetDies
  PROVE  Inv'
<1>1. TargetOnly
  BY DEF Target, TargetEnds, TargetDies
<1>2. /\ UNCHANGED <<kd, inst, readers, todo, sess, flags, child, unwinding, acts>>
      /\ UNCHANGED <<errors, failed, verdict, kind, sch, applied, zones, stats, shadow>>
  BY <1>1 DEF TargetOnly, kernel, report
<1>3. KernelType /\ ProcessType /\ HarnessType /\ DamosType /\ sch \in Schemes
  BY TypeParts DEF Inv
<1>4. refaulted' = refaulted \/ refaulted' = TRUE
  BY DEF Target, TargetEnds, TargetDies
<1>5. /\ tgt = "none" => tgt' = "none"
      /\ "decision" \in files => "decision" \in files'
  BY DEF Target, TargetEnds, TargetDies, Running, Command
<1>6. ProcessType'
  <2>1. tgt' \in TargetStates
    BY <1>3 DEF Target, TargetEnds, TargetDies, ProcessType, TargetStates
  <2>2. files' \subseteq FileNames
    BY <1>3 DEF Target, TargetEnds, TargetDies, Command, ProcessType, FileNames
  <2>3. progress' \in {"none", "idle", "running", "final"}
    BY <1>3 DEF Target, TargetEnds, TargetDies, ProcessType
  <2> QED BY <2>1, <2>2, <2>3 DEF ProcessType
<1>7. faults' \in 0 .. MaxFaults
  <2>1. faults' = faults \/ Fault
    BY DEF Target, TargetEnds, TargetDies
  <2> QED BY <1>3, <2>1, HostBounds DEF Fault, HarnessType
<1>8. KernelType' /\ HarnessType'
  BY <1>2, <1>3, <1>7 DEF KernelType, HarnessType
<1>9. DamosType' /\ (sch \in Schemes)'
  BY <1>2, <1>3, <1>4 DEF DamosType, Schemes
<1>10. TypeOK'
  BY <1>6, <1>8, <1>9, TypePartsNext
<1>11. Bounded' /\ PageoutBounded'
  BY <1>2, <1>5 DEF Inv, Bounded, Live, PageoutBounded
<1> QED BY <1>2, <1>4, <1>5, <1>10, <1>11, WorldKeeps

(* One apply interval of the kernel: the live scheme has a ceiling, so its  *)
(* quota is not renewed before it ends.                                     *)
LEMMA ApplyInv ==
  ASSUME Inv, Apply
  PROVE  Inv'
<1>1. /\ kd.on /\ kd.own = "nemor"
      /\ sch.ceiling => sch.shots < Ceiling
      /\ UNCHANGED <<host, kind, refaulted, stats, shadow>>
  BY DEF Apply
<1>2. UNCHANGED <<kd, inst, readers, tgt, files, progress, todo, sess, flags, child, unwinding>>
      /\ UNCHANGED <<errors, failed, verdict, faults, acts>>
  BY <1>1 DEF host, kernel, process, report
<1>3. KernelType /\ ProcessType /\ HarnessType /\ DamosType /\ sch \in Schemes
  BY TypeParts DEF Inv
<1>4. Quota \in Nat /\ Ceiling \in Nat /\ ResetTicks \in Nat /\ ResetTicks > 0 /\ Quota > 0
  BY QuotaAssumption
<1>5. /\ sch.shots \in 0 .. Ceiling + ResetTicks /\ sch.spent \in 0 .. Quota + 1
      /\ sch.tried \in BOOLEAN /\ applied \in 0 .. Quota + 1 /\ applied <= Quota
      /\ zones \subseteq {"cold"}
  BY <1>3 DEF Schemes, DamosType, Inv, PageoutBounded
<1>6. PICK tried \in BOOLEAN, n \in 0 .. Room, zone \in Zones :
        /\ n > 0 => tried
        /\ sch.fence => zone = "cold"
        /\ LET shots == IF sch.ceiling THEN sch.shots + 1 ELSE (sch.shots + 1) % ResetTicks
               charged == Capped(sch.spent + n)
           IN sch' = [sch EXCEPT !.shots = shots, !.tried = @ \/ tried,
                                 !.spent = IF shots % ResetTicks = 0 THEN 0 ELSE charged]
        /\ IF sch.action = "pageout" /\ n > 0
           THEN applied' = Capped(applied + n) /\ zones' = zones \union {zone}
           ELSE UNCHANGED <<applied, zones>>
  BY Zenon DEF Apply
<1> DEFINE shots == IF sch.ceiling THEN sch.shots + 1 ELSE (sch.shots + 1) % ResetTicks
           spent == IF shots % ResetTicks = 0 THEN 0 ELSE Capped(sch.spent + n)
<1>7. n \in Nat /\ (sch.quota => n <= Quota - sch.spent)
  BY <1>4, <1>5, <1>6 DEF Room
<1>8. shots \in 0 .. Ceiling + ResetTicks
  <2>1. CASE sch.ceiling
    BY <1>1, <1>4, <1>5, <2>1
  <2>2. CASE ~sch.ceiling
    BY <1>4, <1>5, <2>2
  <2> QED BY <2>1, <2>2
<1>9. spent \in 0 .. Quota + 1
  BY <1>4, <1>5, <1>7 DEF Capped
<1>10. /\ (sch \in Schemes)' /\ sch'.action = sch.action /\ sch'.quota = sch.quota
       /\ sch'.fence = sch.fence /\ sch'.ceiling = sch.ceiling
       /\ sch'.shots = shots /\ sch'.spent = spent
  <2>1. sch' = [sch EXCEPT !.shots = shots, !.tried = sch.tried \/ tried, !.spent = spent]
    BY <1>6
  <2>2. (sch.tried \/ tried) \in BOOLEAN
    OBVIOUS
  <2> HIDE DEF shots, spent
  <2>3. PICK c \in BOOLEAN : sch' = [sch EXCEPT !.shots = shots, !.tried = c, !.spent = spent]
    BY <2>1, <2>2, Zenon
  <2>4. sch \in Schemes
    BY <1>3
  <2>5. /\ sch' \in Schemes /\ sch'.action = sch.action /\ sch'.quota = sch.quota
        /\ sch'.fence = sch.fence /\ sch'.ceiling = sch.ceiling
        /\ sch'.shots = shots /\ sch'.spent = spent
    BY <1>8, <1>9, <2>3, <2>4 DEF Schemes
  <2> QED BY <2>5 DEF Schemes
<1>11. CASE sch.action = "pageout"
  <2>1. Live
    BY <1>1, <1>11 DEF Inv, Bounded
  <2>2. /\ sch.quota /\ sch.fence /\ sch.ceiling /\ sch.spent = applied
        /\ Ceiling < ResetTicks /\ shadow /\ (verdict = "none" => "decision" \in files)
    BY <2>1 DEF Live
  <2>3. shots = sch.shots + 1 /\ shots <= Ceiling /\ shots > 0
    BY <1>1, <1>4, <1>5, <2>2
  <2>4. shots % ResetTicks = shots
    BY <1>4, <1>5, <2>2, <2>3
  <2>5. applied + n <= Quota /\ Capped(applied + n) = applied + n
    BY <1>4, <1>5, <1>7, <2>2 DEF Capped
  <2>6. spent = applied + n
    BY <2>2, <2>3, <2>4, <2>5
  <2>7. applied' = applied + n /\ zones' \subseteq {"cold"}
    BY <1>5, <1>6, <1>7, <1>11, <2>2, <2>5
  <2>8. Bounded'
    <3>1. sch'.quota /\ sch'.fence /\ sch'.ceiling
      BY <1>10, <2>2
    <3>2. sch'.shots <= Ceiling /\ sch'.spent = applied'
      BY <1>10, <2>3, <2>6, <2>7
    <3>3. shadow' /\ (verdict' = "none" => "decision" \in files')
      BY <1>1, <1>2, <2>2
    <3>4. Live'
      BY <2>2, <3>1, <3>2, <3>3 DEF Live
    <3> QED BY <1>10, <1>11, <3>4 DEF Bounded
  <2>9. PageoutBounded'
    BY <2>5, <2>7 DEF PageoutBounded
  <2>10. DamosType'
    BY <1>1, <1>3, <1>4, <1>5, <1>7, <2>5, <2>7 DEF DamosType, Zones
  <2>11. KernelType' /\ ProcessType' /\ HarnessType'
    BY <1>2, <1>3 DEF KernelType, ProcessType, HarnessType
  <2>12. TypeOK'
    BY <1>10, <2>10, <2>11, TypePartsNext
  <2>13. applied > 0 => applied' > 0
    BY <1>5, <1>7, <2>7
  <2> QED BY <1>1, <1>2, <1>10, <1>11, <2>8, <2>9, <2>12, <2>13, WorldKeeps
<1>12. CASE sch.action # "pageout"
  <2>1. UNCHANGED <<applied, zones>>
    BY <1>6, <1>12
  <2>2. Bounded' /\ PageoutBounded'
    BY <1>1, <1>2, <1>10, <1>12, <2>1 DEF Inv, Bounded, PageoutBounded
  <2>3. DamosType'
    BY <1>1, <1>3, <2>1 DEF DamosType
  <2>4. KernelType' /\ ProcessType' /\ HarnessType'
    BY <1>2, <1>3 DEF KernelType, ProcessType, HarnessType
  <2>5. TypeOK'
    BY <1>10, <2>3, <2>4, TypePartsNext
  <2> QED BY <1>1, <1>2, <1>10, <2>1, <2>2, <2>5, WorldKeeps
<1> QED BY <1>11, <1>12

-----------------------------------------------------------------------------
(* The invariant and what follows from it *)

(* The first place has all that is asked of it. *)
LEMMA InitInv == Init => Inv
<1> SUFFICES ASSUME Init PROVE Inv
  OBVIOUS
<1>1. /\ kind \in {"internal", "external"} /\ kd = NoSlot /\ inst = {} /\ readers = {}
      /\ sess = 0 /\ flags = {} /\ child = FALSE /\ unwinding = FALSE
      /\ errors = {} /\ failed = {} /\ verdict = "none" /\ faults = 0 /\ acts = 0
      /\ refaulted = FALSE /\ sch = NoScheme /\ applied = 0 /\ zones = {}
      /\ stats = NoStats /\ shadow = FALSE
  BY DEF Init
<1>2. kd \in Slots /\ kd.own = "none"
  BY <1>1 DEF NoSlot, Slots
<1>3. KernelType
  BY <1>1, <1>2 DEF KernelType
<1>4. ProcessType
  BY DEF Init, ProcessType, TargetStates, FileNames
<1>5. HarnessType
  <2>1. faults \in 0 .. MaxFaults /\ acts \in 0 .. MaxForeign
    BY <1>1, HostBounds
  <2>2. child \in BOOLEAN /\ unwinding \in BOOLEAN
    BY <1>1
  <2> QED BY <1>1, <2>1, <2>2 DEF HarnessType
<1>6. stats \in [tried : BOOLEAN, applied : 0 .. Quota + 1] /\ stats.applied = 0
  BY <1>1, QuotaAssumption DEF NoStats
<1>7. DamosType
  BY <1>1, <1>6, QuotaAssumption DEF DamosType
<1>8. TypeOK
  BY <1>1, <1>3, <1>4, <1>5, <1>7, NoSchemeType, TypeParts
<1>9. Control
  <2>1. PICK k \in 1 .. 2 : todo = From(k)
    BY Begins
  <2>2. k \in 1 .. 70 /\ k \notin {19, 20, 21, 22, 23, 24, 47, 48, 49, 50, 51, 52}
    OBVIOUS
  <2>3. Scheme(k)
    BY <2>2 DEF Scheme
  <2>4. Established(k)
    BY <1>1, <1>2 DEF Established
  <2>5. At(k)
    BY <1>1, <2>1, <2>3, <2>4 DEF At
  <2> QED BY <2>2, <2>5 DEF Control
<1>10. PageoutBounded
  BY <1>1, QuotaAssumption DEF PageoutBounded
<1>11. Bounded /\ Ours /\ Counted /\ PassEarned
  BY <1>1, <1>2, <1>6 DEF Bounded, Ours, Counted, PassEarned
<1> QED BY <1>8, <1>9, <1>10, <1>11 DEF Inv

(* Every step of the harness, of the kernel, of the target and of others. *)
LEMMA NextInv == Inv /\ [Next]_vars => Inv'
<1> SUFFICES ASSUME Inv, [Next]_vars PROVE Inv'
  OBVIOUS
<1>1. CASE Harness
  <2>1. CASE HostStep \/ Capability \/ Identity \/ ColdGate \/ Cleaned
    BY <2>1, HostStepInv, PreflightInv, GateInv
  <2>2. CASE Spawn \/ Accept
    BY <2>2, TargetMoves
  <2>3. CASE Signal
    BY <2>3, TargetMoves, RefaultInv
  <2>4. CASE Await \/ Bounds \/ WriteScheme \/ Monitor
    BY <2>4, AwaitInv, BoundsInv, WriteSchemeInv, MonitorInv
  <2>5. CASE ShadowGate \/ Decide \/ LiveGates \/ AwaitRefault
    BY <2>5, ShadowGateInv, DecideInv, LiveGatesInv, AwaitRefaultInv
  <2>6. CASE WaitExit \/ CleanupGate \/ Close \/ Report
    BY <2>6, WaitExitInv, CleanupGateInv, CloseInv, ReportInv
  <2> QED BY <1>1, <2>1, <2>2, <2>3, <2>4, <2>5, <2>6 DEF Harness
<1>2. CASE World
  BY <1>2, StopsInv, ForeignInv, ApplyInv, TargetInv DEF World
<1>3. CASE UNCHANGED vars
  <2>1. /\ UNCHANGED <<kd, inst, readers, tgt, files, progress, todo, sess, flags, child>>
        /\ UNCHANGED <<unwinding, errors, failed, verdict, faults, acts>>
        /\ UNCHANGED <<kind, refaulted, sch, applied, zones, stats, shadow>>
    BY <1>3 DEF vars, host, damos, kernel, process, report
  <2>2. KernelType' /\ ProcessType' /\ HarnessType' /\ DamosType' /\ (sch \in Schemes)'
    BY <2>1, TypeParts
       DEF Inv, KernelType, ProcessType, HarnessType, DamosType, Schemes
  <2>3. TypeOK'
    BY <2>2, TypePartsNext
  <2>4. Bounded' /\ PageoutBounded'
    BY <2>1 DEF Inv, Bounded, Live, PageoutBounded
  <2> QED BY <2>1, <2>3, <2>4, WorldKeeps
<1> QED BY <1>1, <1>2, <1>3 DEF Next

(* The program counter, the scheme at every place of it, what the places    *)
(* before have established, and the safety properties, in every state of a  *)
(* validate_damos that may fail, stall or lose its target anywhere.         *)
THEOREM Invariant == Spec => []Inv
<1> QED BY InitInv, NextInv, PTL DEF Spec

(* Every variable keeps its type; the counters of the scheme stay within    *)
(* one region beyond the quota (validate_damos, kdamond).                   *)
THEOREM TypeCorrect == Spec => []TypeOK
<1>1. Inv => TypeOK
  BY DEF Inv
<1> QED BY <1>1, Invariant, PTL

(* The live session pages out no more than VALIDATION_BYTE_QUOTA, and only  *)
(* of the COLD zone, however long the harness stalls and also when it can   *)
(* not switch its kdamond off: the deadline that validate_attempt2_bounds   *)
(* checks keeps the snapshot ceiling below the renewal of the quota.        *)
THEOREM PageoutBoundedHolds == Spec => []PageoutBounded
<1>1. Inv => PageoutBounded
  BY DEF Inv
<1> QED BY <1>1, Invariant, PTL

(* No scheme of run_owned_damos_session pages out before the shadow session *)
(* passed its gate and the decision is on disk.                             *)
THEOREM PageoutAuditedHolds == Spec => []PageoutAudited
<1>1. Inv => PageoutAudited
  BY DEF Inv, Bounded, Live, PageoutAudited
<1> QED BY <1>1, Invariant, PTL

(* validate_damos reports a pass only after an applied reclaim, a refault   *)
(* on command and a kernel without a trace of Nemor.                        *)
THEOREM PassEarnedHolds == Spec => []PassEarned
<1>1. Inv => PassEarned
  BY DEF Inv
<1> QED BY <1>1, Invariant, PTL

(* A running target that is not a child stays until it has exited. *)
LEMMA SparedStep ==
  ASSUME Inv, Next, kind = "external", Running
  PROVE  tgt' # "none"
<1>1. tgt # "none" /\ tgt # "exited"
  BY DEF Running
<1>2. CASE HostStep
  <2>1. CASE KillChild
    <3>1. ~child
      BY DEF Inv, Ours
    <3> QED BY <1>1, <2>1, <3>1 DEF KillChild
  <2>2. CASE ~KillChild
    <3>1. UNCHANGED process
      BY <1>2, <2>2 DEF HostStep, Host, WriteReadback, NewGuard, MakeInstance, StartCapture,
        DrainCapture, CheckNoSlot, AwaitStarted, Cleanup, DetachCapture, ReadProgress, JudgeStep,
        Require, Judge
    <3> QED BY <1>1, <3>1 DEF process
  <2> QED BY <2>1, <2>2
<1>3. CASE Await
  <2>1. Step("await")
    BY <1>3 DEF Await
  <2>2. "await" \notin UndoSet /\ "await" \notin {"refault", "await_refault"}
    BY DEF UndoSet
  <2>3. PICK k \in 1 .. 67 : Plan[k] = "await"
    BY <2>1, <2>2, OnPlan DEF Inv
  <2>4. k \in 1 .. 69
    OBVIOUS
  <2>5. kind = "internal"
    BY <2>3, <2>4, Where
  <2> QED BY <2>5
<1>4. CASE Capability \/ Identity \/ ColdGate \/ Bounds \/ Monitor \/ Cleaned \/ ShadowGate
  BY <1>1, <1>4 DEF Capability, Identity, ColdGate, Bounds, Monitor, Cleaned, ShadowGate,
    Require, Judge, Assess, process
<1>5. CASE LiveGates \/ AwaitRefault \/ CleanupGate \/ Close \/ WriteScheme
  BY <1>1, <1>5 DEF LiveGates, AwaitRefault, CleanupGate, Close, WriteScheme, Require, Assess,
    CloseScope, process
<1>6. CASE Spawn \/ Accept \/ Signal \/ Decide \/ WaitExit \/ Report
  BY <1>1, <1>6 DEF Spawn, Accept, Signal, Decide, WaitExit, Report, Conclude
<1>7. CASE World
  <2>1. CASE Stops \/ Foreign \/ Apply
    <3>1. UNCHANGED process
      BY <2>1, Zenon DEF Stops, KernelStops, Foreign, Apply, host
    <3> QED BY <1>1, <3>1 DEF process
  <2>2. CASE Target \/ TargetEnds \/ TargetDies
    BY <1>1, <2>2 DEF Target, TargetEnds, TargetDies
  <2> QED BY <1>7, <2>1, <2>2 DEF World
<1> QED BY <1>2, <1>3, <1>4, <1>5, <1>6, <1>7 DEF Next, Harness

(* DamosTarget never kills or reaps the process of another creator: neither *)
(* an error nor the end of the validation takes it away while it runs.      *)
THEOREM ExternalSparedHolds == Spec => ExternalSpared
<1>1. Inv /\ [Next]_vars => [kind = "external" /\ Running => tgt' # "none"]_vars
  <2> SUFFICES ASSUME Inv, Next, kind = "external", Running
               PROVE  tgt' # "none"
    OBVIOUS
  <2> QED BY SparedStep
<1> QED BY <1>1, Invariant, PTL DEF Spec, ExternalSpared

-----------------------------------------------------------------------------
(* validate_damon: its programs written out *)

\* The preflight, one probe and the ladder: validate_damon up to its final session.
LadderProgram ==
    <<"inspect", "nr_zero", "ladder_size", "nr_zero", "guard", "spawn", "await", "meta",
      "judge", "mkdir", "clock", "event_on", "tracing_on", "capture", "slot",
      "configure", "on", "started", "progress", "start", "window", "off", "stop",
      "drain", "tracing_off", "event_off", "judge", "reap", "rel_on", "rel_slot",
      "rel_tracing", "rel_event", "rel_instance", "evidence", "ladder", "close_damon",
      "report">>

\* What follows the crash worker: the recovery, twice.
LateProgram ==
    <<"rec_begin", "rec_state", "rec_off", "rec_slot", "rec_instance", "rec_file",
      "gate_recovery", "rec_begin", "rec_state", "rec_off", "rec_slot", "rec_instance",
      "rec_file", "restored", "close_damon", "report">>

\* The final session, up to the end of the run.
FinalProgram ==
    <<"guard", "spawn", "await", "start", "progress", "progress", "stop", "terminate",
      "spawn", "await", "meta", "judge", "mkdir", "clock", "event_on", "tracing_on",
      "capture", "slot", "configure", "progress", "on", "started", "start", "judge",
      "window", "off", "stop", "drain", "tracing_off", "event_off", "activity",
      "signal", "overhead", "dataset", "reap", "progress", "fingerprint", "rel_on",
      "rel_slot", "rel_tracing", "rel_event", "rel_instance", "rel_on", "rel_slot",
      "rel_tracing", "rel_event", "rel_instance", "gate_cleanup", "run_worker",
      "rec_begin", "rec_state", "rec_off", "rec_slot", "rec_instance", "rec_file",
      "gate_recovery", "rec_begin", "rec_state", "rec_off", "rec_slot", "rec_instance",
      "rec_file", "restored", "close_damon", "report">>

\* The crash worker and what follows it.
WorkerProgram ==
    <<"nr_zero", "guard", "mkdir", "slot", "configure", "record", "on_self", "started",
      "worker_exit", "rec_begin", "rec_state", "rec_off", "rec_slot", "rec_instance",
      "rec_file", "gate_recovery", "rec_begin", "rec_state", "rec_off", "rec_slot",
      "rec_instance", "rec_file", "restored", "close_damon", "report">>

\* The steps of all programs.
StepNames ==
    {"inspect", "nr_zero", "ladder_size", "guard", "spawn", "await", "meta", "judge",
     "mkdir", "clock", "event_on", "tracing_on", "capture", "slot", "configure", "on",
     "started", "progress", "start", "window", "off", "stop", "drain", "tracing_off",
     "event_off", "reap", "rel_on", "rel_slot", "rel_tracing", "rel_event",
     "rel_instance", "evidence", "ladder", "close_damon", "report", "terminate",
     "activity", "signal", "overhead", "dataset", "fingerprint", "gate_cleanup",
     "run_worker", "rec_begin", "rec_state", "rec_off", "rec_slot", "rec_instance",
     "rec_file", "gate_recovery", "restored", "record", "on_self", "worker_exit",
     "detach", "kill"}

(* The steps of the places 1 to 13. *)
LEMMA LadderProgramPart1 ==
    ASSUME NEW i \in 1 .. 13
    PROVE  \/ i = 1 /\ LadderProgram[i] = "inspect"
           \/ i = 2 /\ LadderProgram[i] = "nr_zero"
           \/ i = 3 /\ LadderProgram[i] = "ladder_size"
           \/ i = 4 /\ LadderProgram[i] = "nr_zero"
           \/ i = 5 /\ LadderProgram[i] = "guard"
           \/ i = 6 /\ LadderProgram[i] = "spawn"
           \/ i = 7 /\ LadderProgram[i] = "await"
           \/ i = 8 /\ LadderProgram[i] = "meta"
           \/ i = 9 /\ LadderProgram[i] = "judge"
           \/ i = 10 /\ LadderProgram[i] = "mkdir"
           \/ i = 11 /\ LadderProgram[i] = "clock"
           \/ i = 12 /\ LadderProgram[i] = "event_on"
           \/ i = 13 /\ LadderProgram[i] = "tracing_on"
<1>1. i = 1 \/ i = 2 \/ i = 3 \/ i = 4 \/ i = 5 \/ i = 6 \/ i = 7 \/ i = 8 \/ i = 9 \/ i =
      10 \/ i = 11 \/ i = 12 \/ i = 13
  OBVIOUS
<1>2. /\ LadderProgram[1] = "inspect"
      /\ LadderProgram[2] = "nr_zero"
      /\ LadderProgram[3] = "ladder_size"
      /\ LadderProgram[4] = "nr_zero"
      /\ LadderProgram[5] = "guard"
      /\ LadderProgram[6] = "spawn"
      /\ LadderProgram[7] = "await"
      /\ LadderProgram[8] = "meta"
      /\ LadderProgram[9] = "judge"
      /\ LadderProgram[10] = "mkdir"
      /\ LadderProgram[11] = "clock"
      /\ LadderProgram[12] = "event_on"
      /\ LadderProgram[13] = "tracing_on"
  BY DEF LadderProgram
<1> QED BY <1>1, <1>2

(* The steps of the places 14 to 26. *)
LEMMA LadderProgramPart2 ==
    ASSUME NEW i \in 14 .. 26
    PROVE  \/ i = 14 /\ LadderProgram[i] = "capture"
           \/ i = 15 /\ LadderProgram[i] = "slot"
           \/ i = 16 /\ LadderProgram[i] = "configure"
           \/ i = 17 /\ LadderProgram[i] = "on"
           \/ i = 18 /\ LadderProgram[i] = "started"
           \/ i = 19 /\ LadderProgram[i] = "progress"
           \/ i = 20 /\ LadderProgram[i] = "start"
           \/ i = 21 /\ LadderProgram[i] = "window"
           \/ i = 22 /\ LadderProgram[i] = "off"
           \/ i = 23 /\ LadderProgram[i] = "stop"
           \/ i = 24 /\ LadderProgram[i] = "drain"
           \/ i = 25 /\ LadderProgram[i] = "tracing_off"
           \/ i = 26 /\ LadderProgram[i] = "event_off"
<1>1. i = 14 \/ i = 15 \/ i = 16 \/ i = 17 \/ i = 18 \/ i = 19 \/ i = 20 \/ i = 21 \/ i =
      22 \/ i = 23 \/ i = 24 \/ i = 25 \/ i = 26
  OBVIOUS
<1>2. /\ LadderProgram[14] = "capture"
      /\ LadderProgram[15] = "slot"
      /\ LadderProgram[16] = "configure"
      /\ LadderProgram[17] = "on"
      /\ LadderProgram[18] = "started"
      /\ LadderProgram[19] = "progress"
      /\ LadderProgram[20] = "start"
      /\ LadderProgram[21] = "window"
      /\ LadderProgram[22] = "off"
      /\ LadderProgram[23] = "stop"
      /\ LadderProgram[24] = "drain"
      /\ LadderProgram[25] = "tracing_off"
      /\ LadderProgram[26] = "event_off"
  BY DEF LadderProgram
<1> QED BY <1>1, <1>2

(* The steps of the places 27 to 37. *)
LEMMA LadderProgramPart3 ==
    ASSUME NEW i \in 27 .. 37
    PROVE  \/ i = 27 /\ LadderProgram[i] = "judge"
           \/ i = 28 /\ LadderProgram[i] = "reap"
           \/ i = 29 /\ LadderProgram[i] = "rel_on"
           \/ i = 30 /\ LadderProgram[i] = "rel_slot"
           \/ i = 31 /\ LadderProgram[i] = "rel_tracing"
           \/ i = 32 /\ LadderProgram[i] = "rel_event"
           \/ i = 33 /\ LadderProgram[i] = "rel_instance"
           \/ i = 34 /\ LadderProgram[i] = "evidence"
           \/ i = 35 /\ LadderProgram[i] = "ladder"
           \/ i = 36 /\ LadderProgram[i] = "close_damon"
           \/ i = 37 /\ LadderProgram[i] = "report"
<1>1. i = 27 \/ i = 28 \/ i = 29 \/ i = 30 \/ i = 31 \/ i = 32 \/ i = 33 \/ i = 34 \/ i =
      35 \/ i = 36 \/ i = 37
  OBVIOUS
<1>2. /\ LadderProgram[27] = "judge"
      /\ LadderProgram[28] = "reap"
      /\ LadderProgram[29] = "rel_on"
      /\ LadderProgram[30] = "rel_slot"
      /\ LadderProgram[31] = "rel_tracing"
      /\ LadderProgram[32] = "rel_event"
      /\ LadderProgram[33] = "rel_instance"
      /\ LadderProgram[34] = "evidence"
      /\ LadderProgram[35] = "ladder"
      /\ LadderProgram[36] = "close_damon"
      /\ LadderProgram[37] = "report"
  BY DEF LadderProgram
<1> QED BY <1>1, <1>2

(* It is a sequence of 37 steps. *)
LEMMA LadderProgramSeq == LadderProgram \in Seq(StepNames) /\ Len(LadderProgram) = 37
<1>1. ASSUME NEW i \in 1 .. 13 PROVE LadderProgram[i] \in StepNames
  BY LadderProgramPart1 DEF StepNames
<1>2. ASSUME NEW i \in 14 .. 26 PROVE LadderProgram[i] \in StepNames
  BY LadderProgramPart2 DEF StepNames
<1>3. ASSUME NEW i \in 27 .. 37 PROVE LadderProgram[i] \in StepNames
  BY LadderProgramPart3 DEF StepNames
<1>4. \A i \in 1 .. 37 : LadderProgram[i] \in StepNames
  <2> SUFFICES ASSUME NEW i \in 1 .. 37 PROVE LadderProgram[i] \in StepNames
    OBVIOUS
  <2>1. i \in 1 .. 13 \/ i \in 14 .. 26 \/ i \in 27 .. 37
    OBVIOUS
  <2> QED BY <2>1, <1>1, <1>2, <1>3
<1>5. LadderProgram = [i \in 1 .. 37 |-> LadderProgram[i]]
  BY DEF LadderProgram
<1>6. LadderProgram \in [1 .. 37 -> StepNames] /\ 37 \in Nat
  BY <1>4, <1>5
<1> QED BY <1>6, TupleSeq, ZenonT(30)

(* Where the steps of interest are. *)
LEMMA LadderProgramWhere ==
    ASSUME NEW i \in 1 .. 37
    PROVE  /\ LadderProgram[i] = "report" => i = 37
           /\ LadderProgram[i] = "close_damon" => i = 36
           /\ LadderProgram[i] = "rel_slot" => i = 30
           /\ LadderProgram[i] = "rel_on" => i = 29
           /\ LadderProgram[i] = "nr_zero" => i \in {2, 4}
           /\ LadderProgram[i] = "guard" => i = 5
           /\ LadderProgram[i] = "ladder" => i = 35
           /\ LadderProgram[i] = "slot" => i = 15
           /\ LadderProgram[i] = "mkdir" => i = 10
           /\ LadderProgram[i] = "capture" => i = 14
           /\ LadderProgram[i] = "drain" => i = 24
           /\ LadderProgram[i] = "spawn" => i = 6
           /\ LadderProgram[i] = "reap" => i = 28
           /\ LadderProgram[i] = "on" => i = 17
           /\ LadderProgram[i] = "off" => i = 22
           /\ LadderProgram[i] = "start" => i = 20
           /\ LadderProgram[i] = "window" => i = 21
           /\ LadderProgram[i] \notin {"run_worker", "terminate", "on_self", "record",
                 "worker_exit", "activity", "fingerprint", "restored",
                 "gate_recovery", "rec_begin", "rec_state", "rec_off",
                 "rec_slot", "rec_instance", "rec_file", "close_damos"}
<1>1. i \in 1 .. 13 \/ i \in 14 .. 26 \/ i \in 27 .. 37
  OBVIOUS
<1>2. CASE i \in 1 .. 13
  BY <1>2, LadderProgramPart1
<1>3. CASE i \in 14 .. 26
  BY <1>3, LadderProgramPart2
<1>4. CASE i \in 27 .. 37
  BY <1>4, LadderProgramPart3
<1> QED BY <1>1, <1>2, <1>3, <1>4

(* The steps of the places 1 to 16. *)
LEMMA LateProgramPart1 ==
    ASSUME NEW i \in 1 .. 16
    PROVE  \/ i = 1 /\ LateProgram[i] = "rec_begin"
           \/ i = 2 /\ LateProgram[i] = "rec_state"
           \/ i = 3 /\ LateProgram[i] = "rec_off"
           \/ i = 4 /\ LateProgram[i] = "rec_slot"
           \/ i = 5 /\ LateProgram[i] = "rec_instance"
           \/ i = 6 /\ LateProgram[i] = "rec_file"
           \/ i = 7 /\ LateProgram[i] = "gate_recovery"
           \/ i = 8 /\ LateProgram[i] = "rec_begin"
           \/ i = 9 /\ LateProgram[i] = "rec_state"
           \/ i = 10 /\ LateProgram[i] = "rec_off"
           \/ i = 11 /\ LateProgram[i] = "rec_slot"
           \/ i = 12 /\ LateProgram[i] = "rec_instance"
           \/ i = 13 /\ LateProgram[i] = "rec_file"
           \/ i = 14 /\ LateProgram[i] = "restored"
           \/ i = 15 /\ LateProgram[i] = "close_damon"
           \/ i = 16 /\ LateProgram[i] = "report"
<1>1. i = 1 \/ i = 2 \/ i = 3 \/ i = 4 \/ i = 5 \/ i = 6 \/ i = 7 \/ i = 8 \/ i = 9 \/ i =
      10 \/ i = 11 \/ i = 12 \/ i = 13 \/ i = 14 \/ i = 15 \/ i = 16
  OBVIOUS
<1>2. /\ LateProgram[1] = "rec_begin"
      /\ LateProgram[2] = "rec_state"
      /\ LateProgram[3] = "rec_off"
      /\ LateProgram[4] = "rec_slot"
      /\ LateProgram[5] = "rec_instance"
      /\ LateProgram[6] = "rec_file"
      /\ LateProgram[7] = "gate_recovery"
      /\ LateProgram[8] = "rec_begin"
      /\ LateProgram[9] = "rec_state"
      /\ LateProgram[10] = "rec_off"
      /\ LateProgram[11] = "rec_slot"
      /\ LateProgram[12] = "rec_instance"
      /\ LateProgram[13] = "rec_file"
      /\ LateProgram[14] = "restored"
      /\ LateProgram[15] = "close_damon"
      /\ LateProgram[16] = "report"
  BY DEF LateProgram
<1> QED BY <1>1, <1>2

(* It is a sequence of 16 steps. *)
LEMMA LateProgramSeq == LateProgram \in Seq(StepNames) /\ Len(LateProgram) = 16
<1>1. ASSUME NEW i \in 1 .. 16 PROVE LateProgram[i] \in StepNames
  BY LateProgramPart1 DEF StepNames
<1>2. \A i \in 1 .. 16 : LateProgram[i] \in StepNames
  <2> SUFFICES ASSUME NEW i \in 1 .. 16 PROVE LateProgram[i] \in StepNames
    OBVIOUS
  <2>1. i \in 1 .. 16
    OBVIOUS
  <2> QED BY <2>1, <1>1
<1>3. LateProgram = [i \in 1 .. 16 |-> LateProgram[i]]
  BY DEF LateProgram
<1>4. LateProgram \in [1 .. 16 -> StepNames] /\ 16 \in Nat
  BY <1>2, <1>3
<1> QED BY <1>4, TupleSeq, ZenonT(30)

(* The steps of the places 1 to 13. *)
LEMMA FinalProgramPart1 ==
    ASSUME NEW i \in 1 .. 13
    PROVE  \/ i = 1 /\ FinalProgram[i] = "guard"
           \/ i = 2 /\ FinalProgram[i] = "spawn"
           \/ i = 3 /\ FinalProgram[i] = "await"
           \/ i = 4 /\ FinalProgram[i] = "start"
           \/ i = 5 /\ FinalProgram[i] = "progress"
           \/ i = 6 /\ FinalProgram[i] = "progress"
           \/ i = 7 /\ FinalProgram[i] = "stop"
           \/ i = 8 /\ FinalProgram[i] = "terminate"
           \/ i = 9 /\ FinalProgram[i] = "spawn"
           \/ i = 10 /\ FinalProgram[i] = "await"
           \/ i = 11 /\ FinalProgram[i] = "meta"
           \/ i = 12 /\ FinalProgram[i] = "judge"
           \/ i = 13 /\ FinalProgram[i] = "mkdir"
<1>1. i = 1 \/ i = 2 \/ i = 3 \/ i = 4 \/ i = 5 \/ i = 6 \/ i = 7 \/ i = 8 \/ i = 9 \/ i =
      10 \/ i = 11 \/ i = 12 \/ i = 13
  OBVIOUS
<1>2. /\ FinalProgram[1] = "guard"
      /\ FinalProgram[2] = "spawn"
      /\ FinalProgram[3] = "await"
      /\ FinalProgram[4] = "start"
      /\ FinalProgram[5] = "progress"
      /\ FinalProgram[6] = "progress"
      /\ FinalProgram[7] = "stop"
      /\ FinalProgram[8] = "terminate"
      /\ FinalProgram[9] = "spawn"
      /\ FinalProgram[10] = "await"
      /\ FinalProgram[11] = "meta"
      /\ FinalProgram[12] = "judge"
      /\ FinalProgram[13] = "mkdir"
  BY DEF FinalProgram
<1> QED BY <1>1, <1>2

(* The steps of the places 14 to 26. *)
LEMMA FinalProgramPart2 ==
    ASSUME NEW i \in 14 .. 26
    PROVE  \/ i = 14 /\ FinalProgram[i] = "clock"
           \/ i = 15 /\ FinalProgram[i] = "event_on"
           \/ i = 16 /\ FinalProgram[i] = "tracing_on"
           \/ i = 17 /\ FinalProgram[i] = "capture"
           \/ i = 18 /\ FinalProgram[i] = "slot"
           \/ i = 19 /\ FinalProgram[i] = "configure"
           \/ i = 20 /\ FinalProgram[i] = "progress"
           \/ i = 21 /\ FinalProgram[i] = "on"
           \/ i = 22 /\ FinalProgram[i] = "started"
           \/ i = 23 /\ FinalProgram[i] = "start"
           \/ i = 24 /\ FinalProgram[i] = "judge"
           \/ i = 25 /\ FinalProgram[i] = "window"
           \/ i = 26 /\ FinalProgram[i] = "off"
<1>1. i = 14 \/ i = 15 \/ i = 16 \/ i = 17 \/ i = 18 \/ i = 19 \/ i = 20 \/ i = 21 \/ i =
      22 \/ i = 23 \/ i = 24 \/ i = 25 \/ i = 26
  OBVIOUS
<1>2. /\ FinalProgram[14] = "clock"
      /\ FinalProgram[15] = "event_on"
      /\ FinalProgram[16] = "tracing_on"
      /\ FinalProgram[17] = "capture"
      /\ FinalProgram[18] = "slot"
      /\ FinalProgram[19] = "configure"
      /\ FinalProgram[20] = "progress"
      /\ FinalProgram[21] = "on"
      /\ FinalProgram[22] = "started"
      /\ FinalProgram[23] = "start"
      /\ FinalProgram[24] = "judge"
      /\ FinalProgram[25] = "window"
      /\ FinalProgram[26] = "off"
  BY DEF FinalProgram
<1> QED BY <1>1, <1>2

(* The steps of the places 27 to 39. *)
LEMMA FinalProgramPart3 ==
    ASSUME NEW i \in 27 .. 39
    PROVE  \/ i = 27 /\ FinalProgram[i] = "stop"
           \/ i = 28 /\ FinalProgram[i] = "drain"
           \/ i = 29 /\ FinalProgram[i] = "tracing_off"
           \/ i = 30 /\ FinalProgram[i] = "event_off"
           \/ i = 31 /\ FinalProgram[i] = "activity"
           \/ i = 32 /\ FinalProgram[i] = "signal"
           \/ i = 33 /\ FinalProgram[i] = "overhead"
           \/ i = 34 /\ FinalProgram[i] = "dataset"
           \/ i = 35 /\ FinalProgram[i] = "reap"
           \/ i = 36 /\ FinalProgram[i] = "progress"
           \/ i = 37 /\ FinalProgram[i] = "fingerprint"
           \/ i = 38 /\ FinalProgram[i] = "rel_on"
           \/ i = 39 /\ FinalProgram[i] = "rel_slot"
<1>1. i = 27 \/ i = 28 \/ i = 29 \/ i = 30 \/ i = 31 \/ i = 32 \/ i = 33 \/ i = 34 \/ i =
      35 \/ i = 36 \/ i = 37 \/ i = 38 \/ i = 39
  OBVIOUS
<1>2. /\ FinalProgram[27] = "stop"
      /\ FinalProgram[28] = "drain"
      /\ FinalProgram[29] = "tracing_off"
      /\ FinalProgram[30] = "event_off"
      /\ FinalProgram[31] = "activity"
      /\ FinalProgram[32] = "signal"
      /\ FinalProgram[33] = "overhead"
      /\ FinalProgram[34] = "dataset"
      /\ FinalProgram[35] = "reap"
      /\ FinalProgram[36] = "progress"
      /\ FinalProgram[37] = "fingerprint"
      /\ FinalProgram[38] = "rel_on"
      /\ FinalProgram[39] = "rel_slot"
  BY DEF FinalProgram
<1> QED BY <1>1, <1>2

(* The steps of the places 40 to 52. *)
LEMMA FinalProgramPart4 ==
    ASSUME NEW i \in 40 .. 52
    PROVE  \/ i = 40 /\ FinalProgram[i] = "rel_tracing"
           \/ i = 41 /\ FinalProgram[i] = "rel_event"
           \/ i = 42 /\ FinalProgram[i] = "rel_instance"
           \/ i = 43 /\ FinalProgram[i] = "rel_on"
           \/ i = 44 /\ FinalProgram[i] = "rel_slot"
           \/ i = 45 /\ FinalProgram[i] = "rel_tracing"
           \/ i = 46 /\ FinalProgram[i] = "rel_event"
           \/ i = 47 /\ FinalProgram[i] = "rel_instance"
           \/ i = 48 /\ FinalProgram[i] = "gate_cleanup"
           \/ i = 49 /\ FinalProgram[i] = "run_worker"
           \/ i = 50 /\ FinalProgram[i] = "rec_begin"
           \/ i = 51 /\ FinalProgram[i] = "rec_state"
           \/ i = 52 /\ FinalProgram[i] = "rec_off"
<1>1. i = 40 \/ i = 41 \/ i = 42 \/ i = 43 \/ i = 44 \/ i = 45 \/ i = 46 \/ i = 47 \/ i =
      48 \/ i = 49 \/ i = 50 \/ i = 51 \/ i = 52
  OBVIOUS
<1>2. /\ FinalProgram[40] = "rel_tracing"
      /\ FinalProgram[41] = "rel_event"
      /\ FinalProgram[42] = "rel_instance"
      /\ FinalProgram[43] = "rel_on"
      /\ FinalProgram[44] = "rel_slot"
      /\ FinalProgram[45] = "rel_tracing"
      /\ FinalProgram[46] = "rel_event"
      /\ FinalProgram[47] = "rel_instance"
      /\ FinalProgram[48] = "gate_cleanup"
      /\ FinalProgram[49] = "run_worker"
      /\ FinalProgram[50] = "rec_begin"
      /\ FinalProgram[51] = "rec_state"
      /\ FinalProgram[52] = "rec_off"
  BY DEF FinalProgram
<1> QED BY <1>1, <1>2

(* The steps of the places 53 to 65. *)
LEMMA FinalProgramPart5 ==
    ASSUME NEW i \in 53 .. 65
    PROVE  \/ i = 53 /\ FinalProgram[i] = "rec_slot"
           \/ i = 54 /\ FinalProgram[i] = "rec_instance"
           \/ i = 55 /\ FinalProgram[i] = "rec_file"
           \/ i = 56 /\ FinalProgram[i] = "gate_recovery"
           \/ i = 57 /\ FinalProgram[i] = "rec_begin"
           \/ i = 58 /\ FinalProgram[i] = "rec_state"
           \/ i = 59 /\ FinalProgram[i] = "rec_off"
           \/ i = 60 /\ FinalProgram[i] = "rec_slot"
           \/ i = 61 /\ FinalProgram[i] = "rec_instance"
           \/ i = 62 /\ FinalProgram[i] = "rec_file"
           \/ i = 63 /\ FinalProgram[i] = "restored"
           \/ i = 64 /\ FinalProgram[i] = "close_damon"
           \/ i = 65 /\ FinalProgram[i] = "report"
<1>1. i = 53 \/ i = 54 \/ i = 55 \/ i = 56 \/ i = 57 \/ i = 58 \/ i = 59 \/ i = 60 \/ i =
      61 \/ i = 62 \/ i = 63 \/ i = 64 \/ i = 65
  OBVIOUS
<1>2. /\ FinalProgram[53] = "rec_slot"
      /\ FinalProgram[54] = "rec_instance"
      /\ FinalProgram[55] = "rec_file"
      /\ FinalProgram[56] = "gate_recovery"
      /\ FinalProgram[57] = "rec_begin"
      /\ FinalProgram[58] = "rec_state"
      /\ FinalProgram[59] = "rec_off"
      /\ FinalProgram[60] = "rec_slot"
      /\ FinalProgram[61] = "rec_instance"
      /\ FinalProgram[62] = "rec_file"
      /\ FinalProgram[63] = "restored"
      /\ FinalProgram[64] = "close_damon"
      /\ FinalProgram[65] = "report"
  BY DEF FinalProgram
<1> QED BY <1>1, <1>2

(* It is a sequence of 65 steps. *)
LEMMA FinalProgramSeq == FinalProgram \in Seq(StepNames) /\ Len(FinalProgram) = 65
<1>1. ASSUME NEW i \in 1 .. 13 PROVE FinalProgram[i] \in StepNames
  BY FinalProgramPart1 DEF StepNames
<1>2. ASSUME NEW i \in 14 .. 26 PROVE FinalProgram[i] \in StepNames
  BY FinalProgramPart2 DEF StepNames
<1>3. ASSUME NEW i \in 27 .. 39 PROVE FinalProgram[i] \in StepNames
  BY FinalProgramPart3 DEF StepNames
<1>4. ASSUME NEW i \in 40 .. 52 PROVE FinalProgram[i] \in StepNames
  BY FinalProgramPart4 DEF StepNames
<1>5. ASSUME NEW i \in 53 .. 65 PROVE FinalProgram[i] \in StepNames
  BY FinalProgramPart5 DEF StepNames
<1>6. \A i \in 1 .. 65 : FinalProgram[i] \in StepNames
  <2> SUFFICES ASSUME NEW i \in 1 .. 65 PROVE FinalProgram[i] \in StepNames
    OBVIOUS
  <2>1. i \in 1 .. 13 \/ i \in 14 .. 26 \/ i \in 27 .. 39 \/ i \in 40 .. 52 \/ i \in 53 .. 65
    OBVIOUS
  <2> QED BY <2>1, <1>1, <1>2, <1>3, <1>4, <1>5
<1>7. FinalProgram = [i \in 1 .. 65 |-> FinalProgram[i]]
  BY DEF FinalProgram
<1>8. FinalProgram \in [1 .. 65 -> StepNames] /\ 65 \in Nat
  BY <1>6, <1>7
<1> QED BY <1>8, TupleSeq, ZenonT(30)

(* Where the steps of interest are. *)
LEMMA FinalProgramWhere ==
    ASSUME NEW i \in 1 .. 65
    PROVE  /\ FinalProgram[i] = "report" => i = 65
           /\ FinalProgram[i] = "close_damon" => i = 64
           /\ FinalProgram[i] = "rel_slot" => i \in {39, 44}
           /\ FinalProgram[i] = "rel_on" => i \in {38, 43}
           /\ FinalProgram[i] = "guard" => i = 1
           /\ FinalProgram[i] = "run_worker" => i = 49
           /\ FinalProgram[i] = "slot" => i = 18
           /\ FinalProgram[i] = "mkdir" => i = 13
           /\ FinalProgram[i] = "capture" => i = 17
           /\ FinalProgram[i] = "drain" => i = 28
           /\ FinalProgram[i] = "spawn" => i \in {2, 9}
           /\ FinalProgram[i] = "reap" => i = 35
           /\ FinalProgram[i] = "terminate" => i = 8
           /\ FinalProgram[i] = "on" => i = 21
           /\ FinalProgram[i] = "off" => i = 26
           /\ FinalProgram[i] = "start" => i \in {4, 23}
           /\ FinalProgram[i] = "activity" => i = 31
           /\ FinalProgram[i] = "window" => i = 25
           /\ FinalProgram[i] = "fingerprint" => i = 37
           /\ FinalProgram[i] = "restored" => i = 63
           /\ FinalProgram[i] = "gate_recovery" => i = 56
           /\ FinalProgram[i] = "rec_begin" => i \in {50, 57}
           /\ FinalProgram[i] = "rec_state" => i \in {51, 58}
           /\ FinalProgram[i] = "rec_off" => i \in {52, 59}
           /\ FinalProgram[i] = "rec_slot" => i \in {53, 60}
           /\ FinalProgram[i] = "rec_instance" => i \in {54, 61}
           /\ FinalProgram[i] = "rec_file" => i \in {55, 62}
           /\ FinalProgram[i] \notin {"nr_zero", "ladder", "on_self", "record",
                 "worker_exit", "close_damos"}
<1>1. i \in 1 .. 13 \/ i \in 14 .. 26 \/ i \in 27 .. 39 \/ i \in 40 .. 52 \/ i \in 53 .. 65
  OBVIOUS
<1>2. CASE i \in 1 .. 13
  BY <1>2, FinalProgramPart1
<1>3. CASE i \in 14 .. 26
  BY <1>3, FinalProgramPart2
<1>4. CASE i \in 27 .. 39
  BY <1>4, FinalProgramPart3
<1>5. CASE i \in 40 .. 52
  BY <1>5, FinalProgramPart4
<1>6. CASE i \in 53 .. 65
  BY <1>6, FinalProgramPart5
<1> QED BY <1>1, <1>2, <1>3, <1>4, <1>5, <1>6

(* The steps of the places 1 to 13. *)
LEMMA WorkerProgramPart1 ==
    ASSUME NEW i \in 1 .. 13
    PROVE  \/ i = 1 /\ WorkerProgram[i] = "nr_zero"
           \/ i = 2 /\ WorkerProgram[i] = "guard"
           \/ i = 3 /\ WorkerProgram[i] = "mkdir"
           \/ i = 4 /\ WorkerProgram[i] = "slot"
           \/ i = 5 /\ WorkerProgram[i] = "configure"
           \/ i = 6 /\ WorkerProgram[i] = "record"
           \/ i = 7 /\ WorkerProgram[i] = "on_self"
           \/ i = 8 /\ WorkerProgram[i] = "started"
           \/ i = 9 /\ WorkerProgram[i] = "worker_exit"
           \/ i = 10 /\ WorkerProgram[i] = "rec_begin"
           \/ i = 11 /\ WorkerProgram[i] = "rec_state"
           \/ i = 12 /\ WorkerProgram[i] = "rec_off"
           \/ i = 13 /\ WorkerProgram[i] = "rec_slot"
<1>1. i = 1 \/ i = 2 \/ i = 3 \/ i = 4 \/ i = 5 \/ i = 6 \/ i = 7 \/ i = 8 \/ i = 9 \/ i =
      10 \/ i = 11 \/ i = 12 \/ i = 13
  OBVIOUS
<1>2. /\ WorkerProgram[1] = "nr_zero"
      /\ WorkerProgram[2] = "guard"
      /\ WorkerProgram[3] = "mkdir"
      /\ WorkerProgram[4] = "slot"
      /\ WorkerProgram[5] = "configure"
      /\ WorkerProgram[6] = "record"
      /\ WorkerProgram[7] = "on_self"
      /\ WorkerProgram[8] = "started"
      /\ WorkerProgram[9] = "worker_exit"
      /\ WorkerProgram[10] = "rec_begin"
      /\ WorkerProgram[11] = "rec_state"
      /\ WorkerProgram[12] = "rec_off"
      /\ WorkerProgram[13] = "rec_slot"
  BY DEF WorkerProgram
<1> QED BY <1>1, <1>2

(* The steps of the places 14 to 25. *)
LEMMA WorkerProgramPart2 ==
    ASSUME NEW i \in 14 .. 25
    PROVE  \/ i = 14 /\ WorkerProgram[i] = "rec_instance"
           \/ i = 15 /\ WorkerProgram[i] = "rec_file"
           \/ i = 16 /\ WorkerProgram[i] = "gate_recovery"
           \/ i = 17 /\ WorkerProgram[i] = "rec_begin"
           \/ i = 18 /\ WorkerProgram[i] = "rec_state"
           \/ i = 19 /\ WorkerProgram[i] = "rec_off"
           \/ i = 20 /\ WorkerProgram[i] = "rec_slot"
           \/ i = 21 /\ WorkerProgram[i] = "rec_instance"
           \/ i = 22 /\ WorkerProgram[i] = "rec_file"
           \/ i = 23 /\ WorkerProgram[i] = "restored"
           \/ i = 24 /\ WorkerProgram[i] = "close_damon"
           \/ i = 25 /\ WorkerProgram[i] = "report"
<1>1. i = 14 \/ i = 15 \/ i = 16 \/ i = 17 \/ i = 18 \/ i = 19 \/ i = 20 \/ i = 21 \/ i =
      22 \/ i = 23 \/ i = 24 \/ i = 25
  OBVIOUS
<1>2. /\ WorkerProgram[14] = "rec_instance"
      /\ WorkerProgram[15] = "rec_file"
      /\ WorkerProgram[16] = "gate_recovery"
      /\ WorkerProgram[17] = "rec_begin"
      /\ WorkerProgram[18] = "rec_state"
      /\ WorkerProgram[19] = "rec_off"
      /\ WorkerProgram[20] = "rec_slot"
      /\ WorkerProgram[21] = "rec_instance"
      /\ WorkerProgram[22] = "rec_file"
      /\ WorkerProgram[23] = "restored"
      /\ WorkerProgram[24] = "close_damon"
      /\ WorkerProgram[25] = "report"
  BY DEF WorkerProgram
<1> QED BY <1>1, <1>2

(* It is a sequence of 25 steps. *)
LEMMA WorkerProgramSeq == WorkerProgram \in Seq(StepNames) /\ Len(WorkerProgram) = 25
<1>1. ASSUME NEW i \in 1 .. 13 PROVE WorkerProgram[i] \in StepNames
  BY WorkerProgramPart1 DEF StepNames
<1>2. ASSUME NEW i \in 14 .. 25 PROVE WorkerProgram[i] \in StepNames
  BY WorkerProgramPart2 DEF StepNames
<1>3. \A i \in 1 .. 25 : WorkerProgram[i] \in StepNames
  <2> SUFFICES ASSUME NEW i \in 1 .. 25 PROVE WorkerProgram[i] \in StepNames
    OBVIOUS
  <2>1. i \in 1 .. 13 \/ i \in 14 .. 25
    OBVIOUS
  <2> QED BY <2>1, <1>1, <1>2
<1>4. WorkerProgram = [i \in 1 .. 25 |-> WorkerProgram[i]]
  BY DEF WorkerProgram
<1>5. WorkerProgram \in [1 .. 25 -> StepNames] /\ 25 \in Nat
  BY <1>3, <1>4
<1> QED BY <1>5, TupleSeq, ZenonT(30)

(* Where the steps of interest are. *)
LEMMA WorkerProgramWhere ==
    ASSUME NEW i \in 1 .. 25
    PROVE  /\ WorkerProgram[i] = "report" => i = 25
           /\ WorkerProgram[i] = "close_damon" => i = 24
           /\ WorkerProgram[i] = "nr_zero" => i = 1
           /\ WorkerProgram[i] = "guard" => i = 2
           /\ WorkerProgram[i] = "slot" => i = 4
           /\ WorkerProgram[i] = "mkdir" => i = 3
           /\ WorkerProgram[i] = "on_self" => i = 7
           /\ WorkerProgram[i] = "record" => i = 6
           /\ WorkerProgram[i] = "worker_exit" => i = 9
           /\ WorkerProgram[i] = "restored" => i = 23
           /\ WorkerProgram[i] = "gate_recovery" => i = 16
           /\ WorkerProgram[i] = "rec_begin" => i \in {10, 17}
           /\ WorkerProgram[i] = "rec_state" => i \in {11, 18}
           /\ WorkerProgram[i] = "rec_off" => i \in {12, 19}
           /\ WorkerProgram[i] = "rec_slot" => i \in {13, 20}
           /\ WorkerProgram[i] = "rec_instance" => i \in {14, 21}
           /\ WorkerProgram[i] = "rec_file" => i \in {15, 22}
           /\ WorkerProgram[i] \notin {"rel_slot", "rel_on", "ladder", "run_worker",
                 "capture", "drain", "spawn", "reap", "terminate", "on", "off",
                 "start", "activity", "window", "fingerprint", "close_damos"}
<1>1. i \in 1 .. 13 \/ i \in 14 .. 25
  OBVIOUS
<1>2. CASE i \in 1 .. 13
  BY <1>2, WorkerProgramPart1
<1>3. CASE i \in 14 .. 25
  BY <1>3, WorkerProgramPart2
<1> QED BY <1>1, <1>2, <1>3

(* Steps that stand in a program from place a on are that part of it. *)
LEMMA PieceOf ==
    ASSUME NEW S, NEW w \in Seq(S), NEW s \in Seq(S), NEW a \in Nat, NEW b \in Nat,
           1 <= a, b <= Len(w), Len(s) = b + 1 - a, a <= b,
           \A i \in 1 .. Len(s) : s[i] = w[a + i - 1]
    PROVE  s = SubSeq(w, a, b)
<1>1. Len(w) \in Nat /\ \A i \in a .. b : w[i] \in S
  BY ElementOfSeq, LenProperties
<1>2. /\ SubSeq(w, a, b) \in Seq(S) /\ Len(SubSeq(w, a, b)) = b + 1 - a
      /\ \A i \in 1 .. b + 1 - a : SubSeq(w, a, b)[i] = w[a + i - 1]
  BY <1>1, SubSeqProperties
<1> QED BY <1>2, SeqEqual

(* Two parts that meet are one. *)
LEMMA PartsMeet ==
    ASSUME NEW S, NEW w \in Seq(S), NEW a \in Nat, NEW b \in Nat, NEW c \in Nat,
           1 <= a, a <= b, b <= c, c <= Len(w)
    PROVE  SubSeq(w, a, b) \o SubSeq(w, b + 1, c) = SubSeq(w, a, c)
<1>1. Len(w) \in Nat
  BY LenProperties
<1>2. a \in 1 .. Len(w) + 1 /\ b \in a - 1 .. Len(w) /\ c \in b .. Len(w)
  BY <1>1
<1> QED BY <1>2, ConcatAdjacentSubSeq

(* The probe in it. *)
LEMMA ProbeIs == ProbeSteps = SubSeq(LadderProgram, 4, 34)
<1>1. LadderProgram \in Seq(StepNames) /\ Len(LadderProgram) = 37
  BY LadderProgramSeq
<1>2. <<"nr_zero", "guard">> = SubSeq(LadderProgram, 4, 5)
  <2> DEFINE s == <<"nr_zero", "guard">>
  <2>1. s \in Seq(StepNames) /\ Len(s) = 2
    BY DEF StepNames
  <2>2. /\ s[1] = LadderProgram[4]
        /\ s[2] = LadderProgram[5]
    BY DEF LadderProgram
  <2>3. \A i \in 1 .. 2 : s[i] = LadderProgram[4 + i - 1]
    <3>1. \A i \in 1 .. 2 : i = 1 \/ i = 2
      OBVIOUS
    <3> HIDE DEF s
    <3> QED BY <2>2, <3>1
  <2> HIDE DEF s
  <2>4. s = SubSeq(LadderProgram, 4, 5)
    BY <1>1, <2>1, <2>3, PieceOf
  <2> QED BY <2>4 DEF s
<1>3. TargetSteps = SubSeq(LadderProgram, 6, 9)
  <2> DEFINE s == TargetSteps
  <2>1. s \in Seq(StepNames) /\ Len(s) = 4
    BY DEF StepNames, TargetSteps
  <2>2. /\ s[1] = LadderProgram[6]
        /\ s[2] = LadderProgram[7]
        /\ s[3] = LadderProgram[8]
        /\ s[4] = LadderProgram[9]
    BY DEF LadderProgram, TargetSteps
  <2>3. \A i \in 1 .. 4 : s[i] = LadderProgram[6 + i - 1]
    <3>1. \A i \in 1 .. 4 : i = 1 \/ i = 2 \/ i = 3 \/ i = 4
      OBVIOUS
    <3> HIDE DEF s
    <3> QED BY <2>2, <3>1
  <2> HIDE DEF s
  <2>4. s = SubSeq(LadderProgram, 6, 9)
    BY <1>1, <2>1, <2>3, PieceOf
  <2> QED BY <2>4 DEF s
<1>4. TraceSteps = SubSeq(LadderProgram, 10, 14)
  <2> DEFINE s == TraceSteps
  <2>1. s \in Seq(StepNames) /\ Len(s) = 5
    BY DEF StepNames, TraceSteps
  <2>2. /\ s[1] = LadderProgram[10]
        /\ s[2] = LadderProgram[11]
        /\ s[3] = LadderProgram[12]
        /\ s[4] = LadderProgram[13]
        /\ s[5] = LadderProgram[14]
    BY DEF LadderProgram, TraceSteps
  <2>3. \A i \in 1 .. 5 : s[i] = LadderProgram[10 + i - 1]
    <3>1. \A i \in 1 .. 5 : i = 1 \/ i = 2 \/ i = 3 \/ i = 4 \/ i = 5
      OBVIOUS
    <3> HIDE DEF s
    <3> QED BY <2>2, <3>1
  <2> HIDE DEF s
  <2>4. s = SubSeq(LadderProgram, 10, 14)
    BY <1>1, <2>1, <2>3, PieceOf
  <2> QED BY <2>4 DEF s
<1>5. AttachSteps = SubSeq(LadderProgram, 15, 19)
  <2> DEFINE s == AttachSteps
  <2>1. s \in Seq(StepNames) /\ Len(s) = 5
    BY DEF StepNames, AttachSteps
  <2>2. /\ s[1] = LadderProgram[15]
        /\ s[2] = LadderProgram[16]
        /\ s[3] = LadderProgram[17]
        /\ s[4] = LadderProgram[18]
        /\ s[5] = LadderProgram[19]
    BY DEF LadderProgram, AttachSteps
  <2>3. \A i \in 1 .. 5 : s[i] = LadderProgram[15 + i - 1]
    <3>1. \A i \in 1 .. 5 : i = 1 \/ i = 2 \/ i = 3 \/ i = 4 \/ i = 5
      OBVIOUS
    <3> HIDE DEF s
    <3> QED BY <2>2, <3>1
  <2> HIDE DEF s
  <2>4. s = SubSeq(LadderProgram, 15, 19)
    BY <1>1, <2>1, <2>3, PieceOf
  <2> QED BY <2>4 DEF s
<1>6. MonitorSteps = SubSeq(LadderProgram, 20, 26)
  <2> DEFINE s == MonitorSteps
  <2>1. s \in Seq(StepNames) /\ Len(s) = 7
    BY DEF StepNames, MonitorSteps
  <2>2. /\ s[1] = LadderProgram[20]
        /\ s[2] = LadderProgram[21]
        /\ s[3] = LadderProgram[22]
        /\ s[4] = LadderProgram[23]
        /\ s[5] = LadderProgram[24]
        /\ s[6] = LadderProgram[25]
        /\ s[7] = LadderProgram[26]
    BY DEF LadderProgram, MonitorSteps
  <2>3. \A i \in 1 .. 7 : s[i] = LadderProgram[20 + i - 1]
    <3>1. \A i \in 1 .. 7 : i = 1 \/ i = 2 \/ i = 3 \/ i = 4 \/ i = 5 \/ i = 6 \/ i = 7
      OBVIOUS
    <3> HIDE DEF s
    <3> QED BY <2>2, <3>1
  <2> HIDE DEF s
  <2>4. s = SubSeq(LadderProgram, 20, 26)
    BY <1>1, <2>1, <2>3, PieceOf
  <2> QED BY <2>4 DEF s
<1>7. <<"judge", "reap">> = SubSeq(LadderProgram, 27, 28)
  <2> DEFINE s == <<"judge", "reap">>
  <2>1. s \in Seq(StepNames) /\ Len(s) = 2
    BY DEF StepNames
  <2>2. /\ s[1] = LadderProgram[27]
        /\ s[2] = LadderProgram[28]
    BY DEF LadderProgram
  <2>3. \A i \in 1 .. 2 : s[i] = LadderProgram[27 + i - 1]
    <3>1. \A i \in 1 .. 2 : i = 1 \/ i = 2
      OBVIOUS
    <3> HIDE DEF s
    <3> QED BY <2>2, <3>1
  <2> HIDE DEF s
  <2>4. s = SubSeq(LadderProgram, 27, 28)
    BY <1>1, <2>1, <2>3, PieceOf
  <2> QED BY <2>4 DEF s
<1>8. Releases = SubSeq(LadderProgram, 29, 33)
  <2> DEFINE s == Releases
  <2>1. s \in Seq(StepNames) /\ Len(s) = 5
    BY DEF StepNames, Releases
  <2>2. /\ s[1] = LadderProgram[29]
        /\ s[2] = LadderProgram[30]
        /\ s[3] = LadderProgram[31]
        /\ s[4] = LadderProgram[32]
        /\ s[5] = LadderProgram[33]
    BY DEF LadderProgram, Releases
  <2>3. \A i \in 1 .. 5 : s[i] = LadderProgram[29 + i - 1]
    <3>1. \A i \in 1 .. 5 : i = 1 \/ i = 2 \/ i = 3 \/ i = 4 \/ i = 5
      OBVIOUS
    <3> HIDE DEF s
    <3> QED BY <2>2, <3>1
  <2> HIDE DEF s
  <2>4. s = SubSeq(LadderProgram, 29, 33)
    BY <1>1, <2>1, <2>3, PieceOf
  <2> QED BY <2>4 DEF s
<1>9. <<"evidence">> = SubSeq(LadderProgram, 34, 34)
  <2> DEFINE s == <<"evidence">>
  <2>1. s \in Seq(StepNames) /\ Len(s) = 1
    BY DEF StepNames
  <2>2. /\ s[1] = LadderProgram[34]
    BY DEF LadderProgram
  <2>3. \A i \in 1 .. 1 : s[i] = LadderProgram[34 + i - 1]
    <3>1. \A i \in 1 .. 1 : i = 1
      OBVIOUS
    <3> HIDE DEF s
    <3> QED BY <2>2, <3>1
  <2> HIDE DEF s
  <2>4. s = SubSeq(LadderProgram, 34, 34)
    BY <1>1, <2>1, <2>3, PieceOf
  <2> QED BY <2>4 DEF s
<1>10. SubSeq(LadderProgram, 4, 5) \o TargetSteps = SubSeq(LadderProgram, 4, 9)
  <2>1. SubSeq(LadderProgram, 4, 5) \o SubSeq(LadderProgram, 5 + 1, 9) = SubSeq(LadderProgram, 4, 9)
    BY <1>1, PartsMeet
  <2>2. 5 + 1 = 6
    OBVIOUS
  <2> QED BY <2>1, <2>2, <1>3
<1>11. SubSeq(LadderProgram, 4, 9) \o TraceSteps = SubSeq(LadderProgram, 4, 14)
  <2>1. SubSeq(LadderProgram, 4, 9) \o SubSeq(LadderProgram, 9 + 1, 14) =
            SubSeq(LadderProgram, 4, 14)
    BY <1>1, PartsMeet
  <2>2. 9 + 1 = 10
    OBVIOUS
  <2> QED BY <2>1, <2>2, <1>4
<1>12. SubSeq(LadderProgram, 4, 14) \o AttachSteps = SubSeq(LadderProgram, 4, 19)
  <2>1. SubSeq(LadderProgram, 4, 14) \o SubSeq(LadderProgram, 14 + 1, 19) =
            SubSeq(LadderProgram, 4, 19)
    BY <1>1, PartsMeet
  <2>2. 14 + 1 = 15
    OBVIOUS
  <2> QED BY <2>1, <2>2, <1>5
<1>13. SubSeq(LadderProgram, 4, 19) \o MonitorSteps = SubSeq(LadderProgram, 4, 26)
  <2>1. SubSeq(LadderProgram, 4, 19) \o SubSeq(LadderProgram, 19 + 1, 26) =
            SubSeq(LadderProgram, 4, 26)
    BY <1>1, PartsMeet
  <2>2. 19 + 1 = 20
    OBVIOUS
  <2> QED BY <2>1, <2>2, <1>6
<1>14. SubSeq(LadderProgram, 4, 26) \o <<"judge", "reap">> = SubSeq(LadderProgram, 4, 28)
  <2>1. SubSeq(LadderProgram, 4, 26) \o SubSeq(LadderProgram, 26 + 1, 28) =
            SubSeq(LadderProgram, 4, 28)
    BY <1>1, PartsMeet
  <2>2. 26 + 1 = 27
    OBVIOUS
  <2> QED BY <2>1, <2>2, <1>7
<1>15. SubSeq(LadderProgram, 4, 28) \o Releases = SubSeq(LadderProgram, 4, 33)
  <2>1. SubSeq(LadderProgram, 4, 28) \o SubSeq(LadderProgram, 28 + 1, 33) =
            SubSeq(LadderProgram, 4, 33)
    BY <1>1, PartsMeet
  <2>2. 28 + 1 = 29
    OBVIOUS
  <2> QED BY <2>1, <2>2, <1>8
<1>16. SubSeq(LadderProgram, 4, 33) \o <<"evidence">> = SubSeq(LadderProgram, 4, 34)
  <2>1. SubSeq(LadderProgram, 4, 33) \o SubSeq(LadderProgram, 33 + 1, 34) =
            SubSeq(LadderProgram, 4, 34)
    BY <1>1, PartsMeet
  <2>2. 33 + 1 = 34
    OBVIOUS
  <2> QED BY <2>1, <2>2, <1>9
<1>17. ProbeSteps = SubSeq(LadderProgram, 4, 34)
  BY <1>2, <1>10, <1>11, <1>12, <1>13, <1>14, <1>15, <1>16, Zenon DEF ProbeSteps
<1> QED BY <1>17

(* The harness starts at the beginning of its program. *)
LEMMA StartIs == DamonSteps \o <<"report">> = LadderProgram
<1>1. LadderProgram \in Seq(StepNames) /\ Len(LadderProgram) = 37
  BY LadderProgramSeq
<1>2. DamonPreflight = SubSeq(LadderProgram, 1, 3)
  <2> DEFINE s == DamonPreflight
  <2>1. s \in Seq(StepNames) /\ Len(s) = 3
    BY DEF StepNames, DamonPreflight
  <2>2. /\ s[1] = LadderProgram[1]
        /\ s[2] = LadderProgram[2]
        /\ s[3] = LadderProgram[3]
    BY DEF LadderProgram, DamonPreflight
  <2>3. \A i \in 1 .. 3 : s[i] = LadderProgram[1 + i - 1]
    <3>1. \A i \in 1 .. 3 : i = 1 \/ i = 2 \/ i = 3
      OBVIOUS
    <3> HIDE DEF s
    <3> QED BY <2>2, <3>1
  <2> HIDE DEF s
  <2>4. s = SubSeq(LadderProgram, 1, 3)
    BY <1>1, <2>1, <2>3, PieceOf
  <2> QED BY <2>4 DEF s
<1>3. <<"ladder", "close_damon">> = SubSeq(LadderProgram, 35, 36)
  <2> DEFINE s == <<"ladder", "close_damon">>
  <2>1. s \in Seq(StepNames) /\ Len(s) = 2
    BY DEF StepNames
  <2>2. /\ s[1] = LadderProgram[35]
        /\ s[2] = LadderProgram[36]
    BY DEF LadderProgram
  <2>3. \A i \in 1 .. 2 : s[i] = LadderProgram[35 + i - 1]
    <3>1. \A i \in 1 .. 2 : i = 1 \/ i = 2
      OBVIOUS
    <3> HIDE DEF s
    <3> QED BY <2>2, <3>1
  <2> HIDE DEF s
  <2>4. s = SubSeq(LadderProgram, 35, 36)
    BY <1>1, <2>1, <2>3, PieceOf
  <2> QED BY <2>4 DEF s
<1>4. SubSeq(LadderProgram, 1, 3) \o ProbeSteps = SubSeq(LadderProgram, 1, 34)
  <2>1. SubSeq(LadderProgram, 1, 3) \o SubSeq(LadderProgram, 3 + 1, 34) =
            SubSeq(LadderProgram, 1, 34)
    BY <1>1, PartsMeet
  <2>2. 3 + 1 = 4
    OBVIOUS
  <2> QED BY <2>1, <2>2, ProbeIs
<1>5. SubSeq(LadderProgram, 1, 34) \o <<"ladder", "close_damon">> = SubSeq(LadderProgram, 1, 36)
  <2>1. SubSeq(LadderProgram, 1, 34) \o SubSeq(LadderProgram, 34 + 1, 36) =
            SubSeq(LadderProgram, 1, 36)
    BY <1>1, PartsMeet
  <2>2. 34 + 1 = 35
    OBVIOUS
  <2> QED BY <2>1, <2>2, <1>3
<1>6. DamonSteps = SubSeq(LadderProgram, 1, 36)
  BY <1>2, <1>4, <1>5, Zenon DEF DamonSteps
<1>7. <<"report">> = SubSeq(LadderProgram, 37, 37)
  <2> DEFINE s == <<"report">>
  <2>1. s \in Seq(StepNames) /\ Len(s) = 1
    BY DEF StepNames
  <2>2. /\ s[1] = LadderProgram[37]
    BY DEF LadderProgram
  <2>3. \A i \in 1 .. 1 : s[i] = LadderProgram[37 + i - 1]
    <3>1. \A i \in 1 .. 1 : i = 1
      OBVIOUS
    <3> HIDE DEF s
    <3> QED BY <2>2, <3>1
  <2> HIDE DEF s
  <2>4. s = SubSeq(LadderProgram, 37, 37)
    BY <1>1, <2>1, <2>3, PieceOf
  <2> QED BY <2>4 DEF s
<1>8. SubSeq(LadderProgram, 1, 36) \o <<"report">> = SubSeq(LadderProgram, 1, 37)
  <2>1. SubSeq(LadderProgram, 1, 36) \o SubSeq(LadderProgram, 36 + 1, 37) =
            SubSeq(LadderProgram, 1, 37)
    BY <1>1, PartsMeet
  <2>2. 36 + 1 = 37
    OBVIOUS
  <2> QED BY <2>1, <2>2, <1>7
<1>9. DamonSteps \o <<"report">> = SubSeq(LadderProgram, 1, 37)
  BY <1>6, <1>8, Zenon
<1>10. SubSeq(LadderProgram, 1, 37) = LadderProgram
  BY <1>1, SubSeqFull
<1> QED BY <1>9, <1>10

(* Another rung is the program from its probe on. *)
LEMMA LadderIs == ProbeSteps \o <<"ladder", "close_damon", "report">> = SubSeq(LadderProgram, 4, 37)
<1>1. LadderProgram \in Seq(StepNames) /\ Len(LadderProgram) = 37
  BY LadderProgramSeq
<1>2. <<"ladder", "close_damon", "report">> = SubSeq(LadderProgram, 35, 37)
  <2> DEFINE s == <<"ladder", "close_damon", "report">>
  <2>1. s \in Seq(StepNames) /\ Len(s) = 3
    BY DEF StepNames
  <2>2. /\ s[1] = LadderProgram[35]
        /\ s[2] = LadderProgram[36]
        /\ s[3] = LadderProgram[37]
    BY DEF LadderProgram
  <2>3. \A i \in 1 .. 3 : s[i] = LadderProgram[35 + i - 1]
    <3>1. \A i \in 1 .. 3 : i = 1 \/ i = 2 \/ i = 3
      OBVIOUS
    <3> HIDE DEF s
    <3> QED BY <2>2, <3>1
  <2> HIDE DEF s
  <2>4. s = SubSeq(LadderProgram, 35, 37)
    BY <1>1, <2>1, <2>3, PieceOf
  <2> QED BY <2>4 DEF s
<1>3. SubSeq(LadderProgram, 4, 34) \o <<"ladder", "close_damon", "report">> =
          SubSeq(LadderProgram, 4, 37)
  <2>1. SubSeq(LadderProgram, 4, 34) \o SubSeq(LadderProgram, 34 + 1, 37) =
            SubSeq(LadderProgram, 4, 37)
    BY <1>1, PartsMeet
  <2>2. 34 + 1 = 35
    OBVIOUS
  <2> QED BY <2>1, <2>2, <1>2
<1>4. ProbeSteps \o <<"ladder", "close_damon", "report">> = SubSeq(LadderProgram, 4, 37)
  BY ProbeIs, <1>3, Zenon
<1> QED BY <1>4

(* The final session. *)
LEMMA FinalIs == FinalSteps \o <<"close_damon", "report">> = FinalProgram
<1>1. FinalProgram \in Seq(StepNames) /\ Len(FinalProgram) = 65
  BY FinalProgramSeq
<1>2. BaselineSteps = SubSeq(FinalProgram, 1, 8)
  <2> DEFINE s == BaselineSteps
  <2>1. s \in Seq(StepNames) /\ Len(s) = 8
    BY DEF StepNames, BaselineSteps
  <2>2. /\ s[1] = FinalProgram[1]
        /\ s[2] = FinalProgram[2]
        /\ s[3] = FinalProgram[3]
        /\ s[4] = FinalProgram[4]
        /\ s[5] = FinalProgram[5]
        /\ s[6] = FinalProgram[6]
        /\ s[7] = FinalProgram[7]
        /\ s[8] = FinalProgram[8]
    BY DEF FinalProgram, BaselineSteps
  <2>3. \A i \in 1 .. 8 : s[i] = FinalProgram[1 + i - 1]
    <3>1. \A i \in 1 .. 8 : i = 1 \/ i = 2 \/ i = 3 \/ i = 4 \/ i = 5 \/ i = 6 \/ i = 7 \/ i = 8
      OBVIOUS
    <3> HIDE DEF s
    <3> QED BY <2>2, <3>1
  <2> HIDE DEF s
  <2>4. s = SubSeq(FinalProgram, 1, 8)
    BY <1>1, <2>1, <2>3, PieceOf
  <2> QED BY <2>4 DEF s
<1>3. TargetSteps = SubSeq(FinalProgram, 9, 12)
  <2> DEFINE s == TargetSteps
  <2>1. s \in Seq(StepNames) /\ Len(s) = 4
    BY DEF StepNames, TargetSteps
  <2>2. /\ s[1] = FinalProgram[9]
        /\ s[2] = FinalProgram[10]
        /\ s[3] = FinalProgram[11]
        /\ s[4] = FinalProgram[12]
    BY DEF FinalProgram, TargetSteps
  <2>3. \A i \in 1 .. 4 : s[i] = FinalProgram[9 + i - 1]
    <3>1. \A i \in 1 .. 4 : i = 1 \/ i = 2 \/ i = 3 \/ i = 4
      OBVIOUS
    <3> HIDE DEF s
    <3> QED BY <2>2, <3>1
  <2> HIDE DEF s
  <2>4. s = SubSeq(FinalProgram, 9, 12)
    BY <1>1, <2>1, <2>3, PieceOf
  <2> QED BY <2>4 DEF s
<1>4. TraceSteps = SubSeq(FinalProgram, 13, 17)
  <2> DEFINE s == TraceSteps
  <2>1. s \in Seq(StepNames) /\ Len(s) = 5
    BY DEF StepNames, TraceSteps
  <2>2. /\ s[1] = FinalProgram[13]
        /\ s[2] = FinalProgram[14]
        /\ s[3] = FinalProgram[15]
        /\ s[4] = FinalProgram[16]
        /\ s[5] = FinalProgram[17]
    BY DEF FinalProgram, TraceSteps
  <2>3. \A i \in 1 .. 5 : s[i] = FinalProgram[13 + i - 1]
    <3>1. \A i \in 1 .. 5 : i = 1 \/ i = 2 \/ i = 3 \/ i = 4 \/ i = 5
      OBVIOUS
    <3> HIDE DEF s
    <3> QED BY <2>2, <3>1
  <2> HIDE DEF s
  <2>4. s = SubSeq(FinalProgram, 13, 17)
    BY <1>1, <2>1, <2>3, PieceOf
  <2> QED BY <2>4 DEF s
<1>5. <<"slot", "configure", "progress", "on", "started">> = SubSeq(FinalProgram, 18, 22)
  <2> DEFINE s == <<"slot", "configure", "progress", "on", "started">>
  <2>1. s \in Seq(StepNames) /\ Len(s) = 5
    BY DEF StepNames
  <2>2. /\ s[1] = FinalProgram[18]
        /\ s[2] = FinalProgram[19]
        /\ s[3] = FinalProgram[20]
        /\ s[4] = FinalProgram[21]
        /\ s[5] = FinalProgram[22]
    BY DEF FinalProgram
  <2>3. \A i \in 1 .. 5 : s[i] = FinalProgram[18 + i - 1]
    <3>1. \A i \in 1 .. 5 : i = 1 \/ i = 2 \/ i = 3 \/ i = 4 \/ i = 5
      OBVIOUS
    <3> HIDE DEF s
    <3> QED BY <2>2, <3>1
  <2> HIDE DEF s
  <2>4. s = SubSeq(FinalProgram, 18, 22)
    BY <1>1, <2>1, <2>3, PieceOf
  <2> QED BY <2>4 DEF s
<1>6. <<"start", "judge", "window", "off", "stop", "drain", "tracing_off", "event_off">> =
          SubSeq(FinalProgram, 23, 30)
  <2> DEFINE s == <<"start", "judge", "window", "off", "stop", "drain", "tracing_off", "event_off">>
  <2>1. s \in Seq(StepNames) /\ Len(s) = 8
    BY DEF StepNames
  <2>2. /\ s[1] = FinalProgram[23]
        /\ s[2] = FinalProgram[24]
        /\ s[3] = FinalProgram[25]
        /\ s[4] = FinalProgram[26]
        /\ s[5] = FinalProgram[27]
        /\ s[6] = FinalProgram[28]
        /\ s[7] = FinalProgram[29]
        /\ s[8] = FinalProgram[30]
    BY DEF FinalProgram
  <2>3. \A i \in 1 .. 8 : s[i] = FinalProgram[23 + i - 1]
    <3>1. \A i \in 1 .. 8 : i = 1 \/ i = 2 \/ i = 3 \/ i = 4 \/ i = 5 \/ i = 6 \/ i = 7 \/ i = 8
      OBVIOUS
    <3> HIDE DEF s
    <3> QED BY <2>2, <3>1
  <2> HIDE DEF s
  <2>4. s = SubSeq(FinalProgram, 23, 30)
    BY <1>1, <2>1, <2>3, PieceOf
  <2> QED BY <2>4 DEF s
<1>7. SubSeq(FinalProgram, 9, 12) \o TraceSteps = SubSeq(FinalProgram, 9, 17)
  <2>1. SubSeq(FinalProgram, 9, 12) \o SubSeq(FinalProgram, 12 + 1, 17) =
            SubSeq(FinalProgram, 9, 17)
    BY <1>1, PartsMeet
  <2>2. 12 + 1 = 13
    OBVIOUS
  <2> QED BY <2>1, <2>2, <1>4
<1>8. SubSeq(FinalProgram, 9, 17) \o <<"slot", "configure", "progress", "on", "started">> =
          SubSeq(FinalProgram, 9, 22)
  <2>1. SubSeq(FinalProgram, 9, 17) \o SubSeq(FinalProgram, 17 + 1, 22) =
            SubSeq(FinalProgram, 9, 22)
    BY <1>1, PartsMeet
  <2>2. 17 + 1 = 18
    OBVIOUS
  <2> QED BY <2>1, <2>2, <1>5
<1>9. SubSeq(FinalProgram, 9, 22) \o <<"start", "judge", "window", "off", "stop", "drain",
          "tracing_off", "event_off">> = SubSeq(FinalProgram, 9, 30)
  <2>1. SubSeq(FinalProgram, 9, 22) \o SubSeq(FinalProgram, 22 + 1, 30) =
            SubSeq(FinalProgram, 9, 30)
    BY <1>1, PartsMeet
  <2>2. 22 + 1 = 23
    OBVIOUS
  <2> QED BY <2>1, <2>2, <1>6
<1>10. FinalSessionSteps = SubSeq(FinalProgram, 9, 30)
  BY <1>3, <1>7, <1>8, <1>9, Zenon DEF FinalSessionSteps
<1>11. <<"activity", "signal", "overhead", "dataset", "reap", "progress", "fingerprint">> =
           SubSeq(FinalProgram, 31, 37)
  <2> DEFINE s == <<"activity", "signal", "overhead", "dataset", "reap", "progress", "fingerprint">>
  <2>1. s \in Seq(StepNames) /\ Len(s) = 7
    BY DEF StepNames
  <2>2. /\ s[1] = FinalProgram[31]
        /\ s[2] = FinalProgram[32]
        /\ s[3] = FinalProgram[33]
        /\ s[4] = FinalProgram[34]
        /\ s[5] = FinalProgram[35]
        /\ s[6] = FinalProgram[36]
        /\ s[7] = FinalProgram[37]
    BY DEF FinalProgram
  <2>3. \A i \in 1 .. 7 : s[i] = FinalProgram[31 + i - 1]
    <3>1. \A i \in 1 .. 7 : i = 1 \/ i = 2 \/ i = 3 \/ i = 4 \/ i = 5 \/ i = 6 \/ i = 7
      OBVIOUS
    <3> HIDE DEF s
    <3> QED BY <2>2, <3>1
  <2> HIDE DEF s
  <2>4. s = SubSeq(FinalProgram, 31, 37)
    BY <1>1, <2>1, <2>3, PieceOf
  <2> QED BY <2>4 DEF s
<1>12. Releases = SubSeq(FinalProgram, 38, 42)
  <2> DEFINE s == Releases
  <2>1. s \in Seq(StepNames) /\ Len(s) = 5
    BY DEF StepNames, Releases
  <2>2. /\ s[1] = FinalProgram[38]
        /\ s[2] = FinalProgram[39]
        /\ s[3] = FinalProgram[40]
        /\ s[4] = FinalProgram[41]
        /\ s[5] = FinalProgram[42]
    BY DEF FinalProgram, Releases
  <2>3. \A i \in 1 .. 5 : s[i] = FinalProgram[38 + i - 1]
    <3>1. \A i \in 1 .. 5 : i = 1 \/ i = 2 \/ i = 3 \/ i = 4 \/ i = 5
      OBVIOUS
    <3> HIDE DEF s
    <3> QED BY <2>2, <3>1
  <2> HIDE DEF s
  <2>4. s = SubSeq(FinalProgram, 38, 42)
    BY <1>1, <2>1, <2>3, PieceOf
  <2> QED BY <2>4 DEF s
<1>13. Releases = SubSeq(FinalProgram, 43, 47)
  <2> DEFINE s == Releases
  <2>1. s \in Seq(StepNames) /\ Len(s) = 5
    BY DEF StepNames, Releases
  <2>2. /\ s[1] = FinalProgram[43]
        /\ s[2] = FinalProgram[44]
        /\ s[3] = FinalProgram[45]
        /\ s[4] = FinalProgram[46]
        /\ s[5] = FinalProgram[47]
    BY DEF FinalProgram, Releases
  <2>3. \A i \in 1 .. 5 : s[i] = FinalProgram[43 + i - 1]
    <3>1. \A i \in 1 .. 5 : i = 1 \/ i = 2 \/ i = 3 \/ i = 4 \/ i = 5
      OBVIOUS
    <3> HIDE DEF s
    <3> QED BY <2>2, <3>1
  <2> HIDE DEF s
  <2>4. s = SubSeq(FinalProgram, 43, 47)
    BY <1>1, <2>1, <2>3, PieceOf
  <2> QED BY <2>4 DEF s
<1>14. <<"gate_cleanup">> = SubSeq(FinalProgram, 48, 48)
  <2> DEFINE s == <<"gate_cleanup">>
  <2>1. s \in Seq(StepNames) /\ Len(s) = 1
    BY DEF StepNames
  <2>2. /\ s[1] = FinalProgram[48]
    BY DEF FinalProgram
  <2>3. \A i \in 1 .. 1 : s[i] = FinalProgram[48 + i - 1]
    <3>1. \A i \in 1 .. 1 : i = 1
      OBVIOUS
    <3> HIDE DEF s
    <3> QED BY <2>2, <3>1
  <2> HIDE DEF s
  <2>4. s = SubSeq(FinalProgram, 48, 48)
    BY <1>1, <2>1, <2>3, PieceOf
  <2> QED BY <2>4 DEF s
<1>15. SubSeq(FinalProgram, 31, 37) \o Releases = SubSeq(FinalProgram, 31, 42)
  <2>1. SubSeq(FinalProgram, 31, 37) \o SubSeq(FinalProgram, 37 + 1, 42) =
            SubSeq(FinalProgram, 31, 42)
    BY <1>1, PartsMeet
  <2>2. 37 + 1 = 38
    OBVIOUS
  <2> QED BY <2>1, <2>2, <1>12
<1>16. SubSeq(FinalProgram, 31, 42) \o Releases = SubSeq(FinalProgram, 31, 47)
  <2>1. SubSeq(FinalProgram, 31, 42) \o SubSeq(FinalProgram, 42 + 1, 47) =
            SubSeq(FinalProgram, 31, 47)
    BY <1>1, PartsMeet
  <2>2. 42 + 1 = 43
    OBVIOUS
  <2> QED BY <2>1, <2>2, <1>13
<1>17. SubSeq(FinalProgram, 31, 47) \o <<"gate_cleanup">> = SubSeq(FinalProgram, 31, 48)
  <2>1. SubSeq(FinalProgram, 31, 47) \o SubSeq(FinalProgram, 47 + 1, 48) =
            SubSeq(FinalProgram, 31, 48)
    BY <1>1, PartsMeet
  <2>2. 47 + 1 = 48
    OBVIOUS
  <2> QED BY <2>1, <2>2, <1>14
<1>18. FinalEndSteps = SubSeq(FinalProgram, 31, 48)
  BY <1>11, <1>15, <1>16, <1>17, Zenon DEF FinalEndSteps
<1>19. <<"run_worker">> = SubSeq(FinalProgram, 49, 49)
  <2> DEFINE s == <<"run_worker">>
  <2>1. s \in Seq(StepNames) /\ Len(s) = 1
    BY DEF StepNames
  <2>2. /\ s[1] = FinalProgram[49]
    BY DEF FinalProgram
  <2>3. \A i \in 1 .. 1 : s[i] = FinalProgram[49 + i - 1]
    <3>1. \A i \in 1 .. 1 : i = 1
      OBVIOUS
    <3> HIDE DEF s
    <3> QED BY <2>2, <3>1
  <2> HIDE DEF s
  <2>4. s = SubSeq(FinalProgram, 49, 49)
    BY <1>1, <2>1, <2>3, PieceOf
  <2> QED BY <2>4 DEF s
<1>20. RecoverSteps = SubSeq(FinalProgram, 50, 55)
  <2> DEFINE s == RecoverSteps
  <2>1. s \in Seq(StepNames) /\ Len(s) = 6
    BY DEF StepNames, RecoverSteps
  <2>2. /\ s[1] = FinalProgram[50]
        /\ s[2] = FinalProgram[51]
        /\ s[3] = FinalProgram[52]
        /\ s[4] = FinalProgram[53]
        /\ s[5] = FinalProgram[54]
        /\ s[6] = FinalProgram[55]
    BY DEF FinalProgram, RecoverSteps
  <2>3. \A i \in 1 .. 6 : s[i] = FinalProgram[50 + i - 1]
    <3>1. \A i \in 1 .. 6 : i = 1 \/ i = 2 \/ i = 3 \/ i = 4 \/ i = 5 \/ i = 6
      OBVIOUS
    <3> HIDE DEF s
    <3> QED BY <2>2, <3>1
  <2> HIDE DEF s
  <2>4. s = SubSeq(FinalProgram, 50, 55)
    BY <1>1, <2>1, <2>3, PieceOf
  <2> QED BY <2>4 DEF s
<1>21. <<"gate_recovery">> = SubSeq(FinalProgram, 56, 56)
  <2> DEFINE s == <<"gate_recovery">>
  <2>1. s \in Seq(StepNames) /\ Len(s) = 1
    BY DEF StepNames
  <2>2. /\ s[1] = FinalProgram[56]
    BY DEF FinalProgram
  <2>3. \A i \in 1 .. 1 : s[i] = FinalProgram[56 + i - 1]
    <3>1. \A i \in 1 .. 1 : i = 1
      OBVIOUS
    <3> HIDE DEF s
    <3> QED BY <2>2, <3>1
  <2> HIDE DEF s
  <2>4. s = SubSeq(FinalProgram, 56, 56)
    BY <1>1, <2>1, <2>3, PieceOf
  <2> QED BY <2>4 DEF s
<1>22. RecoverSteps = SubSeq(FinalProgram, 57, 62)
  <2> DEFINE s == RecoverSteps
  <2>1. s \in Seq(StepNames) /\ Len(s) = 6
    BY DEF StepNames, RecoverSteps
  <2>2. /\ s[1] = FinalProgram[57]
        /\ s[2] = FinalProgram[58]
        /\ s[3] = FinalProgram[59]
        /\ s[4] = FinalProgram[60]
        /\ s[5] = FinalProgram[61]
        /\ s[6] = FinalProgram[62]
    BY DEF FinalProgram, RecoverSteps
  <2>3. \A i \in 1 .. 6 : s[i] = FinalProgram[57 + i - 1]
    <3>1. \A i \in 1 .. 6 : i = 1 \/ i = 2 \/ i = 3 \/ i = 4 \/ i = 5 \/ i = 6
      OBVIOUS
    <3> HIDE DEF s
    <3> QED BY <2>2, <3>1
  <2> HIDE DEF s
  <2>4. s = SubSeq(FinalProgram, 57, 62)
    BY <1>1, <2>1, <2>3, PieceOf
  <2> QED BY <2>4 DEF s
<1>23. <<"restored">> = SubSeq(FinalProgram, 63, 63)
  <2> DEFINE s == <<"restored">>
  <2>1. s \in Seq(StepNames) /\ Len(s) = 1
    BY DEF StepNames
  <2>2. /\ s[1] = FinalProgram[63]
    BY DEF FinalProgram
  <2>3. \A i \in 1 .. 1 : s[i] = FinalProgram[63 + i - 1]
    <3>1. \A i \in 1 .. 1 : i = 1
      OBVIOUS
    <3> HIDE DEF s
    <3> QED BY <2>2, <3>1
  <2> HIDE DEF s
  <2>4. s = SubSeq(FinalProgram, 63, 63)
    BY <1>1, <2>1, <2>3, PieceOf
  <2> QED BY <2>4 DEF s
<1>24. SubSeq(FinalProgram, 1, 8) \o FinalSessionSteps = SubSeq(FinalProgram, 1, 30)
  <2>1. SubSeq(FinalProgram, 1, 8) \o SubSeq(FinalProgram, 8 + 1, 30) = SubSeq(FinalProgram, 1, 30)
    BY <1>1, PartsMeet
  <2>2. 8 + 1 = 9
    OBVIOUS
  <2> QED BY <2>1, <2>2, <1>10
<1>25. SubSeq(FinalProgram, 1, 30) \o FinalEndSteps = SubSeq(FinalProgram, 1, 48)
  <2>1. SubSeq(FinalProgram, 1, 30) \o SubSeq(FinalProgram, 30 + 1, 48) =
            SubSeq(FinalProgram, 1, 48)
    BY <1>1, PartsMeet
  <2>2. 30 + 1 = 31
    OBVIOUS
  <2> QED BY <2>1, <2>2, <1>18
<1>26. SubSeq(FinalProgram, 1, 48) \o <<"run_worker">> = SubSeq(FinalProgram, 1, 49)
  <2>1. SubSeq(FinalProgram, 1, 48) \o SubSeq(FinalProgram, 48 + 1, 49) =
            SubSeq(FinalProgram, 1, 49)
    BY <1>1, PartsMeet
  <2>2. 48 + 1 = 49
    OBVIOUS
  <2> QED BY <2>1, <2>2, <1>19
<1>27. SubSeq(FinalProgram, 1, 49) \o RecoverSteps = SubSeq(FinalProgram, 1, 55)
  <2>1. SubSeq(FinalProgram, 1, 49) \o SubSeq(FinalProgram, 49 + 1, 55) =
            SubSeq(FinalProgram, 1, 55)
    BY <1>1, PartsMeet
  <2>2. 49 + 1 = 50
    OBVIOUS
  <2> QED BY <2>1, <2>2, <1>20
<1>28. SubSeq(FinalProgram, 1, 55) \o <<"gate_recovery">> = SubSeq(FinalProgram, 1, 56)
  <2>1. SubSeq(FinalProgram, 1, 55) \o SubSeq(FinalProgram, 55 + 1, 56) =
            SubSeq(FinalProgram, 1, 56)
    BY <1>1, PartsMeet
  <2>2. 55 + 1 = 56
    OBVIOUS
  <2> QED BY <2>1, <2>2, <1>21
<1>29. SubSeq(FinalProgram, 1, 56) \o RecoverSteps = SubSeq(FinalProgram, 1, 62)
  <2>1. SubSeq(FinalProgram, 1, 56) \o SubSeq(FinalProgram, 56 + 1, 62) =
            SubSeq(FinalProgram, 1, 62)
    BY <1>1, PartsMeet
  <2>2. 56 + 1 = 57
    OBVIOUS
  <2> QED BY <2>1, <2>2, <1>22
<1>30. SubSeq(FinalProgram, 1, 62) \o <<"restored">> = SubSeq(FinalProgram, 1, 63)
  <2>1. SubSeq(FinalProgram, 1, 62) \o SubSeq(FinalProgram, 62 + 1, 63) =
            SubSeq(FinalProgram, 1, 63)
    BY <1>1, PartsMeet
  <2>2. 62 + 1 = 63
    OBVIOUS
  <2> QED BY <2>1, <2>2, <1>23
<1>31. FinalSteps = SubSeq(FinalProgram, 1, 63)
  BY <1>2, <1>24, <1>25, <1>26, <1>27, <1>28, <1>29, <1>30, Zenon DEF FinalSteps
<1>32. <<"close_damon", "report">> = SubSeq(FinalProgram, 64, 65)
  <2> DEFINE s == <<"close_damon", "report">>
  <2>1. s \in Seq(StepNames) /\ Len(s) = 2
    BY DEF StepNames
  <2>2. /\ s[1] = FinalProgram[64]
        /\ s[2] = FinalProgram[65]
    BY DEF FinalProgram
  <2>3. \A i \in 1 .. 2 : s[i] = FinalProgram[64 + i - 1]
    <3>1. \A i \in 1 .. 2 : i = 1 \/ i = 2
      OBVIOUS
    <3> HIDE DEF s
    <3> QED BY <2>2, <3>1
  <2> HIDE DEF s
  <2>4. s = SubSeq(FinalProgram, 64, 65)
    BY <1>1, <2>1, <2>3, PieceOf
  <2> QED BY <2>4 DEF s
<1>33. SubSeq(FinalProgram, 1, 63) \o <<"close_damon", "report">> = SubSeq(FinalProgram, 1, 65)
  <2>1. SubSeq(FinalProgram, 1, 63) \o SubSeq(FinalProgram, 63 + 1, 65) =
            SubSeq(FinalProgram, 1, 65)
    BY <1>1, PartsMeet
  <2>2. 63 + 1 = 64
    OBVIOUS
  <2> QED BY <2>1, <2>2, <1>32
<1>34. FinalSteps \o <<"close_damon", "report">> = SubSeq(FinalProgram, 1, 65)
  BY <1>31, <1>33, Zenon
<1>35. SubSeq(FinalProgram, 1, 65) = FinalProgram
  BY <1>1, SubSeqFull
<1> QED BY <1>34, <1>35

(* The crash worker. *)
LEMMA WorkerIs == CrashSteps \o LateProgram = WorkerProgram
<1>1. WorkerProgram \in Seq(StepNames) /\ Len(WorkerProgram) = 25
  BY WorkerProgramSeq
<1>2. CrashSteps = SubSeq(WorkerProgram, 1, 9)
  <2> DEFINE s == CrashSteps
  <2>1. s \in Seq(StepNames) /\ Len(s) = 9
    BY DEF StepNames, CrashSteps
  <2>2. /\ s[1] = WorkerProgram[1]
        /\ s[2] = WorkerProgram[2]
        /\ s[3] = WorkerProgram[3]
        /\ s[4] = WorkerProgram[4]
        /\ s[5] = WorkerProgram[5]
        /\ s[6] = WorkerProgram[6]
        /\ s[7] = WorkerProgram[7]
        /\ s[8] = WorkerProgram[8]
        /\ s[9] = WorkerProgram[9]
    BY DEF WorkerProgram, CrashSteps
  <2>3. \A i \in 1 .. 9 : s[i] = WorkerProgram[1 + i - 1]
    <3>1. \A i \in 1 .. 9 : i = 1 \/ i = 2 \/ i = 3 \/ i = 4 \/ i = 5 \/ i = 6 \/ i = 7 \/
              i = 8 \/ i = 9
      OBVIOUS
    <3> HIDE DEF s
    <3> QED BY <2>2, <3>1
  <2> HIDE DEF s
  <2>4. s = SubSeq(WorkerProgram, 1, 9)
    BY <1>1, <2>1, <2>3, PieceOf
  <2> QED BY <2>4 DEF s
<1>3. LateProgram = SubSeq(WorkerProgram, 10, 25)
  <2> DEFINE s == LateProgram
  <2>1. s \in Seq(StepNames) /\ Len(s) = 16
    BY DEF StepNames, LateProgram
  <2>2. /\ s[1] = WorkerProgram[10]
        /\ s[2] = WorkerProgram[11]
        /\ s[3] = WorkerProgram[12]
        /\ s[4] = WorkerProgram[13]
        /\ s[5] = WorkerProgram[14]
        /\ s[6] = WorkerProgram[15]
        /\ s[7] = WorkerProgram[16]
        /\ s[8] = WorkerProgram[17]
        /\ s[9] = WorkerProgram[18]
        /\ s[10] = WorkerProgram[19]
        /\ s[11] = WorkerProgram[20]
        /\ s[12] = WorkerProgram[21]
        /\ s[13] = WorkerProgram[22]
        /\ s[14] = WorkerProgram[23]
        /\ s[15] = WorkerProgram[24]
        /\ s[16] = WorkerProgram[25]
    BY DEF WorkerProgram, LateProgram
  <2>3. \A i \in 1 .. 16 : s[i] = WorkerProgram[10 + i - 1]
    <3>1. \A i \in 1 .. 16 : i = 1 \/ i = 2 \/ i = 3 \/ i = 4 \/ i = 5 \/ i = 6 \/ i = 7 \/
              i = 8 \/ i = 9 \/ i = 10 \/ 
          i = 11 \/ i = 12 \/ i = 13 \/ i = 14 \/ i = 15 \/ i = 16
      OBVIOUS
    <3> HIDE DEF s
    <3> QED BY <2>2, <3>1
  <2> HIDE DEF s
  <2>4. s = SubSeq(WorkerProgram, 10, 25)
    BY <1>1, <2>1, <2>3, PieceOf
  <2> QED BY <2>4 DEF s
<1>4. SubSeq(WorkerProgram, 1, 9) \o LateProgram = SubSeq(WorkerProgram, 1, 25)
  <2>1. SubSeq(WorkerProgram, 1, 9) \o SubSeq(WorkerProgram, 9 + 1, 25) =
            SubSeq(WorkerProgram, 1, 25)
    BY <1>1, PartsMeet
  <2>2. 9 + 1 = 10
    OBVIOUS
  <2> QED BY <2>1, <2>2, <1>3
<1>5. CrashSteps \o LateProgram = SubSeq(WorkerProgram, 1, 25)
  BY <1>2, <1>4, Zenon
<1>6. SubSeq(WorkerProgram, 1, 25) = WorkerProgram
  BY <1>1, SubSeqFull
<1> QED BY <1>5, <1>6

-----------------------------------------------------------------------------
(***************************************************************************)
(* The validation of DAMON.  Its program is put together at run time, so   *)
(* nothing is counted in places: the invariant speaks of the steps that    *)
(* are ahead, whatever the program was put together from.  w is what       *)
(* remains of it.                                                          *)
(***************************************************************************)

\* Is a step of this name ahead?
Has(w, name) == \E i \in 1 .. Len(w) : w[i] = name

\* Every program ends with the end of its scope and the report, and a slot is
\* released right behind the attempt to switch it off.
Ends(w) ==
    /\ w \in Seq(StepNames)
    /\ \A i \in 1 .. Len(w) :
          /\ w[i] = "report" <=> i = Len(w)
          /\ w[i] = "close_damon" <=> i + 1 = Len(w)
          /\ w[i] = "rel_slot" /\ i > 1 => w[i - 1] = "rel_on"

\* The steps after an error.
CleanupNames ==
    {"detach", "kill", "rel_on", "rel_slot", "rel_tracing", "rel_event", "rel_instance",
     "worker_exit", "close_damon", "report"}

\* Where a session begins, or is about to.
Fresh == {"nr_zero", "guard", "ladder", "run_worker"}

\* What is held now, and what is opened on the way, is closed before the next
\* session begins.
Lapses(w, held, open, close) ==
    \A i \in 1 .. Len(w) : w[i] \in Fresh =>
        /\ held => \E j \in 1 .. i - 1 : w[j] \in close
        /\ \A k \in 1 .. i - 1 : w[k] = open => \E j \in k + 1 .. i - 1 : w[j] \in close

\* What is held has a guard that remembers it, as long as a session is ahead.
Remembered ==
    (\E i \in 1 .. Len(todo) : todo[i] \in Fresh) =>
        /\ kd.own = "nemor" => "slot" \in flags
        /\ inst # {} => "instance" \in flags
        /\ inst \subseteq {sess} /\ readers \subseteq {sess}

Separate ==
    /\ Lapses(todo, kd.own = "nemor", "slot", {"rel_slot"})
    /\ Lapses(todo, inst # {}, "mkdir", {"rel_instance"})
    /\ Lapses(todo, readers # {}, "capture", {"drain"})
    /\ Lapses(todo, tgt # "none", "spawn", {"reap", "terminate"})

\* Steps that take the slot for Nemor's.
SlotUsers == {"on", "on_self", "off", "record", "worker_exit"}

\* They come behind the step that makes it so.
Owned(w, own) ==
    \A i \in 1 .. Len(w) : w[i] \in SlotUsers =>
        \/ own /\ \A m \in 1 .. i - 1 : w[m] # "rel_slot"
        \/ \E j \in 1 .. i - 1 :
              w[j] = "slot" /\ \A m \in j + 1 .. i - 1 : w[m] # "rel_slot"

\* Before a kdamond is switched on nobody has started the workload of its
\* target, which is there or will be spawned; the one of the baseline run is
\* terminated first.
Unstarted(w, quiet, none) ==
    \A i \in 1 .. Len(w) : w[i] = "on" =>
        \/ quiet /\ \A m \in 1 .. i - 1 : w[m] # "start"
        \/ \E j \in 1 .. i - 1 :
              /\ w[j] = "spawn" /\ \A m \in j + 1 .. i - 1 : w[m] # "start"
              /\ none \/ \E m \in 1 .. j - 1 : w[m] = "terminate"
              /\ \A k \in 1 .. j - 1 :
                    w[k] = "spawn" => \E m \in k + 1 .. j - 1 : w[m] = "terminate"

\* A trace instance belongs to a session.
Begun(w, begun) ==
    \A i \in 1 .. Len(w) : w[i] \in {"mkdir", "capture"} =>
        begun \/ \E j \in 1 .. i - 1 : w[j] = "guard"

RecNames == {"rec_begin", "rec_state", "rec_off", "rec_slot", "rec_instance", "rec_file"}
LateNames == RecNames \union {"gate_recovery", "restored"} \union Closings

\* The recovery: which step stands right behind which, and that there is
\* nothing but recovery and its gates behind it.
Recovers(w) ==
    \A i \in 1 .. Len(w) :
        /\ w[i] = "rec_begin" =>
              /\ i + 6 <= Len(w) /\ w[i + 6] \in {"gate_recovery", "restored"}
              /\ i > 1 => w[i - 1] \in {"worker_exit", "gate_recovery", "run_worker"}
        /\ w[i] = "rec_state" /\ i > 1 => w[i - 1] = "rec_begin"
        /\ w[i] = "rec_off" /\ i > 1 => w[i - 1] = "rec_state"
        /\ w[i] = "rec_slot" /\ i > 1 => w[i - 1] = "rec_off"
        /\ w[i] = "rec_instance" /\ i > 1 => w[i - 1] = "rec_slot"
        /\ w[i] = "rec_file" /\ i > 1 => w[i - 1] = "rec_instance"
        /\ w[i] = "gate_recovery" /\ i > 1 => w[i - 1] = "rec_file"
        /\ w[i] \in RecNames \union {"worker_exit"} =>
              \A k \in i + 1 .. Len(w) : w[k] \in LateNames

\* The slot is Nemor's wherever the recovery acts on it, the record is gone when
\* the second one begins, and the worker's guard remembers nothing any more.
Found(w, own, recorded, clear) ==
    w # <<>> =>
        /\ w[1] \in {"rec_state", "rec_off", "rec_slot"} => own
        /\ w[1] = "rec_begin" => (recorded => own)
        /\ w[1] = "gate_recovery" => ~recorded
        /\ w[1] \in RecNames \union {"gate_recovery"} => clear

\* What is behind the ladder and the crash worker.
Rests(w) ==
    \A i \in 1 .. Len(w) :
        /\ w[i] = "ladder" => Len(w) = i + 2
        /\ w[i] = "run_worker" =>
              Len(w) = i + 16 /\ \A m \in 1 .. 16 : w[i + m] = LateProgram[m]

\* The order of the gates of the final session.
Gates(w) ==
    \A i \in 1 .. Len(w) :
        /\ w[i] = "activity" => \A k \in i + 1 .. Len(w) : w[k] # "window"
        /\ w[i] = "reap" =>
              \/ \E k \in i + 1 .. Len(w) : w[k] = "ladder"
              \/ \A k \in i + 1 .. Len(w) : w[k] # "spawn"
        /\ w[i] = "fingerprint" => \A k \in i + 1 .. Len(w) : w[k] # "reap"
        /\ w[i] = "restored" => \A k \in i + 1 .. Len(w) : w[k] \in Closings

\* What the gates that are behind have established.
Evidenced(w) ==
    Has(w, "ladder") \/
        /\ Has(w, "activity") \/ (~Has(w, "window") /\ (failed = {} => active))
        /\ Has(w, "reap") \/ (~Has(w, "spawn") /\ tgt = "none")
        /\ Has(w, "fingerprint") \/ (~Has(w, "reap") /\ (failed = {} => progress = "final"))
        /\ \/ Has(w, "restored")
           \/ /\ \A i \in 1 .. Len(w) : w[i] \in Closings
              /\ inst = {} /\ kd.own # "nemor"

\* The harness after an error, and before any.
AfterError == errors # {} /\ \A i \in 1 .. Len(todo) : todo[i] \in CleanupNames
OnCourse ==
    /\ errors = {} /\ ~unwinding
    /\ Remembered /\ Separate
    /\ Owned(todo, kd.own = "nemor")
    /\ Unstarted(todo, tgt # "active" /\ "start" \notin files, tgt = "none")
    /\ Begun(todo, sess > 0)
    /\ Recovers(todo) /\ Found(todo, kd.own = "nemor", "recovery" \in files, flags = {})
    /\ Rests(todo) /\ Gates(todo) /\ Evidenced(todo)

\* What the guard remembers is there, and it is Nemor's.
GuardHolds ==
    /\ "on" \in flags \/ "slot" \in flags => kd.own = "nemor"
    /\ todo # <<>> /\ todo[1] = "rel_slot" => "on" \notin flags

DamonInv ==
    /\ DamonTypeOK /\ Ends(todo) /\ GuardHolds /\ (AfterError \/ OnCourse)
    /\ verdict = "pass" => errors = {} /\ failed = {} /\ todo = <<>> /\ readers = {}

-----------------------------------------------------------------------------
(* What remains after d steps *)

Drops(w, v, d) ==
    /\ v \in Seq(StepNames) /\ d \in 0 .. Len(w) /\ Len(v) = Len(w) - d
    /\ \A i \in 1 .. Len(v) : v[i] = w[i + d]

(* One step. *)
LEMMA TailDrops ==
    ASSUME NEW w \in Seq(StepNames), w # <<>>
    PROVE  Drops(w, Tail(w), 1) /\ Head(w) = w[1] /\ Len(w) \in Nat /\ Len(w) >= 1
<1>1. Len(w) \in Nat /\ Len(w) # 0
  BY EmptySeq, LenProperties
<1>2. Head(w) = w[1] /\ Tail(w) \in Seq(StepNames) /\ Len(Tail(w)) = Len(w) - 1
      /\ \A i \in 1 .. Len(Tail(w)) : Tail(w)[i] = w[i + 1]
  BY <1>1, HeadTailProperties
<1> QED BY <1>1, <1>2 DEF Drops

(* Several. *)
LEMMA SubSeqDrops ==
    ASSUME NEW w \in Seq(StepNames), NEW k \in 1 .. Len(w)
    PROVE  Drops(w, SubSeq(w, k, Len(w)), k - 1)
<1>1. Len(w) \in Nat /\ \A i \in k .. Len(w) : w[i] \in StepNames
  BY ElementOfSeq, LenProperties
<1> DEFINE v == SubSeq(w, k, Len(w))
<1>2. /\ v \in Seq(StepNames) /\ Len(v) = Len(w) + 1 - k
      /\ \A i \in 1 .. Len(w) + 1 - k : v[i] = w[k + i - 1]
  BY <1>1, SubSeqProperties
<1> HIDE DEF v
<1>3. Drops(w, v, k - 1)
  <2>1. k - 1 \in 0 .. Len(w) /\ Len(v) = Len(w) - (k - 1)
    BY <1>1, <1>2
  <2>2. \A i \in 1 .. Len(v) : v[i] = w[i + (k - 1)]
    BY <1>1, <1>2
  <2> QED BY <1>2, <2>1, <2>2 DEF Drops
<1> QED BY <1>3 DEF v

(* The shape of a program is that of what remains of it. *)
LEMMA EndsDrop ==
    ASSUME NEW w, NEW v, NEW d, Ends(w), Drops(w, v, d) PROVE Ends(v)
<1>1. Len(w) \in Nat /\ d \in 0 .. Len(w) /\ Len(v) = Len(w) - d /\ v \in Seq(StepNames)
  BY LenProperties DEF Ends, Drops
<1>2. ASSUME NEW i \in 1 .. Len(v)
      PROVE  /\ v[i] = "report" <=> i = Len(v)
             /\ v[i] = "close_damon" <=> i + 1 = Len(v)
             /\ v[i] = "rel_slot" /\ i > 1 => v[i - 1] = "rel_on"
  <2>1. i + d \in 1 .. Len(w) /\ v[i] = w[i + d]
    BY <1>1 DEF Drops
  <2>2. i > 1 => v[i - 1] = w[(i + d) - 1]
    <3>1. i > 1 => i - 1 \in 1 .. Len(v) /\ (i - 1) + d = (i + d) - 1
      BY <1>1
    <3> QED BY <3>1 DEF Drops
  <2>3. /\ w[i + d] = "report" <=> i + d = Len(w)
        /\ w[i + d] = "close_damon" <=> i + d + 1 = Len(w)
        /\ w[i + d] = "rel_slot" /\ i + d > 1 => w[(i + d) - 1] = "rel_on"
    BY <2>1 DEF Ends
  <2> QED BY <1>1, <2>1, <2>2, <2>3
<1> QED BY <1>1, <1>2 DEF Ends

(* The recovery has the same shape in what remains. *)
LEMMA RecoversDrop ==
    ASSUME NEW w, NEW v, NEW d, Ends(w), Recovers(w), Drops(w, v, d) PROVE Recovers(v)
<1>1. Len(w) \in Nat /\ d \in 0 .. Len(w) /\ Len(v) = Len(w) - d /\ v \in Seq(StepNames)
  BY LenProperties DEF Ends, Drops
<1> SUFFICES ASSUME NEW i \in 1 .. Len(v)
    PROVE  /\ v[i] = "rec_begin" =>
                  /\ i + 6 <= Len(v) /\ v[i + 6] \in {"gate_recovery", "restored"}
                  /\ i > 1 => v[i - 1] \in {"worker_exit", "gate_recovery", "run_worker"}
           /\ v[i] = "rec_state" /\ i > 1 => v[i - 1] = "rec_begin"
           /\ v[i] = "rec_off" /\ i > 1 => v[i - 1] = "rec_state"
           /\ v[i] = "rec_slot" /\ i > 1 => v[i - 1] = "rec_off"
           /\ v[i] = "rec_instance" /\ i > 1 => v[i - 1] = "rec_slot"
           /\ v[i] = "rec_file" /\ i > 1 => v[i - 1] = "rec_instance"
           /\ v[i] = "gate_recovery" /\ i > 1 => v[i - 1] = "rec_file"
           /\ v[i] \in RecNames \union {"worker_exit"} =>
                 \A k \in i + 1 .. Len(v) : v[k] \in LateNames
  BY DEF Recovers
<1> DEFINE n == i + d
<1>2. n \in 1 .. Len(w) /\ v[i] = w[n] /\ (i > 1 => n > 1)
  BY <1>1 DEF Drops
<1>3. i > 1 => v[i - 1] = w[n - 1]
  <2>1. i > 1 => i - 1 \in 1 .. Len(v) /\ (i - 1) + d = n - 1
    BY <1>1
  <2> QED BY <2>1 DEF Drops
<1>4. n + 6 <= Len(w) => i + 6 <= Len(v) /\ v[i + 6] = w[n + 6]
  <2>1. n + 6 <= Len(w) => i + 6 \in 1 .. Len(v) /\ (i + 6) + d = n + 6
    BY <1>1
  <2> QED BY <1>1, <2>1 DEF Drops
<1>5. ASSUME NEW k \in i + 1 .. Len(v) PROVE v[k] = w[k + d] /\ k + d \in n + 1 .. Len(w)
  <2>1. k \in 1 .. Len(v) /\ k + d \in n + 1 .. Len(w)
    BY <1>1
  <2> QED BY <2>1 DEF Drops
<1> HIDE DEF n
<1>6. /\ w[n] = "rec_begin" =>
            /\ n + 6 <= Len(w) /\ w[n + 6] \in {"gate_recovery", "restored"}
            /\ n > 1 => w[n - 1] \in {"worker_exit", "gate_recovery", "run_worker"}
      /\ w[n] = "rec_state" /\ n > 1 => w[n - 1] = "rec_begin"
      /\ w[n] = "rec_off" /\ n > 1 => w[n - 1] = "rec_state"
      /\ w[n] = "rec_slot" /\ n > 1 => w[n - 1] = "rec_off"
      /\ w[n] = "rec_instance" /\ n > 1 => w[n - 1] = "rec_slot"
      /\ w[n] = "rec_file" /\ n > 1 => w[n - 1] = "rec_instance"
      /\ w[n] = "gate_recovery" /\ n > 1 => w[n - 1] = "rec_file"
      /\ w[n] \in RecNames \union {"worker_exit"} =>
            \A k \in n + 1 .. Len(w) : w[k] \in LateNames
  BY <1>2 DEF Recovers
<1>7. v[i] \in RecNames \union {"worker_exit"} =>
          \A k \in i + 1 .. Len(v) : v[k] \in LateNames
  BY <1>2, <1>5, <1>6
<1> HIDE DEF RecNames, LateNames
<1> QED BY <1>2, <1>3, <1>4, <1>6, <1>7

(* So has what is behind the ladder and the crash worker. *)
LEMMA RestsDrop ==
    ASSUME NEW w, NEW v, NEW d, Ends(w), Rests(w), Drops(w, v, d) PROVE Rests(v)
<1>1. Len(w) \in Nat /\ d \in 0 .. Len(w) /\ Len(v) = Len(w) - d /\ v \in Seq(StepNames)
  BY LenProperties DEF Ends, Drops
<1> SUFFICES ASSUME NEW i \in 1 .. Len(v)
    PROVE  /\ v[i] = "ladder" => Len(v) = i + 2
           /\ v[i] = "run_worker" =>
                 Len(v) = i + 16 /\ \A m \in 1 .. 16 : v[i + m] = LateProgram[m]
  BY DEF Rests
<1>2. i + d \in 1 .. Len(w) /\ v[i] = w[i + d]
  <2>1. i + d \in 1 .. Len(w)
    BY <1>1
  <2>2. v[i] = w[i + d]
    BY DEF Drops
  <2> QED BY <2>1, <2>2
<1>3. /\ w[i + d] = "ladder" => Len(w) = i + d + 2
      /\ w[i + d] = "run_worker" =>
            Len(w) = i + d + 16 /\ \A m \in 1 .. 16 : w[i + d + m] = LateProgram[m]
  BY <1>2 DEF Rests
<1>4. ASSUME Len(w) = i + d + 16, NEW m \in 1 .. 16 PROVE v[i + m] = w[i + d + m]
  <2>1. i + m \in 1 .. Len(v) /\ (i + m) + d = i + d + m
    BY <1>1, <1>4
  <2>2. v[i + m] = w[(i + m) + d]
    BY <2>1 DEF Drops
  <2> QED BY <2>1, <2>2
<1> QED BY <1>1, <1>2, <1>3, <1>4

(* So has the order of the gates. *)
LEMMA GatesDrop ==
    ASSUME NEW w, NEW v, NEW d, Ends(w), Gates(w), Drops(w, v, d) PROVE Gates(v)
<1>1. Len(w) \in Nat /\ d \in 0 .. Len(w) /\ Len(v) = Len(w) - d /\ v \in Seq(StepNames)
  BY LenProperties DEF Ends, Drops
<1> SUFFICES ASSUME NEW i \in 1 .. Len(v)
    PROVE  /\ v[i] = "activity" => \A k \in i + 1 .. Len(v) : v[k] # "window"
           /\ v[i] = "reap" =>
                 \/ \E k \in i + 1 .. Len(v) : v[k] = "ladder"
                 \/ \A k \in i + 1 .. Len(v) : v[k] # "spawn"
           /\ v[i] = "fingerprint" => \A k \in i + 1 .. Len(v) : v[k] # "reap"
           /\ v[i] = "restored" => \A k \in i + 1 .. Len(v) : v[k] \in Closings
  BY DEF Gates
<1> DEFINE n == i + d
<1>2. n \in 1 .. Len(w) /\ v[i] = w[n]
  BY <1>1 DEF Drops
<1>3. ASSUME NEW k \in i + 1 .. Len(v) PROVE v[k] = w[k + d] /\ k + d \in n + 1 .. Len(w)
  BY <1>1 DEF Drops
<1>4. ASSUME NEW k \in n + 1 .. Len(w) PROVE k - d \in i + 1 .. Len(v) /\ v[k - d] = w[k]
  <2>1. k - d \in i + 1 .. Len(v) /\ k - d \in 1 .. Len(v) /\ (k - d) + d = k
    BY <1>1
  <2>2. v[k - d] = w[(k - d) + d]
    BY <2>1 DEF Drops
  <2> QED BY <2>1, <2>2
<1> HIDE DEF n
<1>5. /\ w[n] = "activity" => \A k \in n + 1 .. Len(w) : w[k] # "window"
      /\ w[n] = "reap" =>
            \/ \E k \in n + 1 .. Len(w) : w[k] = "ladder"
            \/ \A k \in n + 1 .. Len(w) : w[k] # "spawn"
      /\ w[n] = "fingerprint" => \A k \in n + 1 .. Len(w) : w[k] # "reap"
      /\ w[n] = "restored" => \A k \in n + 1 .. Len(w) : w[k] \in Closings
  BY <1>2 DEF Gates
<1>6. v[i] = "reap" => \/ \E k \in i + 1 .. Len(v) : v[k] = "ladder"
                       \/ \A k \in i + 1 .. Len(v) : v[k] # "spawn"
  <2>1. CASE \E k \in n + 1 .. Len(w) : w[k] = "ladder"
    BY <1>4, <2>1
  <2>2. CASE \A k \in n + 1 .. Len(w) : w[k] # "spawn"
    BY <1>3, <2>2
  <2> QED BY <1>2, <1>5, <2>1, <2>2
<1> QED BY <1>2, <1>3, <1>5, <1>6

-----------------------------------------------------------------------------
(* One step further *)

(* What is held is still closed in time when a step is behind that closed or opened it. *)
LEMMA LapsesStep ==
    ASSUME NEW w, NEW v, NEW h, NEW g, NEW o, NEW c,
           Len(w) \in Nat, Drops(w, v, 1), Lapses(w, h, o, c),
           g => (h /\ w[1] \notin c) \/ w[1] = o
    PROVE  Lapses(v, g, o, c)
<1>1. Len(v) = Len(w) - 1 /\ \A i \in 1 .. Len(v) : v[i] = w[i + 1]
  BY DEF Drops
<1> SUFFICES ASSUME NEW i \in 1 .. Len(v), v[i] \in Fresh
    PROVE  /\ g => \E j \in 1 .. i - 1 : v[j] \in c
           /\ \A k \in 1 .. i - 1 : v[k] = o => \E j \in k + 1 .. i - 1 : v[j] \in c
  BY DEF Lapses
<1>2. i + 1 \in 1 .. Len(w) /\ w[i + 1] \in Fresh
  BY <1>1
<1>3. /\ h => \E j \in 1 .. i : w[j] \in c
      /\ \A k \in 1 .. i : w[k] = o => \E j \in k + 1 .. i : w[j] \in c
  <2>1. (i + 1) - 1 = i
    OBVIOUS
  <2> QED BY <1>2, <2>1 DEF Lapses
<1>4. \A j \in 2 .. i : j - 1 \in 1 .. i - 1 /\ v[j - 1] = w[j]
  <2>1. \A j \in 2 .. i : j - 1 \in 1 .. Len(v) /\ (j - 1) + 1 = j
    BY <1>1
  <2> QED BY <1>1, <2>1
<1>5. ASSUME g PROVE \E j \in 1 .. i - 1 : v[j] \in c
  <2>1. CASE h /\ w[1] \notin c
    <3>1. PICK j \in 1 .. i : w[j] \in c
      BY <1>3, <2>1
    <3>2. j \in 2 .. i
      BY <2>1, <3>1
    <3> QED BY <1>4, <3>1, <3>2
  <2>2. CASE w[1] = o
    <3>1. PICK j \in 1 + 1 .. i : w[j] \in c
      BY <1>3, <2>2
    <3>2. j \in 2 .. i
      OBVIOUS
    <3> QED BY <1>4, <3>1, <3>2
  <2> QED BY <1>5, <2>1, <2>2
<1>6. ASSUME NEW k \in 1 .. i - 1, v[k] = o PROVE \E j \in k + 1 .. i - 1 : v[j] \in c
  <2>1. w[k + 1] = o /\ k + 1 \in 1 .. i
    BY <1>1, <1>6
  <2>2. PICK j \in (k + 1) + 1 .. i : w[j] \in c
    BY <1>3, <2>1
  <2>3. j \in 2 .. i /\ j - 1 \in k + 1 .. i - 1
    OBVIOUS
  <2> QED BY <1>4, <2>2, <2>3
<1> QED BY <1>5, <1>6

(* Users of the slot still come behind the one that takes it. *)
LEMMA OwnedStep ==
    ASSUME NEW w, NEW v, NEW h, NEW g,
           Len(w) \in Nat, Drops(w, v, 1), Owned(w, h),
           h /\ w[1] # "rel_slot" => g, w[1] = "slot" => g
    PROVE  Owned(v, g)
<1>1. Len(v) = Len(w) - 1 /\ \A i \in 1 .. Len(v) : v[i] = w[i + 1]
  BY DEF Drops
<1> SUFFICES ASSUME NEW i \in 1 .. Len(v), v[i] \in SlotUsers
    PROVE  \/ g /\ \A m \in 1 .. i - 1 : v[m] # "rel_slot"
           \/ \E j \in 1 .. i - 1 :
                 v[j] = "slot" /\ \A m \in j + 1 .. i - 1 : v[m] # "rel_slot"
  BY DEF Owned
<1>2. i + 1 \in 1 .. Len(w) /\ w[i + 1] \in SlotUsers /\ (i + 1) - 1 = i
  BY <1>1
<1>3. \/ h /\ \A m \in 1 .. i : w[m] # "rel_slot"
      \/ \E j \in 1 .. i : w[j] = "slot" /\ \A m \in j + 1 .. i : w[m] # "rel_slot"
  BY <1>2 DEF Owned
<1>4. \A m \in 1 .. i - 1 : v[m] = w[m + 1] /\ m + 1 \in 1 .. i
  BY <1>1
<1>5. CASE h /\ \A m \in 1 .. i : w[m] # "rel_slot"
  <2>1. 1 \in 1 .. i
    OBVIOUS
  <2>2. g
    BY <1>5, <2>1
  <2> QED BY <1>4, <1>5, <2>2
<1>6. CASE \E j \in 1 .. i : w[j] = "slot" /\ \A m \in j + 1 .. i : w[m] # "rel_slot"
  <2>1. PICK j \in 1 .. i : w[j] = "slot" /\ \A m \in j + 1 .. i : w[m] # "rel_slot"
    BY <1>6
  <2>2. CASE j = 1
    <3>1. \A m \in 1 .. i - 1 : v[m] # "rel_slot"
      BY <1>4, <2>1, <2>2
    <3> QED BY <2>1, <2>2, <3>1
  <2>3. CASE j > 1
    <3>1. j - 1 \in 1 .. i - 1 /\ (j - 1) + 1 = j
      BY <2>3
    <3>2. v[j - 1] = "slot"
      BY <1>4, <2>1, <3>1
    <3>3. \A m \in (j - 1) + 1 .. i - 1 : m \in 1 .. i - 1 /\ m + 1 \in j + 1 .. i
      BY <2>3
    <3>4. \A m \in (j - 1) + 1 .. i - 1 : v[m] # "rel_slot"
      BY <1>4, <2>1, <3>3
    <3> QED BY <3>1, <3>2, <3>4
  <2> QED BY <2>2, <2>3
<1> QED BY <1>3, <1>5, <1>6

(* The workload is still not started before its kdamond. *)
LEMMA UnstartedStep ==
    ASSUME NEW w, NEW v, NEW h, NEW g, NEW n, NEW e,
           Len(w) \in Nat, Drops(w, v, 1), Unstarted(w, h, n),
           h /\ w[1] # "start" => g, w[1] = "spawn" => g,
           n /\ w[1] # "spawn" => e, w[1] = "terminate" => e
    PROVE  Unstarted(v, g, e)
<1>1. Len(v) = Len(w) - 1 /\ \A i \in 1 .. Len(v) : v[i] = w[i + 1]
  BY DEF Drops
<1> SUFFICES ASSUME NEW i \in 1 .. Len(v), v[i] = "on"
    PROVE  \/ g /\ \A m \in 1 .. i - 1 : v[m] # "start"
           \/ \E j \in 1 .. i - 1 :
                 /\ v[j] = "spawn" /\ \A m \in j + 1 .. i - 1 : v[m] # "start"
                 /\ e \/ \E m \in 1 .. j - 1 : v[m] = "terminate"
                 /\ \A k \in 1 .. j - 1 :
                       v[k] = "spawn" => \E m \in k + 1 .. j - 1 : v[m] = "terminate"
  BY DEF Unstarted
<1>2. i + 1 \in 1 .. Len(w) /\ w[i + 1] = "on" /\ (i + 1) - 1 = i
  BY <1>1
<1>3. \/ h /\ \A m \in 1 .. i : w[m] # "start"
      \/ \E j \in 1 .. i :
            /\ w[j] = "spawn" /\ \A m \in j + 1 .. i : w[m] # "start"
            /\ n \/ \E m \in 1 .. j - 1 : w[m] = "terminate"
            /\ \A k \in 1 .. j - 1 :
                  w[k] = "spawn" => \E m \in k + 1 .. j - 1 : w[m] = "terminate"
  BY <1>2 DEF Unstarted
<1>4. \A m \in 1 .. i - 1 : v[m] = w[m + 1] /\ m + 1 \in 1 .. i
  BY <1>1
<1>5. CASE h /\ \A m \in 1 .. i : w[m] # "start"
  <2>1. 1 \in 1 .. i
    OBVIOUS
  <2>2. g
    BY <1>5, <2>1
  <2> QED BY <1>4, <1>5, <2>2
<1>6. ASSUME NEW j \in 1 .. i,
             w[j] = "spawn", \A m \in j + 1 .. i : w[m] # "start",
             n \/ \E m \in 1 .. j - 1 : w[m] = "terminate",
             \A k \in 1 .. j - 1 :
                 w[k] = "spawn" => \E m \in k + 1 .. j - 1 : w[m] = "terminate"
      PROVE  \/ g /\ \A m \in 1 .. i - 1 : v[m] # "start"
             \/ \E j2 \in 1 .. i - 1 :
                   /\ v[j2] = "spawn" /\ \A m \in j2 + 1 .. i - 1 : v[m] # "start"
                   /\ e \/ \E m \in 1 .. j2 - 1 : v[m] = "terminate"
                   /\ \A k \in 1 .. j2 - 1 :
                         v[k] = "spawn" => \E m \in k + 1 .. j2 - 1 : v[m] = "terminate"
  <2>1. CASE j = 1
    <3>1. \A m \in 1 .. i - 1 : v[m] # "start"
      BY <1>4, <1>6, <2>1
    <3> QED BY <1>6, <2>1, <3>1
  <2>2. CASE j > 1
    <3>1. j - 1 \in 1 .. i - 1 /\ (j - 1) + 1 = j
      BY <2>2
    <3>2. v[j - 1] = "spawn"
      BY <1>4, <1>6, <3>1
    <3>3. \A m \in (j - 1) + 1 .. i - 1 : v[m] # "start"
      <4>1. \A m \in (j - 1) + 1 .. i - 1 : m \in 1 .. i - 1 /\ m + 1 \in j + 1 .. i
        BY <2>2
      <4> QED BY <1>4, <1>6, <4>1
    <3>4. \A m \in 2 .. j - 1 : m - 1 \in 1 .. (j - 1) - 1 /\ v[m - 1] = w[m]
      <4>1. \A m \in 2 .. j - 1 : m - 1 \in 1 .. (j - 1) - 1 /\ m - 1 \in 1 .. i - 1
                                  /\ (m - 1) + 1 = m
        OBVIOUS
      <4> QED BY <1>4, <4>1
    <3>5. e \/ \E m \in 1 .. (j - 1) - 1 : v[m] = "terminate"
      <4>1. CASE w[1] = "terminate"
        BY <4>1
      <4>2. CASE \E m \in 1 .. j - 1 : w[m] = "terminate" /\ m # 1
        <5>1. PICK m \in 1 .. j - 1 : w[m] = "terminate" /\ m # 1
          BY <4>2
        <5>2. m \in 2 .. j - 1
          BY <5>1
        <5> QED BY <3>4, <5>1, <5>2
      <4>3. CASE n /\ w[1] # "spawn"
        BY <4>3
      <4>4. CASE w[1] = "spawn"
        <5>1. 1 \in 1 .. j - 1
          BY <2>2
        <5>2. PICK m \in 1 + 1 .. j - 1 : w[m] = "terminate"
          BY <1>6, <4>4, <5>1
        <5>3. m \in 2 .. j - 1
          OBVIOUS
        <5> QED BY <3>4, <5>2, <5>3
      <4> QED BY <1>6, <4>1, <4>2, <4>3, <4>4
    <3>6. ASSUME NEW k \in 1 .. (j - 1) - 1, v[k] = "spawn"
          PROVE  \E m \in k + 1 .. (j - 1) - 1 : v[m] = "terminate"
      <4>1. k + 1 \in 1 .. j - 1 /\ k \in 1 .. i - 1
        OBVIOUS
      <4>2. w[k + 1] = "spawn"
        BY <1>4, <3>6, <4>1
      <4>3. PICK m \in (k + 1) + 1 .. j - 1 : w[m] = "terminate"
        BY <1>6, <4>1, <4>2
      <4>4. m \in 2 .. j - 1 /\ m - 1 \in k + 1 .. (j - 1) - 1
        OBVIOUS
      <4> QED BY <3>4, <4>3, <4>4
    <3> QED BY <3>1, <3>2, <3>3, <3>5, <3>6
  <2> QED BY <2>1, <2>2
<1>7. CASE \E j \in 1 .. i :
            /\ w[j] = "spawn" /\ \A m \in j + 1 .. i : w[m] # "start"
            /\ n \/ \E m \in 1 .. j - 1 : w[m] = "terminate"
            /\ \A k \in 1 .. j - 1 :
                  w[k] = "spawn" => \E m \in k + 1 .. j - 1 : w[m] = "terminate"
  <2>1. PICK j \in 1 .. i :
            /\ w[j] = "spawn" /\ \A m \in j + 1 .. i : w[m] # "start"
            /\ n \/ \E m \in 1 .. j - 1 : w[m] = "terminate"
            /\ \A k \in 1 .. j - 1 :
                  w[k] = "spawn" => \E m \in k + 1 .. j - 1 : w[m] = "terminate"
    BY <1>7
  <2> QED BY <1>6, <2>1
<1> QED BY <1>3, <1>5, <1>7

(* Trace instances still belong to a session. *)
LEMMA BegunStep ==
    ASSUME NEW w, NEW v, NEW h, NEW g,
           Len(w) \in Nat, Drops(w, v, 1), Begun(w, h), h => g, w[1] = "guard" => g
    PROVE  Begun(v, g)
<1>1. Len(v) = Len(w) - 1 /\ \A i \in 1 .. Len(v) : v[i] = w[i + 1]
  BY DEF Drops
<1> SUFFICES ASSUME NEW i \in 1 .. Len(v), v[i] \in {"mkdir", "capture"}, ~g
    PROVE  \E j \in 1 .. i - 1 : v[j] = "guard"
  BY DEF Begun
<1>2. i + 1 \in 1 .. Len(w) /\ w[i + 1] \in {"mkdir", "capture"} /\ (i + 1) - 1 = i
  BY <1>1
<1>3. PICK j \in 1 .. i : w[j] = "guard"
  BY <1>2 DEF Begun
<1>4. j # 1 /\ j - 1 \in 1 .. i - 1 /\ j - 1 \in 1 .. Len(v) /\ (j - 1) + 1 = j
  BY <1>3
<1> QED BY <1>1, <1>3, <1>4

(* A step that is ahead is the next one or ahead of that. *)
LEMMA HasStep ==
    ASSUME NEW w, NEW v, NEW name, Len(w) \in Nat, Len(w) >= 1, Drops(w, v, 1)
    PROVE  Has(w, name) <=> w[1] = name \/ Has(v, name)
<1>1. Len(v) = Len(w) - 1 /\ \A i \in 1 .. Len(v) : v[i] = w[i + 1]
  BY DEF Drops
<1>2. ASSUME Has(w, name), w[1] # name PROVE Has(v, name)
  <2>1. PICK i \in 1 .. Len(w) : w[i] = name
    BY <1>2 DEF Has
  <2>2. i # 1 /\ i - 1 \in 1 .. Len(v) /\ (i - 1) + 1 = i
    BY <1>1, <1>2, <2>1
  <2> QED BY <1>1, <2>1, <2>2 DEF Has
<1>3. ASSUME w[1] = name PROVE Has(w, name)
  BY <1>3 DEF Has
<1>4. ASSUME Has(v, name) PROVE Has(w, name)
  <2>1. PICK i \in 1 .. Len(v) : v[i] = name
    BY <1>4 DEF Has
  <2>2. i + 1 \in 1 .. Len(w) /\ w[i + 1] = name
    BY <1>1, <2>1
  <2> QED BY <2>2 DEF Has
<1> QED BY <1>2, <1>3, <1>4

\* A program that starts with nothing held.
Planned(w) ==
    /\ Ends(w)
    /\ Lapses(w, FALSE, "slot", {"rel_slot"}) /\ Lapses(w, FALSE, "mkdir", {"rel_instance"})
    /\ Lapses(w, FALSE, "capture", {"drain"})
    /\ Lapses(w, FALSE, "spawn", {"reap", "terminate"})
    /\ Owned(w, FALSE) /\ Unstarted(w, FALSE, TRUE) /\ Begun(w, FALSE)
    /\ Recovers(w) /\ Rests(w) /\ Gates(w)

(* The ladder. *)
LEMMA LadderPlanned == Planned(LadderProgram)
<1> DEFINE w == LadderProgram
<1>1. Len(w) = 37 /\ w \in Seq(StepNames)
  BY LadderProgramSeq
<1>2. /\ w[5] = "guard"
      /\ w[6] = "spawn"
      /\ w[15] = "slot"
      /\ w[24] = "drain"
      /\ w[28] = "reap"
      /\ w[29] = "rel_on"
      /\ w[30] = "rel_slot"
      /\ w[33] = "rel_instance"
      /\ w[35] = "ladder"
      /\ w[36] = "close_damon"
      /\ w[37] = "report"
  BY DEF LadderProgram
<1>3. ASSUME NEW i \in 1 .. 37, w[i] = "report" PROVE i = 37
  BY <1>3, LadderProgramWhere
<1>4. ASSUME NEW i \in 1 .. 37, w[i] = "close_damon" PROVE i = 36
  BY <1>4, LadderProgramWhere
<1>5. ASSUME NEW i \in 1 .. 37, w[i] = "rel_slot" PROVE i = 30
  BY <1>5, LadderProgramWhere
<1>6. ASSUME NEW i \in 1 .. 37, w[i] = "nr_zero" PROVE i \in {2, 4}
  BY <1>6, LadderProgramWhere
<1>7. ASSUME NEW i \in 1 .. 37, w[i] = "guard" PROVE i = 5
  BY <1>7, LadderProgramWhere
<1>8. ASSUME NEW i \in 1 .. 37, w[i] = "ladder" PROVE i = 35
  BY <1>8, LadderProgramWhere
<1>9. ASSUME NEW i \in 1 .. 37 PROVE w[i] # "run_worker"
  BY LadderProgramWhere
<1>10. ASSUME NEW i \in 1 .. 37, w[i] = "slot" PROVE i = 15
  BY <1>10, LadderProgramWhere
<1>11. ASSUME NEW i \in 1 .. 37, w[i] = "mkdir" PROVE i = 10
  BY <1>11, LadderProgramWhere
<1>12. ASSUME NEW i \in 1 .. 37, w[i] = "capture" PROVE i = 14
  BY <1>12, LadderProgramWhere
<1>13. ASSUME NEW i \in 1 .. 37, w[i] = "spawn" PROVE i = 6
  BY <1>13, LadderProgramWhere
<1>14. ASSUME NEW i \in 1 .. 37, w[i] = "on" PROVE i = 17
  BY <1>14, LadderProgramWhere
<1>15. ASSUME NEW i \in 1 .. 37 PROVE w[i] # "on_self"
  BY LadderProgramWhere
<1>16. ASSUME NEW i \in 1 .. 37, w[i] = "off" PROVE i = 22
  BY <1>16, LadderProgramWhere
<1>17. ASSUME NEW i \in 1 .. 37 PROVE w[i] # "record"
  BY LadderProgramWhere
<1>18. ASSUME NEW i \in 1 .. 37 PROVE w[i] # "worker_exit"
  BY LadderProgramWhere
<1>19. ASSUME NEW i \in 1 .. 37, w[i] = "start" PROVE i = 20
  BY <1>19, LadderProgramWhere
<1>20. ASSUME NEW i \in 1 .. 37 PROVE w[i] # "activity"
  BY LadderProgramWhere
<1>21. ASSUME NEW i \in 1 .. 37, w[i] = "window" PROVE i = 21
  BY <1>21, LadderProgramWhere
<1>22. ASSUME NEW i \in 1 .. 37, w[i] = "reap" PROVE i = 28
  BY <1>22, LadderProgramWhere
<1>23. ASSUME NEW i \in 1 .. 37 PROVE w[i] # "fingerprint"
  BY LadderProgramWhere
<1>24. ASSUME NEW i \in 1 .. 37 PROVE w[i] # "restored"
  BY LadderProgramWhere
<1>25. ASSUME NEW i \in 1 .. 37 PROVE w[i] # "rec_begin"
  BY LadderProgramWhere
<1>26. ASSUME NEW i \in 1 .. 37 PROVE w[i] # "rec_state"
  BY LadderProgramWhere
<1>27. ASSUME NEW i \in 1 .. 37 PROVE w[i] # "rec_off"
  BY LadderProgramWhere
<1>28. ASSUME NEW i \in 1 .. 37 PROVE w[i] # "rec_slot"
  BY LadderProgramWhere
<1>29. ASSUME NEW i \in 1 .. 37 PROVE w[i] # "rec_instance"
  BY LadderProgramWhere
<1>30. ASSUME NEW i \in 1 .. 37 PROVE w[i] # "rec_file"
  BY LadderProgramWhere
<1>31. ASSUME NEW i \in 1 .. 37 PROVE w[i] # "gate_recovery"
  BY LadderProgramWhere
<1> HIDE DEF w
<1>32. Ends(w)
  <2> SUFFICES ASSUME NEW i \in 1 .. 37
      PROVE  /\ w[i] = "report" <=> i = 37
             /\ w[i] = "close_damon" <=> i + 1 = 37
             /\ w[i] = "rel_slot" /\ i > 1 => w[i - 1] = "rel_on"
    BY <1>1 DEF Ends
  <2>1. w[i] = "report" <=> i = 37
    BY <1>2, <1>3
  <2>2. w[i] = "close_damon" <=> i + 1 = 37
    <3>1. i + 1 = 37 <=> i = 36
      OBVIOUS
    <3> QED BY <1>2, <3>1, <1>4
  <2>3. w[i] = "rel_slot" /\ i > 1 => w[i - 1] = "rel_on"
    <3>1. CASE i = 30
      <4>1. i - 1 = 29
        BY <3>1
      <4> QED BY <1>2, <4>1
    <3> QED BY <1>5, <3>1
  <2> QED BY <2>1, <2>2, <2>3
<1>33. ASSUME NEW i \in 1 .. 37, w[i] \in Fresh PROVE i \in {2, 4, 5, 35}
  <2>1. w[i] = "nr_zero" \/ w[i] = "guard" \/ w[i] = "ladder" \/ w[i] = "run_worker"
    BY <1>33 DEF Fresh
  <2> QED BY <2>1, <1>6, <1>7, <1>8, <1>9
<1>34. Lapses(w, FALSE, "slot", {"rel_slot"})
  <2> SUFFICES ASSUME NEW i \in 1 .. 37, w[i] \in Fresh, NEW k \in 1 .. i - 1, w[k] = "slot"
      PROVE  \E j \in k + 1 .. i - 1 : w[j] \in {"rel_slot"}
    BY <1>1 DEF Lapses
  <2>1. k \in 1 .. 37
    OBVIOUS
  <2>2. (i \in {2, 4, 5, 35}) /\ (k = 15)
    BY <2>1, <1>33, <1>10
  <2>3. CASE k = 15
    <3>1. 30 \in k + 1 .. i - 1
      BY <2>2, <2>3
    <3>2. w[30] \in {"rel_slot"}
      BY <1>2
    <3> QED BY <3>1, <3>2
  <2> QED BY <2>2, <2>3
<1>35. Lapses(w, FALSE, "mkdir", {"rel_instance"})
  <2> SUFFICES ASSUME NEW i \in 1 .. 37, w[i] \in Fresh, NEW k \in 1 .. i - 1, w[k] = "mkdir"
      PROVE  \E j \in k + 1 .. i - 1 : w[j] \in {"rel_instance"}
    BY <1>1 DEF Lapses
  <2>1. k \in 1 .. 37
    OBVIOUS
  <2>2. (i \in {2, 4, 5, 35}) /\ (k = 10)
    BY <2>1, <1>33, <1>11
  <2>3. CASE k = 10
    <3>1. 33 \in k + 1 .. i - 1
      BY <2>2, <2>3
    <3>2. w[33] \in {"rel_instance"}
      BY <1>2
    <3> QED BY <3>1, <3>2
  <2> QED BY <2>2, <2>3
<1>36. Lapses(w, FALSE, "capture", {"drain"})
  <2> SUFFICES ASSUME NEW i \in 1 .. 37, w[i] \in Fresh, NEW k \in 1 .. i - 1, w[k] = "capture"
      PROVE  \E j \in k + 1 .. i - 1 : w[j] \in {"drain"}
    BY <1>1 DEF Lapses
  <2>1. k \in 1 .. 37
    OBVIOUS
  <2>2. (i \in {2, 4, 5, 35}) /\ (k = 14)
    BY <2>1, <1>33, <1>12
  <2>3. CASE k = 14
    <3>1. 24 \in k + 1 .. i - 1
      BY <2>2, <2>3
    <3>2. w[24] \in {"drain"}
      BY <1>2
    <3> QED BY <3>1, <3>2
  <2> QED BY <2>2, <2>3
<1>37. Lapses(w, FALSE, "spawn", {"reap", "terminate"})
  <2> SUFFICES ASSUME NEW i \in 1 .. 37, w[i] \in Fresh, NEW k \in 1 .. i - 1, w[k] = "spawn"
      PROVE  \E j \in k + 1 .. i - 1 : w[j] \in {"reap", "terminate"}
    BY <1>1 DEF Lapses
  <2>1. k \in 1 .. 37
    OBVIOUS
  <2>2. (i \in {2, 4, 5, 35}) /\ (k = 6)
    BY <2>1, <1>33, <1>13
  <2>3. CASE k = 6
    <3>1. 28 \in k + 1 .. i - 1
      BY <2>2, <2>3
    <3>2. w[28] \in {"reap", "terminate"}
      BY <1>2
    <3> QED BY <3>1, <3>2
  <2> QED BY <2>2, <2>3
<1>38. Owned(w, FALSE)
  <2> SUFFICES ASSUME NEW i \in 1 .. 37, w[i] \in SlotUsers
      PROVE  \E j \in 1 .. i - 1 :
                w[j] = "slot" /\ \A m \in j + 1 .. i - 1 : w[m] # "rel_slot"
    BY <1>1 DEF Owned
  <2>1. i \in {17, 22}
    <3>1. w[i] = "on" \/ w[i] = "on_self" \/ w[i] = "off" \/ w[i] = "record" \/ w[i] = "worker_exit"
      BY DEF SlotUsers
    <3> QED BY <3>1, <1>14, <1>15, <1>16, <1>17, <1>18
  <2>2. 15 \in 1 .. i - 1 /\ w[15] = "slot"
    BY <1>2, <2>1
  <2>3. ASSUME NEW m \in 15 + 1 .. i - 1 PROVE w[m] # "rel_slot"
    <3>1. m \in 1 .. 37 /\ m > 15 /\ m < 22
      BY <2>1
    <3> QED BY <3>1, <1>5
  <2> QED BY <2>2, <2>3
<1>39. Unstarted(w, FALSE, TRUE)
  <2> SUFFICES ASSUME NEW i \in 1 .. 37, w[i] = "on"
      PROVE  \E j \in 1 .. i - 1 :
                /\ w[j] = "spawn" /\ \A m \in j + 1 .. i - 1 : w[m] # "start"
                /\ \A k \in 1 .. j - 1 :
                      w[k] = "spawn" => \E m \in k + 1 .. j - 1 : w[m] = "terminate"
    BY <1>1, Zenon DEF Unstarted
  <2>1. i = 17
    BY <1>14
  <2>2. 6 \in 1 .. i - 1 /\ w[6] = "spawn"
    BY <1>2, <2>1
  <2>3. ASSUME NEW m \in 6 + 1 .. i - 1 PROVE w[m] # "start"
    <3>1. m \in 1 .. 37 /\ m > 6 /\ m < 17
      BY <2>1
    <3> QED BY <3>1, <1>19
  <2>4. ASSUME NEW k \in 1 .. 6 - 1, w[k] = "spawn"
        PROVE  \E m \in k + 1 .. 6 - 1 : w[m] = "terminate"
    <3>1. k \in 1 .. 37 /\ k < 6
      OBVIOUS
    <3> QED BY <2>4, <3>1, <1>13
  <2> QED BY <2>2, <2>3, <2>4
<1>40. Begun(w, FALSE)
  <2> SUFFICES ASSUME NEW i \in 1 .. 37, w[i] \in {"mkdir", "capture"}
      PROVE  \E j \in 1 .. i - 1 : w[j] = "guard"
    BY <1>1 DEF Begun
  <2>1. i \in {10, 14}
    BY <1>11, <1>12
  <2>2. 5 \in 1 .. i - 1
    BY <2>1
  <2> QED BY <1>2, <2>2
<1>41. Recovers(w)
  BY <1>1, <1>25, <1>26, <1>27, <1>28, <1>29, <1>30, <1>31, <1>18 DEF Recovers, RecNames
<1>42. Rests(w)
  <2>1. ASSUME NEW i \in 1 .. Len(w), w[i] = "ladder" PROVE Len(w) = i + 2
    <3>1. i \in 1 .. 37
      BY <1>1
    <3>2. i = 35
      BY <2>1, <3>1, <1>8
    <3> QED BY <1>1, <3>2
  <2>2. ASSUME NEW i \in 1 .. Len(w) PROVE w[i] # "run_worker"
    BY <1>1, <1>9
  <2> QED BY <2>1, <2>2 DEF Rests
<1>43. Gates(w)
  <2> SUFFICES ASSUME NEW i \in 1 .. Len(w)
      PROVE  /\ w[i] = "activity" => \A k \in i + 1 .. Len(w) : w[k] # "window"
             /\ w[i] = "reap" =>
                   \/ \E k \in i + 1 .. Len(w) : w[k] = "ladder"
                   \/ \A k \in i + 1 .. Len(w) : w[k] # "spawn"
             /\ w[i] = "fingerprint" => \A k \in i + 1 .. Len(w) : w[k] # "reap"
             /\ w[i] = "restored" => \A k \in i + 1 .. Len(w) : w[k] \in Closings
    BY DEF Gates
  <2>0. i \in 1 .. 37
    BY <1>1
  <2>1. \A k \in i + 1 .. Len(w) : k \in 1 .. 37 /\ k > i
    BY <1>1
  <2>2. w[i] = "activity" => \A k \in i + 1 .. Len(w) : w[k] # "window"
    BY <2>0, <1>20
  <2>3. w[i] = "reap" =>
           \/ \E k \in i + 1 .. Len(w) : w[k] = "ladder"
           \/ \A k \in i + 1 .. Len(w) : w[k] # "spawn"
    <3>1. i = 28 => 35 \in i + 1 .. Len(w)
      BY <1>1
    <3> QED BY <1>2, <2>0, <3>1, <1>22
  <2>4. w[i] = "fingerprint" => \A k \in i + 1 .. Len(w) : w[k] # "reap"
    BY <2>0, <1>23
  <2>5. w[i] = "restored" => \A k \in i + 1 .. Len(w) : w[k] \in Closings
    BY <2>0, <1>24
  <2> QED BY <2>2, <2>3, <2>4, <2>5
<1>44. Planned(w)
  BY <1>32, <1>34, <1>35, <1>36, <1>37, <1>38, <1>39, <1>40, <1>41, <1>42, <1>43 DEF Planned
<1> QED BY <1>44 DEF w

(* The final session. *)
LEMMA FinalPlanned == Planned(FinalProgram)
<1> DEFINE w == FinalProgram
<1>1. Len(w) = 65 /\ w \in Seq(StepNames)
  BY FinalProgramSeq
<1>2. /\ w[1] = "guard"
      /\ w[2] = "spawn"
      /\ w[8] = "terminate"
      /\ w[9] = "spawn"
      /\ w[18] = "slot"
      /\ w[28] = "drain"
      /\ w[35] = "reap"
      /\ w[38] = "rel_on"
      /\ w[39] = "rel_slot"
      /\ w[42] = "rel_instance"
      /\ w[43] = "rel_on"
      /\ w[44] = "rel_slot"
      /\ w[47] = "rel_instance"
      /\ w[49] = "run_worker"
      /\ w[50] = "rec_begin"
      /\ w[51] = "rec_state"
      /\ w[52] = "rec_off"
      /\ w[53] = "rec_slot"
      /\ w[54] = "rec_instance"
      /\ w[55] = "rec_file"
      /\ w[56] = "gate_recovery"
      /\ w[57] = "rec_begin"
      /\ w[58] = "rec_state"
      /\ w[59] = "rec_off"
      /\ w[60] = "rec_slot"
      /\ w[61] = "rec_instance"
      /\ w[62] = "rec_file"
      /\ w[63] = "restored"
      /\ w[64] = "close_damon"
      /\ w[65] = "report"
  BY DEF FinalProgram
<1>3. ASSUME NEW i \in 1 .. 65, w[i] = "report" PROVE i = 65
  BY <1>3, FinalProgramWhere
<1>4. ASSUME NEW i \in 1 .. 65, w[i] = "close_damon" PROVE i = 64
  BY <1>4, FinalProgramWhere
<1>5. ASSUME NEW i \in 1 .. 65, w[i] = "rel_slot" PROVE i \in {39, 44}
  BY <1>5, FinalProgramWhere
<1>6. ASSUME NEW i \in 1 .. 65 PROVE w[i] # "nr_zero"
  BY FinalProgramWhere
<1>7. ASSUME NEW i \in 1 .. 65, w[i] = "guard" PROVE i = 1
  BY <1>7, FinalProgramWhere
<1>8. ASSUME NEW i \in 1 .. 65 PROVE w[i] # "ladder"
  BY FinalProgramWhere
<1>9. ASSUME NEW i \in 1 .. 65, w[i] = "run_worker" PROVE i = 49
  BY <1>9, FinalProgramWhere
<1>10. ASSUME NEW i \in 1 .. 65, w[i] = "slot" PROVE i = 18
  BY <1>10, FinalProgramWhere
<1>11. ASSUME NEW i \in 1 .. 65, w[i] = "mkdir" PROVE i = 13
  BY <1>11, FinalProgramWhere
<1>12. ASSUME NEW i \in 1 .. 65, w[i] = "capture" PROVE i = 17
  BY <1>12, FinalProgramWhere
<1>13. ASSUME NEW i \in 1 .. 65, w[i] = "spawn" PROVE i \in {2, 9}
  BY <1>13, FinalProgramWhere
<1>14. ASSUME NEW i \in 1 .. 65, w[i] = "on" PROVE i = 21
  BY <1>14, FinalProgramWhere
<1>15. ASSUME NEW i \in 1 .. 65 PROVE w[i] # "on_self"
  BY FinalProgramWhere
<1>16. ASSUME NEW i \in 1 .. 65, w[i] = "off" PROVE i = 26
  BY <1>16, FinalProgramWhere
<1>17. ASSUME NEW i \in 1 .. 65 PROVE w[i] # "record"
  BY FinalProgramWhere
<1>18. ASSUME NEW i \in 1 .. 65 PROVE w[i] # "worker_exit"
  BY FinalProgramWhere
<1>19. ASSUME NEW i \in 1 .. 65, w[i] = "start" PROVE i \in {4, 23}
  BY <1>19, FinalProgramWhere
<1>20. ASSUME NEW i \in 1 .. 65, w[i] = "activity" PROVE i = 31
  BY <1>20, FinalProgramWhere
<1>21. ASSUME NEW i \in 1 .. 65, w[i] = "window" PROVE i = 25
  BY <1>21, FinalProgramWhere
<1>22. ASSUME NEW i \in 1 .. 65, w[i] = "reap" PROVE i = 35
  BY <1>22, FinalProgramWhere
<1>23. ASSUME NEW i \in 1 .. 65, w[i] = "fingerprint" PROVE i = 37
  BY <1>23, FinalProgramWhere
<1>24. ASSUME NEW i \in 1 .. 65, w[i] = "restored" PROVE i = 63
  BY <1>24, FinalProgramWhere
<1>25. ASSUME NEW i \in 1 .. 65, w[i] = "rec_begin" PROVE i \in {50, 57}
  BY <1>25, FinalProgramWhere
<1>26. ASSUME NEW i \in 1 .. 65, w[i] = "rec_state" PROVE i \in {51, 58}
  BY <1>26, FinalProgramWhere
<1>27. ASSUME NEW i \in 1 .. 65, w[i] = "rec_off" PROVE i \in {52, 59}
  BY <1>27, FinalProgramWhere
<1>28. ASSUME NEW i \in 1 .. 65, w[i] = "rec_slot" PROVE i \in {53, 60}
  BY <1>28, FinalProgramWhere
<1>29. ASSUME NEW i \in 1 .. 65, w[i] = "rec_instance" PROVE i \in {54, 61}
  BY <1>29, FinalProgramWhere
<1>30. ASSUME NEW i \in 1 .. 65, w[i] = "rec_file" PROVE i \in {55, 62}
  BY <1>30, FinalProgramWhere
<1>31. ASSUME NEW i \in 1 .. 65, w[i] = "gate_recovery" PROVE i = 56
  BY <1>31, FinalProgramWhere
<1> HIDE DEF w
<1>32. Ends(w)
  <2> SUFFICES ASSUME NEW i \in 1 .. 65
      PROVE  /\ w[i] = "report" <=> i = 65
             /\ w[i] = "close_damon" <=> i + 1 = 65
             /\ w[i] = "rel_slot" /\ i > 1 => w[i - 1] = "rel_on"
    BY <1>1 DEF Ends
  <2>1. w[i] = "report" <=> i = 65
    BY <1>2, <1>3
  <2>2. w[i] = "close_damon" <=> i + 1 = 65
    <3>1. i + 1 = 65 <=> i = 64
      OBVIOUS
    <3> QED BY <1>2, <3>1, <1>4
  <2>3. w[i] = "rel_slot" /\ i > 1 => w[i - 1] = "rel_on"
    <3>1. CASE i = 39
      <4>1. i - 1 = 38
        BY <3>1
      <4> QED BY <1>2, <4>1
    <3>2. CASE i = 44
      <4>1. i - 1 = 43
        BY <3>2
      <4> QED BY <1>2, <4>1
    <3> QED BY <1>5, <3>1, <3>2
  <2> QED BY <2>1, <2>2, <2>3
<1>33. ASSUME NEW i \in 1 .. 65, w[i] \in Fresh PROVE i \in {1, 49}
  <2>1. w[i] = "nr_zero" \/ w[i] = "guard" \/ w[i] = "ladder" \/ w[i] = "run_worker"
    BY <1>33 DEF Fresh
  <2> QED BY <2>1, <1>6, <1>7, <1>8, <1>9
<1>34. Lapses(w, FALSE, "slot", {"rel_slot"})
  <2> SUFFICES ASSUME NEW i \in 1 .. 65, w[i] \in Fresh, NEW k \in 1 .. i - 1, w[k] = "slot"
      PROVE  \E j \in k + 1 .. i - 1 : w[j] \in {"rel_slot"}
    BY <1>1, Zenon DEF Lapses
  <2>1. k \in 1 .. 65
    OBVIOUS
  <2>2. (i \in {1, 49}) /\ (k = 18)
    BY <2>1, <1>33, <1>10
  <2>3. CASE k = 18
    <3>1. 39 \in k + 1 .. i - 1
      BY <2>2, <2>3
    <3>2. w[39] \in {"rel_slot"}
      BY <1>2
    <3> QED BY <3>1, <3>2
  <2> QED BY <2>2, <2>3
<1>35. Lapses(w, FALSE, "mkdir", {"rel_instance"})
  <2> SUFFICES ASSUME NEW i \in 1 .. 65, w[i] \in Fresh, NEW k \in 1 .. i - 1, w[k] = "mkdir"
      PROVE  \E j \in k + 1 .. i - 1 : w[j] \in {"rel_instance"}
    BY <1>1, Zenon DEF Lapses
  <2>1. k \in 1 .. 65
    OBVIOUS
  <2>2. (i \in {1, 49}) /\ (k = 13)
    BY <2>1, <1>33, <1>11
  <2>3. CASE k = 13
    <3>1. 42 \in k + 1 .. i - 1
      BY <2>2, <2>3
    <3>2. w[42] \in {"rel_instance"}
      BY <1>2
    <3> QED BY <3>1, <3>2
  <2> QED BY <2>2, <2>3
<1>36. Lapses(w, FALSE, "capture", {"drain"})
  <2> SUFFICES ASSUME NEW i \in 1 .. 65, w[i] \in Fresh, NEW k \in 1 .. i - 1, w[k] = "capture"
      PROVE  \E j \in k + 1 .. i - 1 : w[j] \in {"drain"}
    BY <1>1, Zenon DEF Lapses
  <2>1. k \in 1 .. 65
    OBVIOUS
  <2>2. (i \in {1, 49}) /\ (k = 17)
    BY <2>1, <1>33, <1>12
  <2>3. CASE k = 17
    <3>1. 28 \in k + 1 .. i - 1
      BY <2>2, <2>3
    <3>2. w[28] \in {"drain"}
      BY <1>2
    <3> QED BY <3>1, <3>2
  <2> QED BY <2>2, <2>3
<1>37. Lapses(w, FALSE, "spawn", {"reap", "terminate"})
  <2> SUFFICES ASSUME NEW i \in 1 .. 65, w[i] \in Fresh, NEW k \in 1 .. i - 1, w[k] = "spawn"
      PROVE  \E j \in k + 1 .. i - 1 : w[j] \in {"reap", "terminate"}
    BY <1>1, Zenon DEF Lapses
  <2>1. k \in 1 .. 65
    OBVIOUS
  <2>2. (i \in {1, 49}) /\ (k \in {2, 9})
    BY <2>1, <1>33, <1>13
  <2>3. CASE k = 2
    <3>1. 8 \in k + 1 .. i - 1
      BY <2>2, <2>3
    <3>2. w[8] \in {"reap", "terminate"}
      BY <1>2
    <3> QED BY <3>1, <3>2
  <2>4. CASE k = 9
    <3>1. 35 \in k + 1 .. i - 1
      BY <2>2, <2>4
    <3>2. w[35] \in {"reap", "terminate"}
      BY <1>2
    <3> QED BY <3>1, <3>2
  <2> QED BY <2>2, <2>3, <2>4
<1>38. Owned(w, FALSE)
  <2> SUFFICES ASSUME NEW i \in 1 .. 65, w[i] \in SlotUsers
      PROVE  \E j \in 1 .. i - 1 :
                w[j] = "slot" /\ \A m \in j + 1 .. i - 1 : w[m] # "rel_slot"
    BY <1>1, Zenon DEF Owned
  <2>1. i \in {21, 26}
    <3>1. w[i] = "on" \/ w[i] = "on_self" \/ w[i] = "off" \/ w[i] = "record" \/ w[i] = "worker_exit"
      BY DEF SlotUsers
    <3> QED BY <3>1, <1>14, <1>15, <1>16, <1>17, <1>18
  <2>2. 18 \in 1 .. i - 1 /\ w[18] = "slot"
    BY <1>2, <2>1
  <2>3. ASSUME NEW m \in 18 + 1 .. i - 1 PROVE w[m] # "rel_slot"
    <3>1. m \in 1 .. 65 /\ m > 18 /\ m < 26
      BY <2>1
    <3> QED BY <3>1, <1>5
  <2> QED BY <2>2, <2>3
<1>39. Unstarted(w, FALSE, TRUE)
  <2> SUFFICES ASSUME NEW i \in 1 .. 65, w[i] = "on"
      PROVE  \E j \in 1 .. i - 1 :
                /\ w[j] = "spawn" /\ \A m \in j + 1 .. i - 1 : w[m] # "start"
                /\ \A k \in 1 .. j - 1 :
                      w[k] = "spawn" => \E m \in k + 1 .. j - 1 : w[m] = "terminate"
    BY <1>1, Zenon DEF Unstarted
  <2>1. i = 21
    BY <1>14
  <2>2. 9 \in 1 .. i - 1 /\ w[9] = "spawn"
    BY <1>2, <2>1
  <2>3. ASSUME NEW m \in 9 + 1 .. i - 1 PROVE w[m] # "start"
    <3>1. m \in 1 .. 65 /\ m > 9 /\ m < 21
      BY <2>1
    <3> QED BY <3>1, <1>19
  <2>4. ASSUME NEW k \in 1 .. 9 - 1, w[k] = "spawn"
        PROVE  \E m \in k + 1 .. 9 - 1 : w[m] = "terminate"
    <3>1. k \in 1 .. 65 /\ k < 9
      OBVIOUS
    <3>2. k = 2
      BY <2>4, <3>1, <1>13
    <3>3. 8 \in k + 1 .. 9 - 1
      BY <3>2
    <3> QED BY <1>2, <3>3
  <2> QED BY <2>2, <2>3, <2>4
<1>40. Begun(w, FALSE)
  <2> SUFFICES ASSUME NEW i \in 1 .. 65, w[i] \in {"mkdir", "capture"}
      PROVE  \E j \in 1 .. i - 1 : w[j] = "guard"
    BY <1>1 DEF Begun
  <2>1. i \in {13, 17}
    BY <1>11, <1>12
  <2>2. 1 \in 1 .. i - 1
    BY <2>1
  <2> QED BY <1>2, <2>2
<1>41. Recovers(w)
  <2> SUFFICES ASSUME NEW i \in 1 .. 65
      PROVE  /\ w[i] = "rec_begin" =>
                    /\ i + 6 <= 65 /\ w[i + 6] \in {"gate_recovery", "restored"}
                    /\ i > 1 => w[i - 1] \in {"worker_exit", "gate_recovery", "run_worker"}
             /\ w[i] = "rec_state" /\ i > 1 => w[i - 1] = "rec_begin"
             /\ w[i] = "rec_off" /\ i > 1 => w[i - 1] = "rec_state"
             /\ w[i] = "rec_slot" /\ i > 1 => w[i - 1] = "rec_off"
             /\ w[i] = "rec_instance" /\ i > 1 => w[i - 1] = "rec_slot"
             /\ w[i] = "rec_file" /\ i > 1 => w[i - 1] = "rec_instance"
             /\ w[i] = "gate_recovery" /\ i > 1 => w[i - 1] = "rec_file"
             /\ w[i] \in RecNames \union {"worker_exit"} =>
                   \A k \in i + 1 .. 65 : w[k] \in LateNames
    BY <1>1 DEF Recovers
  <2>1. w[i] = "rec_begin" =>
           /\ i + 6 <= 65 /\ w[i + 6] \in {"gate_recovery", "restored"}
           /\ i > 1 => w[i - 1] \in {"worker_exit", "gate_recovery", "run_worker"}
    <3>1. CASE i = 50
      <4>1. i - 1 = 49 /\ i + 6 = 56
        BY <3>1
      <4> QED BY <1>2, <4>1
    <3>2. CASE i = 57
      <4>1. i - 1 = 56 /\ i + 6 = 63
        BY <3>2
      <4> QED BY <1>2, <4>1
    <3> QED BY <1>25, <3>1, <3>2
  <2>2. w[i] = "rec_state" /\ i > 1 => w[i - 1] = "rec_begin"
    <3>1. CASE i = 51
      <4>1. i - 1 = 50
        BY <3>1
      <4> QED BY <1>2, <4>1
    <3>2. CASE i = 58
      <4>1. i - 1 = 57
        BY <3>2
      <4> QED BY <1>2, <4>1
    <3> QED BY <1>26, <3>1, <3>2
  <2>3. w[i] = "rec_off" /\ i > 1 => w[i - 1] = "rec_state"
    <3>1. CASE i = 52
      <4>1. i - 1 = 51
        BY <3>1
      <4> QED BY <1>2, <4>1
    <3>2. CASE i = 59
      <4>1. i - 1 = 58
        BY <3>2
      <4> QED BY <1>2, <4>1
    <3> QED BY <1>27, <3>1, <3>2
  <2>4. w[i] = "rec_slot" /\ i > 1 => w[i - 1] = "rec_off"
    <3>1. CASE i = 53
      <4>1. i - 1 = 52
        BY <3>1
      <4> QED BY <1>2, <4>1
    <3>2. CASE i = 60
      <4>1. i - 1 = 59
        BY <3>2
      <4> QED BY <1>2, <4>1
    <3> QED BY <1>28, <3>1, <3>2
  <2>5. w[i] = "rec_instance" /\ i > 1 => w[i - 1] = "rec_slot"
    <3>1. CASE i = 54
      <4>1. i - 1 = 53
        BY <3>1
      <4> QED BY <1>2, <4>1
    <3>2. CASE i = 61
      <4>1. i - 1 = 60
        BY <3>2
      <4> QED BY <1>2, <4>1
    <3> QED BY <1>29, <3>1, <3>2
  <2>6. w[i] = "rec_file" /\ i > 1 => w[i - 1] = "rec_instance"
    <3>1. CASE i = 55
      <4>1. i - 1 = 54
        BY <3>1
      <4> QED BY <1>2, <4>1
    <3>2. CASE i = 62
      <4>1. i - 1 = 61
        BY <3>2
      <4> QED BY <1>2, <4>1
    <3> QED BY <1>30, <3>1, <3>2
  <2>7. w[i] = "gate_recovery" /\ i > 1 => w[i - 1] = "rec_file"
    <3>1. CASE i = 56
      <4>1. i - 1 = 55
        BY <3>1
      <4> QED BY <1>2, <4>1
    <3> QED BY <1>31, <3>1
  <2>8. w[i] \in RecNames \union {"worker_exit"} =>
           \A k \in i + 1 .. 65 : w[k] \in LateNames
    <3>1. w[i] \in RecNames \union {"worker_exit"} => i >= 50 - 1
      BY <1>25, <1>26, <1>27, <1>28, <1>29, <1>30, <1>18 DEF RecNames
    <3>2. ASSUME NEW k \in 50 .. 65 PROVE w[k] \in LateNames
      <4>1. CASE k \in 50 .. 52
        BY <4>1, FinalProgramPart4 DEF w, LateNames, RecNames, Closings
      <4>2. CASE k \in 53 .. 65
        BY <4>2, FinalProgramPart5 DEF w, LateNames, RecNames, Closings
      <4> QED BY <4>1, <4>2
    <3> HIDE DEF RecNames, LateNames
    <3> QED BY <3>1, <3>2
  <2> HIDE DEF RecNames, LateNames
  <2> QED BY <2>1, <2>2, <2>3, <2>4, <2>5, <2>6, <2>7, <2>8
<1>42. Rests(w)
  <2>1. ASSUME NEW m \in 1 .. 16 PROVE w[49 + m] = LateProgram[m]
    <3>1. /\ w[50] = LateProgram[1]
          /\ w[51] = LateProgram[2]
          /\ w[52] = LateProgram[3]
          /\ w[53] = LateProgram[4]
          /\ w[54] = LateProgram[5]
          /\ w[55] = LateProgram[6]
          /\ w[56] = LateProgram[7]
          /\ w[57] = LateProgram[8]
          /\ w[58] = LateProgram[9]
          /\ w[59] = LateProgram[10]
          /\ w[60] = LateProgram[11]
          /\ w[61] = LateProgram[12]
          /\ w[62] = LateProgram[13]
          /\ w[63] = LateProgram[14]
          /\ w[64] = LateProgram[15]
          /\ w[65] = LateProgram[16]
      BY DEF w, FinalProgram, LateProgram
    <3>2. m = 1 \/ m = 2 \/ m = 3 \/ m = 4 \/ m = 5 \/ m = 6 \/ m = 7 \/ m = 8
          \/ m = 9 \/ m = 10 \/ m = 11 \/ m = 12 \/ m = 13 \/ m = 14 \/ m = 15 \/ m = 16
      OBVIOUS
    <3> QED BY <3>1, <3>2
  <2>2. ASSUME NEW i \in 1 .. Len(w), w[i] = "run_worker" PROVE Len(w) = i + 16 /\ i = 49
    <3>1. i \in 1 .. 65
      BY <1>1
    <3>2. i = 49
      BY <2>2, <3>1, <1>9
    <3> QED BY <1>1, <3>2
  <2>3. ASSUME NEW i \in 1 .. Len(w) PROVE w[i] # "ladder"
    BY <1>1, <1>8
  <2> QED BY <2>1, <2>2, <2>3 DEF Rests
<1>43. Gates(w)
  <2> SUFFICES ASSUME NEW i \in 1 .. Len(w)
      PROVE  /\ w[i] = "activity" => \A k \in i + 1 .. Len(w) : w[k] # "window"
             /\ w[i] = "reap" =>
                   \/ \E k \in i + 1 .. Len(w) : w[k] = "ladder"
                   \/ \A k \in i + 1 .. Len(w) : w[k] # "spawn"
             /\ w[i] = "fingerprint" => \A k \in i + 1 .. Len(w) : w[k] # "reap"
             /\ w[i] = "restored" => \A k \in i + 1 .. Len(w) : w[k] \in Closings
    BY DEF Gates
  <2>0. i \in 1 .. 65
    BY <1>1
  <2>1. \A k \in i + 1 .. Len(w) : k \in 1 .. 65 /\ k > i
    BY <1>1
  <2>2. w[i] = "activity" => \A k \in i + 1 .. Len(w) : w[k] # "window"
    <3>1. ASSUME NEW k \in i + 1 .. Len(w), w[i] = "activity" PROVE w[k] # "window"
      <4>1. i = 31
        BY <2>0, <3>1, <1>20
      <4>2. k \in 1 .. 65 /\ k > i
        BY <2>1
      <4>3. w[k] = "window" => k = 25
        BY <4>2, <1>21
      <4> QED BY <4>1, <4>2, <4>3
    <3> QED BY <3>1
  <2>3. w[i] = "reap" =>
           \/ \E k \in i + 1 .. Len(w) : w[k] = "ladder"
           \/ \A k \in i + 1 .. Len(w) : w[k] # "spawn"
    <3>1. ASSUME NEW k \in i + 1 .. Len(w), w[i] = "reap" PROVE w[k] # "spawn"
      <4>1. i = 35
        BY <2>0, <3>1, <1>22
      <4>2. k \in 1 .. 65 /\ k > i
        BY <2>1
      <4>3. w[k] = "spawn" => k \in {2, 9}
        BY <4>2, <1>13
      <4> QED BY <4>1, <4>2, <4>3
    <3> QED BY <3>1
  <2>4. w[i] = "fingerprint" => \A k \in i + 1 .. Len(w) : w[k] # "reap"
    <3>1. ASSUME NEW k \in i + 1 .. Len(w), w[i] = "fingerprint" PROVE w[k] # "reap"
      <4>1. i = 37
        BY <2>0, <3>1, <1>23
      <4>2. k \in 1 .. 65 /\ k > i
        BY <2>1
      <4>3. w[k] = "reap" => k = 35
        BY <4>2, <1>22
      <4> QED BY <4>1, <4>2, <4>3
    <3> QED BY <3>1
  <2>5. w[i] = "restored" => \A k \in i + 1 .. Len(w) : w[k] \in Closings
    <3>1. i = 63 => \A k \in i + 1 .. Len(w) : k = 64 \/ k = 65
      BY <1>1
    <3>2. w[64] \in Closings /\ w[65] \in Closings
      BY <1>2 DEF Closings
    <3> QED BY <2>0, <3>1, <3>2, <1>24
  <2> QED BY <2>2, <2>3, <2>4, <2>5
<1>44. Planned(w)
  BY <1>32, <1>34, <1>35, <1>36, <1>37, <1>38, <1>39, <1>40, <1>41, <1>42, <1>43 DEF Planned
<1> QED BY <1>44 DEF w

(* The crash worker. *)
LEMMA WorkerPlanned == Planned(WorkerProgram)
<1> DEFINE w == WorkerProgram
<1>1. Len(w) = 25 /\ w \in Seq(StepNames)
  BY WorkerProgramSeq
<1>2. /\ w[2] = "guard"
      /\ w[4] = "slot"
      /\ w[9] = "worker_exit"
      /\ w[10] = "rec_begin"
      /\ w[11] = "rec_state"
      /\ w[12] = "rec_off"
      /\ w[13] = "rec_slot"
      /\ w[14] = "rec_instance"
      /\ w[15] = "rec_file"
      /\ w[16] = "gate_recovery"
      /\ w[17] = "rec_begin"
      /\ w[18] = "rec_state"
      /\ w[19] = "rec_off"
      /\ w[20] = "rec_slot"
      /\ w[21] = "rec_instance"
      /\ w[22] = "rec_file"
      /\ w[23] = "restored"
      /\ w[24] = "close_damon"
      /\ w[25] = "report"
  BY DEF WorkerProgram
<1>3. ASSUME NEW i \in 1 .. 25, w[i] = "report" PROVE i = 25
  BY <1>3, WorkerProgramWhere
<1>4. ASSUME NEW i \in 1 .. 25, w[i] = "close_damon" PROVE i = 24
  BY <1>4, WorkerProgramWhere
<1>5. ASSUME NEW i \in 1 .. 25 PROVE w[i] # "rel_slot"
  BY WorkerProgramWhere
<1>6. ASSUME NEW i \in 1 .. 25, w[i] = "nr_zero" PROVE i = 1
  BY <1>6, WorkerProgramWhere
<1>7. ASSUME NEW i \in 1 .. 25, w[i] = "guard" PROVE i = 2
  BY <1>7, WorkerProgramWhere
<1>8. ASSUME NEW i \in 1 .. 25 PROVE w[i] # "ladder"
  BY WorkerProgramWhere
<1>9. ASSUME NEW i \in 1 .. 25 PROVE w[i] # "run_worker"
  BY WorkerProgramWhere
<1>10. ASSUME NEW i \in 1 .. 25, w[i] = "slot" PROVE i = 4
  BY <1>10, WorkerProgramWhere
<1>11. ASSUME NEW i \in 1 .. 25, w[i] = "mkdir" PROVE i = 3
  BY <1>11, WorkerProgramWhere
<1>12. ASSUME NEW i \in 1 .. 25 PROVE w[i] # "capture"
  BY WorkerProgramWhere
<1>13. ASSUME NEW i \in 1 .. 25 PROVE w[i] # "spawn"
  BY WorkerProgramWhere
<1>14. ASSUME NEW i \in 1 .. 25 PROVE w[i] # "on"
  BY WorkerProgramWhere
<1>15. ASSUME NEW i \in 1 .. 25, w[i] = "on_self" PROVE i = 7
  BY <1>15, WorkerProgramWhere
<1>16. ASSUME NEW i \in 1 .. 25 PROVE w[i] # "off"
  BY WorkerProgramWhere
<1>17. ASSUME NEW i \in 1 .. 25, w[i] = "record" PROVE i = 6
  BY <1>17, WorkerProgramWhere
<1>18. ASSUME NEW i \in 1 .. 25, w[i] = "worker_exit" PROVE i = 9
  BY <1>18, WorkerProgramWhere
<1>19. ASSUME NEW i \in 1 .. 25 PROVE w[i] # "start"
  BY WorkerProgramWhere
<1>20. ASSUME NEW i \in 1 .. 25 PROVE w[i] # "activity"
  BY WorkerProgramWhere
<1>21. ASSUME NEW i \in 1 .. 25 PROVE w[i] # "window"
  BY WorkerProgramWhere
<1>22. ASSUME NEW i \in 1 .. 25 PROVE w[i] # "reap"
  BY WorkerProgramWhere
<1>23. ASSUME NEW i \in 1 .. 25 PROVE w[i] # "fingerprint"
  BY WorkerProgramWhere
<1>24. ASSUME NEW i \in 1 .. 25, w[i] = "restored" PROVE i = 23
  BY <1>24, WorkerProgramWhere
<1>25. ASSUME NEW i \in 1 .. 25, w[i] = "rec_begin" PROVE i \in {10, 17}
  BY <1>25, WorkerProgramWhere
<1>26. ASSUME NEW i \in 1 .. 25, w[i] = "rec_state" PROVE i \in {11, 18}
  BY <1>26, WorkerProgramWhere
<1>27. ASSUME NEW i \in 1 .. 25, w[i] = "rec_off" PROVE i \in {12, 19}
  BY <1>27, WorkerProgramWhere
<1>28. ASSUME NEW i \in 1 .. 25, w[i] = "rec_slot" PROVE i \in {13, 20}
  BY <1>28, WorkerProgramWhere
<1>29. ASSUME NEW i \in 1 .. 25, w[i] = "rec_instance" PROVE i \in {14, 21}
  BY <1>29, WorkerProgramWhere
<1>30. ASSUME NEW i \in 1 .. 25, w[i] = "rec_file" PROVE i \in {15, 22}
  BY <1>30, WorkerProgramWhere
<1>31. ASSUME NEW i \in 1 .. 25, w[i] = "gate_recovery" PROVE i = 16
  BY <1>31, WorkerProgramWhere
<1> HIDE DEF w
<1>32. Ends(w)
  <2> SUFFICES ASSUME NEW i \in 1 .. 25
      PROVE  /\ w[i] = "report" <=> i = 25
             /\ w[i] = "close_damon" <=> i + 1 = 25
             /\ w[i] = "rel_slot" /\ i > 1 => w[i - 1] = "rel_on"
    BY <1>1 DEF Ends
  <2>1. w[i] = "report" <=> i = 25
    BY <1>2, <1>3
  <2>2. w[i] = "close_damon" <=> i + 1 = 25
    <3>1. i + 1 = 25 <=> i = 24
      OBVIOUS
    <3> QED BY <1>2, <3>1, <1>4
  <2>3. w[i] = "rel_slot" /\ i > 1 => w[i - 1] = "rel_on"
    BY <1>5
  <2> QED BY <2>1, <2>2, <2>3
<1>33. ASSUME NEW i \in 1 .. 25, w[i] \in Fresh PROVE i \in {1, 2}
  <2>1. w[i] = "nr_zero" \/ w[i] = "guard" \/ w[i] = "ladder" \/ w[i] = "run_worker"
    BY <1>33 DEF Fresh
  <2> QED BY <2>1, <1>6, <1>7, <1>8, <1>9
<1>34. Lapses(w, FALSE, "slot", {"rel_slot"})
  <2> SUFFICES ASSUME NEW i \in 1 .. 25, w[i] \in Fresh, NEW k \in 1 .. i - 1, w[k] = "slot"
      PROVE  \E j \in k + 1 .. i - 1 : w[j] \in {"rel_slot"}
    BY <1>1 DEF Lapses
  <2>1. k \in 1 .. 25
    OBVIOUS
  <2>2. (i \in {1, 2}) /\ (k = 4)
    BY <2>1, <1>33, <1>10
  <2> QED BY <2>2
<1>35. Lapses(w, FALSE, "mkdir", {"rel_instance"})
  <2> SUFFICES ASSUME NEW i \in 1 .. 25, w[i] \in Fresh, NEW k \in 1 .. i - 1, w[k] = "mkdir"
      PROVE  \E j \in k + 1 .. i - 1 : w[j] \in {"rel_instance"}
    BY <1>1 DEF Lapses
  <2>1. k \in 1 .. 25
    OBVIOUS
  <2>2. (i \in {1, 2}) /\ (k = 3)
    BY <2>1, <1>33, <1>11
  <2> QED BY <2>2
<1>36. Lapses(w, FALSE, "capture", {"drain"})
  <2> SUFFICES ASSUME NEW i \in 1 .. 25, w[i] \in Fresh, NEW k \in 1 .. i - 1, w[k] = "capture"
      PROVE  \E j \in k + 1 .. i - 1 : w[j] \in {"drain"}
    BY <1>1 DEF Lapses
  <2>1. k \in 1 .. 25
    OBVIOUS
  <2> QED BY <2>1, <1>12
<1>37. Lapses(w, FALSE, "spawn", {"reap", "terminate"})
  <2> SUFFICES ASSUME NEW i \in 1 .. 25, w[i] \in Fresh, NEW k \in 1 .. i - 1, w[k] = "spawn"
      PROVE  \E j \in k + 1 .. i - 1 : w[j] \in {"reap", "terminate"}
    BY <1>1 DEF Lapses
  <2>1. k \in 1 .. 25
    OBVIOUS
  <2> QED BY <2>1, <1>13
<1>38. Owned(w, FALSE)
  <2> SUFFICES ASSUME NEW i \in 1 .. 25, w[i] \in SlotUsers
      PROVE  \E j \in 1 .. i - 1 :
                w[j] = "slot" /\ \A m \in j + 1 .. i - 1 : w[m] # "rel_slot"
    BY <1>1 DEF Owned
  <2>1. i \in {6, 7, 9}
    <3>1. w[i] = "on" \/ w[i] = "on_self" \/ w[i] = "off" \/ w[i] = "record" \/ w[i] = "worker_exit"
      BY DEF SlotUsers
    <3> QED BY <3>1, <1>14, <1>15, <1>16, <1>17, <1>18
  <2>2. 4 \in 1 .. i - 1 /\ w[4] = "slot"
    BY <1>2, <2>1
  <2>3. ASSUME NEW m \in 4 + 1 .. i - 1 PROVE w[m] # "rel_slot"
    <3>1. m \in 1 .. 25 /\ m > 4 /\ m < 9
      BY <2>1
    <3> QED BY <3>1, <1>5
  <2> QED BY <2>2, <2>3
<1>39. Unstarted(w, FALSE, TRUE)
  BY <1>1, <1>14 DEF Unstarted
<1>40. Begun(w, FALSE)
  <2> SUFFICES ASSUME NEW i \in 1 .. 25, w[i] \in {"mkdir", "capture"}
      PROVE  \E j \in 1 .. i - 1 : w[j] = "guard"
    BY <1>1 DEF Begun
  <2>1. i = 3
    BY <1>11, <1>12
  <2>2. 2 \in 1 .. i - 1
    BY <2>1
  <2> QED BY <1>2, <2>2
<1>41. Recovers(w)
  <2> SUFFICES ASSUME NEW i \in 1 .. 25
      PROVE  /\ w[i] = "rec_begin" =>
                    /\ i + 6 <= 25 /\ w[i + 6] \in {"gate_recovery", "restored"}
                    /\ i > 1 => w[i - 1] \in {"worker_exit", "gate_recovery", "run_worker"}
             /\ w[i] = "rec_state" /\ i > 1 => w[i - 1] = "rec_begin"
             /\ w[i] = "rec_off" /\ i > 1 => w[i - 1] = "rec_state"
             /\ w[i] = "rec_slot" /\ i > 1 => w[i - 1] = "rec_off"
             /\ w[i] = "rec_instance" /\ i > 1 => w[i - 1] = "rec_slot"
             /\ w[i] = "rec_file" /\ i > 1 => w[i - 1] = "rec_instance"
             /\ w[i] = "gate_recovery" /\ i > 1 => w[i - 1] = "rec_file"
             /\ w[i] \in RecNames \union {"worker_exit"} =>
                   \A k \in i + 1 .. 25 : w[k] \in LateNames
    BY <1>1 DEF Recovers
  <2>1. w[i] = "rec_begin" =>
           /\ i + 6 <= 25 /\ w[i + 6] \in {"gate_recovery", "restored"}
           /\ i > 1 => w[i - 1] \in {"worker_exit", "gate_recovery", "run_worker"}
    <3>1. CASE i = 10
      <4>1. i - 1 = 9 /\ i + 6 = 16
        BY <3>1
      <4> QED BY <1>2, <4>1
    <3>2. CASE i = 17
      <4>1. i - 1 = 16 /\ i + 6 = 23
        BY <3>2
      <4> QED BY <1>2, <4>1
    <3> QED BY <1>25, <3>1, <3>2
  <2>2. w[i] = "rec_state" /\ i > 1 => w[i - 1] = "rec_begin"
    <3>1. CASE i = 11
      <4>1. i - 1 = 10
        BY <3>1
      <4> QED BY <1>2, <4>1
    <3>2. CASE i = 18
      <4>1. i - 1 = 17
        BY <3>2
      <4> QED BY <1>2, <4>1
    <3> QED BY <1>26, <3>1, <3>2
  <2>3. w[i] = "rec_off" /\ i > 1 => w[i - 1] = "rec_state"
    <3>1. CASE i = 12
      <4>1. i - 1 = 11
        BY <3>1
      <4> QED BY <1>2, <4>1
    <3>2. CASE i = 19
      <4>1. i - 1 = 18
        BY <3>2
      <4> QED BY <1>2, <4>1
    <3> QED BY <1>27, <3>1, <3>2
  <2>4. w[i] = "rec_slot" /\ i > 1 => w[i - 1] = "rec_off"
    <3>1. CASE i = 13
      <4>1. i - 1 = 12
        BY <3>1
      <4> QED BY <1>2, <4>1
    <3>2. CASE i = 20
      <4>1. i - 1 = 19
        BY <3>2
      <4> QED BY <1>2, <4>1
    <3> QED BY <1>28, <3>1, <3>2
  <2>5. w[i] = "rec_instance" /\ i > 1 => w[i - 1] = "rec_slot"
    <3>1. CASE i = 14
      <4>1. i - 1 = 13
        BY <3>1
      <4> QED BY <1>2, <4>1
    <3>2. CASE i = 21
      <4>1. i - 1 = 20
        BY <3>2
      <4> QED BY <1>2, <4>1
    <3> QED BY <1>29, <3>1, <3>2
  <2>6. w[i] = "rec_file" /\ i > 1 => w[i - 1] = "rec_instance"
    <3>1. CASE i = 15
      <4>1. i - 1 = 14
        BY <3>1
      <4> QED BY <1>2, <4>1
    <3>2. CASE i = 22
      <4>1. i - 1 = 21
        BY <3>2
      <4> QED BY <1>2, <4>1
    <3> QED BY <1>30, <3>1, <3>2
  <2>7. w[i] = "gate_recovery" /\ i > 1 => w[i - 1] = "rec_file"
    <3>1. CASE i = 16
      <4>1. i - 1 = 15
        BY <3>1
      <4> QED BY <1>2, <4>1
    <3> QED BY <1>31, <3>1
  <2>8. w[i] \in RecNames \union {"worker_exit"} =>
           \A k \in i + 1 .. 25 : w[k] \in LateNames
    <3>1. w[i] \in RecNames \union {"worker_exit"} => i >= 10 - 1
      BY <1>25, <1>26, <1>27, <1>28, <1>29, <1>30, <1>18 DEF RecNames
    <3>2. ASSUME NEW k \in 10 .. 25 PROVE w[k] \in LateNames
      <4>1. CASE k \in 10 .. 13
        BY <4>1, WorkerProgramPart1 DEF w, LateNames, RecNames, Closings
      <4>2. CASE k \in 14 .. 25
        BY <4>2, WorkerProgramPart2 DEF w, LateNames, RecNames, Closings
      <4> QED BY <4>1, <4>2
    <3> HIDE DEF RecNames, LateNames
    <3> QED BY <3>1, <3>2
  <2> HIDE DEF RecNames, LateNames
  <2> QED BY <2>1, <2>2, <2>3, <2>4, <2>5, <2>6, <2>7, <2>8
<1>42. Rests(w)
  BY <1>1, <1>8, <1>9 DEF Rests
<1>43. Gates(w)
  <2> SUFFICES ASSUME NEW i \in 1 .. Len(w)
      PROVE  /\ w[i] = "activity" => \A k \in i + 1 .. Len(w) : w[k] # "window"
             /\ w[i] = "reap" =>
                   \/ \E k \in i + 1 .. Len(w) : w[k] = "ladder"
                   \/ \A k \in i + 1 .. Len(w) : w[k] # "spawn"
             /\ w[i] = "fingerprint" => \A k \in i + 1 .. Len(w) : w[k] # "reap"
             /\ w[i] = "restored" => \A k \in i + 1 .. Len(w) : w[k] \in Closings
    BY DEF Gates
  <2>0. i \in 1 .. 25
    BY <1>1
  <2>1. \A k \in i + 1 .. Len(w) : k \in 1 .. 25 /\ k > i
    BY <1>1
  <2>2. w[i] = "activity" => \A k \in i + 1 .. Len(w) : w[k] # "window"
    BY <2>0, <1>20
  <2>3. w[i] = "reap" =>
           \/ \E k \in i + 1 .. Len(w) : w[k] = "ladder"
           \/ \A k \in i + 1 .. Len(w) : w[k] # "spawn"
    BY <2>0, <1>22
  <2>4. w[i] = "fingerprint" => \A k \in i + 1 .. Len(w) : w[k] # "reap"
    BY <2>0, <1>23
  <2>5. w[i] = "restored" => \A k \in i + 1 .. Len(w) : w[k] \in Closings
    <3>1. i = 23 => \A k \in i + 1 .. Len(w) : k = 24 \/ k = 25
      BY <1>1
    <3>2. w[24] \in Closings /\ w[25] \in Closings
      BY <1>2 DEF Closings
    <3> QED BY <2>0, <3>1, <3>2, <1>24
  <2> QED BY <2>2, <2>3, <2>4, <2>5
<1>44. Planned(w)
  BY <1>32, <1>34, <1>35, <1>36, <1>37, <1>38, <1>39, <1>40, <1>41, <1>42, <1>43 DEF Planned
<1> QED BY <1>44 DEF w

-----------------------------------------------------------------------------
(* A program without the steps it has taken *)

(* A step that takes nothing leaves a program that starts with nothing. *)
LEMMA PlannedStep ==
    ASSUME NEW w, NEW v, Planned(w), Drops(w, v, 1),
           w[1] # "slot", w[1] # "spawn", w[1] # "guard"
    PROVE  Planned(v)
<1>1. Len(w) \in Nat /\ Ends(w)
  BY LenProperties DEF Planned, Ends
<1>2. Ends(v) /\ Recovers(v) /\ Rests(v) /\ Gates(v)
  BY <1>1, EndsDrop, RecoversDrop, RestsDrop, GatesDrop DEF Planned
<1>3. Lapses(v, FALSE, "slot", {"rel_slot"}) /\ Lapses(v, FALSE, "mkdir", {"rel_instance"})
  BY <1>1, LapsesStep DEF Planned
<1>4. Lapses(v, FALSE, "capture", {"drain"}) /\ Lapses(v, FALSE, "spawn", {"reap", "terminate"})
  BY <1>1, LapsesStep DEF Planned
<1>5. Owned(v, FALSE) /\ Begun(v, FALSE)
  BY <1>1, OwnedStep, BegunStep DEF Planned
<1>6. Unstarted(v, FALSE, TRUE)
  BY <1>1, UnstartedStep, Zenon DEF Planned
<1> QED BY <1>2, <1>3, <1>4, <1>5, <1>6 DEF Planned

(* The same, with the length of what remains. *)
LEMMA PlannedRest ==
    ASSUME NEW w, NEW n \in Nat, Planned(w), Len(w) = n + 1,
           w[1] # "slot", w[1] # "spawn", w[1] # "guard"
    PROVE  /\ Planned(Tail(w)) /\ Tail(w) \in Seq(StepNames) /\ Len(Tail(w)) = n
           /\ \A i \in 1 .. n : Tail(w)[i] = w[i + 1]
<1>1. w \in Seq(StepNames)
  BY DEF Planned, Ends
<1>2. w # <<>>
  BY <1>1, EmptySeq
<1>3. Drops(w, Tail(w), 1)
  BY <1>1, <1>2, TailDrops
<1>4. Planned(Tail(w))
  BY <1>3, PlannedStep
<1>5. Tail(w) \in Seq(StepNames) /\ Len(Tail(w)) = (n + 1) - 1
      /\ \A i \in 1 .. Len(Tail(w)) : Tail(w)[i] = w[i + 1]
  BY <1>3 DEF Drops
<1>6. Len(Tail(w)) = n
  BY <1>5
<1> QED BY <1>4, <1>5, <1>6

(* A probe and the ladder behind it. *)
LEMMA ProbePlanned ==
    LET v == ProbeSteps \o <<"ladder", "close_damon", "report">>
    IN  Planned(v) /\ v # <<>> /\ v[1] = "nr_zero" /\ Has(v, "ladder")
<1> DEFINE w == LadderProgram
           t == Tail(w)
           u == Tail(t)
           v == Tail(u)
           p == SubSeq(w, 4, 37)
<1>1. w \in Seq(StepNames) /\ Len(w) = 36 + 1
  BY LadderProgramSeq
<1>2. w[1] = "inspect" /\ w[2] = "nr_zero" /\ w[3] = "ladder_size" /\ w[4] = "nr_zero"
      /\ w[35] = "ladder"
  BY DEF LadderProgram
<1>3. Planned(w)
  BY LadderPlanned
<1> HIDE DEF w
<1>4. Planned(t) /\ Len(t) = 35 + 1 /\ \A i \in 1 .. 36 : t[i] = w[i + 1]
  <2>1. Planned(t) /\ Len(t) = 36 /\ \A i \in 1 .. 36 : t[i] = w[i + 1]
    BY <1>1, <1>2, <1>3, PlannedRest
  <2> HIDE DEF t
  <2> QED BY <2>1
<1> HIDE DEF t
<1>5. t[1] = "nr_zero" /\ t[2] = "ladder_size" /\ t[3] = "nr_zero" /\ t[34] = "ladder"
  <2>1. t[1] = w[1 + 1] /\ t[2] = w[2 + 1] /\ t[3] = w[3 + 1] /\ t[34] = w[34 + 1]
    BY <1>4
  <2> QED BY <1>2, <2>1
<1>6. Planned(u) /\ Len(u) = 34 + 1 /\ \A i \in 1 .. 35 : u[i] = t[i + 1]
  <2>1. Planned(u) /\ Len(u) = 35 /\ \A i \in 1 .. 35 : u[i] = t[i + 1]
    BY <1>4, <1>5, PlannedRest
  <2> HIDE DEF u
  <2> QED BY <2>1
<1> HIDE DEF u
<1>7. u[1] = "ladder_size" /\ u[2] = "nr_zero" /\ u[33] = "ladder"
  <2>1. u[1] = t[1 + 1] /\ u[2] = t[2 + 1] /\ u[33] = t[33 + 1]
    BY <1>6
  <2> QED BY <1>5, <2>1
<1>8. /\ Planned(v) /\ v \in Seq(StepNames) /\ Len(v) = 34
      /\ \A i \in 1 .. 34 : v[i] = u[i + 1]
  BY <1>6, <1>7, PlannedRest
<1> HIDE DEF v
<1>9. v[1] = "nr_zero" /\ v[32] = "ladder"
  <2>1. v[1] = u[1 + 1] /\ v[32] = u[32 + 1]
    BY <1>8
  <2> QED BY <1>7, <2>1
<1>10. v = p
  <2>1. 4 \in 1 .. Len(w) /\ Len(w) = 37
    BY <1>1
  <2>2. Drops(w, p, 4 - 1)
    BY <1>1, <2>1, SubSeqDrops
  <2>3. p \in Seq(StepNames) /\ Len(p) = 37 - (4 - 1)
        /\ \A i \in 1 .. Len(p) : p[i] = w[i + (4 - 1)]
    BY <2>1, <2>2 DEF Drops
  <2> HIDE DEF p
  <2>4. ASSUME NEW i \in 1 .. Len(v) PROVE v[i] = p[i]
    <3>0. i \in 1 .. 34
      BY <1>8
    <3>1. v[i] = u[i + 1]
      BY <1>8, <3>0
    <3>4. i + 1 \in 1 .. 35 /\ (i + 1) + 1 \in 1 .. 36
      BY <3>0
    <3>2. v[i] = w[((i + 1) + 1) + 1]
      BY <1>4, <1>6, <3>1, <3>4
    <3>3. ((i + 1) + 1) + 1 = i + (4 - 1) /\ i \in 1 .. Len(p)
      BY <1>8, <2>3
    <3> QED BY <2>3, <3>2, <3>3
  <2>5. Len(p) = 34
    BY <2>3
  <2> QED BY <1>8, <2>3, <2>4, <2>5, SeqEqual
<1>11. p = ProbeSteps \o <<"ladder", "close_damon", "report">>
  BY LadderIs DEF w
<1>12. v # <<>>
  <2>1. Len(v) # 0
    BY <1>8
  <2> QED BY <1>8, <2>1, EmptySeq
<1>13. Has(v, "ladder")
  BY <1>8, <1>9 DEF Has
<1> HIDE DEF p
<1> QED BY <1>8, <1>9, <1>10, <1>11, <1>12, <1>13

-----------------------------------------------------------------------------
(* Errors *)

\* What is left to do after an error: in the crash worker, and elsewhere.
WorkerUndo ==
    <<"rel_on", "rel_slot", "rel_tracing", "rel_event", "rel_instance", "worker_exit",
      "close_damon", "report">>
ScopeUndo ==
    <<"detach", "kill", "rel_on", "rel_slot", "rel_tracing", "rel_event", "rel_instance",
      "close_damon", "report">>

(* A program that only cleans up. *)
Clears(w) == Ends(w) /\ (\A i \in 1 .. Len(w) : w[i] \in CleanupNames) /\ w[1] # "rel_slot"

(* The cleanup of the crash worker is one. *)
LEMMA WorkerUndoClears == Clears(WorkerUndo) /\ WorkerUndo # <<>>
<1> DEFINE w == WorkerUndo
<1>1. w \in Seq(StepNames) /\ Len(w) = 8
  BY DEF WorkerUndo, StepNames
<1>2. /\ w[1] = "rel_on" /\ w[2] = "rel_slot" /\ w[3] = "rel_tracing" /\ w[4] = "rel_event"
      /\ w[5] = "rel_instance" /\ w[6] = "worker_exit" /\ w[7] = "close_damon"
      /\ w[8] = "report"
  BY DEF WorkerUndo
<1> HIDE DEF w
<1>3. ASSUME NEW i \in 1 .. Len(w)
      PROVE  /\ w[i] \in CleanupNames
             /\ w[i] = "report" <=> i = Len(w)
             /\ w[i] = "close_damon" <=> i + 1 = Len(w)
             /\ w[i] = "rel_slot" => i = 2
  <2>1. i = 1 \/ i = 2 \/ i = 3 \/ i = 4 \/ i = 5 \/ i = 6 \/ i = 7 \/ i = 8
    BY <1>1
  <2> QED BY <1>1, <1>2, <2>1 DEF CleanupNames
<1>4. ASSUME NEW i \in 1 .. Len(w), w[i] = "rel_slot" PROVE w[i - 1] = "rel_on"
  <2>1. i - 1 = 1
    BY <1>3, <1>4
  <2> QED BY <1>2, <2>1
<1>5. Ends(w)
  BY <1>1, <1>3, <1>4 DEF Ends
<1>6. w # <<>>
  <2>1. Len(w) # 0 /\ w \in Seq(StepNames)
    BY <1>1, <1>5 DEF Ends
  <2> QED BY <2>1, EmptySeq
<1>7. Clears(w)
  BY <1>2, <1>3, <1>5 DEF Clears
<1> QED BY <1>6, <1>7 DEF w

(* So is the cleanup of the scope. *)
LEMMA ScopeUndoClears == Clears(ScopeUndo) /\ ScopeUndo # <<>>
<1> DEFINE w == ScopeUndo
<1>1. w \in Seq(StepNames) /\ Len(w) = 9
  BY DEF ScopeUndo, StepNames
<1>2. /\ w[1] = "detach" /\ w[2] = "kill" /\ w[3] = "rel_on" /\ w[4] = "rel_slot"
      /\ w[5] = "rel_tracing" /\ w[6] = "rel_event" /\ w[7] = "rel_instance"
      /\ w[8] = "close_damon" /\ w[9] = "report"
  BY DEF ScopeUndo
<1> HIDE DEF w
<1>3. ASSUME NEW i \in 1 .. Len(w)
      PROVE  /\ w[i] \in CleanupNames
             /\ w[i] = "report" <=> i = Len(w)
             /\ w[i] = "close_damon" <=> i + 1 = Len(w)
             /\ w[i] = "rel_slot" => i = 4
  <2>1. i = 1 \/ i = 2 \/ i = 3 \/ i = 4 \/ i = 5 \/ i = 6 \/ i = 7 \/ i = 8 \/ i = 9
    BY <1>1
  <2> QED BY <1>1, <1>2, <2>1 DEF CleanupNames
<1>4. ASSUME NEW i \in 1 .. Len(w), w[i] = "rel_slot" PROVE w[i - 1] = "rel_on"
  <2>1. i - 1 = 3
    BY <1>3, <1>4
  <2> QED BY <1>2, <2>1
<1>5. Ends(w)
  BY <1>1, <1>3, <1>4 DEF Ends
<1>6. w # <<>>
  BY <1>1
<1>7. Clears(w)
  BY <1>2, <1>3, <1>5 DEF Clears
<1> QED BY <1>6, <1>7 DEF w

(* The destructors and the end of the scope. *)
LEMMA WorkerUndoIs ==
    (Releases \o <<"worker_exit">>) \o <<"close_damon", "report">> = WorkerUndo
<1> DEFINE one == <<"worker_exit">>
           six == <<"rel_on", "rel_slot", "rel_tracing", "rel_event", "rel_instance",
                    "worker_exit">>
           end == <<"close_damon", "report">>
<1>1. one \in Seq(StepNames) /\ Len(one) = 1 /\ six \in Seq(StepNames) /\ Len(six) = 6
  BY DEF StepNames
<1>2. end \in Seq(StepNames) /\ Len(end) = 2
  BY DEF StepNames
<1>3. Releases \in Seq(StepNames) /\ Len(Releases) = 5
  BY DEF Releases, StepNames
<1>4. WorkerUndo \in Seq(StepNames) /\ Len(WorkerUndo) = 8
  BY DEF WorkerUndo, StepNames
<1>5. (\A i \in 1 .. 5 : six[i] = Releases[i]) /\ six[6] = one[1]
  <2>1. \A i \in 1 .. 5 : i = 1 \/ i = 2 \/ i = 3 \/ i = 4 \/ i = 5
    OBVIOUS
  <2> QED BY <2>1 DEF Releases
<1>6. (\A i \in 1 .. 6 : WorkerUndo[i] = six[i]) /\ WorkerUndo[7] = end[1] /\ WorkerUndo[8] = end[2]
  <2>1. \A i \in 1 .. 6 : i = 1 \/ i = 2 \/ i = 3 \/ i = 4 \/ i = 5 \/ i = 6
    OBVIOUS
  <2> QED BY <2>1 DEF WorkerUndo
<1> HIDE DEF one, six, end
<1>7. Releases \o one = six
  <2>1. Len(six) = Len(Releases) + Len(one)
    BY <1>1, <1>3
  <2>2. \A i \in 1 .. Len(Releases) : six[i] = Releases[i]
    BY <1>3, <1>5
  <2>3. \A i \in 1 .. Len(one) : six[Len(Releases) + i] = one[i]
    BY <1>1, <1>3, <1>5
  <2> QED BY <1>1, <1>3, <2>1, <2>2, <2>3, Joins
<1>8. six \o end = WorkerUndo
  <2>1. Len(WorkerUndo) = Len(six) + Len(end)
    BY <1>1, <1>2, <1>4
  <2>2. \A i \in 1 .. Len(six) : WorkerUndo[i] = six[i]
    BY <1>1, <1>6
  <2>3. \A i \in 1 .. Len(end) : WorkerUndo[Len(six) + i] = end[i]
    BY <1>1, <1>2, <1>6
  <2> QED BY <1>1, <1>2, <1>4, <2>1, <2>2, <2>3, Joins
<1> QED BY <1>7, <1>8 DEF one, end

(* The same outside the crash worker. *)
LEMMA ScopeUndoIs ==
    (<<"detach", "kill">> \o Releases) \o <<"close_damon", "report">> = ScopeUndo
<1> DEFINE two == <<"detach", "kill">>
           seven == <<"detach", "kill", "rel_on", "rel_slot", "rel_tracing", "rel_event",
                      "rel_instance">>
           end == <<"close_damon", "report">>
<1>1. two \in Seq(StepNames) /\ Len(two) = 2 /\ seven \in Seq(StepNames) /\ Len(seven) = 7
  BY DEF StepNames
<1>2. end \in Seq(StepNames) /\ Len(end) = 2
  BY DEF StepNames
<1>3. Releases \in Seq(StepNames) /\ Len(Releases) = 5
  BY DEF Releases, StepNames
<1>4. ScopeUndo \in Seq(StepNames) /\ Len(ScopeUndo) = 9
  BY DEF ScopeUndo, StepNames
<1>5. seven[1] = two[1] /\ seven[2] = two[2] /\ \A i \in 1 .. 5 : seven[2 + i] = Releases[i]
  <2>1. \A i \in 1 .. 5 : i = 1 \/ i = 2 \/ i = 3 \/ i = 4 \/ i = 5
    OBVIOUS
  <2> QED BY <2>1 DEF Releases
<1>6. (\A i \in 1 .. 7 : ScopeUndo[i] = seven[i]) /\ ScopeUndo[8] = end[1] /\ ScopeUndo[9] = end[2]
  <2>1. \A i \in 1 .. 7 : i = 1 \/ i = 2 \/ i = 3 \/ i = 4 \/ i = 5 \/ i = 6 \/ i = 7
    OBVIOUS
  <2> QED BY <2>1 DEF ScopeUndo
<1> HIDE DEF two, seven, end
<1>7. two \o Releases = seven
  <2>1. Len(seven) = Len(two) + Len(Releases)
    BY <1>1, <1>3
  <2>2. \A i \in 1 .. Len(two) : seven[i] = two[i]
    BY <1>1, <1>5
  <2>3. \A i \in 1 .. Len(Releases) : seven[Len(two) + i] = Releases[i]
    BY <1>1, <1>3, <1>5
  <2> QED BY <1>1, <1>3, <2>1, <2>2, <2>3, Joins
<1>8. seven \o end = ScopeUndo
  <2>1. Len(ScopeUndo) = Len(seven) + Len(end)
    BY <1>1, <1>2, <1>4
  <2>2. \A i \in 1 .. Len(seven) : ScopeUndo[i] = seven[i]
    BY <1>1, <1>6
  <2>3. \A i \in 1 .. Len(end) : ScopeUndo[Len(seven) + i] = end[i]
    BY <1>1, <1>2, <1>6
  <2> QED BY <1>1, <1>2, <1>4, <2>1, <2>2, <2>3, Joins
<1> QED BY <1>7, <1>8 DEF two, end

(* What main goes on with. *)
LEMMA DamonScope ==
    ASSUME Ends(todo), Len(todo) >= 2
    PROVE  AfterScope = <<"close_damon", "report">> /\ Scope = "damon"
<1> DEFINE n == Len(todo)
           I == {i \in 1 .. Len(todo) : IsClosing(todo[i])}
<1>1. todo \in Seq(StepNames) /\ n \in Nat /\ n - 1 \in 1 .. n /\ n \in 1 .. n
  BY LenProperties DEF Ends
<1>2. todo[n] = "report"
  BY <1>1 DEF Ends
<1>3. todo[n - 1] = "close_damon"
  <2>1. (n - 1) + 1 = n
    BY <1>1
  <2> QED BY <1>1, <2>1, Zenon DEF Ends
<1>4. ASSUME NEW i \in 1 .. n, todo[i] \in Closings PROVE n - 1 <= i
  <2>1. todo[i] \in StepNames
    BY <1>1, ElementOfSeq
  <2>2. todo[i] = "report" \/ todo[i] = "close_damon"
    BY <1>4, <2>1 DEF Closings, StepNames
  <2>3. i = n \/ i + 1 = n
    BY <2>2 DEF Ends
  <2> QED BY <1>1, <2>3
<1>5. Min(I) = n - 1 /\ I # {}
  <2>1. n - 1 \in I
    BY <1>1, <1>3 DEF IsClosing, Closings
  <2>2. \A i \in I : n - 1 <= i
    BY <1>4 DEF IsClosing
  <2>3. I \in SUBSET Int
    OBVIOUS
  <2> HIDE DEF I
  <2> QED BY <2>1, <2>2, <2>3, MinIs
<1>6. SelectInSeq(todo, IsClosing) = n - 1
  BY <1>5 DEF SelectInSeq
<1>7. AfterScope = SubSeq(todo, n - 1, n)
  BY <1>6 DEF AfterScope
<1> DEFINE s == SubSeq(todo, n - 1, n)
<1>8. s \in Seq(StepNames) /\ Len(s) = n - ((n - 1) - 1)
      /\ \A i \in 1 .. Len(s) : s[i] = todo[i + ((n - 1) - 1)]
  BY <1>1, SubSeqDrops DEF Drops
<1>9. Len(s) = 2
  BY <1>1, <1>8
<1>10. s[1] = "close_damon" /\ s[2] = "report"
  <2>1. 1 + ((n - 1) - 1) = n - 1 /\ 2 + ((n - 1) - 1) = n /\ 1 \in 1 .. 2 /\ 2 \in 1 .. 2
    BY <1>1
  <2>2. s[1] = todo[1 + ((n - 1) - 1)] /\ s[2] = todo[2 + ((n - 1) - 1)]
    BY <1>8, <1>9, <2>1
  <2> QED BY <1>2, <1>3, <2>1, <2>2
<1>11. s = <<s[1], s[2]>>
  BY <1>8, <1>9, Two
<1>12. AfterScope = <<"close_damon", "report">>
  BY <1>7, <1>10, <1>11
<1>13. Head(AfterScope) = "close_damon"
  BY <1>12
<1> QED BY <1>12, <1>13 DEF Scope

(* An error begins the cleanup. *)
LEMMA FailClears ==
    ASSUME Ends(todo), Len(todo) >= 2, Fail
    PROVE  /\ Clears(todo') /\ todo' # <<>> /\ unwinding' = TRUE
           /\ errors' = errors \union {"damon"} /\ failed' = failed /\ verdict' = verdict
<1>1. AfterScope = <<"close_damon", "report">> /\ Scope = "damon"
  BY DamonScope
<1>2. CASE WorkerAlive
  <2>1. Destructors = Releases \o <<"worker_exit">>
    BY <1>2 DEF Destructors
  <2> QED BY <1>1, <2>1, WorkerUndoIs, WorkerUndoClears DEF Fail
<1>3. CASE ~WorkerAlive
  <2>1. Destructors = <<"detach", "kill">> \o Releases
    BY <1>1, <1>3 DEF Destructors
  <2> QED BY <1>1, <2>1, ScopeUndoIs, ScopeUndoClears DEF Fail
<1> QED BY <1>2, <1>3

(* A set of numbers has a least one. *)
LEMMA LeastOf ==
    ASSUME NEW T, T \subseteq Nat, T # {}
    PROVE  \E x \in T : \A y \in T : x <= y
<1>1. PICK x \in T : \A y \in T : ~(<<y, x>> \in OpToRel(<, Nat))
  BY NatLessThanWellFounded, WFMin, Zenon
<1>2. ASSUME NEW y \in T PROVE x <= y
  <2>1. x \in Nat /\ y \in Nat
    OBVIOUS
  <2>2. ~(y < x)
    BY <1>1, <2>1 DEF OpToRel
  <2> QED BY <2>1, <2>2
<1> QED BY <1>2

(* A release that is refused ends the releases. *)
LEMMA PastDrops ==
    ASSUME Ends(todo), todo # <<>>
    PROVE  /\ \E d \in 0 .. Len(todo) : Drops(todo, PastReleases, d)
           /\ PastReleases[1] # "rel_slot"
<1> DEFINE n == Len(todo)
           I == {i \in 1 .. Len(todo) : NotRelease(todo[i])}
<1>1. todo \in Seq(StepNames) /\ n \in Nat /\ n # 0 /\ n \in 1 .. n
  <2>1. todo \in Seq(StepNames)
    BY DEF Ends
  <2> QED BY <2>1, EmptySeq, LenProperties
<1>2. \A step : IsRelease(step) <=>
         step \in {"rel_on", "rel_slot", "rel_tracing", "rel_event", "rel_instance"}
  <2>1. DOMAIN Releases = 1 .. 5
    BY DEF Releases
  <2>2. {Releases[i] : i \in 1 .. 5} =
            {Releases[1], Releases[2], Releases[3], Releases[4], Releases[5]}
    <3>1. \A i \in 1 .. 5 : i = 1 \/ i = 2 \/ i = 3 \/ i = 4 \/ i = 5
      OBVIOUS
    <3> QED BY <3>1
  <2>3. {Releases[i] : i \in DOMAIN Releases} =
            {"rel_on", "rel_slot", "rel_tracing", "rel_event", "rel_instance"}
    BY <2>1, <2>2 DEF Releases
  <2> QED BY <2>3 DEF IsRelease
<1>3. n \in I
  <2>1. todo[n] = "report"
    BY <1>1 DEF Ends
  <2> QED BY <1>1, <1>2, <2>1 DEF NotRelease
<1>4. PICK k \in I : \A y \in I : k <= y
  <2>1. I \subseteq Nat /\ I # {}
    BY <1>1, <1>3
  <2> HIDE DEF I
  <2> QED BY <2>1, LeastOf
<1>5. Min(I) = k /\ I # {}
  <2>1. I \in SUBSET Int
    OBVIOUS
  <2> HIDE DEF I
  <2> QED BY <1>3, <1>4, <2>1, MinIs
<1>6. SelectInSeq(todo, NotRelease) = k
  BY <1>5 DEF SelectInSeq
<1>7. PastReleases = SubSeq(todo, k, n) /\ k \in 1 .. n /\ NotRelease(todo[k])
  BY <1>6 DEF PastReleases
<1>8. Drops(todo, PastReleases, k - 1)
  BY <1>1, <1>7, SubSeqDrops
<1>9. PastReleases[1] = todo[k]
  <2>1. Len(PastReleases) = n - (k - 1) /\ \A i \in 1 .. Len(PastReleases) :
            PastReleases[i] = todo[i + (k - 1)]
    BY <1>8 DEF Drops
  <2>2. 1 \in 1 .. Len(PastReleases) /\ 1 + (k - 1) = k
    BY <1>1, <1>7, <2>1
  <2> QED BY <2>1, <2>2
<1>10. k - 1 \in 0 .. Len(todo)
  BY <1>1, <1>7
<1> QED BY <1>2, <1>7, <1>8, <1>9, <1>10 DEF NotRelease

(* The cleanup goes on. *)
LEMMA CleanupDrops ==
    ASSUME NEW w, NEW v, NEW d, Ends(w), \A i \in 1 .. Len(w) : w[i] \in CleanupNames,
           Drops(w, v, d)
    PROVE  \A i \in 1 .. Len(v) : v[i] \in CleanupNames
<1>1. Len(w) \in Nat /\ d \in 0 .. Len(w) /\ Len(v) = Len(w) - d
      /\ \A i \in 1 .. Len(v) : v[i] = w[i + d]
  BY LenProperties DEF Ends, Drops
<1>2. \A i \in 1 .. Len(v) : i + d \in 1 .. Len(w)
  BY <1>1
<1> QED BY <1>1, <1>2

(* Behind any step but a release of the kdamond there is none of its slot. *)
LEMMA NotSlotNext ==
    ASSUME NEW w, NEW v, Ends(w), w # <<>>, Drops(w, v, 1), v # <<>>, v[1] = "rel_slot"
    PROVE  w[1] = "rel_on"
<1>1. Len(w) \in Nat /\ Len(v) = Len(w) - 1 /\ v \in Seq(StepNames)
  BY LenProperties DEF Ends, Drops
<1>2. Len(v) # 0 /\ Len(v) \in Nat
  BY <1>1, EmptySeq, LenProperties
<1>3. v[1] = w[1 + 1] /\ 1 + 1 \in 1 .. Len(w) /\ (1 + 1) - 1 = 1 /\ 1 + 1 > 1
  BY <1>1, <1>2 DEF Drops
<1> QED BY <1>3 DEF Ends

-----------------------------------------------------------------------------
(* A step of the program that does what it should *)

\* Does a session begin in what is ahead?
Ahead(w) == \E i \in 1 .. Len(w) : w[i] \in Fresh

Mine == kd.own = "nemor"
Quiet == tgt # "active" /\ "start" \notin files
Numbered == sess > 0

\* The kernel and the guard after step n.
PassesKernel(n) ==
    /\ Ahead(todo)' =>
          /\ Mine' => (Mine /\ n # "rel_slot") \/ n = "slot"
          /\ inst' # {} => (inst # {} /\ n # "rel_instance") \/ n = "mkdir"
          /\ readers' # {} => (readers # {} /\ n # "drain") \/ n = "capture"
          /\ Mine' => "slot" \in flags'
          /\ inst' # {} => "instance" \in flags'
          /\ inst' \subseteq {sess'} /\ readers' \subseteq {sess'}
    /\ (Mine /\ n # "rel_slot") \/ n = "slot" => Mine'
    /\ Numbered \/ n = "guard" => Numbered'
    /\ n = "restored" => inst' = {} /\ ~Mine'
    /\ n \in Closings => inst' = inst /\ Mine' = Mine

\* The target, what is measured of it, and the report after step n.
PassesTarget(n) ==
    /\ tgt' # "none" => (tgt # "none" /\ n \notin {"reap", "terminate"}) \/ n = "spawn"
    /\ (Quiet /\ n # "start") \/ n = "spawn" => Quiet'
    /\ errors' = errors /\ unwinding' = unwinding
    /\ failed' = {} => failed = {}
    /\ n # "window" => active' = active
    /\ n = "activity" /\ failed' = {} => active'
    /\ n # "spawn" => progress' = progress
    /\ n = "fingerprint" /\ failed' = {} => progress' = "final"

Passes(n) ==
    /\ n \notin RecNames \union {"ladder", "run_worker"}
    /\ n = "worker_exit" => flags' = {}
    /\ n = "gate_recovery" => files' = files /\ flags' = flags
    /\ PassesKernel(n) /\ PassesTarget(n)

(* Without a session ahead, and without a user of the slot, nothing is asked. *)
LEMMA LapsesAhead ==
    ASSUME NEW w, NEW h, NEW o, NEW c, ~Ahead(w) PROVE Lapses(w, h, o, c)
BY DEF Lapses, Ahead

(* What is held is released in time, after a step that passes. *)
LEMMA SeparateStep ==
    ASSUME Ends(todo), todo # <<>>, todo' = Tail(todo), Separate, Passes(todo[1])
    PROVE  Separate'
<1>1. Drops(todo, todo', 1) /\ Len(todo) \in Nat
  BY TailDrops, LenProperties DEF Ends
<1>2. CASE ~Ahead(todo')
  <2>1. \A h, o, c : Lapses(todo', h, o, c)
    BY <1>2, LapsesAhead
  <2> QED BY <2>1 DEF Separate
<1>3. CASE Ahead(todo)'
  <2>1. Lapses(todo', Mine', "slot", {"rel_slot"})
    <3>1. Lapses(todo, Mine, "slot", {"rel_slot"})
      BY DEF Separate, Mine
    <3>2. Mine' => (Mine /\ todo[1] \notin {"rel_slot"}) \/ todo[1] = "slot"
      BY <1>3 DEF Passes, PassesKernel
    <3> QED BY <1>1, <3>1, <3>2, LapsesStep
  <2>2. Lapses(todo', (inst # {})', "mkdir", {"rel_instance"})
    <3>1. Lapses(todo, inst # {}, "mkdir", {"rel_instance"})
      BY DEF Separate
    <3>2. (inst # {})' => (inst # {} /\ todo[1] \notin {"rel_instance"}) \/ todo[1] = "mkdir"
      BY <1>3 DEF Passes, PassesKernel
    <3> QED BY <1>1, <3>1, <3>2, LapsesStep
  <2>3. Lapses(todo', (readers # {})', "capture", {"drain"})
    <3>1. Lapses(todo, readers # {}, "capture", {"drain"})
      BY DEF Separate
    <3>2. (readers # {})' => (readers # {} /\ todo[1] \notin {"drain"}) \/ todo[1] = "capture"
      BY <1>3 DEF Passes, PassesKernel
    <3> QED BY <1>1, <3>1, <3>2, LapsesStep
  <2>4. Lapses(todo', (tgt # "none")', "spawn", {"reap", "terminate"})
    <3>1. Lapses(todo, tgt # "none", "spawn", {"reap", "terminate"})
      BY DEF Separate
    <3>2. (tgt # "none")' => (tgt # "none" /\ todo[1] \notin {"reap", "terminate"})
                             \/ todo[1] = "spawn"
      BY DEF Passes, PassesTarget
    <3> QED BY <1>1, <3>1, <3>2, LapsesStep
  <2> QED BY <2>1, <2>2, <2>3, <2>4 DEF Separate, Mine
<1> QED BY <1>2, <1>3

(* So is the order of the steps kept. *)
LEMMA OrderStep ==
    ASSUME Ends(todo), todo # <<>>, todo' = Tail(todo), Passes(todo[1]),
           Owned(todo, Mine), Unstarted(todo, Quiet, tgt = "none"), Begun(todo, Numbered)
    PROVE  /\ Owned(todo', Mine') /\ Unstarted(todo', Quiet', (tgt = "none")')
           /\ Begun(todo', Numbered')
<1>1. Drops(todo, todo', 1) /\ Len(todo) \in Nat
  BY TailDrops, LenProperties DEF Ends
<1>2. Owned(todo', Mine')
  <2>1. (Mine /\ todo[1] # "rel_slot" => Mine') /\ (todo[1] = "slot" => Mine')
    BY DEF Passes, PassesKernel
  <2> QED BY <1>1, <2>1, OwnedStep
<1>3. Unstarted(todo', Quiet', (tgt = "none")')
  <2>1. (Quiet /\ todo[1] # "start" => Quiet') /\ (todo[1] = "spawn" => Quiet')
    BY DEF Passes, PassesTarget
  <2>2. (tgt = "none" /\ todo[1] # "spawn" => tgt' = "none")
        /\ (todo[1] = "terminate" => tgt' = "none")
    BY DEF Passes, PassesTarget
  <2> QED BY <1>1, <2>1, <2>2, UnstartedStep
<1>4. Begun(todo', Numbered')
  <2>1. (Numbered => Numbered') /\ (todo[1] = "guard" => Numbered')
    BY DEF Passes, PassesKernel
  <2> QED BY <1>1, <2>1, BegunStep
<1> QED BY <1>2, <1>3, <1>4

(* What the gates have established stays. *)
LEMMA EvidencedStep ==
    ASSUME Ends(todo), todo # <<>>, todo' = Tail(todo), Passes(todo[1]),
           Gates(todo), Evidenced(todo)
    PROVE  Evidenced(todo)'
<1> DEFINE w == todo
           v == todo'
           n == todo[1]
<1>1. Drops(w, v, 1) /\ Len(w) \in Nat /\ Len(w) >= 1
  BY TailDrops, LenProperties DEF Ends
<1>2. Len(v) = Len(w) - 1 /\ \A i \in 1 .. Len(v) : v[i] = w[i + 1] /\ i + 1 \in 1 + 1 .. Len(w)
  BY <1>1 DEF Drops
<1>3. \A name : Has(w, name) <=> n = name \/ Has(v, name)
  BY <1>1, HasStep
<1>4. /\ n = "activity" => \A k \in 1 + 1 .. Len(w) : w[k] # "window"
      /\ n = "reap" => \/ \E k \in 1 + 1 .. Len(w) : w[k] = "ladder"
                       \/ \A k \in 1 + 1 .. Len(w) : w[k] # "spawn"
      /\ n = "fingerprint" => \A k \in 1 + 1 .. Len(w) : w[k] # "reap"
      /\ n = "restored" => \A k \in 1 + 1 .. Len(w) : w[k] \in Closings
  BY <1>1 DEF Gates
<1> HIDE DEF v
<1>5. n = "activity" => ~Has(v, "window")
  BY <1>2, <1>4 DEF Has
<1>6. n = "reap" => Has(w, "ladder") \/ ~Has(v, "spawn")
  <2>1. CASE \E k \in 1 + 1 .. Len(w) : w[k] = "ladder"
    <3>1. \A k \in 1 + 1 .. Len(w) : k \in 1 .. Len(w)
      BY <1>1
    <3> QED BY <2>1, <3>1 DEF Has
  <2>2. CASE \A k \in 1 + 1 .. Len(w) : w[k] # "spawn"
    BY <1>2, <2>2 DEF Has
  <2> QED BY <1>4, <2>1, <2>2
<1>7. n = "fingerprint" => ~Has(v, "reap")
  BY <1>2, <1>4 DEF Has
<1>8. n = "restored" => \A i \in 1 .. Len(v) : v[i] \in Closings
  BY <1>2, <1>4
<1>9. n # "ladder"
  BY DEF Passes
<1>10. CASE Has(w, "ladder")
  <2>1. Has(v, "ladder")
    BY <1>3, <1>9, <1>10
  <2> QED BY <2>1 DEF Evidenced, v
<1>11. CASE ~Has(w, "ladder")
  <2>1. /\ Has(w, "activity") \/ (~Has(w, "window") /\ (failed = {} => active))
        /\ Has(w, "reap") \/ (~Has(w, "spawn") /\ tgt = "none")
        /\ Has(w, "fingerprint") \/ (~Has(w, "reap") /\ (failed = {} => progress = "final"))
        /\ \/ Has(w, "restored")
           \/ /\ \A i \in 1 .. Len(w) : w[i] \in Closings
              /\ inst = {} /\ ~Mine
    BY <1>11 DEF Evidenced, Mine
  <2>2. Has(v, "activity") \/ (~Has(v, "window") /\ (failed' = {} => active'))
    BY <1>3, <1>5, <2>1 DEF Passes, PassesTarget
  <2>3. Has(v, "reap") \/ (~Has(v, "spawn") /\ tgt' = "none")
    BY <1>3, <1>6, <1>11, <2>1 DEF Passes, PassesTarget
  <2>4. Has(v, "fingerprint") \/ (~Has(v, "reap") /\ (failed' = {} => progress' = "final"))
    BY <1>3, <1>7, <2>1 DEF Passes, PassesTarget
  <2>5. \/ Has(v, "restored")
        \/ /\ \A i \in 1 .. Len(v) : v[i] \in Closings
           /\ inst' = {} /\ ~Mine'
    <3>1. CASE n = "restored"
      BY <1>8, <3>1 DEF Passes, PassesKernel
    <3>2. CASE n # "restored" /\ Has(w, "restored")
      BY <1>3, <3>2
    <3>3. CASE \A i \in 1 .. Len(w) : w[i] \in Closings
      <4>1. n \in Closings
        BY <1>1, <3>3
      <4>2. \A i \in 1 .. Len(v) : v[i] \in Closings
        <5>1. \A i \in 1 + 1 .. Len(w) : i \in 1 .. Len(w)
          BY <1>1
        <5> QED BY <1>2, <3>3, <5>1
      <4>3. Has(w, "restored") \/ (inst = {} /\ ~Mine)
        BY <2>1
      <4>4. CASE Has(w, "restored") /\ n # "restored"
        BY <1>3, <4>4
      <4>5. CASE inst = {} /\ ~Mine
        BY <4>1, <4>2, <4>5 DEF Passes, PassesKernel
      <4> QED BY <3>1, <4>3, <4>4, <4>5
    <3> QED BY <2>1, <3>1, <3>2, <3>3
  <2> QED BY <2>2, <2>3, <2>4, <2>5 DEF Evidenced, Mine, v
<1> QED BY <1>10, <1>11

(* The recovery finds the slot and the record as it expects them. *)
LEMMA FoundStep ==
    ASSUME Ends(todo), todo # <<>>, todo' = Tail(todo), Passes(todo[1]), Recovers(todo),
           Owned(todo, Mine), Found(todo, Mine, "recovery" \in files, flags = {})
    PROVE  Found(todo, Mine, "recovery" \in files, flags = {})'
<1> DEFINE n == todo[1]
<1> SUFFICES ASSUME todo' # <<>>
    PROVE  /\ todo'[1] \in {"rec_state", "rec_off", "rec_slot"} => Mine'
           /\ todo'[1] = "rec_begin" => ("recovery" \in files' => Mine')
           /\ todo'[1] = "gate_recovery" => "recovery" \notin files'
           /\ todo'[1] \in RecNames \union {"gate_recovery"} => flags' = {}
  BY DEF Found
<1>1. Drops(todo, todo', 1) /\ Len(todo) \in Nat
  BY TailDrops, LenProperties DEF Ends
<1>2. todo' \in Seq(StepNames) /\ Len(todo') = Len(todo) - 1
      /\ \A i \in 1 .. Len(todo') : todo'[i] = todo[i + 1]
  BY <1>1 DEF Drops
<1>3. Len(todo') # 0 /\ Len(todo') \in Nat
  BY <1>2, EmptySeq, LenProperties
<1>4. 1 + 1 \in 1 .. Len(todo) /\ (1 + 1) - 1 = 1 /\ 1 + 1 > 1 /\ todo'[1] = todo[1 + 1]
  BY <1>1, <1>2, <1>3
<1> DEFINE m == todo[1 + 1]
<1>5. /\ m = "rec_begin" => n \in {"worker_exit", "gate_recovery", "run_worker"}
      /\ m = "rec_state" => n = "rec_begin"
      /\ m = "rec_off" => n = "rec_state"
      /\ m = "rec_slot" => n = "rec_off"
      /\ m = "rec_instance" => n = "rec_slot"
      /\ m = "rec_file" => n = "rec_instance"
      /\ m = "gate_recovery" => n = "rec_file"
  BY <1>4 DEF Recovers
<1> HIDE DEF m
<1>6. n \notin RecNames /\ n # "run_worker"
  BY DEF Passes
<1>7. todo'[1] \in RecNames \union {"gate_recovery"} =>
          todo'[1] = "rec_begin" /\ (n = "worker_exit" \/ n = "gate_recovery")
  BY <1>4, <1>5, <1>6 DEF RecNames, m
<1>8. CASE n = "worker_exit"
  <2>1. Mine
    <3>1. n \in SlotUsers /\ 1 \in 1 .. Len(todo) /\ 1 .. 1 - 1 = {}
      BY <1>4, <1>8 DEF SlotUsers
    <3> QED BY <3>1 DEF Owned
  <2>2. Mine' /\ flags' = {}
    BY <1>8, <2>1 DEF Passes, PassesKernel
  <2> QED BY <1>7, <2>2 DEF RecNames
<1>9. CASE n = "gate_recovery"
  <2>1. "recovery" \notin files /\ flags = {}
    BY <1>9 DEF Found
  <2>2. files' = files /\ flags' = flags
    BY <1>9 DEF Passes
  <2> QED BY <1>7, <2>1, <2>2 DEF RecNames
<1>10. CASE n # "worker_exit" /\ n # "gate_recovery"
  BY <1>7, <1>10 DEF RecNames
<1> QED BY <1>8, <1>9, <1>10

(* The step leaves the harness on its course. *)
LEMMA Onwards ==
    ASSUME Ends(todo), todo # <<>>, todo' = Tail(todo), OnCourse, Passes(todo[1])
    PROVE  Ends(todo)' /\ OnCourse'
<1>1. Drops(todo, todo', 1)
  BY TailDrops DEF Ends
<1>2. Ends(todo)' /\ Recovers(todo)' /\ Rests(todo)' /\ Gates(todo)'
  BY <1>1, EndsDrop, RecoversDrop, RestsDrop, GatesDrop DEF OnCourse
<1>3. Separate'
  BY SeparateStep DEF OnCourse
<1>4. Owned(todo, Mine)' /\ Unstarted(todo, Quiet, tgt = "none")' /\ Begun(todo, Numbered)'
  BY OrderStep DEF OnCourse, Mine, Quiet, Numbered
<1>5. Evidenced(todo)'
  BY EvidencedStep DEF OnCourse
<1>6. Found(todo, Mine, "recovery" \in files, flags = {})'
  BY FoundStep DEF OnCourse, Mine
<1>7. Remembered'
  BY DEF Passes, PassesKernel, Remembered, Ahead, Mine
<1>8. errors' = {} /\ ~unwinding'
  BY DEF OnCourse, Passes, PassesTarget
<1> QED BY <1>2, <1>3, <1>4, <1>5, <1>6, <1>7, <1>8 DEF OnCourse, Mine, Quiet, Numbered

-----------------------------------------------------------------------------
(* Steps of the harness *)

(* The next step. *)
LEMMA NextStep ==
    ASSUME NEW name, DamonInv, Step(name)
    PROVE  /\ todo # <<>> /\ todo[1] = name /\ verdict = "none" /\ Ends(todo)
           /\ Drops(todo, Tail(todo), 1) /\ Len(todo) \in Nat /\ Len(todo) >= 1
           /\ name # "report" => Len(todo) >= 2
           /\ name \notin CleanupNames => OnCourse
<1>1. todo # <<>> /\ verdict = "none" /\ Ends(todo) /\ todo \in Seq(StepNames)
  BY DEF DamonInv, Step, Ends
<1>2. Drops(todo, Tail(todo), 1) /\ todo[1] = name /\ Len(todo) \in Nat /\ Len(todo) >= 1
  BY <1>1, TailDrops DEF Step
<1>3. 1 \in 1 .. Len(todo)
  BY <1>2
<1>4. name # "report" => Len(todo) >= 2
  <2>1. \A i \in 1 .. Len(todo) : todo[i] = "report" <=> i = Len(todo)
    BY <1>1 DEF Ends
  <2> QED BY <1>2, <1>3, <2>1
<1>5. name \notin CleanupNames => OnCourse
  BY <1>2, <1>3 DEF DamonInv, AfterError
<1> QED BY <1>1, <1>2, <1>4, <1>5

(* The step returns an error. *)
LEMMA Stop ==
    ASSUME NEW name, DamonInv, Step(name), name # "report", Fail, DamonTypeOK',
           "on" \in flags' \/ "slot" \in flags' => Mine'
    PROVE  DamonInv'
<1>1. Ends(todo) /\ Len(todo) >= 2 /\ verdict = "none"
  BY NextStep
<1>2. /\ Clears(todo') /\ todo' # <<>> /\ errors' = errors \union {"damon"}
      /\ verdict' = verdict
  BY <1>1, FailClears
<1>3. AfterError'
  BY <1>2 DEF AfterError, Clears
<1>4. GuardHolds'
  BY <1>2 DEF GuardHolds, Clears, Mine
<1>5. Ends(todo)' /\ verdict' # "pass"
  BY <1>1, <1>2 DEF Clears
<1> QED BY <1>3, <1>4, <1>5 DEF DamonInv

(* The step is done. *)
LEMMA Go ==
    ASSUME NEW name, DamonInv, Step(name), Proceed, DamonTypeOK', errors' = errors,
           verdict' = verdict,
           "on" \in flags' \/ "slot" \in flags' => Mine',
           name = "rel_on" => "on" \notin flags',
           OnCourse => Passes(name)
    PROVE  DamonInv'
<1>1. /\ todo # <<>> /\ todo[1] = name /\ verdict = "none" /\ Ends(todo)
      /\ Drops(todo, Tail(todo), 1) /\ todo' = Tail(todo)
  BY NextStep DEF Proceed
<1>2. Ends(todo)'
  BY <1>1, EndsDrop
<1>3. GuardHolds'
  <2>1. todo' # <<>> /\ todo'[1] = "rel_slot" => "on" \notin flags'
    BY <1>1, NotSlotNext
  <2> QED BY <2>1 DEF GuardHolds, Mine
<1>4. CASE OnCourse
  <2>1. OnCourse'
    BY <1>1, <1>4, Onwards
  <2> QED BY <1>1, <1>2, <1>3, <2>1 DEF DamonInv
<1>5. CASE AfterError
  <2>1. AfterError'
    BY <1>1, <1>5, CleanupDrops DEF AfterError
  <2> QED BY <1>1, <1>2, <1>3, <2>1 DEF DamonInv
<1> QED BY <1>4, <1>5 DEF DamonInv

(* What is ahead of the next step is ahead. *)
LEMMA AheadTail ==
    ASSUME NEW w, NEW v, NEW d, Ends(w), Drops(w, v, d), Ahead(v) PROVE Ahead(w)
<1>1. Len(w) \in Nat /\ d \in 0 .. Len(w) /\ Len(v) = Len(w) - d
      /\ \A i \in 1 .. Len(v) : v[i] = w[i + d]
  BY LenProperties DEF Ends, Drops
<1>2. PICK i \in 1 .. Len(v) : v[i] \in Fresh
  BY DEF Ahead
<1>3. i + d \in 1 .. Len(w)
  BY <1>1
<1> QED BY <1>1, <1>2, <1>3 DEF Ahead

\* Steps that take or release something, or that replace the program.
Special ==
    {"rel_slot", "slot", "rel_instance", "mkdir", "drain", "capture", "reap", "terminate",
     "spawn", "guard", "worker_exit", "ladder", "run_worker"} \union RecNames

(* A step that leaves alone what is held. *)
LEMMA CalmPasses ==
    ASSUME NEW name, DamonInv, OnCourse, Step(name), Proceed, name \notin Special,
           kd'.own = kd.own, inst' = inst, readers' = readers, sess' = sess,
           tgt' = tgt, progress' = progress, "start" \in files' /\
               name # "start" => "start" \in files,
           {"slot", "instance"} \intersect flags \subseteq flags',
           errors' = errors, unwinding' = unwinding, failed \subseteq failed',
           name # "window" => active' = active,
           name = "gate_recovery" => files' = files /\ flags' = flags,
           name = "activity" /\ failed' = {} => active',
           name = "fingerprint" /\ failed' = {} => progress = "final",
           name = "restored" => inst = {} /\ kd.own # "nemor"
    PROVE  Passes(name)
<1>1. Ahead(todo)' => Ahead(todo)
  BY NextStep, AheadTail DEF Proceed
<1>2. Mine' = Mine /\ Numbered' = Numbered /\ (Quiet /\ name # "start" => Quiet')
  BY DEF Mine, Numbered, Quiet
<1>3. Ahead(todo) =>
        /\ Mine => "slot" \in flags
        /\ inst # {} => "instance" \in flags
        /\ inst \subseteq {sess} /\ readers \subseteq {sess}
  BY DEF OnCourse, Remembered, Ahead, Mine
<1>4. PassesKernel(name)
  BY <1>1, <1>2, <1>3 DEF PassesKernel, Special, Mine
<1>5. PassesTarget(name)
  BY <1>2 DEF PassesTarget, Special
<1>6. name \notin RecNames \union {"ladder", "run_worker"} /\ name # "worker_exit"
  BY DEF Special
<1> QED BY <1>4, <1>5, <1>6 DEF Passes

(* A step that only looks. *)
LEMMA LookGo ==
    ASSUME NEW name, DamonInv, Step(name), Proceed, Smooth, Untouched,
           name \notin Special, name # "rel_on", name # "activity", name # "fingerprint",
           name = "restored" => inst = {} /\ kd.own # "nemor",
           UNCHANGED <<kernel, process, flags, acts, rungs>>, faults' = faults,
           stable' \in BOOLEAN, active' \in BOOLEAN, name # "window" => active' = active
    PROVE  DamonInv'
<1>1. /\ UNCHANGED <<kd, inst, readers, tgt, files, progress, flags, sess, child, acts>>
      /\ UNCHANGED <<unwinding, errors, failed, verdict, faults, rungs>>
  BY DEF Smooth, Untouched, kernel, process, report
<1>2. DamonTypeOK'
  BY <1>1 DEF DamonInv, DamonTypeOK, HostTypeOK
<1>3. OnCourse => Passes(name)
  BY <1>1, CalmPasses
<1>4. "on" \in flags' \/ "slot" \in flags' => Mine'
  BY <1>1 DEF DamonInv, GuardHolds, Mine
<1> QED BY <1>1, <1>2, <1>3, <1>4, Go

(* A step that fails and changes nothing. *)
LEMMA LookStop ==
    ASSUME NEW name, DamonInv, Step(name), Fail, Untouched, name # "report",
           UNCHANGED <<kernel, process, flags, acts, rungs>>,
           faults' = faults \/ Fault,
           stable' \in BOOLEAN, active' \in BOOLEAN
    PROVE  DamonInv'
<1>1. /\ UNCHANGED <<kd, inst, readers, tgt, files, progress, flags, sess, child, acts, rungs>>
      /\ UNCHANGED <<failed, verdict>>
  BY DEF Fail, Untouched, kernel, process
<1>2. unwinding' = TRUE /\ errors' = errors \union {"damon"}
  BY NextStep, FailClears
<1>3. faults' \in 0 .. MaxFaults
  BY HostBounds DEF DamonInv, DamonTypeOK, HostTypeOK, Fault
<1>4. DamonTypeOK'
  BY <1>1, <1>2, <1>3 DEF DamonInv, DamonTypeOK, HostTypeOK
<1>5. "on" \in flags' \/ "slot" \in flags' => Mine'
  BY <1>1 DEF DamonInv, GuardHolds, Mine
<1> QED BY <1>4, <1>5, Stop

(* Require and Judge. *)
LEMMA DamonRequireInv ==
    ASSUME NEW name, NEW condition \in BOOLEAN, DamonInv, Step(name), Require(condition),
           name \notin Special, name # "rel_on", name # "activity", name # "fingerprint",
           name # "report", name = "restored" => (condition => inst = {} /\ kd.own # "nemor"),
           UNCHANGED rungs,
           stable' \in BOOLEAN, active' \in BOOLEAN, name # "window" => active' = active
    PROVE  DamonInv'
<1>1. Untouched /\ UNCHANGED <<kernel, process, flags, acts, rungs>> /\ faults' = faults
  BY DEF Require
<1>2. CASE condition
  <2>1. Proceed /\ Smooth
    BY <1>2 DEF Require
  <2> QED BY <1>1, <1>2, <2>1, LookGo
<1>3. CASE ~condition
  <2>1. Fail
    BY <1>3 DEF Require
  <2> QED BY <1>1, <2>1, LookStop
<1> QED BY <1>2, <1>3

(* The same for a step that may go either way. *)
LEMMA DamonJudgeInv ==
    ASSUME NEW name, DamonInv, Step(name), Judge,
           name \notin Special, name # "rel_on", name # "activity", name # "fingerprint",
           name # "report", name # "restored", UNCHANGED session
    PROVE  DamonInv'
<1>1. Untouched /\ UNCHANGED <<kernel, process, flags, acts, rungs>>
  BY DEF Judge, session
<1>2. stable' \in BOOLEAN /\ active' \in BOOLEAN /\ active' = active
  BY DEF session, DamonInv, DamonTypeOK
<1>3. CASE Proceed /\ Smooth /\ UNCHANGED faults
  BY <1>1, <1>2, <1>3, LookGo
<1>4. CASE Fault /\ Fail
  BY <1>1, <1>2, <1>4, LookStop
<1> QED BY <1>3, <1>4 DEF Judge

-----------------------------------------------------------------------------
(* The steps that look *)

(* Preflight checks, reads of the target and the last look at the kernel. *)
LEMMA LooksInv ==
    ASSUME DamonInv,
           \/ (CheckNoSlot \/ AwaitStarted \/ ReadProgress \/ JudgeStep) /\ UNCHANGED session
           \/ Inspect \/ LadderSize \/ ReadMetadata \/ Window \/ Restored
    PROVE  DamonInv'
<1>1. stable \in BOOLEAN /\ active \in BOOLEAN
  BY DEF DamonInv, DamonTypeOK
<1>2. UNCHANGED session => rungs' = rungs /\ stable' = stable /\ active' = active
  BY DEF session
<1>3. CASE CheckNoSlot /\ UNCHANGED session
  <2>1. Step("nr_zero") /\ Require(kd.own = "none") /\ "nr_zero" \notin Special
    BY <1>3 DEF CheckNoSlot, Special, RecNames
  <2> QED BY <1>1, <1>2, <1>3, <2>1, DamonRequireInv
<1>4. CASE AwaitStarted /\ UNCHANGED session
  <2>1. Step("started") /\ Require(kd.on) /\ "started" \notin Special
    BY <1>4 DEF AwaitStarted, Special, RecNames
  <2>2. kd.on \in BOOLEAN
    BY DEF DamonInv, DamonTypeOK, HostTypeOK, Slots
  <2> QED BY <1>1, <1>2, <1>4, <2>1, <2>2, DamonRequireInv
<1>5. CASE ReadProgress /\ UNCHANGED session
  <2>1. Step("progress") /\ Require(progress # "none") /\ "progress" \notin Special
    BY <1>5 DEF ReadProgress, Special, RecNames
  <2> QED BY <1>1, <1>2, <1>5, <2>1, DamonRequireInv
<1>6. CASE JudgeStep /\ UNCHANGED session
  <2>1. Step("judge") /\ Judge /\ "judge" \notin Special
    BY <1>6 DEF JudgeStep, Special, RecNames
  <2> QED BY <1>6, <2>1, DamonJudgeInv
<1>7. CASE Inspect
  <2>1. Step("inspect") /\ "inspect" \notin Special /\ UNCHANGED session
        /\ (Require(FALSE) \/ Judge)
    BY <1>7 DEF Inspect, Special, RecNames
  <2>2. CASE Require(FALSE)
    BY <1>1, <1>2, <2>1, <2>2, DamonRequireInv
  <2>3. CASE Judge
    BY <2>1, <2>3, DamonJudgeInv
  <2> QED BY <2>1, <2>2, <2>3
<1>8. CASE LadderSize
  <2>1. Step("ladder_size") /\ Require(rungs > 0) /\ "ladder_size" \notin Special
        /\ UNCHANGED session
    BY <1>8 DEF LadderSize, Special, RecNames
  <2> DEFINE c == rungs > 0
  <2>2. c \in BOOLEAN /\ Require(c)
    BY <2>1
  <2> HIDE DEF c
  <2> QED BY <1>1, <1>2, <2>1, <2>2, DamonRequireInv
<1>9. CASE ReadMetadata
  <2> DEFINE c == "metadata" \in files
  <2>1. Step("meta") /\ Require(c) /\ UNCHANGED session
    BY <1>9 DEF ReadMetadata
  <2>2. c \in BOOLEAN /\ "meta" \notin Special
    BY DEF Special, RecNames
  <2> HIDE DEF c
  <2> QED BY <1>1, <1>2, <2>1, <2>2, DamonRequireInv
<1>10. CASE Window
  <2>1. Step("window") /\ Require(progress # "none") /\ "window" \notin Special
        /\ rungs' = rungs /\ stable' = stable /\ active' \in BOOLEAN
    BY <1>10 DEF Window, Special, RecNames
  <2> QED BY <1>1, <2>1, DamonRequireInv
<1>11. CASE Restored
  <2>1. Step("restored") /\ Require(inst = {} /\ kd.own = "none") /\ "restored" \notin Special
        /\ UNCHANGED session
    BY <1>11 DEF Restored, Special, RecNames
  <2> DEFINE c == inst = {} /\ kd.own = "none"
  <2>2. c \in BOOLEAN /\ Require(c) /\ (c => inst = {} /\ kd.own # "nemor")
    BY <2>1
  <2> HIDE DEF c
  <2> QED BY <1>1, <1>2, <2>1, <2>2, DamonRequireInv
<1> QED BY <1>3, <1>4, <1>5, <1>6, <1>7, <1>8, <1>9, <1>10, <1>11

(* The gates. *)
LEMMA AssessInv ==
    ASSUME NEW name, NEW gate, NEW passes \in BOOLEAN, DamonInv, Step(name), Gate(gate, passes),
           name \in {"activity", "signal", "overhead", "dataset", "fingerprint", "gate_cleanup",
                     "gate_recovery"},
           name = "activity" => (passes => active),
           name = "fingerprint" => (passes => progress = "final")
    PROVE  DamonInv'
<1>1. /\ failed' = IF passes THEN failed ELSE failed \union {gate}
      /\ Proceed /\ Untouched /\ UNCHANGED session
      /\ UNCHANGED <<kernel, process, flags, unwinding, errors, verdict, faults, acts>>
  BY DEF Gate, Assess
<1>2. /\ UNCHANGED <<kd, inst, readers, tgt, files, progress, flags, sess, child, acts>>
      /\ UNCHANGED <<unwinding, errors, verdict, faults, rungs, stable, active>>
  BY <1>1 DEF Untouched, kernel, process, session
<1>3. failed \subseteq failed' /\ (failed' = {} => passes)
  BY <1>1
<1>4. DamonTypeOK'
  BY <1>2 DEF DamonInv, DamonTypeOK, HostTypeOK
<1>5. name \notin Special /\ name # "rel_on" /\ name # "restored" /\ name # "window"
      /\ name # "start"
  BY DEF Special, RecNames
<1>6. OnCourse => Passes(name)
  BY <1>1, <1>2, <1>3, <1>5, CalmPasses
<1>7. "on" \in flags' \/ "slot" \in flags' => Mine'
  BY <1>2 DEF DamonInv, GuardHolds, Mine
<1> QED BY <1>1, <1>2, <1>4, <1>5, <1>6, <1>7, Go

(* The gates of the final session and of the recovery. *)
LEMMA GatesInv ==
    ASSUME DamonInv,
           \/ ActivityGate \/ SignalGate \/ OverheadGate \/ DatasetGate
           \/ Fingerprint \/ GateCleanup \/ GateRecovery
    PROVE  DamonInv'
<1>1. active \in BOOLEAN
  BY DEF DamonInv, DamonTypeOK
<1>2. CASE ActivityGate
  <2>1. PICK captured \in BOOLEAN : Step("activity") /\ Gate("measured", captured /\ active)
    BY <1>2 DEF ActivityGate
  <2> DEFINE c == captured /\ active
  <2>2. c \in BOOLEAN /\ Gate("measured", c) /\ (c => active)
    BY <1>1, <2>1
  <2> HIDE DEF c
  <2> QED BY <2>1, <2>2, AssessInv
<1>3. CASE SignalGate
  BY <1>3, AssessInv DEF SignalGate
<1>4. CASE OverheadGate
  BY <1>4, AssessInv DEF OverheadGate
<1>5. CASE DatasetGate
  BY <1>5, AssessInv DEF DatasetGate
<1>6. CASE Fingerprint
  <2> DEFINE c == progress = "final"
  <2>1. Step("fingerprint") /\ c \in BOOLEAN /\ Gate("fingerprint", c) /\ (c => progress = "final")
    BY <1>6 DEF Fingerprint
  <2> HIDE DEF c
  <2> QED BY <2>1, AssessInv
<1>7. CASE GateCleanup
  <2> DEFINE c == sess \notin inst /\ kd.own = "none"
  <2>1. Step("gate_cleanup") /\ c \in BOOLEAN /\ Gate("cleanup", c)
    BY <1>7 DEF GateCleanup
  <2> HIDE DEF c
  <2> QED BY <2>1, AssessInv
<1>8. CASE GateRecovery
  <2> DEFINE c == kd.own = "none"
  <2>1. Step("gate_recovery") /\ c \in BOOLEAN /\ Gate("recovery", c)
    BY <1>8 DEF GateRecovery
  <2> HIDE DEF c
  <2> QED BY <2>1, AssessInv
<1> QED BY <1>2, <1>3, <1>4, <1>5, <1>6, <1>7, <1>8

-----------------------------------------------------------------------------
(* Writes to the kernel *)

(* A step that takes the slot for Nemor's finds it so. *)
LEMMA UsersOwn ==
    ASSUME NEW name \in SlotUsers, DamonInv, OnCourse, Step(name) PROVE Mine
<1>1. todo[1] = name /\ 1 \in 1 .. Len(todo) /\ 1 .. 1 - 1 = {}
  BY NextStep
<1>2. Owned(todo, Mine)
  BY DEF OnCourse, Mine
<1> QED BY <1>1, <1>2 DEF Owned

(* The slot after a write. *)
LEMMA SlotAfterOwn ==
    ASSUME NEW write \in Writes, kd \in Slots
    PROVE  /\ SlotAfter(write) \in Slots
           /\ SlotAfter(write).own = IF write = "slot" THEN "nemor" ELSE kd.own
<1>1. CASE write = "slot"
  BY <1>1 DEF SlotAfter, Slots, NoSlot
<1>2. CASE write = "on" \/ write = "on_self" \/ write = "off"
  BY <1>2 DEF SlotAfter, Slots
<1>3. CASE write \in Writes \ {"slot", "on", "on_self", "off"}
  <2>1. SlotAfter(write) = kd
    BY <1>3 DEF SlotAfter, Writes
  <2> QED BY <1>3, <2>1
<1> QED BY <1>1, <1>2, <1>3

(* The guard after a write. *)
LEMMA FlagsAfterWrite ==
    ASSUME NEW write \in Writes, flags \subseteq Flags
    PROVE  /\ FlagsAfter(write) \subseteq Flags
           /\ {"slot", "instance"} \intersect flags \subseteq FlagsAfter(write)
           /\ "slot" \in FlagsAfter(write) <=> "slot" \in flags \/ write = "slot"
           /\ "on" \in FlagsAfter(write) => "on" \in flags \/ write \in {"on", "on_self"}
<1>1. CASE write = "slot"
  BY <1>1 DEF FlagsAfter, FlagOf, Flags
<1>2. CASE write = "on" \/ write = "on_self"
  BY <1>2 DEF FlagsAfter, FlagOf, Flags
<1>3. CASE write = "off"
  BY <1>3 DEF FlagsAfter, FlagOf, Flags
<1>4. CASE write = "event_on" \/ write = "tracing_on"
  BY <1>4 DEF FlagsAfter, FlagOf, Flags
<1>5. CASE write = "event_off" \/ write = "tracing_off"
  BY <1>5 DEF FlagsAfter, FlagOf, Flags
<1>6. CASE write = "clock" \/ write = "configure"
  BY <1>6 DEF FlagsAfter, FlagOf, Flags
<1> QED BY <1>1, <1>2, <1>3, <1>4, <1>5, <1>6 DEF Writes

(* Taking the slot. *)
LEMMA SlotPasses ==
    ASSUME DamonInv, OnCourse, Step("slot"), Proceed, kd'.own = "nemor", "slot" \in flags',
           {"slot", "instance"} \intersect flags \subseteq flags',
           UNCHANGED <<inst, readers, tgt, files, progress, sess, errors, unwinding, failed,
               active>>
    PROVE  Passes("slot")
<1>1. Ahead(todo)' => Ahead(todo)
  BY NextStep, AheadTail DEF Proceed
<1>2. Mine' /\ Numbered' = Numbered /\ Quiet' = Quiet
  BY DEF Mine, Numbered, Quiet
<1>3. Ahead(todo) =>
        /\ inst # {} => "instance" \in flags
        /\ inst \subseteq {sess} /\ readers \subseteq {sess}
  BY DEF OnCourse, Remembered, Ahead
<1>4. PassesKernel("slot")
  BY <1>1, <1>2, <1>3 DEF PassesKernel, Closings
<1>5. PassesTarget("slot")
  BY <1>2 DEF PassesTarget
<1> QED BY <1>4, <1>5 DEF Passes, RecNames

(* A write that works, is refused, or loses its readback. *)
LEMMA WriteInv ==
    ASSUME NEW write \in Writes, DamonInv, WriteReadback(write), UNCHANGED session
    PROVE  DamonInv'
<1>1. Step(write) /\ write \notin CleanupNames /\ write # "rel_on" /\ write # "report"
  BY DEF WriteReadback, Writes, CleanupNames
<1>2. OnCourse
  BY <1>1, NextStep
<1>3. /\ UNCHANGED <<inst, readers, tgt, files, progress, sess, child, acts>>
      /\ UNCHANGED <<rungs, stable, active>>
  BY DEF WriteReadback, Untouched, process, session
<1>4. /\ kd \in Slots /\ flags \subseteq Flags /\ faults \in 0 .. MaxFaults
      /\ errors \subseteq {"damon", "damos", "main"} /\ child \in BOOLEAN
      /\ "on" \in flags \/ "slot" \in flags => Mine
  BY DEF DamonInv, DamonTypeOK, HostTypeOK, GuardHolds, Mine
<1>5. write \in {"on", "on_self", "off"} => Mine
  BY <1>1, <1>2, UsersOwn DEF SlotUsers
<1>6. /\ SlotAfter(write) \in Slots
      /\ SlotAfter(write).own = IF write = "slot" THEN "nemor" ELSE kd.own
  BY <1>4, SlotAfterOwn
<1>7. ASSUME kd' = SlotAfter(write), flags' = FlagsAfter(write), Proceed, Smooth, faults' = faults
      PROVE  DamonInv'
  <2>1. UNCHANGED <<unwinding, errors, failed, verdict>>
    BY <1>7 DEF Smooth, report
  <2>2. /\ flags' \subseteq Flags /\ {"slot", "instance"} \intersect flags \subseteq flags'
        /\ "slot" \in flags' <=> "slot" \in flags \/ write = "slot"
        /\ "on" \in flags' => "on" \in flags \/ write \in {"on", "on_self"}
    BY <1>4, <1>7, FlagsAfterWrite
  <2>3. kd' \in Slots /\ kd'.own = IF write = "slot" THEN "nemor" ELSE kd.own
    BY <1>6, <1>7
  <2>4. DamonTypeOK'
    BY <1>3, <1>7, <2>1, <2>2, <2>3 DEF DamonInv, DamonTypeOK, HostTypeOK
  <2>5. "on" \in flags' \/ "slot" \in flags' => Mine'
    BY <1>4, <1>5, <2>2, <2>3 DEF Mine
  <2>6. Passes(write)
    <3>1. CASE write = "slot"
      BY <1>1, <1>2, <1>3, <1>7, <2>1, <2>2, <2>3, <3>1, SlotPasses
    <3>2. CASE write # "slot"
      <4>1. write \notin Special /\ write \notin {"start", "window", "gate_recovery", "activity",
                "fingerprint", "restored"}
        BY <3>2 DEF Special, RecNames, Writes
      <4> QED BY <1>1, <1>2, <1>3, <1>7, <2>1, <2>2, <2>3, <3>2, <4>1, CalmPasses
    <3> QED BY <3>1, <3>2
  <2> QED BY <1>1, <1>7, <2>1, <2>4, <2>5, <2>6, Go
<1>8. ASSUME Fail, flags' = flags, kd' \in {kd, SlotAfter(write)}, faults' = faults \/ Fault
      PROVE  DamonInv'
  <2>1. /\ unwinding' = TRUE /\ errors' = errors \union {"damon"} /\ failed' = failed
        /\ verdict' = verdict
    BY <1>1, <1>8, NextStep, FailClears
  <2>2. faults' \in 0 .. MaxFaults
    BY <1>4, <1>8, HostBounds DEF Fault
  <2>3. kd' \in Slots /\ (Mine => Mine')
    BY <1>4, <1>6, <1>8 DEF Mine
  <2>4. DamonTypeOK'
    BY <1>3, <1>8, <2>1, <2>2, <2>3 DEF DamonInv, DamonTypeOK, HostTypeOK
  <2> QED BY <1>1, <1>4, <1>8, <2>3, <2>4, Stop
<1>9. \/ kd' = SlotAfter(write) /\ flags' = FlagsAfter(write) /\ Proceed /\ Smooth /\
          faults' = faults
      \/ Fail /\ flags' = flags /\ kd' \in {kd, SlotAfter(write)} /\ (faults' = faults \/ Fault)
  BY DEF WriteReadback
<1> QED BY <1>7, <1>8, <1>9

-----------------------------------------------------------------------------
(* The guard, the trace instance and its reader *)

(* What a step that fails leaves typed. *)
LEMMA StopTyped ==
    ASSUME NEW name, DamonInv, Step(name), name # "report", Fail, Untouched,
           UNCHANGED <<tgt, files, progress, flags, acts, session>>,
           kd' \in Slots, inst' \subseteq 1 .. sess, readers' \subseteq 1 .. sess,
           Mine => Mine', faults' = faults \/ Fault
    PROVE  DamonInv'
<1>1. UNCHANGED <<sess, child, rungs, stable, active>>
  BY DEF Untouched, session
<1>2. /\ unwinding' = TRUE /\ errors' = errors \union {"damon"} /\ failed' = failed
      /\ verdict' = verdict
  BY NextStep, FailClears
<1>3. faults' \in 0 .. MaxFaults
  BY HostBounds DEF DamonInv, DamonTypeOK, HostTypeOK, Fault
<1>4. DamonTypeOK'
  BY <1>1, <1>2, <1>3 DEF DamonInv, DamonTypeOK, HostTypeOK
<1>5. "on" \in flags' \/ "slot" \in flags' => Mine'
  BY DEF DamonInv, GuardHolds, Mine
<1> QED BY <1>4, <1>5, Stop

(* Where a session begins, nothing is held. *)
LEMMA NothingHeld ==
    ASSUME NEW name \in Fresh, DamonInv, OnCourse, Step(name)
    PROVE  ~Mine /\ inst = {} /\ readers = {} /\ tgt = "none"
<1>1. todo[1] = name /\ 1 \in 1 .. Len(todo) /\ 1 .. 1 - 1 = {}
  BY NextStep
<1>2. /\ Lapses(todo, Mine, "slot", {"rel_slot"})
      /\ Lapses(todo, inst # {}, "mkdir", {"rel_instance"})
      /\ Lapses(todo, readers # {}, "capture", {"drain"})
      /\ Lapses(todo, tgt # "none", "spawn", {"reap", "terminate"})
  BY DEF OnCourse, Separate, Mine
<1>3. \A h, o, c : Lapses(todo, h, o, c) => ~h
  BY <1>1 DEF Lapses
<1>4. ~Mine /\ ~(inst # {}) /\ ~(readers # {}) /\ ~(tgt # "none")
  BY <1>2, <1>3
<1> QED BY <1>4

\* What Remembered says while a session is ahead.
Kept ==
    /\ Mine => "slot" \in flags
    /\ inst # {} => "instance" \in flags
    /\ inst \subseteq {sess} /\ readers \subseteq {sess}

(* While a session is ahead the guard remembers what is held. *)
LEMMA KeptAhead ==
    ASSUME NEW name, DamonInv, OnCourse, Step(name), Proceed, Ahead(todo)' PROVE Kept
<1>1. Ahead(todo)
  BY NextStep, AheadTail DEF Proceed
<1> QED BY <1>1 DEF OnCourse, Remembered, Ahead, Kept, Mine

(* A session begins with nothing held. *)
LEMMA GuardStep ==
    ASSUME DamonInv, NewGuard, UNCHANGED session PROVE DamonInv'
<1>1. /\ Step("guard") /\ Proceed /\ Smooth /\ sess' = sess + 1 /\ flags' = {}
      /\ UNCHANGED <<kernel, process, child, faults, acts>>
  BY DEF NewGuard
<1>2. /\ UNCHANGED <<kd, inst, readers, tgt, files, progress, child, faults, acts>>
      /\ UNCHANGED <<unwinding, errors, failed, verdict, rungs, stable, active>>
  BY <1>1 DEF kernel, process, Smooth, report, session
<1>3. OnCourse
  BY <1>1, NextStep DEF CleanupNames
<1>4. ~Mine /\ inst = {} /\ readers = {} /\ tgt = "none"
  BY <1>1, <1>3, NothingHeld DEF Fresh
<1>5. DamonTypeOK'
  BY <1>1, <1>2, <1>4 DEF DamonInv, DamonTypeOK, HostTypeOK
<1>6. Mine' = Mine /\ Quiet' = Quiet /\ Numbered'
  BY <1>1, <1>2 DEF Mine, Quiet, Numbered, DamonInv, DamonTypeOK, HostTypeOK
<1>7. PassesKernel("guard")
  BY <1>1, <1>2, <1>4, <1>6 DEF PassesKernel, Closings
<1>8. PassesTarget("guard")
  BY <1>2, <1>6 DEF PassesTarget
<1>9. Passes("guard")
  BY <1>7, <1>8 DEF Passes, RecNames
<1> QED BY <1>1, <1>2, <1>5, <1>9, Go

(* The number of the session, before its trace instance is made or read. *)
LEMMA SessionNumbered ==
    ASSUME NEW name \in {"mkdir", "capture"}, DamonInv, OnCourse, Step(name)
    PROVE  sess \in 1 .. sess
<1>1. todo[1] = name /\ 1 \in 1 .. Len(todo) /\ 1 .. 1 - 1 = {}
  BY NextStep
<1>2. Begun(todo, Numbered)
  BY DEF OnCourse, Numbered
<1>3. Numbered
  BY <1>1, <1>2 DEF Begun
<1> QED BY <1>3 DEF Numbered, DamonInv, DamonTypeOK, HostTypeOK

(* The trace instance is made and remembered. *)
LEMMA MakeInstanceInv ==
    ASSUME DamonInv, MakeInstance, UNCHANGED session PROVE DamonInv'
<1>1. Step("mkdir") /\ Untouched /\ UNCHANGED <<kd, readers, process, acts>>
  BY DEF MakeInstance
<1>2. /\ UNCHANGED <<kd, readers, tgt, files, progress, sess, child, acts>>
      /\ UNCHANGED <<rungs, stable, active>>
  BY <1>1 DEF process, session, Untouched
<1>3. OnCourse
  BY <1>1, NextStep DEF CleanupNames
<1>4. sess \in 1 .. sess /\ inst \subseteq 1 .. sess /\ readers \subseteq 1 .. sess /\ kd \in Slots
  BY <1>1, <1>3, SessionNumbered DEF DamonInv, DamonTypeOK, HostTypeOK
<1>5. CASE Fault /\ Fail /\ UNCHANGED <<inst, flags>>
  BY <1>1, <1>2, <1>4, <1>5, StopTyped DEF Mine
<1>6. ASSUME inst' = inst \union {sess}, flags' = flags \union {"instance"}, Proceed, Smooth,
             faults' = faults
      PROVE  DamonInv'
  <2>1. UNCHANGED <<unwinding, errors, failed, verdict>>
    BY <1>6 DEF Smooth, report
  <2>2. DamonTypeOK'
    BY <1>2, <1>4, <1>6, <2>1 DEF DamonInv, DamonTypeOK, HostTypeOK, Flags
  <2>3. Mine' = Mine /\ Quiet' = Quiet /\ Numbered' = Numbered
    BY <1>2 DEF Mine, Quiet, Numbered
  <2>4. Ahead(todo)' => Kept
    BY <1>1, <1>3, <1>6, KeptAhead
  <2>5. PassesKernel("mkdir")
    BY <1>2, <1>6, <2>3, <2>4 DEF PassesKernel, Closings, Kept
  <2>6. PassesTarget("mkdir")
    BY <1>2, <2>1, <2>3 DEF PassesTarget
  <2>7. Passes("mkdir")
    BY <2>5, <2>6 DEF Passes, RecNames
  <2>8. "on" \in flags' \/ "slot" \in flags' => Mine'
    BY <1>6, <2>3 DEF DamonInv, GuardHolds, Mine
  <2> QED BY <1>1, <1>6, <2>1, <2>2, <2>7, <2>8, Go
<1> QED BY <1>5, <1>6 DEF MakeInstance

(* The capture thread starts, or is joined. *)
LEMMA ReaderInv ==
    ASSUME DamonInv, StartCapture \/ DrainCapture, UNCHANGED session PROVE DamonInv'
<1>1. PICK name \in {"capture", "drain"} :
        /\ Step(name) /\ Untouched /\ UNCHANGED <<kd, inst, process, flags, acts>>
        /\ name = "capture" => readers' \in {readers, readers \union {sess}}
        /\ name = "drain" => readers' = readers \ {sess}
        /\ \/ Proceed /\ Smooth /\ faults' = faults
           \/ Fault /\ Fail
  BY DEF StartCapture, DrainCapture
<1>2. /\ UNCHANGED <<kd, inst, tgt, files, progress, flags, sess, child, acts>>
      /\ UNCHANGED <<rungs, stable, active>>
  BY <1>1 DEF process, session, Untouched
<1>3. OnCourse
  BY <1>1, NextStep DEF CleanupNames
<1>4. name = "capture" => sess \in 1 .. sess
  BY <1>1, <1>3, SessionNumbered
<1>5. inst \subseteq 1 .. sess /\ readers' \subseteq 1 .. sess /\ kd \in Slots
  BY <1>1, <1>4 DEF DamonInv, DamonTypeOK, HostTypeOK
<1>6. CASE Fault /\ Fail
  BY <1>1, <1>2, <1>5, <1>6, StopTyped DEF Mine
<1>7. ASSUME Proceed, Smooth, faults' = faults PROVE DamonInv'
  <2>1. UNCHANGED <<unwinding, errors, failed, verdict>>
    BY <1>7 DEF Smooth, report
  <2>2. DamonTypeOK'
    BY <1>2, <1>5, <1>7, <2>1 DEF DamonInv, DamonTypeOK, HostTypeOK
  <2>3. Mine' = Mine /\ Quiet' = Quiet /\ Numbered' = Numbered
    BY <1>2 DEF Mine, Quiet, Numbered
  <2>4. Ahead(todo)' => Kept
    BY <1>1, <1>3, <1>7, KeptAhead
  <2>5. Ahead(todo)' => readers' \subseteq {sess} /\ (name = "drain" => readers' = {})
    BY <1>1, <2>4 DEF Kept
  <2>6. PassesKernel(name)
    BY <1>1, <1>2, <2>3, <2>4, <2>5 DEF PassesKernel, Closings, Kept
  <2>7. PassesTarget(name)
    BY <1>1, <1>2, <2>1, <2>3 DEF PassesTarget
  <2>8. Passes(name)
    BY <1>1, <2>6, <2>7 DEF Passes, RecNames
  <2>9. "on" \in flags' \/ "slot" \in flags' => Mine'
    BY <1>2, <2>3 DEF DamonInv, GuardHolds, Mine
  <2> QED BY <1>1, <1>7, <2>1, <2>2, <2>8, <2>9, Go
<1> QED BY <1>1, <1>6, <1>7

-----------------------------------------------------------------------------
(* The destructors *)

\* Which release asks which flag.
Release == [rel_on |-> "on", rel_slot |-> "slot", rel_tracing |-> "tracing",
            rel_event |-> "event", rel_instance |-> "instance"]

(* A release that does nothing, or what it should. *)
LEMMA ReleaseGo ==
    ASSUME NEW name \in ReleaseNames, NEW flag, flag = Release[name],
           DamonInv, Step(name), Proceed, Smooth, faults' = faults, Untouched,
           UNCHANGED <<readers, process, acts, session>>,
           kd' \in Slots, inst' \subseteq inst, flag \notin flags', flags' = flags \ {flag},
           \/ flag \notin flags /\ kd' = kd /\ inst' = inst
           \/ /\ IF name = "rel_slot" THEN kd' = NoSlot ELSE kd'.own = kd.own
              /\ inst' = IF name = "rel_instance" THEN inst \ {sess} ELSE inst
    PROVE  DamonInv'
<1>1. /\ UNCHANGED <<readers, tgt, files, progress, sess, child, acts, faults>>
      /\ UNCHANGED <<unwinding, errors, failed, verdict, rungs, stable, active>>
  BY DEF process, session, Untouched, Smooth, report
<1>2. /\ flag \in Flags /\ (flag = "slot" <=> name = "rel_slot")
      /\ (flag = "instance" <=> name = "rel_instance") /\ (flag = "on" <=> name = "rel_on")
  BY DEF Release, ReleaseNames, Flags
<1>3. DamonTypeOK'
  BY <1>1 DEF DamonInv, DamonTypeOK, HostTypeOK
<1>4. Quiet' = Quiet /\ Numbered' = Numbered /\ (Mine' => Mine) /\
          (name # "rel_slot" => Mine' = Mine)
  BY <1>1 DEF Mine, Quiet, Numbered, NoSlot
<1>5. "on" \in flags' \/ "slot" \in flags' => Mine'
  <2>1. "on" \in flags \/ "slot" \in flags => Mine
    BY DEF DamonInv, GuardHolds, Mine
  <2>2. name = "rel_slot" => "on" \notin flags
    BY NextStep DEF DamonInv, GuardHolds
  <2> QED BY <1>2, <1>4, <2>1, <2>2
<1>6. ASSUME OnCourse PROVE Passes(name)
  <2>1. Ahead(todo)' => Kept
    BY <1>6, KeptAhead
  <2>2. Ahead(todo)' /\ name = "rel_slot" => ~Mine'
    BY <1>2, <2>1 DEF Kept, Mine, NoSlot
  <2>3. Ahead(todo)' /\ name = "rel_instance" => inst' = {}
    BY <1>2, <2>1 DEF Kept
  <2>4. name \notin {"slot", "mkdir", "drain", "capture", "guard", "restored"} \union Closings
    BY DEF ReleaseNames, Closings
  <2>5. name # "rel_instance" => inst' = inst
    OBVIOUS
  <2>6. Ahead(todo)' =>
          /\ Mine' => "slot" \in flags'
          /\ inst' # {} => "instance" \in flags'
          /\ inst' \subseteq {sess'} /\ readers' \subseteq {sess'}
    BY <1>1, <1>2, <1>4, <2>1, <2>2, <2>3, <2>5 DEF Kept
  <2>7. Ahead(todo)' =>
          /\ Mine' => Mine /\ name # "rel_slot"
          /\ inst' # {} => inst # {} /\ name # "rel_instance"
    BY <1>4, <2>2, <2>3, <2>5
  <2>8. PassesKernel(name)
    BY <1>1, <1>4, <2>4, <2>6, <2>7 DEF PassesKernel
  <2>9. name \notin {"reap", "terminate", "spawn", "start", "window", "activity", "fingerprint"}
    BY DEF ReleaseNames
  <2>10. PassesTarget(name)
    BY <1>1, <1>4, <2>9 DEF PassesTarget
  <2>11. name \notin RecNames \union {"ladder", "run_worker", "worker_exit", "gate_recovery"}
    BY DEF ReleaseNames, RecNames
  <2> QED BY <2>8, <2>10, <2>11 DEF Passes
<1> QED BY <1>1, <1>2, <1>3, <1>5, <1>6, Go

(* A release that is refused while an error unwinds. *)
LEMMA ReleasePast ==
    ASSUME NEW name \in ReleaseNames, DamonInv, Step(name), unwinding,
           todo' = PastReleases, Smooth, Untouched, faults' = faults \/ Fault,
           UNCHANGED <<kd, inst, flags, readers, process, acts, session>>
    PROVE  DamonInv'
<1>1. /\ UNCHANGED <<kd, inst, flags, readers, tgt, files, progress, sess, child, acts>>
      /\ UNCHANGED <<unwinding, errors, failed, verdict, rungs, stable, active>>
  BY DEF process, session, Untouched, Smooth, report
<1>2. faults' \in 0 .. MaxFaults
  BY HostBounds DEF DamonInv, DamonTypeOK, HostTypeOK, Fault
<1>3. DamonTypeOK'
  BY <1>1, <1>2 DEF DamonInv, DamonTypeOK, HostTypeOK
<1>4. todo # <<>> /\ Ends(todo) /\ verdict = "none" /\ AfterError
  BY NextStep DEF DamonInv, OnCourse
<1>5. PICK d \in 0 .. Len(todo) : Drops(todo, todo', d)
  BY <1>4, PastDrops
<1>6. todo'[1] # "rel_slot"
  BY <1>4, PastDrops
<1>7. Ends(todo)'
  BY <1>4, <1>5, EndsDrop
<1>8. AfterError'
  BY <1>1, <1>4, <1>5, CleanupDrops DEF AfterError
<1>9. GuardHolds'
  BY <1>1, <1>6 DEF DamonInv, GuardHolds
<1> QED BY <1>1, <1>3, <1>4, <1>7, <1>8, <1>9 DEF DamonInv

(* A release: not needed, done, or refused. *)
LEMMA DamonReleasedInv ==
    ASSUME NEW name \in ReleaseNames, NEW flag, flag = Release[name],
           NEW taken \in BOOLEAN, NEW slot \in Slots, NEW instances,
           DamonInv, Step(name), Released(flag, taken, slot, instances), Untouched,
           UNCHANGED <<process, acts, session>>,
           IF name = "rel_slot" THEN slot = NoSlot ELSE slot.own = kd.own,
           instances = IF name = "rel_instance" THEN inst \ {sess} ELSE inst
    PROVE  DamonInv'
<1>1. UNCHANGED readers /\ kd \in Slots /\ inst \subseteq 1 .. sess /\ readers \subseteq 1 .. sess
  BY DEF Released, DamonInv, DamonTypeOK, HostTypeOK
<1>2. CASE flag \notin flags /\ Proceed /\ Smooth /\ UNCHANGED <<kd, inst, flags, faults>>
  BY <1>1, <1>2, ReleaseGo
<1>3. CASE flags' = flags \ {flag} /\ kd' = slot /\ inst' = instances
           /\ Proceed /\ Smooth /\ UNCHANGED faults
  <2>1. inst' \subseteq inst
    BY <1>3
  <2> QED BY <1>1, <1>3, <2>1, ReleaseGo
<1>4. CASE (faults' = faults \/ Fault) /\ UNCHANGED <<kd, inst, flags>>
           /\ unwinding /\ todo' = PastReleases /\ Smooth
  BY <1>1, <1>4, ReleasePast
<1>5. CASE (faults' = faults \/ Fault) /\ UNCHANGED <<kd, inst, flags>> /\ Fail
  <2>1. name # "report" /\ UNCHANGED <<tgt, files, progress>>
    BY DEF ReleaseNames, process
  <2> QED BY <1>1, <1>5, <2>1, StopTyped DEF Mine
<1> QED BY <1>2, <1>3, <1>4, <1>5 DEF Released, Remembers

(* DamonCleanup::cleanup. *)
LEMMA DamonCleanupInv ==
    ASSUME DamonInv, Cleanup, UNCHANGED session PROVE DamonInv'
<1>1. Untouched /\ UNCHANGED <<process, acts, session>> /\ kd \in Slots
  BY DEF Cleanup, DamonInv, DamonTypeOK, HostTypeOK
<1>2. CASE Step("rel_on") /\ Released("on", Takes("off"), SlotAfter("off"), inst)
  <2>1. SlotAfter("off") \in Slots /\ SlotAfter("off").own = kd.own
    BY <1>1 DEF SlotAfter, Slots
  <2>2. Takes("off") \in BOOLEAN
    BY <1>1 DEF Takes, Slots
  <2>3. "on" = Release["rel_on"] /\ "rel_on" \in ReleaseNames
    BY DEF Release, ReleaseNames
  <2> QED BY <1>1, <1>2, <2>1, <2>2, <2>3, DamonReleasedInv
<1>3. CASE Step("rel_slot") /\ Released("slot", Takes("release"), SlotAfter("release"), inst)
  <2>1. SlotAfter("release") \in Slots /\ SlotAfter("release") = NoSlot
    BY <1>1 DEF SlotAfter, Slots, NoSlot
  <2>2. Takes("release") \in BOOLEAN
    BY <1>1 DEF Takes, Slots
  <2>3. "slot" = Release["rel_slot"] /\ "rel_slot" \in ReleaseNames
    BY DEF Release, ReleaseNames
  <2> QED BY <1>1, <1>3, <2>1, <2>2, <2>3, DamonReleasedInv
<1>4. CASE Step("rel_tracing") /\ Released("tracing", TRUE, kd, inst)
  <2>1. "tracing" = Release["rel_tracing"] /\ "rel_tracing" \in ReleaseNames
    BY DEF Release, ReleaseNames
  <2> QED BY <1>1, <1>4, <2>1, DamonReleasedInv
<1>5. CASE Step("rel_event") /\ Released("event", TRUE, kd, inst)
  <2>1. "event" = Release["rel_event"] /\ "rel_event" \in ReleaseNames
    BY DEF Release, ReleaseNames
  <2> QED BY <1>1, <1>5, <2>1, DamonReleasedInv
<1>6. CASE Step("rel_instance")
           /\ Released("instance", sess \notin readers, kd, inst \ {sess})
  <2> DEFINE t == sess \notin readers
  <2>1. "instance" = Release["rel_instance"] /\ "rel_instance" \in ReleaseNames
    BY DEF Release, ReleaseNames
  <2>2. t \in BOOLEAN /\ Released("instance", t, kd, inst \ {sess})
    BY <1>6
  <2> HIDE DEF t
  <2> QED BY <1>1, <1>6, <2>1, <2>2, DamonReleasedInv
<1> QED BY <1>2, <1>3, <1>4, <1>5, <1>6 DEF Cleanup

(* The capture worker and the child. *)
LEMMA DamonDropInv ==
    ASSUME DamonInv, DetachCapture \/ KillChild, UNCHANGED session PROVE DamonInv'
<1>1. stable \in BOOLEAN /\ active \in BOOLEAN /\ UNCHANGED <<rungs, stable, active>>
  BY DEF DamonInv, DamonTypeOK, session
<1>2. CASE DetachCapture
  <2>1. "detach" \notin Special
    BY DEF Special, RecNames
  <2> QED BY <1>1, <1>2, <2>1, LookGo DEF DetachCapture
<1>3. CASE KillChild
  <2>1. /\ Step("kill") /\ Proceed /\ Smooth /\ child' = FALSE
        /\ (tgt' = tgt \/ tgt' = "none")
        /\ UNCHANGED <<kernel, files, progress, sess, flags, faults, acts>>
    BY <1>3 DEF KillChild
  <2>2. /\ UNCHANGED <<kd, inst, readers, files, progress, flags, sess, acts, faults>>
        /\ UNCHANGED <<unwinding, errors, failed, verdict>>
    BY <2>1 DEF kernel, Smooth, report
  <2>3. DamonTypeOK'
    BY <1>1, <2>1, <2>2 DEF DamonInv, DamonTypeOK, HostTypeOK, TargetStates
  <2>4. Mine' = Mine /\ Numbered' = Numbered /\ (Quiet => Quiet')
    BY <2>1, <2>2 DEF Mine, Numbered, Quiet
  <2>5. ASSUME OnCourse PROVE Passes("kill")
    <3>1. Ahead(todo)' => Kept
      BY <2>1, <2>5, KeptAhead
    <3>2. PassesKernel("kill")
      BY <2>2, <2>4, <3>1 DEF PassesKernel, Kept, Closings
    <3>3. PassesTarget("kill")
      BY <1>1, <2>1, <2>2, <2>4 DEF PassesTarget
    <3> QED BY <3>2, <3>3 DEF Passes, RecNames
  <2>6. "on" \in flags' \/ "slot" \in flags' => Mine'
    BY <2>2, <2>4 DEF DamonInv, GuardHolds, Mine
  <2> QED BY <2>1, <2>2, <2>3, <2>5, <2>6, Go
<1> QED BY <1>2, <1>3

-----------------------------------------------------------------------------
(* The target, seen by the harness, and the end of a run *)

(* A step that passes on and leaves kernel and guard alone. *)
LEMMA TargetGo ==
    ASSUME NEW name, DamonInv, Step(name), Proceed, Smooth,
           name \notin {"rel_slot", "slot", "rel_instance", "mkdir", "drain", "capture", "guard",
                        "worker_exit", "rel_on", "restored", "ladder", "run_worker",
                        "gate_recovery"} \union RecNames,
           UNCHANGED <<kd, inst, readers, sess, flags, acts, faults, session>>,
           tgt' \in TargetStates, files' \subseteq FileNames, child' \in BOOLEAN,
           progress' \in {"none", "idle", "running", "final"},
           PassesTarget(name)
    PROVE  DamonInv'
<1>1. UNCHANGED <<unwinding, errors, failed, verdict, rungs, stable, active>>
  BY DEF Smooth, report, session
<1>2. DamonTypeOK'
  BY <1>1 DEF DamonInv, DamonTypeOK, HostTypeOK
<1>3. Mine' = Mine /\ Numbered' = Numbered
  BY DEF Mine, Numbered
<1>4. ASSUME OnCourse PROVE Passes(name)
  <2>1. Ahead(todo)' => Kept
    BY <1>4, KeptAhead
  <2>2. PassesKernel(name)
    BY <1>3, <2>1 DEF PassesKernel, Kept, Closings
  <2> QED BY <2>2 DEF Passes
<1>5. "on" \in flags' \/ "slot" \in flags' => Mine'
  BY <1>3 DEF DamonInv, GuardHolds, Mine
<1> QED BY <1>1, <1>2, <1>4, <1>5, Go

(* A step that fails and leaves kernel and guard alone. *)
LEMMA TargetStop ==
    ASSUME NEW name, DamonInv, Step(name), name # "report", Fail,
           UNCHANGED <<kd, inst, readers, sess, child, files, progress, flags, acts, session>>,
           tgt' \in TargetStates, faults' = faults \/ Fault
    PROVE  DamonInv'
<1>1. UNCHANGED <<rungs, stable, active>>
  BY DEF session
<1>2. /\ unwinding' = TRUE /\ errors' = errors \union {"damon"} /\ failed' = failed
      /\ verdict' = verdict
  BY NextStep, FailClears
<1>3. faults' \in 0 .. MaxFaults
  BY HostBounds DEF DamonInv, DamonTypeOK, HostTypeOK, Fault
<1>4. DamonTypeOK'
  BY <1>1, <1>2, <1>3 DEF DamonInv, DamonTypeOK, HostTypeOK
<1>5. "on" \in flags' \/ "slot" \in flags' => Mine'
  BY DEF DamonInv, GuardHolds, Mine
<1> QED BY <1>4, <1>5, Stop

(* The target is spawned, awaited, signalled, reaped or judged. *)
LEMMA TargetsInv ==
    ASSUME DamonInv,
           SpawnSynthetic \/ AwaitTarget \/ SignalWorker \/ Reap \/ Terminate \/ Evidence
    PROVE  DamonInv'
<1>1. /\ tgt \in TargetStates /\ files \subseteq FileNames /\ child \in BOOLEAN
      /\ progress \in {"none", "idle", "running", "final"}
      /\ rungs \in 0 .. MaxRungs /\ stable \in BOOLEAN /\ active \in BOOLEAN
  BY DEF DamonInv, DamonTypeOK, HostTypeOK
<1>2. CASE SpawnSynthetic
  <2>1. /\ Step("spawn") /\ Proceed /\ Smooth /\ tgt' = "booting" /\ progress' = "none"
        /\ files' = files \ ({"target", "metadata"} \union SignalFiles) /\ child' = child
        /\ UNCHANGED <<kernel, sess, flags, acts, faults, session>>
    BY <1>2 DEF SpawnSynthetic
  <2>2. UNCHANGED <<kd, inst, readers, unwinding, errors, failed, active>>
    BY <2>1 DEF kernel, Smooth, report, session
  <2>3. Quiet'
    BY <2>1 DEF Quiet, SignalFiles
  <2>4. PassesTarget("spawn")
    BY <2>1, <2>2, <2>3 DEF PassesTarget
  <2>5. tgt' \in TargetStates /\ files' \subseteq FileNames
    BY <1>1, <2>1 DEF TargetStates
  <2> QED BY <1>1, <2>1, <2>2, <2>4, <2>5, TargetGo DEF RecNames
<1>3. CASE AwaitTarget
  <2>1. Step("await") /\ UNCHANGED <<kernel, files, progress, sess, flags, acts, session>>
    BY <1>3 DEF AwaitTarget
  <2>2. UNCHANGED <<kd, inst, readers, active>>
    BY <2>1 DEF kernel, session
  <2>3. CASE child' = TRUE /\ Proceed /\ Smooth /\ UNCHANGED <<tgt, faults>>
    <3>1. UNCHANGED <<unwinding, errors, failed>> /\ Quiet' = Quiet
      BY <2>1, <2>3 DEF Smooth, report, Quiet
    <3>2. PassesTarget("await")
      BY <2>1, <2>2, <2>3, <3>1 DEF PassesTarget
    <3> QED BY <1>1, <2>1, <2>2, <2>3, <3>2, TargetGo DEF RecNames
  <2>4. CASE Fault /\ Fail /\ UNCHANGED <<tgt, child>>
    BY <1>1, <2>1, <2>2, <2>4, TargetStop
  <2>5. CASE tgt' = "none" /\ Fail /\ UNCHANGED <<child, faults>>
    <3>1. tgt' \in TargetStates
      BY <2>5 DEF TargetStates
    <3> QED BY <2>1, <2>2, <2>5, <3>1, TargetStop
  <2> QED BY <1>3, <2>3, <2>4, <2>5 DEF AwaitTarget
<1>4. CASE SignalWorker
  <2>1. PICK name \in {"start", "stop"} : Step(name) /\ files' = files \union {name}
    BY <1>4 DEF SignalWorker
  <2>2. /\ Proceed /\ Smooth /\ Untouched
        /\ UNCHANGED <<kernel, tgt, progress, flags, acts, faults, session>>
    BY <1>4 DEF SignalWorker
  <2>3. UNCHANGED <<kd, inst, readers, unwinding, errors, failed, active, sess, child>>
    BY <2>2 DEF kernel, Smooth, report, session, Untouched
  <2>4. Quiet /\ name # "start" => Quiet'
    BY <2>1, <2>2 DEF Quiet
  <2>5. PassesTarget(name)
    BY <2>1, <2>2, <2>3, <2>4 DEF PassesTarget
  <2>6. files' \subseteq FileNames
    BY <1>1, <2>1 DEF FileNames, SignalFiles
  <2>7. name \notin {"rel_slot", "slot", "rel_instance", "mkdir", "drain", "capture", "guard",
                     "worker_exit", "rel_on", "restored", "ladder", "run_worker",
                     "gate_recovery"} \union RecNames
    BY <2>1 DEF RecNames
  <2> QED BY <1>1, <2>1, <2>2, <2>3, <2>5, <2>6, <2>7, TargetGo
<1>5. CASE Reap \/ Terminate
  <2>1. PICK name \in {"reap", "terminate"} : Step(name)
    BY <1>5 DEF Reap, Terminate
  <2>2. /\ Proceed /\ Smooth /\ tgt' = "none" /\ child' = FALSE
        /\ UNCHANGED <<kernel, files, progress, sess, flags, acts, faults, session>>
    BY <1>5 DEF Reap, Terminate
  <2>3. UNCHANGED <<kd, inst, readers, unwinding, errors, failed, active>>
    BY <2>2 DEF kernel, Smooth, report, session
  <2>4. Quiet => Quiet'
    BY <2>2 DEF Quiet
  <2>5. PassesTarget(name)
    BY <2>1, <2>2, <2>3, <2>4 DEF PassesTarget
  <2>6. tgt' \in TargetStates
    BY <2>2 DEF TargetStates
  <2>7. name \notin {"rel_slot", "slot", "rel_instance", "mkdir", "drain", "capture", "guard",
                     "worker_exit", "rel_on", "restored", "ladder", "run_worker",
                     "gate_recovery"} \union RecNames
    BY <2>1 DEF RecNames
  <2> QED BY <1>1, <2>1, <2>2, <2>3, <2>5, <2>6, <2>7, TargetGo
<1>6. CASE Evidence
  <2>1. /\ Step("evidence") /\ Proceed /\ Smooth /\ Untouched
        /\ UNCHANGED <<kernel, process, flags, acts, rungs>> /\ faults' = faults
        /\ active' = active
    BY <1>6 DEF Evidence
  <2>2. stable' \in BOOLEAN
    BY <1>1, <1>6 DEF Evidence
  <2>3. "evidence" \notin Special
    BY DEF Special, RecNames
  <2> QED BY <1>1, <2>1, <2>2, <2>3, LookGo
<1> QED BY <1>2, <1>3, <1>4, <1>5, <1>6

(* The record of the crash worker. *)
LEMMA RecordInv ==
    ASSUME DamonInv, Record PROVE DamonInv'
<1>1. Step("record") /\ Untouched /\ UNCHANGED <<kernel, tgt, progress, flags, acts, session>>
  BY DEF Record
<1>2. UNCHANGED <<kd, inst, readers, active, sess, child>>
  BY <1>1 DEF kernel, session, Untouched
<1>3. /\ tgt \in TargetStates /\ files \subseteq FileNames /\ child \in BOOLEAN
      /\ progress \in {"none", "idle", "running", "final"}
  BY DEF DamonInv, DamonTypeOK, HostTypeOK
<1>4. CASE files' = files \union {"recovery"} /\ Proceed /\ Smooth /\ UNCHANGED faults
  <2>1. UNCHANGED <<unwinding, errors, failed>> /\ (Quiet => Quiet')
    BY <1>1, <1>4 DEF Smooth, report, Quiet
  <2>2. PassesTarget("record")
    BY <1>1, <1>2, <2>1 DEF PassesTarget
  <2>3. files' \subseteq FileNames
    BY <1>3, <1>4 DEF FileNames
  <2> QED BY <1>1, <1>2, <1>3, <1>4, <2>2, <2>3, TargetGo DEF RecNames
<1>5. CASE Fault /\ Fail /\ UNCHANGED files
  BY <1>1, <1>2, <1>3, <1>5, TargetStop
<1> QED BY <1>4, <1>5 DEF Record

(* Behind the crash worker and in the recovery no session begins any more. *)
LEMMA LateBehind ==
    ASSUME NEW name \in RecNames \union {"worker_exit"}, DamonInv, OnCourse, Step(name),
           NEW d, Drops(todo, todo', d), d >= 1
    PROVE  \A i \in 1 .. Len(todo') : todo'[i] \in LateNames
<1>1. /\ todo[1] = name /\ Len(todo) \in Nat /\ 1 \in 1 .. Len(todo)
      /\ d \in 0 .. Len(todo) /\ Len(todo') = Len(todo) - d
      /\ \A i \in 1 .. Len(todo') : todo'[i] = todo[i + d]
  BY NextStep DEF Drops
<1>2. \A k \in 1 + 1 .. Len(todo) : todo[k] \in LateNames
  BY <1>1 DEF OnCourse, Recovers
<1>3. \A i \in 1 .. Len(todo') : i + d \in 1 + 1 .. Len(todo)
  BY <1>1
<1> QED BY <1>1, <1>2, <1>3

(* The recovery begins no session. *)
LEMMA LateNotAhead ==
    ASSUME NEW w, \A i \in 1 .. Len(w) : w[i] \in LateNames PROVE ~Ahead(w)
BY DEF Ahead, LateNames, RecNames, Closings, Fresh

(* The crash worker is gone, and with it its guard. *)
LEMMA WorkerExitInv ==
    ASSUME DamonInv, WorkerExit PROVE DamonInv'
<1>1. /\ Step("worker_exit") /\ flags' = {} /\ Proceed /\ Smooth /\ Untouched
      /\ UNCHANGED <<kernel, process, faults, acts, session>>
  BY DEF WorkerExit
<1>2. /\ UNCHANGED <<kd, inst, readers, tgt, files, progress, sess, child, acts, faults>>
      /\ UNCHANGED <<unwinding, errors, failed, verdict, rungs, stable, active>>
  BY <1>1 DEF kernel, process, session, Untouched, Smooth, report
<1>3. DamonTypeOK'
  BY <1>1, <1>2 DEF DamonInv, DamonTypeOK, HostTypeOK
<1>4. Mine' = Mine /\ Numbered' = Numbered /\ Quiet' = Quiet
  BY <1>2 DEF Mine, Numbered, Quiet
<1>5. ASSUME OnCourse PROVE Passes("worker_exit")
  <2>1. ~Ahead(todo)'
    <3>1. Drops(todo, todo', 1)
      BY <1>1, NextStep DEF Proceed
    <3>2. \A i \in 1 .. Len(todo') : todo'[i] \in LateNames
      BY <1>1, <1>5, <3>1, LateBehind
    <3> QED BY <3>2, LateNotAhead
  <2>2. PassesKernel("worker_exit")
    BY <1>2, <1>4, <2>1 DEF PassesKernel, Closings
  <2>3. PassesTarget("worker_exit")
    BY <1>2, <1>4 DEF PassesTarget
  <2> QED BY <1>1, <2>2, <2>3 DEF Passes, RecNames
<1> QED BY <1>1, <1>2, <1>3, <1>5, Go

(* The end of the scope and the verdict. *)
LEMMA DamonCloseInv ==
    ASSUME DamonInv, CloseDamon PROVE DamonInv'
<1>1. /\ Step("close_damon") /\ unwinding' = FALSE /\ Proceed /\ Untouched
      /\ UNCHANGED <<kernel, process, flags, report, faults, acts, session>>
  BY DEF CloseDamon, CloseScope
<1>2. /\ UNCHANGED <<kd, inst, readers, tgt, files, progress, sess, child, acts, faults, flags>>
      /\ UNCHANGED <<errors, failed, verdict, rungs, stable, active>>
  BY <1>1 DEF kernel, process, session, Untouched, report
<1>3. DamonTypeOK'
  BY <1>1, <1>2 DEF DamonInv, DamonTypeOK, HostTypeOK
<1>4. ASSUME OnCourse PROVE Passes("close_damon")
  <2>1. unwinding' = unwinding
    BY <1>1, <1>4 DEF OnCourse, DamonInv, DamonTypeOK, HostTypeOK
  <2>2. "close_damon" \notin Special
    BY DEF Special, RecNames
  <2> QED BY <1>1, <1>2, <1>4, <2>1, <2>2, CalmPasses
<1>5. "on" \in flags' \/ "slot" \in flags' => Mine'
  BY <1>2 DEF DamonInv, GuardHolds, Mine
<1> QED BY <1>1, <1>2, <1>3, <1>4, <1>5, Go

(* The verdict of main. *)
LEMMA DamonReportInv ==
    ASSUME DamonInv, ReportDamon PROVE DamonInv'
<1>1. /\ Step("report") /\ Proceed /\ Untouched
      /\ verdict' = IF errors = {} /\ failed = {} THEN "pass" ELSE "fail"
      /\ files' = files \ files /\ readers' = {}
      /\ UNCHANGED <<kd, inst, tgt, progress, flags, unwinding, errors, failed, faults, acts>>
      /\ UNCHANGED session
  BY DEF ReportDamon, Conclude
<1>2. UNCHANGED <<sess, child, rungs, stable, active>> /\ files' = {}
  BY <1>1 DEF Untouched, session
<1>3. /\ todo # <<>> /\ todo[1] = "report" /\ Ends(todo) /\ Len(todo) \in Nat
      /\ Len(todo) >= 1 /\ Drops(todo, todo', 1)
  BY <1>1, NextStep DEF Proceed
<1>4. todo' = <<>>
  <2>1. \A i \in 1 .. Len(todo) : todo[i] = "report" <=> i = Len(todo)
    BY <1>3 DEF Ends
  <2>2. Len(todo) = 1
    <3>1. 1 \in 1 .. Len(todo)
      BY <1>3
    <3>2. 1 = Len(todo)
      BY <1>3, <2>1, <3>1
    <3> QED BY <3>2
  <2>3. todo' \in Seq(StepNames) /\ Len(todo') = 0
    BY <1>3, <2>2 DEF Drops
  <2> QED BY <2>3, EmptySeq
<1>5. Ends(todo)'
  BY <1>3, EndsDrop
<1>6. DamonTypeOK'
  BY <1>1, <1>2 DEF DamonInv, DamonTypeOK, HostTypeOK
<1>7. GuardHolds'
  BY <1>1, <1>4 DEF DamonInv, GuardHolds
<1>8. Mine' = Mine /\ Numbered' = Numbered /\ (Quiet => Quiet')
  BY <1>1, <1>2 DEF Mine, Numbered, Quiet
<1>9. CASE OnCourse
  <2>1. Ahead(todo)' => Kept
    BY <1>1, <1>9, KeptAhead
  <2>2. PassesKernel("report")
    BY <1>1, <1>2, <1>8, <2>1 DEF PassesKernel, Kept
  <2>3. PassesTarget("report")
    BY <1>1, <1>2, <1>8 DEF PassesTarget
  <2>4. Passes("report")
    BY <2>2, <2>3 DEF Passes, RecNames
  <2>5. OnCourse'
    BY <1>1, <1>3, <1>9, <2>4, Onwards DEF Proceed
  <2> QED BY <1>1, <1>4, <1>5, <1>6, <1>7, <2>5 DEF DamonInv
<1>10. CASE AfterError
  <2>1. AfterError'
    BY <1>1, <1>3, <1>10, CleanupDrops DEF AfterError
  <2> QED BY <1>1, <1>4, <1>5, <1>6, <1>7, <2>1 DEF DamonInv
<1> QED BY <1>9, <1>10 DEF DamonInv

-----------------------------------------------------------------------------
(* The next probe, the final session, the crash worker *)

(* Nothing is held: whatever is closed in time stays so. *)
LEMMA LapsesFree ==
    ASSUME NEW w, NEW h, NEW o, NEW c, ~h, Lapses(w, FALSE, o, c) PROVE Lapses(w, h, o, c)
BY DEF Lapses

(* With nothing held the order holds for any slot, target and session. *)
LEMMA OrderFree ==
    ASSUME NEW w, NEW a, NEW b, NEW e, NEW g, e,
           Owned(w, FALSE), Unstarted(w, FALSE, TRUE), Begun(w, FALSE)
    PROVE  Owned(w, a) /\ Unstarted(w, b, e) /\ Begun(w, g)
<1>1. Owned(w, a)
  BY DEF Owned
<1>2. Unstarted(w, b, e)
  BY DEF Unstarted
<1>3. Begun(w, g)
  BY DEF Begun
<1> QED BY <1>1, <1>2, <1>3, Zenon

(* A program that starts with nothing held, where nothing is. *)
LEMMA PlannedCourse ==
    ASSUME Planned(todo'), ~Mine', inst' = {}, readers' = {}, tgt' = "none",
           errors' = {}, ~unwinding', Found(todo, Mine, "recovery" \in files, flags = {})',
           Evidenced(todo)'
    PROVE  Ends(todo)' /\ OnCourse'
<1>1. Ends(todo)' /\ Recovers(todo)' /\ Rests(todo)' /\ Gates(todo)'
  BY DEF Planned
<1>2. Separate'
  <2>1. Lapses(todo', Mine', "slot", {"rel_slot"})
    BY LapsesFree DEF Planned
  <2>2. Lapses(todo', (inst # {})', "mkdir", {"rel_instance"})
    BY LapsesFree DEF Planned
  <2>3. Lapses(todo', (readers # {})', "capture", {"drain"})
    BY LapsesFree DEF Planned
  <2>4. Lapses(todo', (tgt # "none")', "spawn", {"reap", "terminate"})
    BY LapsesFree DEF Planned
  <2> QED BY <2>1, <2>2, <2>3, <2>4 DEF Separate, Mine
<1>3. Owned(todo, Mine)' /\ Unstarted(todo, Quiet, tgt = "none")' /\ Begun(todo, Numbered)'
  BY OrderFree DEF Planned
<1>4. Remembered'
  BY DEF Remembered, Mine
<1> QED BY <1>1, <1>2, <1>3, <1>4 DEF OnCourse, Mine, Quiet, Numbered

(* At the ladder only the end of the scope is ahead. *)
LEMMA AtLadder ==
    ASSUME DamonInv, OnCourse, Step("ladder")
    PROVE  todo = <<"ladder", "close_damon", "report">>
<1> DEFINE s == <<"ladder", "close_damon", "report">>
<1>1. todo[1] = "ladder" /\ Ends(todo) /\ Len(todo) \in Nat /\ 1 \in 1 .. Len(todo)
  BY NextStep
<1>2. Len(todo) = 1 + 2
  BY <1>1 DEF OnCourse, Rests
<1>3. todo \in Seq(StepNames) /\ todo[2] = "close_damon" /\ todo[3] = "report"
  <2>1. \A i \in 1 .. Len(todo) :
          (todo[i] = "report" <=> i = Len(todo)) /\ (todo[i] = "close_damon" <=> i + 1 = Len(todo))
    BY <1>1 DEF Ends
  <2>2. 2 \in 1 .. Len(todo) /\ 3 \in 1 .. Len(todo) /\ 2 + 1 = Len(todo) /\ 3 = Len(todo)
    BY <1>2
  <2>3. todo[2] = "close_damon"
    BY <2>1, <2>2
  <2>4. todo[3] = "report"
    BY <2>1, <2>2
  <2> QED BY <1>1, <2>3, <2>4 DEF Ends
<1>4. s \in Seq(StepNames) /\ Len(s) = 3 /\ s[1] = "ladder" /\ s[2] = "close_damon"
      /\ s[3] = "report"
  BY DEF StepNames
<1> HIDE DEF s
<1>5. \A i \in 1 .. Len(todo) : todo[i] = s[i]
  <2>1. \A i \in 1 .. Len(todo) : i = 1 \/ i = 2 \/ i = 3
    BY <1>2
  <2> QED BY <1>1, <1>3, <1>4, <2>1
<1>6. todo = s
  <2>1. Len(todo) = Len(s)
    BY <1>2, <1>4
  <2> QED BY <1>3, <1>4, <1>5, <2>1, SeqEqual
<1> QED BY <1>6 DEF s

(* The ladder: the next probe, the final session, or an error. *)
LEMMA LadderInv ==
    ASSUME DamonInv, Ladder PROVE DamonInv'
<1>1. Step("ladder") /\ Untouched /\ UNCHANGED <<kernel, process, flags, faults, acts, stable,
          active>>
  BY DEF Ladder
<1>2. UNCHANGED <<kd, inst, readers, tgt, files, progress, sess, child, flags, faults, acts>>
  BY <1>1 DEF kernel, process, Untouched
<1>3. OnCourse /\ verdict = "none" /\ Ends(todo) /\ Len(todo) >= 2
  BY <1>1, NextStep DEF CleanupNames
<1>4. ~Mine /\ inst = {} /\ readers = {} /\ tgt = "none"
  BY <1>1, <1>3, NothingHeld DEF Fresh
<1>5. Mine' = Mine /\ ("on" \in flags' \/ "slot" \in flags' => Mine')
  BY <1>2 DEF DamonInv, GuardHolds, Mine
<1>6. rungs \in 0 .. MaxRungs /\ stable \in BOOLEAN /\ active \in BOOLEAN
  BY DEF DamonInv, DamonTypeOK
<1>7. ASSUME Planned(todo'), todo' # <<>>, todo'[1] \in {"guard", "nr_zero"}, Evidenced(todo)',
             rungs' \in 0 .. MaxRungs, Smooth
      PROVE  DamonInv'
  <2>1. UNCHANGED <<unwinding, errors, failed, verdict>>
    BY <1>7 DEF Smooth, report
  <2>2. Found(todo, Mine, "recovery" \in files, flags = {})'
    BY <1>7 DEF Found, RecNames
  <2>3. errors' = {} /\ ~unwinding'
    BY <1>3, <2>1 DEF OnCourse
  <2>4. Ends(todo)' /\ OnCourse'
    BY <1>2, <1>4, <1>5, <1>7, <2>2, <2>3, PlannedCourse
  <2>5. DamonTypeOK'
    BY <1>1, <1>2, <1>6, <1>7, <2>1 DEF DamonInv, DamonTypeOK, HostTypeOK
  <2>6. GuardHolds'
    BY <1>5, <1>7 DEF GuardHolds, Mine
  <2> QED BY <1>3, <2>1, <2>4, <2>5, <2>6 DEF DamonInv
<1>8. CASE stable /\ todo' = FinalSteps \o AfterScope /\ UNCHANGED <<rungs, unwinding, report>>
  <2>1. todo' = FinalProgram
    BY <1>3, <1>8, DamonScope, FinalIs
  <2> DEFINE w == FinalProgram
  <2>2. w \in Seq(StepNames) /\ Len(w) = 65
    BY FinalProgramSeq
  <2>3. w[1] = "guard" /\ w[31] = "activity" /\ w[35] = "reap" /\ w[37] = "fingerprint"
        /\ w[63] = "restored"
    BY DEF FinalProgram
  <2> HIDE DEF w
  <2>4. Has(w, "activity") /\ Has(w, "reap") /\ Has(w, "fingerprint") /\ Has(w, "restored")
    BY <2>2, <2>3 DEF Has
  <2>5. w # <<>>
    BY <2>2, EmptySeq
  <2>6. Evidenced(todo)'
    BY <2>1, <2>4 DEF Evidenced, w
  <2> QED BY <1>6, <1>7, <1>8, <2>1, <2>3, <2>5, <2>6, FinalPlanned DEF w, Smooth
<1>9. CASE rungs > 0 /\ rungs' = rungs - 1 /\ todo' = ProbeSteps \o todo /\ Smooth
  <2>1. todo' = ProbeSteps \o <<"ladder", "close_damon", "report">>
    BY <1>1, <1>3, <1>9, AtLadder
  <2>2. Planned(todo') /\ todo' # <<>> /\ todo'[1] = "nr_zero" /\ Has(todo', "ladder")
    BY <2>1, ProbePlanned
  <2>3. Evidenced(todo)'
    BY <2>2 DEF Evidenced
  <2>4. rungs' \in 0 .. MaxRungs
    BY <1>6, <1>9, RungsAssumption
  <2> QED BY <1>7, <1>9, <2>2, <2>3, <2>4
<1>10. CASE Fail /\ UNCHANGED rungs
  <2>1. stable' \in BOOLEAN /\ active' \in BOOLEAN /\ faults' = faults
    BY <1>1, <1>6
  <2> QED BY <1>1, <1>10, <2>1, LookStop
<1> QED BY <1>8, <1>9, <1>10 DEF Ladder

(* What the gates have established when only the recovery is left. *)
LEMMA LateEvidence ==
    ASSUME NEW name \in RecNames \union {"run_worker"}, DamonInv, OnCourse, Step(name),
           \A k \in 1 + 1 .. Len(todo) : todo[k] \in LateNames
    PROVE  /\ tgt = "none" /\ Has(todo, "restored")
           /\ failed = {} => active /\ progress = "final"
<1>1. todo[1] = name /\ Len(todo) \in Nat /\ Len(todo) >= 1
  BY NextStep
<1>2. ASSUME NEW i \in 1 .. Len(todo)
      PROVE  todo[i] \notin {"ladder", "activity", "reap", "fingerprint"}
  <2>1. CASE i = 1
    BY <1>1, <2>1 DEF RecNames
  <2>2. CASE i # 1
    <3>1. i \in 1 + 1 .. Len(todo)
      BY <1>1, <2>2
    <3> QED BY <3>1 DEF LateNames, RecNames, Closings
  <2> QED BY <2>1, <2>2
<1>3. ~Has(todo, "ladder") /\ ~Has(todo, "activity") /\ ~Has(todo, "reap")
      /\ ~Has(todo, "fingerprint")
  BY <1>2 DEF Has
<1>4. ~(\A i \in 1 .. Len(todo) : todo[i] \in Closings)
  <2>1. 1 \in 1 .. Len(todo) /\ name \notin Closings
    BY <1>1 DEF RecNames, Closings
  <2> QED BY <1>1, <2>1
<1> QED BY <1>3, <1>4 DEF OnCourse, Evidenced

(* The crash worker takes over with nothing held. *)
LEMMA RunWorkerInv ==
    ASSUME DamonInv, RunWorker PROVE DamonInv'
<1>1. /\ Step("run_worker") /\ todo' = CrashSteps \o Tail(todo) /\ Smooth /\ Untouched
      /\ UNCHANGED <<kernel, process, flags, faults, acts, session>>
  BY DEF RunWorker
<1>2. /\ UNCHANGED <<kd, inst, readers, tgt, files, progress, sess, child, flags, faults, acts>>
      /\ UNCHANGED <<unwinding, errors, failed, verdict, rungs, stable, active>>
  BY <1>1 DEF kernel, process, Untouched, Smooth, report, session
<1>3. /\ OnCourse /\ verdict = "none" /\ Ends(todo) /\ todo[1] = "run_worker"
      /\ Len(todo) \in Nat /\ 1 \in 1 .. Len(todo) /\ Drops(todo, Tail(todo), 1)
  BY <1>1, NextStep DEF CleanupNames
<1>4. ~Mine /\ inst = {} /\ readers = {} /\ tgt = "none"
  BY <1>1, <1>3, NothingHeld DEF Fresh
<1>5. Len(todo) = 1 + 16 /\ \A m \in 1 .. 16 : todo[1 + m] = LateProgram[m]
  BY <1>3 DEF OnCourse, Rests
<1>6. Tail(todo) = LateProgram
  <2>1. Tail(todo) \in Seq(StepNames) /\ Len(Tail(todo)) = 16
        /\ \A i \in 1 .. Len(Tail(todo)) : Tail(todo)[i] = todo[i + 1]
    BY <1>3, <1>5 DEF Drops
  <2>2. \A i \in 1 .. 16 : Tail(todo)[i] = LateProgram[i]
    <3>1. \A i \in 1 .. 16 : i + 1 = 1 + i
      OBVIOUS
    <3> QED BY <1>5, <2>1, <3>1
  <2> QED BY <2>1, <2>2, LateProgramSeq, SeqEqual
<1>7. todo' = WorkerProgram
  BY <1>1, <1>6, WorkerIs
<1>8. \A k \in 1 + 1 .. Len(todo) : todo[k] \in LateNames
  <2>1. \A m \in 1 .. 16 : LateProgram[m] \in LateNames
    BY LateProgramPart1 DEF LateNames, RecNames, Closings
  <2>2. \A k \in 1 + 1 .. Len(todo) : k - 1 \in 1 .. 16 /\ 1 + (k - 1) = k
    BY <1>5
  <2> QED BY <1>5, <2>1, <2>2
<1>9. failed = {} => active /\ progress = "final"
  BY <1>1, <1>3, <1>8, LateEvidence
<1> DEFINE w == WorkerProgram
<1>10. w \in Seq(StepNames) /\ Len(w) = 25
  BY WorkerProgramSeq
<1>11. w[1] = "nr_zero" /\ w[23] = "restored"
  BY DEF WorkerProgram
<1>12. \A i \in 1 .. 25 : w[i] \notin {"window", "spawn", "reap"}
  BY WorkerProgramWhere
<1> HIDE DEF w
<1>13. Has(w, "restored") /\ ~Has(w, "window") /\ ~Has(w, "spawn") /\ ~Has(w, "reap")
  BY <1>10, <1>11, <1>12 DEF Has
<1>14. w # <<>>
  BY <1>10, EmptySeq
<1>15. todo' = w /\ Planned(w)
  BY <1>7, WorkerPlanned DEF w
<1>16. Evidenced(todo)'
  BY <1>2, <1>4, <1>9, <1>13, <1>15 DEF Evidenced
<1>17. Found(todo, Mine, "recovery" \in files, flags = {})'
  BY <1>11, <1>15 DEF Found, RecNames
<1>18. errors' = {} /\ ~unwinding' /\ ~Mine'
  BY <1>2, <1>3, <1>4 DEF OnCourse, Mine
<1>19. Ends(todo)' /\ OnCourse'
  BY <1>2, <1>4, <1>15, <1>16, <1>17, <1>18, PlannedCourse
<1>20. DamonTypeOK'
  BY <1>2 DEF DamonInv, DamonTypeOK, HostTypeOK
<1>21. GuardHolds'
  BY <1>2, <1>11, <1>15 DEF DamonInv, GuardHolds
<1> QED BY <1>2, <1>3, <1>19, <1>20, <1>21 DEF DamonInv

-----------------------------------------------------------------------------
(* The recovery *)

(* Which step of the recovery is behind which. *)
LEMMA RecoverNext ==
    ASSUME NEW name \in RecNames, DamonInv, OnCourse, Step(name), Proceed, todo' # <<>>
    PROVE  /\ todo'[1] # "rec_begin"
           /\ todo'[1] = "rec_state" => name = "rec_begin"
           /\ todo'[1] = "rec_off" => name = "rec_state"
           /\ todo'[1] = "rec_slot" => name = "rec_off"
           /\ todo'[1] = "gate_recovery" => name = "rec_file"
<1>1. todo[1] = name /\ Ends(todo) /\ Len(todo) \in Nat /\ Drops(todo, todo', 1)
  BY NextStep DEF Proceed
<1>2. Len(todo') = Len(todo) - 1 /\ todo' \in Seq(StepNames)
      /\ \A i \in 1 .. Len(todo') : todo'[i] = todo[i + 1]
  BY <1>1 DEF Drops
<1>3. Len(todo') # 0
  BY <1>2, EmptySeq
<1>4. 2 \in 1 .. Len(todo) /\ 1 \in 1 .. Len(todo')
  BY <1>1, <1>2, <1>3
<1>5. todo'[1] = todo[2]
  <2>1. 1 + 1 = 2
    OBVIOUS
  <2> QED BY <1>2, <1>4, <2>1
<1>6. Recovers(todo)
  BY DEF OnCourse
<1>7. 2 > 1 /\ 2 - 1 = 1
  OBVIOUS
<1>8. /\ todo[2] = "rec_begin" => todo[1] \in {"worker_exit", "gate_recovery", "run_worker"}
      /\ todo[2] = "rec_state" => todo[1] = "rec_begin"
      /\ todo[2] = "rec_off" => todo[1] = "rec_state"
      /\ todo[2] = "rec_slot" => todo[1] = "rec_off"
      /\ todo[2] = "gate_recovery" => todo[1] = "rec_file"
  BY <1>4, <1>6, <1>7 DEF Recovers
<1> QED BY <1>1, <1>5, <1>8 DEF RecNames

(* The last gate stays ahead. *)
LEMMA RestoredAhead ==
    ASSUME NEW name \in RecNames, DamonInv, OnCourse, Step(name),
           NEW d, Drops(todo, todo', d), d = 1 \/ (todo' # <<>> /\ todo'[1] \notin Closings),
           Has(todo, "restored")
    PROVE  Has(todo, "restored")'
<1>1. todo[1] = name /\ Ends(todo) /\ Len(todo) \in Nat
  BY NextStep
<1>2. PICK i \in 1 .. Len(todo) : todo[i] = "restored"
  BY DEF Has
<1>3. /\ d \in 0 .. Len(todo) /\ Len(todo') = Len(todo) - d /\ todo' \in Seq(StepNames)
      /\ \A k \in 1 .. Len(todo') : todo'[k] = todo[k + d]
  BY DEF Drops
<1>4. i > d
  <2>1. CASE d = 1
    BY <1>1, <1>2, <2>1 DEF RecNames
  <2>2. CASE todo' # <<>> /\ todo'[1] \notin Closings
    <3>1. Len(todo') # 0
      BY <1>3, <2>2, EmptySeq
    <3>2. 1 \in 1 .. Len(todo') /\ 1 + d \in 1 .. Len(todo)
      BY <1>1, <1>3, <3>1
    <3>3. todo[1 + d] \notin Closings
      BY <1>3, <2>2, <3>2
    <3>4. \A k \in i + 1 .. Len(todo) : todo[k] \in Closings
      BY <1>2 DEF OnCourse, Gates
    <3>5. 1 + d \notin i + 1 .. Len(todo)
      BY <3>3, <3>4
    <3> QED BY <1>3, <3>2, <3>5
  <2> QED BY <2>1, <2>2
<1>5. i - d \in 1 .. Len(todo') /\ (i - d) + d = i
  BY <1>1, <1>3, <1>4
<1>6. todo'[i - d] = "restored"
  BY <1>2, <1>3, <1>5
<1> QED BY <1>5, <1>6 DEF Has

(* A step of the recovery leaves the harness on its course. *)
LEMMA LateCourse ==
    ASSUME NEW name \in RecNames, DamonInv, OnCourse, Step(name),
           NEW d, Drops(todo, todo', d), d >= 1,
           d = 1 \/ (todo' # <<>> /\ todo'[1] \notin Closings),
           UNCHANGED <<tgt, progress, active, failed, errors, unwinding>>,
           Found(todo, Mine, "recovery" \in files, flags = {})'
    PROVE  Ends(todo)' /\ OnCourse'
<1>1. todo[1] = name /\ Ends(todo) /\ 1 \in 1 .. Len(todo) /\ Len(todo) \in Nat
  BY NextStep
<1>2. Ends(todo)' /\ Recovers(todo)' /\ Rests(todo)' /\ Gates(todo)'
  BY <1>1, EndsDrop, RecoversDrop, RestsDrop, GatesDrop DEF OnCourse
<1>3. \A i \in 1 .. Len(todo') : todo'[i] \in LateNames
  BY LateBehind
<1>4. ~Ahead(todo)'
  BY <1>3, LateNotAhead
<1>5. Remembered' /\ Separate'
  <2>1. Remembered'
    BY <1>4 DEF Remembered, Ahead
  <2>2. \A h, o, c : Lapses(todo', h, o, c)
    BY <1>4, LapsesAhead
  <2> QED BY <2>1, <2>2 DEF Separate
<1>6. \A i \in 1 .. Len(todo') :
        todo'[i] \notin SlotUsers \union {"mkdir", "capture", "on", "window", "spawn", "reap"}
  BY <1>3 DEF LateNames, RecNames, Closings, SlotUsers
<1>7. Owned(todo, Mine)' /\ Unstarted(todo, Quiet, tgt = "none")' /\ Begun(todo, Numbered)'
  BY <1>6 DEF Owned, Unstarted, Begun
<1>8. \A k \in 1 + 1 .. Len(todo) : todo[k] \in LateNames
  BY <1>1 DEF OnCourse, Recovers
<1>9. tgt = "none" /\ Has(todo, "restored") /\ (failed = {} => active /\ progress = "final")
  BY <1>8, LateEvidence
<1>10. Has(todo, "restored")'
  BY <1>9, RestoredAhead
<1>11. ~Has(todo, "window")' /\ ~Has(todo, "spawn")' /\ ~Has(todo, "reap")'
  BY <1>6 DEF Has
<1>12. Evidenced(todo)'
  BY <1>9, <1>10, <1>11 DEF Evidenced
<1>13. errors' = {} /\ ~unwinding'
  BY DEF OnCourse
<1> QED BY <1>2, <1>5, <1>7, <1>12, <1>13 DEF OnCourse, Mine, Quiet, Numbered

(* A step of the recovery that is done. *)
LEMMA LateGo ==
    ASSUME NEW name \in RecNames, DamonInv, Step(name),
           NEW d, Drops(todo, todo', d), d >= 1,
           d = 1 \/ (todo' # <<>> /\ todo'[1] \notin Closings), Smooth, Untouched,
           UNCHANGED <<readers, tgt, progress, flags, faults, acts, session>>,
           kd' \in Slots, inst' \subseteq inst, files' \subseteq files,
           Found(todo, Mine, "recovery" \in files, flags = {})'
    PROVE  DamonInv'
<1>1. OnCourse /\ verdict = "none" /\ todo[1] = name /\ todo # <<>>
  BY NextStep DEF CleanupNames, RecNames
<1>2. UNCHANGED <<unwinding, errors, failed, verdict, sess, child, rungs, stable, active>>
  BY DEF Smooth, Untouched, report, session
<1>3. Ends(todo)' /\ OnCourse'
  BY <1>1, <1>2, LateCourse
<1>4. DamonTypeOK'
  BY <1>2 DEF DamonInv, DamonTypeOK, HostTypeOK
<1>5. flags' = {}
  BY <1>1 DEF OnCourse, Found
<1>6. GuardHolds'
  BY <1>5 DEF GuardHolds
<1> QED BY <1>1, <1>2, <1>3, <1>4, <1>6 DEF DamonInv

(* Skipping to a step. *)
LEMMA SkipDrops ==
    ASSUME NEW name, NEW step, DamonInv, Step(name), SkipTo(step), name # step
    PROVE  \E d \in 1 .. Len(todo) : Drops(todo, todo', d) /\ todo' # <<>> /\ todo'[1] = step
<1>1. todo[1] = name /\ Ends(todo) /\ Len(todo) \in Nat /\ todo \in Seq(StepNames)
  BY NextStep DEF Ends
<1>2. DOMAIN todo = 1 .. Len(todo)
  BY <1>1
<1>3. PICK i \in 1 .. Len(todo) : todo[i] = step /\ todo' = SubSeq(todo, i, Len(todo))
  BY <1>2 DEF SkipTo
<1>4. Drops(todo, todo', i - 1)
  BY <1>1, <1>3, SubSeqDrops
<1>5. i - 1 \in 1 .. Len(todo)
  BY <1>1, <1>3
<1>6. /\ todo' \in Seq(StepNames) /\ Len(todo') = Len(todo) - (i - 1)
      /\ \A k \in 1 .. Len(todo') : todo'[k] = todo[k + (i - 1)]
  BY <1>4 DEF Drops
<1>7. 1 \in 1 .. Len(todo') /\ 1 + (i - 1) = i /\ Len(todo') # 0
  BY <1>3, <1>5, <1>6
<1>8. todo'[1] = step
  BY <1>3, <1>6, <1>7
<1>9. todo' # <<>>
  BY <1>6, <1>7, EmptySeq
<1> QED BY <1>4, <1>5, <1>8, <1>9

(* The second recovery, or a worker that left no record. *)
LEMMA NothingRecorded ==
    ASSUME DamonInv, OnCourse, Step("rec_begin"),
           todo' = SubSeq(todo, Len(RecoverSteps) + 1, Len(todo))
    PROVE  /\ Drops(todo, todo', 6) /\ todo' # <<>>
           /\ todo'[1] \in {"gate_recovery", "restored"}
<1>1. /\ todo[1] = "rec_begin" /\ Ends(todo) /\ Len(todo) \in Nat /\ todo \in Seq(StepNames)
      /\ 1 \in 1 .. Len(todo)
  BY NextStep DEF Ends
<1>2. Len(RecoverSteps) = 6
  BY DEF RecoverSteps
<1>3. 1 + 6 <= Len(todo) /\ todo[1 + 6] \in {"gate_recovery", "restored"}
  BY <1>1 DEF OnCourse, Recovers
<1>4. 7 \in 1 .. Len(todo) /\ todo' = SubSeq(todo, 7, Len(todo)) /\ 7 - 1 = 6 /\ 1 + 6 = 7
  BY <1>1, <1>2, <1>3
<1>5. Drops(todo, todo', 6)
  BY <1>1, <1>4, SubSeqDrops
<1>6. /\ todo' \in Seq(StepNames) /\ Len(todo') = Len(todo) - 6
      /\ \A k \in 1 .. Len(todo') : todo'[k] = todo[k + 6]
  BY <1>5 DEF Drops
<1>7. 1 \in 1 .. Len(todo') /\ Len(todo') # 0
  BY <1>1, <1>4, <1>6
<1>8. todo'[1] = todo[7]
  BY <1>4, <1>6, <1>7
<1>9. todo' # <<>>
  BY <1>6, <1>7, EmptySeq
<1> QED BY <1>3, <1>4, <1>5, <1>8, <1>9

(* recover_damon_crash, step by step. *)
LEMMA RecoverInv ==
    ASSUME DamonInv, Recover PROVE DamonInv'
<1>1. /\ Untouched /\ UNCHANGED <<readers, tgt, progress, flags, faults, acts, session>>
      /\ kd \in Slots /\ inst \subseteq 1 .. sess /\ readers \subseteq 1 .. sess
  BY DEF Recover, DamonInv, DamonTypeOK, HostTypeOK
<1>2. ASSUME NEW name \in RecNames, Step(name)
      PROVE  /\ OnCourse /\ flags = {} /\ flags' = {} /\ name # "report"
             /\ name \in {"rec_state", "rec_off", "rec_slot"} => Mine
             /\ name = "rec_begin" => ("recovery" \in files => Mine)
             /\ Drops(todo, Tail(todo), 1)
  <2>1. OnCourse /\ todo[1] = name /\ todo # <<>> /\ Drops(todo, Tail(todo), 1)
    BY <1>2, NextStep DEF CleanupNames, RecNames
  <2>2. Found(todo, Mine, "recovery" \in files, flags = {})
    BY <2>1 DEF OnCourse, Mine
  <2> QED BY <1>1, <1>2, <2>1, <2>2 DEF Found, RecNames
<1>3. ASSUME NEW name \in RecNames, Step(name), Proceed, Smooth,
             kd' \in Slots, inst' \subseteq inst, files' \subseteq files,
             name = "rec_file" => "recovery" \notin files',
             name \in {"rec_begin", "rec_off"} => Mine', name # "rec_state"
      PROVE  DamonInv'
  <2>1. ASSUME todo' # <<>>
        PROVE  /\ todo'[1] # "rec_begin" /\ todo'[1] # "rec_off"
               /\ todo'[1] \in {"rec_state", "rec_slot"} => Mine'
               /\ todo'[1] = "gate_recovery" => "recovery" \notin files'
    BY <1>2, <1>3, <2>1, RecoverNext
  <2>2. Found(todo, Mine, "recovery" \in files, flags = {})'
    BY <1>2, <1>3, <2>1 DEF Found
  <2> QED BY <1>1, <1>2, <1>3, <2>2, LateGo DEF Proceed
<1>4. CASE Step("rec_begin") /\ Smooth /\ UNCHANGED <<kd, inst, files>>
           /\ IF "recovery" \in files THEN Proceed
              ELSE todo' = SubSeq(todo, Len(RecoverSteps) + 1, Len(todo))
  <2>1. "rec_begin" \in RecNames
    BY DEF RecNames
  <2>2. CASE "recovery" \in files /\ Proceed
    BY <1>1, <1>2, <1>3, <1>4, <2>1, <2>2 DEF Mine
  <2>3. CASE "recovery" \notin files /\ todo' = SubSeq(todo, Len(RecoverSteps) + 1, Len(todo))
    <3>1. /\ Drops(todo, todo', 6) /\ todo' # <<>>
          /\ todo'[1] \in {"gate_recovery", "restored"}
      BY <1>2, <1>4, <2>1, <2>3, NothingRecorded
    <3>2. Found(todo, Mine, "recovery" \in files, flags = {})'
      BY <1>2, <1>4, <2>1, <2>3, <3>1 DEF Found, RecNames
    <3>3. todo'[1] \notin Closings /\ 6 >= 1
      BY <3>1 DEF Closings
    <3> QED BY <1>1, <1>4, <2>1, <3>1, <3>2, <3>3, LateGo
  <2> QED BY <1>4, <2>2, <2>3
<1>5. CASE /\ Step("rec_state") /\ Smooth /\ UNCHANGED <<kd, inst, files>>
           /\ SkipTo(IF kd.own = "none" THEN "rec_instance"
                     ELSE IF kd.on THEN "rec_off" ELSE "rec_slot")
  <2>1. "rec_state" \in RecNames
    BY DEF RecNames
  <2>2. Mine /\ Mine' /\ flags' = {}
    BY <1>2, <1>5, <2>1 DEF Mine
  <2>3. PICK step \in {"rec_off", "rec_slot"} : SkipTo(step)
    BY <1>5, <2>2 DEF Mine
  <2>4. PICK d \in 1 .. Len(todo) : Drops(todo, todo', d) /\ todo' # <<>> /\ todo'[1] = step
    BY <1>5, <2>3, SkipDrops
  <2>5. Found(todo, Mine, "recovery" \in files, flags = {})'
    BY <2>2, <2>3, <2>4 DEF Found
  <2>6. todo'[1] \notin Closings /\ d >= 1
    BY <2>3, <2>4 DEF Closings
  <2> QED BY <1>1, <1>5, <2>1, <2>4, <2>5, <2>6, LateGo
<1>6. CASE /\ Step("rec_off") /\ UNCHANGED <<inst, files>>
           /\ IF Takes("off") THEN kd' = SlotAfter("off") /\ Proceed /\ Smooth
                              ELSE Fail /\ UNCHANGED kd
  <2>1. "rec_off" \in RecNames /\ "off" \in Writes
    BY DEF RecNames, Writes
  <2>2. SlotAfter("off") \in Slots /\ SlotAfter("off").own = kd.own
    BY <1>1, <2>1, SlotAfterOwn
  <2>3. CASE kd' = SlotAfter("off") /\ Proceed /\ Smooth
    BY <1>2, <1>3, <1>6, <2>1, <2>2, <2>3 DEF Mine
  <2>4. CASE Fail /\ UNCHANGED kd
    BY <1>1, <1>6, <2>4, StopTyped DEF Mine
  <2> QED BY <1>6, <2>3, <2>4
<1>7. CASE /\ Step("rec_slot") /\ UNCHANGED <<inst, files>>
           /\ IF Takes("release") THEN kd' = SlotAfter("release") /\ Proceed /\ Smooth
                                  ELSE Fail /\ UNCHANGED kd
  <2>1. "rec_slot" \in RecNames
    BY DEF RecNames
  <2>2. SlotAfter("release") \in Slots
    BY DEF SlotAfter, NoSlot, Slots
  <2>3. CASE kd' = SlotAfter("release") /\ Proceed /\ Smooth
    BY <1>3, <1>7, <2>1, <2>2, <2>3
  <2>4. CASE Fail /\ UNCHANGED kd
    BY <1>1, <1>7, <2>4, StopTyped DEF Mine
  <2> QED BY <1>7, <2>3, <2>4
<1>8. CASE /\ Step("rec_instance") /\ inst' = inst \ {sess} /\ Proceed /\ Smooth
           /\ UNCHANGED <<kd, files>>
  <2>1. "rec_instance" \in RecNames
    BY DEF RecNames
  <2> QED BY <1>1, <1>3, <1>8, <2>1
<1>9. CASE /\ Step("rec_file") /\ files' = files \ {"recovery"} /\ Proceed /\ Smooth
           /\ UNCHANGED <<kd, inst>>
  <2>1. "rec_file" \in RecNames
    BY DEF RecNames
  <2> QED BY <1>1, <1>3, <1>9, <2>1
<1> QED BY <1>4, <1>5, <1>6, <1>7, <1>8, <1>9 DEF Recover

-----------------------------------------------------------------------------
(* The world around the harness *)

(* A target that is quiet for a weaker reason is still not started. *)
LEMMA UnstartedMore ==
    ASSUME NEW w, NEW h, NEW g, NEW n, Unstarted(w, h, n), h => g PROVE Unstarted(w, g, n)
BY DEF Unstarted

(* A step of the kernel, of another party or of the target. *)
LEMMA OutsideInv ==
    ASSUME DamonInv, UNCHANGED <<inst, readers, todo, sess, flags, child, unwinding, report,
        session>>,
           Mine' = Mine, (tgt = "none")' = (tgt = "none"), Quiet => Quiet',
           tgt = "none" => progress' = progress,
           ("recovery" \in files)' = ("recovery" \in files),
           kd' \in Slots, tgt' \in TargetStates, files' \subseteq FileNames,
           progress' \in {"none", "idle", "running", "final"},
           faults' \in 0 .. MaxFaults, acts' \in 0 .. MaxForeign
    PROVE  DamonInv'
<1>1. UNCHANGED <<errors, failed, verdict, rungs, stable, active>>
  BY DEF report, session
<1>2. DamonTypeOK'
  BY <1>1 DEF DamonInv, DamonTypeOK, HostTypeOK
<1>3. GuardHolds' /\ Ends(todo)'
  <2>1. GuardHolds'
    BY DEF DamonInv, GuardHolds, Mine
  <2> QED BY <2>1 DEF DamonInv
<1>4. CASE AfterError
  <2>1. AfterError'
    BY <1>1, <1>4 DEF AfterError
  <2> QED BY <1>1, <1>2, <1>3, <2>1 DEF DamonInv
<1>5. CASE OnCourse
  <2>1. Separate'
    <3>1. /\ Lapses(todo, Mine, "slot", {"rel_slot"})
          /\ Lapses(todo, inst # {}, "mkdir", {"rel_instance"})
          /\ Lapses(todo, readers # {}, "capture", {"drain"})
          /\ Lapses(todo, tgt # "none", "spawn", {"reap", "terminate"})
      BY <1>5 DEF OnCourse, Separate, Mine
    <3>2. Lapses(todo', Mine', "slot", {"rel_slot"})
      BY <3>1
    <3>3. Lapses(todo', (inst # {})', "mkdir", {"rel_instance"})
      BY <3>1
    <3>4. Lapses(todo', (readers # {})', "capture", {"drain"})
      BY <3>1
    <3>5. Lapses(todo', (tgt # "none")', "spawn", {"reap", "terminate"})
      BY <3>1 DEF Lapses
    <3> QED BY <3>2, <3>3, <3>4, <3>5 DEF Separate, Mine
  <2>2. Remembered'
    BY <1>5 DEF OnCourse, Remembered, Mine
  <2>3. Owned(todo', Mine')
    BY <1>5 DEF OnCourse, Mine, Owned
  <2>4. Unstarted(todo', Quiet', (tgt = "none")')
    <3>1. Unstarted(todo, Quiet, tgt = "none")
      BY <1>5 DEF OnCourse, Quiet
    <3>2. Unstarted(todo, Quiet', tgt = "none")
      BY <3>1, UnstartedMore
    <3> QED BY <3>2
  <2>5. Begun(todo', Numbered')
    BY <1>5 DEF OnCourse, Numbered, Begun
  <2>6. Found(todo, Mine, "recovery" \in files, flags = {})'
    BY <1>5 DEF OnCourse, Mine, Found
  <2>7. Evidenced(todo)'
    <3>1. Evidenced(todo)
      BY <1>5 DEF OnCourse
    <3>2. CASE tgt = "none"
      BY <1>1, <3>1, <3>2 DEF Evidenced, Mine
    <3>3. CASE tgt # "none"
      <4>1. Has(todo, "ladder") \/ (Has(todo, "reap") /\ Has(todo, "fingerprint"))
        BY <3>1, <3>3 DEF Evidenced
      <4> QED BY <1>1, <3>1, <4>1 DEF Evidenced, Mine
    <3> QED BY <3>2, <3>3
  <2>8. Recovers(todo)' /\ Rests(todo)' /\ Gates(todo)' /\ errors' = {} /\ ~unwinding'
    BY <1>1, <1>5 DEF OnCourse
  <2>9. OnCourse'
    BY <2>1, <2>2, <2>3, <2>4, <2>5, <2>6, <2>7, <2>8 DEF OnCourse, Mine, Quiet, Numbered
  <2> QED BY <1>1, <1>2, <1>3, <2>9 DEF DamonInv
<1> QED BY <1>4, <1>5 DEF DamonInv

(* The kernel, another party and the target never disturb the invariant. *)
LEMMA WorldInv ==
    ASSUME DamonInv, DamonWorld PROVE DamonInv'
<1>1. /\ kd \in Slots /\ tgt \in TargetStates /\ files \subseteq FileNames
      /\ progress \in {"none", "idle", "running", "final"}
      /\ faults \in 0 .. MaxFaults /\ acts \in 0 .. MaxForeign
  BY DEF DamonInv, DamonTypeOK, HostTypeOK
<1>2. CASE KernelStops /\ UNCHANGED session
  <2>1. /\ UNCHANGED <<inst, readers, todo, sess, flags, child, unwinding, report, session>>
        /\ UNCHANGED <<tgt, files, progress, faults, acts>> /\ kd.own = "nemor"
        /\ kd' = [kd EXCEPT !.on = FALSE]
    BY <1>2 DEF KernelStops, process
  <2>2. kd' \in Slots /\ kd'.own = kd.own
    BY <1>1, <2>1 DEF Slots
  <2> QED BY <1>1, <2>1, <2>2, OutsideInv DEF Mine, Quiet
<1>3. CASE Foreign /\ UNCHANGED session
  <2>1. /\ UNCHANGED <<inst, readers, todo, sess, flags, child, unwinding, report, session>>
        /\ UNCHANGED <<tgt, files, progress, faults>> /\ acts < MaxForeign /\ acts' = acts + 1
    BY <1>3 DEF Foreign, process
  <2>2. kd' \in Slots /\ kd.own # "nemor" /\ kd'.own # "nemor"
    <3>1. CASE /\ kd.own = "none"
               /\ kd' \in [own : {"foreign"}, on : BOOLEAN, watch : {"other"}]
      BY <3>1 DEF Slots
    <3>2. CASE kd.own = "foreign" /\ kd' = [kd EXCEPT !.on = TRUE]
      BY <1>1, <3>2 DEF Slots
    <3>3. CASE kd.own = "foreign" /\ kd' = NoSlot
      BY <3>3 DEF Slots, NoSlot
    <3>4. CASE kd.own = "foreign" /\ kd' = [kd EXCEPT !.on = FALSE]
      BY <1>1, <3>4 DEF Slots
    <3> QED BY <1>3, <3>1, <3>2, <3>3, <3>4 DEF Foreign
  <2>3. acts' \in 0 .. MaxForeign
    BY <1>1, <2>1, HostBounds
  <2> QED BY <1>1, <2>1, <2>2, <2>3, OutsideInv DEF Mine, Quiet
<1>4. CASE TargetWorker
  <2>1. /\ UNCHANGED <<kernel, todo, sess, flags, child, unwinding, report, acts, session>>
        /\ faults' = faults
    BY <1>4 DEF TargetWorker, WorkerOnly
  <2>2. UNCHANGED <<kd, inst, readers>>
    BY <2>1 DEF kernel
  <2>3. /\ tgt # "none" /\ tgt' \in TargetStates \ {"none"}
        /\ files' \in {files, files \union {"target"}, files \union {"metadata"}}
        /\ progress' \in {progress, "idle", "running", "final"}
        /\ tgt' = "active" => "start" \in files /\ files' = files
    BY <1>4 DEF TargetWorker, TargetStep, TargetStates
  <2>4. files' \subseteq FileNames /\ ("recovery" \in files' <=> "recovery" \in files)
        /\ ("start" \in files' <=> "start" \in files)
    BY <1>1, <2>3 DEF FileNames, SignalFiles
  <2>5. Quiet => Quiet'
    BY <2>3, <2>4 DEF Quiet
  <2> QED BY <1>1, <2>1, <2>2, <2>3, <2>4, <2>5, OutsideInv DEF Mine
<1>5. CASE WorkerDies
  <2>1. /\ UNCHANGED <<kernel, todo, sess, flags, child, unwinding, report, acts, session>>
        /\ tgt # "none" /\ tgt' = "exited" /\ UNCHANGED <<files, progress>>
    BY <1>5 DEF WorkerDies, WorkerOnly, Running
  <2>2. UNCHANGED <<kd, inst, readers>>
    BY <2>1 DEF kernel
  <2>3. faults' \in 0 .. MaxFaults
    BY <1>1, <1>5, HostBounds DEF WorkerDies, Fault
  <2>4. tgt' \in TargetStates
    BY <2>1 DEF TargetStates
  <2> QED BY <1>1, <2>1, <2>2, <2>3, <2>4, OutsideInv DEF Mine, Quiet
<1> QED BY <1>2, <1>3, <1>4, <1>5 DEF DamonWorld

(* The steps of the harness. *)
LEMMA HarnessInv ==
    ASSUME DamonInv, DamonHarness PROVE DamonInv'
<1>1. CASE Host /\ UNCHANGED session
  BY <1>1, WriteInv, GuardStep, MakeInstanceInv, ReaderInv, LooksInv, DamonCleanupInv,
      DamonDropInv DEF Host
<1>2. CASE Inspect \/ LadderSize \/ ReadMetadata \/ Window \/ Restored
  BY <1>2, LooksInv
<1>3. CASE Ladder
  BY <1>3, LadderInv
<1>4. CASE SpawnSynthetic \/ AwaitTarget \/ SignalWorker \/ Reap \/ Terminate \/ Evidence
  BY <1>4, TargetsInv
<1>5. CASE \/ ActivityGate \/ SignalGate \/ OverheadGate \/ DatasetGate
           \/ Fingerprint \/ GateCleanup \/ GateRecovery
  BY <1>5, GatesInv
<1>6. CASE RunWorker \/ Record \/ WorkerExit \/ Recover \/ CloseDamon \/ ReportDamon
  BY <1>6, RunWorkerInv, RecordInv, WorkerExitInv, RecoverInv, DamonCloseInv, DamonReportInv
<1> QED BY <1>1, <1>2, <1>3, <1>4, <1>5, <1>6 DEF DamonHarness

(* It holds at the start. *)
LEMMA DamonStarts ==
    ASSUME DamonInit PROVE DamonInv
<1>1. /\ kd = NoSlot /\ inst = {} /\ readers = {} /\ tgt = "none" /\ files = {}
      /\ progress = "none" /\ sess = 0 /\ flags = {} /\ child = FALSE /\ unwinding = FALSE
      /\ errors = {} /\ failed = {} /\ verdict = "none" /\ faults = 0 /\ acts = 0
      /\ rungs \in 0 .. MaxRungs /\ stable = FALSE /\ active = FALSE
  BY DEF DamonInit, SessionInit
<1>2. todo = LadderProgram
  BY StartIs DEF DamonInit
<1>3. Planned(todo)
  BY <1>2, LadderPlanned
<1>4. ~Mine
  BY <1>1 DEF Mine, NoSlot
<1>5. Ends(todo) /\ Recovers(todo) /\ Rests(todo) /\ Gates(todo)
  BY <1>3 DEF Planned
<1>6. Separate
  <2>1. Lapses(todo, Mine, "slot", {"rel_slot"})
    BY <1>3, <1>4, LapsesFree DEF Planned
  <2>2. Lapses(todo, inst # {}, "mkdir", {"rel_instance"})
    BY <1>1, <1>3, LapsesFree DEF Planned
  <2>3. Lapses(todo, readers # {}, "capture", {"drain"})
    BY <1>1, <1>3, LapsesFree DEF Planned
  <2>4. Lapses(todo, tgt # "none", "spawn", {"reap", "terminate"})
    BY <1>1, <1>3, LapsesFree DEF Planned
  <2> QED BY <2>1, <2>2, <2>3, <2>4 DEF Separate, Mine
<1>7. Owned(todo, Mine) /\ Unstarted(todo, Quiet, tgt = "none") /\ Begun(todo, Numbered)
  BY <1>1, <1>3, OrderFree DEF Planned
<1>8. Remembered
  BY <1>1, <1>4 DEF Remembered, Mine
<1>9. todo[1] = "inspect" /\ todo[35] = "ladder" /\ Len(todo) = 37
  BY <1>2, LadderProgramSeq DEF LadderProgram
<1>10. Evidenced(todo)
  <2>1. Has(todo, "ladder")
    BY <1>9 DEF Has
  <2> QED BY <2>1 DEF Evidenced
<1>11. Found(todo, Mine, "recovery" \in files, flags = {})
  BY <1>9 DEF Found, RecNames
<1>12. OnCourse
  BY <1>1, <1>5, <1>6, <1>7, <1>8, <1>10, <1>11 DEF OnCourse, Mine, Quiet, Numbered
<1>13. GuardHolds
  BY <1>1, <1>9 DEF GuardHolds
<1>14. DamonTypeOK
  <2>1. kd \in Slots /\ tgt \in TargetStates
    BY <1>1 DEF NoSlot, Slots, TargetStates
  <2>2. faults \in 0 .. MaxFaults /\ acts \in 0 .. MaxForeign
    BY <1>1, HostBounds
  <2> QED BY <1>1, <2>1, <2>2 DEF DamonTypeOK, HostTypeOK
<1> QED BY <1>1, <1>5, <1>12, <1>13, <1>14 DEF DamonInv

(* Every step preserves it. *)
LEMMA DamonNextInv == DamonInv /\ [DamonNext]_damonVars => DamonInv'
<1> SUFFICES ASSUME DamonInv, [DamonNext]_damonVars PROVE DamonInv'
  OBVIOUS
<1>1. CASE DamonHarness
  BY <1>1, HarnessInv
<1>2. CASE DamonWorld
  BY <1>2, WorldInv
<1>3. CASE UNCHANGED damonVars
  <2>1. /\ UNCHANGED <<kd, inst, readers, tgt, files, progress, todo, sess, flags, child>>
        /\ UNCHANGED <<unwinding, report, session, faults, acts>>
    BY <1>3 DEF damonVars, host, kernel, process
  <2>2. /\ kd \in Slots /\ tgt \in TargetStates /\ files \subseteq FileNames
        /\ progress \in {"none", "idle", "running", "final"}
        /\ faults \in 0 .. MaxFaults /\ acts \in 0 .. MaxForeign
    BY DEF DamonInv, DamonTypeOK, HostTypeOK
  <2> QED BY <2>1, <2>2, OutsideInv DEF Mine, Quiet
<1> QED BY <1>1, <1>2, <1>3 DEF DamonNext

(* The steps ahead of validate_damon release what is held before the next  *)
(* session begins, in every state of a run that may fail anywhere.         *)
THEOREM DamonInvariant == DamonSpec => []DamonInv
<1>1. DamonInit => DamonInv
  BY DamonStarts
<1> QED BY <1>1, DamonNextInv, PTL DEF DamonSpec

(* Every variable keeps its type; trace instances and capture threads       *)
(* belong to sessions that have begun (validate_damon).                     *)
THEOREM DamonTypeCorrect == DamonSpec => []DamonTypeOK
<1>1. DamonInv => DamonTypeOK
  BY DEF DamonInv
<1> QED BY <1>1, DamonInvariant, PTL

(* When run_damon_probe, the final session or damon_crash_worker begins,   *)
(* nothing of the session before is left, whatever the target did.         *)
THEOREM SessionsSeparateHolds == DamonSpec => []SessionsSeparate
<1>1. DamonInv => SessionsSeparate
  <2> SUFFICES ASSUME DamonInv, todo # <<>>, Head(todo) \in {"nr_zero", "guard"}
               PROVE  ~Residue
    BY DEF SessionsSeparate
  <2>1. todo \in Seq(StepNames)
    BY DEF DamonInv, Ends
  <2>2. Head(todo) = todo[1] /\ 1 \in 1 .. Len(todo) /\ 1 .. 1 - 1 = {}
    BY <2>1, TailDrops
  <2>3. ~AfterError
    BY <2>2 DEF AfterError, CleanupNames
  <2>4. OnCourse
    BY <2>3 DEF DamonInv
  <2>5. /\ Lapses(todo, Mine, "slot", {"rel_slot"})
        /\ Lapses(todo, inst # {}, "mkdir", {"rel_instance"})
        /\ Lapses(todo, readers # {}, "capture", {"drain"})
        /\ Lapses(todo, tgt # "none", "spawn", {"reap", "terminate"})
    BY <2>4 DEF OnCourse, Separate, Mine
  <2>6. \A h, o, c : Lapses(todo, h, o, c) => ~h
    BY <2>2 DEF Lapses, Fresh
  <2>7. ~Mine /\ ~(inst # {}) /\ ~(readers # {}) /\ ~(tgt # "none")
    BY <2>5, <2>6
  <2> QED BY <2>7 DEF Residue, Mine
<1> QED BY <1>1, DamonInvariant, PTL

(* A monitored target begins its workload only after its kdamond was       *)
(* switched on: the START file is written behind that, and removed before  *)
(* the next target is spawned (spawn_synthetic_target).                    *)
THEOREM WorkloadAfterOnHolds == DamonSpec => []WorkloadAfterOn
<1>1. DamonInv => WorkloadAfterOn
  <2> SUFFICES ASSUME DamonInv, tgt = "active", Pending("on") PROVE Pending("terminate")
    BY DEF WorkloadAfterOn
  <2>1. todo \in Seq(StepNames) /\ DOMAIN todo = 1 .. Len(todo) /\ Len(todo) \in Nat
    BY DEF DamonInv, Ends
  <2>2. PICK i \in 1 .. Len(todo) : todo[i] = "on"
    BY <2>1 DEF Pending
  <2>3. ~AfterError
    BY <2>2 DEF AfterError, CleanupNames
  <2>4. Unstarted(todo, Quiet, tgt = "none") /\ ~Quiet /\ ~(tgt = "none")
    BY <2>3 DEF DamonInv, OnCourse, Quiet
  <2>5. \E j \in 1 .. i - 1 : \E m \in 1 .. j - 1 : todo[m] = "terminate"
    BY <2>2, <2>4 DEF Unstarted
  <2>6. PICK m \in 1 .. Len(todo) : todo[m] = "terminate"
    BY <2>1, <2>5
  <2> QED BY <2>1, <2>6 DEF Pending
<1> QED BY <1>1, DamonInvariant, PTL

(* validate_damon reports a pass only when nothing of it is left in the    *)
(* kernel, and its final target worked in all windows and wrote its        *)
(* fingerprints.                                                           *)
THEOREM DamonPassEarnedHolds == DamonSpec => []DamonPassEarned
<1>1. DamonInv => DamonPassEarned
  <2> SUFFICES ASSUME DamonInv, verdict = "pass"
               PROVE  ~Residue /\ progress = "final" /\ active
    BY DEF DamonPassEarned
  <2>1. errors = {} /\ failed = {} /\ todo = <<>> /\ readers = {} /\ OnCourse
    BY DEF DamonInv, AfterError
  <2>2. 1 .. Len(todo) = {}
    BY <2>1
  <2>3. \A name : ~Has(todo, name)
    BY <2>2 DEF Has
  <2>4. active /\ tgt = "none" /\ progress = "final" /\ inst = {} /\ kd.own # "nemor"
    BY <2>1, <2>3 DEF OnCourse, Evidenced
  <2> QED BY <2>1, <2>4 DEF Residue
<1> QED BY <1>1, DamonInvariant, PTL

-----------------------------------------------------------------------------
(* The kdamond of another party *)

\* It runs in the slot.
Occupied == kd.own = "foreign" /\ kd.on

(* What the kernel refuses, or leaves as it is. *)
LEMMA OccupiedRefuses ==
    ASSUME Occupied, NEW write \in Writes \union {"release"}, write # "off", Takes(write)
    PROVE  SlotAfter(write) = kd
BY DEF Occupied, Takes, SlotAfter, Writes

(* A release whose flag is not set leaves the slot alone. *)
LEMMA ReleasedKeeps ==
    ASSUME NEW flag, NEW taken, NEW slot, NEW instances,
           Released(flag, taken, slot, instances), flag \in flags /\ taken => slot = kd
    PROVE  kd' = kd
BY DEF Released, Remembers

(* No step of Nemor touches the slot while another party runs its kdamond. *)
LEMMA OccupiedKept ==
    ASSUME DamonInv, DamonNext, Occupied, acts' = acts PROVE kd' = kd
<1>1. ~Mine /\ "on" \notin flags /\ "slot" \notin flags
  BY DEF Occupied, DamonInv, GuardHolds, Mine
<1>2. ~Takes("release")
  BY DEF Occupied, Takes
<1>3. ASSUME NEW write \in Writes, WriteReadback(write) PROVE kd' = kd
  <2>1. CASE write = "off"
    <3>1. Step("off") /\ "off" \in SlotUsers
      BY <1>3, <2>1 DEF WriteReadback, SlotUsers
    <3>2. OnCourse
      BY <3>1, NextStep DEF CleanupNames
    <3> QED BY <1>1, <3>1, <3>2, UsersOwn
  <2>2. CASE write # "off"
    BY <1>3, <2>2, OccupiedRefuses DEF WriteReadback
  <2> QED BY <2>1, <2>2
<1>4. CASE Cleanup
  <2>1. CASE Released("on", Takes("off"), SlotAfter("off"), inst)
    BY <1>1, <2>1, ReleasedKeeps
  <2>2. CASE Released("slot", Takes("release"), SlotAfter("release"), inst)
    BY <1>1, <2>2, ReleasedKeeps
  <2>3. CASE Released("tracing", TRUE, kd, inst)
    BY <2>3, ReleasedKeeps
  <2>4. CASE Released("event", TRUE, kd, inst)
    BY <2>4, ReleasedKeeps
  <2>5. CASE Released("instance", sess \notin readers, kd, inst \ {sess})
    BY <2>5, ReleasedKeeps
  <2> QED BY <1>4, <2>1, <2>2, <2>3, <2>4, <2>5 DEF Cleanup
<1>5. CASE Host
  <2>1. CASE NewGuard \/ DetachCapture \/ KillChild
    BY <2>1 DEF NewGuard, DetachCapture, KillChild, kernel
  <2>2. CASE MakeInstance \/ StartCapture \/ DrainCapture
    BY <2>2 DEF MakeInstance, StartCapture, DrainCapture
  <2>3. CASE CheckNoSlot \/ AwaitStarted \/ ReadProgress \/ JudgeStep
    BY <2>3 DEF CheckNoSlot, AwaitStarted, ReadProgress, JudgeStep, Require, Judge, kernel
  <2> QED BY <1>3, <1>4, <1>5, <2>1, <2>2, <2>3 DEF Host
<1>6. CASE Recover
  <2>1. CASE Step("rec_off")
    <3>1. OnCourse /\ todo # <<>> /\ todo[1] = "rec_off"
      BY <2>1, NextStep DEF CleanupNames
    <3>2. Mine
      BY <3>1 DEF OnCourse, Found, Mine
    <3> QED BY <1>1, <3>2
  <2>2. CASE ~Step("rec_off")
    BY <1>2, <1>6, <2>2 DEF Recover
  <2> QED BY <2>1, <2>2
<1>7. CASE Inspect \/ LadderSize \/ ReadMetadata \/ Window \/ Restored
  BY <1>7 DEF Inspect, LadderSize, ReadMetadata, Window, Restored, Require, Judge, kernel
<1>8. CASE Ladder \/ Evidence \/ SpawnSynthetic \/ AwaitTarget \/ SignalWorker \/ Reap \/ Terminate
  BY <1>8 DEF Ladder, Evidence, SpawnSynthetic, AwaitTarget, SignalWorker, Reap, Terminate, kernel
<1>9. CASE \/ ActivityGate \/ SignalGate \/ OverheadGate \/ DatasetGate
           \/ Fingerprint \/ GateCleanup \/ GateRecovery
  BY <1>9 DEF ActivityGate, SignalGate, OverheadGate, DatasetGate, Fingerprint, GateCleanup,
              GateRecovery, Gate, Assess, kernel
<1>10. CASE RunWorker \/ Record \/ WorkerExit \/ CloseDamon \/ ReportDamon
  BY <1>10 DEF RunWorker, Record, WorkerExit, CloseDamon, CloseScope, ReportDamon, Conclude, kernel
<1>11. CASE DamonWorld
  <2>1. ~KernelStops
    BY <1>1 DEF KernelStops, Mine
  <2>2. ~Foreign
    BY DEF Foreign, DamonInv, DamonTypeOK, HostTypeOK
  <2> QED BY <1>11, <2>1, <2>2 DEF DamonWorld, TargetWorker, WorkerDies, WorkerOnly, kernel
<1> QED BY <1>5, <1>6, <1>7, <1>8, <1>9, <1>10, <1>11 DEF DamonNext, DamonHarness

(* Neither a probe nor a session, a guard or recover_damon_crash stops or   *)
(* takes away the kdamond that another party runs.                          *)
THEOREM ForeignKeptHolds == DamonSpec => ForeignKept
<1>1. DamonInv /\ [DamonNext]_damonVars
        => [kd.own = "foreign" /\ kd.on /\ acts' = acts => kd' = kd]_host
  <2>1. UNCHANGED damonVars => UNCHANGED host
    BY DEF damonVars
  <2> QED BY <2>1, OccupiedKept DEF Occupied
<1> QED BY <1>1, DamonInvariant, PTL DEF DamonSpec, ForeignKept
=============================================================================
