------------------------ MODULE BootLifecycleProofs ------------------------
(***************************************************************************)
(* Proofs about BootLifecycle, for each of the contracts and any number of *)
(* reboots, deaths and faults: type correctness, that every change of the  *)
(* machine was announced, that evidence is filed before it is named and    *)
(* before the first boot artifact, that stages only move along the         *)
(* transition table; and, also when operator and unit run at once, that    *)
(* the selected entry can be booted, that a finished transaction has left  *)
(* nothing behind, and that files are removed only once it is safe.        *)
(***************************************************************************)
EXTENDS BootLifecycle, SequenceTheorems, TLAPS
-----------------------------------------------------------------------------
(* Soundness of programs.  A step that changes the machine for good comes    *)
(* right behind the save of its intent, a save that names a document right   *)
(* behind the creation of that document, and no step that is skipped to is   *)
(* one of those.  Soundness is kept by concatenation, so that each program   *)
(* is sound because its short pieces are.                                    *)

\* Where a step that fails may lead.
Landings == {"abort", "skip", "fail", "activation", "undo_swapfile",
             "undo_entry", "undo_unit", "undo_all"}

\* The operations that change the machine for the next boot or for its swap.
Announceable ==
    {op \in Ops : \/ op.act = "create"
                  \/ op.act = "oneshot" /\ op.on # "none"
                  \/ op.act = "swap" /\ op.on = "on"}

\* A well-formed step of a program that creates no file outside made.
Legit(s, made) ==
    /\ s.op \in Ops \cup {NoOp} /\ s.done \in BOOLEAN /\ s.uuid \in BOOLEAN
    /\ s.n \in Nat /\ s.fail \in Landings
    /\ s.k = "save" => s.ev \in Documents \cup {""} /\ s.fail = "abort"
    /\ s.k = "put" => s.ev \in Documents /\ s.fail = "abort"
    /\ s.k = "do" => s.op \in Ops /\ (s.op.act = "create" => s.op.on \in made)

Needs(s) == \/ s.k = "do" /\ s.op \in Announceable
            \/ s.k = "save" /\ s.ev # ""

Prepares(r, s) == \/ s.k = "do" /\ r.k = "save" /\ r.op = s.op
                  \/ s.k = "save" /\ r.k = "put" /\ r.ev = s.ev

\* A step that may stand anywhere, and one that may stand behind r.
Calm(s, made) == Legit(s, made) /\ ~Needs(s) /\ s.n = 0
Follows(r, s, made) == Legit(s, made) /\ s.n = 0 /\ (Needs(s) => Prepares(r, s))

\* A program with which more steps may follow that its last skip passes over.
Sound(prog, more, made) ==
    /\ \E S : prog \in Seq(S)
    /\ prog # <<>>
    /\ \A i \in 1..Len(prog) :
          /\ Legit(prog[i], made)
          /\ Needs(prog[i]) => i > 1 /\ Prepares(prog[i - 1], prog[i])
          /\ prog[i].fail = "skip" =>
                \/ i + prog[i].n = Len(prog) + more
                \/ /\ i + prog[i].n <= Len(prog)
                   /\ i + prog[i].n < Len(prog) => ~Needs(prog[i + 1 + prog[i].n])

Stands(prog, made) == Sound(prog, 0, made)

\* One program behind another; the skips of the first end within it, or
\* behind the second.
LEMMA Concat ==
    ASSUME NEW s, NEW t, NEW made, Stands(t, made),
           Stands(s, made) \/ Sound(s, Len(t), made)
    PROVE  Stands(s \o t, made)
<1> DEFINE u == s \o t
<1>0. PICK S, T : s \in Seq(S) /\ t \in Seq(T) BY DEF Stands, Sound
<1>1. /\ u \in Seq(S \cup T)
      /\ Len(u) = Len(s) + Len(t) /\ Len(s) \in Nat /\ Len(t) \in Nat /\ Len(s) > 0 /\ Len(t) > 0
  <2>1. s \in Seq(S \cup T) /\ t \in Seq(S \cup T) BY <1>0
  <2>2. s # <<>> /\ t # <<>> BY DEF Stands, Sound
  <2> QED BY <2>1, <2>2, <1>0
<1>2. /\ \A i \in 1..Len(s) : u[i] = s[i]
      /\ \A i \in 1..Len(t) : u[Len(s) + i] = t[i]
  BY <1>0
<1>3. u # <<>> BY <1>1
<1>5. /\ \A i \in 1..Len(s) : s[i].n \in Nat
      /\ \A i \in 1..Len(t) : t[i].n \in Nat
  BY DEF Stands, Sound, Legit
<1> HIDE DEF u
<1>4. ASSUME NEW i \in 1..Len(u)
      PROVE  /\ Legit(u[i], made)
             /\ Needs(u[i]) => i > 1 /\ Prepares(u[i - 1], u[i])
             /\ u[i].fail = "skip" =>
                   /\ i + u[i].n <= Len(u)
                   /\ i + u[i].n < Len(u) => ~Needs(u[i + 1 + u[i].n])
  <2>1. CASE i \in 1..Len(s)
    <3>1. PICK m \in Nat : u[i] = s[i] /\ s[i].n = m BY <2>1, <1>2, <1>5
    <3>2. Legit(u[i], made) BY <3>1, <2>1 DEF Stands, Sound
    <3>3. ASSUME Needs(u[i]) PROVE i > 1 /\ Prepares(u[i - 1], u[i])
      <4>1. i > 1 /\ Prepares(s[i - 1], s[i]) BY <3>1, <3>3, <2>1 DEF Stands, Sound
      <4>2. u[i - 1] = s[i - 1] BY <4>1, <2>1, <1>2
      <4> QED BY <4>1, <4>2, <3>1
    <3>4. ASSUME u[i].fail = "skip"
          PROVE  /\ i + u[i].n <= Len(u)
                 /\ i + u[i].n < Len(u) => ~Needs(u[i + 1 + u[i].n])
      <4>1. \/ i + m = Len(s) + Len(t)
            \/ /\ i + m <= Len(s)
               /\ i + m < Len(s) => ~Needs(s[i + 1 + m])
        <5>1. s[i].fail = "skip" BY <3>1, <3>4
        <5>2. PICK k \in {0, Len(t)} :
                 \/ i + m = Len(s) + k
                 \/ /\ i + m <= Len(s)
                    /\ i + m < Len(s) => ~Needs(s[i + 1 + m])
          BY <5>1, <3>1, <2>1 DEF Stands, Sound
        <5>3. Len(s) + 0 = Len(s) /\ i \in Nat /\ Len(s) \in Nat /\ m \in Nat
          BY <1>1, <2>1, <3>1
        <5>4. CASE k = Len(t) BY <5>2, <5>4
        <5>5. CASE k = 0
          <6>1. CASE i + m = Len(s) BY <6>1, <5>3
          <6>2. CASE /\ i + m <= Len(s)
                     /\ i + m < Len(s) => ~Needs(s[i + 1 + m])
            BY <6>2
          <6> QED BY <5>2, <5>3, <5>5, <6>1, <6>2
        <5> QED BY <5>4, <5>5
      <4>2. CASE i + m < Len(s)
        <5>1. u[i + 1 + m] = s[i + 1 + m] BY <4>2, <1>2, <3>1, <2>1, <1>1
        <5> QED BY <4>1, <4>2, <5>1, <3>1, <1>1
      <4>3. CASE i + m = Len(s)
        <5>0. i + 1 + m = Len(s) + 1 /\ 1 \in 1..Len(t) BY <4>3, <3>1, <1>1
        <5>1. u[i + 1 + m] = t[1] BY <5>0, <1>2
        <5>2. ~Needs(t[1]) BY <1>1 DEF Stands, Sound
        <5> QED BY <4>1, <4>3, <5>1, <5>2, <3>1, <1>1
      <4>4. CASE i + m = Len(s) + Len(t) BY <4>4, <3>1, <1>1
      <4> QED BY <4>1, <4>2, <4>3, <4>4, <3>1, <2>1, <1>1
    <3> QED BY <3>2, <3>3, <3>4
  <2>2. CASE i \notin 1..Len(s)
    <3> DEFINE j == i - Len(s)
    <3>0. j \in 1..Len(t) /\ i = Len(s) + j BY <2>2, <1>1
    <3> HIDE DEF j
    <3>1. PICK m \in Nat : u[i] = t[j] /\ t[j].n = m BY <3>0, <1>2, <1>5
    <3>2. Legit(u[i], made) BY <3>1, <3>0 DEF Stands, Sound
    <3>3. ASSUME Needs(u[i]) PROVE i > 1 /\ Prepares(u[i - 1], u[i])
      <4>1. j > 1 /\ Prepares(t[j - 1], t[j]) BY <3>1, <3>3, <3>0 DEF Stands, Sound
      <4>2. u[i - 1] = t[j - 1]
        <5>1. i - 1 = Len(s) + (j - 1) /\ j - 1 \in 1..Len(t) BY <4>1, <3>0, <1>1
        <5> QED BY <5>1, <1>2
      <4> QED BY <4>1, <4>2, <3>1, <3>0, <1>1
    <3>4. ASSUME u[i].fail = "skip"
          PROVE  /\ i + u[i].n <= Len(u)
                 /\ i + u[i].n < Len(u) => ~Needs(u[i + 1 + u[i].n])
      <4>1. /\ j + m <= Len(t)
            /\ j + m < Len(t) => ~Needs(t[j + 1 + m])
        BY <3>1, <3>4, <3>0 DEF Stands, Sound
      <4>2. CASE j + m < Len(t)
        <5>1. i + 1 + m = Len(s) + (j + 1 + m) /\ j + 1 + m \in 1..Len(t)
          BY <4>2, <3>0, <3>1, <1>1
        <5>2. u[Len(s) + (j + 1 + m)] = t[j + 1 + m] BY <5>1, <1>2
        <5>3. ~Needs(u[i + 1 + m]) BY <4>1, <4>2, <5>1, <5>2
        <5> QED BY <4>1, <5>3, <3>0, <3>1, <1>1
      <4> QED BY <4>1, <4>2, <3>0, <3>1, <1>1
    <3> QED BY <3>2, <3>3, <3>4
  <2> QED BY <2>1, <2>2
<1> QED BY <1>1, <1>3, <1>4 DEF Stands, Sound, u

\* A program without a skip over other steps.
LEMMA Straight ==
    ASSUME NEW S, NEW prog \in Seq(S), prog # <<>>, NEW made, Calm(prog[1], made),
           \A i \in 1..Len(prog) :
              i > 1 => Follows(prog[i - 1], prog[i], made)
    PROVE  Stands(prog, made)
<1>1. ASSUME NEW i \in 1..Len(prog)
      PROVE  /\ Legit(prog[i], made) /\ prog[i].n = 0
             /\ Needs(prog[i]) => i > 1 /\ Prepares(prog[i - 1], prog[i])
             /\ prog[i].fail = "skip" /\ i < Len(prog) => ~Needs(prog[i + 1])
  <2>1. Legit(prog[i], made) /\ prog[i].n = 0
        /\ (Needs(prog[i]) => i > 1 /\ Prepares(prog[i - 1], prog[i]))
    BY DEF Calm, Follows
  <2>2. ASSUME i < Len(prog), Needs(prog[i + 1]) PROVE prog[i].fail # "skip"
    <3>1. i + 1 \in 1..Len(prog) /\ (i + 1) - 1 = i /\ i + 1 > 1 BY <2>2
    <3>2. Prepares(prog[i], prog[i + 1]) BY <3>1, <2>2 DEF Follows
    <3> QED BY <3>2, <2>1 DEF Prepares, Legit
  <2> QED BY <2>1, <2>2
<1> QED BY <1>1 DEF Stands, Sound

\* A step that may stand anywhere may stand behind any other.
LEMMA Behind ==
    ASSUME NEW made, NEW r, NEW s, Calm(s, made) PROVE Follows(r, s, made)
BY DEF Calm, Follows

\* A program of one step.
LEMMA One ==
    ASSUME NEW a, NEW made,
           Calm(a, made)
    PROVE  Stands(<<a>>, made)
<1> DEFINE P == <<a>>
<1>1. P \in Seq({a}) /\ P # <<>> /\ Len(P) = 1 /\ P[1] = a
  OBVIOUS
<1> HIDE DEF P
<1>2. Stands(P, made) BY <1>1, Straight
<1> QED BY <1>2 DEF P

\* A program of two steps.
LEMMA Two ==
    ASSUME NEW a, NEW b, NEW made,
           Calm(a, made), Follows(a, b, made)
    PROVE  Stands(<<a, b>>, made)
<1> DEFINE P == <<a, b>>
<1>1. P \in Seq({a, b}) /\ P # <<>> /\ Len(P) = 2 /\ P[1] = a /\ P[2] = b
  OBVIOUS
<1> HIDE DEF P
<1>2. \A i \in 1..Len(P) : i > 1 => Follows(P[i - 1], P[i], made) BY <1>1
<1>3. Calm(P[1], made) BY <1>1
<1>4. Stands(P, made) BY <1>1, <1>2, <1>3, Straight
<1> QED BY <1>4 DEF P

\* A program of three steps.
LEMMA Three ==
    ASSUME NEW a, NEW b, NEW c, NEW made,
           Calm(a, made), Follows(a, b, made), Follows(b, c, made)
    PROVE  Stands(<<a, b, c>>, made)
<1> DEFINE P == <<a, b, c>>
<1>1. P \in Seq({a, b, c}) /\ P # <<>> /\ Len(P) = 3 /\ P[1] = a /\ P[2] = b /\ P[3] = c
  OBVIOUS
<1> HIDE DEF P
<1>2. \A i \in 1..Len(P) : i > 1 => Follows(P[i - 1], P[i], made) BY <1>1
<1>3. Calm(P[1], made) BY <1>1
<1>4. Stands(P, made) BY <1>1, <1>2, <1>3, Straight
<1> QED BY <1>4 DEF P

\* A program of four steps.
LEMMA Four ==
    ASSUME NEW a, NEW b, NEW c, NEW d, NEW made,
           Calm(a, made), Follows(a, b, made), Follows(b, c, made), Follows(c, d, made)
    PROVE  Stands(<<a, b, c, d>>, made)
<1> DEFINE P == <<a, b, c, d>>
<1>1. P \in Seq({a, b, c, d}) /\ P # <<>> /\ Len(P) = 4 /\ P[1] = a /\ P[2] = b /\ P[3] = c /\ P[4] = d
  OBVIOUS
<1> HIDE DEF P
<1>2. \A i \in 1..Len(P) : i > 1 => Follows(P[i - 1], P[i], made) BY <1>1
<1>3. Calm(P[1], made) BY <1>1
<1>4. Stands(P, made) BY <1>1, <1>2, <1>3, Straight
<1> QED BY <1>4 DEF P

\* A program of five steps.
LEMMA Five ==
    ASSUME NEW a, NEW b, NEW c, NEW d, NEW e, NEW made,
           Calm(a, made), Follows(a, b, made), Follows(b, c, made), Follows(c, d, made), Follows(d, e, made)
    PROVE  Stands(<<a, b, c, d, e>>, made)
<1> DEFINE P == <<a, b, c, d, e>>
<1>1. P \in Seq({a, b, c, d, e}) /\ P # <<>> /\ Len(P) = 5 /\ P[1] = a /\ P[2] = b /\ P[3] = c /\ P[4] = d /\ P[5] = e
  OBVIOUS
<1> HIDE DEF P
<1>2. \A i \in 1..Len(P) : i > 1 => Follows(P[i - 1], P[i], made) BY <1>1
<1>3. Calm(P[1], made) BY <1>1
<1>4. Stands(P, made) BY <1>1, <1>2, <1>3, Straight
<1> QED BY <1>4 DEF P

\* A step that skips the more steps behind it, alone or behind its intent.
LEMMA Skip ==
    ASSUME NEW a, NEW b, NEW made, NEW more \in Nat, b.n = more,
           Calm(a, made), Legit(b, made), Needs(b) => Prepares(a, b)
    PROVE  /\ ~Needs(b) => Sound(<<b>>, more, made)
           /\ Sound(<<a, b>>, more, made)
<1>1. ASSUME ~Needs(b) PROVE Sound(<<b>>, more, made)
  <2> DEFINE P == <<b>>
  <2>1. P \in Seq({b}) /\ P # <<>> /\ Len(P) = 1 /\ P[1] = b OBVIOUS
  <2> HIDE DEF P
  <2>2. Sound(P, more, made) BY <2>1, <1>1 DEF Sound
  <2> QED BY <2>2 DEF P
<1>2. Sound(<<a, b>>, more, made)
  <2> DEFINE P == <<a, b>>
  <2>1. P \in Seq({a, b}) /\ P # <<>> /\ Len(P) = 2 /\ P[1] = a /\ P[2] = b
    OBVIOUS
  <2> HIDE DEF P
  <2>2. ASSUME NEW i \in 1..2
        PROVE  /\ Legit(P[i], made)
               /\ Needs(P[i]) => i > 1 /\ Prepares(P[i - 1], P[i])
               /\ P[i].fail = "skip" =>
                     \/ i + P[i].n = 2 + more
                     \/ i + P[i].n <= 2 /\ (i + P[i].n < 2 => ~Needs(P[i + 1 + P[i].n]))
    <3>1. CASE i = 1
      <4>1. a.fail = "skip" => ~Needs(b) BY DEF Calm, Legit, Prepares
      <4> QED BY <4>1, <3>1, <2>1 DEF Calm
    <3>2. CASE i = 2 BY <3>2, <2>1
    <3> QED BY <3>1, <3>2
  <2>3. Sound(P, more, made) BY <2>1, <2>2 DEF Sound
  <2> QED BY <2>3 DEF P
<1> QED BY <1>1, <1>2

-----------------------------------------------------------------------------
(* The steps and the programs. *)

\* The operations the programs name are those that mutation records can hold.
LEMMA OpsIn ==
    /\ \A x \in Owned : Op("create", x) \in Ops /\ Op("remove", x) \in Ops
    /\ \A e \in {"experimental", "baseline", "none"} : Op("oneshot", e) \in Ops
    /\ \A z \in {"off", "parameters", "on"} : Op("zswap", z) \in Ops
    /\ \A s \in {"on", "off"} : Op("swap", s) \in Ops
BY DEF Ops

\* The parts of an operation.
LEMMA OpParts == \A act, on : Op(act, on).act = act /\ Op(act, on).on = on
BY DEF Op

\* A step without an operation is not mistaken for one with.
LEMMA NoOpApart == NoOp \notin Ops /\ NoOp.act = "none"
<1>1. NoOp.act = "none" BY OpParts DEF NoOp
<1>2. ASSUME NEW op \in Ops PROVE op.act # "none"
  <2>1. CASE \E act \in {"create", "remove"}, x \in Owned : op = Op(act, x)
    BY <2>1, OpParts
  <2>2. CASE \E act \in {"oneshot", "zswap", "swap"} : \E x : op = Op(act, x)
    BY <2>2, OpParts
  <2> QED BY <2>1, <2>2 DEF Ops
<1> QED BY <1>1, <1>2

\* The steps that need nothing before them.
LEMMA Calms ==
    ASSUME NEW made
    PROVE  /\ Calm(Plain, made) /\ Calm(Done, made) /\ Calm(SwapUuid, made)
           /\ Calm(FailTransaction, made) /\ Calm(Seal, made) /\ Calm(Return, made)
           /\ \A s : Calm(To(s), made) /\ Calm(DoneTo(s), made)
           /\ \A op \in Ops : Calm(Intend(op), made)
           /\ \A s : \A op \in Ops : Calm(ToIntend(s, op), made)
           /\ \A d \in Documents : Calm(Put(d), made)
           /\ \A w : \A f \in Landings : Calm(Check(w, f), made)
           /\ \A op \in Ops \ Announceable : \A f \in Landings : Calm(Do(op, f), made)
           /\ \A op \in Ops \ Announceable : Calm(Try(op, 0), made)
<1> USE DEF Calm, Legit, Needs, Plain
<1>0. NoOp \in Ops \cup {NoOp} /\ {"abort", "skip"} \subseteq Landings /\ "" \in Documents \cup {""} BY DEF Landings
<1>1. Calm(Plain, made) /\ Calm(Done, made) /\ Calm(SwapUuid, made)
  BY <1>0 DEF Done, SwapUuid
<1>2. Calm(FailTransaction, made) /\ Calm(Seal, made) /\ Calm(Return, made)
  BY <1>0 DEF FailTransaction, Seal, Return
<1>3. ASSUME NEW s PROVE Calm(To(s), made) /\ Calm(DoneTo(s), made)
  BY <1>0 DEF To, DoneTo
<1>4. ASSUME NEW op \in Ops PROVE Calm(Intend(op), made) /\ \A s : Calm(ToIntend(s, op), made)
  BY <1>0 DEF Intend, ToIntend
<1>5. ASSUME NEW d \in Documents PROVE Calm(Put(d), made)
  BY <1>0 DEF Put
<1>6. ASSUME NEW w, NEW f \in Landings PROVE Calm(Check(w, f), made)
  BY <1>0 DEF Check
<1>7. ASSUME NEW op \in Ops \ Announceable, NEW f \in Landings PROVE Calm(Do(op, f), made) /\ Calm(Try(op, 0), made)
  <2>1. op.act # "create" BY DEF Announceable
  <2> QED BY <1>0, <2>1 DEF Do, Try
<1> HIDE DEF Calm, Legit, Needs, Plain
<1> QED BY <1>0, <1>1, <1>2, <1>3, <1>4, <1>5, <1>6, <1>7

\* The steps that need something before them, behind what they need.
LEMMA Pairs ==
    ASSUME NEW made
    PROVE  /\ \A d \in Documents : \A s : /\ Follows(Put(d), NoteTo(d, s), made)
                                          /\ Follows(Put(d), DoneNoteTo(d, s), made)
           /\ \A op \in Ops : \A f \in Landings : (op.act = "create" => op.on \in made) =>
                 /\ Follows(Intend(op), Do(op, f), made)
                 /\ \A s : Follows(ToIntend(s, op), Do(op, f), made)
<1> USE DEF Follows, Legit, Prepares, Plain
<1>0. NoOp \in Ops \cup {NoOp} /\ {"abort", "skip"} \subseteq Landings BY DEF Landings
<1>1. ASSUME NEW d \in Documents, NEW s
      PROVE  /\ Follows(Put(d), NoteTo(d, s), made)
             /\ Follows(Put(d), DoneNoteTo(d, s), made)
  BY <1>0 DEF Put, NoteTo, DoneNoteTo
<1>2. ASSUME NEW op \in Ops, NEW f \in Landings, op.act = "create" => op.on \in made
      PROVE  /\ Follows(Intend(op), Do(op, f), made)
             /\ \A s : Follows(ToIntend(s, op), Do(op, f), made)
  BY <1>0, <1>2 DEF Do, Intend, ToIntend
<1> QED BY <1>1, <1>2

\* The two ways of skipping.
LEMMA OptionallyStands ==
    ASSUME NEW made, NEW what, NEW t, Stands(t, made)
    PROVE  Stands(Optionally(what, t), made)
<1> DEFINE b == Unless(what, Len(t))
<1>1. Len(t) \in Nat BY DEF Stands, Sound
<1>2. NoOp \in Ops \cup {NoOp} /\ "skip" \in Landings BY DEF Landings
<1>3. Legit(b, made) /\ ~Needs(b) /\ b.n = Len(t)
  BY <1>1, <1>2 DEF Unless, Legit, Needs, Plain
<1> HIDE DEF b
<1>4. Sound(<<b>>, Len(t), made) BY <1>1, <1>3, Calms, Skip
<1>5. Stands(<<b>> \o t, made) BY <1>4, Concat
<1> QED BY <1>5 DEF Optionally, b

\* An operation that may fail without consequence, in front of the steps that
\* are taken only when it succeeds.
LEMMA AttemptStands ==
    ASSUME NEW made, NEW op \in Ops, op.act # "create", NEW t, Stands(t, made)
    PROVE  Stands(Attempt(op, t), made)
<1> DEFINE a == Intend(op)  b == Try(op, Len(t))
<1>1. Len(t) \in Nat BY DEF Stands, Sound
<1>2. op \in Ops \cup {NoOp} /\ "skip" \in Landings BY DEF Landings
<1>3. Legit(b, made) /\ Prepares(a, b) /\ b.n = Len(t)
  BY <1>1, <1>2 DEF Intend, Try, Legit, Prepares, Plain
<1>4. Calm(a, made) BY Calms
<1> HIDE DEF a, b
<1>5. Sound(<<a, b>>, Len(t), made) BY <1>1, <1>3, <1>4, Skip
<1>6. Stands(<<a, b>> \o t, made) BY <1>5, Concat
<1> QED BY <1>6 DEF Attempt, a, b

\* Membership of the literals the programs are written with.
LEMMA Literals ==
    /\ {"abort", "skip", "fail", "activation", "undo_swapfile", "undo_entry",
        "undo_unit", "undo_all"} \subseteq Landings
    /\ {"root", "manifest", "preflight", "apply", "oneshot", "activation", "postboot",
        "restore", "authority", "recovery", "zram-v2", "zram-v4"} \subseteq Documents
    /\ {"entry", "unit", "helper", "swapfile"} \subseteq Owned
    /\ \A x : Op("remove", x) \notin Announceable /\ Op("zswap", x) \notin Announceable
    /\ Op("oneshot", "none") \notin Announceable /\ Op("swap", "off") \notin Announceable
BY OpParts DEF Landings, Documents, Owned, Announceable

\* The pieces that several programs share.
LEMMA BeginStand ==
    ASSUME NEW made
    PROVE  Stands(TransactionFirst, made) /\ Stands(ManifestFirst, made) /\ Stands(Preflighted, made)
<1>1. /\ \A d \in Documents : Calm(Put(d), made)
      /\ Calm(Plain, made)
      /\ \A d \in Documents : \A s : Follows(Put(d), NoteTo(d, s), made)
  BY Calms, Pairs
<1>2. {"root", "manifest", "preflight"} \subseteq Documents BY Literals
<1>3. Stands(TransactionFirst, made) BY <1>1, <1>2, Behind, Three DEF TransactionFirst
<1>4. Stands(ManifestFirst, made) BY <1>1, <1>2, Behind, Three DEF ManifestFirst
<1>5. Stands(Preflighted, made) BY <1>1, <1>2, Two DEF Preflighted
<1> QED BY <1>3, <1>4, <1>5

\* The creation of a file that Nemor owns: intent, creation, completion.
LEMMA CreatingStands ==
    ASSUME NEW made, NEW x \in Owned, x \in made, NEW f \in Landings
    PROVE  Stands(Creating(x, f), made)
<1>1. Op("create", x) \in Ops BY OpsIn
<1>2. Calm(Intend(Op("create", x)), made) /\ Calm(Done, made) BY <1>1, Calms
<1>3. Follows(Intend(Op("create", x)), Do(Op("create", x), f), made) BY <1>1, Pairs, OpParts
<1> QED BY <1>2, <1>3, Behind, Three DEF Creating

\* The creation of the swapfile, whose UUID is noted afterwards.
LEMMA CreatingSwapfileStands ==
    ASSUME NEW made, "swapfile" \in made PROVE Stands(CreatingSwapfile, made)
<1> DEFINE op == Op("create", "swapfile")
<1>1. op \in Ops /\ {"fail", "undo_swapfile"} \subseteq Landings BY OpsIn, Literals
<1>2. Calm(Intend(op), made) /\ Calm(Done, made) /\ Calm(SwapUuid, made)
      /\ Calm(Check("identity", "undo_swapfile"), made)
  BY <1>1, Calms
<1>3. Follows(Intend(op), Do(op, "fail"), made) BY <1>1, Pairs, OpParts
<1> QED BY <1>2, <1>3, Behind, Five DEF CreatingSwapfile

\* The removals, each behind its intent.
LEMMA RemovingStands ==
    ASSUME NEW made, NEW x \in Owned
    PROVE  Stands(Removing(x), made) /\ Stands(RemovingExact(x), made)
<1> DEFINE op == Op("remove", x)
<1>1. op \in Ops /\ op \notin Announceable /\ {"fail", "abort"} \subseteq Landings
  BY OpsIn, Literals
<1>2. Calm(Intend(op), made) /\ Calm(Done, made)
      /\ Calm(Do(op, "fail"), made) /\ Calm(Do(op, "abort"), made)
  BY <1>1, Calms
<1>3. Stands(Removing(x), made) BY <1>2, Behind, Three DEF Removing
<1>4. Stands(<<Intend(op), Do(op, "abort"), Done>>, made) BY <1>2, Behind, Three
<1> QED BY <1>3, <1>4, OptionallyStands DEF RemovingExact

\* The first command.
LEMMA StageStands ==
    ASSUME NEW made, "helper" \in made PROVE Stands(StageAndMeasure, made)
<1> DEFINE op == Op("create", "helper")
<1>1. op \in Ops /\ "fail" \in Landings BY OpsIn, Literals
<1>2. Calm(Intend(op), made) /\ Calm(Done, made) /\ Calm(To("BaselineMeasuring"), made)
      /\ Calm(BoundedWorkload, made)
  BY <1>1, Calms DEF BoundedWorkload
<1>3. Follows(Intend(op), Do(op, "fail"), made) BY <1>1, Pairs, OpParts
<1> QED BY <1>2, <1>3, Behind, Five DEF StageAndMeasure

\* initialize_and_measure_baseline of each contract.
LEMMA MeasureStands ==
    ASSUME NEW made, "helper" \in made
    PROVE  Stands(MeasureStepsV3, made) /\ Stands(MeasureStepsV6, made)
<1>2. ASSUME NEW d \in Documents
      PROVE  Stands(<<Put(d), NoteTo(d, "BaselineMeasured")>>, made)
  BY Calms, Pairs, Two
<1>3. "zram-v2" \in Documents /\ "zram-v4" \in Documents BY Literals
<1>4. Stands(MeasureStepsV3, made) BY <1>2, <1>3, StageStands, BeginStand, Concat DEF MeasureStepsV3
<1>5. Stands(MeasureStepsV6, made) BY <1>2, <1>3, StageStands, BeginStand, Concat DEF MeasureStepsV6
<1> QED BY <1>4, <1>5

\* apply_exact_transaction of each contract.
LEMMA ApplyStands ==
    /\ Stands(ApplyStepsV2, Owned) /\ Stands(ApplyStepsV3, Owned)
<1>1. Stands(<<To("Applying")>>, Owned) BY Calms, One
<1>2. Stands(CreatingSwapfile, Owned) BY Literals, CreatingSwapfileStands
<1>3. Stands(Creating("entry", "undo_entry"), Owned) /\ Stands(Creating("unit", "undo_unit"), Owned)
  BY Literals, CreatingStands
<1>4. Stands(<<Check("settings", "undo_all"), To("Applied")>>, Owned)
  BY Literals, Calms, Behind, Two
<1>5. Stands(<<Check("helper", "fail"), Check("settings", "undo_all"),
               Put("apply"), NoteTo("apply", "Applied")>>, Owned)
  <2>1. /\ Calm(Check("helper", "fail"), Owned) /\ Calm(Check("settings", "undo_all"), Owned)
        /\ Calm(Put("apply"), Owned)
    BY Literals, Calms
  <2>2. Follows(Put("apply"), NoteTo("apply", "Applied"), Owned) BY Literals, Pairs
  <2> QED BY <2>1, <2>2, Behind, Four
<1>6. Stands(ApplyStepsV2, Owned)
  <2>1. Stands(TransactionFirst \o Preflighted \o <<To("Applying")>>, Owned)
    BY <1>1, BeginStand, Concat
  <2> QED BY <2>1, <1>2, <1>3, <1>4, Concat DEF ApplyStepsV2
<1>7. Stands(ApplyStepsV3, Owned) BY <1>1, <1>2, <1>3, <1>5, Concat DEF ApplyStepsV3
<1> QED BY <1>6, <1>7

\* rollback_partial_apply, whatever was created.
LEMMA RollbackStands ==
    ASSUME NEW made, NEW created \in Seq(Owned)
    PROVE  Stands(RollbackSteps(created), made)
<1> DEFINE F == [i \in DOMAIN created |-> Try(Op("remove", created[i]), 0)]
           t == <<Try(Op("remove", "swapfile"), 0), FailTransaction>>
           S == {Try(Op("remove", x), 0) : x \in Owned}
<1>1. \A x \in Owned : Calm(Try(Op("remove", x), 0), made) BY OpsIn, Literals, Calms
<1>2. Stands(t, made) BY <1>1, Literals, Calms, Behind, Two
<1>3. Len(created) \in Nat /\ DOMAIN created = 1..Len(created)
      /\ \A i \in 1..Len(created) : created[i] \in Owned
  OBVIOUS
<1>4. F \in Seq(S) /\ Len(F) = Len(created)
  <2>1. F \in [1..Len(created) -> S] BY <1>3
  <2>2. F \in Seq(S) BY <2>1, <1>3, SeqDef
  <2> QED BY <2>1, <2>2, <1>3
<1>5. \A i \in 1..Len(F) : Calm(F[i], made) BY <1>1, <1>3, <1>4
<1>6. RollbackSteps(created) = F \o t BY DEF RollbackSteps
<1> HIDE DEF F, t
<1>7. CASE F = <<>>
  <2>1. PICK T : t \in Seq(T) BY <1>2 DEF Stands, Sound
  <2>2. F \o t = t BY <1>7, <2>1
  <2> QED BY <2>2, <1>2, <1>6
<1>8. CASE F # <<>>
  <2>1. 1 \in 1..Len(F) BY <1>8, <1>4
  <2>2. Stands(F, made) BY <1>8, <1>4, <1>5, <2>1, Straight, Behind
  <2> QED BY <2>2, <1>2, <1>6, Concat
<1> QED BY <1>7, <1>8

\* select_exact_one_shot of each contract.
LEMMA OneShotStands ==
    ASSUME NEW made
    PROVE  Stands(SelectOneShotStepsV2, made) /\ Stands(SelectOneShotStepsV3, made)
<1> DEFINE op == Op("oneshot", "experimental")
<1>1. op \in Ops /\ op.act # "create" BY OpsIn, OpParts
<1>2. /\ Calm(To("OneShotSelecting"), made) /\ Calm(Intend(op), made)
      /\ Calm(Put("oneshot"), made) /\ Calm(Check("helper", "abort"), made)
  BY <1>1, Calms, Literals
<1>3. /\ Follows(Intend(op), Do(op, "fail"), made)
      /\ Follows(Put("oneshot"), DoneNoteTo("oneshot", "OneShotSelected"), made)
  BY <1>1, Pairs, Literals
<1>4. Stands(SelectOneShotStepsV2, made) BY <1>2, <1>3, Behind, Five DEF SelectOneShotStepsV2
<1> QED BY <1>2, <1>4, One, Concat DEF SelectOneShotStepsV3

\* collect_and_validate_post_boot of each contract.
LEMMA PostBootStands ==
    ASSUME NEW made
    PROVE  Stands(PostBootStepsV2, made) /\ Stands(PostBootStepsV3, made)
<1>1. Stands(MeasureProfile, made)
  <2>1. /\ Calm(To("PostBootMeasuring"), made) /\ Calm(BoundedWorkload, made)
        /\ Calm(Check("measured", "abort"), made) /\ Calm(Put("postboot"), made)
    BY Calms, Literals DEF BoundedWorkload
  <2>2. Follows(Put("postboot"), NoteTo("postboot", "PostBootValidated"), made) BY Pairs, Literals
  <2> QED BY <2>1, <2>2, Behind, Five DEF MeasureProfile
<1>2. Stands(Optionally("chosen", <<To("ExperimentalBoot")>>), made)
  BY Calms, One, OptionallyStands
<1>3. Stands(<<Check("activated", "abort"), Check("helper", "abort")>>, made)
  BY Calms, Literals, Behind, Two
<1> QED BY <1>1, <1>2, <1>3, Concat DEF PostBootStepsV2, PostBootStepsV3

\* select_baseline_rollback of each contract.
LEMMA BaselineStands ==
    ASSUME NEW made PROVE Stands(SelectBaselineStepsV2, made)
<1> DEFINE op == Op("oneshot", "baseline")
<1>1. op \in Ops /\ op.act # "create" BY OpsIn, OpParts
<1>2. /\ Calm(To("BaselineSelecting"), made) /\ Calm(Intend(op), made)
      /\ Calm(DoneTo("BaselineSelected"), made)
  BY <1>1, Calms
<1>3. Follows(Intend(op), Do(op, "fail"), made) BY <1>1, Pairs, Literals
<1> QED BY <1>2, <1>3, Behind, Four DEF SelectBaselineStepsV2

\* verify_then_cleanup of each contract.
LEMMA CleanupStands ==
    ASSUME NEW made
    PROVE  Stands(CleanupStepsV2, made) /\ Stands(CleanupStepsV3, made)
<1>1. Stands(ProveBaseline, made)
  <2>1. Stands(Optionally("selected", <<To("BaselineBoot")>>), made)
    BY Calms, One, OptionallyStands
  <2>2. /\ Calm(Check("baseline", "abort"), made) /\ Calm(Put("restore"), made)
        /\ Calm(To("Cleaning"), made)
        /\ Follows(Put("restore"), NoteTo("restore", "BaselineVerified"), made)
    BY Calms, Pairs, Literals
  <2>3. Stands(<<Check("baseline", "abort"), Put("restore"),
                 NoteTo("restore", "BaselineVerified"), To("Cleaning")>>, made)
    BY <2>2, Behind, Four
  <2> QED BY <2>1, <2>3, Concat DEF ProveBaseline
<1>2. Stands(RemoveSwapfile, made)
  <2> DEFINE op == Op("remove", "swapfile")
  <2>1. op \in Ops \ Announceable BY OpsIn, Literals
  <2>2. /\ Calm(Intend(op), made) /\ Calm(Do(op, "fail"), made)
        /\ Calm(Check("cleaned", "fail"), made) /\ Calm(Check("finalize", "fail"), made)
    BY <2>1, Calms, Literals
  <2> QED BY <2>2, Behind, Four DEF RemoveSwapfile
<1>3. \A x \in {"helper", "unit", "entry"} : Stands(Removing(x), made)
  BY RemovingStands, Literals
<1>4. Stands(<<DoneTo("Restored"), Seal>>, made) BY Calms, Behind, Two
<1>5. Stands(<<Check("authority", "abort"), Put("authority"),
               DoneNoteTo("authority", "Restored"), Seal>>, made)
  <2>1. /\ Calm(Check("authority", "abort"), made) /\ Calm(Put("authority"), made)
        /\ Calm(Seal, made)
        /\ Follows(Put("authority"), DoneNoteTo("authority", "Restored"), made)
    BY Calms, Pairs, Literals
  <2> QED BY <2>1, Behind, Four
<1>6. Stands(CleanupStepsV2, made) BY <1>1, <1>2, <1>3, <1>4, Concat DEF CleanupStepsV2
<1>7. Stands(CleanupStepsV3, made) BY <1>1, <1>2, <1>3, <1>5, Concat DEF CleanupStepsV3
<1> QED BY <1>6, <1>7

\* The removing branches of recover.
LEMMA RecoveryStands ==
    ASSUME NEW made
    PROVE  Stands(RemoveSteps, made) /\ Stands(ClearThenRemoveSteps, made)
<1>1. \A x \in {"helper", "unit", "entry"} : Stands(RemovingExact(x), made)
  BY RemovingStands, Literals
<1>2. Stands(<<Intend(Op("remove", "swapfile")), Do(Op("remove", "swapfile"), "abort"),
               Check("finalize", "abort"), DoneTo("Recovered")>>, made)
  <2> DEFINE op == Op("remove", "swapfile")
  <2>1. op \in Ops \ Announceable BY OpsIn, Literals
  <2>2. /\ Calm(Intend(op), made) /\ Calm(Do(op, "abort"), made)
        /\ Calm(Check("finalize", "abort"), made) /\ Calm(DoneTo("Recovered"), made)
    BY <2>1, Calms, Literals
  <2> QED BY <2>2, Behind, Four
<1>3. Stands(<<Put("recovery"), NoteTo("recovery", ""), Seal>>, made)
  <2>1. /\ Calm(Put("recovery"), made) /\ Calm(Seal, made)
        /\ Follows(Put("recovery"), NoteTo("recovery", ""), made)
    BY Calms, Pairs, Literals
  <2> QED BY <2>1, Behind, Three
<1>4. Stands(RemoveSteps, made) BY <1>1, <1>2, <1>3, Concat DEF RemoveSteps
<1>5. Stands(<<Check("oneshot", "abort"), Intend(Op("oneshot", "none")),
               Do(Op("oneshot", "none"), "abort"), Done>>, made)
  <2> DEFINE op == Op("oneshot", "none")
  <2>1. op \in Ops \ Announceable BY OpsIn, Literals
  <2>2. /\ Calm(Intend(op), made) /\ Calm(Do(op, "abort"), made)
        /\ Calm(Check("oneshot", "abort"), made) /\ Calm(Done, made)
    BY <2>1, Calms, Literals
  <2> QED BY <2>2, Behind, Four
<1> QED BY <1>4, <1>5, Concat DEF ClearThenRemoveSteps

\* experimental_activate and activation_failure.
LEMMA ActivationStands ==
    ASSUME NEW made
    PROVE  Stands(ActivateSteps, made) /\ Stands(ActivationFailureSteps, made)
<1>0. /\ \A z \in {"off", "parameters", "on"} : Op("zswap", z) \in Ops
      /\ \A z \in {"on", "off"} : Op("swap", z) \in Ops
      /\ Op("oneshot", "baseline") \in Ops
      /\ \A z : Op("zswap", z).act # "create" /\ Op("swap", z).act # "create"
                /\ Op("oneshot", z).act # "create"
  BY OpsIn, OpParts
<1>1. Stands(<<To("ExperimentalBootDetected"), To("ActivationPreparing")>>, made)
  BY Calms, Behind, Two
<1>2. ASSUME NEW st, NEW z \in {"off", "parameters", "on"}
      PROVE  /\ Stands(<<ToIntend(st, Op("zswap", z)), Do(Op("zswap", z), "activation"), Done>>, made)
             /\ Stands(<<To(st), Intend(Op("zswap", z)), Do(Op("zswap", z), "activation"), Done>>, made)
  <2> DEFINE op == Op("zswap", z)
  <2>1. /\ Calm(ToIntend(st, op), made) /\ Calm(Intend(op), made) /\ Calm(To(st), made)
        /\ Calm(Done, made)
        /\ Follows(ToIntend(st, op), Do(op, "activation"), made)
        /\ Follows(Intend(op), Do(op, "activation"), made)
    BY <1>0, Calms, Pairs, Literals
  <2> QED BY <2>1, Behind, Three, Four
<1>3. Stands(<<ToIntend("SwapActivating", Op("swap", "on")),
               Do(Op("swap", "on"), "activation"),
               Put("activation"), DoneNoteTo("activation", "ActivationVerified")>>, made)
  <2> DEFINE op == Op("swap", "on")
  <2>1. /\ Calm(ToIntend("SwapActivating", op), made) /\ Calm(Put("activation"), made)
        /\ Follows(ToIntend("SwapActivating", op), Do(op, "activation"), made)
        /\ Follows(Put("activation"), DoneNoteTo("activation", "ActivationVerified"), made)
    BY <1>0, Calms, Pairs, Literals
  <2> QED BY <2>1, Behind, Four
<1>4. Stands(ActivateSteps, made) BY <1>1, <1>2, <1>3, Concat DEF ActivateSteps
<1>5. Stands(<<Done>>, made) /\ Stands(<<To("ActivationFailed")>>, made)
      /\ Stands(<<DoneTo("ActivationFailed"), Return>>, made)
  BY Calms, Behind, One, Two
<1>6. /\ Stands(Optionally("active", Attempt(Op("swap", "off"), <<Done>>)), made)
      /\ Stands(Attempt(Op("oneshot", "baseline"), <<DoneTo("ActivationFailed"), Return>>), made)
      /\ \A z \in {"off", "parameters"} : Stands(Attempt(Op("zswap", z), <<Done>>), made)
  BY <1>0, <1>5, OptionallyStands, AttemptStands
<1>7. Stands(<<Done>> \o Attempt(Op("zswap", "parameters"), <<Done>>)
                      \o Attempt(Op("zswap", "off"), <<Done>>), made)
  BY <1>5, <1>6, Concat
<1>8. Stands(Attempt(Op("zswap", "off"),
                     <<Done>> \o Attempt(Op("zswap", "parameters"), <<Done>>)
                              \o Attempt(Op("zswap", "off"), <<Done>>)), made)
  BY <1>0, <1>7, AttemptStands
<1>9. Stands(ActivationFailureSteps, made) BY <1>5, <1>6, <1>8, Concat DEF ActivationFailureSteps
<1> QED BY <1>4, <1>9

\* What a command may create.
Made(cmd) == IF cmd = "apply" THEN Owned ELSE {"helper"}

\* Every program of every contract is sound.
LEMMA ProgramStands ==
    ASSUME NEW c \in Contracts, NEW cmd \in Commands(c)
    PROVE  Stands(Program(c, cmd), Made(cmd))
<1> DEFINE made == Made(cmd)
<1>0. c \in {"v2", "v3", "v5", "v6"} BY LifecycleAssumption
<1>1. CASE cmd \in DOMAIN OwnProgram
  <2>1. Calm(FailTransaction, made) BY Calms
  <2>2. cmd \in {"activate", "activation", "remove", "clear", "fail"} BY <1>1 DEF OwnProgram
  <2>3. Stands(OwnProgram[cmd], made)
    BY <2>1, <2>2, One, RecoveryStands, ActivationStands DEF OwnProgram
  <2>4. cmd \notin DOMAIN Rollback[c]
    BY <2>2, <1>0 DEF Rollback, RollbackV2, RollbackV3, RollbackV5, RollbackV6
  <2>5. Program(c, cmd) = OwnProgram[cmd] BY <1>1, <2>4 DEF Program
  <2> QED BY <2>3, <2>5
<1>2. CASE cmd \in DOMAIN Rollback[c] /\ cmd \notin DOMAIN OwnProgram
  <2>1. cmd \in {"undo_swapfile", "undo_entry", "undo_unit", "undo_all"}
    BY <1>0, <1>2 DEF Rollback, RollbackV2, RollbackV3, RollbackV5, RollbackV6
  <2>2. /\ <<>> \in Seq(Owned) /\ <<"helper">> \in Seq(Owned)
        /\ <<"entry">> \in Seq(Owned) /\ <<"entry", "helper">> \in Seq(Owned)
        /\ <<"unit", "entry">> \in Seq(Owned) /\ <<"unit", "entry", "helper">> \in Seq(Owned)
    BY Literals
  <2>3. /\ Stands(RollbackSteps(<<>>), made) /\ Stands(RollbackSteps(<<"helper">>), made)
        /\ Stands(RollbackSteps(<<"entry">>), made)
        /\ Stands(RollbackSteps(<<"entry", "helper">>), made)
        /\ Stands(RollbackSteps(<<"unit", "entry">>), made)
        /\ Stands(RollbackSteps(<<"unit", "entry", "helper">>), made)
    BY <2>2, RollbackStands
  <2>4. Stands(Rollback[c][cmd], made)
    <3>1. CASE cmd = "undo_swapfile"
      BY <3>1, <2>3, <1>0 DEF Rollback, RollbackV2, RollbackV3, RollbackV5, RollbackV6
    <3>2. CASE cmd = "undo_entry"
      BY <3>2, <2>3, <1>0 DEF Rollback, RollbackV2, RollbackV3, RollbackV5, RollbackV6
    <3>3. CASE cmd = "undo_unit"
      BY <3>3, <2>3, <1>0 DEF Rollback, RollbackV2, RollbackV3, RollbackV5, RollbackV6
    <3>4. CASE cmd = "undo_all"
      BY <3>4, <2>3, <1>0 DEF Rollback, RollbackV2, RollbackV3, RollbackV5, RollbackV6
    <3> QED BY <2>1, <3>1, <3>2, <3>3, <3>4
  <2> QED BY <1>2, <2>4 DEF Program
<1>3. CASE cmd \notin DOMAIN Rollback[c] /\ cmd \notin DOMAIN OwnProgram
  <2>1. cmd \in DOMAIN LibraryProgram[c] BY <1>3 DEF Commands
  <2>2. cmd \in {"measure", "apply", "one_shot", "post_boot", "baseline", "cleanup"}
        /\ (c = "v2" => cmd # "measure")
    BY <2>1, <1>0 DEF LibraryProgram
  <2>3. "helper" \in made /\ (cmd = "apply" => made = Owned) BY Literals DEF Made
  <2> HIDE DEF made
  <2>4. Stands(LibraryProgram[c][cmd], made)
    <3>1. CASE cmd = "measure"
      BY <3>1, <2>2, <2>3, <1>0, MeasureStands DEF LibraryProgram, MeasureStepsV5
    <3>2. CASE cmd = "apply"
      BY <3>2, <2>3, <1>0, ApplyStands DEF LibraryProgram, ApplyStepsV5, ApplyStepsV6
    <3>3. CASE cmd = "one_shot"
      BY <3>3, <1>0, OneShotStands DEF LibraryProgram, SelectOneShotStepsV5, SelectOneShotStepsV6
    <3>4. CASE cmd = "post_boot"
      BY <3>4, <1>0, PostBootStands DEF LibraryProgram, PostBootStepsV5, PostBootStepsV6
    <3>5. CASE cmd = "baseline"
      BY <3>5, <1>0, BaselineStands
         DEF LibraryProgram, SelectBaselineStepsV3, SelectBaselineStepsV5, SelectBaselineStepsV6
    <3>6. CASE cmd = "cleanup"
      BY <3>6, <1>0, CleanupStands DEF LibraryProgram, CleanupStepsV5, CleanupStepsV6
    <3> QED BY <2>2, <3>1, <3>2, <3>3, <3>4, <3>5, <3>6
  <2> QED BY <1>3, <2>1, <2>4 DEF Program, made
<1> QED BY <1>1, <1>2, <1>3

-----------------------------------------------------------------------------
(* What the invariant needs of the contracts: the commands there are, the     *)
(* steps a validation begins with, the transition table, and what a durable  *)
(* write puts into the transaction.                                          *)

First(c) == IF c = "v2" THEN "apply" ELSE "measure"

\* The commands that every contract has.
LEMMA CommandsHave ==
    ASSUME NEW c \in Contracts
    PROVE  /\ Landings \ {"abort", "skip"} \subseteq Commands(c)
           /\ {"activate", "remove", "clear", "apply", "one_shot", "post_boot",
               "baseline", "cleanup", First(c)} \subseteq Commands(c)
           /\ "" \notin Commands(c)
<1>0. c \in {"v2", "v3", "v5", "v6"} BY LifecycleAssumption
<1>1. DOMAIN OwnProgram = {"activate", "activation", "remove", "clear", "fail"}
  BY DEF OwnProgram
<1>2. DOMAIN Rollback[c] = {"undo_swapfile", "undo_entry", "undo_unit", "undo_all"}
  BY <1>0 DEF Rollback, RollbackV2, RollbackV3, RollbackV5, RollbackV6
<1>3. DOMAIN LibraryProgram[c] =
        {"apply", "one_shot", "post_boot", "baseline", "cleanup", First(c)}
  BY <1>0 DEF LibraryProgram, First
<1> QED BY <1>1, <1>2, <1>3 DEF Commands, Landings, First

\* u begins with the steps of s.
Begins(u, s) ==
    /\ \E S : u \in Seq(S)
    /\ Len(s) \in Nat /\ Len(s) <= Len(u)
    /\ \A i \in 1..Len(s) : u[i] = s[i]

\* What is appended to a program does not change how it begins.
LEMMA BeginsStill ==
    ASSUME NEW s, NEW u, NEW t, NEW made, Begins(u, s), Stands(t, made)
    PROVE  Begins(u \o t, s)
<1>1. PICK S, T : u \in Seq(S) /\ t \in Seq(T) BY DEF Begins, Stands, Sound
<1>2. u \in Seq(S \cup T) /\ t \in Seq(S \cup T) BY <1>1
<1>3. u \o t \in Seq(S \cup T) /\ Len(u \o t) = Len(u) + Len(t) /\ Len(u) \in Nat /\ Len(t) \in Nat
      /\ \A i \in 1..Len(u) : (u \o t)[i] = u[i]
  BY <1>2
<1> QED BY <1>3 DEF Begins

\* The first steps of two programs, one behind the other.
LEMMA Joined ==
    ASSUME NEW a, NEW b, NEW c, NEW d, NEW e
    PROVE  /\ Begins(<<a, b, c>> \o <<d, e>>, <<a, b, c, d, e>>)
           /\ Begins(<<a, b, c>>, <<a, b, c>>)
<1> DEFINE s == <<a, b, c>>  t == <<d, e>>  five == <<a, b, c, d, e>>  T == {a, b, c, d, e}
<1>1. s \in Seq(T) /\ t \in Seq(T) /\ five \in Seq(T)
      /\ Len(s) = 3 /\ Len(t) = 2 /\ Len(five) = 5
  OBVIOUS
<1>2. /\ s[1] = a /\ s[2] = b /\ s[3] = c /\ t[1] = d /\ t[2] = e
      /\ five[1] = a /\ five[2] = b /\ five[3] = c /\ five[4] = d /\ five[5] = e
  OBVIOUS
<1> HIDE DEF s, t, five, T
<1>3. /\ s \o t \in Seq(T) /\ Len(s \o t) = Len(s) + Len(t)
      /\ \A i \in 1..(Len(s) + Len(t)) :
            (s \o t)[i] = IF i <= Len(s) THEN s[i] ELSE t[i - Len(s)]
  BY <1>1, ConcatProperties
<1>4. /\ (s \o t)[1] = a /\ (s \o t)[2] = b /\ (s \o t)[3] = c
      /\ (s \o t)[4] = d /\ (s \o t)[5] = e
  BY <1>1, <1>2, <1>3
<1>5. Begins(s \o t, five) /\ Begins(s, s) BY <1>1, <1>2, <1>3, <1>4 DEF Begins
<1> QED BY <1>5 DEF s, t, five

\* The steps a validation begins with.
LEMMA FirstSteps ==
    ASSUME NEW c \in Contracts
    PROVE  /\ Program(c, First(c))[1] = Put("root")
           /\ c = "v2" =>
                /\ Len(Program(c, "apply")) \in Nat
                /\ Program(c, "apply")[2] = Plain
                /\ Program(c, "apply")[3] = Put("manifest")
                /\ Program(c, "apply")[4] = Put("preflight")
                /\ Program(c, "apply")[5] = NoteTo("preflight", "RootPreflighted")
<1>0. c \in {"v2", "v3", "v5", "v6"} BY LifecycleAssumption
<1>1. Program(c, First(c)) = LibraryProgram[c][First(c)]
  BY <1>0 DEF Program, OwnProgram, Rollback, RollbackV2, RollbackV3, RollbackV5, RollbackV6, First
<1> DEFINE five == <<Put("root"), Plain, Put("manifest"), Put("preflight"), NoteTo("preflight", "RootPreflighted")>>
<1>2. Begins(TransactionFirst \o Preflighted, five) BY Joined DEF TransactionFirst, Preflighted
<1>3. /\ Len(five) = 5 /\ five[1] = Put("root") /\ five[2] = Plain
      /\ five[3] = Put("manifest") /\ five[4] = Put("preflight")
      /\ five[5] = NoteTo("preflight", "RootPreflighted")
  OBVIOUS
<1>4. /\ \A x \in {"entry", "unit"} : \A f \in Landings : Stands(Creating(x, f), Owned)
      /\ Stands(CreatingSwapfile, Owned) /\ Stands(<<To("Applying")>>, Owned)
      /\ Stands(<<Check("settings", "undo_all"), To("Applied")>>, Owned)
  BY Literals, Calms, Behind, One, Two, CreatingStands, CreatingSwapfileStands
<1> HIDE DEF five
<1>5. Begins(ApplyStepsV2, five)
  <2>1. Begins(TransactionFirst \o Preflighted \o <<To("Applying")>> \o CreatingSwapfile, five)
    BY <1>2, <1>4, BeginsStill
  <2> QED BY <2>1, <1>4, Literals, BeginsStill DEF ApplyStepsV2
<1>6. Begins(MeasureStepsV3, five) /\ Begins(MeasureStepsV6, ManifestFirst)
  <2>1. \A d \in Documents : Stands(<<Put(d), NoteTo(d, "BaselineMeasured")>>, Owned)
    BY Calms, Pairs, Two
  <2>2. Stands(StageAndMeasure, Owned) BY Literals, StageStands
  <2>3. Begins(MeasureStepsV3, five)
    BY <1>2, <2>1, <2>2, Literals, BeginsStill DEF MeasureStepsV3
  <2>4. Begins(ManifestFirst, ManifestFirst) BY Joined DEF ManifestFirst
  <2>5. Begins(MeasureStepsV6, ManifestFirst)
    BY <2>1, <2>2, <2>4, Literals, BeginStand, BeginsStill DEF MeasureStepsV6
  <2> QED BY <2>3, <2>5
<1>7. Len(ManifestFirst) = 3 /\ ManifestFirst[1] = Put("root") BY DEF ManifestFirst
<1>8. ASSUME c = "v2" PROVE Program(c, "apply") = ApplyStepsV2 /\ First(c) = "apply"
  BY <1>8, <1>1 DEF First, LibraryProgram
<1>9. ASSUME c # "v2" PROVE Program(c, First(c)) \in {MeasureStepsV3, MeasureStepsV6}
  BY <1>9, <1>0, <1>1 DEF First, LibraryProgram, MeasureStepsV5
<1>10. MeasureStepsV3[1] = Put("root") /\ MeasureStepsV6[1] = Put("root")
  BY <1>3, <1>6, <1>7 DEF Begins
<1>11. /\ ApplyStepsV2[1] = Put("root") /\ ApplyStepsV2[2] = Plain
       /\ ApplyStepsV2[3] = Put("manifest") /\ ApplyStepsV2[4] = Put("preflight")
       /\ ApplyStepsV2[5] = NoteTo("preflight", "RootPreflighted") /\ Len(ApplyStepsV2) \in Nat
  BY <1>3, <1>5 DEF Begins
<1> QED BY <1>8, <1>9, <1>10, <1>11

\* The transitions along a sequence of stages end in stages.
LEMMA ChainWithin ==
    ASSUME NEW S, NEW s \in Seq(S), NEW a, NEW b, <<a, b>> \in Chain(s)
    PROVE  b \in S
<1>1. PICK i \in 1..(Len(s) - 1) : <<a, b>> = <<s[i], s[i + 1]>> BY DEF Chain
<1>2. b = s[i + 1] /\ i + 1 \in 1..Len(s) BY <1>1
<1> QED BY <1>2

\* The transition table stays within the stages, and every stage may fail.
LEMMA LegalWithin ==
    ASSUME NEW c \in Contracts
    PROVE  /\ \A a, b : <<a, b>> \in Legal[c] => b \in Stages[c]
           /\ \A a \in Stages[c] : <<a, "Failed">> \in Legal[c]
           /\ {"Prepared", "Failed"} \subseteq Stages[c]
           /\ "" \notin Stages[c]
<1>0. c \in {"v2", "v3", "v5", "v6"} BY LifecycleAssumption
<1>1. /\ c = "v2" => Stages[c] = StagesV2 /\ Legal[c] = LegalV2
      /\ c # "v2" => Stages[c] = StagesV3 /\ Legal[c] = LegalV3
  BY <1>0 DEF Stages, StagesV5, StagesV6, Legal, LegalV5, LegalV6
<1>2. /\ {"Prepared", "RootPreflighted", "Applying", "Applied", "OneShotSelecting",
          "OneShotSelected", "ExperimentalBoot", "PostBootMeasuring", "PostBootValidated",
          "BaselineSelecting", "BaselineSelected", "BaselineBoot", "BaselineVerified",
          "Cleaning", "Restored", "Recovered", "Failed"} \subseteq StagesV2
      /\ {"Prepared", "RootPreflighted", "BaselineMeasuring", "BaselineMeasured", "Applying",
          "Applied", "OneShotSelecting", "OneShotSelected", "ExperimentalBootDetected",
          "ActivationPreparing", "ZswapDisabling", "ZswapParametersApplying", "ZswapEnabling",
          "SwapActivating", "ActivationVerified", "ActivationFailed", "PostBootMeasuring",
          "PostBootValidated", "BaselineSelecting", "BaselineSelected", "BaselineBoot",
          "BaselineVerified", "Cleaning", "Restored", "Recovered", "Failed"} \subseteq StagesV3
      /\ "" \notin StagesV2 /\ "" \notin StagesV3
  BY DEF StagesV2, StagesV3, BeforeOneShot, OneShotStages, Activating, Terminal, BaselineStages
<1>3. ASSUME NEW X, {"BaselineSelecting", "BaselineSelected", "BaselineBoot",
                     "BaselineVerified", "Cleaning", "Restored"} \subseteq X
      PROVE  ReturnChain \in Seq(X)
  BY <1>3 DEF ReturnChain
<1>4. ASSUME NEW a, NEW b, <<a, b>> \in LegalV2 PROVE b \in StagesV2
  <2> DEFINE s == <<"Prepared", "RootPreflighted", "Applying", "Applied",
            "OneShotSelecting", "OneShotSelected", "ExperimentalBoot",
            "PostBootMeasuring", "PostBootValidated">>
  <2>1. s \in Seq(StagesV2)
    <3>1. ASSUME NEW X, {"Prepared", "RootPreflighted", "Applying", "Applied",
                         "OneShotSelecting", "OneShotSelected", "ExperimentalBoot",
                         "PostBootMeasuring", "PostBootValidated"} \subseteq X
          PROVE  s \in Seq(X)
      BY <3>1
    <3> QED BY <3>1, <1>2
  <2>2. s \o ReturnChain \in Seq(StagesV2) BY <2>1, <1>2, <1>3, ConcatProperties
  <2>3. CASE <<a, b>> \in Chain(s \o ReturnChain) BY <2>3, <2>2, ChainWithin
  <2>4. CASE b \in {"BaselineSelecting", "Failed", "Recovered"} BY <2>4, <1>2
  <2> QED BY <1>4, <2>3, <2>4 DEF LegalV2
<1>5. ASSUME NEW a, NEW b, <<a, b>> \in LegalV3 PROVE b \in StagesV3
  <2> DEFINE s == <<"Prepared", "RootPreflighted", "BaselineMeasuring",
            "BaselineMeasured", "Applying", "Applied", "OneShotSelecting",
            "OneShotSelected", "ExperimentalBootDetected",
            "ActivationPreparing", "ZswapDisabling",
            "ZswapParametersApplying", "ZswapParametersApplying",
            "ZswapEnabling", "SwapActivating", "ActivationVerified",
            "PostBootMeasuring", "PostBootValidated">>
  <2>1. s \in Seq(StagesV3)
    <3>1. ASSUME NEW X, {"Prepared", "RootPreflighted", "BaselineMeasuring",
                         "BaselineMeasured", "Applying", "Applied", "OneShotSelecting",
                         "OneShotSelected", "ExperimentalBootDetected",
                         "ActivationPreparing", "ZswapDisabling", "ZswapParametersApplying",
                         "ZswapEnabling", "SwapActivating", "ActivationVerified",
                         "PostBootMeasuring", "PostBootValidated"} \subseteq X
          PROVE  s \in Seq(X)
      BY <3>1
    <3> QED BY <3>1, <1>2
  <2>2. s \o ReturnChain \in Seq(StagesV3) BY <2>1, <1>2, <1>3, ConcatProperties
  <2>3. CASE <<a, b>> \in Chain(s \o ReturnChain) BY <2>3, <2>2, ChainWithin
  <2>4. CASE b \in {"ActivationFailed", "BaselineSelecting", "Failed", "Recovered"} BY <2>4, <1>2
  <2> QED BY <1>5, <2>3, <2>4 DEF LegalV3
<1>6. /\ \A a \in StagesV2 : <<a, "Failed">> \in LegalV2
      /\ \A a \in StagesV3 : <<a, "Failed">> \in LegalV3
  BY DEF LegalV2, LegalV3
<1> QED BY <1>1, <1>2, <1>4, <1>5, <1>6

\* The four contracts write alike.
LEMMA Alike ==
    ASSUME NEW c \in Contracts, NEW t, NEW s, NEW boot
    PROVE  /\ Written(c, t, s) = WrittenV2(t, s)
           /\ Failing(c, t) = FailingV2(t)
           /\ Fresh(c, boot) = FreshV2(boot)
<1>0. c \in {"v2", "v3", "v5", "v6"} BY LifecycleAssumption
<1>1. Written(c, t, s) = WrittenV2(t, s) BY <1>0 DEF Written, WrittenV3, WrittenV5, WrittenV6
<1>2. Failing(c, t) = FailingV2(t) BY <1>0 DEF Failing, FailingV3, FailingV5, FailingV6
<1>3. Fresh(c, boot) = FreshV2(boot) BY <1>0 DEF Fresh, FreshV3, FreshV5, FreshV6
<1> QED BY <1>1, <1>2, <1>3

\* No transaction is one of the sentinels.
LEMMA Apart ==
    ASSUME contract \in Contracts
    PROVE  NoTx \notin Transactions /\ Torn \notin Transactions /\ NoTx # Torn
<1> DEFINE all == UNION {Stages[c] : c \in Contracts}
<1>1. Stages[contract] \subseteq all OBVIOUS
<1>2. MaxReboots[contract] \in Nat BY LifecycleAssumption
<1> HIDE DEF all
<1>3. Transactions \subseteq
        [stage : all, born : Nat, failedFrom : {""} \cup all,
         intents : SUBSET Ops, completed : SUBSET Ops, last : Ops \cup {NoOp},
         evidence : SUBSET Documents, uuid : BOOLEAN]
  <2>1. SUFFICES ASSUME NEW t \in Transactions
                 PROVE  t \in [stage : all, born : Nat, failedFrom : {""} \cup all,
                               intents : SUBSET Ops, completed : SUBSET Ops,
                               last : Ops \cup {NoOp}, evidence : SUBSET Documents,
                               uuid : BOOLEAN]
    OBVIOUS
  <2>2. t.born \in Nat
    <3>1. t.born \in 0..MaxReboots[contract] BY DEF Transactions
    <3> QED BY <3>1, <1>2
  <2> QED BY <1>1, <2>2 DEF Transactions
<1> QED BY <1>3, SentinelsAssumption DEF all

\* What a durable write puts into a transaction.
LEMMA WrittenHas ==
    ASSUME contract \in Contracts, NEW t \in Transactions, NEW s, NEW made, Legit(s, made),
           s.k = "save", Allowed(t, s)
    PROVE  /\ Written(contract, t, s) \in Transactions
           /\ Written(contract, t, s).stage = t.stage
              \/ LegalTransition(t.stage, Written(contract, t, s).stage)
           /\ t.intents \subseteq Written(contract, t, s).intents
           /\ s.op # NoOp => s.op \in Written(contract, t, s).intents
           /\ t.evidence \subseteq Written(contract, t, s).evidence
           /\ Written(contract, t, s).evidence \subseteq t.evidence \cup {s.ev}
           /\ s.ev = "" => Written(contract, t, s).evidence = t.evidence
           /\ s.ev # "" => s.ev \in Written(contract, t, s).evidence
<1> DEFINE w == WrittenV2(t, s)
<1>1. Written(contract, t, s) = w BY Alike
<1>2. /\ w.stage = (IF s.to = "" THEN t.stage ELSE s.to)
      /\ w.intents = (IF s.op = NoOp THEN t.intents ELSE t.intents \cup {s.op})
      /\ w.evidence = (IF s.ev = "" THEN t.evidence ELSE t.evidence \cup {s.ev})
  BY DEF WrittenV2, Transactions
<1>3. (IF s.to = "" THEN t.stage ELSE s.to) \in Stages[contract]
      /\ (w.stage = t.stage \/ LegalTransition(t.stage, w.stage))
  <2>1. t.stage \in Stages[contract] BY DEF Transactions
  <2>2. s.to # "" => LegalTransition(t.stage, s.to) BY DEF Allowed
  <2>3. s.to # "" => s.to \in Stages[contract] BY <2>2, LegalWithin DEF LegalTransition
  <2> QED BY <1>2, <2>1, <2>2, <2>3
<1>4. /\ (IF s.op = NoOp THEN t.intents ELSE t.intents \cup {s.op}) \in SUBSET Ops
      /\ (IF s.op = NoOp THEN t.last ELSE s.op) \in Ops \cup {NoOp}
  BY DEF Legit, Transactions
<1>5. (IF s.done THEN t.completed \cup {t.last} ELSE t.completed \ {s.op}) \in SUBSET Ops
  BY DEF Legit, Transactions, Allowed
<1>6. (IF s.ev = "" THEN t.evidence ELSE t.evidence \cup {s.ev}) \in SUBSET Documents
      /\ (t.uuid \/ s.uuid) \in BOOLEAN
  BY DEF Legit, Transactions
<1>7. w \in Transactions BY <1>3, <1>4, <1>5, <1>6 DEF Transactions, WrittenV2
<1> HIDE DEF w
<1> QED BY <1>1, <1>2, <1>3, <1>7

\* What fail_transaction writes: the records and the evidence it was given, in
\* a stage that every stage may reach.
LEMMA FailingHas ==
    ASSUME contract \in Contracts, NEW t \in Transactions
    PROVE  /\ Failing(contract, t) \in Transactions
           /\ LegalTransition(t.stage, Failing(contract, t).stage)
           /\ Failing(contract, t).intents = t.intents
           /\ Failing(contract, t).evidence = t.evidence
<1>1. Failing(contract, t) = FailingV2(t) BY Alike
<1>2. t.stage \in Stages[contract] BY DEF Transactions
<1>3. "Failed" \in Stages[contract] /\ LegalTransition(t.stage, "Failed")
  BY <1>2, LegalWithin DEF LegalTransition
<1> QED BY <1>1, <1>2, <1>3 DEF FailingV2, Transactions

\* A new transaction has no record and no evidence.
LEMMA FreshHas ==
    ASSUME contract \in Contracts, NEW boot \in 0..MaxReboots[contract]
    PROVE  /\ Fresh(contract, boot) \in Transactions
           /\ Fresh(contract, boot).intents = {} /\ Fresh(contract, boot).evidence = {}
<1>1. Fresh(contract, boot) = FreshV2(boot) BY Alike
<1>2. "Prepared" \in Stages[contract] BY LegalWithin
<1>3. NoOp \in Ops \cup {NoOp} /\ {} \in SUBSET Ops /\ {} \in SUBSET Documents OBVIOUS
<1>4. "" \in Stages[contract] \cup {""} OBVIOUS
<1>5. FreshV2(boot) \in Transactions BY <1>2, <1>3, <1>4 DEF FreshV2, Transactions
<1>6. FreshV2(boot).intents = {} /\ FreshV2(boot).evidence = {} BY DEF FreshV2
<1> QED BY <1>1, <1>5, <1>6

-----------------------------------------------------------------------------
(* The inductive invariant. *)

Has(t) == BaselineDocument[contract] \in t.evidence
Whole(t) == t \notin {NoTx, Torn}

\* The host counts its boots as the bound does.
Booted == host.boot = budget.reboots

\* The root is the first document; before it there is no transaction, and the
\* only command is the one that is about to create it.
RootFirst ==
    "root" \notin files =>
        /\ disk = NoTx /\ cand = NoTx
        /\ ~Busy("unit")
        /\ Busy("operator") => /\ proc["operator"].cmd = First(contract)
                               /\ proc["operator"].pc = 1

\* A process that is alone works on the transaction that is on disk, beside
\* which no candidate lies.
Synced ==
    ~overlapped =>
        /\ ~(Busy("operator") /\ Busy("unit"))
        /\ \A p \in Procs : Busy(p) =>
              /\ cand = NoTx
              /\ disk = proc[p].tx \/ (disk = NoTx /\ proc[p].tx.intents = {})

\* A command that is about to change the machine has announced it, and one
\* that is about to name a document has filed it.
Announced ==
    \A p \in Procs : Busy(p) =>
        /\ Step(p).k = "do" /\ Step(p).op \in Announceable =>
              Step(p).op \in proc[p].tx.intents
        /\ Step(p).k = "save" /\ Step(p).ev # "" => Step(p).ev \in files

\* No transaction, on disk or in memory, names a document that is not there.
Filed ==
    /\ disk # NoTx => disk.evidence \subseteq files
    /\ Whole(cand) => cand.evidence \subseteq files
    /\ \A p \in Procs : Busy(p) => proc[p].tx.evidence \subseteq files

\* From the first creation of a boot artifact on, every transaction names the
\* baseline; in v2 it is named by the first five steps of apply.
OnDisk == disk # NoTx /\ Has(disk) /\ (Whole(cand) => Has(cand))
Building == /\ Busy("operator") /\ proc["operator"].cmd = "apply"
            /\ contract = "v2" => proc["operator"].pc > 5
Built == \E x \in Owned \ {"helper"} : host.owned[x] # "absent"
BaselineFirst ==
    /\ Busy("unit") => Has(proc["unit"].tx) /\ proc["unit"].cmd # "apply"
    /\ Building => OnDisk /\ Has(proc["operator"].tx)
    /\ Built => OnDisk /\ (Busy("operator") => Has(proc["operator"].tx))

Inv == /\ TypeOK /\ Booted /\ RootFirst /\ Synced /\ Announced /\ Filed
       /\ BaselineFirst /\ WriteAhead

-----------------------------------------------------------------------------
(* How a process moves: it ends, goes on to the next step, or lands on a step *)
(* that needs nothing before it.                                             *)

GoesOn(p, t) ==
    /\ proc[p].pc + 1 \in 1..Len(Program(contract, proc[p].cmd))
    /\ proc' = [proc EXCEPT ![p] = [cmd |-> proc[p].cmd, pc |-> proc[p].pc + 1, tx |-> t]]

Lands(p, c, i) ==
    /\ c \in Commands(contract) /\ i \in 1..Len(Program(contract, c))
    /\ ~Needs(Program(contract, c)[i])
    /\ (c = proc[p].cmd /\ i > proc[p].pc) \/ c \in Landings
    /\ proc' = [proc EXCEPT ![p] = [cmd |-> c, pc |-> i, tx |-> proc[p].tx]]

\* A busy process is at a well-formed step of a sound program, with a
\* transaction in its hands.
LEMMA AtWork ==
    ASSUME TypeOK, NEW p \in Procs, Busy(p)
    PROVE  /\ proc[p].cmd \in Commands(contract) /\ proc[p].tx \in Transactions
           /\ proc[p].pc \in 1..Len(Program(contract, proc[p].cmd))
           /\ Len(Program(contract, proc[p].cmd)) \in Nat
           /\ Stands(Program(contract, proc[p].cmd), Made(proc[p].cmd))
           /\ Legit(Step(p), Made(proc[p].cmd))
<1>1. /\ proc[p] \in [cmd : Commands(contract) \cup {""}, pc : Nat, tx : Transactions \cup {NoTx}]
      /\ proc[p].tx # NoTx /\ proc[p].cmd # "" /\ contract \in Contracts
      /\ proc[p].pc \in 1..Len(Program(contract, proc[p].cmd))
  BY DEF TypeOK, Busy
<1>2. proc[p].cmd \in Commands(contract) /\ proc[p].tx \in Transactions BY <1>1
<1>3. Stands(Program(contract, proc[p].cmd), Made(proc[p].cmd)) BY <1>1, <1>2, ProgramStands
<1>4. Len(Program(contract, proc[p].cmd)) \in Nat BY <1>3 DEF Stands, Sound
<1>5. Legit(Step(p), Made(proc[p].cmd)) BY <1>1, <1>3 DEF Stands, Sound, Step
<1> QED BY <1>1, <1>2, <1>3, <1>4, <1>5

\* A step that succeeds leads to the next one or ends the command.
LEMMA AdvanceMoves ==
    ASSUME TypeOK, NEW p \in Procs, Busy(p), NEW t, Advance(p, t, 0)
    PROVE  End(p) \/ GoesOn(p, t)
<1>1. /\ proc[p].pc \in 1..Len(Program(contract, proc[p].cmd))
      /\ Len(Program(contract, proc[p].cmd)) \in Nat
  BY AtWork
<1>2. proc[p].pc + 1 + 0 = proc[p].pc + 1 BY <1>1
<1>3. CASE proc[p].pc + 1 > Len(Program(contract, proc[p].cmd))
  BY <1>1, <1>2, <1>3 DEF Advance, End
<1>4. CASE ~(proc[p].pc + 1 > Len(Program(contract, proc[p].cmd)))
  <2>1. proc[p].pc + 1 \in 1..Len(Program(contract, proc[p].cmd)) BY <1>1, <1>4
  <2> QED BY <1>2, <1>4, <2>1 DEF Advance, GoesOn
<1> QED BY <1>3, <1>4

\* A step that fails ends the command or leads to a step that needs nothing
\* before it.
LEMMA MissMoves ==
    ASSUME TypeOK, NEW p \in Procs, Busy(p), Miss(p)
    PROVE  End(p) \/ \E c, i : Lands(p, c, i)
<1> DEFINE prog == Program(contract, proc[p].cmd)
<1>0. contract \in Contracts BY DEF TypeOK
<1>1. /\ proc[p].cmd \in Commands(contract)
      /\ proc[p].pc \in 1..Len(prog) /\ Len(prog) \in Nat
      /\ Stands(prog, Made(proc[p].cmd)) /\ Legit(Step(p), Made(proc[p].cmd))
  BY AtWork
<1>2. CASE Step(p).fail = "abort" BY <1>2 DEF Miss
<1>3. CASE Step(p).fail = "skip"
  <2>0. PICK n \in Nat : Step(p).n = n BY <1>1 DEF Legit
  <2>1. /\ proc[p].pc + n <= Len(prog)
        /\ proc[p].pc + n < Len(prog) => ~Needs(prog[proc[p].pc + 1 + n])
    BY <1>1, <1>3, <2>0 DEF Stands, Sound, Step
  <2>2. Advance(p, proc[p].tx, n) BY <1>3, <2>0 DEF Miss
  <2> DEFINE i == proc[p].pc + 1 + n
  <2>4. CASE i > Len(prog) BY <2>2, <2>4 DEF Advance, End
  <2>5. CASE ~(i > Len(prog))
    <3>1. i \in 1..Len(prog) /\ i > proc[p].pc /\ ~Needs(prog[i]) BY <1>1, <2>0, <2>1, <2>5
    <3>2. proc' = [proc EXCEPT ![p] = [cmd |-> proc[p].cmd, pc |-> i, tx |-> proc[p].tx]]
      BY <2>2, <2>5 DEF Advance
    <3> QED BY <1>1, <3>1, <3>2 DEF Lands
  <2> QED BY <2>4, <2>5
<1>4. CASE Step(p).fail \notin {"abort", "skip"}
  <2> DEFINE c == Step(p).fail
  <2>1. c \in Landings /\ c \in Commands(contract) BY <1>0, <1>1, <1>4, CommandsHave DEF Legit
  <2>2. Stands(Program(contract, c), Made(c)) BY <1>0, <2>1, ProgramStands
  <2>3. 1 \in 1..Len(Program(contract, c)) /\ ~Needs(Program(contract, c)[1])
    <3>1. 1 \in 1..Len(Program(contract, c))
      <4>1. PICK S : Program(contract, c) \in Seq(S) BY <2>2 DEF Stands, Sound
      <4>2. Program(contract, c) # <<>> BY <2>2 DEF Stands, Sound
      <4> QED BY <4>1, <4>2
    <3> QED BY <2>2, <3>1 DEF Stands, Sound
  <2>4. proc' = [proc EXCEPT ![p] = [cmd |-> c, pc |-> 1, tx |-> proc[p].tx]]
    BY <1>4 DEF Miss
  <2> QED BY <2>1, <2>3, <2>4 DEF Lands
<1> QED BY <1>2, <1>3, <1>4

\* A step of p, seen from outside: the other process keeps its place.
Moves(p) == \/ End(p)
            \/ \E t \in Transactions : GoesOn(p, t)
            \/ \E c, i : Lands(p, c, i)

\* A process that moves leaves the other one where it is.
LEMMA MovesAlone ==
    ASSUME TypeOK, NEW p \in Procs, Moves(p)
    PROVE  \A q \in Procs \ {p} : proc'[q] = proc[q]
BY DEF Moves, End, GoesOn, Lands, TypeOK

-----------------------------------------------------------------------------
(* Type correctness. *)

ProcOK ==
    /\ proc \in [Procs -> [cmd : Commands(contract) \cup {""}, pc : Nat,
                           tx : Transactions \cup {NoTx}]]
    /\ \A p \in Procs : Busy(p) =>
            /\ proc[p].tx # NoTx
            /\ proc[p].pc \in 1..Len(Program(contract, proc[p].cmd))

\* The sets of transactions and hosts depend on the contract alone.
LEMMA SameTypes ==
    ASSUME contract' = contract
    PROVE  Transactions' = Transactions /\ Hosts' = Hosts
BY DEF Transactions, Hosts

\* A process that moves stays within its program.
LEMMA ProcKept ==
    ASSUME TypeOK, contract' = contract, NEW p \in Procs, Busy(p), Moves(p)
    PROVE  ProcOK'
<1> DEFINE C == Commands(contract) \cup {""}
           T == Transactions \cup {NoTx}
           Place(r) == /\ r \in [cmd : C, pc : Nat, tx : T]
                       /\ r.cmd # "" => /\ r.tx # NoTx
                                        /\ r.pc \in 1..Len(Program(contract, r.cmd))
<1>0. contract \in Contracts /\ NoTx \notin Transactions BY Apart DEF TypeOK
<1>1. PICK r : proc' = [proc EXCEPT ![p] = r] /\ Place(r)
  <2>0. /\ proc[p].cmd \in Commands(contract) /\ proc[p].tx \in Transactions
        /\ proc[p].pc \in Nat
    BY AtWork DEF TypeOK
  <2>1. CASE End(p)
    <3>1. Place(Idle) BY DEF Idle
    <3> QED BY <2>1, <3>1 DEF End
  <2>2. ASSUME NEW t \in Transactions, GoesOn(p, t)
        PROVE  \E r : proc' = [proc EXCEPT ![p] = r] /\ Place(r)
    <3> DEFINE r == [cmd |-> proc[p].cmd, pc |-> proc[p].pc + 1, tx |-> t]
    <3>1. r.cmd = proc[p].cmd /\ r.pc = proc[p].pc + 1 /\ r.tx = t OBVIOUS
    <3>0. PICK n \in Nat : proc[p].pc + 1 = n BY <2>0
    <3>2. r \in [cmd : C, pc : Nat, tx : T] BY <2>0, <3>0
    <3> HIDE DEF r
    <3>3. Place(r) BY <2>2, <3>1, <3>2, <1>0 DEF GoesOn
    <3> QED BY <2>2, <3>3 DEF GoesOn, r
  <2>3. ASSUME NEW c, NEW i, Lands(p, c, i)
        PROVE  \E r : proc' = [proc EXCEPT ![p] = r] /\ Place(r)
    <3> DEFINE r == [cmd |-> c, pc |-> i, tx |-> proc[p].tx]
    <3>1. r.cmd = c /\ r.pc = i /\ r.tx = proc[p].tx OBVIOUS
    <3>2. c \in Commands(contract) /\ i \in 1..Len(Program(contract, c)) BY <2>3 DEF Lands
    <3>3. Len(Program(contract, c)) \in Nat
      BY <1>0, <3>2, ProgramStands DEF Stands, Sound
    <3>4. i \in Nat BY <3>2, <3>3
    <3>5. r \in [cmd : C, pc : Nat, tx : T] BY <2>0, <3>2, <3>4
    <3> HIDE DEF r
    <3>6. Place(r) BY <2>0, <3>1, <3>2, <3>5, <1>0
    <3> QED BY <2>3, <3>6 DEF Lands, r
  <2> QED BY <2>1, <2>2, <2>3 DEF Moves
<1>2. proc \in [Procs -> [cmd : C, pc : Nat, tx : T]] BY DEF TypeOK
<1>3. proc' \in [Procs -> [cmd : C, pc : Nat, tx : T]] BY <1>1, <1>2
<1>4. ASSUME NEW q \in Procs, proc'[q].cmd # ""
      PROVE  /\ proc'[q].tx # NoTx
             /\ proc'[q].pc \in 1..Len(Program(contract, proc'[q].cmd))
  <2>1. CASE q = p BY <2>1, <1>1, <1>2, <1>4
  <2>2. CASE q # p BY <2>2, <1>1, <1>2, <1>4 DEF TypeOK, Busy
  <2> QED BY <2>1, <2>2
<1> QED BY <1>3, <1>4, SameTypes DEF ProcOK, Busy

\* Every mutation, whole, in part or not at all: the files, the one-shot and
\* the swap it may leave behind are those it is announced for.
LEMMA SpoiledHost ==
    ASSUME host \in Hosts, NEW op \in Ops, NEW h \in Spoiled(op)
    PROVE  /\ h \in Hosts /\ h.boot = host.boot
           /\ \A x \in Owned : h.owned[x] # "absent" =>
                 host.owned[x] # "absent" \/ op = Op("create", x)
           /\ h.oneShot # "none" =>
                 h.oneShot = host.oneShot \/ op = Op("oneshot", h.oneShot)
           /\ h.swapOn => host.swapOn \/ op = Op("swap", "on")
<1>1. CASE \E x \in Owned : op = Op("create", x)
  <2>1. PICK x \in Owned : op = Op("create", x) BY <1>1
  <2>2. op.act = "create" /\ op.on = x BY <2>1, OpParts
  <2>3. PICK v \in {"absent", "partial", "exact"} : h = host \/ h = [host EXCEPT !.owned[x] = v]
    BY <2>2 DEF Spoiled, Effect
  <2> QED BY <2>1, <2>3 DEF Hosts
<1>2. CASE \E x \in Owned : op = Op("remove", x)
  <2>1. PICK x \in Owned : op = Op("remove", x) BY <1>2
  <2>2. op.act = "remove" /\ op.on = x BY <2>1, OpParts
  <2>3. h = host \/ h = [host EXCEPT !.owned[x] = "absent"]
    BY <2>2 DEF Spoiled, Effect
  <2> QED BY <2>1, <2>3 DEF Hosts
<1>3. CASE \E e \in {"experimental", "baseline", "none"} : op = Op("oneshot", e)
  <2>1. PICK e \in {"experimental", "baseline", "none"} : op = Op("oneshot", e) BY <1>3
  <2>2. op.act = "oneshot" /\ op.on = e BY <2>1, OpParts
  <2>3. h = host \/ h = [host EXCEPT !.oneShot = e] BY <2>2 DEF Spoiled, Effect
  <2> QED BY <2>1, <2>3 DEF Hosts
<1>4. CASE \E z \in {"off", "parameters", "on"} : op = Op("zswap", z)
  <2>1. PICK z \in {"off", "parameters", "on"} : op = Op("zswap", z) BY <1>4
  <2>2. op.act = "zswap" /\ op.on = z BY <2>1, OpParts
  <2>3. host.zswap \in BOOLEAN BY DEF Hosts
  <2>4. PICK v \in BOOLEAN : h = host \/ h = [host EXCEPT !.zswap = v]
    BY <2>2, <2>3 DEF Spoiled, Effect
  <2> QED BY <2>4 DEF Hosts
<1>5. CASE \E s \in {"on", "off"} : op = Op("swap", s)
  <2>1. PICK s \in {"on", "off"} : op = Op("swap", s) BY <1>5
  <2>2. op.act = "swap" /\ op.on = s BY <2>1, OpParts
  <2>3. h = host \/ h = [host EXCEPT !.swapOn = (s = "on")] BY <2>2 DEF Spoiled, Effect
  <2> QED BY <2>1, <2>3 DEF Hosts
<1> QED BY <1>1, <1>2, <1>3, <1>4, <1>5 DEF Ops

\* Type correctness of a step, from that of its parts.
LEMMA TypeFrom ==
    ASSUME contract \in Contracts, contract' = contract,
           disk' \in Transactions \cup {NoTx}, cand' \in Transactions \cup {NoTx, Torn},
           files' \subseteq Documents, host' \in Hosts, ProcOK',
           sealed' \in Transactions \cup {NoTx},
           budget' \in [reboots : 0..MaxReboots[contract], deaths : 0..MaxDeaths,
                        faults : 0..MaxFaults],
           overlapped' \in BOOLEAN
    PROVE  TypeOK'
BY SameTypes DEF TypeOK, ProcOK

\* Processes that do not move keep their type.
LEMMA ProcStays ==
    ASSUME TypeOK, contract' = contract, proc' = proc PROVE ProcOK'
BY SameTypes DEF TypeOK, ProcOK, Busy

-----------------------------------------------------------------------------
(* A command that loads the transaction. *)

\* The transaction that is loaded is the one on disk or the intact candidate,
\* which succeeds it.
LEMMA Loads ==
    ASSUME Inv, Loadable
    PROVE  /\ Loaded \in Transactions /\ "root" \in files
           /\ Loaded.evidence \subseteq files
           /\ OnDisk => Has(Loaded)
           /\ disk # NoTx => /\ disk.intents \subseteq Loaded.intents
                             /\ \/ Loaded.stage = disk.stage
                                \/ LegalTransition(disk.stage, Loaded.stage)
<1>1. /\ disk \in Transactions \cup {NoTx} /\ cand \in Transactions \cup {NoTx, Torn}
      /\ contract \in Contracts
  BY DEF Inv, TypeOK
<1>2. CASE cand = NoTx
  <2>1. Loaded = disk /\ disk # NoTx BY <1>2 DEF Loadable, Loaded
  <2> QED BY <1>1, <2>1 DEF Inv, RootFirst, Filed, OnDisk
<1>3. CASE cand # NoTx
  <2>1. Loaded = cand /\ cand # Torn BY <1>3 DEF Loadable, Loaded
  <2>2. Loaded \in Transactions /\ Whole(cand) BY <1>1, <1>3, <2>1 DEF Whole
  <2>3. "root" \in files BY <1>3 DEF Inv, RootFirst
  <2>4. Loaded.evidence \subseteq files BY <2>1, <2>2 DEF Inv, Filed
  <2>5. OnDisk => Has(Loaded) BY <2>1, <2>2 DEF OnDisk
  <2>6. disk # NoTx => /\ disk.intents \subseteq Loaded.intents
                       /\ \/ Loaded.stage = disk.stage
                          \/ LegalTransition(disk.stage, Loaded.stage)
    BY <1>3, <2>1 DEF Loadable, RecordsExtend
  <2> QED BY <2>2, <2>3, <2>4, <2>5, <2>6
<1> QED BY <1>2, <1>3

\* What the commands that load it have in common.
Begun(p, cmd) ==
    /\ Launch(p, cmd) /\ cmd \in Commands(contract)
    /\ cmd = "apply" => p = "operator" /\ contract # "v2" /\ Has(Loaded)
    /\ p = "unit" => host.owned["swapfile"] = "exact"
    /\ host' = host \/ host' = [host EXCEPT !.unitRan = TRUE]
    /\ UNCHANGED <<files, sealed, contract, budget>>

LoadingCommand ==
    \/ Apply \/ SelectOneShot \/ PostBootValidate \/ SelectBaselineRollback
    \/ VerifyFinalRestore \/ Recover \/ VerifyIdempotence \/ ExperimentalActivate

\* recovery_action names nothing but the two removals, the cleanup and the way
\* back to the baseline.
LEMMA RecoveryCommands ==
    ASSUME contract \in Contracts PROVE RecoveryCommand \in {"", "remove", "clear", "cleanup", "baseline"}
<1>1. contract \in {"v2", "v3", "v5", "v6"} BY LifecycleAssumption
<1>2. ASSUME NEW stage, NEW experimental
      PROVE  RecoveryActionV2(stage, experimental) \in {"", "remove", "clear", "cleanup", "baseline"}
  BY DEF RecoveryActionV2
<1> QED BY <1>1, <1>2
        DEF RecoveryCommand, RecoveryAction, RecoveryActionV3, RecoveryActionV5, RecoveryActionV6

\* Every command that loads the transaction is a launch, and apply is launched
\* by the operator with the baseline named.
LEMMA CommandBegins ==
    ASSUME TypeOK, LoadingCommand PROVE \E p \in Procs : \E cmd : Begun(p, cmd)
<1>0. /\ contract \in Contracts /\ {"operator", "unit"} \subseteq Procs
      /\ {"activate", "remove", "clear", "apply", "one_shot", "post_boot",
          "baseline", "cleanup"} \subseteq Commands(contract)
      /\ "operator" # "unit" /\ "" \notin Commands(contract)
  BY CommandsHave DEF TypeOK, Procs
<1>1. CASE Apply BY <1>0, <1>1 DEF Apply, Begun, Has
<1>2. CASE SelectOneShot BY <1>0, <1>2 DEF SelectOneShot, Begun
<1>3. CASE PostBootValidate BY <1>0, <1>3 DEF PostBootValidate, Begun
<1>4. CASE SelectBaselineRollback BY <1>0, <1>4 DEF SelectBaselineRollback, Begun
<1>5. CASE VerifyFinalRestore BY <1>0, <1>5 DEF VerifyFinalRestore, Begun
<1>6. CASE Recover
  <2>1. RecoveryCommand \in {"remove", "clear", "cleanup", "baseline"}
    BY <1>0, <1>6, RecoveryCommands DEF Recover
  <2> QED BY <1>0, <1>6, <2>1 DEF Recover, Begun
<1>7. CASE VerifyIdempotence BY <1>0, <1>7 DEF VerifyIdempotence, Begun
<1>8. CASE ExperimentalActivate
  BY <1>0, <1>8 DEF ExperimentalActivate, ActivationAllowed, Begun
<1> QED BY <1>1, <1>2, <1>3, <1>4, <1>5, <1>6, <1>7, <1>8 DEF LoadingCommand

\* The first step of a program needs nothing before it.
LEMMA FirstCalm ==
    ASSUME NEW c \in Contracts, NEW cmd \in Commands(c)
    PROVE  1 \in 1..Len(Program(c, cmd)) /\ ~Needs(Program(c, cmd)[1])
<1>1. Stands(Program(c, cmd), Made(cmd)) BY ProgramStands
<1>2. PICK S : Program(c, cmd) \in Seq(S) BY <1>1 DEF Stands, Sound
<1>3. Program(c, cmd) # <<>> BY <1>1 DEF Stands, Sound
<1>4. 1 \in 1..Len(Program(c, cmd)) BY <1>2, <1>3
<1> QED BY <1>1, <1>4 DEF Stands, Sound

\* A command that loads the transaction keeps the invariant.
LEMMA BegunKeeps ==
    ASSUME Inv, NEW p \in Procs, NEW cmd, Begun(p, cmd) PROVE Inv'
<1> DEFINE t == Loaded
<1>0. /\ TypeOK /\ contract \in Contracts /\ contract' = contract /\ files' = files
      /\ NoTx \notin Transactions /\ host \in Hosts
      /\ proc \in [Procs -> [cmd : Commands(contract) \cup {""}, pc : Nat,
                             tx : Transactions \cup {NoTx}]]
  BY Apart DEF Inv, TypeOK, Begun
<1>1. /\ Loadable /\ disk' = t /\ cand' = NoTx /\ cmd \in Commands(contract)
      /\ proc' = [proc EXCEPT ![p] = [cmd |-> cmd, pc |-> 1, tx |-> t]]
      /\ overlapped' = (overlapped \/ \E q \in Procs : Busy(q))
  BY DEF Begun, Launch
<1>2. /\ t \in Transactions /\ "root" \in files /\ t.evidence \subseteq files
      /\ OnDisk => Has(t)
      /\ disk # NoTx => disk.intents \subseteq t.intents
  BY <1>1, Loads
<1> HIDE DEF t
<1>3. /\ host' \in Hosts /\ host'.owned = host.owned /\ host'.oneShot = host.oneShot
      /\ host'.swapOn = host.swapOn /\ host'.boot = host.boot
  BY <1>0 DEF Begun, Hosts
<1>4. /\ proc'[p].cmd = cmd /\ proc'[p].pc = 1 /\ proc'[p].tx = t
      /\ \A q \in Procs \ {p} : proc'[q] = proc[q]
      /\ cmd # ""
  BY <1>0, <1>1, CommandsHave
<1>5. 1 \in 1..Len(Program(contract, cmd)) /\ ~Needs(Program(contract, cmd)[1])
  BY <1>0, <1>1, FirstCalm
<1>6. TypeOK'
  <2>1. ProcOK'
    <3>1. proc' \in [Procs -> [cmd : Commands(contract) \cup {""}, pc : Nat,
                               tx : Transactions \cup {NoTx}]]
      BY <1>0, <1>1, <1>2
    <3>2. ASSUME NEW q \in Procs, proc'[q].cmd # ""
          PROVE  /\ proc'[q].tx # NoTx
                 /\ proc'[q].pc \in 1..Len(Program(contract, proc'[q].cmd))
      <4>1. CASE q = p BY <4>1, <1>0, <1>2, <1>4, <1>5
      <4>2. CASE q # p BY <4>2, <3>2, <1>0, <1>4 DEF TypeOK, Busy
      <4> QED BY <4>1, <4>2
    <3> QED BY <3>1, <3>2, <1>0, SameTypes DEF ProcOK, Busy
  <2>2. overlapped' \in BOOLEAN BY <1>0, <1>1 DEF TypeOK
  <2>3. /\ sealed' \in Transactions \cup {NoTx} /\ files' \subseteq Documents
        /\ budget' \in [reboots : 0..MaxReboots[contract], deaths : 0..MaxDeaths,
                        faults : 0..MaxFaults]
    BY <1>0 DEF TypeOK, Begun
  <2> QED BY <2>1, <2>2, <2>3, <1>0, <1>1, <1>2, <1>3, TypeFrom
<1>7. Booted' BY <1>3 DEF Inv, Booted, Begun
<1>8. RootFirst' BY <1>0, <1>2 DEF RootFirst
<1>9. Synced'
  <2>1. SUFFICES ASSUME ~overlapped' PROVE \A q \in Procs : ~Busy(q)
    BY <1>1, <1>4 DEF Synced, Busy, Procs
  <2> QED BY <2>1, <1>1
<1>10. Announced'
  <2>1. ASSUME NEW q \in Procs, proc'[q].cmd # "", NEW s,
               s = Program(contract, proc'[q].cmd)[proc'[q].pc]
        PROVE  /\ s.k = "do" /\ s.op \in Announceable => s.op \in proc'[q].tx.intents
               /\ s.k = "save" /\ s.ev # "" => s.ev \in files
    <3>1. CASE q = p BY <3>1, <2>1, <1>4, <1>5 DEF Needs
    <3>2. CASE q # p BY <3>2, <2>1, <1>4 DEF Inv, Announced, Busy, Step
    <3> QED BY <3>1, <3>2
  <2> QED BY <2>1, <1>0 DEF Announced, Busy, Step
<1>11. Filed'
  <2>1. ASSUME NEW q \in Procs, proc'[q].cmd # "" PROVE proc'[q].tx.evidence \subseteq files
    BY <2>1, <1>2, <1>4 DEF Inv, Filed, Busy
  <2> QED BY <2>1, <1>0, <1>1, <1>2 DEF Filed, Busy, Whole
<1>12. BaselineFirst'
  <2>0. "swapfile" \in Owned \ {"helper"} BY DEF Owned
  <2>1. Built' <=> Built BY <1>3 DEF Built
  <2>2. p = "unit" => Built BY <2>0 DEF Begun, Built
  <2>3. Built \/ Building => OnDisk BY DEF Inv, BaselineFirst
  <2>4. Built \/ (Building /\ p = "unit") \/ cmd = "apply" => Has(t)
    BY <2>3, <1>2 DEF Begun, t
  <2>5. disk' # NoTx /\ ~Whole(cand)' BY <1>0, <1>1, <1>2 DEF Whole
  <2>6. Has(t) => OnDisk' BY <1>0, <1>1, <2>5 DEF OnDisk, Has
  <2>7. Busy("unit")' => Has(proc["unit"].tx)' /\ proc'["unit"].cmd # "apply"
    BY <2>2, <2>4, <1>0, <1>4 DEF Inv, BaselineFirst, Busy, Has, Begun, Procs
  <2>8. Building' => OnDisk' /\ Has(proc["operator"].tx)'
    <3>1. CASE p = "operator" BY <3>1, <2>4, <2>6, <1>0, <1>4 DEF Building, Has
    <3>2. CASE p = "unit"
      BY <3>2, <2>4, <2>6, <1>0, <1>4 DEF Inv, BaselineFirst, Building, Has, Busy, Procs
    <3> QED BY <3>1, <3>2 DEF Procs
  <2>9. Built' => OnDisk' /\ (Busy("operator")' => Has(proc["operator"].tx)')
    <3>1. CASE p = "operator" BY <3>1, <2>1, <2>4, <2>6, <1>0, <1>4 DEF Has
    <3>2. CASE p = "unit"
      BY <3>2, <2>1, <2>4, <2>6, <1>0, <1>4 DEF Inv, BaselineFirst, Has, Busy, Procs
    <3> QED BY <3>1, <3>2 DEF Procs
  <2> QED BY <2>7, <2>8, <2>9 DEF BaselineFirst
<1>13. WriteAhead'
  <2>1. \A op : Recorded(op) => Recorded(op)' BY <1>0, <1>1, <1>2 DEF Recorded
  <2>2. ~overlapped' => ~overlapped BY <1>1
  <2> QED BY <2>1, <2>2, <1>0, <1>3 DEF Inv, WriteAhead
<1> QED BY <1>6, <1>7, <1>8, <1>9, <1>10, <1>11, <1>12, <1>13 DEF Inv

\* So does one that stops at its own conditions after load_transaction.
LEMMA LoadKeeps ==
    ASSUME Inv, Load PROVE Inv'
<1>0. /\ TypeOK /\ contract \in Contracts /\ contract' = contract /\ files' = files
      /\ NoTx \notin Transactions /\ host' = host /\ proc' = proc /\ overlapped' = overlapped
      /\ sealed' = sealed /\ budget' = budget
  BY Apart DEF Inv, TypeOK, Load
<1>1. Loadable /\ disk' = Loaded /\ cand' = NoTx /\ cand # NoTx /\ ~Busy("operator")
  BY DEF Load
<1>2. /\ Loaded \in Transactions /\ "root" \in files /\ Loaded.evidence \subseteq files
      /\ OnDisk => Has(Loaded)
      /\ disk # NoTx => disk.intents \subseteq Loaded.intents
  BY <1>1, Loads
<1>3. \A q \in Procs : Busy(q)' <=> Busy(q) BY <1>0 DEF Busy
<1>4. TypeOK' BY <1>0, <1>1, <1>2, TypeFrom, ProcStays DEF TypeOK
<1>5. Booted' BY <1>0 DEF Inv, Booted
<1>6. RootFirst' BY <1>0, <1>2 DEF RootFirst
<1>7. Synced'
  <2>1. ~overlapped => \A q \in Procs : ~Busy(q) BY <1>1 DEF Inv, Synced
  <2> QED BY <2>1, <1>0, <1>3 DEF Synced, Procs
<1>8. Announced' BY <1>0 DEF Inv, Announced, Step, Busy
<1>9. Filed' BY <1>0, <1>1, <1>2 DEF Inv, Filed, Busy, Whole
<1>10. BaselineFirst'
  <2>1. OnDisk => OnDisk' BY <1>0, <1>1, <1>2 DEF OnDisk, Has, Whole
  <2>2. (Built' <=> Built) /\ (Building' <=> Building) BY <1>0 DEF Built, Building, Busy
  <2> QED BY <2>1, <2>2, <1>0 DEF Inv, BaselineFirst, Busy, Has
<1>11. WriteAhead'
  <2>1. \A op : Recorded(op) => Recorded(op)' BY <1>0, <1>1, <1>2 DEF Recorded
  <2> QED BY <2>1, <1>0 DEF Inv, WriteAhead
<1> QED BY <1>4, <1>5, <1>6, <1>7, <1>8, <1>9, <1>10, <1>11 DEF Inv

-----------------------------------------------------------------------------
(* The command that begins the transaction, and what happens around the       *)
(* commands.                                                                 *)

\* A preflight passes only where no transaction was begun and Nemor owns
\* nothing.
LEMMA PreflightMeans ==
    ASSUME contract \in Contracts, NEW begun \in BOOLEAN, NEW alone \in BOOLEAN,
           PreflightReady(contract, CollectPreflight(host, begun, alone))
    PROVE  ~begun /\ \A x \in Owned : host.owned[x] = "absent"
<1>1. contract \in {"v2", "v3", "v5", "v6"} BY LifecycleAssumption
<1>2. PreflightReadyV2(CollectPreflight(host, begun, alone))
  BY <1>1 DEF PreflightReady, PreflightReadyV3, PreflightReadyV5, PreflightReadyV6
<1> QED BY <1>2 DEF PreflightReadyV2, CollectPreflight

\* The command that begins the transaction keeps the invariant.
LEMMA MeasureKeeps ==
    ASSUME Inv, MeasureBaseline PROVE Inv'
<1> DEFINE t == Fresh(contract, host.boot)
           cmd == First(contract)
<1>0. /\ TypeOK /\ contract \in Contracts /\ host \in Hosts
      /\ proc \in [Procs -> [cmd : Commands(contract) \cup {""}, pc : Nat,
                             tx : Transactions \cup {NoTx}]]
      /\ NoTx \notin Transactions /\ "operator" \in Procs
  BY Apart DEF Inv, TypeOK, Procs
<1>1. /\ contract' = contract /\ files' = files /\ disk' = disk /\ cand' = cand
      /\ host' = host /\ overlapped' = overlapped /\ sealed' = sealed /\ budget' = budget
      /\ proc' = [proc EXCEPT !["operator"] = [cmd |-> cmd, pc |-> 1, tx |-> t]]
  BY DEF MeasureBaseline, First
<1>2. "root" \notin files /\ \A x \in Owned : host.owned[x] = "absent"
  <2>1. ("root" \in files) \in BOOLEAN /\ (~Busy("unit")) \in BOOLEAN BY DEF Busy
  <2> QED BY <2>1, <1>0, PreflightMeans DEF MeasureBaseline
<1>3. disk = NoTx /\ cand = NoTx /\ ~Busy("unit") BY <1>2 DEF Inv, RootFirst
<1>4. t \in Transactions /\ t.intents = {} /\ t.evidence = {}
  BY <1>0, FreshHas DEF Hosts
<1>5. /\ cmd \in Commands(contract) /\ cmd # ""
      /\ 1 \in 1..Len(Program(contract, cmd)) /\ ~Needs(Program(contract, cmd)[1])
  BY <1>0, CommandsHave, FirstCalm
<1> HIDE DEF t, cmd
<1>6. /\ proc'["operator"].cmd = cmd /\ proc'["operator"].pc = 1 /\ proc'["operator"].tx = t
      /\ proc'["unit"] = proc["unit"]
      /\ \A q \in Procs \ {"operator"} : q = "unit" /\ proc'[q] = proc[q] /\ ~Busy(q)
  BY <1>0, <1>1, <1>3 DEF Procs
<1>7. TypeOK'
  <2>1. ProcOK'
    <3>1. proc' \in [Procs -> [cmd : Commands(contract) \cup {""}, pc : Nat,
                               tx : Transactions \cup {NoTx}]]
      BY <1>0, <1>1, <1>4, <1>5
    <3>2. ASSUME NEW q \in Procs, proc'[q].cmd # ""
          PROVE  /\ proc'[q].tx # NoTx
                 /\ proc'[q].pc \in 1..Len(Program(contract, proc'[q].cmd))
      <4>1. CASE q = "operator" BY <4>1, <1>0, <1>4, <1>5, <1>6
      <4>2. CASE q # "operator" BY <4>2, <3>2, <1>6 DEF Busy
      <4> QED BY <4>1, <4>2
    <3> QED BY <3>1, <3>2, <1>1, SameTypes DEF ProcOK, Busy
  <2> QED BY <2>1, <1>0, <1>1, TypeFrom DEF TypeOK
<1>8. Booted' BY <1>1 DEF Inv, Booted
<1>9. RootFirst' BY <1>1, <1>3, <1>6 DEF RootFirst, Busy, cmd
<1>10. Synced' BY <1>1, <1>3, <1>4, <1>6 DEF Synced, Busy, Procs
<1>11. Announced'
  <2>1. ASSUME NEW q \in Procs, proc'[q].cmd # ""
        PROVE  q = "operator" /\ ~Needs(Program(contract, proc'[q].cmd)[proc'[q].pc])
    BY <2>1, <1>5, <1>6 DEF Busy
  <2> QED BY <2>1, <1>1 DEF Announced, Busy, Step, Needs
<1>12. Filed'
  <2>1. ASSUME NEW q \in Procs, proc'[q].cmd # "" PROVE proc'[q].tx.evidence \subseteq files
    BY <2>1, <1>4, <1>6 DEF Busy
  <2> QED BY <2>1, <1>1, <1>3 DEF Filed, Busy, Whole
<1>13. BaselineFirst'
  <2>1. ~Built' BY <1>1, <1>2 DEF Built
  <2>2. ~Building'
    BY <1>1, <1>6 DEF Building, First, cmd
  <2> QED BY <2>1, <2>2, <1>3, <1>6 DEF BaselineFirst, Busy
<1>14. WriteAhead' BY <1>1 DEF Inv, WriteAhead, Recorded
<1> QED BY <1>7, <1>8, <1>9, <1>10, <1>11, <1>12, <1>13, <1>14 DEF Inv

\* The unit that refuses or leaves no trace, and a reboot: only the host and
\* the budget change.
LEMMA AroundKeeps ==
    ASSUME Inv, ActivationRefused \/ ActivateUnrecorded \/ Reboot PROVE Inv'
<1>0. /\ TypeOK /\ contract \in Contracts /\ host \in Hosts
      /\ budget \in [reboots : 0..MaxReboots[contract], deaths : 0..MaxDeaths,
                     faults : 0..MaxFaults]
      /\ MaxReboots[contract] \in Nat /\ MaxFaults \in Nat
      /\ host.boot = budget.reboots
  BY LifecycleAssumption DEF Inv, TypeOK, Booted
<1>1. /\ contract' = contract /\ files' = files /\ disk' = disk /\ cand' = cand
      /\ proc' = proc /\ overlapped' = overlapped /\ sealed' = sealed
  BY DEF ActivationRefused, ActivateUnrecorded, Reboot
<1>2. /\ host' \in Hosts /\ host'.boot = budget'.reboots /\ host'.owned = host.owned
      /\ host'.oneShot \in {host.oneShot, "none"}
      /\ host'.swapOn => host.swapOn \/ contract = "v2"
      /\ budget' \in [reboots : 0..MaxReboots[contract], deaths : 0..MaxDeaths,
                      faults : 0..MaxFaults]
  <2>1. CASE ActivationRefused
    <3>1. host' = [host EXCEPT !.unitRan = TRUE] BY <2>1 DEF ActivationRefused
    <3>2. budget' = budget \/ (budget.faults < MaxFaults /\ budget' = [budget EXCEPT !.faults = @ + 1])
      BY <2>1 DEF ActivationRefused
    <3>3. host' \in Hosts /\ host'.owned = host.owned /\ host'.oneShot = host.oneShot
          /\ host'.swapOn = host.swapOn /\ host'.boot = host.boot
      BY <3>1, <1>0 DEF Hosts
    <3>4. budget'.reboots = budget.reboots
          /\ budget' \in [reboots : 0..MaxReboots[contract], deaths : 0..MaxDeaths,
                          faults : 0..MaxFaults]
      BY <3>2, <1>0
    <3> QED BY <3>3, <3>4, <1>0
  <2>2. CASE ActivateUnrecorded BY <2>2, <1>0 DEF ActivateUnrecorded, Hosts
  <2>3. CASE Reboot
    <3>1. /\ budget.reboots < MaxReboots[contract]
          /\ budget' = [budget EXCEPT !.reboots = @ + 1]
      BY <2>3 DEF Reboot
    <3>2. PICK e \in BOOLEAN, f \in {"baseline", "experimental"} :
            host' = [host EXCEPT !.oneShot = "none", !.swapOn = FALSE, !.unitRan = FALSE,
                        !.entry = f, !.zswap = e, !.boot = @ + 1, !.tried = @ \/ e]
      BY <2>3 DEF Reboot
    <3>3. host.boot + 1 \in 0..MaxReboots[contract] BY <3>1, <1>0
    <3>4. host' \in Hosts /\ host'.owned = host.owned /\ host'.oneShot = "none"
          /\ host'.swapOn = FALSE /\ host'.boot = host.boot + 1
      BY <3>2, <3>3, <1>0 DEF Hosts
    <3>5. budget'.reboots = budget.reboots + 1
          /\ budget' \in [reboots : 0..MaxReboots[contract], deaths : 0..MaxDeaths,
                          faults : 0..MaxFaults]
      BY <3>1, <3>3, <1>0
    <3> QED BY <3>4, <3>5, <1>0
  <2> QED BY <2>1, <2>2, <2>3
<1>3. TypeOK' BY <1>0, <1>1, <1>2, TypeFrom, ProcStays DEF TypeOK
<1>4. Booted' BY <1>2 DEF Booted
<1>5. RootFirst' /\ Synced' /\ Filed' BY <1>1 DEF Inv, RootFirst, Synced, Filed, Busy, Whole
<1>6. Announced' BY <1>1 DEF Inv, Announced, Step, Busy
<1>7. BaselineFirst'
  BY <1>1, <1>2 DEF Inv, BaselineFirst, OnDisk, Has, Whole, Built, Building, Busy
<1>8. WriteAhead' BY <1>1, <1>2 DEF Inv, WriteAhead, Recorded
<1> QED BY <1>3, <1>4, <1>5, <1>6, <1>7, <1>8 DEF Inv

-----------------------------------------------------------------------------
(* The steps of a command. *)

\* A step that needs something before it is reached from the step that does
\* it.
LEMMA NextPrepared ==
    ASSUME TypeOK, NEW p \in Procs, Busy(p), NEW t, GoesOn(p, t),
           Needs(Program(contract, proc[p].cmd)[proc[p].pc + 1])
    PROVE  Prepares(Step(p), Program(contract, proc[p].cmd)[proc[p].pc + 1])
<1> DEFINE prog == Program(contract, proc[p].cmd)
<1>1. /\ Stands(prog, Made(proc[p].cmd)) /\ Len(prog) \in Nat /\ proc[p].pc \in 1..Len(prog)
      /\ proc[p].pc + 1 \in 1..Len(prog) /\ (proc[p].pc + 1) - 1 = proc[p].pc
  BY AtWork DEF GoesOn
<1> HIDE DEF prog
<1>2. Prepares(prog[(proc[p].pc + 1) - 1], prog[proc[p].pc + 1])
  BY <1>1 DEF Stands, Sound, prog
<1> QED BY <1>1, <1>2 DEF Step, prog

\* Before the root exists there is nothing but the step that creates it.
LEMMA RootStep ==
    ASSUME Inv, NEW p \in Procs, Busy(p), "root" \notin files
    PROVE  p = "operator" /\ Step(p).k = "put" /\ Step(p).ev = "root"
<1>1. contract \in Contracts BY DEF Inv, TypeOK
<1>2. p = "operator" /\ proc[p].cmd = First(contract) /\ proc[p].pc = 1
  BY DEF Inv, RootFirst, Procs
<1>3. Step(p) = Put("root") BY <1>1, <1>2, FirstSteps DEF Step
<1> QED BY <1>2, <1>3 DEF Put, Plain

\* The apply of v2 names its baseline in its fifth step.
LEMMA EarlySteps ==
    ASSUME TypeOK, contract = "v2", NEW p \in Procs, Busy(p), proc[p].cmd = "apply",
           proc[p].pc <= 5
    PROVE  /\ Step(p).k \in {"put", "save"}
           /\ proc[p].pc = 5 => Step(p).k = "save" /\ Step(p).ev = BaselineDocument[contract]
<1>1. contract \in Contracts /\ First(contract) = "apply" BY DEF TypeOK, First
<1>2. proc[p].pc \in 1..5
  <2>1. proc[p].pc \in 1..Len(Program(contract, proc[p].cmd))
        /\ Len(Program(contract, proc[p].cmd)) \in Nat
    BY AtWork
  <2> QED BY <2>1
<1>3. Step(p) = Program(contract, "apply")[proc[p].pc] BY DEF Step
<1>4. /\ proc[p].pc \in {1, 3, 4} => \E d : Step(p) = Put(d)
      /\ proc[p].pc = 2 => Step(p) = Plain
      /\ proc[p].pc = 5 => Step(p) = NoteTo("preflight", "RootPreflighted")
  BY <1>1, <1>3, FirstSteps
<1>5. /\ \A d : Put(d).k = "put" /\ \A s : NoteTo(d, s).k = "save" /\ NoteTo(d, s).ev = d
      /\ Plain.k = "save"
  BY DEF Put, NoteTo, Plain
<1>6. BaselineDocument[contract] = "preflight" BY DEF BaselineDocument
<1> QED BY <1>2, <1>4, <1>5, <1>6

\* What a step that writes no transaction does to the process.
Steps(p) ==
    \/ End(p)
    \/ /\ GoesOn(p, proc[p].tx)
       /\ Step(p).k # "save" /\ (Step(p).k = "put" => Step(p).ev \in files')
    \/ Step(p).k \in {"do", "check"} /\ \E c, i : Lands(p, c, i)

\* A process of which a step is the place r it moved to, or none.
LEMMA Place ==
    ASSUME TypeOK, NEW p \in Procs, Busy(p), Steps(p)
    PROVE  /\ Moves(p)
           /\ proc'[p].cmd # "" =>
                /\ proc'[p].tx = proc[p].tx
                /\ \/ /\ proc'[p].cmd = proc[p].cmd /\ proc'[p].pc = proc[p].pc + 1
                      /\ Step(p).k # "save" /\ (Step(p).k = "put" => Step(p).ev \in files')
                      /\ GoesOn(p, proc[p].tx)
                   \/ /\ ~Needs(Program(contract, proc'[p].cmd)[proc'[p].pc])
                      /\ Step(p).k \in {"do", "check"}
                      /\ proc'[p].cmd = proc[p].cmd \/ proc'[p].cmd \in Landings
<1>0. /\ proc \in [Procs -> [cmd : Commands(contract) \cup {""}, pc : Nat,
                             tx : Transactions \cup {NoTx}]]
      /\ proc[p].tx \in Transactions
  BY AtWork DEF TypeOK
<1>1. CASE End(p) BY <1>0, <1>1 DEF End, Idle, Moves
<1>2. CASE GoesOn(p, proc[p].tx) /\ Step(p).k # "save" /\ (Step(p).k = "put" => Step(p).ev \in files')
  <2>1. proc'[p] = [cmd |-> proc[p].cmd, pc |-> proc[p].pc + 1, tx |-> proc[p].tx]
    BY <1>0, <1>2 DEF GoesOn
  <2>2. Moves(p) BY <1>0, <1>2 DEF Moves
  <2>3. /\ proc'[p].cmd = proc[p].cmd /\ proc'[p].pc = proc[p].pc + 1
        /\ proc'[p].tx = proc[p].tx
    BY <2>1
  <2> QED BY <1>2, <2>2, <2>3
<1>3. CASE Step(p).k \in {"do", "check"} /\ \E c, i : Lands(p, c, i)
  <2>1. PICK c, i : Lands(p, c, i) BY <1>3
  <2>2. proc'[p] = [cmd |-> c, pc |-> i, tx |-> proc[p].tx] BY <1>0, <2>1 DEF Lands
  <2>3. ~Needs(Program(contract, c)[i]) /\ (c = proc[p].cmd \/ c \in Landings)
    BY <2>1 DEF Lands
  <2>4. proc'[p].cmd = c /\ proc'[p].pc = i /\ proc'[p].tx = proc[p].tx BY <2>2
  <2> QED BY <1>3, <2>1, <2>3, <2>4 DEF Moves
<1> QED BY <1>1, <1>2, <1>3 DEF Steps

\* A step that writes no transaction keeps what concerns the processes and the
\* documents, if it builds nothing but what apply builds.
LEMMA StepKeeps ==
    ASSUME Inv, NEW p \in Procs, Busy(p), Steps(p),
           UNCHANGED <<disk, cand, contract, overlapped>>, files \subseteq files',
           "root" \in files' \/ End(p), Built' => Built \/ (p = "operator" /\ Building)
    PROVE  /\ ProcOK' /\ RootFirst' /\ Synced' /\ Announced' /\ Filed'
           /\ BaselineFirst'
<1>0. /\ TypeOK /\ contract \in Contracts /\ contract' = contract /\ disk' = disk
      /\ cand' = cand /\ overlapped' = overlapped
  BY DEF Inv, TypeOK
<1> DEFINE next == Program(contract, proc'[p].cmd)[proc'[p].pc]
<1>1. Moves(p) BY <1>0, Place
<1>2. \A q \in Procs \ {p} : proc'[q] = proc[q] BY <1>0, <1>1, MovesAlone
<1>3. ProcOK' BY <1>0, <1>1, ProcKept
<1>4. ASSUME proc'[p].cmd # ""
      PROVE  /\ proc'[p].tx = proc[p].tx
             /\ next.k = "do" => next.op \notin Announceable
             /\ next.k = "save" /\ next.ev # "" => next.ev \in files'
             /\ proc'[p].cmd = "apply" => proc[p].cmd = "apply"
             /\ contract = "v2" /\ proc'[p].cmd = "apply" /\ proc'[p].pc > 5 => proc[p].pc > 5
  <2>1. proc'[p].tx = proc[p].tx BY <1>0, <1>4, Place
  <2>2. CASE /\ proc'[p].cmd = proc[p].cmd /\ proc'[p].pc = proc[p].pc + 1
             /\ Step(p).k # "save" /\ (Step(p).k = "put" => Step(p).ev \in files')
             /\ GoesOn(p, proc[p].tx)
    <3>1. Needs(next) => Prepares(Step(p), next) BY <1>0, <2>2, NextPrepared
    <3>2. next.k = "do" => next.op \notin Announceable BY <3>1, <2>2 DEF Needs, Prepares
    <3>3. next.k = "save" /\ next.ev # "" => next.ev \in files'
      BY <3>1, <2>2 DEF Needs, Prepares
    <3>4. ASSUME contract = "v2", proc'[p].cmd = "apply", proc'[p].pc > 5
          PROVE  proc[p].pc > 5
      <4>1. proc[p].pc \in Nat BY <1>0 DEF TypeOK
      <4>2. ASSUME proc[p].pc = 5 PROVE FALSE
        <5>1. proc[p].cmd = "apply" /\ proc[p].pc <= 5 BY <2>2, <3>4, <4>2
        <5>2. Step(p).k = "save" BY <5>1, <4>2, <3>4, <1>0, EarlySteps
        <5> QED BY <5>2, <2>2
      <4> QED BY <4>1, <4>2, <3>4, <2>2
    <3> QED BY <2>1, <2>2, <3>2, <3>3, <3>4
  <2>3. CASE /\ ~Needs(next) /\ Step(p).k \in {"do", "check"}
             /\ proc'[p].cmd = proc[p].cmd \/ proc'[p].cmd \in Landings
    <3>1. "apply" \notin Landings BY DEF Landings
    <3>2. proc[p].pc \in Nat BY <1>0 DEF TypeOK
    <3>3. contract = "v2" /\ proc[p].cmd = "apply" => proc[p].pc > 5
      BY <1>0, <2>3, <3>2, EarlySteps
    <3> QED BY <2>1, <2>3, <3>1, <3>3 DEF Needs
  <2> QED BY <1>0, <1>4, <2>2, <2>3, Place
<1> HIDE DEF next
<1>5. RootFirst'
  <2>1. CASE "root" \in files' BY <2>1 DEF RootFirst
  <2>2. CASE "root" \notin files'
    <3>1. End(p) /\ "root" \notin files BY <2>2
    <3>2. p = "operator" /\ proc'[p] = Idle BY <3>1, RootStep, <1>0 DEF End, TypeOK
    <3>3. proc'["unit"] = proc["unit"] BY <3>2, <1>2 DEF Procs
    <3>4. disk = NoTx /\ cand = NoTx /\ ~Busy("unit") BY <3>1 DEF Inv, RootFirst
    <3>5. proc'["operator"].cmd = "" /\ proc'["unit"].cmd = ""
      <4>1. proc'["operator"] = Idle /\ Idle.cmd = "" BY <3>2 DEF Idle
      <4>2. proc["unit"].cmd = "" BY <3>4 DEF Busy
      <4> QED BY <4>1, <4>2, <3>3
    <3> QED BY <3>4, <3>5, <1>0 DEF RootFirst, Busy
  <2> QED BY <2>1, <2>2
<1>6. Synced'
  <2>1. ASSUME ~overlapped, NEW q \in Procs, proc'[q].cmd # ""
        PROVE  /\ q = p /\ cand = NoTx
               /\ disk = proc'[q].tx \/ (disk = NoTx /\ proc'[q].tx.intents = {})
    <3>1. q = p
      <4>1. q # p => Busy(q) BY <2>1, <1>2 DEF Busy
      <4>2. ~(Busy("operator") /\ Busy("unit")) BY <2>1 DEF Inv, Synced
      <4>3. p \in {"operator", "unit"} /\ q \in {"operator", "unit"} BY DEF Procs
      <4> QED BY <4>1, <4>2, <4>3
    <3> QED BY <3>1, <2>1, <1>4 DEF Inv, Synced
  <2>2. ~overlapped' =>
            /\ ~(proc'["operator"].cmd # "" /\ proc'["unit"].cmd # "")
            /\ \A q \in Procs : proc'[q].cmd # "" =>
                  /\ cand' = NoTx
                  /\ disk' = proc'[q].tx \/ (disk' = NoTx /\ proc'[q].tx.intents = {})
    <3>1. ~overlapped' => ~overlapped BY <1>0
    <3>2. ~overlapped => ~(proc'["operator"].cmd # "" /\ proc'["unit"].cmd # "")
      BY <2>1 DEF Procs
    <3> QED BY <3>1, <3>2, <2>1, <1>0
  <2> QED BY <2>2 DEF Synced, Busy
<1>7. Announced'
  <2>1. ASSUME NEW q \in Procs, proc'[q].cmd # "", NEW s,
               s = Program(contract, proc'[q].cmd)[proc'[q].pc]
        PROVE  /\ s.k = "do" /\ s.op \in Announceable => s.op \in proc'[q].tx.intents
               /\ s.k = "save" /\ s.ev # "" => s.ev \in files'
    <3>1. CASE q = p BY <3>1, <2>1, <1>4 DEF next
    <3>2. CASE q # p BY <3>2, <2>1, <1>2 DEF Inv, Announced, Busy, Step
    <3> QED BY <3>1, <3>2
  <2> QED BY <2>1, <1>0 DEF Announced, Busy, Step
<1>8. Filed'
  <2>1. ASSUME NEW q \in Procs, proc'[q].cmd # "" PROVE proc'[q].tx.evidence \subseteq files'
    <3>1. CASE q = p BY <3>1, <2>1, <1>4 DEF Inv, Filed
    <3>2. CASE q # p BY <3>2, <2>1, <1>2 DEF Inv, Filed, Busy
    <3> QED BY <3>1, <3>2
  <2> QED BY <2>1, <1>0 DEF Inv, Filed, Busy, Whole
<1>9. BaselineFirst'
  <2>1. OnDisk' <=> OnDisk BY <1>0 DEF OnDisk, Has, Whole
  <2>2. ASSUME NEW q \in Procs, proc'[q].cmd # ""
        PROVE  /\ Busy(q) /\ proc'[q].tx = proc[q].tx
               /\ proc'[q].cmd = "apply" => proc[q].cmd = "apply"
               /\ contract = "v2" /\ proc'[q].cmd = "apply" /\ proc'[q].pc > 5 => proc[q].pc > 5
    <3>1. CASE q = p BY <3>1, <2>2, <1>4
    <3>2. CASE q # p BY <3>2, <2>2, <1>2 DEF Busy
    <3> QED BY <3>1, <3>2
  <2>3. Building' => Building BY <2>2, <1>0 DEF Building, Busy, Procs
  <2>4. Busy("unit")' => Has(proc["unit"].tx)' /\ proc'["unit"].cmd # "apply"
    BY <2>2, <1>0 DEF Inv, BaselineFirst, Busy, Has, Procs
  <2>5. Building' => OnDisk' /\ Has(proc["operator"].tx)'
    BY <2>1, <2>2, <2>3, <1>0 DEF Inv, BaselineFirst, Has, Building, Busy, Procs
  <2>6. Built' => OnDisk' /\ (Busy("operator")' => Has(proc["operator"].tx)')
    BY <2>1, <2>2, <1>0 DEF Inv, BaselineFirst, Has, Busy, Procs
  <2> QED BY <2>4, <2>5, <2>6 DEF BaselineFirst
<1> QED BY <1>3, <1>5, <1>6, <1>7, <1>8, <1>9

\* The budget after a fault or none.
Spent == budget' = budget \/ Fault

\* A fault stays within its bound.
LEMMA SpentFits ==
    ASSUME TypeOK, Spent
    PROVE  /\ budget' \in [reboots : 0..MaxReboots[contract], deaths : 0..MaxDeaths,
                           faults : 0..MaxFaults]
           /\ budget'.reboots = budget.reboots
<1>1. /\ budget \in [reboots : 0..MaxReboots[contract], deaths : 0..MaxDeaths,
                     faults : 0..MaxFaults]
      /\ MaxFaults \in Nat
  BY LifecycleAssumption DEF TypeOK
<1>2. CASE budget' = budget BY <1>1, <1>2
<1>3. CASE Fault
  <2>1. budget.faults < MaxFaults /\ budget' = [budget EXCEPT !.faults = @ + 1] BY <1>3 DEF Fault
  <2>2. budget.faults + 1 \in 0..MaxFaults BY <1>1, <2>1
  <2> QED BY <1>1, <2>1, <2>2
<1> QED BY <1>2, <1>3 DEF Spent

\* A check, an illegal transition, the seal and the end of a command.
LEMMA QuietKeeps ==
    ASSUME Inv, NEW p \in Procs,
           Illegal(p) \/ RunCheck(p) \/ SealArchive(p) \/ Finish(p)
    PROVE  Inv'
<1>0. TypeOK /\ contract \in Contracts BY DEF Inv, TypeOK
<1>1. /\ Busy(p) /\ Step(p).k # "put"
      /\ disk' = disk /\ cand' = cand /\ files' = files /\ host' = host
      /\ contract' = contract /\ overlapped' = overlapped /\ Spent
      /\ sealed' \in {sealed, disk}
  BY DEF Illegal, RunCheck, SealArchive, Finish, Spent
<1>2. Steps(p)
  <2>1. CASE Illegal(p) \/ SealArchive(p) \/ Finish(p)
    BY <2>1 DEF Illegal, SealArchive, Finish, Steps
  <2>2. CASE RunCheck(p)
    <3>1. Step(p).k = "check" /\ (Advance(p, proc[p].tx, 0) \/ Miss(p)) BY <2>2 DEF RunCheck
    <3>2. CASE Advance(p, proc[p].tx, 0) BY <1>0, <1>1, <3>1, <3>2, AdvanceMoves DEF Steps
    <3>3. CASE Miss(p) BY <1>0, <1>1, <3>1, <3>3, MissMoves DEF Steps
    <3> QED BY <3>1, <3>2, <3>3
  <2> QED BY <2>1, <2>2
<1>3. "root" \in files BY <1>1, RootStep
<1>4. Built' => Built BY <1>1 DEF Built
<1>5. ProcOK' /\ RootFirst' /\ Synced' /\ Announced' /\ Filed' /\ BaselineFirst'
  BY <1>1, <1>2, <1>3, <1>4, StepKeeps
<1>6. /\ budget' \in [reboots : 0..MaxReboots[contract], deaths : 0..MaxDeaths,
                      faults : 0..MaxFaults]
      /\ budget'.reboots = budget.reboots
  BY <1>0, <1>1, SpentFits
<1>7. TypeOK' BY <1>0, <1>1, <1>5, <1>6, TypeFrom DEF TypeOK
<1>8. Booted' BY <1>1, <1>6 DEF Inv, Booted
<1>9. WriteAhead' BY <1>1 DEF Inv, WriteAhead, Recorded
<1> QED BY <1>5, <1>7, <1>8, <1>9 DEF Inv

\* Filing a document keeps the invariant.
LEMMA PutKeeps ==
    ASSUME Inv, NEW p \in Procs, PutDocument(p) PROVE Inv'
<1>0. TypeOK /\ contract \in Contracts BY DEF Inv, TypeOK
<1>1. /\ Busy(p) /\ Step(p).k = "put"
      /\ disk' = disk /\ cand' = cand /\ host' = host
      /\ contract' = contract /\ overlapped' = overlapped /\ budget' = budget
      /\ sealed' = sealed
  BY DEF PutDocument
<1>2. Step(p).ev \in Documents BY <1>0, <1>1, AtWork DEF Legit
<1>3. files \subseteq files' /\ files' \subseteq Documents
  BY <1>0, <1>2 DEF PutDocument, TypeOK
<1>4. Steps(p) /\ ("root" \in files' \/ End(p))
  <2>1. CASE Step(p).ev \in files
    BY <2>1 DEF PutDocument, Steps
  <2>2. CASE Step(p).ev \notin files
    <3>1. files' = files \cup {Step(p).ev} /\ Advance(p, proc[p].tx, 0)
      BY <2>2 DEF PutDocument
    <3>2. "root" \in files' BY <1>1, <3>1, RootStep
    <3>3. Steps(p) BY <1>0, <1>1, <3>1, AdvanceMoves DEF Steps
    <3> QED BY <3>2, <3>3
  <2> QED BY <2>1, <2>2
<1>5. Built' => Built BY <1>1 DEF Built
<1>6. ProcOK' /\ RootFirst' /\ Synced' /\ Announced' /\ Filed' /\ BaselineFirst'
  BY <1>1, <1>3, <1>4, <1>5, StepKeeps
<1>7. TypeOK' BY <1>0, <1>1, <1>3, <1>6, TypeFrom DEF TypeOK
<1>8. Booted' BY <1>1 DEF Inv, Booted
<1>9. WriteAhead' BY <1>1 DEF Inv, WriteAhead, Recorded
<1> QED BY <1>6, <1>7, <1>8, <1>9 DEF Inv

\* A mutation touches only what its command may create and has announced.
LEMMA Touches ==
    ASSUME Inv, NEW p \in Procs, Busy(p), Step(p).k = "do", host' \in Spoiled(Step(p).op),
           contract' = contract, disk' = disk, overlapped' = overlapped
    PROVE  /\ host' \in Hosts /\ host'.boot = host.boot
           /\ Built' => Built \/ (p = "operator" /\ Building)
           /\ WriteAhead'
<1> DEFINE op == Step(p).op
<1>0. TypeOK /\ host \in Hosts /\ proc[p].pc \in Nat BY DEF Inv, TypeOK
<1>1. op \in Ops /\ (op.act = "create" => op.on \in Made(proc[p].cmd))
  BY <1>0, AtWork DEF Legit
<1> HIDE DEF op
<1>2. /\ host' \in Hosts /\ host'.boot = host.boot
      /\ \A x \in Owned : host'.owned[x] # "absent" =>
            host.owned[x] # "absent" \/ op = Op("create", x)
      /\ host'.oneShot # "none" =>
            host'.oneShot = host.oneShot \/ op = Op("oneshot", host'.oneShot)
      /\ host'.swapOn => host.swapOn \/ op = Op("swap", "on")
  BY <1>0, <1>1, SpoiledHost DEF op
<1>3. ASSUME Built', ~Built PROVE p = "operator" /\ Building
  <2>1. PICK x \in Owned \ {"helper"} : host'.owned[x] # "absent" BY <1>3 DEF Built
  <2>2. op = Op("create", x) BY <1>2, <1>3, <2>1 DEF Built
  <2>3. op.act = "create" /\ op.on = x BY <2>2, OpParts
  <2>4. proc[p].cmd = "apply" BY <1>1, <2>1, <2>3 DEF Made
  <2>5. p = "operator" BY <2>4 DEF Inv, BaselineFirst, Procs
  <2>6. contract = "v2" => proc[p].pc > 5 BY <1>0, <2>4, EarlySteps
  <2> QED BY <2>4, <2>5, <2>6 DEF Building
<1>4. ASSUME ~overlapped, op \in Announceable PROVE Recorded(op)
  <2>1. op \in proc[p].tx.intents BY <1>4 DEF Inv, Announced, op
  <2>2. disk = proc[p].tx BY <1>4, <2>1 DEF Inv, Synced
  <2>3. disk # NoTx BY <1>0, <2>2 DEF TypeOK
  <2> QED BY <2>1, <2>2, <2>3 DEF Recorded
<1>5. /\ \A x \in Owned : Op("create", x) \in Announceable
      /\ \A e \in {"experimental", "baseline"} : Op("oneshot", e) \in Announceable
      /\ Op("swap", "on") \in Announceable
  BY OpsIn, OpParts DEF Announceable
<1>7. WriteAhead'
  <2>1. ASSUME ~overlapped, NEW x \in Owned, host'.owned[x] # "absent"
        PROVE  Recorded(Op("create", x))
    <3>1. CASE host.owned[x] # "absent" BY <3>1, <2>1 DEF Inv, WriteAhead
    <3>2. CASE op = Op("create", x) BY <3>2, <2>1, <1>4, <1>5
    <3> QED BY <3>1, <3>2, <2>1, <1>2
  <2>2. ASSUME ~overlapped, host'.oneShot # "none"
        PROVE  Recorded(Op("oneshot", host'.oneShot))
    <3>1. CASE host'.oneShot = host.oneShot BY <3>1, <2>2 DEF Inv, WriteAhead
    <3>2. CASE op = Op("oneshot", host'.oneShot)
      <4>1. host'.oneShot \in {"experimental", "baseline"} BY <2>2, <1>2 DEF Hosts
      <4> QED BY <3>2, <4>1, <2>2, <1>4, <1>5
    <3> QED BY <3>1, <3>2, <2>2, <1>2
  <2>3. ASSUME ~overlapped, host'.swapOn, contract # "v2" PROVE Recorded(Op("swap", "on"))
    <3>1. CASE host.swapOn BY <3>1, <2>3 DEF Inv, WriteAhead
    <3>2. CASE op = Op("swap", "on") BY <3>2, <2>3, <1>4, <1>5
    <3> QED BY <3>1, <3>2, <2>3, <1>2
  <2>4. ~overlapped' => ~overlapped OBVIOUS
  <2>5. \A o : Recorded(o)' <=> Recorded(o) BY DEF Recorded
  <2> QED BY <2>1, <2>2, <2>3, <2>4, <2>5 DEF WriteAhead
<1> QED BY <1>2, <1>3, <1>7

\* A mutation keeps the invariant, whether it succeeds, is refused or fails
\* with any of the effects it may have had.
LEMMA MutateKeeps ==
    ASSUME Inv, NEW p \in Procs, Mutate(p) PROVE Inv'
<1>0. TypeOK /\ contract \in Contracts BY DEF Inv, TypeOK
<1>1. /\ Busy(p) /\ Step(p).k = "do"
      /\ disk' = disk /\ cand' = cand /\ files' = files
      /\ contract' = contract /\ overlapped' = overlapped /\ sealed' = sealed
      /\ Advance(p, proc[p].tx, 0) \/ Miss(p)
      /\ Spent
  BY DEF Mutate, Spent
<1>2. host' \in Spoiled(Step(p).op) BY DEF Mutate, Spoiled
<1>3. Steps(p)
  <2>1. CASE Advance(p, proc[p].tx, 0) BY <1>0, <1>1, <2>1, AdvanceMoves DEF Steps
  <2>2. CASE Miss(p) BY <1>0, <1>1, <2>2, MissMoves DEF Steps
  <2> QED BY <1>1, <2>1, <2>2
<1>4. "root" \in files BY <1>1, RootStep
<1>5. /\ host' \in Hosts /\ host'.boot = host.boot /\ WriteAhead'
      /\ Built' => Built \/ (p = "operator" /\ Building)
  BY <1>1, <1>2, Touches
<1>6. ProcOK' /\ RootFirst' /\ Synced' /\ Announced' /\ Filed' /\ BaselineFirst'
  BY <1>1, <1>3, <1>4, <1>5, StepKeeps
<1>7. /\ budget' \in [reboots : 0..MaxReboots[contract], deaths : 0..MaxDeaths,
                      faults : 0..MaxFaults]
      /\ budget'.reboots = budget.reboots
  BY <1>0, <1>1, SpentFits
<1>8. TypeOK' BY <1>0, <1>1, <1>5, <1>6, <1>7, TypeFrom DEF TypeOK
<1>9. Booted' BY <1>5, <1>7 DEF Inv, Booted
<1> QED BY <1>5, <1>6, <1>8, <1>9 DEF Inv

\* Where a process that goes on is.
LEMMA GoesOnHas ==
    ASSUME NEW p \in Procs, NEW w, GoesOn(p, w), TypeOK
    PROVE  proc'[p].tx = w /\ proc'[p].cmd = proc[p].cmd /\ proc'[p].pc = proc[p].pc + 1
<1>1. proc \in [Procs -> [cmd : Commands(contract) \cup {""}, pc : Nat,
                          tx : Transactions \cup {NoTx}]]
  BY DEF TypeOK
<1>2. proc'[p] = [cmd |-> proc[p].cmd, pc |-> proc[p].pc + 1, tx |-> w]
  BY <1>1 DEF GoesOn
<1> QED BY <1>2

\* Arithmetic for the first five steps of a v2 apply.
LEMMA PastFive == ASSUME NEW n \in Nat, n + 1 > 5, n # 5 PROVE n > 5
  OBVIOUS

\* The fifth of them names the baseline.
LEMMA FifthStep ==
    ASSUME TypeOK, contract = "v2", NEW p \in Procs, Busy(p), proc[p].cmd = "apply",
           proc[p].pc = 5
    PROVE  Step(p).ev = BaselineDocument[contract]
  BY EarlySteps

\* Whoever writes a transaction keeps the announcements and the evidence of the
\* one he works on.
LEMMA WriteKeeps ==
    ASSUME Inv, NEW p \in Procs, Busy(p), "root" \in files,
           NEW w \in Transactions, proc[p].tx.intents \subseteq w.intents,
           proc[p].tx.evidence \subseteq w.evidence, w.evidence \subseteq files,
           disk' = w, cand = NoTx, cand' = NoTx,
           UNCHANGED <<files, host, sealed, contract, budget, overlapped>>,
           \/ End(p)
           \/ /\ GoesOn(p, w) /\ Step(p).k = "save"
              /\ Step(p).op # NoOp => Step(p).op \in w.intents
              /\ Step(p).ev # "" => Step(p).ev \in w.evidence
    PROVE  Inv'
<1>0. /\ TypeOK /\ contract \in Contracts /\ contract' = contract /\ files' = files
      /\ host' = host /\ NoTx \notin Transactions /\ w # NoTx
      /\ Torn \notin Transactions
  BY Apart DEF Inv, TypeOK
<1>a. ~overlapped' => ~overlapped OBVIOUS
<1>b. proc \in [Procs -> [cmd : Commands(contract) \cup {""}, pc : Nat,
                          tx : Transactions \cup {NoTx}]]
  BY <1>0 DEF TypeOK
<1>c. proc[p].pc \in Nat BY <1>b
<1> DEFINE next == Program(contract, proc'[p].cmd)[proc'[p].pc]
<1>1. Moves(p) BY DEF Moves
<1>2. \A q \in Procs \ {p} : proc'[q] = proc[q] BY <1>0, <1>1, MovesAlone
<1>3. ProcOK' BY <1>0, <1>1, ProcKept
<1>4. ASSUME proc'[p].cmd # ""
      PROVE  /\ proc'[p].tx = w /\ proc'[p].cmd = proc[p].cmd /\ proc'[p].pc = proc[p].pc + 1
             /\ next.k = "do" /\ next.op \in Announceable => next.op \in w.intents
             /\ next.k = "save" => next.ev = ""
             /\ Step(p).ev # "" => Step(p).ev \in w.evidence
  <2>1. ~End(p)
    <3>1. End(p) => proc'[p] = Idle BY <1>b DEF End
    <3>2. Idle.cmd = "" BY DEF Idle
    <3> QED BY <3>1, <3>2, <1>4
  <2>2. GoesOn(p, w) /\ Step(p).k = "save" /\ (Step(p).op # NoOp => Step(p).op \in w.intents)
        /\ (Step(p).ev # "" => Step(p).ev \in w.evidence)
    BY <2>1
  <2>4. proc'[p].tx = w /\ proc'[p].cmd = proc[p].cmd /\ proc'[p].pc = proc[p].pc + 1
    BY <1>0, <2>2, GoesOnHas
  <2>5. Needs(next) => Prepares(Step(p), next) BY <1>0, <2>2, <2>4, NextPrepared
  <2>6. next.k = "save" => next.ev = "" BY <2>2, <2>5 DEF Needs, Prepares
  <2>7. next.k = "do" /\ next.op \in Announceable => next.op \in w.intents
    <3>1. next.op \in Announceable => next.op # NoOp BY NoOpApart DEF Announceable
    <3> QED BY <3>1, <2>2, <2>5 DEF Needs, Prepares
  <2> QED BY <2>2, <2>4, <2>6, <2>7
<1> HIDE DEF next
<1>5. TypeOK' BY <1>0, <1>3, TypeFrom DEF TypeOK
<1>6. Booted' BY <1>0 DEF Inv, Booted
<1>7. RootFirst' BY <1>0 DEF RootFirst
<1>8. Synced'
  <2>1. ASSUME ~overlapped, NEW q \in Procs, proc'[q].cmd # ""
        PROVE  q = p /\ proc'[q].tx = w
    <3>1. q # p => Busy(q) BY <2>1, <1>2 DEF Busy
    <3>2. ~(Busy("operator") /\ Busy("unit")) BY <2>1 DEF Inv, Synced
    <3>3. p \in {"operator", "unit"} /\ q \in {"operator", "unit"} BY DEF Procs
    <3>4. q = p BY <3>1, <3>2, <3>3
    <3> QED BY <3>4, <2>1, <1>4
  <2>3. ~overlapped => ~(proc'["operator"].cmd # "" /\ proc'["unit"].cmd # "")
    BY <2>1 DEF Procs
  <2> QED BY <1>a, <2>1, <2>3, <1>0 DEF Synced, Busy
<1>9. Announced'
  <2>1. ASSUME NEW q \in Procs, proc'[q].cmd # "", NEW s,
               s = Program(contract, proc'[q].cmd)[proc'[q].pc]
        PROVE  /\ s.k = "do" /\ s.op \in Announceable => s.op \in proc'[q].tx.intents
               /\ s.k = "save" /\ s.ev # "" => s.ev \in files
    <3>1. CASE q = p BY <3>1, <2>1, <1>4 DEF next
    <3>2. CASE q # p BY <3>2, <2>1, <1>2 DEF Inv, Announced, Busy, Step
    <3> QED BY <3>1, <3>2
  <2> QED BY <2>1, <1>0 DEF Announced, Busy, Step
<1>10. Filed'
  <2>1. ASSUME NEW q \in Procs, proc'[q].cmd # "" PROVE proc'[q].tx.evidence \subseteq files
    <3>1. CASE q = p BY <3>1, <2>1, <1>4
    <3>2. CASE q # p BY <3>2, <2>1, <1>2 DEF Inv, Filed, Busy
    <3> QED BY <3>1, <3>2
  <2> QED BY <2>1, <1>0 DEF Filed, Busy, Whole
<1>11. BaselineFirst'
  <2>1. Has(proc[p].tx) => Has(w) BY DEF Has
  <2>2. Has(w) => OnDisk' BY <1>0 DEF OnDisk, Has, Whole
  <2>3. (Built' <=> Built) /\ p \in {"operator", "unit"} BY <1>0 DEF Built, Procs
  <2>4. p = "unit" => Has(w) BY <2>1 DEF Inv, BaselineFirst
  <2>5. Built => Has(w) BY <2>1, <2>3, <2>4 DEF Inv, BaselineFirst
  <2>6. ASSUME Building', p = "operator" PROVE Has(w)
    <3>1. proc'[p].cmd # "" /\ proc'[p].cmd = "apply" /\ (contract = "v2" => proc'[p].pc > 5)
      BY <2>6, <1>0 DEF Building, Busy
    <3>2. proc[p].cmd = "apply" /\ proc'[p].pc = proc[p].pc + 1 /\ proc[p].pc \in Nat
      BY <3>1, <1>4, <1>c
    <3>3. CASE contract = "v2" /\ proc[p].pc = 5
      <4>1. Step(p).ev = BaselineDocument[contract] BY <3>2, <3>3, <1>0, FifthStep
      <4>2. BaselineDocument[contract] # "" BY <3>3 DEF BaselineDocument
      <4> QED BY <4>1, <4>2, <3>1, <1>4 DEF Has
    <3>4. CASE ~(contract = "v2" /\ proc[p].pc = 5)
      <4>1. ASSUME contract = "v2" PROVE proc[p].pc > 5
        <5>1. proc[p].pc + 1 > 5 BY <4>1, <3>1, <3>2
        <5>2. proc[p].pc # 5 BY <4>1, <3>4
        <5> QED BY <5>1, <5>2, <3>2, PastFive
      <4>2. Building BY <4>1, <3>2, <2>6 DEF Building
      <4> QED BY <4>2, <2>1, <2>6 DEF Inv, BaselineFirst
    <3> QED BY <3>3, <3>4
  <2>7. Building' => OnDisk' /\ Has(proc["operator"].tx)'
    <3>1. CASE p = "operator"
      <4>1. Building' => proc'[p].cmd # "" BY <3>1 DEF Building, Busy
      <4>2. Building' => proc'["operator"].tx = w BY <4>1, <3>1, <1>4
      <4> QED BY <3>1, <2>2, <2>6, <4>2, <1>0 DEF Has
    <3>2. CASE p = "unit"
      <4>1. proc'["operator"] = proc["operator"] BY <3>2, <1>2 DEF Procs
      <4>2. Building' => Building BY <4>1, <1>0 DEF Building, Busy
      <4> QED BY <3>2, <4>1, <4>2, <2>2, <2>4, <1>0 DEF Inv, BaselineFirst, Has
    <3> QED BY <2>3, <3>1, <3>2
  <2>8. Built' => OnDisk' /\ (Busy("operator")' => Has(proc["operator"].tx)')
    <3>1. CASE p = "operator"
      <4>1. Busy("operator")' => proc'["operator"].tx = w BY <3>1, <1>4 DEF Busy
      <4> QED BY <4>1, <2>2, <2>3, <2>5, <1>0 DEF Has
    <3>2. CASE p = "unit"
      <4>1. proc'["operator"] = proc["operator"] BY <3>2, <1>2 DEF Procs
      <4> QED BY <4>1, <2>2, <2>3, <2>5, <1>0 DEF Inv, BaselineFirst, Has, Busy
    <3> QED BY <2>3, <3>1, <3>2
  <2>9. Busy("unit")' => Has(proc["unit"].tx)' /\ proc'["unit"].cmd # "apply"
    <3>1. CASE p = "unit"
      <4>1. Busy("unit")' => proc'["unit"].tx = w /\ proc'["unit"].cmd = proc["unit"].cmd
        BY <3>1, <1>4 DEF Busy
      <4> QED BY <4>1, <3>1, <2>4, <1>0 DEF Inv, BaselineFirst, Has
    <3>2. CASE p = "operator"
      <4>1. proc'["unit"] = proc["unit"] BY <3>2, <1>2 DEF Procs
      <4> QED BY <4>1, <1>0 DEF Inv, BaselineFirst, Has, Busy
    <3> QED BY <2>3, <3>1, <3>2
  <2> QED BY <2>7, <2>8, <2>9 DEF BaselineFirst
<1>12. WriteAhead'
  <2>1. ASSUME ~overlapped, NEW op, Recorded(op) PROVE Recorded(op)'
    <3>1. disk = proc[p].tx /\ op \in disk.intents BY <2>1 DEF Recorded, Inv, Synced
    <3> QED BY <3>1, <1>0 DEF Recorded
  <2> QED BY <1>a, <2>1, <1>0 DEF Inv, WriteAhead
<1> QED BY <1>5, <1>6, <1>7, <1>8, <1>9, <1>10, <1>11, <1>12 DEF Inv

\* A durable write of the transaction keeps the invariant.
LEMMA SaveKeeps ==
    ASSUME Inv, NEW p \in Procs, Save(p) PROVE Inv'
<1> DEFINE w == Written(contract, proc[p].tx, Step(p))
<1>0. TypeOK /\ contract \in Contracts BY DEF Inv, TypeOK
<1>1. /\ Busy(p) /\ Step(p).k = "save" /\ cand = NoTx /\ Allowed(proc[p].tx, Step(p))
      /\ disk' = w /\ Advance(p, w, 0) /\ cand' = cand
      /\ UNCHANGED <<files, host, sealed, contract, budget, overlapped>>
  BY DEF Save
<1>2. proc[p].tx \in Transactions /\ Legit(Step(p), Made(proc[p].cmd)) BY <1>0, <1>1, AtWork
<1>3. /\ w \in Transactions /\ proc[p].tx.intents \subseteq w.intents
      /\ Step(p).op # NoOp => Step(p).op \in w.intents
      /\ proc[p].tx.evidence \subseteq w.evidence
      /\ w.evidence \subseteq proc[p].tx.evidence \cup {Step(p).ev}
      /\ Step(p).ev = "" => w.evidence = proc[p].tx.evidence
      /\ Step(p).ev # "" => Step(p).ev \in w.evidence
  BY <1>0, <1>1, <1>2, WrittenHas
<1> HIDE DEF w
<1>4. w.evidence \subseteq files
  <2>1. proc[p].tx.evidence \subseteq files BY <1>1 DEF Inv, Filed
  <2>2. Step(p).ev # "" => Step(p).ev \in files BY <1>1 DEF Inv, Announced
  <2> QED BY <2>1, <2>2, <1>3
<1>5. End(p) \/ GoesOn(p, w) BY <1>0, <1>1, AdvanceMoves
<1>6. "root" \in files BY <1>1, RootStep
<1> QED BY <1>1, <1>3, <1>4, <1>5, <1>6, WriteKeeps

\* fail_transaction keeps the invariant; where a candidate is in the way it
\* writes nothing.
LEMMA FailKeeps ==
    ASSUME Inv, NEW p \in Procs, FailSave(p) PROVE Inv'
<1> DEFINE w == Failing(contract, proc[p].tx)
<1>0. TypeOK /\ contract \in Contracts BY DEF Inv, TypeOK
<1>1. /\ Busy(p) /\ Step(p).k = "fail" /\ End(p) /\ cand' = cand
      /\ disk' = IF cand = NoTx THEN w ELSE disk
      /\ UNCHANGED <<files, host, sealed, contract, budget, overlapped>>
  BY DEF FailSave
<1>2. "root" \in files BY <1>1, RootStep
<1>3. proc[p].tx \in Transactions BY <1>0, <1>1, AtWork
<1>4. /\ w \in Transactions /\ w.intents = proc[p].tx.intents
      /\ w.evidence = proc[p].tx.evidence
  BY <1>0, <1>3, FailingHas
<1> HIDE DEF w
<1>5. CASE cand = NoTx
  <2>1. w.evidence \subseteq files BY <1>1, <1>4 DEF Inv, Filed
  <2> QED BY <2>1, <1>1, <1>2, <1>4, <1>5, WriteKeeps
<1>6. CASE cand # NoTx
  <2>1. Built' => Built BY <1>1 DEF Built
  <2>2. Steps(p) /\ disk' = disk BY <1>1, <1>6 DEF Steps
  <2>3. ProcOK' /\ RootFirst' /\ Synced' /\ Announced' /\ Filed' /\ BaselineFirst'
    BY <1>1, <1>2, <2>1, <2>2, StepKeeps
  <2>4. TypeOK' BY <1>0, <1>1, <2>2, <2>3, TypeFrom DEF TypeOK
  <2>5. Booted' BY <1>1 DEF Inv, Booted
  <2>6. WriteAhead' BY <1>1, <2>2 DEF Inv, WriteAhead, Recorded
  <2> QED BY <2>3, <2>4, <2>5, <2>6 DEF Inv
<1> QED BY <1>5, <1>6

\* A process that dies while it writes leaves a candidate that is torn, or one
\* that keeps the evidence of the transaction it worked on.
LEMMA CandidateKeeps ==
    ASSUME Inv, NEW p \in Procs, Busy(p), "root" \in files, End(p),
           cand' = Torn \/ /\ cand' \in Transactions
                           /\ proc[p].tx.evidence \subseteq cand'.evidence
                           /\ cand'.evidence \subseteq files,
           disk' = disk, files' = files, host' = host, contract' = contract,
           overlapped' = overlapped
    PROVE  /\ ProcOK' /\ RootFirst' /\ Synced' /\ Announced' /\ Filed' /\ BaselineFirst'
           /\ cand' \in Transactions \cup {NoTx, Torn}
<1>0. TypeOK /\ contract \in Contracts BY DEF Inv, TypeOK
<1>a. ~overlapped' => ~overlapped OBVIOUS
<1>1. Moves(p) BY DEF Moves
<1>2. \A q \in Procs \ {p} : proc'[q] = proc[q] BY <1>0, <1>1, MovesAlone
<1>3. ProcOK' BY <1>0, <1>1, ProcKept
<1>4. proc'[p].cmd = ""
  <2>1. proc'[p] = Idle BY <1>0 DEF End, TypeOK
  <2>2. Idle.cmd = "" BY DEF Idle
  <2> QED BY <2>1, <2>2
<1>5. \A q \in Procs : proc'[q].cmd # "" => q # p /\ proc'[q] = proc[q] /\ Busy(q)
  BY <1>2, <1>4 DEF Busy
<1>6. RootFirst' BY DEF RootFirst
<1>7. Synced'
  <2>1. ASSUME ~overlapped PROVE \A q \in Procs : proc'[q].cmd = ""
    <3>1. ~(Busy("operator") /\ Busy("unit")) BY <2>1 DEF Inv, Synced
    <3> QED BY <3>1, <1>5 DEF Procs
  <2> QED BY <1>a, <2>1 DEF Synced, Busy, Procs
<1>8. Announced'
  <2>1. ASSUME NEW q \in Procs, proc'[q].cmd # "", NEW s,
               s = Program(contract, proc'[q].cmd)[proc'[q].pc]
        PROVE  /\ s.k = "do" /\ s.op \in Announceable => s.op \in proc'[q].tx.intents
               /\ s.k = "save" /\ s.ev # "" => s.ev \in files
    BY <2>1, <1>5 DEF Inv, Announced, Step
  <2> QED BY <2>1 DEF Announced, Busy, Step
<1>9. Filed'
  <2>1. \A q \in Procs : proc'[q].cmd # "" => proc'[q].tx.evidence \subseteq files
    BY <1>5 DEF Inv, Filed
  <2> QED BY <2>1 DEF Inv, Filed, Busy, Whole
<1>10. BaselineFirst'
  <2>1. Has(proc[p].tx) /\ disk # NoTx /\ Has(disk) => OnDisk' BY DEF OnDisk, Has, Whole
  <2>2. (Built' <=> Built) /\ p \in {"operator", "unit"} BY DEF Built, Procs
  <2>3. /\ Busy("unit")' => Busy("unit") /\ proc'["unit"] = proc["unit"] /\ p = "operator"
        /\ Busy("operator")' =>
              Busy("operator") /\ proc'["operator"] = proc["operator"] /\ p = "unit"
    BY <1>5, <2>2 DEF Busy, Procs
  <2>4. Busy("unit")' => Has(proc["unit"].tx)' /\ proc'["unit"].cmd # "apply"
    BY <2>3 DEF Inv, BaselineFirst, Has
  <2>5. Building' => Building /\ p = "unit" /\ proc'["operator"] = proc["operator"]
    BY <2>3 DEF Building
  <2>6. Building' => OnDisk' /\ Has(proc["operator"].tx)'
    BY <2>1, <2>5 DEF Inv, BaselineFirst, OnDisk, Has
  <2>7. Built => Has(proc[p].tx) /\ disk # NoTx /\ Has(disk)
    BY <2>2 DEF Inv, BaselineFirst, OnDisk
  <2>8. Built' => OnDisk' BY <2>1, <2>2, <2>7
  <2>9. Built' => (Busy("operator")' => Has(proc["operator"].tx)')
    BY <2>2, <2>3 DEF Inv, BaselineFirst, Has
  <2> QED BY <2>4, <2>6, <2>8, <2>9 DEF BaselineFirst
<1> QED BY <1>3, <1>6, <1>7, <1>8, <1>9, <1>10

\* A death keeps the invariant: between two steps, in the middle of a write of
\* the transaction, or in the middle of a mutation.
LEMMA DieKeeps ==
    ASSUME Inv, NEW p \in Procs, Die(p) PROVE Inv'
<1>0. TypeOK /\ contract \in Contracts BY DEF Inv, TypeOK
<1>1. /\ Busy(p) /\ End(p) /\ disk' = disk /\ files' = files /\ sealed' = sealed
      /\ contract' = contract /\ overlapped' = overlapped
      /\ budget.deaths < MaxDeaths /\ budget' = [budget EXCEPT !.deaths = @ + 1]
  BY DEF Die
<1>2. /\ budget' \in [reboots : 0..MaxReboots[contract], deaths : 0..MaxDeaths,
                      faults : 0..MaxFaults]
      /\ budget'.reboots = budget.reboots
  <2>1. /\ budget \in [reboots : 0..MaxReboots[contract], deaths : 0..MaxDeaths,
                       faults : 0..MaxFaults]
        /\ MaxDeaths \in Nat
    BY <1>0, LifecycleAssumption DEF TypeOK
  <2>2. budget.deaths + 1 \in 0..MaxDeaths BY <1>1, <2>1
  <2> QED BY <1>1, <2>1, <2>2
<1>3. /\ host' \in Hosts /\ host'.boot = host.boot /\ WriteAhead'
      /\ cand' \in Transactions \cup {NoTx, Torn}
      /\ ProcOK' /\ RootFirst' /\ Synced' /\ Announced' /\ Filed' /\ BaselineFirst'
  <2>1. ASSUME host' = host PROVE host' \in Hosts /\ host'.boot = host.boot /\ WriteAhead'
    <3>1. ~overlapped' => ~overlapped BY <1>1
    <3> QED BY <1>0, <1>1, <2>1, <3>1 DEF Inv, TypeOK, WriteAhead, Recorded
  <2>3. Steps(p) BY <1>1 DEF Steps
  <2>4. CASE cand' = cand /\ host' = host
    <3>1. Built' => Built BY <2>4 DEF Built
    <3>2. ProcOK' /\ RootFirst' /\ Synced' /\ Announced' /\ Filed' /\ BaselineFirst'
      BY <1>1, <2>3, <2>4, <3>1, StepKeeps
    <3> QED BY <1>0, <2>1, <2>4, <3>2 DEF TypeOK
  <2>5. CASE /\ Step(p).k = "save" /\ Allowed(proc[p].tx, Step(p)) /\ host' = host
             /\ cand' \in {Torn, Written(contract, proc[p].tx, Step(p))}
    <3> DEFINE w == Written(contract, proc[p].tx, Step(p))
    <3>1. proc[p].tx \in Transactions /\ Legit(Step(p), Made(proc[p].cmd)) BY <1>0, <1>1, AtWork
    <3>2. /\ w \in Transactions /\ proc[p].tx.evidence \subseteq w.evidence
          /\ w.evidence \subseteq proc[p].tx.evidence \cup {Step(p).ev}
          /\ Step(p).ev = "" => w.evidence = proc[p].tx.evidence
      BY <1>0, <2>5, <3>1, WrittenHas
    <3>3. cand' \in {Torn, w} BY <2>5
    <3> HIDE DEF w
    <3>4. w.evidence \subseteq files
      <4>1. proc[p].tx.evidence \subseteq files BY <1>1 DEF Inv, Filed
      <4>2. Step(p).ev # "" => Step(p).ev \in files BY <1>1, <2>5 DEF Inv, Announced
      <4> QED BY <4>1, <4>2, <3>2
    <3>5. "root" \in files BY <1>1, <2>5, RootStep
    <3>6. cand' = Torn \/ /\ cand' \in Transactions
                          /\ proc[p].tx.evidence \subseteq cand'.evidence
                          /\ cand'.evidence \subseteq files
      BY <3>2, <3>3, <3>4
    <3>7. /\ ProcOK' /\ RootFirst' /\ Synced' /\ Announced' /\ Filed' /\ BaselineFirst'
          /\ cand' \in Transactions \cup {NoTx, Torn}
      BY <1>1, <2>5, <3>5, <3>6, CandidateKeeps
    <3> QED BY <2>1, <2>5, <3>7
  <2>6. CASE /\ Step(p).k = "fail" /\ host' = host
             /\ cand' \in {Torn, Failing(contract, proc[p].tx)}
    <3> DEFINE w == Failing(contract, proc[p].tx)
    <3>1. proc[p].tx \in Transactions BY <1>0, <1>1, AtWork
    <3>2. w \in Transactions /\ w.evidence = proc[p].tx.evidence BY <1>0, <3>1, FailingHas
    <3>3. cand' \in {Torn, w} BY <2>6
    <3> HIDE DEF w
    <3>4. w.evidence \subseteq files BY <1>1, <3>2 DEF Inv, Filed
    <3>5. "root" \in files BY <1>1, <2>6, RootStep
    <3>6. cand' = Torn \/ /\ cand' \in Transactions
                          /\ proc[p].tx.evidence \subseteq cand'.evidence
                          /\ cand'.evidence \subseteq files
      BY <3>2, <3>3, <3>4
    <3>7. /\ ProcOK' /\ RootFirst' /\ Synced' /\ Announced' /\ Filed' /\ BaselineFirst'
          /\ cand' \in Transactions \cup {NoTx, Torn}
      BY <1>1, <2>6, <3>5, <3>6, CandidateKeeps
    <3> QED BY <2>1, <2>6, <3>7
  <2>7. CASE Step(p).k = "do" /\ host' \in Spoiled(Step(p).op) /\ cand' = cand
    <3>1. /\ host' \in Hosts /\ host'.boot = host.boot /\ WriteAhead'
          /\ Built' => Built \/ (p = "operator" /\ Building)
      BY <1>1, <2>7, Touches
    <3>2. "root" \in files BY <1>1, <2>7, RootStep
    <3>3. ProcOK' /\ RootFirst' /\ Synced' /\ Announced' /\ Filed' /\ BaselineFirst'
      BY <1>1, <2>3, <2>7, <3>1, <3>2, StepKeeps
    <3> QED BY <1>0, <2>7, <3>1, <3>3 DEF TypeOK
  <2> QED BY <2>4, <2>5, <2>6, <2>7 DEF Die
<1>4. TypeOK' BY <1>0, <1>1, <1>2, <1>3, TypeFrom DEF TypeOK
<1>5. Booted' BY <1>2, <1>3 DEF Inv, Booted
<1> QED BY <1>3, <1>4, <1>5 DEF Inv

-----------------------------------------------------------------------------
(* The theorems. *)

\* The invariant holds before the first command.
LEMMA InitInv == Init => Inv
<1> SUFFICES ASSUME Init PROVE Inv
  OBVIOUS
<1>1. /\ disk = NoTx /\ cand = NoTx /\ files = {} /\ sealed = NoTx
      /\ contract \in Contracts /\ overlapped = FALSE
      /\ budget = [reboots |-> 0, deaths |-> 0, faults |-> 0]
      /\ host.boot = 0 /\ host.oneShot = "none" /\ host.swapOn = FALSE
      /\ \A x \in Owned : host.owned[x] = "absent"
  BY DEF Init
<1>2. MaxReboots[contract] \in Nat /\ MaxDeaths \in Nat /\ MaxFaults \in Nat
  BY <1>1, LifecycleAssumption
<1>3. \A p \in Procs : proc[p] = Idle BY DEF Init
<1>4. Idle.cmd = "" /\ "operator" \in Procs /\ "unit" \in Procs BY DEF Idle, Procs
<1>5. \A p \in Procs : ~Busy(p) BY <1>3, <1>4 DEF Busy
<1>6. TypeOK
  <2>1. host \in Hosts BY <1>2 DEF Init, Hosts
  <2>2. proc \in [Procs -> [cmd : Commands(contract) \cup {""}, pc : Nat,
                            tx : Transactions \cup {NoTx}]]
    BY DEF Init, Idle
  <2>3. budget \in [reboots : 0..MaxReboots[contract], deaths : 0..MaxDeaths,
                    faults : 0..MaxFaults]
    BY <1>1, <1>2
  <2> QED BY <2>1, <2>2, <2>3, <1>1, <1>5 DEF TypeOK
<1>7. Booted BY <1>1 DEF Booted
<1>8. RootFirst /\ Synced /\ Announced /\ Filed
  BY <1>1, <1>4, <1>5 DEF RootFirst, Synced, Announced, Filed, Whole
<1>9. ~Built /\ ~Building BY <1>1, <1>4, <1>5 DEF Built, Building
<1>10. BaselineFirst BY <1>4, <1>5, <1>9 DEF BaselineFirst
<1>11. WriteAhead BY <1>1 DEF WriteAhead
<1> QED BY <1>6, <1>7, <1>8, <1>10, <1>11 DEF Inv

\* It does not depend on anything but the variables.
LEMMA StutterInv == ASSUME Inv, UNCHANGED vars PROVE Inv'
<1>1. /\ disk' = disk /\ cand' = cand /\ files' = files /\ host' = host /\ proc' = proc
      /\ sealed' = sealed /\ contract' = contract /\ budget' = budget
      /\ overlapped' = overlapped
  BY DEF vars
<1>2. TypeOK' BY <1>1, TypeFrom, ProcStays DEF Inv, TypeOK
<1>3. Booted' /\ RootFirst' /\ Synced' /\ Filed'
  BY <1>1 DEF Inv, Booted, RootFirst, Synced, Filed, Busy, Whole
<1>4. Announced' BY <1>1 DEF Inv, Announced, Step, Busy
<1>5. BaselineFirst'
  BY <1>1 DEF Inv, BaselineFirst, OnDisk, Has, Whole, Built, Building, Busy
<1>6. WriteAhead' BY <1>1 DEF Inv, WriteAhead, Recorded
<1> QED BY <1>2, <1>3, <1>4, <1>5, <1>6 DEF Inv

\* It is kept by every action.
LEMMA NextInv == ASSUME Inv, [Next]_vars PROVE Inv'
<1>1. CASE Load BY <1>1, LoadKeeps
<1>2. CASE MeasureBaseline BY <1>2, MeasureKeeps
<1>3. CASE LoadingCommand
  <2>1. TypeOK BY DEF Inv
  <2>2. PICK p \in Procs : \E cmd : Begun(p, cmd) BY <1>3, <2>1, CommandBegins
  <2> QED BY <2>2, BegunKeeps
<1>4. CASE ActivationRefused \/ ActivateUnrecorded \/ Reboot BY <1>4, AroundKeeps
<1>5. ASSUME NEW p \in Procs,
             \/ Save(p) \/ Illegal(p) \/ FailSave(p) \/ Mutate(p) \/ PutDocument(p)
             \/ RunCheck(p) \/ SealArchive(p) \/ Finish(p) \/ Die(p)
      PROVE  Inv'
  BY <1>5, SaveKeeps, QuietKeeps, FailKeeps, MutateKeeps, PutKeeps, DieKeeps
<1>6. CASE UNCHANGED vars BY <1>6, StutterInv
<1> QED BY <1>1, <1>2, <1>3, <1>4, <1>5, <1>6 DEF Next, LoadingCommand

\* The invariant above is kept by every command, every failing step, every
\* death of a process and every reboot, in every contract.
THEOREM Invariant == Spec => []Inv
<1>1. Init => Inv BY InitInv
<1>2. Inv /\ [Next]_vars => Inv' BY NextInv
<1> QED BY <1>1, <1>2, PTL DEF Spec

\* Every variable of the lifecycle keeps its type.
THEOREM TypeCorrect == Spec => []TypeOK
<1>1. Inv => TypeOK BY DEF Inv
<1> QED BY <1>1, Invariant, PTL

\* What Nemor has changed on the machine is announced in the transaction on
\* disk, wherever a process died, unless operator and unit ran at once.
THEOREM WriteAheadHolds == Spec => []WriteAhead
<1>1. Inv => WriteAhead BY DEF Inv
<1> QED BY <1>1, Invariant, PTL

\* Every hash in the transaction on disk names a document that is there, and
\* no boot artifact exists before the baseline is named, even when operator
\* and unit run at once.
THEOREM EvidenceBackedHolds == Spec => []EvidenceBacked
<1>1. Inv => EvidenceBacked
  <2> SUFFICES ASSUME Inv PROVE EvidenceBacked
    OBVIOUS
  <2>1. Built => Has(disk) BY DEF Inv, BaselineFirst, OnDisk
  <2>2. disk # NoTx => disk.evidence \subseteq files BY DEF Inv, Filed
  <2> QED BY <2>1, <2>2 DEF EvidenceBacked, Built, Has
<1> QED BY <1>1, Invariant, PTL

\* While no two processes ran at once, a step that replaces the transaction on
\* disk keeps its stage or moves it along the transition table: what Save and
\* fail_transaction write, and what reconcile_transaction_new adopts.
LEMMA StageStep ==
    ASSUME Inv, [Next]_vars, disk # NoTx, ~overlapped
    PROVE  disk'.stage = disk.stage \/ LegalTransition(disk.stage, disk'.stage)
<1>0. TypeOK /\ contract \in Contracts BY DEF Inv, TypeOK
<1>1. CASE disk' = disk BY <1>1
<1>2. ASSUME Loadable, disk' = Loaded
      PROVE  disk'.stage = disk.stage \/ LegalTransition(disk.stage, disk'.stage)
  BY <1>2, Loads
<1>3. CASE Load BY <1>2, <1>3 DEF Load
<1>4. CASE LoadingCommand
  <2>1. PICK p \in Procs : \E cmd : Begun(p, cmd) BY <1>4, <1>0, CommandBegins
  <2> QED BY <2>1, <1>2 DEF Begun, Launch
<1>5. ASSUME NEW p \in Procs, Busy(p)
      PROVE  proc[p].tx \in Transactions /\ (disk = proc[p].tx)
  BY <1>0, <1>5, AtWork DEF Inv, Synced
<1>6. ASSUME NEW p \in Procs, Save(p)
      PROVE  disk'.stage = disk.stage \/ LegalTransition(disk.stage, disk'.stage)
  <2>1. /\ Busy(p) /\ Step(p).k = "save" /\ Allowed(proc[p].tx, Step(p))
        /\ disk' = Written(contract, proc[p].tx, Step(p))
    BY <1>6 DEF Save
  <2>2. proc[p].tx \in Transactions /\ disk = proc[p].tx
        /\ Legit(Step(p), Made(proc[p].cmd))
    BY <1>0, <1>5, <2>1, AtWork
  <2> QED BY <1>0, <2>1, <2>2, WrittenHas
<1>7. ASSUME NEW p \in Procs, FailSave(p)
      PROVE  disk'.stage = disk.stage \/ LegalTransition(disk.stage, disk'.stage)
  <2>1. Busy(p) /\ (disk' = disk \/ disk' = Failing(contract, proc[p].tx))
    BY <1>7 DEF FailSave
  <2>2. proc[p].tx \in Transactions /\ disk = proc[p].tx BY <1>5, <2>1
  <2> QED BY <1>0, <1>1, <2>1, <2>2, FailingHas
<1>8. CASE MeasureBaseline \/ ActivationRefused \/ ActivateUnrecorded \/ Reboot
           \/ UNCHANGED vars
  BY <1>1, <1>8 DEF MeasureBaseline, ActivationRefused, ActivateUnrecorded, Reboot, vars
<1>9. ASSUME NEW p \in Procs,
             \/ Illegal(p) \/ Mutate(p) \/ PutDocument(p) \/ RunCheck(p)
             \/ SealArchive(p) \/ Finish(p) \/ Die(p)
      PROVE  disk' = disk
  BY <1>9 DEF Illegal, Mutate, PutDocument, RunCheck, SealArchive, Finish, Die
<1> QED BY <1>1, <1>3, <1>4, <1>6, <1>7, <1>8, <1>9 DEF Next, LoadingCommand

\* The stage on disk moves only along legal transitions, as long as operator
\* and unit never ran at once.
THEOREM StageMonotoneHolds == Spec => StageMonotone
<1>1. Inv /\ [Next]_vars =>
        [disk # NoTx /\ ~overlapped =>
            disk'.stage = disk.stage \/ LegalTransition(disk.stage, disk'.stage)]_vars
  BY StageStep
<1> QED BY <1>1, Invariant, PTL DEF Spec, StageMonotone

-----------------------------------------------------------------------------
(* The words of the programs: where a failing step of a command may lead,     *)
(* which operations it performs and to which stages it moves.                *)

Undos == {"undo_swapfile", "undo_entry", "undo_unit", "undo_all"}

\* Where a failing step may lead.
Fails(cmd, f) == /\ f \in Undos => cmd = "apply"
                 /\ f = "activation" => cmd = "activate"

\* What a command does to the machine.
Does(cmd, op) ==
    /\ op.act = "create" => \/ cmd = "measure" /\ op.on = "helper"
                            \/ cmd = "apply" /\ op.on # "helper"
    /\ op.act = "remove" => cmd \in Undos \cup {"remove", "clear", "cleanup"}
    /\ op.act = "oneshot" /\ op.on = "experimental" => cmd = "one_shot"
    /\ op.act = "swap" /\ op.on = "on" => cmd = "activate"

\* The stages a command moves to.
Leads(cmd, to) ==
    /\ cmd = "measure" => to \in BeforeOneShot \ {"Applied"} \/ to = ""
    /\ cmd = "apply" => to \in BeforeOneShot \/ to = ""
    /\ to = "Applied" => cmd = "apply"
    /\ to \in OneShotStages => cmd = "one_shot"
    /\ to \in Terminal => cmd \in {"remove", "clear", "cleanup"}

Speaks(cmd, s) ==
    /\ Fails(cmd, s.fail)
    /\ s.k = "do" => Does(cmd, s.op)
    /\ s.k = "save" => Leads(cmd, s.to)
    /\ cmd \in Undos => s.k \in {"do", "fail"}

Says(cmd, prog) == /\ \E S : prog \in Seq(S)
                   /\ \A i \in 1..Len(prog) : Speaks(cmd, prog[i])

\* A program says what its parts say.
LEMMA SaysBoth ==
    ASSUME NEW cmd, NEW u, NEW v, Says(cmd, u), Says(cmd, v) PROVE Says(cmd, u \o v)
<1>1. PICK S, T : u \in Seq(S) /\ v \in Seq(T) BY DEF Says
<1>2. u \in Seq(S \cup T) /\ v \in Seq(S \cup T) BY <1>1
<1>3. /\ u \o v \in Seq(S \cup T) /\ Len(u \o v) = Len(u) + Len(v)
      /\ Len(u) \in Nat /\ Len(v) \in Nat
      /\ \A i \in 1..(Len(u) + Len(v)) :
            (u \o v)[i] = IF i <= Len(u) THEN u[i] ELSE v[i - Len(u)]
  BY <1>2, ConcatProperties
<1>4. ASSUME NEW i \in 1..Len(u \o v) PROVE Speaks(cmd, (u \o v)[i])
  <2>1. CASE i <= Len(u)
    <3>1. i \in 1..Len(u) /\ (u \o v)[i] = u[i] BY <1>3, <2>1
    <3> QED BY <3>1 DEF Says
  <2>2. CASE ~(i <= Len(u))
    <3>1. i - Len(u) \in 1..Len(v) /\ (u \o v)[i] = v[i - Len(u)] BY <1>3, <2>2
    <3> QED BY <3>1 DEF Says
  <2> QED BY <2>1, <2>2
<1> QED BY <1>3, <1>4 DEF Says

\* Short pieces.
LEMMA SaysOne ==
    ASSUME NEW cmd, NEW a, Speaks(cmd, a) PROVE Says(cmd, <<a>>)
<1> DEFINE P == <<a>>
<1>1. P \in Seq({a}) /\ Len(P) = 1 /\ P[1] = a OBVIOUS
<1> HIDE DEF P
<1>2. Says(cmd, P) BY <1>1 DEF Says
<1> QED BY <1>2 DEF P

\* Two steps.
LEMMA SaysTwo ==
    ASSUME NEW cmd, NEW a, NEW b, Speaks(cmd, a), Speaks(cmd, b) PROVE Says(cmd, <<a, b>>)
<1> DEFINE P == <<a, b>>
<1>1. P \in Seq({a, b}) /\ Len(P) = 2 /\ P[1] = a /\ P[2] = b OBVIOUS
<1> HIDE DEF P
<1>2. Says(cmd, P) BY <1>1 DEF Says
<1> QED BY <1>2 DEF P

\* Three steps.
LEMMA SaysThree ==
    ASSUME NEW cmd, NEW a, NEW b, NEW c, Speaks(cmd, a), Speaks(cmd, b), Speaks(cmd, c)
    PROVE  Says(cmd, <<a, b, c>>)
<1> DEFINE P == <<a, b, c>>
<1>1. P \in Seq({a, b, c}) /\ Len(P) = 3 /\ P[1] = a /\ P[2] = b /\ P[3] = c OBVIOUS
<1> HIDE DEF P
<1>2. Says(cmd, P) BY <1>1 DEF Says
<1> QED BY <1>2 DEF P

\* Four steps.
LEMMA SaysFour ==
    ASSUME NEW cmd, NEW a, NEW b, NEW c, NEW d,
           Speaks(cmd, a), Speaks(cmd, b), Speaks(cmd, c), Speaks(cmd, d)
    PROVE  Says(cmd, <<a, b, c, d>>)
<1> DEFINE P == <<a, b, c, d>>
<1>1. P \in Seq({a, b, c, d}) /\ Len(P) = 4 /\ P[1] = a /\ P[2] = b /\ P[3] = c /\ P[4] = d
  OBVIOUS
<1> HIDE DEF P
<1>2. Says(cmd, P) BY <1>1 DEF Says
<1> QED BY <1>2 DEF P

\* Five steps.
LEMMA SaysFive ==
    ASSUME NEW cmd, NEW a, NEW b, NEW c, NEW d, NEW e, Speaks(cmd, a), Speaks(cmd, b),
           Speaks(cmd, c), Speaks(cmd, d), Speaks(cmd, e)
    PROVE  Says(cmd, <<a, b, c, d, e>>)
<1> DEFINE P == <<a, b, c, d, e>>
<1>1. P \in Seq({a, b, c, d, e}) /\ Len(P) = 5 /\ P[1] = a /\ P[2] = b /\ P[3] = c
      /\ P[4] = d /\ P[5] = e
  OBVIOUS
<1> HIDE DEF P
<1>2. Says(cmd, P) BY <1>1 DEF Says
<1> QED BY <1>2 DEF P

\* What each kind of step says.
LEMMA Words ==
    ASSUME NEW cmd, cmd \notin Undos
    PROVE  /\ Leads(cmd, "") =>
                /\ Speaks(cmd, Plain) /\ Speaks(cmd, Done) /\ Speaks(cmd, SwapUuid)
                /\ \A op : Speaks(cmd, Intend(op))
                /\ \A d : Speaks(cmd, NoteTo(d, ""))
           /\ Speaks(cmd, Seal) /\ Speaks(cmd, Return) /\ Speaks(cmd, FailTransaction)
           /\ \A d : Speaks(cmd, Put(d))
           /\ \A w, f : Fails(cmd, f) => Speaks(cmd, Check(w, f))
           /\ \A w, n : Speaks(cmd, Unless(w, n))
           /\ \A s, d, op : Leads(cmd, s) =>
                 /\ Speaks(cmd, To(s)) /\ Speaks(cmd, DoneTo(s)) /\ Speaks(cmd, ToIntend(s, op))
                 /\ Speaks(cmd, NoteTo(d, s)) /\ Speaks(cmd, DoneNoteTo(d, s))
           /\ \A op, f : Does(cmd, op) /\ Fails(cmd, f) => Speaks(cmd, Do(op, f))
           /\ \A op, n : Does(cmd, op) => Speaks(cmd, Try(op, n))
<1>0. Fails(cmd, "abort") /\ Fails(cmd, "skip") BY DEF Fails, Undos
<1>1. ASSUME Leads(cmd, "")
      PROVE  /\ Speaks(cmd, Plain) /\ Speaks(cmd, Done) /\ Speaks(cmd, SwapUuid)
             /\ \A op : Speaks(cmd, Intend(op))
             /\ \A d : Speaks(cmd, NoteTo(d, ""))
  BY <1>0, <1>1 DEF Speaks, Plain, Done, SwapUuid, Intend, NoteTo
<1>2. Speaks(cmd, Seal) /\ Speaks(cmd, Return) /\ Speaks(cmd, FailTransaction)
      /\ \A d : Speaks(cmd, Put(d))
  BY <1>0 DEF Speaks, Seal, Return, FailTransaction, Put, Plain
<1>3. ASSUME NEW w, NEW f, Fails(cmd, f) PROVE Speaks(cmd, Check(w, f))
  BY <1>3 DEF Speaks, Check, Plain
<1>4. ASSUME NEW w, NEW n PROVE Speaks(cmd, Unless(w, n))
  BY <1>0 DEF Speaks, Unless, Plain
<1>5. ASSUME NEW s, NEW d, NEW op, Leads(cmd, s)
      PROVE  /\ Speaks(cmd, To(s)) /\ Speaks(cmd, DoneTo(s)) /\ Speaks(cmd, ToIntend(s, op))
             /\ Speaks(cmd, NoteTo(d, s)) /\ Speaks(cmd, DoneNoteTo(d, s))
  BY <1>0, <1>5 DEF Speaks, To, DoneTo, ToIntend, NoteTo, DoneNoteTo, Plain
<1>6. ASSUME NEW op, NEW f, Does(cmd, op), Fails(cmd, f) PROVE Speaks(cmd, Do(op, f))
  BY <1>6 DEF Speaks, Do, Plain
<1>7. ASSUME NEW op, NEW n, Does(cmd, op) PROVE Speaks(cmd, Try(op, n))
  BY <1>0, <1>7 DEF Speaks, Try, Plain
<1> QED BY <1>1, <1>2, <1>3, <1>4, <1>5, <1>6, <1>7

\* Stages and operations that commands may name.
LEMMA MayLead ==
    /\ \A cmd : Leads(cmd, "")
    /\ \A cmd, to : /\ cmd \notin {"measure", "apply"}
                     /\ to \notin {"Applied"} \cup OneShotStages \cup Terminal
                     => Leads(cmd, to)
    /\ \A to \in BeforeOneShot \ {"Applied"} : Leads("measure", to)
    /\ \A to \in BeforeOneShot : Leads("apply", to)
    /\ \A to \in OneShotStages : Leads("one_shot", to)
    /\ \A cmd \in {"remove", "clear", "cleanup"} : \A to \in Terminal : Leads(cmd, to)
BY DEF Leads, BeforeOneShot, OneShotStages, Terminal

\* The operations that are some command's own.
LEMMA MayDo ==
    /\ Does("measure", Op("create", "helper"))
    /\ \A x \in {"swapfile", "entry", "unit"} : Does("apply", Op("create", x))
    /\ \A cmd \in Undos \cup {"remove", "clear", "cleanup"} : \A x : Does(cmd, Op("remove", x))
    /\ Does("one_shot", Op("oneshot", "experimental"))
    /\ Does("activate", Op("swap", "on"))
    /\ \A cmd : /\ \A z : Does(cmd, Op("zswap", z))
                /\ Does(cmd, Op("swap", "off"))
                /\ Does(cmd, Op("oneshot", "none")) /\ Does(cmd, Op("oneshot", "baseline"))
BY OpParts DEF Does

\* The landings that are some command's own.
LEMMA MayFail ==
    /\ \A cmd : Fails(cmd, "abort") /\ Fails(cmd, "fail") /\ Fails(cmd, "skip")
    /\ \A f \in Undos : Fails("apply", f)
    /\ Fails("activate", "activation")
BY DEF Fails, Undos

\* The commands before the one-shot.
LEMMA BeginSay ==
    ASSUME NEW cmd \in {"measure", "apply"}
    PROVE  Says(cmd, TransactionFirst \o Preflighted) /\ Says(cmd, ManifestFirst \o Preflighted)
<1>0. cmd \notin Undos BY DEF Undos
<1>1. Leads(cmd, "") /\ Leads(cmd, "RootPreflighted")
  BY DEF Leads, BeforeOneShot, OneShotStages, Terminal
<1>2. /\ Speaks(cmd, Plain) /\ \A d : Speaks(cmd, Put(d))
      /\ \A d : Speaks(cmd, NoteTo(d, "RootPreflighted"))
  BY <1>0, <1>1, Words
<1>3. Says(cmd, TransactionFirst) BY <1>2, SaysThree DEF TransactionFirst
<1>4. Says(cmd, ManifestFirst) BY <1>2, SaysThree DEF ManifestFirst
<1>5. Says(cmd, Preflighted) BY <1>2, SaysTwo DEF Preflighted
<1> QED BY <1>3, <1>4, <1>5, SaysBoth

\* measure-baseline of v3 and v6; the contracts between them share one.
LEMMA MeasureSays ==
    Says("measure", MeasureStepsV3) /\ Says("measure", MeasureStepsV6)
<1> DEFINE cmd == "measure"
<1>0. cmd \notin Undos BY DEF Undos
<1>1. Leads(cmd, "") /\ Leads(cmd, "BaselineMeasuring") /\ Leads(cmd, "BaselineMeasured")
  BY DEF Leads, BeforeOneShot, OneShotStages, Terminal
<1>2. /\ \A op : Speaks(cmd, Intend(op)) /\ Speaks(cmd, Done)
      /\ Speaks(cmd, To("BaselineMeasuring")) /\ \A d : Speaks(cmd, Put(d))
      /\ \A d : Speaks(cmd, NoteTo(d, "BaselineMeasured"))
      /\ Speaks(cmd, Do(Op("create", "helper"), "fail")) /\ Speaks(cmd, Check("workload", "fail"))
  BY <1>0, <1>1, MayDo, MayFail, Words
<1> HIDE DEF cmd
<1>3. Says(cmd, StageAndMeasure) BY <1>2, SaysFive DEF StageAndMeasure, BoundedWorkload
<1>4. \A d : Says(cmd, <<Put(d), NoteTo(d, "BaselineMeasured")>>) BY <1>2, SaysTwo
<1>5. Says(cmd, TransactionFirst \o Preflighted) /\ Says(cmd, ManifestFirst \o Preflighted)
  BY BeginSay DEF cmd
<1>6. Says(cmd, MeasureStepsV3) BY <1>3, <1>4, <1>5, SaysBoth DEF MeasureStepsV3
<1>7. Says(cmd, MeasureStepsV6) BY <1>3, <1>4, <1>5, SaysBoth DEF MeasureStepsV6
<1> QED BY <1>6, <1>7 DEF cmd

\* apply of v2 and of the later contracts.
LEMMA ApplySays ==
    Says("apply", ApplyStepsV2) /\ Says("apply", ApplyStepsV3)
<1> DEFINE cmd == "apply"
<1>0. cmd \notin Undos /\ {"undo_swapfile", "undo_entry", "undo_unit", "undo_all"} \subseteq Undos
  BY DEF Undos
<1>1. Leads(cmd, "") /\ Leads(cmd, "Applying") /\ Leads(cmd, "Applied")
  BY MayLead DEF BeforeOneShot
<1>2. /\ \A op : Speaks(cmd, Intend(op)) /\ Speaks(cmd, Done) /\ Speaks(cmd, SwapUuid)
      /\ Speaks(cmd, To("Applying")) /\ Speaks(cmd, To("Applied")) /\ \A d : Speaks(cmd, Put(d))
      /\ \A d : Speaks(cmd, NoteTo(d, "Applied"))
  BY <1>0, <1>1, Words
<1>3. /\ Speaks(cmd, Do(Op("create", "swapfile"), "fail"))
      /\ Speaks(cmd, Do(Op("create", "entry"), "undo_entry"))
      /\ Speaks(cmd, Do(Op("create", "unit"), "undo_unit"))
      /\ Speaks(cmd, Check("identity", "undo_swapfile")) /\ Speaks(cmd, Check("helper", "fail"))
      /\ Speaks(cmd, Check("settings", "undo_all"))
  BY <1>0, MayDo, MayFail, Words
<1>4. Says(cmd, TransactionFirst \o Preflighted) BY BeginSay
<1> HIDE DEF cmd
<1>5. Says(cmd, CreatingSwapfile) BY <1>2, <1>3, SaysFive DEF CreatingSwapfile
<1>6. Says(cmd, Creating("entry", "undo_entry")) /\ Says(cmd, Creating("unit", "undo_unit"))
  BY <1>2, <1>3, SaysThree DEF Creating
<1>7. Says(cmd, <<To("Applying")>>) BY <1>2, SaysOne
<1>8. Says(cmd, <<Check("settings", "undo_all"), To("Applied")>>) BY <1>2, <1>3, SaysTwo
<1>9. Says(cmd, <<Check("helper", "fail"), Check("settings", "undo_all"),
                  Put("apply"), NoteTo("apply", "Applied")>>)
  BY <1>2, <1>3, SaysFour
<1>10. Says(cmd, ApplyStepsV2)
  BY <1>4, <1>5, <1>6, <1>7, <1>8, SaysBoth DEF ApplyStepsV2
<1>11. Says(cmd, ApplyStepsV3)
  BY <1>5, <1>6, <1>7, <1>9, SaysBoth DEF ApplyStepsV3
<1> QED BY <1>10, <1>11 DEF cmd

\* The rollback of an apply only removes, and fails in the end.
LEMMA RollbackSays ==
    ASSUME NEW cmd \in Undos, NEW created \in Seq(Owned)
    PROVE  Says(cmd, RollbackSteps(created))
<1>1. ASSUME NEW x PROVE Speaks(cmd, Try(Op("remove", x), 0))
  BY MayDo, MayFail DEF Speaks, Try, Plain
<1>2. Speaks(cmd, FailTransaction) BY MayFail DEF Speaks, FailTransaction, Plain
<1> DEFINE u == [i \in DOMAIN created |-> Try(Op("remove", created[i]), 0)]
<1>3. DOMAIN created = 1..Len(created) /\ Len(created) \in Nat OBVIOUS
<1>4. u \in Seq({Try(Op("remove", x), 0) : x \in Owned}) /\ Len(u) = Len(created)
  <2>1. \A i \in 1..Len(created) : created[i] \in Owned OBVIOUS
  <2>2. u = [i \in 1..Len(created) |-> Try(Op("remove", created[i]), 0)] BY <1>3
  <2>3. \A i \in 1..Len(created) :
            Try(Op("remove", created[i]), 0) \in {Try(Op("remove", x), 0) : x \in Owned}
    BY <2>1
  <2>4. u \in [1..Len(created) -> {Try(Op("remove", x), 0) : x \in Owned}] BY <2>2, <2>3
  <2> HIDE DEF u
  <2> QED BY <1>3, <2>4
<1>5. \A i \in 1..Len(u) : u[i] = Try(Op("remove", created[i]), 0) BY <1>3, <1>4
<1> HIDE DEF u
<1>6. Says(cmd, u) BY <1>1, <1>4, <1>5 DEF Says
<1>7. Says(cmd, <<Try(Op("remove", "swapfile"), 0), FailTransaction>>) BY <1>1, <1>2, SaysTwo
<1> QED BY <1>6, <1>7, SaysBoth DEF RollbackSteps, u

\* The way there and back.
LEMMA WaySays ==
    /\ Says("one_shot", SelectOneShotStepsV2) /\ Says("one_shot", SelectOneShotStepsV3)
    /\ Says("post_boot", PostBootStepsV2) /\ Says("post_boot", PostBootStepsV3)
    /\ Says("baseline", SelectBaselineStepsV2)
<1>1. /\ Says("one_shot", SelectOneShotStepsV2) /\ Says("one_shot", SelectOneShotStepsV3)
  <2> DEFINE cmd == "one_shot"
  <2>1. cmd \notin Undos /\ Leads(cmd, "") /\ \A s \in OneShotStages : Leads(cmd, s)
    BY MayLead DEF Undos
  <2>2. /\ Speaks(cmd, To("OneShotSelecting")) /\ \A op : Speaks(cmd, Intend(op))
        /\ Speaks(cmd, Do(Op("oneshot", "experimental"), "fail"))
        /\ Speaks(cmd, Put("oneshot")) /\ Speaks(cmd, DoneNoteTo("oneshot", "OneShotSelected"))
        /\ Speaks(cmd, Check("helper", "abort"))
    BY <2>1, MayDo, MayFail, Words DEF OneShotStages
  <2> HIDE DEF cmd
  <2>3. Says(cmd, SelectOneShotStepsV2) BY <2>2, SaysFive DEF SelectOneShotStepsV2
  <2>4. Says(cmd, SelectOneShotStepsV3) BY <2>2, <2>3, SaysOne, SaysBoth DEF SelectOneShotStepsV3
  <2> QED BY <2>3, <2>4 DEF cmd
<1>2. /\ Says("post_boot", PostBootStepsV2) /\ Says("post_boot", PostBootStepsV3)
  <2> DEFINE cmd == "post_boot"
  <2>1. cmd \notin Undos /\ Leads(cmd, "ExperimentalBoot") /\ Leads(cmd, "PostBootMeasuring")
        /\ Leads(cmd, "PostBootValidated")
    BY DEF Leads, BeforeOneShot, Undos, OneShotStages, Terminal
  <2>2. /\ Speaks(cmd, To("ExperimentalBoot")) /\ Speaks(cmd, To("PostBootMeasuring"))
        /\ Speaks(cmd, Put("postboot")) /\ Speaks(cmd, NoteTo("postboot", "PostBootValidated"))
        /\ \A w : /\ Speaks(cmd, Check(w, "abort")) /\ Speaks(cmd, Check(w, "fail"))
                  /\ \A n : Speaks(cmd, Unless(w, n))
    BY <2>1, MayFail, Words
  <2> HIDE DEF cmd
  <2>3. Says(cmd, MeasureProfile) BY <2>2, SaysFive DEF MeasureProfile, BoundedWorkload
  <2>4. Says(cmd, Optionally("chosen", <<To("ExperimentalBoot")>>))
    BY <2>2, SaysOne, SaysBoth DEF Optionally
  <2>5. Says(cmd, <<Check("activated", "abort"), Check("helper", "abort")>>) BY <2>2, SaysTwo
  <2>6. Says(cmd, PostBootStepsV2) BY <2>3, <2>4, SaysBoth DEF PostBootStepsV2
  <2>7. Says(cmd, PostBootStepsV3) BY <2>3, <2>5, SaysBoth DEF PostBootStepsV3
  <2> QED BY <2>6, <2>7 DEF cmd
<1>3. Says("baseline", SelectBaselineStepsV2)
  <2> DEFINE cmd == "baseline"
  <2>1. cmd \notin Undos /\ Leads(cmd, "") /\ Leads(cmd, "BaselineSelecting")
        /\ Leads(cmd, "BaselineSelected")
    BY DEF Leads, BeforeOneShot, Undos, OneShotStages, Terminal
  <2>2. /\ Speaks(cmd, To("BaselineSelecting")) /\ \A op : Speaks(cmd, Intend(op))
        /\ Speaks(cmd, Do(Op("oneshot", "baseline"), "fail"))
        /\ Speaks(cmd, DoneTo("BaselineSelected"))
    BY <2>1, MayDo, MayFail, Words
  <2> HIDE DEF cmd
  <2> QED BY <2>2, SaysFour DEF SelectBaselineStepsV2, cmd
<1> QED BY <1>1, <1>2, <1>3

\* The commands that remove.
LEMMA RemovalSays ==
    ASSUME NEW cmd \in {"remove", "clear", "cleanup"}
    PROVE  /\ Says(cmd, RemoveSteps) /\ Says(cmd, ClearThenRemoveSteps)
           /\ Says(cmd, CleanupStepsV2) /\ Says(cmd, CleanupStepsV3)
<1>0. /\ cmd \notin Undos /\ Leads(cmd, "") /\ Leads(cmd, "Recovered") /\ Leads(cmd, "Restored")
      /\ Leads(cmd, "BaselineBoot") /\ Leads(cmd, "BaselineVerified") /\ Leads(cmd, "Cleaning")
  BY DEF Leads, BeforeOneShot, Undos, OneShotStages, Terminal
<1>1. \A x : Does(cmd, Op("remove", x)) /\ Does(cmd, Op("oneshot", "none")) BY MayDo
<1>2. /\ \A op : Speaks(cmd, Intend(op)) /\ Speaks(cmd, Done) /\ Speaks(cmd, Seal)
      /\ Speaks(cmd, DoneTo("Recovered")) /\ Speaks(cmd, NoteTo("recovery", ""))
      /\ Speaks(cmd, DoneTo("Restored")) /\ Speaks(cmd, DoneNoteTo("authority", "Restored"))
      /\ Speaks(cmd, To("BaselineBoot")) /\ Speaks(cmd, To("Cleaning"))
      /\ Speaks(cmd, NoteTo("restore", "BaselineVerified"))
      /\ \A d : Speaks(cmd, Put(d))
  BY <1>0, Words
<1>3. /\ \A w : /\ Speaks(cmd, Check(w, "abort")) /\ Speaks(cmd, Check(w, "fail"))
                /\ \A n : Speaks(cmd, Unless(w, n))
      /\ \A x : Speaks(cmd, Do(Op("remove", x), "abort")) /\ Speaks(cmd, Do(Op("remove", x), "fail"))
      /\ Speaks(cmd, Do(Op("oneshot", "none"), "abort"))
  BY <1>0, <1>1, MayFail, Words
<1>4. \A x : Says(cmd, RemovingExact(x)) /\ Says(cmd, Removing(x))
  <2>1. \A x, n : Says(cmd, <<Unless(x, n)>>) BY <1>3, SaysOne
  <2>2. \A x : Says(cmd, <<Intend(Op("remove", x)), Do(Op("remove", x), "abort"), Done>>)
    BY <1>2, <1>3, SaysThree
  <2>3. \A x : Says(cmd, Removing(x)) BY <1>2, <1>3, SaysThree DEF Removing
  <2> QED BY <2>1, <2>2, <2>3, SaysBoth DEF RemovingExact, Optionally
<1>5. Says(cmd, RemoveSteps)
  <2>1. Says(cmd, <<Intend(Op("remove", "swapfile")), Do(Op("remove", "swapfile"), "abort"),
                    Check("finalize", "abort"), DoneTo("Recovered")>>)
    BY <1>2, <1>3, SaysFour
  <2>2. Says(cmd, <<Put("recovery"), NoteTo("recovery", ""), Seal>>) BY <1>2, SaysThree
  <2> QED BY <1>4, <2>1, <2>2, SaysBoth DEF RemoveSteps
<1>6. Says(cmd, ClearThenRemoveSteps)
  <2>1. Says(cmd, <<Check("oneshot", "abort"), Intend(Op("oneshot", "none")),
                    Do(Op("oneshot", "none"), "abort"), Done>>)
    BY <1>2, <1>3, SaysFour
  <2> QED BY <1>5, <2>1, SaysBoth DEF ClearThenRemoveSteps
<1>7. Says(cmd, ProveBaseline)
  <2>1. Says(cmd, Optionally("selected", <<To("BaselineBoot")>>))
    BY <1>2, <1>3, SaysOne, SaysBoth DEF Optionally
  <2>2. Says(cmd, <<Check("baseline", "abort"), Put("restore"),
                    NoteTo("restore", "BaselineVerified"), To("Cleaning")>>)
    BY <1>2, <1>3, SaysFour
  <2> QED BY <2>1, <2>2, SaysBoth DEF ProveBaseline
<1>8. Says(cmd, RemoveSwapfile) BY <1>2, <1>3, SaysFour DEF RemoveSwapfile
<1>9. Says(cmd, CleanupStepsV2)
  <2>1. Says(cmd, <<DoneTo("Restored"), Seal>>) BY <1>2, SaysTwo
  <2> QED BY <1>4, <1>7, <1>8, <2>1, SaysBoth DEF CleanupStepsV2
<1>10. Says(cmd, CleanupStepsV3)
  <2>1. Says(cmd, <<Check("authority", "abort"), Put("authority"),
                    DoneNoteTo("authority", "Restored"), Seal>>)
    BY <1>2, <1>3, SaysFour
  <2> QED BY <1>4, <1>7, <1>8, <2>1, SaysBoth DEF CleanupStepsV3
<1> QED BY <1>5, <1>6, <1>9, <1>10

\* The unit.
LEMMA ActivationSays ==
    Says("activate", ActivateSteps) /\ Says("activation", ActivationFailureSteps)
<1>1. Says("activate", ActivateSteps)
  <2> DEFINE cmd == "activate"
  <2>0. cmd \notin Undos BY DEF Undos
  <2>1. /\ Leads(cmd, "") /\ Leads(cmd, "ExperimentalBootDetected")
        /\ Leads(cmd, "ActivationPreparing") /\ Leads(cmd, "ZswapDisabling")
        /\ Leads(cmd, "ZswapParametersApplying") /\ Leads(cmd, "ZswapEnabling")
        /\ Leads(cmd, "SwapActivating") /\ Leads(cmd, "ActivationVerified")
    BY DEF Leads, BeforeOneShot, OneShotStages, Terminal
  <2>2. /\ Speaks(cmd, To("ExperimentalBootDetected")) /\ Speaks(cmd, To("ActivationPreparing"))
        /\ Speaks(cmd, To("ZswapParametersApplying"))
        /\ \A op : /\ Speaks(cmd, ToIntend("ZswapDisabling", op)) /\ Speaks(cmd, Intend(op))
                   /\ Speaks(cmd, ToIntend("ZswapEnabling", op))
                   /\ Speaks(cmd, ToIntend("SwapActivating", op))
        /\ Speaks(cmd, Done) /\ Speaks(cmd, Put("activation"))
        /\ Speaks(cmd, DoneNoteTo("activation", "ActivationVerified"))
    BY <2>0, <2>1, Words
  <2>3. /\ \A z : Speaks(cmd, Do(Op("zswap", z), "activation"))
        /\ Speaks(cmd, Do(Op("swap", "on"), "activation"))
    BY <2>0, MayDo, MayFail, Words
  <2> HIDE DEF cmd
  <2>4. Says(cmd, <<To("ExperimentalBootDetected"), To("ActivationPreparing")>>)
    BY <2>2, SaysTwo
  <2>5. Says(cmd, <<ToIntend("ZswapDisabling", Op("zswap", "off")),
                    Do(Op("zswap", "off"), "activation"), Done>>)
    BY <2>2, <2>3, SaysThree
  <2>6. Says(cmd, <<To("ZswapParametersApplying"), Intend(Op("zswap", "parameters")),
                    Do(Op("zswap", "parameters"), "activation"), Done>>)
    BY <2>2, <2>3, SaysFour
  <2>7. Says(cmd, <<ToIntend("ZswapEnabling", Op("zswap", "on")),
                    Do(Op("zswap", "on"), "activation"), Done>>)
    BY <2>2, <2>3, SaysThree
  <2>8. Says(cmd, <<ToIntend("SwapActivating", Op("swap", "on")),
                    Do(Op("swap", "on"), "activation"),
                    Put("activation"), DoneNoteTo("activation", "ActivationVerified")>>)
    BY <2>2, <2>3, SaysFour
  <2>9. Says(cmd, ActivateSteps) BY <2>4, <2>5, <2>6, <2>7, <2>8, SaysBoth DEF ActivateSteps
  <2> QED BY <2>9 DEF cmd
<1>2. Says("activation", ActivationFailureSteps)
  <2> DEFINE cmd == "activation"
  <2>0. cmd \notin Undos BY DEF Undos
  <2>1. Leads(cmd, "") /\ Leads(cmd, "ActivationFailed")
    BY DEF Leads, BeforeOneShot, OneShotStages, Terminal
  <2>2. /\ \A op : Speaks(cmd, Intend(op))
        /\ Speaks(cmd, Done) /\ Speaks(cmd, DoneTo("ActivationFailed")) /\ Speaks(cmd, Return)
        /\ Speaks(cmd, To("ActivationFailed")) /\ \A n : Speaks(cmd, Unless("active", n))
        /\ \A n : /\ \A z : Speaks(cmd, Try(Op("zswap", z), n))
                  /\ Speaks(cmd, Try(Op("swap", "off"), n))
                  /\ Speaks(cmd, Try(Op("oneshot", "baseline"), n))
    BY <2>0, <2>1, MayDo, Words
  <2> HIDE DEF cmd
  <2>3. ASSUME NEW v, Says(cmd, v), NEW op, \A n : Speaks(cmd, Try(op, n))
        PROVE  Says(cmd, Attempt(op, v))
    BY <2>2, <2>3, SaysTwo, SaysBoth DEF Attempt
  <2>4. Says(cmd, <<Done>>) /\ Says(cmd, <<To("ActivationFailed")>>)
        /\ Says(cmd, <<DoneTo("ActivationFailed"), Return>>)
    BY <2>2, SaysOne, SaysTwo
  <2>5. /\ Says(cmd, Attempt(Op("swap", "off"), <<Done>>))
        /\ \A z : Says(cmd, Attempt(Op("zswap", z), <<Done>>))
        /\ Says(cmd, Attempt(Op("oneshot", "baseline"), <<DoneTo("ActivationFailed"), Return>>))
    BY <2>2, <2>3, <2>4
  <2>6. Says(cmd, Optionally("active", Attempt(Op("swap", "off"), <<Done>>)))
    BY <2>2, <2>5, SaysOne, SaysBoth DEF Optionally
  <2>7. Says(cmd, <<Done>> \o Attempt(Op("zswap", "parameters"), <<Done>>)
                           \o Attempt(Op("zswap", "off"), <<Done>>))
    BY <2>4, <2>5, SaysBoth
  <2>8. Says(cmd, Attempt(Op("zswap", "off"),
                     <<Done>> \o Attempt(Op("zswap", "parameters"), <<Done>>)
                              \o Attempt(Op("zswap", "off"), <<Done>>)))
    BY <2>2, <2>3, <2>7
  <2>9. Says(cmd, ActivationFailureSteps)
    BY <2>4, <2>5, <2>6, <2>8, SaysBoth DEF ActivationFailureSteps
  <2> QED BY <2>9 DEF cmd
<1> QED BY <1>1, <1>2

\* What the commands run.
LEMMA ProgramIs ==
    ASSUME NEW c \in Contracts
    PROVE  /\ Commands(c) \subseteq Undos \cup
                {"measure", "apply", "one_shot", "post_boot", "baseline", "cleanup",
                 "activate", "activation", "remove", "clear", "fail"}
           /\ "measure" \in Commands(c) =>
                 Program(c, "measure") \in {MeasureStepsV3, MeasureStepsV6}
           /\ Program(c, "apply") = IF c = "v2" THEN ApplyStepsV2 ELSE ApplyStepsV3
           /\ Program(c, "one_shot") =
                 IF c = "v2" THEN SelectOneShotStepsV2 ELSE SelectOneShotStepsV3
           /\ Program(c, "post_boot") = IF c = "v2" THEN PostBootStepsV2 ELSE PostBootStepsV3
           /\ Program(c, "baseline") = SelectBaselineStepsV2
           /\ Program(c, "cleanup") = IF c = "v2" THEN CleanupStepsV2 ELSE CleanupStepsV3
           /\ Program(c, "activate") = ActivateSteps
           /\ Program(c, "activation") = ActivationFailureSteps
           /\ Program(c, "remove") = RemoveSteps /\ Program(c, "clear") = ClearThenRemoveSteps
           /\ Program(c, "fail") = <<FailTransaction>>
           /\ \A u \in Undos : \E created \in Seq(Owned) : Program(c, u) = RollbackSteps(created)
<1>0. c \in {"v2", "v3", "v5", "v6"} BY LifecycleAssumption
<1>1. DOMAIN OwnProgram = {"activate", "activation", "remove", "clear", "fail"}
  BY DEF OwnProgram
<1>2. DOMAIN Rollback[c] = Undos
  BY <1>0 DEF Rollback, RollbackV2, RollbackV3, RollbackV5, RollbackV6, Undos
<1>3. DOMAIN LibraryProgram[c] =
        {"apply", "one_shot", "post_boot", "baseline", "cleanup", First(c)}
  BY <1>0 DEF LibraryProgram, First
<1>4. First(c) = IF c = "v2" THEN "apply" ELSE "measure" BY DEF First
<1>5. /\ Commands(c) \subseteq Undos \cup
                {"measure", "apply", "one_shot", "post_boot", "baseline", "cleanup",
                 "activate", "activation", "remove", "clear", "fail"}
      /\ "measure" \in Commands(c) => c # "v2"
  BY <1>1, <1>2, <1>3, <1>4 DEF Commands, Undos
<1>6. \A cmd \in {"measure", "apply", "one_shot", "post_boot", "baseline", "cleanup"} :
         Program(c, cmd) = LibraryProgram[c][cmd]
  BY <1>1, <1>2 DEF Program, Undos
<1>7. \A cmd \in {"activate", "activation", "remove", "clear", "fail"} :
         Program(c, cmd) = OwnProgram[cmd]
  BY <1>1, <1>2 DEF Program, Undos
<1>8. \A cmd \in Undos : Program(c, cmd) = Rollback[c][cmd]
  BY <1>1, <1>2 DEF Program, Undos
<1>9. c # "v2" => LibraryProgram[c]["measure"] \in {MeasureStepsV3, MeasureStepsV6}
  BY <1>0 DEF LibraryProgram, MeasureStepsV5
<1>10. /\ LibraryProgram[c]["apply"] = IF c = "v2" THEN ApplyStepsV2 ELSE ApplyStepsV3
       /\ LibraryProgram[c]["one_shot"] =
             IF c = "v2" THEN SelectOneShotStepsV2 ELSE SelectOneShotStepsV3
  BY <1>0 DEF LibraryProgram, ApplyStepsV5, ApplyStepsV6, SelectOneShotStepsV5, SelectOneShotStepsV6
<1>11. /\ LibraryProgram[c]["post_boot"] = IF c = "v2" THEN PostBootStepsV2 ELSE PostBootStepsV3
       /\ LibraryProgram[c]["baseline"] = SelectBaselineStepsV2
       /\ LibraryProgram[c]["cleanup"] = IF c = "v2" THEN CleanupStepsV2 ELSE CleanupStepsV3
  BY <1>0 DEF LibraryProgram, PostBootStepsV5, PostBootStepsV6, SelectBaselineStepsV3,
              SelectBaselineStepsV5, SelectBaselineStepsV6, CleanupStepsV5, CleanupStepsV6
<1>12. ASSUME NEW u \in Undos PROVE \E created \in Seq(Owned) : Rollback[c][u] = RollbackSteps(created)
  <2>1. /\ <<>> \in Seq(Owned) /\ <<"helper">> \in Seq(Owned)
        /\ <<"entry">> \in Seq(Owned) /\ <<"entry", "helper">> \in Seq(Owned)
        /\ <<"unit", "entry">> \in Seq(Owned) /\ <<"unit", "entry", "helper">> \in Seq(Owned)
    BY Literals
  <2>2. CASE u = "undo_swapfile"
    <3>1. Rollback[c][u] = RollbackSteps(<<>>)
      BY <2>2, <1>0 DEF Rollback, RollbackV2, RollbackV3, RollbackV5, RollbackV6
    <3> QED BY <2>1, <3>1
  <2>3. CASE u = "undo_entry"
    <3>1. Rollback[c][u] = RollbackSteps(<<>>) \/ Rollback[c][u] = RollbackSteps(<<"helper">>)
      BY <2>3, <1>0 DEF Rollback, RollbackV2, RollbackV3, RollbackV5, RollbackV6
    <3> QED BY <2>1, <3>1
  <2>4. CASE u = "undo_unit"
    <3>1. \/ Rollback[c][u] = RollbackSteps(<<"entry">>)
          \/ Rollback[c][u] = RollbackSteps(<<"entry", "helper">>)
      BY <2>4, <1>0 DEF Rollback, RollbackV2, RollbackV3, RollbackV5, RollbackV6
    <3> QED BY <2>1, <3>1
  <2>5. CASE u = "undo_all"
    <3>1. \/ Rollback[c][u] = RollbackSteps(<<"unit", "entry">>)
          \/ Rollback[c][u] = RollbackSteps(<<"unit", "entry", "helper">>)
      BY <2>5, <1>0 DEF Rollback, RollbackV2, RollbackV3, RollbackV5, RollbackV6
    <3> QED BY <2>1, <3>1
  <2> QED BY <2>2, <2>3, <2>4, <2>5 DEF Undos
<1>13. /\ OwnProgram["activate"] = ActivateSteps
       /\ OwnProgram["activation"] = ActivationFailureSteps
       /\ OwnProgram["remove"] = RemoveSteps /\ OwnProgram["clear"] = ClearThenRemoveSteps
       /\ OwnProgram["fail"] = <<FailTransaction>>
  BY DEF OwnProgram
<1> QED BY <1>5, <1>6, <1>7, <1>8, <1>9, <1>10, <1>11, <1>12, <1>13

\* Every program of every contract keeps to its words.
LEMMA ProgramSays ==
    ASSUME NEW c \in Contracts, NEW cmd \in Commands(c) PROVE Says(cmd, Program(c, cmd))
<1>1. CASE cmd \in Undos BY <1>1, ProgramIs, RollbackSays
<1>2. CASE cmd = "measure" BY <1>2, ProgramIs, MeasureSays
<1>3. CASE cmd = "apply" BY <1>3, ProgramIs, ApplySays
<1>4. CASE cmd \in {"one_shot", "post_boot", "baseline"} BY <1>4, ProgramIs, WaySays
<1>5. CASE cmd \in {"cleanup", "remove", "clear"}
  <2>1. Says(cmd, RemoveSteps) /\ Says(cmd, ClearThenRemoveSteps)
        /\ Says(cmd, CleanupStepsV2) /\ Says(cmd, CleanupStepsV3)
    BY <1>5, RemovalSays
  <2> QED BY <1>5, <2>1, ProgramIs
<1>6. CASE cmd \in {"activate", "activation"} BY <1>6, ProgramIs, ActivationSays
<1>7. CASE cmd = "fail"
  <2>1. Speaks("fail", FailTransaction) BY Words DEF Undos
  <2>2. Says("fail", <<FailTransaction>>) BY <2>1, SaysOne
  <2> QED BY <1>7, <2>2, ProgramIs
<1> QED BY <1>1, <1>2, <1>3, <1>4, <1>5, <1>6, <1>7, ProgramIs

-----------------------------------------------------------------------------
(* The places of the programs: what stands where in those whose order counts. *)

IsSeq(u) == \E S : u \in Seq(S)

\* The program u has the piece v behind its first k steps.
At(u, k, v) ==
    /\ Len(v) \in Nat /\ k + Len(v) <= Len(u)
    /\ \A i \in 1..Len(v) : u[k + i] = v[i]

\* What is appended has its place behind, and moves nothing.
LEMMA Appended ==
    ASSUME NEW u, NEW v, IsSeq(u), IsSeq(v)
    PROVE  /\ IsSeq(u \o v) /\ Len(u) \in Nat /\ Len(v) \in Nat
           /\ Len(u \o v) = Len(u) + Len(v)
           /\ At(u \o v, Len(u), v) /\ At(u \o v, 0, u)
<1>1. PICK S, T : u \in Seq(S) /\ v \in Seq(T) BY DEF IsSeq
<1>2. u \in Seq(S \cup T) /\ v \in Seq(S \cup T) BY <1>1
<1>3. /\ u \o v \in Seq(S \cup T) /\ Len(u \o v) = Len(u) + Len(v)
      /\ Len(u) \in Nat /\ Len(v) \in Nat
      /\ \A i \in 1..(Len(u) + Len(v)) :
            (u \o v)[i] = IF i <= Len(u) THEN u[i] ELSE v[i - Len(u)]
  BY <1>2, ConcatProperties
<1>4. ASSUME NEW i \in 1..Len(v) PROVE (u \o v)[Len(u) + i] = v[i]
  <2>1. Len(u) + i \in 1..(Len(u) + Len(v)) /\ ~(Len(u) + i <= Len(u)) /\ (Len(u) + i) - Len(u) = i
    BY <1>3
  <2> QED BY <1>3, <2>1
<1>5. ASSUME NEW i \in 1..Len(u) PROVE (u \o v)[0 + i] = u[i]
  <2>1. i \in 1..(Len(u) + Len(v)) /\ i <= Len(u) /\ 0 + i = i BY <1>3
  <2> QED BY <1>3, <2>1
<1>6. At(u \o v, Len(u), v) BY <1>3, <1>4 DEF At
<1>7. At(u \o v, 0, u) BY <1>3, <1>5 DEF At
<1> QED BY <1>3, <1>6, <1>7 DEF IsSeq

\* A piece stays where it is when more is appended.
LEMMA AtStill ==
    ASSUME NEW u, NEW v, NEW x, NEW k \in Nat, IsSeq(u), IsSeq(v), At(u, k, x)
    PROVE  At(u \o v, k, x)
<1>1. /\ Len(u) \in Nat /\ Len(v) \in Nat /\ Len(u \o v) = Len(u) + Len(v)
      /\ At(u \o v, 0, u)
  BY Appended
<1>2. Len(x) \in Nat /\ k + Len(x) <= Len(u) BY DEF At
<1>3. ASSUME NEW i \in 1..Len(x) PROVE (u \o v)[k + i] = x[i]
  <2>1. k + i \in 1..Len(u) /\ 0 + (k + i) = k + i BY <1>1, <1>2
  <2>2. (u \o v)[0 + (k + i)] = u[k + i] BY <1>1, <2>1 DEF At
  <2> QED BY <2>1, <2>2 DEF At
<1> QED BY <1>1, <1>2, <1>3 DEF At

\* Tuples are sequences.
LEMMA Tuples ==
    /\ \A a : IsSeq(<<a>>) /\ Len(<<a>>) = 1
    /\ \A a, b : IsSeq(<<a, b>>) /\ Len(<<a, b>>) = 2
    /\ \A a, b, c : IsSeq(<<a, b, c>>) /\ Len(<<a, b, c>>) = 3
    /\ \A a, b, c, d : IsSeq(<<a, b, c, d>>) /\ Len(<<a, b, c, d>>) = 4
    /\ \A a, b, c, d, e : IsSeq(<<a, b, c, d, e>>) /\ Len(<<a, b, c, d, e>>) = 5
<1>1. ASSUME NEW a PROVE <<a>> \in Seq({a}) /\ Len(<<a>>) = 1 OBVIOUS
<1>2. ASSUME NEW a, NEW b PROVE <<a, b>> \in Seq({a, b}) /\ Len(<<a, b>>) = 2 OBVIOUS
<1>3. ASSUME NEW a, NEW b, NEW c
      PROVE  <<a, b, c>> \in Seq({a, b, c}) /\ Len(<<a, b, c>>) = 3
  OBVIOUS
<1>4. ASSUME NEW a, NEW b, NEW c, NEW d
      PROVE  <<a, b, c, d>> \in Seq({a, b, c, d}) /\ Len(<<a, b, c, d>>) = 4
  OBVIOUS
<1>5. ASSUME NEW a, NEW b, NEW c, NEW d, NEW e
      PROVE  <<a, b, c, d, e>> \in Seq({a, b, c, d, e}) /\ Len(<<a, b, c, d, e>>) = 5
  OBVIOUS
<1> QED BY <1>1, <1>2, <1>3, <1>4, <1>5 DEF IsSeq

\* The places of short pieces within a program.
LEMMA InPlace ==
    ASSUME NEW u, NEW k \in Nat
    PROVE  /\ \A a : At(u, k, <<a>>) => u[k + 1] = a
           /\ \A a, b : At(u, k, <<a, b>>) => u[k + 1] = a /\ u[k + 2] = b
           /\ \A a, b, c : At(u, k, <<a, b, c>>) =>
                 u[k + 1] = a /\ u[k + 2] = b /\ u[k + 3] = c
           /\ \A a, b, c, d : At(u, k, <<a, b, c, d>>) =>
                 u[k + 1] = a /\ u[k + 2] = b /\ u[k + 3] = c /\ u[k + 4] = d
           /\ \A a, b, c, d, e : At(u, k, <<a, b, c, d, e>>) =>
                 /\ u[k + 1] = a /\ u[k + 2] = b /\ u[k + 3] = c /\ u[k + 4] = d
                 /\ u[k + 5] = e
<1>1. ASSUME NEW a, At(u, k, <<a>>) PROVE u[k + 1] = a BY <1>1 DEF At
<1>2. ASSUME NEW a, NEW b, At(u, k, <<a, b>>) PROVE u[k + 1] = a /\ u[k + 2] = b
  BY <1>2 DEF At
<1>3. ASSUME NEW a, NEW b, NEW c, At(u, k, <<a, b, c>>)
      PROVE  u[k + 1] = a /\ u[k + 2] = b /\ u[k + 3] = c
  BY <1>3 DEF At
<1>4. ASSUME NEW a, NEW b, NEW c, NEW d, At(u, k, <<a, b, c, d>>)
      PROVE  u[k + 1] = a /\ u[k + 2] = b /\ u[k + 3] = c /\ u[k + 4] = d
  BY <1>4 DEF At
<1>5. ASSUME NEW a, NEW b, NEW c, NEW d, NEW e, At(u, k, <<a, b, c, d, e>>)
      PROVE  u[k + 1] = a /\ u[k + 2] = b /\ u[k + 3] = c /\ u[k + 4] = d /\ u[k + 5] = e
  BY <1>5 DEF At
<1> QED BY <1>1, <1>2, <1>3, <1>4, <1>5

\* The write that names the record of a recovery.
RecoveryNoted == NoteTo("recovery", "")

\* An optional piece is a piece.
LEMMA Glued ==
    /\ \A a, b : <<a>> \o <<b>> = <<a, b>>
    /\ \A a, b, c, d : <<a>> \o <<b, c, d>> = <<a, b, c, d>>
<1>1. ASSUME NEW a, NEW b PROVE <<a>> \o <<b>> = <<a, b>>
  <2> DEFINE u == <<a>>  v == <<b>>  T == {a, b}
  <2>1. u \in Seq(T) /\ v \in Seq(T) /\ Len(u) = 1 /\ Len(v) = 1 /\ u[1] = a /\ v[1] = b
    OBVIOUS
  <2>2. <<a, b>> \in Seq(T) /\ Len(<<a, b>>) = 2 /\ <<a, b>>[1] = a /\ <<a, b>>[2] = b
    OBVIOUS
  <2> HIDE DEF u, v
  <2>3. u \o v \in Seq(T) /\ Len(u \o v) = 2 /\ (u \o v)[1] = a /\ (u \o v)[2] = b
    BY <2>1, ConcatProperties
  <2> DEFINE x == u \o v  y == <<a, b>>
  <2>4. x \in Seq(T) /\ y \in Seq(T) /\ Len(x) = Len(y) BY <2>2, <2>3
  <2>5. \A i \in 1..Len(x) : x[i] = y[i] BY <2>2, <2>3
  <2> HIDE DEF x, y
  <2>6. x = y BY <2>4, <2>5, SeqEqual
  <2> QED BY <2>6 DEF u, v, x, y
<1>2. ASSUME NEW a, NEW b, NEW c, NEW d PROVE <<a>> \o <<b, c, d>> = <<a, b, c, d>>
  <2> DEFINE u == <<a>>  v == <<b, c, d>>  T == {a, b, c, d}
  <2>1. /\ u \in Seq(T) /\ v \in Seq(T) /\ Len(u) = 1 /\ Len(v) = 3 /\ u[1] = a
        /\ v[1] = b /\ v[2] = c /\ v[3] = d
    OBVIOUS
  <2>2. /\ <<a, b, c, d>> \in Seq(T) /\ Len(<<a, b, c, d>>) = 4 /\ <<a, b, c, d>>[1] = a
        /\ <<a, b, c, d>>[2] = b /\ <<a, b, c, d>>[3] = c /\ <<a, b, c, d>>[4] = d
    OBVIOUS
  <2> HIDE DEF u, v
  <2>3. /\ u \o v \in Seq(T) /\ Len(u \o v) = 4 /\ (u \o v)[1] = a /\ (u \o v)[2] = b
        /\ (u \o v)[3] = c /\ (u \o v)[4] = d
    <3>0. u \in Seq(T) /\ v \in Seq(T) BY <2>1
    <3> HIDE DEF T
    <3>1. /\ u \o v \in Seq(T) /\ Len(u \o v) = Len(u) + Len(v)
          /\ \A i \in 1..(Len(u) + Len(v)) :
                (u \o v)[i] = IF i <= Len(u) THEN u[i] ELSE v[i - Len(u)]
      BY <3>0, ConcatProperties
    <3> QED BY <2>1, <3>1
  <2> DEFINE x == u \o v  y == <<a, b, c, d>>
  <2>4. x \in Seq(T) /\ y \in Seq(T) /\ Len(x) = Len(y) BY <2>2, <2>3
  <2>5. \A i \in 1..Len(x) : x[i] = y[i] BY <2>2, <2>3
  <2> HIDE DEF x, y
  <2>6. x = y BY <2>4, <2>5, SeqEqual
  <2> QED BY <2>6 DEF u, v, x, y
<1> QED BY <1>1, <1>2

\* The optional pieces, step by step.
LEMMA Optionals ==
    /\ \A x : RemovingExact(x) = <<Unless(x, 3), Intend(Op("remove", x)),
                                   Do(Op("remove", x), "abort"), Done>>
    /\ Optionally("selected", <<To("BaselineBoot")>>) =
          <<Unless("selected", 1), To("BaselineBoot")>>
BY Glued, Tuples DEF RemovingExact, Optionally

\* The removing branches of recover.
LEMMA RemovePlaces ==
    /\ IsSeq(RemoveSteps) /\ Len(RemoveSteps) = 19
    /\ RemoveSteps[1] = Unless("helper", 3)
    /\ RemoveSteps[2] = Intend(Op("remove", "helper"))
    /\ RemoveSteps[3] = Do(Op("remove", "helper"), "abort")
    /\ RemoveSteps[4] = Done
    /\ RemoveSteps[5] = Unless("unit", 3)
    /\ RemoveSteps[6] = Intend(Op("remove", "unit"))
    /\ RemoveSteps[7] = Do(Op("remove", "unit"), "abort")
    /\ RemoveSteps[8] = Done
    /\ RemoveSteps[9] = Unless("entry", 3)
    /\ RemoveSteps[10] = Intend(Op("remove", "entry"))
    /\ RemoveSteps[11] = Do(Op("remove", "entry"), "abort")
    /\ RemoveSteps[12] = Done
    /\ RemoveSteps[13] = Intend(Op("remove", "swapfile"))
    /\ RemoveSteps[14] = Do(Op("remove", "swapfile"), "abort")
    /\ RemoveSteps[15] = Check("finalize", "abort")
    /\ RemoveSteps[16] = DoneTo("Recovered")
    /\ RemoveSteps[17] = Put("recovery")
    /\ RemoveSteps[18] = RecoveryNoted
    /\ RemoveSteps[19] = Seal
<1> DEFINE q1 == RemovingExact("helper")
           q2 == RemovingExact("unit")
           q3 == RemovingExact("entry")
           q4 == <<Intend(Op("remove", "swapfile")), Do(Op("remove", "swapfile"), "abort"), Check("finalize", "abort"), DoneTo("Recovered")>>
           q5 == <<Put("recovery"), RecoveryNoted, Seal>>
           u2 == q1 \o q2
           u3 == u2 \o q3
           u4 == u3 \o q4
           u5 == u4 \o q5
<1>1. IsSeq(q1) /\ Len(q1) = 4 /\ IsSeq(q2) /\ Len(q2) = 4 /\ IsSeq(q3) /\ Len(q3) = 4 /\ IsSeq(q4) /\ Len(q4) = 4 /\ IsSeq(q5) /\ Len(q5) = 3
  BY Tuples, Optionals, Tuples DEF RecoveryNoted
<1>e1. q1 = <<Unless("helper", 3), Intend(Op("remove", "helper")), Do(Op("remove", "helper"), "abort"), Done>>
  BY Optionals, Tuples DEF RecoveryNoted
<1>e2. q2 = <<Unless("unit", 3), Intend(Op("remove", "unit")), Do(Op("remove", "unit"), "abort"), Done>>
  BY Optionals, Tuples DEF RecoveryNoted
<1>e3. q3 = <<Unless("entry", 3), Intend(Op("remove", "entry")), Do(Op("remove", "entry"), "abort"), Done>>
  BY Optionals, Tuples DEF RecoveryNoted
<1>e4. q4 = <<Intend(Op("remove", "swapfile")), Do(Op("remove", "swapfile"), "abort"), Check("finalize", "abort"), DoneTo("Recovered")>>
  BY Optionals, Tuples DEF RecoveryNoted
<1>e5. q5 = <<Put("recovery"), RecoveryNoted, Seal>>
  BY Optionals, Tuples DEF RecoveryNoted
<1>3. RemoveSteps = u5 BY DEF RemoveSteps, RecoveryNoted
<1> HIDE DEF q1, q2, q3, q4, q5
<1>4. /\ IsSeq(u2) /\ Len(u2) = 8
      /\ At(u2, 0, q1)
      /\ At(u2, 4, q2)
  <2>1. /\ IsSeq(u2) /\ Len(u2) = Len(q1) + Len(q2)
        /\ At(u2, Len(q1), q2) /\ At(u2, 0, q1)
    BY <1>1, <1>1, Appended
  <2> QED BY <1>1, <2>1
<1> HIDE DEF u2
<1>5. /\ IsSeq(u3) /\ Len(u3) = 12
      /\ At(u3, 0, q1)
      /\ At(u3, 4, q2)
      /\ At(u3, 8, q3)
  <2>1. /\ IsSeq(u3) /\ Len(u3) = Len(u2) + Len(q3)
        /\ At(u3, Len(u2), q3) /\ At(u3, 0, u2)
    BY <1>1, <1>4, Appended
  <2>2. 0 \in Nat /\ 4 \in Nat OBVIOUS
  <2>3. At(u3, 0, q1) /\ At(u3, 4, q2)
    BY <1>1, <1>4, <2>2, AtStill
  <2> QED BY <1>1, <1>4, <2>1, <2>3
<1> HIDE DEF u3
<1>6. /\ IsSeq(u4) /\ Len(u4) = 16
      /\ At(u4, 0, q1)
      /\ At(u4, 4, q2)
      /\ At(u4, 8, q3)
      /\ At(u4, 12, q4)
  <2>1. /\ IsSeq(u4) /\ Len(u4) = Len(u3) + Len(q4)
        /\ At(u4, Len(u3), q4) /\ At(u4, 0, u3)
    BY <1>1, <1>5, Appended
  <2>2. 0 \in Nat /\ 4 \in Nat /\ 8 \in Nat OBVIOUS
  <2>3. At(u4, 0, q1) /\ At(u4, 4, q2) /\ At(u4, 8, q3)
    BY <1>1, <1>5, <2>2, AtStill
  <2> QED BY <1>1, <1>5, <2>1, <2>3
<1> HIDE DEF u4
<1>7. /\ IsSeq(u5) /\ Len(u5) = 19
      /\ At(u5, 0, q1)
      /\ At(u5, 4, q2)
      /\ At(u5, 8, q3)
      /\ At(u5, 12, q4)
      /\ At(u5, 16, q5)
  <2>1. /\ IsSeq(u5) /\ Len(u5) = Len(u4) + Len(q5)
        /\ At(u5, Len(u4), q5) /\ At(u5, 0, u4)
    BY <1>1, <1>6, Appended
  <2>2. 0 \in Nat /\ 4 \in Nat /\ 8 \in Nat /\ 12 \in Nat OBVIOUS
  <2>3. At(u5, 0, q1) /\ At(u5, 4, q2) /\ At(u5, 8, q3) /\ At(u5, 12, q4)
    BY <1>1, <1>6, <2>2, AtStill
  <2> QED BY <1>1, <1>6, <2>1, <2>3
<1> HIDE DEF u5
<1>8. u5[0 + 1] = Unless("helper", 3) /\ u5[0 + 2] = Intend(Op("remove", "helper")) /\ u5[0 + 3] = Do(Op("remove", "helper"), "abort") /\ u5[0 + 4] = Done
  <2>1. 0 \in Nat OBVIOUS
  <2>2. At(u5, 0, <<Unless("helper", 3), Intend(Op("remove", "helper")), Do(Op("remove", "helper"), "abort"), Done>>) BY <1>e1, <1>7
  <2> QED BY <2>1, <2>2, InPlace
<1>9. u5[4 + 1] = Unless("unit", 3) /\ u5[4 + 2] = Intend(Op("remove", "unit")) /\ u5[4 + 3] = Do(Op("remove", "unit"), "abort") /\ u5[4 + 4] = Done
  <2>1. 4 \in Nat OBVIOUS
  <2>2. At(u5, 4, <<Unless("unit", 3), Intend(Op("remove", "unit")), Do(Op("remove", "unit"), "abort"), Done>>) BY <1>e2, <1>7
  <2> QED BY <2>1, <2>2, InPlace
<1>10. u5[8 + 1] = Unless("entry", 3) /\ u5[8 + 2] = Intend(Op("remove", "entry")) /\ u5[8 + 3] = Do(Op("remove", "entry"), "abort") /\ u5[8 + 4] = Done
  <2>1. 8 \in Nat OBVIOUS
  <2>2. At(u5, 8, <<Unless("entry", 3), Intend(Op("remove", "entry")), Do(Op("remove", "entry"), "abort"), Done>>) BY <1>e3, <1>7
  <2> QED BY <2>1, <2>2, InPlace
<1>11. u5[12 + 1] = Intend(Op("remove", "swapfile")) /\ u5[12 + 2] = Do(Op("remove", "swapfile"), "abort") /\ u5[12 + 3] = Check("finalize", "abort") /\ u5[12 + 4] = DoneTo("Recovered")
  <2>1. 12 \in Nat OBVIOUS
  <2>2. At(u5, 12, <<Intend(Op("remove", "swapfile")), Do(Op("remove", "swapfile"), "abort"), Check("finalize", "abort"), DoneTo("Recovered")>>) BY <1>e4, <1>7
  <2> QED BY <2>1, <2>2, InPlace
<1>12. u5[16 + 1] = Put("recovery") /\ u5[16 + 2] = RecoveryNoted /\ u5[16 + 3] = Seal
  <2>1. 16 \in Nat OBVIOUS
  <2>2. At(u5, 16, <<Put("recovery"), RecoveryNoted, Seal>>) BY <1>e5, <1>7
  <2> QED BY <2>1, <2>2, InPlace
<1>13. /\ 0 + 1 = 1
      /\ 0 + 2 = 2
      /\ 0 + 3 = 3
      /\ 0 + 4 = 4
      /\ 4 + 1 = 5
      /\ 4 + 2 = 6
      /\ 4 + 3 = 7
      /\ 4 + 4 = 8
      /\ 8 + 1 = 9
      /\ 8 + 2 = 10
      /\ 8 + 3 = 11
      /\ 8 + 4 = 12
      /\ 12 + 1 = 13
      /\ 12 + 2 = 14
      /\ 12 + 3 = 15
      /\ 12 + 4 = 16
      /\ 16 + 1 = 17
      /\ 16 + 2 = 18
      /\ 16 + 3 = 19
  OBVIOUS
<1> QED BY <1>3, <1>7, <1>8, <1>9, <1>10, <1>11, <1>12, <1>13, Zenon

\* What verify_then_cleanup begins with.
LEMMA ProvePlaces ==
    /\ IsSeq(ProveBaseline) /\ Len(ProveBaseline) = 6
    /\ ProveBaseline[1] = Unless("selected", 1)
    /\ ProveBaseline[2] = To("BaselineBoot")
    /\ ProveBaseline[3] = Check("baseline", "abort")
    /\ ProveBaseline[4] = Put("restore")
    /\ ProveBaseline[5] = NoteTo("restore", "BaselineVerified")
    /\ ProveBaseline[6] = To("Cleaning")
<1> DEFINE q1 == Optionally("selected", <<To("BaselineBoot")>>)
           q2 == <<Check("baseline", "abort"), Put("restore"), NoteTo("restore", "BaselineVerified"), To("Cleaning")>>
           u2 == q1 \o q2
<1>1. IsSeq(q1) /\ Len(q1) = 2 /\ IsSeq(q2) /\ Len(q2) = 4
  BY Tuples, Optionals, Tuples
<1>e1. q1 = <<Unless("selected", 1), To("BaselineBoot")>>
  BY Optionals, Tuples
<1>e2. q2 = <<Check("baseline", "abort"), Put("restore"), NoteTo("restore", "BaselineVerified"), To("Cleaning")>>
  BY Optionals, Tuples
<1>3. ProveBaseline = u2 BY DEF ProveBaseline
<1> HIDE DEF q1, q2
<1>4. /\ IsSeq(u2) /\ Len(u2) = 6
      /\ At(u2, 0, q1)
      /\ At(u2, 2, q2)
  <2>1. /\ IsSeq(u2) /\ Len(u2) = Len(q1) + Len(q2)
        /\ At(u2, Len(q1), q2) /\ At(u2, 0, q1)
    BY <1>1, <1>1, Appended
  <2> QED BY <1>1, <2>1
<1> HIDE DEF u2
<1>5. u2[0 + 1] = Unless("selected", 1) /\ u2[0 + 2] = To("BaselineBoot")
  <2>1. 0 \in Nat OBVIOUS
  <2>2. At(u2, 0, <<Unless("selected", 1), To("BaselineBoot")>>) BY <1>e1, <1>4
  <2> QED BY <2>1, <2>2, InPlace
<1>6. u2[2 + 1] = Check("baseline", "abort") /\ u2[2 + 2] = Put("restore") /\ u2[2 + 3] = NoteTo("restore", "BaselineVerified") /\ u2[2 + 4] = To("Cleaning")
  <2>1. 2 \in Nat OBVIOUS
  <2>2. At(u2, 2, <<Check("baseline", "abort"), Put("restore"), NoteTo("restore", "BaselineVerified"), To("Cleaning")>>) BY <1>e2, <1>4
  <2> QED BY <2>1, <2>2, InPlace
<1>7. /\ 0 + 1 = 1
      /\ 0 + 2 = 2
      /\ 2 + 1 = 3
      /\ 2 + 2 = 4
      /\ 2 + 3 = 5
      /\ 2 + 4 = 6
  OBVIOUS
<1> QED BY <1>3, <1>4, <1>5, <1>6, <1>7, Zenon

\* apply_exact_transaction of v3 and later.
LEMMA ApplyPlaces ==
    /\ IsSeq(ApplyStepsV3) /\ Len(ApplyStepsV3) = 16
    /\ ApplyStepsV3[1] = To("Applying")
    /\ ApplyStepsV3[2] = Intend(Op("create", "swapfile"))
    /\ ApplyStepsV3[3] = Do(Op("create", "swapfile"), "fail")
    /\ ApplyStepsV3[4] = SwapUuid
    /\ ApplyStepsV3[5] = Check("identity", "undo_swapfile")
    /\ ApplyStepsV3[6] = Done
    /\ ApplyStepsV3[7] = Intend(Op("create", "entry"))
    /\ ApplyStepsV3[8] = Do(Op("create", "entry"), "undo_entry")
    /\ ApplyStepsV3[9] = Done
    /\ ApplyStepsV3[10] = Intend(Op("create", "unit"))
    /\ ApplyStepsV3[11] = Do(Op("create", "unit"), "undo_unit")
    /\ ApplyStepsV3[12] = Done
    /\ ApplyStepsV3[13] = Check("helper", "fail")
    /\ ApplyStepsV3[14] = Check("settings", "undo_all")
    /\ ApplyStepsV3[15] = Put("apply")
    /\ ApplyStepsV3[16] = NoteTo("apply", "Applied")
<1> DEFINE q1 == <<To("Applying")>>
           q2 == CreatingSwapfile
           q3 == Creating("entry", "undo_entry")
           q4 == Creating("unit", "undo_unit")
           q5 == <<Check("helper", "fail"), Check("settings", "undo_all"), Put("apply"), NoteTo("apply", "Applied")>>
           u2 == q1 \o q2
           u3 == u2 \o q3
           u4 == u3 \o q4
           u5 == u4 \o q5
<1>1. IsSeq(q1) /\ Len(q1) = 1 /\ IsSeq(q2) /\ Len(q2) = 5 /\ IsSeq(q3) /\ Len(q3) = 3 /\ IsSeq(q4) /\ Len(q4) = 3 /\ IsSeq(q5) /\ Len(q5) = 4
  BY Tuples DEF CreatingSwapfile, Creating
<1>e1. q1 = <<To("Applying")>>
  BY Tuples DEF CreatingSwapfile, Creating
<1>e2. q2 = <<Intend(Op("create", "swapfile")), Do(Op("create", "swapfile"), "fail"), SwapUuid, Check("identity", "undo_swapfile"), Done>>
  BY Tuples DEF CreatingSwapfile, Creating
<1>e3. q3 = <<Intend(Op("create", "entry")), Do(Op("create", "entry"), "undo_entry"), Done>>
  BY Tuples DEF CreatingSwapfile, Creating
<1>e4. q4 = <<Intend(Op("create", "unit")), Do(Op("create", "unit"), "undo_unit"), Done>>
  BY Tuples DEF CreatingSwapfile, Creating
<1>e5. q5 = <<Check("helper", "fail"), Check("settings", "undo_all"), Put("apply"), NoteTo("apply", "Applied")>>
  BY Tuples DEF CreatingSwapfile, Creating
<1>3. ApplyStepsV3 = u5 BY DEF ApplyStepsV3
<1> HIDE DEF q1, q2, q3, q4, q5
<1>4. /\ IsSeq(u2) /\ Len(u2) = 6
      /\ At(u2, 0, q1)
      /\ At(u2, 1, q2)
  <2>1. /\ IsSeq(u2) /\ Len(u2) = Len(q1) + Len(q2)
        /\ At(u2, Len(q1), q2) /\ At(u2, 0, q1)
    BY <1>1, <1>1, Appended
  <2> QED BY <1>1, <2>1
<1> HIDE DEF u2
<1>5. /\ IsSeq(u3) /\ Len(u3) = 9
      /\ At(u3, 0, q1)
      /\ At(u3, 1, q2)
      /\ At(u3, 6, q3)
  <2>1. /\ IsSeq(u3) /\ Len(u3) = Len(u2) + Len(q3)
        /\ At(u3, Len(u2), q3) /\ At(u3, 0, u2)
    BY <1>1, <1>4, Appended
  <2>2. 0 \in Nat /\ 1 \in Nat OBVIOUS
  <2>3. At(u3, 0, q1) /\ At(u3, 1, q2)
    BY <1>1, <1>4, <2>2, AtStill
  <2> QED BY <1>1, <1>4, <2>1, <2>3
<1> HIDE DEF u3
<1>6. /\ IsSeq(u4) /\ Len(u4) = 12
      /\ At(u4, 0, q1)
      /\ At(u4, 1, q2)
      /\ At(u4, 6, q3)
      /\ At(u4, 9, q4)
  <2>1. /\ IsSeq(u4) /\ Len(u4) = Len(u3) + Len(q4)
        /\ At(u4, Len(u3), q4) /\ At(u4, 0, u3)
    BY <1>1, <1>5, Appended
  <2>2. 0 \in Nat /\ 1 \in Nat /\ 6 \in Nat OBVIOUS
  <2>3. At(u4, 0, q1) /\ At(u4, 1, q2) /\ At(u4, 6, q3)
    BY <1>1, <1>5, <2>2, AtStill
  <2> QED BY <1>1, <1>5, <2>1, <2>3
<1> HIDE DEF u4
<1>7. /\ IsSeq(u5) /\ Len(u5) = 16
      /\ At(u5, 0, q1)
      /\ At(u5, 1, q2)
      /\ At(u5, 6, q3)
      /\ At(u5, 9, q4)
      /\ At(u5, 12, q5)
  <2>1. /\ IsSeq(u5) /\ Len(u5) = Len(u4) + Len(q5)
        /\ At(u5, Len(u4), q5) /\ At(u5, 0, u4)
    BY <1>1, <1>6, Appended
  <2>2. 0 \in Nat /\ 1 \in Nat /\ 6 \in Nat /\ 9 \in Nat OBVIOUS
  <2>3. At(u5, 0, q1) /\ At(u5, 1, q2) /\ At(u5, 6, q3) /\ At(u5, 9, q4)
    BY <1>1, <1>6, <2>2, AtStill
  <2> QED BY <1>1, <1>6, <2>1, <2>3
<1> HIDE DEF u5
<1>8. u5[0 + 1] = To("Applying")
  <2>1. 0 \in Nat OBVIOUS
  <2>2. At(u5, 0, <<To("Applying")>>) BY <1>e1, <1>7
  <2> QED BY <2>1, <2>2, InPlace
<1>9. u5[1 + 1] = Intend(Op("create", "swapfile")) /\ u5[1 + 2] = Do(Op("create", "swapfile"), "fail") /\ u5[1 + 3] = SwapUuid /\ u5[1 + 4] = Check("identity", "undo_swapfile") /\ u5[1 + 5] = Done
  <2>1. 1 \in Nat OBVIOUS
  <2>2. At(u5, 1, <<Intend(Op("create", "swapfile")), Do(Op("create", "swapfile"), "fail"), SwapUuid, Check("identity", "undo_swapfile"), Done>>) BY <1>e2, <1>7
  <2> QED BY <2>1, <2>2, InPlace
<1>10. u5[6 + 1] = Intend(Op("create", "entry")) /\ u5[6 + 2] = Do(Op("create", "entry"), "undo_entry") /\ u5[6 + 3] = Done
  <2>1. 6 \in Nat OBVIOUS
  <2>2. At(u5, 6, <<Intend(Op("create", "entry")), Do(Op("create", "entry"), "undo_entry"), Done>>) BY <1>e3, <1>7
  <2> QED BY <2>1, <2>2, InPlace
<1>11. u5[9 + 1] = Intend(Op("create", "unit")) /\ u5[9 + 2] = Do(Op("create", "unit"), "undo_unit") /\ u5[9 + 3] = Done
  <2>1. 9 \in Nat OBVIOUS
  <2>2. At(u5, 9, <<Intend(Op("create", "unit")), Do(Op("create", "unit"), "undo_unit"), Done>>) BY <1>e4, <1>7
  <2> QED BY <2>1, <2>2, InPlace
<1>12. u5[12 + 1] = Check("helper", "fail") /\ u5[12 + 2] = Check("settings", "undo_all") /\ u5[12 + 3] = Put("apply") /\ u5[12 + 4] = NoteTo("apply", "Applied")
  <2>1. 12 \in Nat OBVIOUS
  <2>2. At(u5, 12, <<Check("helper", "fail"), Check("settings", "undo_all"), Put("apply"), NoteTo("apply", "Applied")>>) BY <1>e5, <1>7
  <2> QED BY <2>1, <2>2, InPlace
<1>13. /\ 0 + 1 = 1
      /\ 1 + 1 = 2
      /\ 1 + 2 = 3
      /\ 1 + 3 = 4
      /\ 1 + 4 = 5
      /\ 1 + 5 = 6
      /\ 6 + 1 = 7
      /\ 6 + 2 = 8
      /\ 6 + 3 = 9
      /\ 9 + 1 = 10
      /\ 9 + 2 = 11
      /\ 9 + 3 = 12
      /\ 12 + 1 = 13
      /\ 12 + 2 = 14
      /\ 12 + 3 = 15
      /\ 12 + 4 = 16
  OBVIOUS
<1> QED BY <1>3, <1>7, <1>8, <1>9, <1>10, <1>11, <1>12, <1>13, Zenon

\* verify_then_cleanup of v2.
LEMMA CleanupPlacesV2 ==
    /\ IsSeq(CleanupStepsV2) /\ Len(CleanupStepsV2) = 18
    /\ CleanupStepsV2[1] = Unless("selected", 1)
    /\ CleanupStepsV2[2] = To("BaselineBoot")
    /\ CleanupStepsV2[3] = Check("baseline", "abort")
    /\ CleanupStepsV2[4] = Put("restore")
    /\ CleanupStepsV2[5] = NoteTo("restore", "BaselineVerified")
    /\ CleanupStepsV2[6] = To("Cleaning")
    /\ CleanupStepsV2[7] = Intend(Op("remove", "unit"))
    /\ CleanupStepsV2[8] = Do(Op("remove", "unit"), "fail")
    /\ CleanupStepsV2[9] = Done
    /\ CleanupStepsV2[10] = Intend(Op("remove", "entry"))
    /\ CleanupStepsV2[11] = Do(Op("remove", "entry"), "fail")
    /\ CleanupStepsV2[12] = Done
    /\ CleanupStepsV2[13] = Intend(Op("remove", "swapfile"))
    /\ CleanupStepsV2[14] = Do(Op("remove", "swapfile"), "fail")
    /\ CleanupStepsV2[15] = Check("cleaned", "fail")
    /\ CleanupStepsV2[16] = Check("finalize", "fail")
    /\ CleanupStepsV2[17] = DoneTo("Restored")
    /\ CleanupStepsV2[18] = Seal
<1> DEFINE q1 == ProveBaseline
           q2 == Removing("unit")
           q3 == Removing("entry")
           q4 == RemoveSwapfile
           q5 == <<DoneTo("Restored"), Seal>>
           u2 == q1 \o q2
           u3 == u2 \o q3
           u4 == u3 \o q4
           u5 == u4 \o q5
<1>1. IsSeq(q1) /\ Len(q1) = 6 /\ IsSeq(q2) /\ Len(q2) = 3 /\ IsSeq(q3) /\ Len(q3) = 3 /\ IsSeq(q4) /\ Len(q4) = 4 /\ IsSeq(q5) /\ Len(q5) = 2
  BY Tuples, ProvePlaces, Tuples DEF Removing, RemoveSwapfile
<1>e1. q1[1] = Unless("selected", 1) /\ q1[2] = To("BaselineBoot") /\ q1[3] = Check("baseline", "abort") /\ q1[4] = Put("restore") /\ q1[5] = NoteTo("restore", "BaselineVerified") /\ q1[6] = To("Cleaning")
  BY ProvePlaces, Zenon
<1>e2. q2 = <<Intend(Op("remove", "unit")), Do(Op("remove", "unit"), "fail"), Done>>
  BY ProvePlaces, Tuples DEF Removing, RemoveSwapfile
<1>e3. q3 = <<Intend(Op("remove", "entry")), Do(Op("remove", "entry"), "fail"), Done>>
  BY ProvePlaces, Tuples DEF Removing, RemoveSwapfile
<1>e4. q4 = <<Intend(Op("remove", "swapfile")), Do(Op("remove", "swapfile"), "fail"), Check("cleaned", "fail"), Check("finalize", "fail")>>
  BY ProvePlaces, Tuples DEF Removing, RemoveSwapfile
<1>e5. q5 = <<DoneTo("Restored"), Seal>>
  BY ProvePlaces, Tuples DEF Removing, RemoveSwapfile
<1>3. CleanupStepsV2 = u5 BY DEF CleanupStepsV2
<1> HIDE DEF q1, q2, q3, q4, q5
<1>4. /\ IsSeq(u2) /\ Len(u2) = 9
      /\ At(u2, 0, q1)
      /\ At(u2, 6, q2)
  <2>1. /\ IsSeq(u2) /\ Len(u2) = Len(q1) + Len(q2)
        /\ At(u2, Len(q1), q2) /\ At(u2, 0, q1)
    BY <1>1, <1>1, Appended
  <2> QED BY <1>1, <2>1
<1> HIDE DEF u2
<1>5. /\ IsSeq(u3) /\ Len(u3) = 12
      /\ At(u3, 0, q1)
      /\ At(u3, 6, q2)
      /\ At(u3, 9, q3)
  <2>1. /\ IsSeq(u3) /\ Len(u3) = Len(u2) + Len(q3)
        /\ At(u3, Len(u2), q3) /\ At(u3, 0, u2)
    BY <1>1, <1>4, Appended
  <2>2. 0 \in Nat /\ 6 \in Nat OBVIOUS
  <2>3. At(u3, 0, q1) /\ At(u3, 6, q2)
    BY <1>1, <1>4, <2>2, AtStill
  <2> QED BY <1>1, <1>4, <2>1, <2>3
<1> HIDE DEF u3
<1>6. /\ IsSeq(u4) /\ Len(u4) = 16
      /\ At(u4, 0, q1)
      /\ At(u4, 6, q2)
      /\ At(u4, 9, q3)
      /\ At(u4, 12, q4)
  <2>1. /\ IsSeq(u4) /\ Len(u4) = Len(u3) + Len(q4)
        /\ At(u4, Len(u3), q4) /\ At(u4, 0, u3)
    BY <1>1, <1>5, Appended
  <2>2. 0 \in Nat /\ 6 \in Nat /\ 9 \in Nat OBVIOUS
  <2>3. At(u4, 0, q1) /\ At(u4, 6, q2) /\ At(u4, 9, q3)
    BY <1>1, <1>5, <2>2, AtStill
  <2> QED BY <1>1, <1>5, <2>1, <2>3
<1> HIDE DEF u4
<1>7. /\ IsSeq(u5) /\ Len(u5) = 18
      /\ At(u5, 0, q1)
      /\ At(u5, 6, q2)
      /\ At(u5, 9, q3)
      /\ At(u5, 12, q4)
      /\ At(u5, 16, q5)
  <2>1. /\ IsSeq(u5) /\ Len(u5) = Len(u4) + Len(q5)
        /\ At(u5, Len(u4), q5) /\ At(u5, 0, u4)
    BY <1>1, <1>6, Appended
  <2>2. 0 \in Nat /\ 6 \in Nat /\ 9 \in Nat /\ 12 \in Nat OBVIOUS
  <2>3. At(u5, 0, q1) /\ At(u5, 6, q2) /\ At(u5, 9, q3) /\ At(u5, 12, q4)
    BY <1>1, <1>6, <2>2, AtStill
  <2> QED BY <1>1, <1>6, <2>1, <2>3
<1> HIDE DEF u5
<1>8. u5[0 + 1] = Unless("selected", 1) /\ u5[0 + 2] = To("BaselineBoot") /\ u5[0 + 3] = Check("baseline", "abort") /\ u5[0 + 4] = Put("restore") /\ u5[0 + 5] = NoteTo("restore", "BaselineVerified") /\ u5[0 + 6] = To("Cleaning")
  <2>1. 0 \in Nat OBVIOUS
  <2>2. At(u5, 0, q1) /\ Len(q1) = 6 BY <1>1, <1>7
  <2>3. u5[0 + 1] = q1[1] /\ u5[0 + 2] = q1[2] /\ u5[0 + 3] = q1[3] /\ u5[0 + 4] = q1[4] /\ u5[0 + 5] = q1[5] /\ u5[0 + 6] = q1[6]
    BY <2>1, <2>2 DEF At
  <2> QED BY <1>e1, <2>3, Zenon
<1>9. u5[6 + 1] = Intend(Op("remove", "unit")) /\ u5[6 + 2] = Do(Op("remove", "unit"), "fail") /\ u5[6 + 3] = Done
  <2>1. 6 \in Nat OBVIOUS
  <2>2. At(u5, 6, <<Intend(Op("remove", "unit")), Do(Op("remove", "unit"), "fail"), Done>>) BY <1>e2, <1>7
  <2> QED BY <2>1, <2>2, InPlace
<1>10. u5[9 + 1] = Intend(Op("remove", "entry")) /\ u5[9 + 2] = Do(Op("remove", "entry"), "fail") /\ u5[9 + 3] = Done
  <2>1. 9 \in Nat OBVIOUS
  <2>2. At(u5, 9, <<Intend(Op("remove", "entry")), Do(Op("remove", "entry"), "fail"), Done>>) BY <1>e3, <1>7
  <2> QED BY <2>1, <2>2, InPlace
<1>11. u5[12 + 1] = Intend(Op("remove", "swapfile")) /\ u5[12 + 2] = Do(Op("remove", "swapfile"), "fail") /\ u5[12 + 3] = Check("cleaned", "fail") /\ u5[12 + 4] = Check("finalize", "fail")
  <2>1. 12 \in Nat OBVIOUS
  <2>2. At(u5, 12, <<Intend(Op("remove", "swapfile")), Do(Op("remove", "swapfile"), "fail"), Check("cleaned", "fail"), Check("finalize", "fail")>>) BY <1>e4, <1>7
  <2> QED BY <2>1, <2>2, InPlace
<1>12. u5[16 + 1] = DoneTo("Restored") /\ u5[16 + 2] = Seal
  <2>1. 16 \in Nat OBVIOUS
  <2>2. At(u5, 16, <<DoneTo("Restored"), Seal>>) BY <1>e5, <1>7
  <2> QED BY <2>1, <2>2, InPlace
<1>13. /\ 0 + 1 = 1
      /\ 0 + 2 = 2
      /\ 0 + 3 = 3
      /\ 0 + 4 = 4
      /\ 0 + 5 = 5
      /\ 0 + 6 = 6
      /\ 6 + 1 = 7
      /\ 6 + 2 = 8
      /\ 6 + 3 = 9
      /\ 9 + 1 = 10
      /\ 9 + 2 = 11
      /\ 9 + 3 = 12
      /\ 12 + 1 = 13
      /\ 12 + 2 = 14
      /\ 12 + 3 = 15
      /\ 12 + 4 = 16
      /\ 16 + 1 = 17
      /\ 16 + 2 = 18
  OBVIOUS
<1> QED BY <1>3, <1>7, <1>8, <1>9, <1>10, <1>11, <1>12, <1>13, Zenon

\* verify_then_cleanup of v3 and later.
LEMMA CleanupPlacesV3 ==
    /\ IsSeq(CleanupStepsV3) /\ Len(CleanupStepsV3) = 23
    /\ CleanupStepsV3[1] = Unless("selected", 1)
    /\ CleanupStepsV3[2] = To("BaselineBoot")
    /\ CleanupStepsV3[3] = Check("baseline", "abort")
    /\ CleanupStepsV3[4] = Put("restore")
    /\ CleanupStepsV3[5] = NoteTo("restore", "BaselineVerified")
    /\ CleanupStepsV3[6] = To("Cleaning")
    /\ CleanupStepsV3[7] = Intend(Op("remove", "helper"))
    /\ CleanupStepsV3[8] = Do(Op("remove", "helper"), "fail")
    /\ CleanupStepsV3[9] = Done
    /\ CleanupStepsV3[10] = Intend(Op("remove", "unit"))
    /\ CleanupStepsV3[11] = Do(Op("remove", "unit"), "fail")
    /\ CleanupStepsV3[12] = Done
    /\ CleanupStepsV3[13] = Intend(Op("remove", "entry"))
    /\ CleanupStepsV3[14] = Do(Op("remove", "entry"), "fail")
    /\ CleanupStepsV3[15] = Done
    /\ CleanupStepsV3[16] = Intend(Op("remove", "swapfile"))
    /\ CleanupStepsV3[17] = Do(Op("remove", "swapfile"), "fail")
    /\ CleanupStepsV3[18] = Check("cleaned", "fail")
    /\ CleanupStepsV3[19] = Check("finalize", "fail")
    /\ CleanupStepsV3[20] = Check("authority", "abort")
    /\ CleanupStepsV3[21] = Put("authority")
    /\ CleanupStepsV3[22] = DoneNoteTo("authority", "Restored")
    /\ CleanupStepsV3[23] = Seal
<1> DEFINE q1 == ProveBaseline
           q2 == Removing("helper")
           q3 == Removing("unit")
           q4 == Removing("entry")
           q5 == RemoveSwapfile
           q6 == <<Check("authority", "abort"), Put("authority"), DoneNoteTo("authority", "Restored"), Seal>>
           u2 == q1 \o q2
           u3 == u2 \o q3
           u4 == u3 \o q4
           u5 == u4 \o q5
           u6 == u5 \o q6
<1>1. IsSeq(q1) /\ Len(q1) = 6 /\ IsSeq(q2) /\ Len(q2) = 3 /\ IsSeq(q3) /\ Len(q3) = 3 /\ IsSeq(q4) /\ Len(q4) = 3 /\ IsSeq(q5) /\ Len(q5) = 4 /\ IsSeq(q6) /\ Len(q6) = 4
  BY Tuples, ProvePlaces, Tuples DEF Removing, RemoveSwapfile
<1>e1. q1[1] = Unless("selected", 1) /\ q1[2] = To("BaselineBoot") /\ q1[3] = Check("baseline", "abort") /\ q1[4] = Put("restore") /\ q1[5] = NoteTo("restore", "BaselineVerified") /\ q1[6] = To("Cleaning")
  BY ProvePlaces, Zenon
<1>e2. q2 = <<Intend(Op("remove", "helper")), Do(Op("remove", "helper"), "fail"), Done>>
  BY ProvePlaces, Tuples DEF Removing, RemoveSwapfile
<1>e3. q3 = <<Intend(Op("remove", "unit")), Do(Op("remove", "unit"), "fail"), Done>>
  BY ProvePlaces, Tuples DEF Removing, RemoveSwapfile
<1>e4. q4 = <<Intend(Op("remove", "entry")), Do(Op("remove", "entry"), "fail"), Done>>
  BY ProvePlaces, Tuples DEF Removing, RemoveSwapfile
<1>e5. q5 = <<Intend(Op("remove", "swapfile")), Do(Op("remove", "swapfile"), "fail"), Check("cleaned", "fail"), Check("finalize", "fail")>>
  BY ProvePlaces, Tuples DEF Removing, RemoveSwapfile
<1>e6. q6 = <<Check("authority", "abort"), Put("authority"), DoneNoteTo("authority", "Restored"), Seal>>
  BY ProvePlaces, Tuples DEF Removing, RemoveSwapfile
<1>3. CleanupStepsV3 = u6 BY DEF CleanupStepsV3
<1> HIDE DEF q1, q2, q3, q4, q5, q6
<1>4. /\ IsSeq(u2) /\ Len(u2) = 9
      /\ At(u2, 0, q1)
      /\ At(u2, 6, q2)
  <2>1. /\ IsSeq(u2) /\ Len(u2) = Len(q1) + Len(q2)
        /\ At(u2, Len(q1), q2) /\ At(u2, 0, q1)
    BY <1>1, <1>1, Appended
  <2> QED BY <1>1, <2>1
<1> HIDE DEF u2
<1>5. /\ IsSeq(u3) /\ Len(u3) = 12
      /\ At(u3, 0, q1)
      /\ At(u3, 6, q2)
      /\ At(u3, 9, q3)
  <2>1. /\ IsSeq(u3) /\ Len(u3) = Len(u2) + Len(q3)
        /\ At(u3, Len(u2), q3) /\ At(u3, 0, u2)
    BY <1>1, <1>4, Appended
  <2>2. 0 \in Nat /\ 6 \in Nat OBVIOUS
  <2>3. At(u3, 0, q1) /\ At(u3, 6, q2)
    BY <1>1, <1>4, <2>2, AtStill
  <2> QED BY <1>1, <1>4, <2>1, <2>3
<1> HIDE DEF u3
<1>6. /\ IsSeq(u4) /\ Len(u4) = 15
      /\ At(u4, 0, q1)
      /\ At(u4, 6, q2)
      /\ At(u4, 9, q3)
      /\ At(u4, 12, q4)
  <2>1. /\ IsSeq(u4) /\ Len(u4) = Len(u3) + Len(q4)
        /\ At(u4, Len(u3), q4) /\ At(u4, 0, u3)
    BY <1>1, <1>5, Appended
  <2>2. 0 \in Nat /\ 6 \in Nat /\ 9 \in Nat OBVIOUS
  <2>3. At(u4, 0, q1) /\ At(u4, 6, q2) /\ At(u4, 9, q3)
    BY <1>1, <1>5, <2>2, AtStill
  <2> QED BY <1>1, <1>5, <2>1, <2>3
<1> HIDE DEF u4
<1>7. /\ IsSeq(u5) /\ Len(u5) = 19
      /\ At(u5, 0, q1)
      /\ At(u5, 6, q2)
      /\ At(u5, 9, q3)
      /\ At(u5, 12, q4)
      /\ At(u5, 15, q5)
  <2>1. /\ IsSeq(u5) /\ Len(u5) = Len(u4) + Len(q5)
        /\ At(u5, Len(u4), q5) /\ At(u5, 0, u4)
    BY <1>1, <1>6, Appended
  <2>2. 0 \in Nat /\ 6 \in Nat /\ 9 \in Nat /\ 12 \in Nat OBVIOUS
  <2>3. At(u5, 0, q1) /\ At(u5, 6, q2) /\ At(u5, 9, q3) /\ At(u5, 12, q4)
    BY <1>1, <1>6, <2>2, AtStill
  <2> QED BY <1>1, <1>6, <2>1, <2>3
<1> HIDE DEF u5
<1>8. /\ IsSeq(u6) /\ Len(u6) = 23
      /\ At(u6, 0, q1)
      /\ At(u6, 6, q2)
      /\ At(u6, 9, q3)
      /\ At(u6, 12, q4)
      /\ At(u6, 15, q5)
      /\ At(u6, 19, q6)
  <2>1. /\ IsSeq(u6) /\ Len(u6) = Len(u5) + Len(q6)
        /\ At(u6, Len(u5), q6) /\ At(u6, 0, u5)
    BY <1>1, <1>7, Appended
  <2>2. 0 \in Nat /\ 6 \in Nat /\ 9 \in Nat /\ 12 \in Nat /\ 15 \in Nat OBVIOUS
  <2>3. At(u6, 0, q1) /\ At(u6, 6, q2) /\ At(u6, 9, q3) /\ At(u6, 12, q4) /\ At(u6, 15, q5)
    BY <1>1, <1>7, <2>2, AtStill
  <2> QED BY <1>1, <1>7, <2>1, <2>3
<1> HIDE DEF u6
<1>9. u6[0 + 1] = Unless("selected", 1) /\ u6[0 + 2] = To("BaselineBoot") /\ u6[0 + 3] = Check("baseline", "abort") /\ u6[0 + 4] = Put("restore") /\ u6[0 + 5] = NoteTo("restore", "BaselineVerified") /\ u6[0 + 6] = To("Cleaning")
  <2>1. 0 \in Nat OBVIOUS
  <2>2. At(u6, 0, q1) /\ Len(q1) = 6 BY <1>1, <1>8
  <2>3. u6[0 + 1] = q1[1] /\ u6[0 + 2] = q1[2] /\ u6[0 + 3] = q1[3] /\ u6[0 + 4] = q1[4] /\ u6[0 + 5] = q1[5] /\ u6[0 + 6] = q1[6]
    BY <2>1, <2>2 DEF At
  <2> QED BY <1>e1, <2>3, Zenon
<1>10. u6[6 + 1] = Intend(Op("remove", "helper")) /\ u6[6 + 2] = Do(Op("remove", "helper"), "fail") /\ u6[6 + 3] = Done
  <2>1. 6 \in Nat OBVIOUS
  <2>2. At(u6, 6, <<Intend(Op("remove", "helper")), Do(Op("remove", "helper"), "fail"), Done>>) BY <1>e2, <1>8
  <2> QED BY <2>1, <2>2, InPlace
<1>11. u6[9 + 1] = Intend(Op("remove", "unit")) /\ u6[9 + 2] = Do(Op("remove", "unit"), "fail") /\ u6[9 + 3] = Done
  <2>1. 9 \in Nat OBVIOUS
  <2>2. At(u6, 9, <<Intend(Op("remove", "unit")), Do(Op("remove", "unit"), "fail"), Done>>) BY <1>e3, <1>8
  <2> QED BY <2>1, <2>2, InPlace
<1>12. u6[12 + 1] = Intend(Op("remove", "entry")) /\ u6[12 + 2] = Do(Op("remove", "entry"), "fail") /\ u6[12 + 3] = Done
  <2>1. 12 \in Nat OBVIOUS
  <2>2. At(u6, 12, <<Intend(Op("remove", "entry")), Do(Op("remove", "entry"), "fail"), Done>>) BY <1>e4, <1>8
  <2> QED BY <2>1, <2>2, InPlace
<1>13. u6[15 + 1] = Intend(Op("remove", "swapfile")) /\ u6[15 + 2] = Do(Op("remove", "swapfile"), "fail") /\ u6[15 + 3] = Check("cleaned", "fail") /\ u6[15 + 4] = Check("finalize", "fail")
  <2>1. 15 \in Nat OBVIOUS
  <2>2. At(u6, 15, <<Intend(Op("remove", "swapfile")), Do(Op("remove", "swapfile"), "fail"), Check("cleaned", "fail"), Check("finalize", "fail")>>) BY <1>e5, <1>8
  <2> QED BY <2>1, <2>2, InPlace
<1>14. u6[19 + 1] = Check("authority", "abort") /\ u6[19 + 2] = Put("authority") /\ u6[19 + 3] = DoneNoteTo("authority", "Restored") /\ u6[19 + 4] = Seal
  <2>1. 19 \in Nat OBVIOUS
  <2>2. At(u6, 19, <<Check("authority", "abort"), Put("authority"), DoneNoteTo("authority", "Restored"), Seal>>) BY <1>e6, <1>8
  <2> QED BY <2>1, <2>2, InPlace
<1>15. /\ 0 + 1 = 1
      /\ 0 + 2 = 2
      /\ 0 + 3 = 3
      /\ 0 + 4 = 4
      /\ 0 + 5 = 5
      /\ 0 + 6 = 6
      /\ 6 + 1 = 7
      /\ 6 + 2 = 8
      /\ 6 + 3 = 9
      /\ 9 + 1 = 10
      /\ 9 + 2 = 11
      /\ 9 + 3 = 12
      /\ 12 + 1 = 13
      /\ 12 + 2 = 14
      /\ 12 + 3 = 15
      /\ 15 + 1 = 16
      /\ 15 + 2 = 17
      /\ 15 + 3 = 18
      /\ 15 + 4 = 19
      /\ 19 + 1 = 20
      /\ 19 + 2 = 21
      /\ 19 + 3 = 22
      /\ 19 + 4 = 23
  OBVIOUS
<1> QED BY <1>3, <1>8, <1>9, <1>10, <1>11, <1>12, <1>13, <1>14, <1>15, Zenon

\* apply_exact_transaction of v2.
LEMMA ApplyPlacesV2 ==
    /\ IsSeq(ApplyStepsV2) /\ Len(ApplyStepsV2) = 19
    /\ ApplyStepsV2[1] = Put("root")
    /\ ApplyStepsV2[2] = Plain
    /\ ApplyStepsV2[3] = Put("manifest")
    /\ ApplyStepsV2[4] = Put("preflight")
    /\ ApplyStepsV2[5] = NoteTo("preflight", "RootPreflighted")
    /\ ApplyStepsV2[6] = To("Applying")
    /\ ApplyStepsV2[7] = Intend(Op("create", "swapfile"))
    /\ ApplyStepsV2[8] = Do(Op("create", "swapfile"), "fail")
    /\ ApplyStepsV2[9] = SwapUuid
    /\ ApplyStepsV2[10] = Check("identity", "undo_swapfile")
    /\ ApplyStepsV2[11] = Done
    /\ ApplyStepsV2[12] = Intend(Op("create", "entry"))
    /\ ApplyStepsV2[13] = Do(Op("create", "entry"), "undo_entry")
    /\ ApplyStepsV2[14] = Done
    /\ ApplyStepsV2[15] = Intend(Op("create", "unit"))
    /\ ApplyStepsV2[16] = Do(Op("create", "unit"), "undo_unit")
    /\ ApplyStepsV2[17] = Done
    /\ ApplyStepsV2[18] = Check("settings", "undo_all")
    /\ ApplyStepsV2[19] = To("Applied")
<1> DEFINE q1 == TransactionFirst
           q2 == Preflighted
           q3 == <<To("Applying")>>
           q4 == CreatingSwapfile
           q5 == Creating("entry", "undo_entry")
           q6 == Creating("unit", "undo_unit")
           q7 == <<Check("settings", "undo_all"), To("Applied")>>
           u2 == q1 \o q2
           u3 == u2 \o q3
           u4 == u3 \o q4
           u5 == u4 \o q5
           u6 == u5 \o q6
           u7 == u6 \o q7
<1>1. IsSeq(q1) /\ Len(q1) = 3 /\ IsSeq(q2) /\ Len(q2) = 2 /\ IsSeq(q3) /\ Len(q3) = 1 /\ IsSeq(q4) /\ Len(q4) = 5 /\ IsSeq(q5) /\ Len(q5) = 3 /\ IsSeq(q6) /\ Len(q6) = 3 /\ IsSeq(q7) /\ Len(q7) = 2
  BY Tuples DEF CreatingSwapfile, Creating, TransactionFirst, Preflighted
<1>e1. q1 = <<Put("root"), Plain, Put("manifest")>>
  BY Tuples DEF CreatingSwapfile, Creating, TransactionFirst, Preflighted
<1>e2. q2 = <<Put("preflight"), NoteTo("preflight", "RootPreflighted")>>
  BY Tuples DEF CreatingSwapfile, Creating, TransactionFirst, Preflighted
<1>e3. q3 = <<To("Applying")>>
  BY Tuples DEF CreatingSwapfile, Creating, TransactionFirst, Preflighted
<1>e4. q4 = <<Intend(Op("create", "swapfile")), Do(Op("create", "swapfile"), "fail"), SwapUuid, Check("identity", "undo_swapfile"), Done>>
  BY Tuples DEF CreatingSwapfile, Creating, TransactionFirst, Preflighted
<1>e5. q5 = <<Intend(Op("create", "entry")), Do(Op("create", "entry"), "undo_entry"), Done>>
  BY Tuples DEF CreatingSwapfile, Creating, TransactionFirst, Preflighted
<1>e6. q6 = <<Intend(Op("create", "unit")), Do(Op("create", "unit"), "undo_unit"), Done>>
  BY Tuples DEF CreatingSwapfile, Creating, TransactionFirst, Preflighted
<1>e7. q7 = <<Check("settings", "undo_all"), To("Applied")>>
  BY Tuples DEF CreatingSwapfile, Creating, TransactionFirst, Preflighted
<1>3. ApplyStepsV2 = u7 BY DEF ApplyStepsV2
<1> HIDE DEF q1, q2, q3, q4, q5, q6, q7
<1>4. /\ IsSeq(u2) /\ Len(u2) = 5
      /\ At(u2, 0, q1)
      /\ At(u2, 3, q2)
  <2>1. /\ IsSeq(u2) /\ Len(u2) = Len(q1) + Len(q2)
        /\ At(u2, Len(q1), q2) /\ At(u2, 0, q1)
    BY <1>1, <1>1, Appended
  <2> QED BY <1>1, <2>1
<1> HIDE DEF u2
<1>5. /\ IsSeq(u3) /\ Len(u3) = 6
      /\ At(u3, 0, q1)
      /\ At(u3, 3, q2)
      /\ At(u3, 5, q3)
  <2>1. /\ IsSeq(u3) /\ Len(u3) = Len(u2) + Len(q3)
        /\ At(u3, Len(u2), q3) /\ At(u3, 0, u2)
    BY <1>1, <1>4, Appended
  <2>2. 0 \in Nat /\ 3 \in Nat OBVIOUS
  <2>3. At(u3, 0, q1) /\ At(u3, 3, q2)
    BY <1>1, <1>4, <2>2, AtStill
  <2> QED BY <1>1, <1>4, <2>1, <2>3
<1> HIDE DEF u3
<1>6. /\ IsSeq(u4) /\ Len(u4) = 11
      /\ At(u4, 0, q1)
      /\ At(u4, 3, q2)
      /\ At(u4, 5, q3)
      /\ At(u4, 6, q4)
  <2>1. /\ IsSeq(u4) /\ Len(u4) = Len(u3) + Len(q4)
        /\ At(u4, Len(u3), q4) /\ At(u4, 0, u3)
    BY <1>1, <1>5, Appended
  <2>2. 0 \in Nat /\ 3 \in Nat /\ 5 \in Nat OBVIOUS
  <2>3. At(u4, 0, q1) /\ At(u4, 3, q2) /\ At(u4, 5, q3)
    BY <1>1, <1>5, <2>2, AtStill
  <2> QED BY <1>1, <1>5, <2>1, <2>3
<1> HIDE DEF u4
<1>7. /\ IsSeq(u5) /\ Len(u5) = 14
      /\ At(u5, 0, q1)
      /\ At(u5, 3, q2)
      /\ At(u5, 5, q3)
      /\ At(u5, 6, q4)
      /\ At(u5, 11, q5)
  <2>1. /\ IsSeq(u5) /\ Len(u5) = Len(u4) + Len(q5)
        /\ At(u5, Len(u4), q5) /\ At(u5, 0, u4)
    BY <1>1, <1>6, Appended
  <2>2. 0 \in Nat /\ 3 \in Nat /\ 5 \in Nat /\ 6 \in Nat OBVIOUS
  <2>3. At(u5, 0, q1) /\ At(u5, 3, q2) /\ At(u5, 5, q3) /\ At(u5, 6, q4)
    BY <1>1, <1>6, <2>2, AtStill
  <2> QED BY <1>1, <1>6, <2>1, <2>3
<1> HIDE DEF u5
<1>8. /\ IsSeq(u6) /\ Len(u6) = 17
      /\ At(u6, 0, q1)
      /\ At(u6, 3, q2)
      /\ At(u6, 5, q3)
      /\ At(u6, 6, q4)
      /\ At(u6, 11, q5)
      /\ At(u6, 14, q6)
  <2>1. /\ IsSeq(u6) /\ Len(u6) = Len(u5) + Len(q6)
        /\ At(u6, Len(u5), q6) /\ At(u6, 0, u5)
    BY <1>1, <1>7, Appended
  <2>2. 0 \in Nat /\ 3 \in Nat /\ 5 \in Nat /\ 6 \in Nat /\ 11 \in Nat OBVIOUS
  <2>3. At(u6, 0, q1) /\ At(u6, 3, q2) /\ At(u6, 5, q3) /\ At(u6, 6, q4) /\ At(u6, 11, q5)
    BY <1>1, <1>7, <2>2, AtStill
  <2> QED BY <1>1, <1>7, <2>1, <2>3
<1> HIDE DEF u6
<1>9. /\ IsSeq(u7) /\ Len(u7) = 19
      /\ At(u7, 0, q1)
      /\ At(u7, 3, q2)
      /\ At(u7, 5, q3)
      /\ At(u7, 6, q4)
      /\ At(u7, 11, q5)
      /\ At(u7, 14, q6)
      /\ At(u7, 17, q7)
  <2>1. /\ IsSeq(u7) /\ Len(u7) = Len(u6) + Len(q7)
        /\ At(u7, Len(u6), q7) /\ At(u7, 0, u6)
    BY <1>1, <1>8, Appended
  <2>2. 0 \in Nat /\ 3 \in Nat /\ 5 \in Nat /\ 6 \in Nat /\ 11 \in Nat /\ 14 \in Nat OBVIOUS
  <2>3. At(u7, 0, q1) /\ At(u7, 3, q2) /\ At(u7, 5, q3) /\ At(u7, 6, q4) /\ At(u7, 11, q5) /\ At(u7, 14, q6)
    BY <1>1, <1>8, <2>2, AtStill
  <2> QED BY <1>1, <1>8, <2>1, <2>3
<1> HIDE DEF u7
<1>10. u7[0 + 1] = Put("root") /\ u7[0 + 2] = Plain /\ u7[0 + 3] = Put("manifest")
  <2>1. 0 \in Nat OBVIOUS
  <2>2. At(u7, 0, <<Put("root"), Plain, Put("manifest")>>) BY <1>e1, <1>9
  <2> QED BY <2>1, <2>2, InPlace
<1>11. u7[3 + 1] = Put("preflight") /\ u7[3 + 2] = NoteTo("preflight", "RootPreflighted")
  <2>1. 3 \in Nat OBVIOUS
  <2>2. At(u7, 3, <<Put("preflight"), NoteTo("preflight", "RootPreflighted")>>) BY <1>e2, <1>9
  <2> QED BY <2>1, <2>2, InPlace
<1>12. u7[5 + 1] = To("Applying")
  <2>1. 5 \in Nat OBVIOUS
  <2>2. At(u7, 5, <<To("Applying")>>) BY <1>e3, <1>9
  <2> QED BY <2>1, <2>2, InPlace
<1>13. u7[6 + 1] = Intend(Op("create", "swapfile")) /\ u7[6 + 2] = Do(Op("create", "swapfile"), "fail") /\ u7[6 + 3] = SwapUuid /\ u7[6 + 4] = Check("identity", "undo_swapfile") /\ u7[6 + 5] = Done
  <2>1. 6 \in Nat OBVIOUS
  <2>2. At(u7, 6, <<Intend(Op("create", "swapfile")), Do(Op("create", "swapfile"), "fail"), SwapUuid, Check("identity", "undo_swapfile"), Done>>) BY <1>e4, <1>9
  <2> QED BY <2>1, <2>2, InPlace
<1>14. u7[11 + 1] = Intend(Op("create", "entry")) /\ u7[11 + 2] = Do(Op("create", "entry"), "undo_entry") /\ u7[11 + 3] = Done
  <2>1. 11 \in Nat OBVIOUS
  <2>2. At(u7, 11, <<Intend(Op("create", "entry")), Do(Op("create", "entry"), "undo_entry"), Done>>) BY <1>e5, <1>9
  <2> QED BY <2>1, <2>2, InPlace
<1>15. u7[14 + 1] = Intend(Op("create", "unit")) /\ u7[14 + 2] = Do(Op("create", "unit"), "undo_unit") /\ u7[14 + 3] = Done
  <2>1. 14 \in Nat OBVIOUS
  <2>2. At(u7, 14, <<Intend(Op("create", "unit")), Do(Op("create", "unit"), "undo_unit"), Done>>) BY <1>e6, <1>9
  <2> QED BY <2>1, <2>2, InPlace
<1>16. u7[17 + 1] = Check("settings", "undo_all") /\ u7[17 + 2] = To("Applied")
  <2>1. 17 \in Nat OBVIOUS
  <2>2. At(u7, 17, <<Check("settings", "undo_all"), To("Applied")>>) BY <1>e7, <1>9
  <2> QED BY <2>1, <2>2, InPlace
<1>17. /\ 0 + 1 = 1
      /\ 0 + 2 = 2
      /\ 0 + 3 = 3
      /\ 3 + 1 = 4
      /\ 3 + 2 = 5
      /\ 5 + 1 = 6
      /\ 6 + 1 = 7
      /\ 6 + 2 = 8
      /\ 6 + 3 = 9
      /\ 6 + 4 = 10
      /\ 6 + 5 = 11
      /\ 11 + 1 = 12
      /\ 11 + 2 = 13
      /\ 11 + 3 = 14
      /\ 14 + 1 = 15
      /\ 14 + 2 = 16
      /\ 14 + 3 = 17
      /\ 17 + 1 = 18
      /\ 17 + 2 = 19
  OBVIOUS
<1> QED BY <1>3, <1>9, <1>10, <1>11, <1>12, <1>13, <1>14, <1>15, <1>16, <1>17, Zenon

\* The branch of recover that clears the one-shot first.
LEMMA ClearPlaces ==
    /\ IsSeq(ClearThenRemoveSteps) /\ Len(ClearThenRemoveSteps) = 23
    /\ ClearThenRemoveSteps[1] = Check("oneshot", "abort")
    /\ ClearThenRemoveSteps[2] = Intend(Op("oneshot", "none"))
    /\ ClearThenRemoveSteps[3] = Do(Op("oneshot", "none"), "abort")
    /\ ClearThenRemoveSteps[4] = Done
    /\ ClearThenRemoveSteps[5] = Unless("helper", 3)
    /\ ClearThenRemoveSteps[6] = Intend(Op("remove", "helper"))
    /\ ClearThenRemoveSteps[7] = Do(Op("remove", "helper"), "abort")
    /\ ClearThenRemoveSteps[8] = Done
    /\ ClearThenRemoveSteps[9] = Unless("unit", 3)
    /\ ClearThenRemoveSteps[10] = Intend(Op("remove", "unit"))
    /\ ClearThenRemoveSteps[11] = Do(Op("remove", "unit"), "abort")
    /\ ClearThenRemoveSteps[12] = Done
    /\ ClearThenRemoveSteps[13] = Unless("entry", 3)
    /\ ClearThenRemoveSteps[14] = Intend(Op("remove", "entry"))
    /\ ClearThenRemoveSteps[15] = Do(Op("remove", "entry"), "abort")
    /\ ClearThenRemoveSteps[16] = Done
    /\ ClearThenRemoveSteps[17] = Intend(Op("remove", "swapfile"))
    /\ ClearThenRemoveSteps[18] = Do(Op("remove", "swapfile"), "abort")
    /\ ClearThenRemoveSteps[19] = Check("finalize", "abort")
    /\ ClearThenRemoveSteps[20] = DoneTo("Recovered")
    /\ ClearThenRemoveSteps[21] = Put("recovery")
    /\ ClearThenRemoveSteps[22] = RecoveryNoted
    /\ ClearThenRemoveSteps[23] = Seal
<1> DEFINE q1 == <<Check("oneshot", "abort"), Intend(Op("oneshot", "none")), Do(Op("oneshot", "none"), "abort"), Done>>
           q2 == RemoveSteps
           u2 == q1 \o q2
<1>1. IsSeq(q1) /\ Len(q1) = 4 /\ IsSeq(q2) /\ Len(q2) = 19
  BY Tuples, RemovePlaces, Tuples
<1>e1. q1 = <<Check("oneshot", "abort"), Intend(Op("oneshot", "none")), Do(Op("oneshot", "none"), "abort"), Done>>
  BY RemovePlaces, Tuples
<1>e2. q2[1] = Unless("helper", 3) /\ q2[2] = Intend(Op("remove", "helper")) /\ q2[3] = Do(Op("remove", "helper"), "abort") /\ q2[4] = Done /\ q2[5] = Unless("unit", 3) /\ q2[6] = Intend(Op("remove", "unit")) /\ q2[7] = Do(Op("remove", "unit"), "abort") /\ q2[8] = Done /\ q2[9] = Unless("entry", 3) /\ q2[10] = Intend(Op("remove", "entry")) /\ q2[11] = Do(Op("remove", "entry"), "abort") /\ q2[12] = Done /\ q2[13] = Intend(Op("remove", "swapfile")) /\ q2[14] = Do(Op("remove", "swapfile"), "abort") /\ q2[15] = Check("finalize", "abort") /\ q2[16] = DoneTo("Recovered") /\ q2[17] = Put("recovery") /\ q2[18] = RecoveryNoted /\ q2[19] = Seal
  BY RemovePlaces, Zenon
<1>3. ClearThenRemoveSteps = u2 BY DEF ClearThenRemoveSteps
<1> HIDE DEF q1, q2
<1>4. /\ IsSeq(u2) /\ Len(u2) = 23
      /\ At(u2, 0, q1)
      /\ At(u2, 4, q2)
  <2>1. /\ IsSeq(u2) /\ Len(u2) = Len(q1) + Len(q2)
        /\ At(u2, Len(q1), q2) /\ At(u2, 0, q1)
    BY <1>1, <1>1, Appended
  <2> QED BY <1>1, <2>1
<1> HIDE DEF u2
<1>5. u2[0 + 1] = Check("oneshot", "abort") /\ u2[0 + 2] = Intend(Op("oneshot", "none")) /\ u2[0 + 3] = Do(Op("oneshot", "none"), "abort") /\ u2[0 + 4] = Done
  <2>1. 0 \in Nat OBVIOUS
  <2>2. At(u2, 0, <<Check("oneshot", "abort"), Intend(Op("oneshot", "none")), Do(Op("oneshot", "none"), "abort"), Done>>) BY <1>e1, <1>4
  <2> QED BY <2>1, <2>2, InPlace
<1>6. u2[4 + 1] = Unless("helper", 3) /\ u2[4 + 2] = Intend(Op("remove", "helper")) /\ u2[4 + 3] = Do(Op("remove", "helper"), "abort") /\ u2[4 + 4] = Done /\ u2[4 + 5] = Unless("unit", 3) /\ u2[4 + 6] = Intend(Op("remove", "unit")) /\ u2[4 + 7] = Do(Op("remove", "unit"), "abort") /\ u2[4 + 8] = Done /\ u2[4 + 9] = Unless("entry", 3) /\ u2[4 + 10] = Intend(Op("remove", "entry")) /\ u2[4 + 11] = Do(Op("remove", "entry"), "abort") /\ u2[4 + 12] = Done /\ u2[4 + 13] = Intend(Op("remove", "swapfile")) /\ u2[4 + 14] = Do(Op("remove", "swapfile"), "abort") /\ u2[4 + 15] = Check("finalize", "abort") /\ u2[4 + 16] = DoneTo("Recovered") /\ u2[4 + 17] = Put("recovery") /\ u2[4 + 18] = RecoveryNoted /\ u2[4 + 19] = Seal
  <2>1. 4 \in Nat OBVIOUS
  <2>2. At(u2, 4, q2) /\ Len(q2) = 19 BY <1>1, <1>4
  <2>3. u2[4 + 1] = q2[1] /\ u2[4 + 2] = q2[2] /\ u2[4 + 3] = q2[3] /\ u2[4 + 4] = q2[4] /\ u2[4 + 5] = q2[5] /\ u2[4 + 6] = q2[6] /\ u2[4 + 7] = q2[7] /\ u2[4 + 8] = q2[8] /\ u2[4 + 9] = q2[9] /\ u2[4 + 10] = q2[10] /\ u2[4 + 11] = q2[11] /\ u2[4 + 12] = q2[12] /\ u2[4 + 13] = q2[13] /\ u2[4 + 14] = q2[14] /\ u2[4 + 15] = q2[15] /\ u2[4 + 16] = q2[16] /\ u2[4 + 17] = q2[17] /\ u2[4 + 18] = q2[18] /\ u2[4 + 19] = q2[19]
    BY <2>1, <2>2 DEF At
  <2> QED BY <1>e2, <2>3, Zenon
<1>7. /\ 0 + 1 = 1
      /\ 0 + 2 = 2
      /\ 0 + 3 = 3
      /\ 0 + 4 = 4
      /\ 4 + 1 = 5
      /\ 4 + 2 = 6
      /\ 4 + 3 = 7
      /\ 4 + 4 = 8
      /\ 4 + 5 = 9
      /\ 4 + 6 = 10
      /\ 4 + 7 = 11
      /\ 4 + 8 = 12
      /\ 4 + 9 = 13
      /\ 4 + 10 = 14
      /\ 4 + 11 = 15
      /\ 4 + 12 = 16
      /\ 4 + 13 = 17
      /\ 4 + 14 = 18
      /\ 4 + 15 = 19
      /\ 4 + 16 = 20
      /\ 4 + 17 = 21
      /\ 4 + 18 = 22
      /\ 4 + 19 = 23
  OBVIOUS
<1> QED BY <1>3, <1>4, <1>5, <1>6, <1>7, Zenon

\* select_exact_one_shot.
LEMMA OneShotPlacesV2 ==
    /\ IsSeq(SelectOneShotStepsV2) /\ Len(SelectOneShotStepsV2) = 5
    /\ SelectOneShotStepsV2[1] = To("OneShotSelecting")
    /\ SelectOneShotStepsV2[2] = Intend(Op("oneshot", "experimental"))
    /\ SelectOneShotStepsV2[3] = Do(Op("oneshot", "experimental"), "fail")
    /\ SelectOneShotStepsV2[4] = Put("oneshot")
    /\ SelectOneShotStepsV2[5] = DoneNoteTo("oneshot", "OneShotSelected")
BY Tuples DEF SelectOneShotStepsV2

\* select_exact_one_shot behind the check of the helper.
LEMMA OneShotPlacesV3 ==
    /\ IsSeq(SelectOneShotStepsV3) /\ Len(SelectOneShotStepsV3) = 6
    /\ SelectOneShotStepsV3[1] = Check("helper", "abort")
    /\ \A i \in 1..5 : SelectOneShotStepsV3[1 + i] = SelectOneShotStepsV2[i]
<1> DEFINE q == <<Check("helper", "abort")>>
<1>1. IsSeq(q) /\ Len(q) = 1 BY Tuples
<1>2. IsSeq(SelectOneShotStepsV2) /\ Len(SelectOneShotStepsV2) = 5 BY OneShotPlacesV2
<1>3. q[1] = Check("helper", "abort") OBVIOUS
<1> HIDE DEF q
<1>4. /\ IsSeq(q \o SelectOneShotStepsV2) /\ Len(q \o SelectOneShotStepsV2) = 6
      /\ At(q \o SelectOneShotStepsV2, 1, SelectOneShotStepsV2)
      /\ At(q \o SelectOneShotStepsV2, 0, q)
  <2>1. /\ IsSeq(q \o SelectOneShotStepsV2)
        /\ Len(q \o SelectOneShotStepsV2) = Len(q) + Len(SelectOneShotStepsV2)
        /\ At(q \o SelectOneShotStepsV2, Len(q), SelectOneShotStepsV2)
        /\ At(q \o SelectOneShotStepsV2, 0, q)
    BY <1>1, <1>2, Appended
  <2> QED BY <1>1, <1>2, <2>1
<1>5. SelectOneShotStepsV3 = q \o SelectOneShotStepsV2 BY DEF SelectOneShotStepsV3, q
<1>6. SelectOneShotStepsV3[0 + 1] = q[1] BY <1>1, <1>4, <1>5 DEF At
<1>7. \A i \in 1..5 : SelectOneShotStepsV3[1 + i] = SelectOneShotStepsV2[i]
  BY <1>2, <1>4, <1>5 DEF At
<1> QED BY <1>3, <1>4, <1>5, <1>6, <1>7

\* The stage of a write that makes no transition.
Still == ""

\* What the fields of the steps are.
LEMMA Parts ==
    /\ \A x, n : /\ Unless(x, n).k = "check" /\ Unless(x, n).ev = x
                 /\ Unless(x, n).fail = "skip" /\ Unless(x, n).n = n
    /\ \A x, f : Check(x, f).k = "check" /\ Check(x, f).ev = x /\ Check(x, f).fail = f
    /\ \A op, f : Do(op, f).k = "do" /\ Do(op, f).op = op /\ Do(op, f).fail = f
    /\ \A d : Put(d).k = "put"
    /\ Seal.k = "seal"
    /\ \A s : /\ To(s).k = "save" /\ To(s).to = s /\ DoneTo(s).k = "save" /\ DoneTo(s).to = s
    /\ \A d, s : /\ NoteTo(d, s).k = "save" /\ NoteTo(d, s).to = s
                 /\ DoneNoteTo(d, s).k = "save" /\ DoneNoteTo(d, s).to = s
    /\ \A op : Intend(op).k = "save" /\ Intend(op).to = Still
    /\ Done.k = "save" /\ Done.to = Still /\ Plain.k = "save" /\ Plain.to = Still
    /\ SwapUuid.k = "save" /\ SwapUuid.to = Still
    /\ RecoveryNoted.k = "save" /\ RecoveryNoted.to = Still
<1> USE DEF Plain, Still
<1>1. \A x, n : /\ Unless(x, n).k = "check" /\ Unless(x, n).ev = x
                /\ Unless(x, n).fail = "skip" /\ Unless(x, n).n = n
  BY DEF Unless
<1>2. \A x, f : Check(x, f).k = "check" /\ Check(x, f).ev = x /\ Check(x, f).fail = f BY DEF Check
<1>3. \A op, f : Do(op, f).k = "do" /\ Do(op, f).op = op /\ Do(op, f).fail = f BY DEF Do
<1>4. (\A d : Put(d).k = "put") /\ Seal.k = "seal" BY DEF Put, Seal
<1>5. \A s : /\ To(s).k = "save" /\ To(s).to = s /\ DoneTo(s).k = "save" /\ DoneTo(s).to = s
  BY DEF To, DoneTo
<1>6. \A d, s : /\ NoteTo(d, s).k = "save" /\ NoteTo(d, s).to = s
                /\ DoneNoteTo(d, s).k = "save" /\ DoneNoteTo(d, s).to = s
  BY DEF NoteTo, DoneNoteTo
<1>7. \A op : Intend(op).k = "save" /\ Intend(op).to = Still BY DEF Intend
<1>8. /\ Done.k = "save" /\ Done.to = Still /\ Plain.k = "save" /\ Plain.to = Still
      /\ SwapUuid.k = "save" /\ SwapUuid.to = Still
  BY DEF Done, SwapUuid
<1>9. RecoveryNoted.k = "save" /\ RecoveryNoted.to = Still BY <1>6 DEF RecoveryNoted
<1> HIDE DEF Plain, Still
<1> QED BY <1>1, <1>2, <1>3, <1>4, <1>5, <1>6, <1>7, <1>8, <1>9

-----------------------------------------------------------------------------
(* The shapes of the programs: which step stands where. *)

\* recover removes a file that is there in its exact form, and always the
\* swapfile; then it looks once more.
RemoveShape(i, s) ==
    /\ s.k = "check" =>
          \/ i = 1 /\ s.ev = "helper" /\ s.fail = "skip" /\ s.n = 3
          \/ i = 5 /\ s.fail = "skip" /\ s.n = 3
          \/ i = 9 /\ s.ev = "entry" /\ s.fail = "skip" /\ s.n = 3
          \/ i = 15 /\ s.ev = "finalize" /\ s.fail = "abort"
    /\ s.k = "do" =>
          /\ s.fail = "abort"
          /\ \/ i = 3 /\ s.op = Op("remove", "helper")
             \/ i = 7 /\ s.op = Op("remove", "unit")
             \/ i = 11 /\ s.op = Op("remove", "entry")
             \/ i = 14 /\ s.op = Op("remove", "swapfile")
    /\ i \in {3, 11, 14} => s.k = "do"
    /\ i = 15 => s.k = "check"
    /\ s.k = "save" => s.to = Still \/ (i = 16 /\ s.to = "Recovered")

\* The one-shot is looked at and cleared first.
ClearShape(i, s) ==
    /\ i = 1 => s.k = "check" /\ s.ev = "oneshot" /\ s.fail = "abort"
    /\ i \in {2, 4} => s.k = "save" /\ s.to = Still
    /\ i = 3 => s.k = "do" /\ s.op = Op("oneshot", "none") /\ s.fail = "abort"
    /\ i > 4 => RemoveShape(i - 4, s)

\* The place of the check behind the last removal, and that of the stage
\* before the one-shot is selected.
Judged(c) == IF c = "v2" THEN 15 ELSE 18
Chosen(c) == IF c = "v2" THEN 1 ELSE 2

CleanupShape(c, i, s) ==
    /\ s.k = "check" /\ s.fail = "skip" => i = 1 /\ s.n = 1
    /\ i = 3 => s.k = "check" /\ s.ev = "baseline" /\ s.fail = "abort"
    /\ s.k = "do" => /\ i > 6 /\ s.fail = "fail"
                     /\ \E x \in Owned : s.op = Op("remove", x)
    /\ i = 6 => s.k = "save" /\ s.to = "Cleaning"
    /\ s.k = "save" => IF i <= 6 THEN s.to \in {"BaselineBoot", "BaselineVerified", "Cleaning"}
                                 ELSE s.to = Still \/ (i > Judged(c) /\ s.to = "Restored")
    /\ i = Judged(c) => s.k = "check" /\ s.ev = "cleaned" /\ s.fail = "fail"

OneShotShape(c, i, s) ==
    /\ s.k = "check" => i = 1 /\ c # "v2" /\ s.ev = "helper" /\ s.fail = "abort"
    /\ c # "v2" /\ i = 1 => s.k = "check"
    /\ i = Chosen(c) => s.k = "save" /\ s.to = "OneShotSelecting"
    /\ s.k = "do" => /\ i > Chosen(c) /\ s.fail = "fail"
                     /\ s.op = Op("oneshot", "experimental")
    /\ i > Chosen(c) /\ s.k = "save" => s.to \in {Still, "OneShotSelected"}

ApplyShape(c, i, s) ==
    /\ s.k \in {"check", "do"} => s.fail # "skip"
    /\ s.k = "save" /\ s.to = "Applied" => i = IF c = "v2" THEN 19 ELSE 16
    /\ c # "v2" =>
          /\ i = 3 => s.k = "do" /\ s.op = Op("create", "swapfile")
          /\ i = 8 => s.k = "do" /\ s.op = Op("create", "entry")
          /\ i = 11 => s.k = "do" /\ s.op = Op("create", "unit")

\* A step is at most one of these.
LEMMA RemoveShaped == \A i \in 1..19 : RemoveShape(i, RemoveSteps[i])
<1> SUFFICES ASSUME NEW i \in 1..19 PROVE RemoveShape(i, RemoveSteps[i]) OBVIOUS
<1>1. CASE i \in {1, 5, 9, 15} BY <1>1, RemovePlaces, Parts DEF RemoveShape
<1>2. CASE i \in {3, 7, 11, 14} BY <1>2, RemovePlaces, Parts DEF RemoveShape
<1>3. CASE i \in {2, 4, 6, 8, 10, 12, 13, 18}
  <2>1. RemoveSteps[i].k = "save" /\ RemoveSteps[i].to = Still BY <1>3, RemovePlaces, Parts
  <2> QED BY <1>3, <2>1 DEF RemoveShape
<1>4. CASE i = 16
  <2>1. RemoveSteps[16].k = "save" /\ RemoveSteps[16].to = "Recovered" BY RemovePlaces, Parts
  <2> QED BY <1>4, <2>1 DEF RemoveShape
<1>5. CASE i \in {17, 19}
  <2>1. RemoveSteps[i].k \in {"put", "seal"} BY <1>5, RemovePlaces, Parts
  <2> QED BY <1>5, <2>1 DEF RemoveShape
<1> QED BY <1>1, <1>2, <1>3, <1>4, <1>5

\* recover with the one-shot has its shape.
LEMMA ClearShaped == \A i \in 1..23 : ClearShape(i, ClearThenRemoveSteps[i])
<1> SUFFICES ASSUME NEW i \in 1..23 PROVE ClearShape(i, ClearThenRemoveSteps[i]) OBVIOUS
<1>1. CASE i \in {1, 2, 3, 4} BY <1>1, ClearPlaces, Parts DEF ClearShape
<1>2. CASE i > 4
  <2> DEFINE j == i - 4
  <2>0. j \in 1..19 /\ i = 4 + j BY <1>2
  <2>1. RemoveShape(j, RemoveSteps[j]) BY <2>0, RemoveShaped
  <2> HIDE DEF j
  <2>2. ClearThenRemoveSteps[4 + j] = RemoveSteps[j] 
    <3>1. CASE j \in 1..10 BY <2>0, <3>1, ClearPlaces, RemovePlaces
    <3>2. CASE j \in 11..19 BY <2>0, <3>2, ClearPlaces, RemovePlaces
    <3> QED BY <2>0, <3>1, <3>2
  <2>3. RemoveShape(i - 4, ClearThenRemoveSteps[i]) BY <2>0, <2>1, <2>2 DEF j
  <2> QED BY <1>2, <2>3 DEF ClearShape
<1> QED BY <1>1, <1>2

\* So has the cleanup of either kind.
LEMMA CleanupShaped ==
    /\ \A i \in 1..18 : CleanupShape("v2", i, CleanupStepsV2[i])
    /\ \A c : c # "v2" => \A i \in 1..23 : CleanupShape(c, i, CleanupStepsV3[i])
<1>0. {"entry", "unit", "helper", "swapfile"} \subseteq Owned BY Literals
<1>1. ASSUME NEW i \in 1..18 PROVE CleanupShape("v2", i, CleanupStepsV2[i])
  <2>0. Judged("v2") = 15 BY DEF Judged
  <2>1. CASE i \in {1, 2, 3, 4, 5, 6} BY <2>0, <2>1, CleanupPlacesV2, Parts DEF CleanupShape
  <2>2. CASE i \in {8, 11, 14} BY <1>0, <2>0, <2>2, CleanupPlacesV2, Parts DEF CleanupShape
  <2>3. CASE i \in {7, 9, 10, 12, 13}
    <3>1. CleanupStepsV2[i].k = "save" /\ CleanupStepsV2[i].to = Still
      BY <2>3, CleanupPlacesV2, Parts
    <3> QED BY <2>0, <2>3, <3>1 DEF CleanupShape
  <2>4. CASE i \in {15, 16, 17, 18} BY <2>0, <2>4, CleanupPlacesV2, Parts DEF CleanupShape
  <2> QED BY <2>1, <2>2, <2>3, <2>4
<1>2. ASSUME NEW c, c # "v2", NEW i \in 1..23 PROVE CleanupShape(c, i, CleanupStepsV3[i])
  <2>0. Judged(c) = 18 BY <1>2 DEF Judged
  <2>1. CASE i \in {1, 2, 3, 4, 5, 6} BY <2>0, <2>1, CleanupPlacesV3, Parts DEF CleanupShape
  <2>2. CASE i \in {8, 11, 14, 17} BY <1>0, <2>0, <2>2, CleanupPlacesV3, Parts DEF CleanupShape
  <2>3. CASE i \in {7, 9, 10, 12, 13, 15, 16}
    <3>1. CleanupStepsV3[i].k = "save" /\ CleanupStepsV3[i].to = Still
      BY <2>3, CleanupPlacesV3, Parts
    <3> QED BY <2>0, <2>3, <3>1 DEF CleanupShape
  <2>4. CASE i \in {18, 19, 20, 21, 22, 23}
    BY <2>0, <2>4, CleanupPlacesV3, Parts DEF CleanupShape
  <2> QED BY <2>1, <2>2, <2>3, <2>4
<1> QED BY <1>1, <1>2

\* So has the selection of the one-shot.
LEMMA OneShotShaped ==
    /\ \A i \in 1..5 : OneShotShape("v2", i, SelectOneShotStepsV2[i])
    /\ \A c : c # "v2" => \A i \in 1..6 : OneShotShape(c, i, SelectOneShotStepsV3[i])
<1>1. ASSUME NEW i \in 1..5 PROVE OneShotShape("v2", i, SelectOneShotStepsV2[i])
  <2>0. Chosen("v2") = 1 BY DEF Chosen
  <2> QED BY <2>0, OneShotPlacesV2, Parts DEF OneShotShape
<1>2. ASSUME NEW c, c # "v2", NEW i \in 1..6 PROVE OneShotShape(c, i, SelectOneShotStepsV3[i])
  <2>0. Chosen(c) = 2 BY <1>2 DEF Chosen
  <2>1. CASE i = 1 BY <1>2, <2>0, <2>1, OneShotPlacesV3, Parts DEF OneShotShape
  <2>2. CASE i # 1
    <3> DEFINE j == i - 1
    <3>0. j \in 1..5 /\ i = 1 + j BY <2>2
    <3> HIDE DEF j
    <3>1. SelectOneShotStepsV3[i] = SelectOneShotStepsV2[j] BY <3>0, OneShotPlacesV3
    <3> QED BY <1>2, <2>0, <3>0, <3>1, OneShotPlacesV2, Parts DEF OneShotShape
  <2> QED BY <2>1, <2>2
<1> QED BY <1>1, <1>2

\* So has apply.
LEMMA ApplyShaped ==
    /\ \A i \in 1..19 : ApplyShape("v2", i, ApplyStepsV2[i])
    /\ \A c : c # "v2" => \A i \in 1..16 : ApplyShape(c, i, ApplyStepsV3[i])
<1>0. Still # "Applied" BY DEF Still
<1>1. ASSUME NEW i \in 1..19 PROVE ApplyShape("v2", i, ApplyStepsV2[i])
  <2>1. CASE i \in {1, 2, 3, 4, 5, 6, 7, 8, 9} BY <1>0, <2>1, ApplyPlacesV2, Parts DEF ApplyShape
  <2>2. CASE i \in {10, 11, 12, 13, 14, 15, 16, 17, 18, 19}
    BY <1>0, <2>2, ApplyPlacesV2, Parts DEF ApplyShape
  <2> QED BY <2>1, <2>2
<1>2. ASSUME NEW c, c # "v2", NEW i \in 1..16 PROVE ApplyShape(c, i, ApplyStepsV3[i])
  <2>1. CASE i \in {1, 2, 3, 4, 5, 6, 7, 8} BY <1>0, <1>2, <2>1, ApplyPlaces, Parts DEF ApplyShape
  <2>2. CASE i \in {9, 10, 11, 12, 13, 14, 15, 16}
    BY <1>0, <1>2, <2>2, ApplyPlaces, Parts DEF ApplyShape
  <2> QED BY <2>1, <2>2
<1> QED BY <1>1, <1>2

-----------------------------------------------------------------------------
(* What a command has reached at each of its places, and what every record   *)
(* says about the machine.                                                   *)

Risky(h) == h.tried \/ h.oneShot = "experimental"
AfterFailure == BaselineStages \cup Terminal \cup {"Failed", "Cleaning"}
Armed == {"Applied", "OneShotSelecting", "OneShotSelected"}

\* A record of a transaction that has passed, or has failed behind, the
\* selection of the one-shot; one that failed before it says so to the end.
Past(t) == t.stage \notin BeforeOneShot /\ t.failedFrom \notin BeforeOneShot
Marked(t) == t.failedFrom \in BeforeOneShot => t.stage \in AfterFailure

Gone(h) ==
    /\ \A x \in Owned \ {"entry"} : h.owned[x] = "absent"
    /\ h.owned["entry"] # "exact"
    /\ h.oneShot # "experimental" /\ ~h.swapOn

\* The machine h as such, under contract c: its last conjunct is BootableEntry.
Trial(c, h) ==
    /\ h.entry = "experimental" => h.tried
    /\ h.swapOn => h.entry = "experimental"
    /\ h.oneShot = "experimental" => ~h.tried
    /\ c # "v2" /\ h.oneShot = "experimental" => \A x \in Owned : h.owned[x] = "exact"

\* A record t, on disk, in the candidate or in the hands of a process.
Sane(c, h, t) ==
    /\ Risky(h) => Past(t)
    /\ Marked(t)
    /\ t.stage \in Terminal => Gone(h) /\ h.entry = "baseline"
    /\ c # "v2" /\ ~h.tried /\ h.owned["helper"] = "exact" /\ t.stage \in Armed =>
          \A x \in Owned : h.owned[x] = "exact"

\* How far recover has come with its removals before its step k.
Removed(h, k) ==
    /\ k > 3 => h.owned["helper"] # "exact"
    /\ k > 11 => h.owned["entry"] # "exact"
    /\ k > 14 => h.owned["swapfile"] = "absent"
    /\ k > 15 => h.owned["unit"] = "absent" /\ h.owned["helper"] = "absent"

\* What holds when a command of the operator is about to take its step pc.
Fits(c, h, cmd, pc, t) ==
    /\ cmd \in {"measure", "apply"} \cup Undos =>
          ~Risky(h) /\ t.stage \in BeforeOneShot \ {"Applied"}
    /\ cmd = "apply" /\ c # "v2" =>
          /\ pc > 3 => h.owned["swapfile"] = "exact"
          /\ pc > 8 => h.owned["entry"] = "exact"
          /\ pc > 11 => h.owned["unit"] = "exact"
    /\ cmd = "remove" => ~Risky(h) /\ Removed(h, pc)
    /\ cmd = "clear" =>
          /\ h.entry = "baseline" /\ (pc > 1 => ~h.tried)
          /\ pc > 3 => h.oneShot # "experimental" /\ Removed(h, pc - 4)
    /\ cmd = "cleanup" =>
          /\ pc > 3 => h.entry = "baseline" /\ h.oneShot # "experimental"
          /\ pc > 6 => t.stage \in {"Cleaning", "Restored"}
          /\ pc > Judged(c) => \A x \in Owned : h.owned[x] = "absent"
    /\ cmd = "one_shot" =>
          /\ pc > 1 /\ c # "v2" => h.owned["helper"] = "exact"
          /\ pc > Chosen(c) => ~h.tried /\ t.stage \in OneShotStages

Shape(c, cmd, i, s) ==
    /\ cmd = "remove" => RemoveShape(i, s)
    /\ cmd = "clear" => ClearShape(i, s)
    /\ cmd = "cleanup" => CleanupShape(c, i, s)
    /\ cmd = "one_shot" => OneShotShape(c, i, s)
    /\ cmd = "apply" => ApplyShape(c, i, s)

\* Every step of a command has its shape and its words.
LEMMA StepShape ==
    ASSUME NEW c \in Contracts, NEW cmd \in Commands(c),
           NEW i \in 1..Len(Program(c, cmd))
    PROVE  /\ Shape(c, cmd, i, Program(c, cmd)[i])
           /\ Speaks(cmd, Program(c, cmd)[i])
           /\ cmd = "apply" => Len(Program(c, cmd)) = IF c = "v2" THEN 19 ELSE 16
<1>1. Speaks(cmd, Program(c, cmd)[i]) BY ProgramSays DEF Says
<1>2. CASE cmd = "remove"
  <2>1. Program(c, cmd) = RemoveSteps /\ Len(RemoveSteps) = 19 BY <1>2, ProgramIs, RemovePlaces
  <2>2. RemoveShape(i, Program(c, cmd)[i]) BY <2>1, RemoveShaped
  <2> QED BY <1>1, <1>2, <2>2 DEF Shape
<1>3. CASE cmd = "clear"
  <2>1. Program(c, cmd) = ClearThenRemoveSteps /\ Len(ClearThenRemoveSteps) = 23
    BY <1>3, ProgramIs, ClearPlaces
  <2>2. ClearShape(i, Program(c, cmd)[i]) BY <2>1, ClearShaped
  <2> QED BY <1>1, <1>3, <2>2 DEF Shape
<1>4. CASE cmd = "cleanup"
  <2>1. Program(c, cmd) = IF c = "v2" THEN CleanupStepsV2 ELSE CleanupStepsV3
    BY <1>4, ProgramIs
  <2>2. Len(CleanupStepsV2) = 18 /\ Len(CleanupStepsV3) = 23
    BY CleanupPlacesV2, CleanupPlacesV3
  <2>3. CleanupShape(c, i, Program(c, cmd)[i])
    <3>1. CASE c = "v2" BY <2>1, <2>2, <3>1, CleanupShaped
    <3>2. CASE c # "v2" BY <2>1, <2>2, <3>2, CleanupShaped
    <3> QED BY <3>1, <3>2
  <2> QED BY <1>1, <1>4, <2>3 DEF Shape
<1>5. CASE cmd = "one_shot"
  <2>1. Program(c, cmd) = IF c = "v2" THEN SelectOneShotStepsV2 ELSE SelectOneShotStepsV3
    BY <1>5, ProgramIs
  <2>2. Len(SelectOneShotStepsV2) = 5 /\ Len(SelectOneShotStepsV3) = 6
    BY OneShotPlacesV2, OneShotPlacesV3
  <2>3. OneShotShape(c, i, Program(c, cmd)[i])
    <3>1. CASE c = "v2" BY <2>1, <2>2, <3>1, OneShotShaped
    <3>2. CASE c # "v2" BY <2>1, <2>2, <3>2, OneShotShaped
    <3> QED BY <3>1, <3>2
  <2> QED BY <1>1, <1>5, <2>3 DEF Shape
<1>6. CASE cmd = "apply"
  <2>1. Program(c, cmd) = IF c = "v2" THEN ApplyStepsV2 ELSE ApplyStepsV3
    BY <1>6, ProgramIs
  <2>2. Len(ApplyStepsV2) = 19 /\ Len(ApplyStepsV3) = 16
    BY ApplyPlacesV2, ApplyPlaces
  <2>3. ApplyShape(c, i, Program(c, cmd)[i])
    <3>1. CASE c = "v2" BY <2>1, <2>2, <3>1, ApplyShaped
    <3>2. CASE c # "v2" BY <2>1, <2>2, <3>2, ApplyShaped
    <3> QED BY <3>1, <3>2
  <2> QED BY <1>1, <1>6, <2>1, <2>2, <2>3 DEF Shape
<1>7. CASE cmd \notin {"remove", "clear", "cleanup", "one_shot", "apply"}
  BY <1>1, <1>7 DEF Shape
<1> QED BY <1>2, <1>3, <1>4, <1>5, <1>6, <1>7

\* What the transition table rules out: a way back before the one-shot, a way
\* out of a failure but through the baseline, and a one-shot that is not
\* selected from an applied transaction.
Steady(a, b) ==
    /\ b \in BeforeOneShot => a \in BeforeOneShot
    /\ a \in AfterFailure => b \in AfterFailure
    /\ b = "OneShotSelecting" => a = "Applied"
    /\ b = "OneShotSelected" => a = "OneShotSelecting"

\* Neighbours in a sequence that is put together.
LEMMA SteadyChain ==
    ASSUME NEW u, NEW v, IsSeq(u), IsSeq(v), Len(u) > 0, Len(v) > 0,
           \A i \in 1..(Len(u) - 1) : Steady(u[i], u[i + 1]),
           \A i \in 1..(Len(v) - 1) : Steady(v[i], v[i + 1]),
           Steady(u[Len(u)], v[1]),
           NEW a, NEW b, <<a, b>> \in Chain(u \o v)
    PROVE  Steady(a, b)
<1>1. /\ Len(u) \in Nat /\ Len(v) \in Nat /\ Len(u \o v) = Len(u) + Len(v)
      /\ At(u \o v, Len(u), v) /\ At(u \o v, 0, u)
  BY Appended
<1>2. /\ \A i \in 1..Len(v) : (u \o v)[Len(u) + i] = v[i]
      /\ \A i \in 1..Len(u) : (u \o v)[0 + i] = u[i]
  BY <1>1 DEF At
<1> DEFINE w == u \o v
<1>3. PICK i \in 1..(Len(w) - 1) : <<a, b>> = <<w[i], w[i + 1]>> BY DEF Chain
<1>4. a = w[i] /\ b = w[i + 1] BY <1>3
<1>5. /\ \A j \in 1..Len(v) : w[Len(u) + j] = v[j]
      /\ \A j \in 1..Len(u) : w[0 + j] = u[j]
      /\ Len(w) = Len(u) + Len(v)
  BY <1>1, <1>2
<1> HIDE DEF w
<1>6. CASE i < Len(u)
  <2>1. i \in 1..(Len(u) - 1) /\ 0 + i = i /\ 0 + (i + 1) = i + 1 /\ i + 1 \in 1..Len(u)
        /\ i \in 1..Len(u)
    BY <1>1, <1>6
  <2>2. w[i] = u[i] /\ w[i + 1] = u[i + 1] BY <1>5, <2>1
  <2> QED BY <1>4, <2>1, <2>2
<1>7. CASE i = Len(u)
  <2>1. i \in 1..Len(u) /\ 0 + i = i /\ 1 \in 1..Len(v) BY <1>1, <1>7
  <2>2. w[0 + i] = u[i] /\ w[Len(u) + 1] = v[1] BY <1>5, <2>1
  <2> QED BY <1>4, <1>7, <2>1, <2>2
<1>8. CASE i > Len(u)
  <2> DEFINE j == i - Len(u)
  <2>1. /\ j \in 1..(Len(v) - 1) /\ j \in 1..Len(v) /\ j + 1 \in 1..Len(v)
        /\ i = Len(u) + j /\ i + 1 = Len(u) + (j + 1)
    BY <1>1, <1>5, <1>8
  <2> HIDE DEF j
  <2>2. w[Len(u) + j] = v[j] /\ w[Len(u) + (j + 1)] = v[j + 1] BY <1>5, <2>1
  <2>3. w[i] = v[j] /\ w[i + 1] = v[j + 1] BY <2>1, <2>2
  <2> QED BY <1>4, <2>1, <2>3
<1> QED BY <1>1, <1>6, <1>7, <1>8

\* Every transition of every contract is steady.
LEMMA LegalSteady ==
    ASSUME NEW c \in Contracts, NEW a, NEW b, <<a, b>> \in Legal[c]
    PROVE  Steady(a, b)
<1> USE DEF BeforeOneShot, AfterFailure, BaselineStages, Terminal
<1>0. c \in {"v2", "v3", "v5", "v6"} BY LifecycleAssumption
<1>1. <<a, b>> \in LegalV2 \/ <<a, b>> \in LegalV3
  BY <1>0 DEF Legal, LegalV5, LegalV6
<1>2. /\ IsSeq(ReturnChain) /\ Len(ReturnChain) = 6 /\ ReturnChain[1] = "BaselineSelecting"
      /\ ReturnChain[2] = "BaselineSelected" /\ ReturnChain[3] = "BaselineBoot"
      /\ ReturnChain[4] = "BaselineVerified" /\ ReturnChain[5] = "Cleaning"
      /\ ReturnChain[6] = "Restored"
  <2>1. ReturnChain \in Seq({"BaselineSelecting", "BaselineSelected", "BaselineBoot",
                             "BaselineVerified", "Cleaning", "Restored"})
    BY DEF ReturnChain
  <2> QED BY <2>1 DEF ReturnChain, IsSeq
<1>3. \A i \in 1..(Len(ReturnChain) - 1) : Steady(ReturnChain[i], ReturnChain[i + 1])
  <2> SUFFICES ASSUME NEW i \in 1..5 PROVE Steady(ReturnChain[i], ReturnChain[i + 1])
    BY <1>2
  <2>1. ReturnChain[i + 1] \in AfterFailure /\ ReturnChain[i + 1] \notin BeforeOneShot
        /\ ReturnChain[i + 1] \notin {"OneShotSelecting", "OneShotSelected"}
    BY <1>2
  <2> QED BY <2>1 DEF Steady
<1>4. ASSUME NEW x \in BeforeOneShot, NEW y \in BeforeOneShot PROVE Steady(x, y)
  BY DEF Steady
<1>5. ASSUME NEW x, x \notin AfterFailure,
             NEW y, y \notin BeforeOneShot \cup {"OneShotSelecting", "OneShotSelected"}
      PROVE  Steady(x, y)
  BY <1>5 DEF Steady
<1>6. ASSUME NEW x, NEW y, y \in AfterFailure PROVE Steady(x, y)
  BY <1>6 DEF Steady
<1>7. Steady("Applied", "OneShotSelecting") /\ Steady("OneShotSelecting", "OneShotSelected")
  BY DEF Steady
<1>8. CASE <<a, b>> \in LegalV2
  <2> DEFINE s == <<"Prepared", "RootPreflighted", "Applying", "Applied",
            "OneShotSelecting", "OneShotSelected", "ExperimentalBoot",
            "PostBootMeasuring", "PostBootValidated">>
  <2>1. /\ Len(s) = 9 /\ s[1] = "Prepared" /\ s[2] = "RootPreflighted" /\ s[3] = "Applying"
        /\ s[4] = "Applied" /\ s[5] = "OneShotSelecting" /\ s[6] = "OneShotSelected"
        /\ s[7] = "ExperimentalBoot" /\ s[8] = "PostBootMeasuring" /\ s[9] = "PostBootValidated"
    OBVIOUS
  <2>2. IsSeq(s)
    <3>1. s \in Seq({"Prepared", "RootPreflighted", "Applying", "Applied",
                     "OneShotSelecting", "OneShotSelected", "ExperimentalBoot",
                     "PostBootMeasuring", "PostBootValidated"})
      OBVIOUS
    <3> QED BY <3>1 DEF IsSeq
  <2>3. CASE <<a, b>> \in Chain(s \o ReturnChain)
    <3> HIDE DEF s
    <3>1. ASSUME NEW i \in 1..8 PROVE Steady(s[i], s[i + 1])
      <4>1. CASE i \in {1, 2, 3}
        <5>1. s[i] \in BeforeOneShot /\ s[i + 1] \in BeforeOneShot BY <2>1, <4>1
        <5> QED BY <1>4, <5>1
      <4>2. CASE i \in {4, 5}
        <5>1. <<i, s[i], s[i + 1]>> = <<4, "Applied", "OneShotSelecting">>
              \/ <<i, s[i], s[i + 1]>> = <<5, "OneShotSelecting", "OneShotSelected">>
          BY <2>1, <4>2
        <5> QED BY <1>7, <5>1
      <4>3. CASE i \in {6, 7, 8}
        <5>1. /\ s[i] \notin AfterFailure
              /\ s[i + 1] \notin BeforeOneShot \cup {"OneShotSelecting", "OneShotSelected"}
          BY <2>1, <4>3
        <5> QED BY <1>5, <5>1
      <4> QED BY <4>1, <4>2, <4>3
    <3>2. Steady(s[Len(s)], ReturnChain[1]) BY <1>2, <1>6, <2>1
    <3>3. \A i \in 1..(Len(s) - 1) : Steady(s[i], s[i + 1]) BY <2>1, <3>1
    <3>4. Len(s) > 0 /\ Len(ReturnChain) > 0 BY <1>2, <2>1
    <3> QED BY <1>2, <1>3, <2>2, <2>3, <3>2, <3>3, <3>4, SteadyChain, Zenon
  <2>4. CASE b \in {"BaselineSelecting", "Failed", "Recovered"} BY <1>6, <2>4
  <2> QED BY <1>8, <2>3, <2>4 DEF LegalV2
<1>9. CASE <<a, b>> \in LegalV3
  <2> DEFINE s == <<"Prepared", "RootPreflighted", "BaselineMeasuring",
            "BaselineMeasured", "Applying", "Applied", "OneShotSelecting",
            "OneShotSelected", "ExperimentalBootDetected",
            "ActivationPreparing", "ZswapDisabling",
            "ZswapParametersApplying", "ZswapParametersApplying",
            "ZswapEnabling", "SwapActivating", "ActivationVerified",
            "PostBootMeasuring", "PostBootValidated">>
  <2>1. /\ Len(s) = 18 /\ s[1] = "Prepared" /\ s[2] = "RootPreflighted"
        /\ s[3] = "BaselineMeasuring" /\ s[4] = "BaselineMeasured" /\ s[5] = "Applying"
        /\ s[6] = "Applied" /\ s[7] = "OneShotSelecting" /\ s[8] = "OneShotSelected"
        /\ s[9] = "ExperimentalBootDetected" /\ s[10] = "ActivationPreparing"
        /\ s[11] = "ZswapDisabling" /\ s[12] = "ZswapParametersApplying"
        /\ s[13] = "ZswapParametersApplying" /\ s[14] = "ZswapEnabling"
        /\ s[15] = "SwapActivating" /\ s[16] = "ActivationVerified"
        /\ s[17] = "PostBootMeasuring" /\ s[18] = "PostBootValidated"
    OBVIOUS
  <2>2. IsSeq(s)
    <3>1. s \in Seq({"Prepared", "RootPreflighted", "BaselineMeasuring",
                     "BaselineMeasured", "Applying", "Applied", "OneShotSelecting",
                     "OneShotSelected", "ExperimentalBootDetected",
                     "ActivationPreparing", "ZswapDisabling", "ZswapParametersApplying",
                     "ZswapEnabling", "SwapActivating", "ActivationVerified",
                     "PostBootMeasuring", "PostBootValidated"})
      OBVIOUS
    <3> QED BY <3>1 DEF IsSeq
  <2>3. CASE <<a, b>> \in Chain(s \o ReturnChain)
    <3> HIDE DEF s
    <3>1. ASSUME NEW i \in 1..17 PROVE Steady(s[i], s[i + 1])
      <4>1. CASE i \in {1, 2, 3, 4, 5}
        <5>1. s[i] \in BeforeOneShot /\ s[i + 1] \in BeforeOneShot BY <2>1, <4>1
        <5> QED BY <1>4, <5>1
      <4>2. CASE i \in {6, 7}
        <5>1. \/ s[i] = "Applied" /\ s[i + 1] = "OneShotSelecting"
              \/ s[i] = "OneShotSelecting" /\ s[i + 1] = "OneShotSelected"
          BY <2>1, <4>2
        <5> QED BY <1>7, <5>1
      <4>3. CASE i \in {8, 9, 10, 11, 12}
        <5>1. /\ s[i] \notin AfterFailure
              /\ s[i + 1] \notin BeforeOneShot \cup {"OneShotSelecting", "OneShotSelected"}
          BY <2>1, <4>3
        <5> QED BY <1>5, <5>1
      <4>4. CASE i \in {13, 14, 15, 16, 17}
        <5>1. /\ s[i] \notin AfterFailure
              /\ s[i + 1] \notin BeforeOneShot \cup {"OneShotSelecting", "OneShotSelected"}
          BY <2>1, <4>4
        <5> QED BY <1>5, <5>1
      <4> QED BY <4>1, <4>2, <4>3, <4>4
    <3>2. Steady(s[Len(s)], ReturnChain[1]) BY <1>2, <1>6, <2>1
    <3>3. \A i \in 1..(Len(s) - 1) : Steady(s[i], s[i + 1]) BY <2>1, <3>1
    <3>4. Len(s) > 0 /\ Len(ReturnChain) > 0 BY <1>2, <2>1
    <3> QED BY <1>2, <1>3, <2>2, <2>3, <3>2, <3>3, <3>4, SteadyChain, Zenon
  <2>4. CASE a \in Activating /\ b = "ActivationFailed"
    <3>1. a \notin AfterFailure BY <2>4 DEF Activating
    <3> QED BY <1>5, <2>4, <3>1
  <2>5. CASE b \in {"BaselineSelecting", "Failed", "Recovered"} BY <1>6, <2>5
  <2> QED BY <1>9, <2>3, <2>4, <2>5 DEF LegalV3
<1> QED BY <1>1, <1>8, <1>9

\* What a write does to stage and failure.
LEMMA RecordParts ==
    ASSUME contract \in Contracts, NEW t \in Transactions, NEW s
    PROVE  /\ Written(contract, t, s).stage = IF s.to = Still THEN t.stage ELSE s.to
           /\ Written(contract, t, s).failedFrom = t.failedFrom
           /\ Failing(contract, t).stage = "Failed"
           /\ Failing(contract, t).failedFrom = t.stage
<1>1. Written(contract, t, s) = WrittenV2(t, s) /\ Failing(contract, t) = FailingV2(t) BY Alike
<1>2. /\ WrittenV2(t, s).stage = IF s.to = Still THEN t.stage ELSE s.to
      /\ WrittenV2(t, s).failedFrom = t.failedFrom
  BY DEF WrittenV2, Transactions, Still
<1>3. FailingV2(t).stage = "Failed" /\ FailingV2(t).failedFrom = t.stage
  BY DEF FailingV2, Transactions
<1> QED BY <1>1, <1>2, <1>3

\* A failed transaction is as sane as the one that fails.
LEMMA FailSane ==
    ASSUME contract \in Contracts, NEW t \in Transactions, NEW h, Sane(contract, h, t)
    PROVE  Sane(contract, h, Failing(contract, t))
<1> DEFINE w == Failing(contract, t)
<1>1. w.stage = "Failed" /\ w.failedFrom = t.stage BY RecordParts
<1> HIDE DEF w
<1>2. "Failed" \notin BeforeOneShot /\ "Failed" \in AfterFailure /\ "Failed" \notin Terminal
      /\ "Failed" \notin Armed
  BY DEF BeforeOneShot, AfterFailure, Terminal, Armed
<1>3. Sane(contract, h, w) BY <1>1, <1>2 DEF Sane, Past, Marked
<1> QED BY <1>3 DEF w

\* So is what a step of a command writes, at the place where it stands.
LEMMA SaveSane ==
    ASSUME contract \in Contracts, NEW t \in Transactions, NEW s, NEW h, NEW cmd,
           NEW pc \in Nat, pc > 0,
           s.k = "save", Allowed(t, s), Speaks(cmd, s), Shape(contract, cmd, pc, s),
           Trial(contract, h), Sane(contract, h, t), Fits(contract, h, cmd, pc, t),
           h.entry \in {"baseline", "experimental"}
    PROVE  Sane(contract, h, Written(contract, t, s))
<1> DEFINE w == Written(contract, t, s)
           b == s.to
<1>1. w.stage = (IF b = Still THEN t.stage ELSE b) /\ w.failedFrom = t.failedFrom
  BY RecordParts
<1> HIDE DEF w
<1>2. CASE b = Still BY <1>1, <1>2 DEF Sane, Past, Marked, w
<1>3. CASE b # Still
  <2>0. w.stage = b /\ w.failedFrom = t.failedFrom BY <1>1, <1>3
  <2>1. <<t.stage, b>> \in Legal[contract] BY <1>3 DEF Allowed, LegalTransition, Still
  <2>2. Steady(t.stage, b) BY <2>1, LegalSteady
  <2>3. Leads(cmd, b) BY DEF Speaks
  <2>4. Risky(h) => Past(w) BY <2>0, <2>2 DEF Sane, Past, Steady
  <2>5. Marked(w) BY <2>0, <2>2 DEF Sane, Marked, Steady
  <2>6. ASSUME b \in Terminal PROVE Gone(h) /\ h.entry = "baseline"
    <3>0. cmd \in {"remove", "clear", "cleanup"} /\ b \notin {"BaselineBoot", "BaselineVerified", "Cleaning"}
      BY <2>3, <2>6 DEF Leads, Terminal
    <3>1. CASE cmd = "remove"
      <4>1. pc = 16 BY <1>3, <3>1 DEF Shape, RemoveShape
      <4>2. ~Risky(h) /\ Removed(h, 16) BY <3>1, <4>1 DEF Fits
      <4> QED BY <4>2 DEF Risky, Removed, Trial, Gone, Owned
    <3>2. CASE cmd = "clear"
      <4>1. pc - 4 = 16 /\ pc > 4
        <5>1. pc > 4 BY <1>3, <3>2 DEF Shape, ClearShape
        <5>2. RemoveShape(pc - 4, s) BY <3>2, <5>1 DEF Shape, ClearShape
        <5> QED BY <1>3, <5>1, <5>2 DEF RemoveShape
      <4>2. h.entry = "baseline" /\ h.oneShot # "experimental" /\ Removed(h, 16)
        BY <3>2, <4>1 DEF Fits
      <4> QED BY <4>2 DEF Removed, Trial, Gone, Owned
    <3>3. CASE cmd = "cleanup"
      <4>1. pc > 6 /\ pc > Judged(contract)
        <5>1. CleanupShape(contract, pc, s) BY <3>3 DEF Shape
        <5>2. ~(pc <= 6) BY <3>0, <5>1 DEF CleanupShape
        <5>3. pc > Judged(contract) BY <1>3, <5>1, <5>2 DEF CleanupShape
        <5> QED BY <5>2, <5>3
      <4>2. /\ h.entry = "baseline" /\ h.oneShot # "experimental"
            /\ \A x \in Owned : h.owned[x] = "absent"
        BY <3>3, <4>1 DEF Fits
      <4> QED BY <4>2 DEF Trial, Gone, Owned
    <3> QED BY <3>0, <3>1, <3>2, <3>3
  <2>7. ASSUME contract # "v2", ~h.tried, h.owned["helper"] = "exact", b \in Armed
        PROVE  \A x \in Owned : h.owned[x] = "exact"
    <3>1. CASE b = "Applied"
      <4>1. cmd = "apply" BY <2>3, <3>1 DEF Leads
      <4>2. pc = 16 BY <2>7, <3>1, <4>1 DEF Shape, ApplyShape
      <4> QED BY <2>7, <4>1, <4>2 DEF Fits, Owned
    <3>2. CASE b # "Applied"
      <4>1. t.stage \in Armed BY <2>2, <2>7, <3>2 DEF Steady, Armed
      <4> QED BY <2>7, <4>1 DEF Sane
    <3> QED BY <3>1, <3>2
  <2>8. w.stage \in Terminal => Gone(h) /\ h.entry = "baseline" BY <2>0, <2>6
  <2>9. contract # "v2" /\ ~h.tried /\ h.owned["helper"] = "exact" /\ w.stage \in Armed =>
          \A x \in Owned : h.owned[x] = "exact"
    BY <2>0, <2>7
  <2>10. Sane(contract, h, w) BY <2>4, <2>5, <2>8, <2>9 DEF Sane
  <2> QED BY <2>10 DEF w
<1> QED BY <1>2, <1>3

-----------------------------------------------------------------------------
(* What an operation does to the machine, and to what is said of it. *)

\* The machine h after op, whole, in part or not at all.
Changes(op, h) ==
    /\ h.entry = host.entry /\ h.tried = host.tried
    /\ op.act \notin {"create", "remove"} => h.owned = host.owned
    /\ op.act \in {"create", "remove"} =>
          /\ op.on \in Owned
          /\ \A x \in Owned : x # op.on => h.owned[x] = host.owned[x]
    /\ op.act = "remove" => h.owned[op.on] = host.owned[op.on] \/ h.owned[op.on] = "absent"
    /\ h.oneShot = host.oneShot \/ (op.act = "oneshot" /\ h.oneShot = op.on)
    /\ h.swapOn => host.swapOn \/ (op.act = "swap" /\ op.on = "on")

\* The machine after an operation that succeeded.
Succeeds(op, h) ==
    /\ op.act = "create" => h.owned[op.on] = "exact"
    /\ op.act = "remove" => h.owned[op.on] = "absent"
    /\ op.act = "oneshot" => h.oneShot = op.on

\* An operation changes nothing else.
LEMMA SpoiledChanges ==
    ASSUME host \in Hosts, NEW op \in Ops
    PROVE  /\ \A h \in Spoiled(op) : Changes(op, h)
           /\ Changes(op, host)
           /\ Able(op) => Changes(op, Effect(op)) /\ Succeeds(op, Effect(op))
<1>0. Able(op) => Effect(op) \in Spoiled(op) BY DEF Spoiled
<1>1. CASE op.act \in {"create", "remove"} /\ op.on \in Owned
  <2>1. ASSUME NEW h, NEW v, h = [host EXCEPT !.owned[op.on] = v]
        PROVE  /\ h.owned[op.on] = v /\ h.entry = host.entry /\ h.tried = host.tried
               /\ h.oneShot = host.oneShot /\ h.swapOn = host.swapOn
               /\ \A x \in Owned : x # op.on => h.owned[x] = host.owned[x]
    BY <1>1, <2>1 DEF Hosts
  <2>2. Changes(op, host) BY <1>1 DEF Changes
  <2>3. CASE op.act = "create"
    <3>1. Effect(op) = [host EXCEPT !.owned[op.on] = "exact"] BY <2>3 DEF Effect
    <3>2. ASSUME NEW h, NEW v, h = [host EXCEPT !.owned[op.on] = v] PROVE Changes(op, h)
      BY <1>1, <2>1, <2>3, <3>2 DEF Changes
    <3>3. Changes(op, Effect(op)) BY <3>1, <3>2
    <3>4. Succeeds(op, Effect(op)) BY <2>1, <2>3, <3>1 DEF Succeeds
    <3>5. ASSUME NEW h \in Spoiled(op)
          PROVE  h = host \/ h = Effect(op) \/ h = [host EXCEPT !.owned[op.on] = "partial"]
      BY DEF Spoiled
    <3> QED BY <2>2, <3>2, <3>3, <3>4, <3>5
  <2>4. CASE op.act = "remove"
    <3>1. Effect(op) = [host EXCEPT !.owned[op.on] = "absent"] BY <2>4 DEF Effect
    <3>2. Changes(op, Effect(op)) BY <1>1, <2>1, <2>4, <3>1 DEF Changes
    <3>3. Effect(op).owned[op.on] = "absent" BY <2>1, <3>1
    <3>4. Succeeds(op, Effect(op)) BY <2>4, <3>3 DEF Succeeds
    <3>5. ASSUME NEW h \in Spoiled(op) PROVE h = host \/ h = Effect(op)
      BY <2>4 DEF Spoiled
    <3> QED BY <2>2, <3>2, <3>4, <3>5
  <2> QED BY <1>1, <2>3, <2>4
<1>2. CASE op.act = "oneshot"
  <2>1. Effect(op) = [host EXCEPT !.oneShot = op.on] BY <1>2 DEF Effect
  <2>2. Changes(op, Effect(op)) /\ Succeeds(op, Effect(op)) /\ Changes(op, host)
    BY <1>2, <2>1 DEF Changes, Succeeds, Hosts
  <2>3. ASSUME NEW h \in Spoiled(op) PROVE h = host \/ h = Effect(op) BY <1>2 DEF Spoiled
  <2> QED BY <2>2, <2>3
<1>3. CASE op.act = "zswap"
  <2>1. PICK v : Effect(op) = [host EXCEPT !.zswap = v] BY <1>3 DEF Effect
  <2>2. Changes(op, Effect(op)) /\ Succeeds(op, Effect(op)) /\ Changes(op, host)
    BY <1>3, <2>1 DEF Changes, Succeeds, Hosts
  <2>3. ASSUME NEW h \in Spoiled(op) PROVE h = host \/ h = Effect(op) BY <1>3 DEF Spoiled
  <2> QED BY <2>2, <2>3
<1>4. CASE op.act = "swap"
  <2>1. Effect(op) = [host EXCEPT !.swapOn = (op.on = "on")] BY <1>4 DEF Effect
  <2>2. Changes(op, Effect(op)) /\ Succeeds(op, Effect(op)) /\ Changes(op, host)
    BY <1>4, <2>1 DEF Changes, Succeeds, Hosts
  <2>3. ASSUME NEW h \in Spoiled(op) PROVE h = host \/ h = Effect(op) BY <1>4 DEF Spoiled
  <2> QED BY <2>2, <2>3
<1>5. \/ op.act \in {"create", "remove"} /\ op.on \in Owned
      \/ op.act = "oneshot" \/ op.act = "zswap" \/ op.act = "swap"
  BY OpParts DEF Ops
<1> QED BY <1>1, <1>2, <1>3, <1>4, <1>5

\* While nothing is at risk the machine runs the baseline.
LEMMA Untried ==
    ASSUME NEW c, NEW h, Trial(c, h), ~Risky(h), h.entry \in {"baseline", "experimental"}
    PROVE  h.entry = "baseline" /\ ~h.swapOn /\ ~h.tried /\ h.oneShot # "experimental"
BY DEF Trial, Risky

\* A removal by one of the commands that remove: where it stands in the
\* lifecycle.
LEMMA RemovalSafe ==
    ASSUME NEW c, NEW h, NEW cmd, NEW pc \in Nat, pc > 0, NEW t, NEW s,
           s.k = "do", s.op.act = "remove", Does(cmd, s.op), Shape(c, cmd, pc, s),
           Trial(c, h), Fits(c, h, cmd, pc, t), h.entry \in {"baseline", "experimental"}
    PROVE  /\ h.entry = "baseline" /\ h.oneShot # "experimental" /\ ~h.swapOn
           /\ ~h.tried \/ t.stage \in {"Cleaning", "Restored"}
           /\ \/ t.stage \notin Armed
              \/ h.owned["helper"] # "exact"
              \/ s.op.on = "helper"
<1>0. cmd \in Undos \cup {"remove", "clear", "cleanup"} BY DEF Does
<1>1. CASE cmd \in Undos
  <2>1. ~Risky(h) /\ t.stage \in BeforeOneShot \ {"Applied"} BY <1>1 DEF Fits
  <2>2. t.stage \notin Armed BY <2>1 DEF BeforeOneShot, Armed
  <2> QED BY <2>1, <2>2, Untried
<1>2. CASE cmd = "remove"
  <2>1. ~Risky(h) /\ Removed(h, pc) BY <1>2 DEF Fits
  <2>2. (pc = 3 /\ s.op = Op("remove", "helper")) \/ pc > 3
    BY <1>2 DEF Shape, RemoveShape
  <2>3. h.owned["helper"] # "exact" \/ s.op.on = "helper" BY <2>1, <2>2, OpParts DEF Removed
  <2> QED BY <2>1, <2>3, Untried
<1>3. CASE cmd = "clear"
  <2>1. ClearShape(pc, s) BY <1>3 DEF Shape
  <2>2. pc > 4
    <3>1. Op("oneshot", "none").act # "remove" BY OpParts
    <3> QED BY <2>1, <3>1 DEF ClearShape
  <2>3. h.entry = "baseline" /\ ~h.tried /\ h.oneShot # "experimental" /\ Removed(h, pc - 4)
    BY <1>3, <2>2 DEF Fits
  <2>4. (pc - 4 = 3 /\ s.op = Op("remove", "helper")) \/ pc - 4 > 3
    BY <2>1, <2>2 DEF ClearShape, RemoveShape
  <2>5. h.owned["helper"] # "exact" \/ s.op.on = "helper" BY <2>2, <2>3, <2>4, OpParts DEF Removed
  <2> QED BY <2>3, <2>5 DEF Trial
<1>4. CASE cmd = "cleanup"
  <2>1. pc > 6 BY <1>4 DEF Shape, CleanupShape
  <2>2. h.entry = "baseline" /\ h.oneShot # "experimental" /\ t.stage \in {"Cleaning", "Restored"}
    BY <1>4, <2>1 DEF Fits
  <2>3. t.stage \notin Armed BY <2>2 DEF Armed
  <2> QED BY <2>2, <2>3 DEF Trial
<1> QED BY <1>0, <1>1, <1>2, <1>3, <1>4

\* An operation of a command keeps what is said of the machine and of a
\* record r: in a baseline boot the only one is that of the command itself.
LEMMA HostSane ==
    ASSUME contract \in Contracts, host \in Hosts, NEW s, s.k = "do", s.op \in Ops,
           NEW h, Changes(s.op, h),
           NEW cmd, NEW pc \in Nat, pc > 0, NEW t, Does(cmd, s.op), Shape(contract, cmd, pc, s),
           Trial(contract, host), Fits(contract, host, cmd, pc, t), Sane(contract, host, t),
           NEW r, Sane(contract, host, r), host.entry = "baseline" => r = t,
           cmd = "activate" => host.entry = "experimental"
    PROVE  Trial(contract, h) /\ Sane(contract, h, r)
<1> DEFINE op == s.op
<1>0. host.entry \in {"baseline", "experimental"} BY DEF Hosts
<1>1. op.act \in {"create", "remove", "oneshot", "zswap", "swap"} BY OpParts DEF Ops
<1>2. h.entry = host.entry /\ h.tried = host.tried BY DEF Changes
<1>3. CASE op.act = "create"
  <2>1. cmd \in {"measure", "apply"} BY <1>3 DEF Does
  <2>2. ~Risky(host) /\ t.stage \in BeforeOneShot \ {"Applied"} BY <2>1 DEF Fits
  <2>3. host.entry = "baseline" /\ ~host.swapOn /\ ~host.tried /\ host.oneShot # "experimental"
    BY <1>0, <2>2, Untried
  <2>4. h.oneShot = host.oneShot /\ (h.swapOn => host.swapOn) BY <1>3 DEF Changes
  <2>5. r.stage \notin Armed /\ r.stage \notin Terminal
    BY <2>2, <2>3 DEF BeforeOneShot, Armed, Terminal
  <2>6. Trial(contract, h) BY <1>2, <2>3, <2>4 DEF Trial
  <2>7. Sane(contract, h, r) BY <1>2, <2>3, <2>4, <2>5 DEF Sane, Risky
  <2> QED BY <2>6, <2>7
<1>4. CASE op.act = "remove"
  <2>1. /\ host.entry = "baseline" /\ host.oneShot # "experimental" /\ ~host.swapOn
        /\ \/ t.stage \notin Armed \/ host.owned["helper"] # "exact" \/ op.on = "helper"
    BY <1>0, <1>4, RemovalSafe
  <2>2. h.oneShot = host.oneShot /\ (h.swapOn => host.swapOn) BY <1>4 DEF Changes
  <2>3. /\ op.on \in Owned
        /\ \A x \in Owned : h.owned[x] = host.owned[x] \/ (x = op.on /\ h.owned[x] = "absent")
    BY <1>4 DEF Changes
  <2>4. r = t BY <2>1
  <2>5. Trial(contract, h) BY <1>2, <2>1, <2>2 DEF Trial
  <2>6. (Risky(h) => Past(t)) /\ Marked(t) BY <1>2, <2>2 DEF Sane, Risky
  <2>7. t.stage \in Terminal => Gone(h) /\ h.entry = "baseline"
    <3>1. Gone(host) => Gone(h)
      <4>1. ASSUME NEW x \in Owned, host.owned[x] = "absent" PROVE h.owned[x] = "absent"
        BY <2>3, <4>1
      <4>2. "entry" \in Owned BY Literals
      <4>3. host.owned["entry"] # "exact" => h.owned["entry"] # "exact" BY <2>3, <4>2
      <4> QED BY <2>2, <4>1, <4>3 DEF Gone
    <3> QED BY <1>2, <3>1 DEF Sane
  <2>8. ASSUME contract # "v2", ~h.tried, h.owned["helper"] = "exact", t.stage \in Armed
        PROVE  \A x \in Owned : h.owned[x] = "exact"
    <3>0. "helper" \in Owned BY Literals
    <3>1. h.owned["helper"] = host.owned["helper"] BY <2>3, <2>8, <3>0
    <3>2. op.on = "helper" BY <2>1, <2>8, <3>1
    <3>3. \A x \in Owned : h.owned[x] = host.owned[x] BY <2>3, <3>1, <3>2
    <3> QED BY <1>2, <2>8, <3>1, <3>3 DEF Sane
  <2>9. Sane(contract, h, t) BY <2>6, <2>7, <2>8 DEF Sane
  <2> QED BY <2>4, <2>5, <2>9
<1>5. CASE op.act = "oneshot"
  <2>1. h.owned = host.owned /\ (h.swapOn => host.swapOn)
        /\ (h.oneShot = host.oneShot \/ h.oneShot = op.on)
    BY <1>5 DEF Changes
  <2>2. CASE op.on # "experimental"
    <3>1. h.oneShot = "experimental" => host.oneShot = "experimental" BY <2>1, <2>2
    <3>2. Trial(contract, h) BY <1>2, <2>1, <3>1 DEF Trial
    <3>3. Sane(contract, h, r) BY <1>2, <2>1, <3>1 DEF Sane, Risky, Gone
    <3> QED BY <3>2, <3>3
  <2>3. CASE op.on = "experimental"
    <3>1. cmd = "one_shot" BY <1>5, <2>3 DEF Does
    <3>2. pc > Chosen(contract) BY <3>1 DEF Shape, OneShotShape
    <3>3. contract # "v2" => pc > 1 BY <3>2 DEF Chosen
    <3>4. ~host.tried /\ t.stage \in OneShotStages /\ (contract # "v2" => host.owned["helper"] = "exact")
      BY <3>1, <3>2, <3>3 DEF Fits
    <3>5. host.entry = "baseline" /\ r = t BY <1>0, <3>4 DEF Trial
    <3>6. t.stage \in Armed /\ t.stage \notin Terminal /\ t.stage \notin BeforeOneShot
          /\ t.stage \notin AfterFailure
      BY <3>4 DEF OneShotStages, Armed, Terminal, BeforeOneShot, AfterFailure, BaselineStages
    <3>7. contract # "v2" => \A x \in Owned : host.owned[x] = "exact"
      BY <3>4, <3>6 DEF Sane
    <3>8. Trial(contract, h) BY <1>2, <2>1, <3>4, <3>7 DEF Trial
    <3>9. Past(t) /\ Marked(t) BY <3>6 DEF Sane, Marked, Past
    <3>10. Sane(contract, h, t) BY <2>1, <3>6, <3>7, <3>9 DEF Sane
    <3> QED BY <3>5, <3>8, <3>10
  <2> QED BY <2>2, <2>3
<1>6. CASE op.act = "zswap"
  <2>1. h.owned = host.owned /\ (h.swapOn => host.swapOn) /\ h.oneShot = host.oneShot
    BY <1>6 DEF Changes
  <2>2. Trial(contract, h) BY <1>2, <2>1 DEF Trial
  <2>3. Sane(contract, h, r) BY <1>2, <2>1 DEF Sane, Risky, Gone
  <2> QED BY <2>2, <2>3
<1>7. CASE op.act = "swap"
  <2>1. h.owned = host.owned /\ h.oneShot = host.oneShot BY <1>7 DEF Changes
  <2>2. h.swapOn => host.swapOn \/ host.entry = "experimental"
    BY <1>7 DEF Changes, Does
  <2>3. Trial(contract, h) BY <1>2, <2>1, <2>2 DEF Trial
  <2>4. host.entry = "baseline" => (h.swapOn => host.swapOn) BY <2>2
  <2>5. Sane(contract, h, r) BY <1>2, <2>1, <2>4 DEF Sane, Risky, Gone
  <2> QED BY <2>3, <2>5
<1> QED BY <1>1, <1>3, <1>4, <1>5, <1>6, <1>7

-----------------------------------------------------------------------------
(* Where a command stands after a step. *)

\* The step s of a command with the record t: it leaves the machine h and the
\* record u, and passes over n steps.
Outcome(s, t, h, u, n) ==
    \/ s.k = "save" /\ h = host /\ Allowed(t, s) /\ u = Written(contract, t, s) /\ n = 0
    \/ s.k = "put" /\ h = host /\ u = t /\ n = 0
    \/ s.k = "check" /\ h = host /\ u = t /\ n = 0 /\ Holds(t, s.ev)
    \/ /\ s.k = "check" /\ h = host /\ u = t /\ s.fail = "skip" /\ n = s.n
       /\ ~Holds(t, s.ev) \/ s.ev \in Fallible
    \/ s.k = "do" /\ u = t /\ n = 0 /\ Changes(s.op, h) /\ Succeeds(s.op, h)
    \/ s.k = "do" /\ u = t /\ s.fail = "skip" /\ n = s.n /\ Changes(s.op, h)

\* The stage a save writes.
LEMMA SavedStage ==
    ASSUME contract \in Contracts, NEW t \in Transactions, NEW s, NEW h, NEW u, NEW n,
           Outcome(s, t, h, u, n)
    PROVE  /\ s.k # "save" => u = t
           /\ s.k = "save" => h = host /\ n = 0 /\ u.stage = IF s.to = Still THEN t.stage ELSE s.to
           /\ s.k = "save" /\ s.to # Still => Steady(t.stage, s.to)
<1>1. s.k # "save" => u = t BY DEF Outcome
<1>2. s.k = "save" => h = host /\ n = 0 /\ u = Written(contract, t, s) /\ Allowed(t, s) BY DEF Outcome
<1>3. Written(contract, t, s).stage = IF s.to = Still THEN t.stage ELSE s.to BY RecordParts
<1>4. ASSUME s.k = "save", s.to # Still PROVE Steady(t.stage, s.to)
  <2>1. <<t.stage, s.to>> \in Legal[contract] BY <1>2, <1>4 DEF Allowed, LegalTransition, Still
  <2> QED BY <2>1, LegalSteady
<1> QED BY <1>1, <1>2, <1>3, <1>4

\* A command other than one_shot never makes the machine risky.
LEMMA StaysSafe ==
    ASSUME NEW s, NEW t, NEW h, NEW u, NEW n, Outcome(s, t, h, u, n), NEW cmd, Speaks(cmd, s),
           cmd # "one_shot"
    PROVE  /\ h.entry = host.entry /\ h.tried = host.tried
           /\ h.oneShot = "experimental" => host.oneShot = "experimental"
           /\ ~Risky(host) => ~Risky(h)
<1>1. CASE h = host BY <1>1
<1>2. CASE h # host
  <2>1. s.k = "do" /\ Changes(s.op, h) BY <1>2 DEF Outcome
  <2>2. Does(cmd, s.op) BY <2>1 DEF Speaks
  <2>3. h.entry = host.entry /\ h.tried = host.tried BY <2>1 DEF Changes
  <2>4. h.oneShot = "experimental" => host.oneShot = "experimental"
    BY <2>1, <2>2 DEF Changes, Does
  <2> QED BY <2>3, <2>4 DEF Risky
<1> QED BY <1>1, <1>2

\* measure, apply and the rollbacks of apply.
LEMMA BuildMoves ==
    ASSUME contract \in Contracts, NEW t \in Transactions, NEW s, NEW h, NEW u, NEW n \in Nat,
           Outcome(s, t, h, u, n), NEW cmd \in {"measure", "apply"} \cup Undos, Speaks(cmd, s),
           NEW pc \in Nat, pc > 0, Shape(contract, cmd, pc, s), Fits(contract, host, cmd, pc, t),
           cmd = "apply" => pc + 1 + n <= (IF contract = "v2" THEN 19 ELSE 16)
    PROVE  Fits(contract, h, cmd, pc + 1 + n, u)
<1>0. cmd \notin {"one_shot", "remove", "clear", "cleanup"} BY DEF Undos
<1>1. ~Risky(host) /\ t.stage \in BeforeOneShot \ {"Applied"} BY DEF Fits
<1>2. ~Risky(h) BY <1>0, <1>1, StaysSafe
<1>3. u.stage \in BeforeOneShot \ {"Applied"}
  <2>1. CASE s.k # "save" BY <1>1, <2>1, SavedStage
  <2>2. CASE s.k = "save"
    <3>0. n = 0 /\ u.stage = IF s.to = Still THEN t.stage ELSE s.to BY <2>2, SavedStage
    <3>1. CASE s.to = Still BY <1>1, <3>0, <3>1
    <3>2. CASE s.to # Still
      <4>1. Leads(cmd, s.to) /\ u.stage = s.to BY <2>2, <3>0, <3>2 DEF Speaks
      <4>2. CASE cmd = "measure" BY <3>2, <4>1, <4>2 DEF Leads, Still
      <4>3. CASE cmd = "apply"
        <5>1. s.to # "Applied"
          <6>1. ApplyShape(contract, pc, s) BY <4>3 DEF Shape
          <6>2. pc # IF contract = "v2" THEN 19 ELSE 16 BY <3>0, <4>3
          <6> QED BY <2>2, <6>1, <6>2 DEF ApplyShape
        <5> QED BY <3>2, <4>1, <4>3, <5>1 DEF Leads, Still
      <4>4. CASE cmd \in Undos BY <2>2, <4>4 DEF Speaks
      <4> QED BY <4>2, <4>3, <4>4
    <3> QED BY <3>1, <3>2
  <2> QED BY <2>1, <2>2
<1>4. ASSUME cmd = "apply", contract # "v2"
      PROVE  /\ pc + 1 + n > 3 => h.owned["swapfile"] = "exact"
             /\ pc + 1 + n > 8 => h.owned["entry"] = "exact"
             /\ pc + 1 + n > 11 => h.owned["unit"] = "exact"
  <2>1. ApplyShape(contract, pc, s) BY <1>4 DEF Shape
  <2>2. n = 0 BY <2>1 DEF Outcome, ApplyShape
  <2>3. /\ pc > 3 => host.owned["swapfile"] = "exact"
        /\ pc > 8 => host.owned["entry"] = "exact"
        /\ pc > 11 => host.owned["unit"] = "exact"
    BY <1>4 DEF Fits
  <2>4. CASE s.k # "do"
    <3>1. h = host /\ pc # 3 /\ pc # 8 /\ pc # 11 BY <1>4, <2>1, <2>4 DEF Outcome, ApplyShape
    <3> QED BY <2>2, <2>3, <3>1
  <2>5. CASE s.k = "do"
    <3>1. Changes(s.op, h) /\ Succeeds(s.op, h) /\ Does(cmd, s.op)
      BY <2>1, <2>5 DEF Outcome, ApplyShape, Speaks
    <3>2. s.op.act # "remove" BY <1>4, <3>1 DEF Does, Undos
    <3>3. ASSUME NEW x \in Owned, host.owned[x] = "exact" PROVE h.owned[x] = "exact"
      BY <3>1, <3>2, <3>3 DEF Changes, Succeeds
    <3>4. ASSUME NEW x, s.op = Op("create", x) PROVE h.owned[x] = "exact"
      BY <3>1, <3>4, OpParts DEF Succeeds
    <3>5. "swapfile" \in Owned /\ "entry" \in Owned /\ "unit" \in Owned BY DEF Owned
    <3>6. CASE pc = 3
      <4>1. h.owned["swapfile"] = "exact" BY <1>4, <2>1, <3>4, <3>6 DEF ApplyShape
      <4> QED BY <2>2, <3>6, <4>1
    <3>7. CASE pc = 8
      <4>1. h.owned["entry"] = "exact" BY <1>4, <2>1, <3>4, <3>7 DEF ApplyShape
      <4> QED BY <2>2, <2>3, <3>3, <3>5, <3>7, <4>1
    <3>8. CASE pc = 11
      <4>1. h.owned["unit"] = "exact" BY <1>4, <2>1, <3>4, <3>8 DEF ApplyShape
      <4> QED BY <2>2, <2>3, <3>3, <3>5, <3>8, <4>1
    <3>9. CASE pc # 3 /\ pc # 8 /\ pc # 11
      BY <2>2, <2>3, <3>3, <3>5, <3>9
    <3> QED BY <3>6, <3>7, <3>8, <3>9
  <2> QED BY <2>4, <2>5
<1> QED BY <1>0, <1>2, <1>3, <1>4 DEF Fits

\* The removals of recover.
LEMMA RemovedMoves ==
    ASSUME NEW t, NEW s, NEW h, NEW u, NEW n \in Nat, Outcome(s, t, h, u, n),
           NEW k \in Nat, k > 0, RemoveShape(k, s), Removed(host, k)
    PROVE  Removed(h, k + 1 + n)
<1>0. {"helper", "unit", "entry", "swapfile"} \subseteq Owned BY DEF Owned
<1>1. CASE s.k = "do"
  <2>1. n = 0 /\ Changes(s.op, h) /\ Succeeds(s.op, h) BY <1>1 DEF Outcome, RemoveShape
  <2>2. PICK x \in Owned : s.op = Op("remove", x) /\ k = CASE x = "helper" -> 3 [] x = "unit" -> 7
                                              [] x = "entry" -> 11 [] x = "swapfile" -> 14
    BY <1>0, <1>1 DEF RemoveShape
  <2>3. s.op.act = "remove" /\ s.op.on = x BY <2>2, OpParts
  <2>4. h.owned[x] = "absent" /\ \A y \in Owned : y # x => h.owned[y] = host.owned[y]
    BY <2>1, <2>3 DEF Changes, Succeeds
  <2>5. k \in {3, 7, 11, 14} BY <1>1 DEF RemoveShape
  <2>6. CASE k = 3
    <3>1. x = "helper" BY <1>1, <2>3, <2>6, OpParts DEF RemoveShape
    <3> QED BY <2>1, <2>4, <2>6, <3>1 DEF Removed
  <2>7. CASE k = 7
    <3>1. x = "unit" BY <1>1, <2>3, <2>7, OpParts DEF RemoveShape
    <3> QED BY <1>0, <2>1, <2>4, <2>7, <3>1 DEF Removed
  <2>8. CASE k = 11
    <3>1. x = "entry" BY <1>1, <2>3, <2>8, OpParts DEF RemoveShape
    <3> QED BY <1>0, <2>1, <2>4, <2>8, <3>1 DEF Removed
  <2>9. CASE k = 14
    <3>1. x = "swapfile" BY <1>1, <2>3, <2>9, OpParts DEF RemoveShape
    <3> QED BY <1>0, <2>1, <2>4, <2>9, <3>1 DEF Removed
  <2> QED BY <2>5, <2>6, <2>7, <2>8, <2>9
<1>2. CASE s.k = "check" /\ n = 0 /\ h = host /\ Holds(t, s.ev)
  <2>1. CASE k = 15
    <3>1. s.ev = "finalize" BY <1>2, <2>1 DEF RemoveShape
    <3>2. host.owned["unit"] = "absent" /\ host.owned["helper"] = "absent"
      BY <1>2, <3>1 DEF Holds
    <3> QED BY <1>2, <2>1, <3>2 DEF Removed
  <2>2. CASE k \in {1, 5, 9} BY <1>2, <2>2 DEF Removed
  <2> QED BY <1>2, <2>1, <2>2 DEF RemoveShape
<1>3. CASE /\ s.k = "check" /\ s.fail = "skip" /\ n = s.n /\ h = host
           /\ ~Holds(t, s.ev) \/ s.ev \in Fallible
  <2>1. CASE k = 1
    <3>1. s.ev = "helper" /\ n = 3 BY <1>3, <2>1 DEF RemoveShape
    <3>2. host.owned["helper"] # "exact" BY <1>3, <3>1 DEF Holds, Fallible
    <3> QED BY <1>3, <2>1, <3>1, <3>2 DEF Removed
  <2>2. CASE k = 5
    <3>1. n = 3 BY <1>3, <2>2 DEF RemoveShape
    <3> QED BY <1>3, <2>2, <3>1 DEF Removed
  <2>3. CASE k = 9
    <3>1. s.ev = "entry" /\ n = 3 BY <1>3, <2>3 DEF RemoveShape
    <3>2. host.owned["entry"] # "exact" BY <1>3, <3>1 DEF Holds, Fallible
    <3> QED BY <1>3, <2>3, <3>1, <3>2 DEF Removed
  <2> QED BY <1>3, <2>1, <2>2, <2>3 DEF RemoveShape
<1>4. CASE s.k \notin {"do", "check"}
  <2>1. h = host /\ n = 0 /\ k \notin {3, 11, 14, 15} BY <1>4 DEF Outcome, RemoveShape
  <2> QED BY <2>1 DEF Removed
<1> QED BY <1>1, <1>2, <1>3, <1>4 DEF Outcome

\* recover while nothing was selected.
LEMMA RemoveMoves ==
    ASSUME NEW t, NEW s, NEW h, NEW u, NEW n \in Nat, Outcome(s, t, h, u, n),
           Speaks("remove", s), NEW pc \in Nat, pc > 0, Shape(contract, "remove", pc, s),
           Fits(contract, host, "remove", pc, t)
    PROVE  Fits(contract, h, "remove", pc + 1 + n, u)
<1>1. ~Risky(host) /\ Removed(host, pc) /\ RemoveShape(pc, s) BY DEF Fits, Shape
<1>2. ~Risky(h) BY <1>1, StaysSafe
<1>3. Removed(h, pc + 1 + n) BY <1>1, RemovedMoves
<1> QED BY <1>2, <1>3 DEF Fits, Undos

\* recover while the one-shot may be selected: that it still is shows that the
\* experimental entry was not booted.
LEMMA ClearMoves ==
    ASSUME NEW t, NEW s, NEW h, NEW u, NEW n \in Nat, Outcome(s, t, h, u, n),
           Speaks("clear", s), NEW pc \in Nat, pc > 0, Shape(contract, "clear", pc, s),
           Fits(contract, host, "clear", pc, t), Trial(contract, host)
    PROVE  Fits(contract, h, "clear", pc + 1 + n, u)
<1> DEFINE q == pc + 1 + n
<1>0. ClearShape(pc, s) BY DEF Shape
<1>1. /\ host.entry = "baseline" /\ (pc > 1 => ~host.tried)
      /\ pc > 3 => host.oneShot # "experimental" /\ Removed(host, pc - 4)
  BY DEF Fits
<1>2. /\ h.entry = host.entry /\ h.tried = host.tried
      /\ h.oneShot = "experimental" => host.oneShot = "experimental"
  BY StaysSafe
<1>3. ~h.tried
  <2>1. CASE pc = 1
    <3>1. Holds(t, s.ev) /\ s.ev = "oneshot" BY <1>0, <2>1 DEF ClearShape, Outcome
    <3>2. host.oneShot = "experimental" BY <3>1 DEF Holds
    <3> QED BY <1>2, <3>2 DEF Trial
  <2> QED BY <1>1, <1>2, <2>1
<1>4. q > 3 => h.oneShot # "experimental" /\ Removed(h, q - 4)
  <2>1. CASE pc = 1 \/ pc = 2 \/ pc = 4
    <3>1. n = 0 /\ q - 4 <= 1 BY <1>0, <2>1 DEF ClearShape, Outcome
    <3>2. Removed(h, q - 4) BY <3>1 DEF Removed
    <3> QED BY <1>1, <1>2, <2>1, <3>1, <3>2
  <2>2. CASE pc = 3
    <3>1. s.k = "do" /\ s.op = Op("oneshot", "none") /\ s.fail = "abort" BY <1>0, <2>2 DEF ClearShape
    <3>2. n = 0 /\ Succeeds(s.op, h) BY <3>1 DEF Outcome
    <3>3. h.oneShot = "none" BY <3>1, <3>2, OpParts DEF Succeeds
    <3>4. q - 4 = 0 BY <2>2, <3>2
    <3> QED BY <3>3, <3>4 DEF Removed
  <2>3. CASE pc > 4
    <3>1. RemoveShape(pc - 4, s) /\ Removed(host, pc - 4) /\ pc - 4 \in Nat /\ pc - 4 > 0
      BY <1>0, <1>1, <2>3 DEF ClearShape
    <3>2. Removed(h, (pc - 4) + 1 + n) BY <3>1, RemovedMoves
    <3>3. (pc - 4) + 1 + n = q - 4 OBVIOUS
    <3> QED BY <1>1, <1>2, <2>3, <3>2, <3>3
  <2> QED BY <2>1, <2>2, <2>3
<1> HIDE DEF q
<1>5. Fits(contract, h, "clear", q, u) BY <1>1, <1>2, <1>3, <1>4 DEF Fits, Undos
<1> QED BY <1>5 DEF q

\* What the cleanup proves before it begins.
LEMMA ProvenMeans ==
    ASSUME contract \in Contracts, NEW t, BaselineProven(contract, CollectBaseline(host), t)
    PROVE  host.entry = "baseline" /\ host.oneShot # "experimental"
<1>1. contract \in {"v2", "v3", "v5", "v6"} BY LifecycleAssumption
<1>2. BaselineProvenV2(CollectBaseline(host), t)
  BY <1>1 DEF BaselineProven, BaselineProvenV3, BaselineProvenV5, BaselineProvenV6
<1> QED BY <1>2 DEF BaselineProvenV2, CollectBaseline

\* The cleanup.
LEMMA CleanupMoves ==
    ASSUME contract \in Contracts, NEW t \in Transactions, NEW s, NEW h, NEW u, NEW n \in Nat,
           Outcome(s, t, h, u, n), Speaks("cleanup", s), NEW pc \in Nat, pc > 0,
           Shape(contract, "cleanup", pc, s), Fits(contract, host, "cleanup", pc, t)
    PROVE  Fits(contract, h, "cleanup", pc + 1 + n, u)
<1> DEFINE q == pc + 1 + n
<1>0. CleanupShape(contract, pc, s) BY DEF Shape
<1>a. Judged(contract) \in {15, 18} BY DEF Judged
<1>1. /\ pc > 3 => host.entry = "baseline" /\ host.oneShot # "experimental"
      /\ pc > 6 => t.stage \in {"Cleaning", "Restored"}
      /\ pc > Judged(contract) => \A x \in Owned : host.owned[x] = "absent"
  BY DEF Fits
<1>2. /\ h.entry = host.entry /\ h.tried = host.tried
      /\ h.oneShot = "experimental" => host.oneShot = "experimental"
  BY StaysSafe
<1>3. n = 0 \/ (pc = 1 /\ n = 1) BY <1>0 DEF Outcome, CleanupShape
<1>4. q > 3 => h.entry = "baseline" /\ h.oneShot # "experimental"
  <2>1. CASE pc = 3
    <3>1. Holds(t, s.ev) /\ s.ev = "baseline" BY <1>0, <2>1 DEF CleanupShape, Outcome
    <3>2. BaselineProven(contract, CollectBaseline(host), t) BY <3>1 DEF Holds
    <3> QED BY <1>2, <3>2, ProvenMeans
  <2>2. CASE pc > 3 BY <1>1, <1>2, <2>2
  <2>3. CASE pc < 3 BY <1>3, <2>3
  <2> QED BY <2>1, <2>2, <2>3
<1>5. q > 6 => u.stage \in {"Cleaning", "Restored"}
  <2>1. CASE pc < 6 BY <1>3, <2>1
  <2>2. CASE pc = 6
    <3>1. s.k = "save" /\ s.to = "Cleaning" BY <1>0, <2>2 DEF CleanupShape
    <3>2. s.to # Still BY <3>1 DEF Still
    <3>3. u.stage = "Cleaning" BY <3>1, <3>2, SavedStage
    <3> QED BY <3>3
  <2>3. CASE pc > 6
    <3>1. CASE s.k # "save" BY <1>1, <2>3, <3>1, SavedStage
    <3>2. CASE s.k = "save"
      <4>1. s.to = Still \/ s.to = "Restored" BY <1>0, <2>3, <3>2 DEF CleanupShape
      <4>2. u.stage = IF s.to = Still THEN t.stage ELSE s.to BY <3>2, SavedStage
      <4> QED BY <1>1, <2>3, <4>1, <4>2
    <3> QED BY <3>1, <3>2
  <2> QED BY <2>1, <2>2, <2>3
<1>6. q > Judged(contract) => \A x \in Owned : h.owned[x] = "absent"
  <2>1. CASE pc < Judged(contract) BY <1>a, <1>3, <2>1
  <2>2. CASE pc = Judged(contract)
    <3>1. s.k = "check" /\ s.ev = "cleaned" /\ s.fail = "fail" BY <1>0, <2>2 DEF CleanupShape
    <3>2. h = host /\ Holds(t, "cleaned") BY <3>1 DEF Outcome
    <3> QED BY <3>2 DEF Holds
  <2>3. CASE pc > Judged(contract)
    <3>1. CASE s.k # "do" BY <1>1, <2>3, <3>1 DEF Outcome
    <3>2. CASE s.k = "do"
      <4>1. PICK x \in Owned : s.op = Op("remove", x) BY <1>0, <3>2 DEF CleanupShape
      <4>2. s.op.act = "remove" /\ s.op.on = x BY <4>1, OpParts
      <4>3. Changes(s.op, h) BY <3>2 DEF Outcome
      <4> QED BY <1>1, <2>3, <4>2, <4>3 DEF Changes
    <3> QED BY <3>1, <3>2
  <2> QED BY <1>a, <2>1, <2>2, <2>3
<1> HIDE DEF q
<1>7. Fits(contract, h, "cleanup", q, u) BY <1>4, <1>5, <1>6 DEF Fits, Undos
<1> QED BY <1>7 DEF q

\* The selection of the one-shot, out of an applied transaction.
LEMMA OneShotMoves ==
    ASSUME contract \in Contracts, NEW t \in Transactions, NEW s, NEW h, NEW u, NEW n \in Nat,
           Outcome(s, t, h, u, n), Speaks("one_shot", s), NEW pc \in Nat, pc > 0,
           Shape(contract, "one_shot", pc, s), Fits(contract, host, "one_shot", pc, t),
           Sane(contract, host, t)
    PROVE  Fits(contract, h, "one_shot", pc + 1 + n, u)
<1> DEFINE q == pc + 1 + n
<1>0. OneShotShape(contract, pc, s) BY DEF Shape
<1>a. Chosen(contract) = IF contract = "v2" THEN 1 ELSE 2 BY DEF Chosen
<1>1. /\ pc > 1 /\ contract # "v2" => host.owned["helper"] = "exact"
      /\ pc > Chosen(contract) => ~host.tried /\ t.stage \in OneShotStages
  BY DEF Fits
<1>2. n = 0 BY <1>0 DEF Outcome, OneShotShape
<1>3. h.tried = host.tried /\ h.owned = host.owned
  <2>1. CASE s.k # "do" BY <2>1 DEF Outcome
  <2>2. CASE s.k = "do"
    <3>1. s.op.act = "oneshot" /\ Changes(s.op, h) BY <1>0, <2>2, OpParts DEF OneShotShape, Outcome
    <3> QED BY <3>1 DEF Changes
  <2> QED BY <2>1, <2>2
<1>4. contract # "v2" => h.owned["helper"] = "exact"
  <2>1. SUFFICES ASSUME contract # "v2" PROVE h.owned["helper"] = "exact" OBVIOUS
  <2>2. CASE pc = 1
    <3>1. s.k = "check" /\ s.ev = "helper" /\ s.fail = "abort" BY <1>0, <2>1, <2>2 DEF OneShotShape
    <3>2. Holds(t, "helper") BY <3>1 DEF Outcome
    <3> QED BY <1>3, <3>2 DEF Holds
  <2>3. CASE pc # 1 BY <1>1, <1>3, <2>1, <2>3
  <2> QED BY <2>2, <2>3
<1>5. q > Chosen(contract) => ~h.tried /\ u.stage \in OneShotStages
  <2>1. CASE pc < Chosen(contract) BY <1>a, <1>2, <2>1
  <2>2. CASE pc = Chosen(contract)
    <3>1. s.k = "save" /\ s.to = "OneShotSelecting" BY <1>0, <2>2 DEF OneShotShape
    <3>2. s.to # Still BY <3>1 DEF Still
    <3>3. u.stage = "OneShotSelecting" /\ Steady(t.stage, "OneShotSelecting")
      BY <3>1, <3>2, SavedStage
    <3>4. t.stage = "Applied" BY <3>3 DEF Steady
    <3>5. ~Past(t) BY <3>4 DEF Past, BeforeOneShot
    <3>6. ~host.tried BY <3>5 DEF Sane, Risky
    <3> QED BY <1>3, <3>3, <3>6 DEF OneShotStages
  <2>3. CASE pc > Chosen(contract)
    <3>1. CASE s.k # "save" BY <1>1, <1>3, <2>3, <3>1, SavedStage
    <3>2. CASE s.k = "save"
      <4>1. s.to = Still \/ s.to = "OneShotSelected" BY <1>0, <2>3, <3>2 DEF OneShotShape
      <4>2. u.stage = IF s.to = Still THEN t.stage ELSE s.to BY <3>2, SavedStage
      <4> QED BY <1>1, <1>3, <2>3, <4>1, <4>2 DEF OneShotStages
    <3> QED BY <3>1, <3>2
  <2> QED BY <1>a, <2>1, <2>2, <2>3
<1> HIDE DEF q
<1>6. Fits(contract, h, "one_shot", q, u) BY <1>4, <1>5 DEF Fits, Undos
<1> QED BY <1>6 DEF q

\* A command is where it should be after each of its steps.
LEMMA CommandMoves ==
    ASSUME contract \in Contracts, NEW t \in Transactions, NEW s, NEW h, NEW u, NEW n \in Nat,
           Outcome(s, t, h, u, n), NEW cmd, Speaks(cmd, s), NEW pc \in Nat, pc > 0,
           Shape(contract, cmd, pc, s), Fits(contract, host, cmd, pc, t),
           Trial(contract, host), Sane(contract, host, t),
           cmd = "apply" => pc + 1 + n <= (IF contract = "v2" THEN 19 ELSE 16)
    PROVE  Fits(contract, h, cmd, pc + 1 + n, u)
<1>1. CASE cmd \in {"measure", "apply"} \cup Undos BY <1>1, BuildMoves
<1>2. CASE cmd = "remove" BY <1>2, RemoveMoves
<1>3. CASE cmd = "clear" BY <1>3, ClearMoves
<1>4. CASE cmd = "cleanup" BY <1>4, CleanupMoves
<1>5. CASE cmd = "one_shot" BY <1>5, OneShotMoves
<1>6. CASE cmd \notin {"measure", "apply", "remove", "clear", "cleanup", "one_shot"} \cup Undos
  BY <1>6 DEF Fits
<1> QED BY <1>1, <1>2, <1>3, <1>4, <1>5, <1>6

\* So is one to which a failing step leads: a rollback of apply, or a command
\* of which nothing is said.
LEMMA FailMoves ==
    ASSUME NEW c, NEW t, NEW s, NEW h, NEW cmd, Speaks(cmd, s),
           NEW pc, Fits(c, host, cmd, pc, t), h = host \/ (s.k = "do" /\ Changes(s.op, h)),
           s.fail \in Landings \ {"abort", "skip"}
    PROVE  Fits(c, h, s.fail, 1, t)
<1>1. CASE s.fail \in Undos
  <2>1. cmd = "apply" BY <1>1 DEF Speaks, Fails
  <2>2. ~Risky(host) /\ t.stage \in BeforeOneShot \ {"Applied"} BY <2>1 DEF Fits
  <2>3. ~Risky(h)
    <3>1. CASE h = host BY <2>2, <3>1
    <3>2. CASE s.k = "do" /\ Changes(s.op, h)
      <4>1. Does(cmd, s.op) BY <3>2 DEF Speaks
      <4> QED BY <2>1, <2>2, <3>2, <4>1 DEF Does, Changes, Risky
    <3> QED BY <3>1, <3>2
  <2> QED BY <1>1, <2>2, <2>3 DEF Fits, Undos
<1>2. CASE s.fail \notin Undos BY <1>2 DEF Fits, Landings, Undos
<1> QED BY <1>1, <1>2

\* What the unit does in the experimental boot moves no command of the
\* operator from its place.
LEMMA OtherMoves ==
    ASSUME NEW c, NEW cmd, NEW pc, NEW t, Fits(c, host, cmd, pc, t), NEW h,
           h.owned = host.owned, h.entry = host.entry, h.tried = host.tried,
           h.oneShot = "experimental" => host.oneShot = "experimental"
    PROVE  Fits(c, h, cmd, pc, t)
<1>1. ~Risky(host) => ~Risky(h) BY DEF Risky
<1>2. \A k : Removed(host, k) => Removed(h, k) BY DEF Removed
<1> QED BY <1>1, <1>2 DEF Fits

-----------------------------------------------------------------------------
(* The invariant for the machine and its records. *)

\* Every record, on disk, in the candidate or in the hands of a process, is
\* sane.
Kept ==
    /\ disk # NoTx => Sane(contract, host, disk)
    /\ Whole(cand) => Sane(contract, host, cand)
    /\ \A p \in Procs : Busy(p) => Sane(contract, host, proc[p].tx)

\* The unit runs its own commands, in the experimental boot only.
UnitCommands == {"activate", "activation", "fail"}
Manned ==
    /\ Busy("unit") => host.entry = "experimental" /\ proc["unit"].cmd \in UnitCommands
    /\ Busy("operator") => proc["operator"].cmd \notin {"activate", "activation"}

\* In a baseline boot nobody but the operator writes the transaction.
Alone ==
    Busy("operator") /\ host.entry = "baseline" =>
        cand = NoTx /\ disk \in {NoTx, proc["operator"].tx}

\* A command of the operator is where its steps say.
Doing ==
    Busy("operator") =>
        Fits(contract, host, proc["operator"].cmd, proc["operator"].pc, proc["operator"].tx)

\* Before the one-shot there is a transaction.
Risked ==
    /\ Risky(host) => disk # NoTx
    /\ Busy("operator") /\ proc["operator"].cmd = "one_shot" => disk # NoTx

Safe == Trial(contract, host) /\ Kept /\ Manned /\ Alone /\ Doing /\ Risked

\* Of the unit's commands nothing is said.
LEMMA UnitFits ==
    ASSUME NEW c, NEW h, NEW cmd \in UnitCommands, NEW pc, NEW t PROVE Fits(c, h, cmd, pc, t)
BY DEF UnitCommands, Fits, Undos

\* What is known of a process at work.
LEMMA AtPlace ==
    ASSUME Inv, Safe, NEW p \in Procs, Busy(p)
    PROVE  /\ contract \in Contracts /\ host \in Hosts
           /\ proc[p].cmd \in Commands(contract) /\ proc[p].tx \in Transactions
           /\ proc[p].pc \in Nat /\ proc[p].pc > 0
           /\ Legit(Step(p), Made(proc[p].cmd))
           /\ Shape(contract, proc[p].cmd, proc[p].pc, Step(p)) /\ Speaks(proc[p].cmd, Step(p))
           /\ proc[p].cmd = "apply" =>
                 Len(Program(contract, proc[p].cmd)) = IF contract = "v2" THEN 19 ELSE 16
           /\ Fits(contract, host, proc[p].cmd, proc[p].pc, proc[p].tx)
           /\ Sane(contract, host, proc[p].tx)
           /\ p = "unit" => host.entry = "experimental" /\ proc[p].cmd \in UnitCommands
           /\ p = "operator" => proc[p].cmd \notin {"activate", "activation"}
           /\ host.entry \in {"baseline", "experimental"}
<1>0. TypeOK /\ contract \in Contracts /\ host \in Hosts BY DEF Inv, TypeOK
<1>1. /\ proc[p].cmd \in Commands(contract) /\ proc[p].tx \in Transactions
      /\ proc[p].pc \in 1..Len(Program(contract, proc[p].cmd))
      /\ Len(Program(contract, proc[p].cmd)) \in Nat
      /\ Legit(Step(p), Made(proc[p].cmd))
  BY <1>0, AtWork
<1>2. proc[p].pc \in Nat /\ proc[p].pc > 0 BY <1>1
<1>3. /\ Shape(contract, proc[p].cmd, proc[p].pc, Step(p)) /\ Speaks(proc[p].cmd, Step(p))
      /\ proc[p].cmd = "apply" =>
            Len(Program(contract, proc[p].cmd)) = IF contract = "v2" THEN 19 ELSE 16
  BY <1>0, <1>1, StepShape DEF Step
<1>4. /\ p = "unit" => host.entry = "experimental" /\ proc[p].cmd \in UnitCommands
      /\ p = "operator" => proc[p].cmd \notin {"activate", "activation"}
  BY DEF Safe, Manned
<1>5. Fits(contract, host, proc[p].cmd, proc[p].pc, proc[p].tx)
  <2>1. CASE p = "unit" BY <1>4, <2>1, UnitFits
  <2>2. CASE p = "operator" BY <2>2 DEF Safe, Doing
  <2> QED BY <2>1, <2>2 DEF Procs
<1>6. Sane(contract, host, proc[p].tx) BY DEF Safe, Kept
<1>7. host.entry \in {"baseline", "experimental"} BY <1>0 DEF Hosts
<1> QED BY <1>0, <1>1, <1>2, <1>3, <1>4, <1>5, <1>6, <1>7

\* Where a step that leaves the record u takes the process p.
Settles(p, u) ==
    \/ proc'[p].cmd = ""
    \/ /\ proc'[p].cmd = proc[p].cmd /\ proc'[p].tx = u
       /\ \E n \in Nat : /\ proc'[p].pc = proc[p].pc + 1 + n
                         /\ proc'[p].pc <= Len(Program(contract, proc[p].cmd))
                         /\ Outcome(Step(p), proc[p].tx, host', u, n)
    \/ /\ proc'[p].cmd = Step(p).fail /\ proc'[p].pc = 1 /\ proc'[p].tx = proc[p].tx
       /\ u = proc[p].tx /\ Step(p).fail \in Landings \ {"abort", "skip"}

\* The machine after a step of p.
Touched(p) == host' = host \/ (Step(p).k = "do" /\ Changes(Step(p).op, host'))

\* A step that succeeds, or that is passed over.
LEMMA AdvanceSettles ==
    ASSUME TypeOK, NEW p \in Procs, Busy(p), NEW u, NEW n \in Nat, Advance(p, u, n),
           Outcome(Step(p), proc[p].tx, host', u, n)
    PROVE  Settles(p, u) /\ \A q \in Procs \ {p} : proc'[q] = proc[q]
<1> DEFINE len == Len(Program(contract, proc[p].cmd))
           i == proc[p].pc + 1 + n
<1>0. /\ proc[p].pc \in 1..len /\ len \in Nat
      /\ proc \in [Procs -> [cmd : Commands(contract) \cup {""}, pc : Nat,
                             tx : Transactions \cup {NoTx}]]
  BY AtWork DEF TypeOK
<1>1. proc' = [proc EXCEPT ![p] = IF i > len THEN Idle
                                  ELSE [cmd |-> proc[p].cmd, pc |-> i, tx |-> u]]
  BY DEF Advance
<1>2. i \in Nat
  <2>1. PICK m \in Nat : proc[p].pc = m BY <1>0
  <2>2. m + 1 + n \in Nat OBVIOUS
  <2> QED BY <2>1, <2>2
<1>3. \A q \in Procs \ {p} : proc'[q] = proc[q] BY <1>0, <1>1
<1>4. CASE i > len
  <2>1. proc'[p] = Idle BY <1>0, <1>1, <1>4
  <2>2. Idle.cmd = "" BY DEF Idle
  <2>3. proc'[p].cmd = "" BY <2>1, <2>2
  <2> QED BY <1>3, <2>3 DEF Settles
<1>5. CASE ~(i > len)
  <2>1. proc'[p] = [cmd |-> proc[p].cmd, pc |-> i, tx |-> u] BY <1>0, <1>1, <1>5
  <2>2. proc'[p].cmd = proc[p].cmd /\ proc'[p].pc = i /\ proc'[p].tx = u BY <2>1
  <2>3. proc'[p].pc <= len
    <3>1. PICK m \in Nat : i = m BY <1>2
    <3>2. PICK l \in Nat : len = l BY <1>0
    <3>3. ~(m > l) => m <= l OBVIOUS
    <3> QED BY <1>5, <2>2, <3>1, <3>2, <3>3
  <2>4. Settles(p, u) BY <2>2, <2>3 DEF Settles
  <2> QED BY <1>3, <2>4
<1> QED BY <1>4, <1>5

\* A process that ends is idle.
LEMMA EndSettles ==
    ASSUME TypeOK, NEW p \in Procs, End(p), NEW u
    PROVE  proc'[p].cmd = "" /\ Settles(p, u) /\ \A q \in Procs \ {p} : proc'[q] = proc[q]
<1>0. proc \in [Procs -> [cmd : Commands(contract) \cup {""}, pc : Nat,
                          tx : Transactions \cup {NoTx}]]
  BY DEF TypeOK
<1>1. proc'[p] = Idle /\ \A q \in Procs \ {p} : proc'[q] = proc[q] BY <1>0 DEF End
<1>2. Idle.cmd = "" BY DEF Idle
<1>3. proc'[p].cmd = "" BY <1>1, <1>2
<1> QED BY <1>1, <1>3 DEF Settles

\* A step that fails.
LEMMA MissSettles ==
    ASSUME TypeOK, NEW p \in Procs, Busy(p), Miss(p),
           \/ /\ Step(p).k = "check" /\ host' = host
              /\ ~Holds(proc[p].tx, Step(p).ev) \/ Step(p).ev \in Fallible
           \/ Step(p).k = "do" /\ Changes(Step(p).op, host')
    PROVE  Settles(p, proc[p].tx) /\ \A q \in Procs \ {p} : proc'[q] = proc[q]
<1>0. /\ Legit(Step(p), Made(proc[p].cmd))
      /\ proc \in [Procs -> [cmd : Commands(contract) \cup {""}, pc : Nat,
                             tx : Transactions \cup {NoTx}]]
  BY AtWork DEF TypeOK
<1>1. CASE Step(p).fail = "abort"
  <2>1. End(p) BY <1>1 DEF Miss
  <2> QED BY <2>1, EndSettles
<1>2. CASE Step(p).fail = "skip"
  <2>1. Advance(p, proc[p].tx, Step(p).n) BY <1>2 DEF Miss
  <2>2. Step(p).n \in Nat BY <1>0 DEF Legit
  <2>3. Outcome(Step(p), proc[p].tx, host', proc[p].tx, Step(p).n) BY <1>2 DEF Outcome
  <2> QED BY <2>1, <2>2, <2>3, AdvanceSettles
<1>3. CASE Step(p).fail \notin {"abort", "skip"}
  <2>1. proc' = [proc EXCEPT ![p] = [cmd |-> Step(p).fail, pc |-> 1, tx |-> proc[p].tx]]
    BY <1>3 DEF Miss
  <2>2. /\ proc'[p] = [cmd |-> Step(p).fail, pc |-> 1, tx |-> proc[p].tx]
        /\ \A q \in Procs \ {p} : proc'[q] = proc[q]
    BY <1>0, <2>1
  <2>3. proc'[p].cmd = Step(p).fail /\ proc'[p].pc = 1 /\ proc'[p].tx = proc[p].tx BY <2>2
  <2>4. Step(p).fail \in Landings \ {"abort", "skip"} BY <1>0, <1>3 DEF Legit
  <2> QED BY <2>2, <2>3, <2>4 DEF Settles
<1> QED BY <1>1, <1>2, <1>3

\* A process that moved is where it should be.
LEMMA SettlesFits ==
    ASSUME Inv, Safe, NEW p \in Procs, Busy(p), NEW u, Settles(p, u), Touched(p), proc'[p].cmd # ""
    PROVE  /\ Fits(contract, host', proc'[p].cmd, proc'[p].pc, proc'[p].tx)
           /\ proc'[p].tx = u
           /\ p = "unit" => proc'[p].cmd \in UnitCommands
           /\ p = "operator" => proc'[p].cmd \notin {"activate", "activation"}
           /\ proc'[p].cmd = "one_shot" => proc[p].cmd = "one_shot"
<1> DEFINE cmd == proc[p].cmd
           s == Step(p)
           t == proc[p].tx
<1>0. /\ contract \in Contracts /\ t \in Transactions /\ proc[p].pc \in Nat /\ proc[p].pc > 0
      /\ Shape(contract, cmd, proc[p].pc, s) /\ Speaks(cmd, s)
      /\ cmd = "apply" => Len(Program(contract, cmd)) = IF contract = "v2" THEN 19 ELSE 16
      /\ Fits(contract, host, cmd, proc[p].pc, t) /\ Sane(contract, host, t)
      /\ Trial(contract, host)
      /\ p = "unit" => cmd \in UnitCommands
      /\ p = "operator" => cmd \notin {"activate", "activation"}
  BY AtPlace DEF Safe
<1>1. CASE /\ proc'[p].cmd = cmd /\ proc'[p].tx = u
           /\ \E n \in Nat : /\ proc'[p].pc = proc[p].pc + 1 + n
                             /\ proc'[p].pc <= Len(Program(contract, cmd))
                             /\ Outcome(s, t, host', u, n)
  <2>1. PICK n \in Nat : /\ proc'[p].pc = proc[p].pc + 1 + n
                         /\ proc'[p].pc <= Len(Program(contract, cmd))
                         /\ Outcome(s, t, host', u, n)
    BY <1>1
  <2>2. cmd = "apply" => proc[p].pc + 1 + n <= (IF contract = "v2" THEN 19 ELSE 16)
    BY <1>0, <2>1
  <2> HIDE DEF cmd, s, t
  <2>3. Fits(contract, host', cmd, proc[p].pc + 1 + n, u) BY <1>0, <2>1, <2>2, CommandMoves
  <2> QED BY <1>0, <1>1, <2>1, <2>3 DEF cmd
<1>2. CASE /\ proc'[p].cmd = s.fail /\ proc'[p].pc = 1 /\ proc'[p].tx = t
           /\ u = t /\ s.fail \in Landings \ {"abort", "skip"}
  <2>1. Fails(cmd, s.fail) BY <1>0 DEF Speaks
  <2>2. host' = host \/ (s.k = "do" /\ Changes(s.op, host')) BY DEF Touched
  <2> HIDE DEF cmd, s, t
  <2>3. Fits(contract, host', s.fail, 1, t) BY <1>0, <1>2, <2>2, FailMoves
  <2>4. /\ p = "unit" => s.fail \in UnitCommands
        /\ p = "operator" => s.fail \notin {"activate", "activation"}
        /\ s.fail # "one_shot"
    BY <1>0, <1>2, <2>1 DEF Fails, Landings, Undos, UnitCommands
  <2> QED BY <1>2, <2>3, <2>4
<1> QED BY <1>1, <1>2 DEF Settles

\* The machine after a step of p still fits the records that are about.
Carries(p) ==
    /\ Touched(p) /\ Trial(contract, host') /\ host'.entry = host.entry
    /\ \A r : Sane(contract, host, r) /\ (host.entry = "baseline" => r = proc[p].tx) =>
          Sane(contract, host', r)

\* An operation, whole, in part or not at all, and no operation.
LEMMA TouchCarries ==
    ASSUME Inv, Safe, NEW p \in Procs, Busy(p), Touched(p) PROVE Carries(p)
<1> DEFINE s == Step(p)
           t == proc[p].tx
           cmd == proc[p].cmd
<1>0. Trial(contract, host) BY DEF Safe
<1>1. CASE host' = host BY <1>0, <1>1 DEF Carries
<1>2. CASE s.k = "do" /\ Changes(s.op, host')
  <2>1. /\ contract \in Contracts /\ host \in Hosts /\ Legit(s, Made(cmd))
        /\ proc[p].pc \in Nat /\ proc[p].pc > 0
        /\ Shape(contract, cmd, proc[p].pc, s) /\ Speaks(cmd, s)
        /\ Fits(contract, host, cmd, proc[p].pc, t) /\ Sane(contract, host, t)
        /\ p = "unit" => host.entry = "experimental" /\ cmd \in UnitCommands
        /\ p = "operator" => cmd \notin {"activate", "activation"}
    BY AtPlace
  <2>2. s.op \in Ops /\ Does(cmd, s.op) BY <1>2, <2>1 DEF Legit, Speaks
  <2>3. cmd = "activate" => host.entry = "experimental" BY <2>1 DEF Procs
  <2>4. host'.entry = host.entry BY <1>2 DEF Changes
  <2> HIDE DEF s, t, cmd
  <2>5. ASSUME NEW r, Sane(contract, host, r), host.entry = "baseline" => r = t
        PROVE  Trial(contract, host') /\ Sane(contract, host', r)
    BY <1>0, <1>2, <2>1, <2>2, <2>3, <2>5, HostSane
  <2>6. Trial(contract, host') BY <2>1, <2>5
  <2> QED BY <2>4, <2>5, <2>6 DEF Carries, t
<1> QED BY <1>1, <1>2 DEF Touched

\* A step of a process keeps the invariant, if the record it leaves behind, on
\* disk or in its own hands, and the candidate are sane.
LEMMA StepSafe ==
    ASSUME Inv, Safe, NEW p \in Procs, Busy(p), contract' = contract, Carries(p),
           NEW u, u # NoTx, Sane(contract, host', u), Settles(p, u),
           \A q \in Procs \ {p} : proc'[q] = proc[q],
           (disk' = disk /\ (u = proc[p].tx \/ proc'[p].cmd = "")) \/ disk' = u,
           cand' = cand \/ (proc'[p].cmd = "" /\ (Whole(cand') => Sane(contract, host', cand')))
    PROVE  Safe'
<1>0. /\ p \in {"operator", "unit"} /\ "operator" \in Procs /\ "unit" \in Procs
      /\ Touched(p) /\ Trial(contract, host') /\ host'.entry = host.entry
  BY DEF Procs, Carries
<1>1. /\ p = "unit" => host.entry = "experimental" /\ proc[p].cmd \in UnitCommands
      /\ host.entry \in {"baseline", "experimental"}
      /\ Speaks(proc[p].cmd, Step(p))
  BY AtPlace
<1>2. ASSUME NEW r, Sane(contract, host, r), host.entry = "baseline" => r = proc[p].tx
      PROVE  Sane(contract, host', r)
  BY <1>2 DEF Carries
<1>3. proc'[p].cmd # "" =>
        /\ Fits(contract, host', proc'[p].cmd, proc'[p].pc, proc'[p].tx) /\ proc'[p].tx = u
        /\ p = "unit" => proc'[p].cmd \in UnitCommands
        /\ p = "operator" => proc'[p].cmd \notin {"activate", "activation"}
        /\ proc'[p].cmd = "one_shot" => proc[p].cmd = "one_shot"
  BY <1>0, SettlesFits
<1>4. host.entry = "baseline" =>
        p = "operator" /\ ~Busy("unit") /\ cand = NoTx /\ disk \in {NoTx, proc[p].tx}
  BY <1>0, <1>1 DEF Safe, Manned, Alone
<1>5. disk' # NoTx => Sane(contract, host', disk')
  <2>1. CASE disk' = u BY <2>1
  <2>2. CASE disk' = disk
    <3>1. disk # NoTx => Sane(contract, host, disk) BY DEF Safe, Kept
    <3> QED BY <1>2, <1>4, <2>2, <3>1
  <2> QED BY <2>1, <2>2
<1>6. Whole(cand') => Sane(contract, host', cand')
  <2>1. CASE cand' = cand
    <3>1. Whole(cand) => Sane(contract, host, cand) /\ cand # NoTx BY DEF Safe, Kept, Whole
    <3> QED BY <1>2, <1>4, <2>1, <3>1
  <2> QED BY <2>1
<1>7. ASSUME NEW q \in Procs, proc'[q].cmd # "" PROVE Sane(contract, host', proc'[q].tx)
  <2>1. CASE q = p BY <1>3, <1>7, <2>1
  <2>2. CASE q # p
    <3>1. proc'[q] = proc[q] /\ Busy(q) BY <1>7, <2>2 DEF Busy
    <3>2. Sane(contract, host, proc[q].tx) BY <3>1 DEF Safe, Kept
    <3>3. host.entry # "baseline" BY <1>4, <2>2, <3>1 DEF Procs
    <3> QED BY <1>2, <3>1, <3>2, <3>3
  <2> QED BY <2>1, <2>2
<1>8. Kept' BY <1>5, <1>6, <1>7 DEF Kept, Busy, Whole
<1>9. Manned'
  <2>1. CASE p = "unit"
    <3>1. proc'["operator"] = proc["operator"] BY <1>0, <2>1
    <3> QED BY <1>0, <1>1, <1>3, <2>1, <3>1 DEF Safe, Manned, Busy
  <2>2. CASE p = "operator"
    <3>1. proc'["unit"] = proc["unit"] BY <1>0, <2>2
    <3> QED BY <1>0, <1>3, <2>2, <3>1 DEF Safe, Manned, Busy
  <2> QED BY <1>0, <2>1, <2>2
<1>10. Alone'
  <2>1. SUFFICES ASSUME proc'["operator"].cmd # "", host.entry = "baseline"
                 PROVE  cand' = NoTx /\ disk' \in {NoTx, proc'["operator"].tx}
    BY <1>0 DEF Alone, Busy
  <2>2. p = "operator" /\ cand = NoTx /\ disk \in {NoTx, proc[p].tx} BY <1>4, <2>1
  <2>3. proc'[p].tx = u /\ cand' = cand /\ ((disk' = disk /\ u = proc[p].tx) \/ disk' = u)
    BY <1>3, <2>1, <2>2
  <2> QED BY <2>2, <2>3
<1>11. Doing'
  <2>1. SUFFICES ASSUME proc'["operator"].cmd # ""
                 PROVE  Fits(contract, host', proc'["operator"].cmd, proc'["operator"].pc,
                             proc'["operator"].tx)
    BY DEF Doing, Busy
  <2>2. CASE p = "operator" BY <1>3, <2>1, <2>2
  <2>3. CASE p = "unit"
    <3>1. proc'["operator"] = proc["operator"] /\ Busy("operator") BY <1>0, <2>1, <2>3 DEF Busy
    <3>2. Fits(contract, host, proc["operator"].cmd, proc["operator"].pc, proc["operator"].tx)
      BY <3>1 DEF Safe, Doing
    <3>3. /\ host'.owned = host.owned /\ host'.entry = host.entry /\ host'.tried = host.tried
          /\ host'.oneShot = "experimental" => host.oneShot = "experimental"
      <4>1. CASE host' = host BY <4>1
      <4>2. CASE Step(p).k = "do" /\ Changes(Step(p).op, host')
        <5>1. Does(proc[p].cmd, Step(p).op) /\ proc[p].cmd \in UnitCommands
          BY <1>1, <2>3, <4>2 DEF Speaks
        <5>2. /\ Step(p).op.act \notin {"create", "remove"}
              /\ ~(Step(p).op.act = "oneshot" /\ Step(p).op.on = "experimental")
          BY <5>1 DEF Does, UnitCommands, Undos
        <5> QED BY <4>2, <5>2 DEF Changes
      <4> QED BY <1>0, <4>1, <4>2 DEF Touched
    <3>4. Fits(contract, host', proc["operator"].cmd, proc["operator"].pc, proc["operator"].tx)
      BY <3>2, <3>3, OtherMoves
    <3> QED BY <3>1, <3>4
  <2> QED BY <1>0, <2>2, <2>3
<1>12. Risked'
  <2>1. disk # NoTx => disk' # NoTx OBVIOUS
  <2>2. ASSUME Risky(host') PROVE disk # NoTx
    <3>1. CASE Risky(host) BY <3>1 DEF Safe, Risked
    <3>2. CASE ~Risky(host)
      <4>1. Step(p).k = "do" /\ Changes(Step(p).op, host') BY <1>0, <2>2, <3>2 DEF Touched
      <4>2. Step(p).op.act = "oneshot" /\ Step(p).op.on = "experimental"
        BY <2>2, <3>2, <4>1 DEF Changes, Risky
      <4>3. proc[p].cmd = "one_shot" BY <1>1, <4>1, <4>2 DEF Speaks, Does
      <4>4. p = "operator" BY <1>0, <1>1, <4>3 DEF UnitCommands
      <4> QED BY <4>3, <4>4 DEF Safe, Risked
    <3> QED BY <3>1, <3>2
  <2>3. ASSUME proc'["operator"].cmd = "one_shot" PROVE disk # NoTx
    <3>1. Busy("operator") /\ proc["operator"].cmd = "one_shot"
      <4>1. CASE p = "operator" BY <1>3, <2>3, <4>1
      <4>2. CASE p = "unit" BY <1>0, <2>3, <4>2 DEF Busy
      <4> QED BY <1>0, <4>1, <4>2
    <3> QED BY <3>1 DEF Safe, Risked
  <2> QED BY <2>1, <2>2, <2>3 DEF Risked, Risky
<1> QED BY <1>0, <1>8, <1>9, <1>10, <1>11, <1>12 DEF Safe

\* What a step may do to the machine.
LEMMA OpTouches ==
    ASSUME Inv, Safe, NEW p \in Procs, Busy(p), Step(p).k = "do"
    PROVE  /\ \A h \in Spoiled(Step(p).op) : Changes(Step(p).op, h)
           /\ Changes(Step(p).op, host)
           /\ Able(Step(p).op) =>
                 Changes(Step(p).op, Effect(Step(p).op)) /\ Succeeds(Step(p).op, Effect(Step(p).op))
<1>1. host \in Hosts /\ Legit(Step(p), Made(proc[p].cmd)) BY AtPlace
<1>2. Step(p).op \in Ops BY <1>1 DEF Legit
<1> QED BY <1>1, <1>2, SpoiledChanges

\* A process that ends without an effect.
LEMMA EndSafe ==
    ASSUME Inv, Safe, NEW p \in Procs, Busy(p), End(p), contract' = contract, Touched(p),
           disk' = disk, cand' = cand
    PROVE  Safe'
<1>0. TypeOK /\ proc[p].tx # NoTx BY DEF Inv, TypeOK
<1>1. Carries(p) BY TouchCarries
<1>2. Sane(contract, host, proc[p].tx) BY AtPlace
<1>3. Sane(contract, host', proc[p].tx) BY <1>1, <1>2 DEF Carries
<1>4. Settles(p, proc[p].tx) /\ \A q \in Procs \ {p} : proc'[q] = proc[q] BY <1>0, EndSettles
<1> QED BY <1>0, <1>1, <1>3, <1>4, StepSafe

\* A step that writes no transaction and goes on.
LEMMA GoOnSafe ==
    ASSUME Inv, Safe, NEW p \in Procs, Busy(p), contract' = contract, Touched(p),
           disk' = disk, cand' = cand, Settles(p, proc[p].tx),
           \A q \in Procs \ {p} : proc'[q] = proc[q]
    PROVE  Safe'
<1>0. proc[p].tx # NoTx BY DEF Inv, TypeOK
<1>1. Carries(p) BY TouchCarries
<1>2. Sane(contract, host, proc[p].tx) BY AtPlace
<1>3. Sane(contract, host', proc[p].tx) BY <1>1, <1>2 DEF Carries
<1> QED BY <1>0, <1>1, <1>3, StepSafe

\* A durable write.
LEMMA SaveSafe ==
    ASSUME Inv, Safe, NEW p \in Procs, Save(p) PROVE Safe'
<1> DEFINE s == Step(p)
           t == proc[p].tx
           w == Written(contract, t, s)
<1>0. TypeOK BY DEF Inv
<1>1. /\ Busy(p) /\ s.k = "save" /\ Allowed(t, s) /\ disk' = w /\ Advance(p, w, 0)
      /\ host' = host /\ contract' = contract /\ cand' = cand
  BY DEF Save
<1>2. /\ contract \in Contracts /\ t \in Transactions /\ Legit(s, Made(proc[p].cmd))
      /\ proc[p].pc \in Nat /\ proc[p].pc > 0
      /\ Shape(contract, proc[p].cmd, proc[p].pc, s) /\ Speaks(proc[p].cmd, s)
      /\ Fits(contract, host, proc[p].cmd, proc[p].pc, t) /\ Sane(contract, host, t)
      /\ host.entry \in {"baseline", "experimental"} /\ Trial(contract, host)
  BY <1>1, AtPlace DEF Safe
<1>3. w \in Transactions /\ w # NoTx BY <1>1, <1>2, WrittenHas, Apart
<1>4. Outcome(s, t, host', w, 0) BY <1>1 DEF Outcome
<1>5. Settles(p, w) /\ \A q \in Procs \ {p} : proc'[q] = proc[q]
  BY <1>0, <1>1, <1>4, AdvanceSettles
<1> HIDE DEF s, t
<1>6. Sane(contract, host, w) BY <1>1, <1>2, SaveSane
<1>7. Touched(p) BY <1>1 DEF Touched
<1>8. Carries(p) BY <1>1, <1>7, TouchCarries
<1> HIDE DEF w
<1> QED BY <1>1, <1>3, <1>5, <1>6, <1>8, StepSafe

\* fail_transaction.
LEMMA FailSafe ==
    ASSUME Inv, Safe, NEW p \in Procs, FailSave(p) PROVE Safe'
<1> DEFINE w == Failing(contract, proc[p].tx)
<1>0. TypeOK BY DEF Inv
<1>1. /\ Busy(p) /\ End(p) /\ (disk' = w \/ disk' = disk)
      /\ host' = host /\ contract' = contract /\ cand' = cand
  BY DEF FailSave
<1>2. contract \in Contracts /\ proc[p].tx \in Transactions /\ Sane(contract, host, proc[p].tx)
  BY <1>1, AtPlace
<1>3. w \in Transactions /\ w # NoTx BY <1>2, FailingHas, Apart
<1>4. Sane(contract, host, w) BY <1>2, FailSane
<1> HIDE DEF w
<1>5. proc'[p].cmd = "" /\ Settles(p, w) /\ \A q \in Procs \ {p} : proc'[q] = proc[q]
  BY <1>0, <1>1, EndSettles
<1>6. Touched(p) BY <1>1 DEF Touched
<1>7. Carries(p) BY <1>1, <1>6, TouchCarries
<1>8. (disk' = disk /\ (w = proc[p].tx \/ proc'[p].cmd = "")) \/ disk' = w BY <1>1, <1>5
<1> QED BY <1>1, <1>3, <1>4, <1>5, <1>7, <1>8, StepSafe

\* An operation on the machine.
LEMMA MutateSafe ==
    ASSUME Inv, Safe, NEW p \in Procs, Mutate(p) PROVE Safe'
<1> DEFINE s == Step(p)
           t == proc[p].tx
<1>0. TypeOK BY DEF Inv
<1>1. Busy(p) /\ s.k = "do" /\ contract' = contract /\ disk' = disk /\ cand' = cand
  BY DEF Mutate
<1>2. /\ \A h \in Spoiled(s.op) : Changes(s.op, h)
      /\ Changes(s.op, host)
      /\ Able(s.op) => Changes(s.op, Effect(s.op)) /\ Succeeds(s.op, Effect(s.op))
  BY <1>1, OpTouches
<1>3. \/ Able(s.op) /\ host' = Effect(s.op) /\ Advance(p, t, 0)
      \/ Miss(p) /\ (host' = host \/ host' \in Spoiled(s.op))
  BY DEF Mutate
<1>4. Changes(s.op, host') BY <1>2, <1>3
<1>5. Touched(p) BY <1>1, <1>4 DEF Touched
<1>6. Settles(p, t) /\ \A q \in Procs \ {p} : proc'[q] = proc[q]
  <2>1. CASE Able(s.op) /\ host' = Effect(s.op) /\ Advance(p, t, 0)
    <3>1. Outcome(s, t, host', t, 0) BY <1>1, <1>2, <2>1 DEF Outcome
    <3> QED BY <1>0, <1>1, <2>1, <3>1, AdvanceSettles
  <2>2. CASE Miss(p) BY <1>0, <1>1, <1>4, <2>2, MissSettles
  <2> QED BY <1>3, <2>1, <2>2
<1> QED BY <1>1, <1>5, <1>6, GoOnSafe

\* A document that is filed, a check, an illegal transition, the seal and the
\* end of a command.
LEMMA QuietSafe ==
    ASSUME Inv, Safe, NEW p \in Procs,
           PutDocument(p) \/ Illegal(p) \/ RunCheck(p) \/ SealArchive(p) \/ Finish(p)
    PROVE  Safe'
<1> DEFINE s == Step(p)
           t == proc[p].tx
<1>0. TypeOK BY DEF Inv
<1>1. /\ Busy(p) /\ contract' = contract /\ disk' = disk /\ cand' = cand /\ host' = host
  BY DEF PutDocument, Illegal, RunCheck, SealArchive, Finish
<1>2. Touched(p) BY <1>1 DEF Touched
<1>3. CASE End(p) BY <1>1, <1>2, <1>3, EndSafe
<1>4. CASE s.k = "put" /\ Advance(p, t, 0)
  <2>1. Outcome(s, t, host', t, 0) BY <1>1, <1>4 DEF Outcome
  <2>2. Settles(p, t) /\ \A q \in Procs \ {p} : proc'[q] = proc[q]
    BY <1>0, <1>1, <1>4, <2>1, AdvanceSettles
  <2> QED BY <1>1, <1>2, <2>2, GoOnSafe
<1>5. CASE s.k = "check" /\ Holds(t, s.ev) /\ Advance(p, t, 0)
  <2>1. Outcome(s, t, host', t, 0) BY <1>1, <1>5 DEF Outcome
  <2>2. Settles(p, t) /\ \A q \in Procs \ {p} : proc'[q] = proc[q]
    BY <1>0, <1>1, <1>5, <2>1, AdvanceSettles
  <2> QED BY <1>1, <1>2, <2>2, GoOnSafe
<1>6. CASE s.k = "check" /\ Miss(p) /\ (~Holds(t, s.ev) \/ s.ev \in Fallible)
  <2>1. Settles(p, t) /\ \A q \in Procs \ {p} : proc'[q] = proc[q]
    BY <1>0, <1>1, <1>6, MissSettles
  <2> QED BY <1>1, <1>2, <2>1, GoOnSafe
<1>7. CASE PutDocument(p) BY <1>3, <1>4, <1>7 DEF PutDocument
<1>8. CASE RunCheck(p) BY <1>5, <1>6, <1>8 DEF RunCheck
<1> QED BY <1>3, <1>7, <1>8 DEF Illegal, SealArchive, Finish

\* A process that dies, with the candidate it leaves.
LEMMA DieSafe ==
    ASSUME Inv, Safe, NEW p \in Procs, Die(p) PROVE Safe'
<1> DEFINE s == Step(p)
           t == proc[p].tx
<1>0. TypeOK /\ t # NoTx BY DEF Inv, TypeOK, Die
<1>1. Busy(p) /\ End(p) /\ contract' = contract /\ disk' = disk BY DEF Die
<1>2. /\ contract \in Contracts /\ t \in Transactions /\ Legit(s, Made(proc[p].cmd))
      /\ proc[p].pc \in Nat /\ proc[p].pc > 0
      /\ Shape(contract, proc[p].cmd, proc[p].pc, s) /\ Speaks(proc[p].cmd, s)
      /\ Fits(contract, host, proc[p].cmd, proc[p].pc, t) /\ Sane(contract, host, t)
      /\ host.entry \in {"baseline", "experimental"} /\ Trial(contract, host)
  BY <1>1, AtPlace DEF Safe
<1>3. CASE cand' = cand /\ host' = host
  <2>1. Touched(p) BY <1>3 DEF Touched
  <2> QED BY <1>1, <1>3, <2>1, EndSafe
<1>4. CASE s.k = "do" /\ host' \in Spoiled(s.op) /\ cand' = cand
  <2>1. Touched(p) BY <1>1, <1>4, OpTouches DEF Touched
  <2> QED BY <1>1, <1>4, <2>1, EndSafe
<1>5. ASSUME NEW w, Sane(contract, host, w), cand' \in {Torn, w}, host' = host PROVE Safe'
  <2>1. proc'[p].cmd = "" /\ Settles(p, t) /\ \A q \in Procs \ {p} : proc'[q] = proc[q]
    BY <1>0, <1>1, EndSettles
  <2>2. Touched(p) BY <1>5 DEF Touched
  <2>3. Carries(p) BY <1>1, <2>2, TouchCarries
  <2>4. Whole(cand') => Sane(contract, host', cand') BY <1>5 DEF Whole
  <2>5. Sane(contract, host', t) BY <1>2, <1>5
  <2> QED BY <1>0, <1>1, <2>1, <2>3, <2>4, <2>5, StepSafe
<1>6. CASE s.k = "save" /\ Allowed(t, s) /\ cand' \in {Torn, Written(contract, t, s)} /\ host' = host
  <2> HIDE DEF s, t
  <2>1. Sane(contract, host, Written(contract, t, s)) BY <1>2, <1>6, SaveSane
  <2> QED BY <1>5, <1>6, <2>1
<1>7. CASE s.k = "fail" /\ cand' \in {Torn, Failing(contract, t)} /\ host' = host
  <2> HIDE DEF s, t
  <2>1. Sane(contract, host, Failing(contract, t)) BY <1>2, FailSane
  <2> QED BY <1>5, <1>7, <2>1
<1> QED BY <1>3, <1>4, <1>6, <1>7 DEF Die

-----------------------------------------------------------------------------
(* Commands that begin, and what happens around them. *)

\* A machine of which nothing that is said here has changed.
Same(h) == /\ h.owned = host.owned /\ h.oneShot = host.oneShot /\ h.swapOn = host.swapOn
           /\ h.entry = host.entry /\ h.tried = host.tried

\* Records, commands and the machine itself do not notice.
LEMMA SameFits ==
    ASSUME NEW h, Same(h)
    PROVE  /\ Trial(contract, host) => Trial(contract, h)
           /\ Risky(h) <=> Risky(host)
           /\ \A r : Sane(contract, host, r) => Sane(contract, h, r)
           /\ \A cmd, pc, t : Fits(contract, host, cmd, pc, t) => Fits(contract, h, cmd, pc, t)
<1>1. Risky(h) <=> Risky(host) BY DEF Same, Risky
<1>2. Trial(contract, host) => Trial(contract, h) BY DEF Same, Trial
<1>3. Gone(host) => Gone(h) BY DEF Same, Gone
<1>4. ASSUME NEW r, Sane(contract, host, r) PROVE Sane(contract, h, r)
  BY <1>1, <1>3, <1>4 DEF Sane, Same
<1>5. ASSUME NEW cmd, NEW pc, NEW t, Fits(contract, host, cmd, pc, t)
      PROVE  Fits(contract, h, cmd, pc, t)
  BY <1>5, OtherMoves DEF Same
<1> QED BY <1>1, <1>2, <1>4, <1>5

\* What is loaded is sane.
LEMMA LoadedSane ==
    ASSUME Inv, Safe, Loadable
    PROVE  Loaded \in Transactions /\ Loaded # NoTx /\ Sane(contract, host, Loaded)
<1>0. contract \in Contracts BY DEF Inv, TypeOK
<1>1. Loaded \in Transactions /\ Loaded # NoTx BY <1>0, Loads, Apart
<1>2. CASE cand = NoTx
  <2>1. Loaded = disk BY <1>2 DEF Loaded
  <2> QED BY <1>1, <2>1 DEF Safe, Kept
<1>3. CASE cand # NoTx
  <2>1. Loaded = cand /\ Whole(cand) BY <1>3 DEF Loaded, Loadable, Whole
  <2> QED BY <1>1, <2>1 DEF Safe, Kept
<1> QED BY <1>2, <1>3

\* A command that loads the transaction keeps the invariant, if it begins
\* where it should.
LEMMA LaunchSafe ==
    ASSUME Inv, Safe, NEW p \in Procs, NEW cmd, Launch(p, cmd), contract' = contract, Same(host'),
           cmd # "",
           p = "unit" => cmd = "activate" /\ host.entry = "experimental",
           p = "operator" => /\ cmd \notin {"activate", "activation"}
                             /\ Fits(contract, host, cmd, 1, Loaded)
    PROVE  Safe'
<1> DEFINE t == Loaded
<1>0. /\ p \in {"operator", "unit"} /\ "operator" \in Procs /\ "unit" \in Procs
      /\ proc \in [Procs -> [cmd : Commands(contract) \cup {""}, pc : Nat,
                             tx : Transactions \cup {NoTx}]]
      /\ host'.entry = host.entry
  BY DEF Procs, Inv, TypeOK, Same
<1>1. /\ Loadable /\ disk' = t /\ cand' = NoTx
      /\ proc' = [proc EXCEPT ![p] = [cmd |-> cmd, pc |-> 1, tx |-> t]]
  BY DEF Launch
<1>2. t # NoTx /\ Sane(contract, host, t) BY <1>1, LoadedSane
<1> HIDE DEF t
<1>3. /\ proc'[p].cmd = cmd /\ proc'[p].pc = 1 /\ proc'[p].tx = t
      /\ \A q \in Procs \ {p} : proc'[q] = proc[q]
  BY <1>0, <1>1
<1>4. /\ Trial(contract, host')
      /\ \A r : Sane(contract, host, r) => Sane(contract, host', r)
      /\ \A cc, pc, r : Fits(contract, host, cc, pc, r) => Fits(contract, host', cc, pc, r)
  BY SameFits DEF Safe
<1>5. Kept'
  <2>1. ASSUME NEW q \in Procs, proc'[q].cmd # "" PROVE Sane(contract, host', proc'[q].tx)
    <3>1. CASE q = p BY <1>2, <1>3, <1>4, <3>1
    <3>2. CASE q # p
      <4>1. proc'[q] = proc[q] /\ Busy(q) BY <1>3, <2>1, <3>2 DEF Busy
      <4> QED BY <1>4, <4>1 DEF Safe, Kept
    <3> QED BY <3>1, <3>2
  <2> QED BY <1>1, <1>2, <1>4, <2>1 DEF Kept, Busy, Whole
<1>6. Manned'
  <2>1. CASE p = "unit"
    <3>1. proc'["operator"] = proc["operator"] BY <1>0, <1>3, <2>1
    <3> QED BY <1>0, <1>3, <2>1, <3>1 DEF Safe, Manned, Busy, UnitCommands
  <2>2. CASE p = "operator"
    <3>1. proc'["unit"] = proc["unit"] BY <1>0, <1>3, <2>2
    <3> QED BY <1>0, <1>3, <2>2, <3>1 DEF Safe, Manned, Busy
  <2> QED BY <1>0, <2>1, <2>2
<1>7. Alone' BY <1>0, <1>1, <1>3 DEF Alone, Busy
<1>8. Doing'
  <2>1. CASE p = "unit"
    <3>1. proc'["operator"] = proc["operator"] BY <1>0, <1>3, <2>1
    <3> QED BY <1>4, <3>1 DEF Safe, Doing, Busy
  <2>2. CASE p = "operator" BY <1>3, <1>4, <2>2 DEF Doing, t
  <2> QED BY <1>0, <2>1, <2>2
<1>9. Risked' BY <1>1, <1>2 DEF Risked
<1> QED BY <1>4, <1>5, <1>6, <1>7, <1>8, <1>9 DEF Safe

\* The commands of which nothing is said at their first step.
LEMMA BeginFits ==
    ASSUME NEW c, NEW h, NEW t, NEW cmd \in {"one_shot", "post_boot", "baseline", "cleanup"}
    PROVE  Fits(c, h, cmd, 1, t)
<1>1. ~(1 > Chosen(c)) /\ ~(1 > Judged(c)) BY DEF Chosen, Judged
<1> QED BY <1>1 DEF Fits, Undos

\* The command recover chooses begins where it should: a transaction it takes
\* for one before the one-shot is none that was booted.
LEMMA RecoveryFits ==
    ASSUME Inv, Safe, Loadable, RecoveryCommand # ""
    PROVE  /\ Fits(contract, host, RecoveryCommand, 1, Loaded)
           /\ RecoveryCommand \notin {"activate", "activation"}
<1> DEFINE t == Loaded
           e == (host.entry = "experimental")
           r == RecoveryStage(t)
<1>0. contract \in Contracts /\ host \in Hosts BY DEF Inv, TypeOK
<1>1. Sane(contract, host, t) BY LoadedSane
<1>2. RecoveryCommand \in {"remove", "clear", "cleanup", "baseline"} BY <1>0, RecoveryCommands
<1>3. RecoveryCommand = RecoveryActionV2(r, e)
  <2>1. contract \in {"v2", "v3", "v5", "v6"} BY <1>0, LifecycleAssumption
  <2> QED BY <2>1 DEF RecoveryCommand, RecoveryAction, RecoveryActionV3, RecoveryActionV5,
                      RecoveryActionV6
<1>4. r = t.failedFrom \/ r = t.stage BY DEF RecoveryStage
<1>5. CASE RecoveryCommand = "remove"
  <2>1. r \in BeforeOneShot BY <1>3, <1>5 DEF RecoveryActionV2
  <2>2. ~Past(t) BY <1>4, <2>1 DEF Past
  <2>3. ~Risky(host) BY <1>1, <2>2 DEF Sane
  <2> QED BY <1>5, <2>3 DEF Fits, Undos, Removed
<1>6. CASE RecoveryCommand = "clear"
  <2>1. ~e BY <1>3, <1>6 DEF RecoveryActionV2
  <2>2. host.entry = "baseline" BY <1>0, <2>1 DEF Hosts
  <2> QED BY <1>6, <2>2 DEF Fits, Undos
<1>7. CASE RecoveryCommand \in {"cleanup", "baseline"} BY <1>7, BeginFits
<1> QED BY <1>2, <1>5, <1>6, <1>7

\* Every command that loads the transaction keeps the invariant.
LEMMA LoadingSafe ==
    ASSUME Inv, Safe, LoadingCommand PROVE Safe'
<1>0. /\ contract \in Contracts /\ "operator" \in Procs /\ "unit" \in Procs
      /\ host \in Hosts /\ Same(host)
  BY DEF Inv, TypeOK, Procs, Same
<1>1. CASE Apply
  <2>1. /\ Loadable /\ Loaded.stage = "BaselineMeasured" /\ Launch("operator", "apply")
        /\ host' = host /\ contract' = contract
    BY <1>1 DEF Apply
  <2>2. Sane(contract, host, Loaded) BY <2>1, LoadedSane
  <2>3. ~Past(Loaded) BY <2>1 DEF Past, BeforeOneShot
  <2>4. ~Risky(host) /\ Loaded.stage \in BeforeOneShot \ {"Applied"}
    BY <2>1, <2>2, <2>3 DEF Sane, BeforeOneShot
  <2>5. Fits(contract, host, "apply", 1, Loaded) BY <2>4 DEF Fits
  <2> QED BY <1>0, <2>1, <2>5, LaunchSafe
<1>2. ASSUME NEW cmd \in {"one_shot", "post_boot", "baseline", "cleanup"},
             Launch("operator", cmd), host' = host, contract' = contract
      PROVE  Safe'
  <2>1. Fits(contract, host, cmd, 1, Loaded) BY BeginFits
  <2>2. cmd \notin {"activate", "activation", ""} OBVIOUS
  <2> QED BY <1>0, <1>2, <2>1, <2>2, LaunchSafe
<1>3. CASE SelectOneShot \/ PostBootValidate \/ SelectBaselineRollback \/ VerifyFinalRestore
  BY <1>2, <1>3 DEF SelectOneShot, PostBootValidate, SelectBaselineRollback, VerifyFinalRestore
<1>4. CASE Recover \/ VerifyIdempotence
  <2>1. /\ Loadable /\ RecoveryCommand # "" /\ Launch("operator", RecoveryCommand)
        /\ host' = host /\ contract' = contract
    BY <1>4 DEF Recover, VerifyIdempotence
  <2>2. /\ Fits(contract, host, RecoveryCommand, 1, Loaded)
        /\ RecoveryCommand \notin {"activate", "activation"}
    BY <2>1, RecoveryFits
  <2> QED BY <1>0, <2>1, <2>2, LaunchSafe
<1>5. CASE ExperimentalActivate
  <2>1. /\ Launch("unit", "activate") /\ host.entry = "experimental" /\ contract' = contract
        /\ host' = [host EXCEPT !.unitRan = TRUE]
    BY <1>5 DEF ExperimentalActivate, UnitDue
  <2>2. Same(host') BY <1>0, <2>1 DEF Same, Hosts
  <2> QED BY <1>0, <2>1, <2>2, LaunchSafe
<1> QED BY <1>1, <1>3, <1>4, <1>5 DEF LoadingCommand

\* So does one that only completes an interrupted write.
LEMMA LoadSafe ==
    ASSUME Inv, Safe, Load PROVE Safe'
<1>1. /\ ~Busy("operator") /\ Loadable /\ disk' = Loaded /\ cand' = NoTx
      /\ host' = host /\ proc' = proc /\ contract' = contract
  BY DEF Load
<1>2. Loaded # NoTx /\ Sane(contract, host, Loaded) BY <1>1, LoadedSane
<1>3. Kept' BY <1>1, <1>2 DEF Safe, Kept, Busy, Whole
<1>4. Manned' /\ Alone' /\ Doing' BY <1>1 DEF Safe, Manned, Alone, Doing, Busy
<1>5. Risked' BY <1>1, <1>2 DEF Risked
<1>6. Trial(contract, host)' BY <1>1 DEF Safe
<1> QED BY <1>3, <1>4, <1>5, <1>6 DEF Safe

\* The command that begins the transaction: nothing was ever selected.
LEMMA BeginSafe ==
    ASSUME Inv, Safe, MeasureBaseline PROVE Safe'
<1> DEFINE t == Fresh(contract, host.boot)
           cmd == First(contract)
<1>0. /\ contract \in Contracts /\ host \in Hosts
      /\ proc \in [Procs -> [cmd : Commands(contract) \cup {""}, pc : Nat,
                             tx : Transactions \cup {NoTx}]]
      /\ "operator" \in Procs /\ "unit" \in Procs
  BY DEF Inv, TypeOK, Procs
<1>1. /\ contract' = contract /\ disk' = disk /\ cand' = cand /\ host' = host
      /\ proc' = [proc EXCEPT !["operator"] = [cmd |-> cmd, pc |-> 1, tx |-> t]]
  BY DEF MeasureBaseline, First
<1>2. "root" \notin files
  <2>1. ("root" \in files) \in BOOLEAN /\ (~Busy("unit")) \in BOOLEAN BY DEF Busy
  <2> QED BY <2>1, <1>0, PreflightMeans DEF MeasureBaseline
<1>3. disk = NoTx /\ cand = NoTx /\ ~Busy("unit") BY <1>2 DEF Inv, RootFirst
<1>4. ~Risky(host) BY <1>3 DEF Safe, Risked
<1>5. t.stage = "Prepared" /\ t.failedFrom = Still
  <2>1. t = FreshV2(host.boot) BY <1>0, Alike
  <2>2. FreshV2(host.boot).stage = "Prepared" BY DEF FreshV2
  <2>3. FreshV2(host.boot).failedFrom = "" BY DEF FreshV2
  <2> QED BY <2>1, <2>2, <2>3 DEF Still
<1>6. cmd \in {"measure", "apply"} BY DEF First
<1> HIDE DEF t, cmd
<1>7. Sane(contract, host, t)
  <2>1. t.failedFrom \notin BeforeOneShot BY <1>5 DEF Still, BeforeOneShot
  <2>2. t.stage \notin Terminal /\ t.stage \notin Armed BY <1>5 DEF Terminal, Armed
  <2> QED BY <1>4, <2>1, <2>2 DEF Sane, Marked
<1>8. Fits(contract, host, cmd, 1, t)
  <2>1. t.stage \in BeforeOneShot \ {"Applied"} BY <1>5 DEF BeforeOneShot
  <2> QED BY <1>4, <1>6, <2>1 DEF Fits
<1>9. /\ proc'["operator"].cmd = cmd /\ proc'["operator"].pc = 1 /\ proc'["operator"].tx = t
      /\ proc'["unit"] = proc["unit"]
  BY <1>0, <1>1
<1>10. proc'["unit"].cmd = "" BY <1>3, <1>9 DEF Busy
<1>11. Kept'
  <2>1. ASSUME NEW q \in Procs, proc'[q].cmd # "" PROVE Sane(contract, host, proc'[q].tx)
    BY <1>7, <1>9, <1>10, <2>1 DEF Procs
  <2> QED BY <1>1, <1>3, <2>1 DEF Kept, Busy, Whole
<1>12. Manned' BY <1>6, <1>9, <1>10 DEF Manned, Busy
<1>13. Alone' BY <1>1, <1>3 DEF Alone
<1>14. Doing' BY <1>1, <1>8, <1>9 DEF Doing
<1>15. Risked' BY <1>1, <1>4, <1>6, <1>9 DEF Risked
<1>16. Trial(contract, host)' BY <1>1 DEF Safe
<1> QED BY <1>11, <1>12, <1>13, <1>14, <1>15, <1>16 DEF Safe

\* What happens to the machine while records and processes stay.
LEMMA HostMoves ==
    ASSUME Safe, contract' = contract, disk' = disk, cand' = cand, proc' = proc,
           Trial(contract, host'), Risky(host') => Risky(host),
           \A r : Sane(contract, host, r) => Sane(contract, host', r),
           \/ \A p \in Procs : ~Busy(p)
           \/ /\ host'.entry = host.entry
              /\ \A cmd, pc, t : Fits(contract, host, cmd, pc, t) => Fits(contract, host', cmd, pc, t)
    PROVE  Safe'
<1>0. "operator" \in Procs /\ "unit" \in Procs BY DEF Procs
<1>1. Kept' BY DEF Safe, Kept, Busy, Whole
<1>2. Manned' /\ Alone' BY <1>0 DEF Safe, Manned, Alone, Busy
<1>3. Doing' BY <1>0 DEF Safe, Doing, Busy
<1>4. Risked' BY DEF Safe, Risked, Busy
<1> QED BY <1>1, <1>2, <1>3, <1>4 DEF Safe

\* The unit that refuses or leaves no trace, and a reboot.
LEMMA AroundSafe ==
    ASSUME Inv, Safe, ActivationRefused \/ ActivateUnrecorded \/ Reboot PROVE Safe'
<1>0. contract \in Contracts /\ host \in Hosts BY DEF Inv, TypeOK
<1>1. contract' = contract /\ disk' = disk /\ cand' = cand /\ proc' = proc
  BY DEF ActivationRefused, ActivateUnrecorded, Reboot
<1>2. CASE ActivationRefused
  <2>1. host' = [host EXCEPT !.unitRan = TRUE] BY <1>2 DEF ActivationRefused
  <2>2. Same(host') BY <1>0, <2>1 DEF Same, Hosts
  <2>3. /\ Trial(contract, host') /\ (Risky(host') => Risky(host))
        /\ \A r : Sane(contract, host, r) => Sane(contract, host', r)
        /\ \A cmd, pc, t : Fits(contract, host, cmd, pc, t) => Fits(contract, host', cmd, pc, t)
    BY <2>2, SameFits DEF Safe
  <2>4. host'.entry = host.entry BY <2>2 DEF Same
  <2> QED BY <1>1, <2>3, <2>4, HostMoves, Zenon
<1>3. CASE ActivateUnrecorded
  <2>1. host' = [host EXCEPT !.unitRan = TRUE, !.swapOn = TRUE] /\ host.entry = "experimental"
    BY <1>3 DEF ActivateUnrecorded, UnitDue
  <2>2. /\ host'.owned = host.owned /\ host'.oneShot = host.oneShot
        /\ host'.entry = host.entry /\ host'.tried = host.tried
    BY <1>0, <2>1 DEF Hosts
  <2>3. Trial(contract, host') BY <2>1, <2>2 DEF Safe, Trial
  <2>4. Risky(host') <=> Risky(host) BY <2>2 DEF Risky
  <2>5. ASSUME NEW r, Sane(contract, host, r) PROVE Sane(contract, host', r)
    BY <2>1, <2>2, <2>4, <2>5 DEF Sane
  <2>6. ASSUME NEW cmd, NEW pc, NEW t, Fits(contract, host, cmd, pc, t)
        PROVE  Fits(contract, host', cmd, pc, t)
    BY <2>2, <2>6, OtherMoves
  <2> QED BY <1>1, <2>2, <2>3, <2>4, <2>5, <2>6, HostMoves, Zenon
<1>4. CASE Reboot
  <2> DEFINE exp == host.oneShot = "experimental" /\ host.owned["entry"] = "exact"
  <2>1. /\ \A p \in Procs : ~Busy(p)
        /\ host' = [host EXCEPT
                !.oneShot = "none", !.swapOn = FALSE, !.unitRan = FALSE,
                !.entry = IF exp THEN "experimental" ELSE "baseline",
                !.zswap = exp, !.boot = @ + 1, !.tried = @ \/ exp]
    BY <1>4 DEF Reboot
  <2>2. exp => host.oneShot = "experimental" OBVIOUS
  <2>3. exp \in BOOLEAN OBVIOUS
  <2> HIDE DEF exp
  <2>4. /\ host'.owned = host.owned /\ host'.oneShot = "none" /\ host'.swapOn = FALSE
        /\ host'.entry = (IF exp THEN "experimental" ELSE "baseline")
        /\ host'.tried = (host.tried \/ exp)
    BY <1>0, <2>1 DEF Hosts
  <2>5. Trial(contract, host') BY <2>4 DEF Trial
  <2>6. Risky(host') => Risky(host) BY <2>2, <2>4 DEF Risky
  <2>7. ASSUME NEW r, Sane(contract, host, r) PROVE Sane(contract, host', r)
    <3>1. Gone(host) => Gone(host') /\ host'.entry = "baseline" BY <2>2, <2>4 DEF Gone
    <3> QED BY <2>4, <2>6, <2>7, <3>1 DEF Sane
  <2> QED BY <1>1, <2>1, <2>5, <2>6, <2>7, HostMoves, Zenon
<1> QED BY <1>2, <1>3, <1>4

-----------------------------------------------------------------------------
(* The machine is safe. *)

\* The invariant holds before the first command.
LEMMA InitSafe == Init => Safe
<1> SUFFICES ASSUME Init PROVE Safe
  OBVIOUS
<1>1. disk = NoTx /\ cand = NoTx BY DEF Init
<1>2. /\ host.oneShot = "none" /\ host.swapOn = FALSE /\ host.entry = "baseline"
      /\ host.tried = FALSE
  BY DEF Init
<1>3. \A p \in Procs : proc[p] = Idle BY DEF Init
<1>4. Idle.cmd = "" /\ "operator" \in Procs /\ "unit" \in Procs BY DEF Idle, Procs
<1>5. \A p \in Procs : ~Busy(p) BY <1>3, <1>4 DEF Busy
<1>6. Trial(contract, host) /\ ~Risky(host) BY <1>2 DEF Trial, Risky
<1>7. Kept BY <1>1, <1>5 DEF Kept, Whole
<1>8. Manned /\ Alone /\ Doing /\ Risked BY <1>4, <1>5, <1>6 DEF Manned, Alone, Doing, Risked
<1> QED BY <1>6, <1>7, <1>8 DEF Safe

\* It is kept by every action.
LEMMA NextSafe == ASSUME Inv, Safe, [Next]_vars PROVE Safe'
<1>1. CASE Load BY <1>1, LoadSafe
<1>2. CASE MeasureBaseline BY <1>2, BeginSafe
<1>3. CASE LoadingCommand BY <1>3, LoadingSafe
<1>4. CASE ActivationRefused \/ ActivateUnrecorded \/ Reboot BY <1>4, AroundSafe
<1>5. ASSUME NEW p \in Procs,
             \/ Save(p) \/ Illegal(p) \/ FailSave(p) \/ Mutate(p) \/ PutDocument(p)
             \/ RunCheck(p) \/ SealArchive(p) \/ Finish(p) \/ Die(p)
      PROVE  Safe'
  BY <1>5, SaveSafe, QuietSafe, FailSafe, MutateSafe, DieSafe
<1>6. CASE UNCHANGED vars
  <2>1. disk' = disk /\ cand' = cand /\ host' = host /\ proc' = proc /\ contract' = contract
    BY <1>6 DEF vars
  <2>2. Kept' /\ Manned' BY <2>1 DEF Safe, Kept, Manned, Busy, Whole
  <2>3. Alone' /\ Doing' /\ Risked' BY <2>1 DEF Safe, Alone, Doing, Risked, Busy
  <2>4. Trial(contract, host)' BY <2>1 DEF Safe
  <2> QED BY <2>2, <2>3, <2>4 DEF Safe
<1> QED BY <1>1, <1>2, <1>3, <1>4, <1>5, <1>6 DEF Next, LoadingCommand

\* What every record says of the machine, and where every command of the
\* operator stands, is kept by every step of either process, every death and
\* every reboot, also when operator and unit run at once.
THEOREM SafeInvariant == Spec => [](Inv /\ Safe)
<1>1. Init => Inv /\ Safe BY InitInv, InitSafe
<1>2. Inv /\ Safe /\ [Next]_vars => (Inv /\ Safe)' BY NextInv, NextSafe
<1> QED BY <1>1, <1>2, PTL DEF Spec

\* The one-shot never names an experimental entry whose files are not all in
\* place, except in contract v2.
THEOREM BootableEntryHolds == Spec => []BootableEntry
<1>1. Inv /\ Safe => BootableEntry BY DEF Safe, Trial, BootableEntry
<1> QED BY <1>1, SafeInvariant, PTL

\* A transaction that is Restored or Recovered on disk has left nothing on
\* the machine, whoever wrote it and whatever happened since.
THEOREM TerminalCleanHolds == Spec => []TerminalClean
<1>1. Inv /\ Safe => TerminalClean BY DEF Safe, Kept, Sane, Gone, TerminalClean
<1> QED BY <1>1, SafeInvariant, PTL

\* A step that removes an owned file is an operation of a command of the
\* operator, in a baseline boot and where the lifecycle allows it.
LEMMA RemovalStep ==
    ASSUME Inv, Safe, [Next]_vars, NEW x \in Owned,
           host.owned[x] = "exact", host'.owned[x] = "absent"
    PROVE  /\ host.entry = "baseline" /\ ~host.swapOn /\ host.oneShot # "experimental"
           /\ host.tried => disk.stage = "Cleaning"
<1>0. host \in Hosts BY DEF Inv, TypeOK
<1>1. ASSUME host'.owned = host.owned PROVE FALSE BY <1>1
<1>2. PICK p \in Procs : Mutate(p) \/ Die(p)
  <2>1. ASSUME host' = host PROVE FALSE BY <1>1, <2>1
  <2>2. CASE Load \/ MeasureBaseline \/ UNCHANGED vars
    BY <2>1, <2>2 DEF Load, MeasureBaseline, vars
  <2>3. CASE LoadingCommand
    <3>1. host' = host \/ host' = [host EXCEPT !.unitRan = TRUE]
      BY <2>3 DEF LoadingCommand, Apply, SelectOneShot, PostBootValidate,
                  SelectBaselineRollback, VerifyFinalRestore, Recover, VerifyIdempotence,
                  ExperimentalActivate
    <3>2. host'.owned = host.owned BY <1>0, <3>1 DEF Hosts
    <3> QED BY <1>1, <3>2
  <2>4. CASE ActivationRefused \/ ActivateUnrecorded \/ Reboot
    <3>1. host'.owned = host.owned
      BY <1>0, <2>4 DEF ActivationRefused, ActivateUnrecorded, Reboot, Hosts
    <3> QED BY <1>1, <3>1
  <2>5. ASSUME NEW p \in Procs,
               \/ Save(p) \/ Illegal(p) \/ FailSave(p) \/ PutDocument(p)
               \/ RunCheck(p) \/ SealArchive(p) \/ Finish(p)
        PROVE  FALSE
    BY <2>1, <2>5 DEF Save, Illegal, FailSave, PutDocument, RunCheck, SealArchive, Finish
  <2> QED BY <2>2, <2>3, <2>4, <2>5 DEF Next, LoadingCommand
<1> DEFINE s == Step(p)
           t == proc[p].tx
           cmd == proc[p].cmd
<1>3. Busy(p) BY <1>2 DEF Mutate, Die
<1>4. s.k = "do" /\ Changes(s.op, host')
  <2>1. s.k = "do" BY <1>1, <1>2 DEF Mutate, Die
  <2>2. (Able(s.op) /\ host' = Effect(s.op)) \/ host' = host \/ host' \in Spoiled(s.op)
    BY <1>2 DEF Mutate, Die
  <2> QED BY <1>3, <2>1, <2>2, OpTouches
<1>5. /\ contract \in Contracts /\ proc[p].pc \in Nat /\ proc[p].pc > 0
      /\ Shape(contract, cmd, proc[p].pc, s) /\ Speaks(cmd, s)
      /\ Fits(contract, host, cmd, proc[p].pc, t) /\ Sane(contract, host, t)
      /\ p = "unit" => host.entry = "experimental"
      /\ host.entry \in {"baseline", "experimental"} /\ Trial(contract, host)
  BY <1>3, AtPlace DEF Safe
<1>6. s.op.act = "remove"
  <2>1. s.op.act = "create" => FALSE
    <3>1. ASSUME s.op.act = "create" PROVE FALSE
      <4>1. cmd \in {"measure", "apply"} /\ Legit(s, Made(cmd)) /\ s.op \in Ops
        BY <1>3, <1>4, <1>5, <3>1, AtPlace DEF Speaks, Does, Legit
      <4>2. host' = host \/ \E v \in {"exact", "partial"} : host' = [host EXCEPT !.owned[s.op.on] = v]
        BY <1>2, <3>1 DEF Mutate, Die, Effect, Spoiled
      <4>3. s.op.on \in Owned BY <1>4, <3>1 DEF Changes
      <4>4. host'.owned[x] # "absent" BY <1>0, <4>2, <4>3 DEF Hosts
      <4> QED BY <4>4
    <3> QED BY <3>1
  <2>2. s.op.act \notin {"create", "remove"} => host'.owned = host.owned BY <1>4 DEF Changes
  <2> QED BY <1>1, <2>1, <2>2
<1>7. Does(cmd, s.op) BY <1>4, <1>5 DEF Speaks
<1> HIDE DEF s, t, cmd
<1>8. /\ host.entry = "baseline" /\ host.oneShot # "experimental" /\ ~host.swapOn
      /\ ~host.tried \/ t.stage \in {"Cleaning", "Restored"}
  BY <1>4, <1>5, <1>6, <1>7, RemovalSafe
<1>9. ASSUME host.tried PROVE disk.stage = "Cleaning"
  <2>1. p = "operator" BY <1>5, <1>8 DEF Procs
  <2>2. disk = t
    <3>1. disk # NoTx BY <1>9 DEF Safe, Risked, Risky
    <3>2. disk \in {NoTx, t} BY <1>3, <1>8, <2>1 DEF Safe, Alone, t
    <3> QED BY <3>1, <3>2
  <2>3. t.stage # "Restored"
    <3>1. ASSUME t.stage = "Restored" PROVE FALSE
      <4>1. Gone(host) BY <1>5, <3>1 DEF Sane, Terminal
      <4>2. host.owned[x] # "exact" BY <4>1 DEF Gone
      <4> QED BY <4>2
    <3> QED BY <3>1
  <2> QED BY <1>8, <1>9, <2>2, <2>3
<1> QED BY <1>8, <1>9

\* An owned file is removed only in a baseline boot, with the swapfile off and
\* the one-shot not pointing at it, and after an experimental boot only once
\* the baseline was proven: by every command, in every contract.
THEOREM BaselineProvenFirstHolds == Spec => BaselineProvenFirst
<1>1. Inv /\ Safe /\ [Next]_vars =>
        [\A x \in Owned :
          host.owned[x] = "exact" /\ host'.owned[x] = "absent" =>
              /\ host.entry = "baseline" /\ ~host.swapOn
              /\ host.oneShot # "experimental"
              /\ host.tried => disk.stage = "Cleaning"]_vars
  BY RemovalStep
<1> QED BY <1>1, SafeInvariant, PTL DEF Spec, BaselineProvenFirst
=============================================================================
