----------------------- MODULE HostValidationProofs -----------------------
(***************************************************************************)
(* Proofs about HostValidation, for every number of devices, runs, failing *)
(* calls and acts of other parties.                                        *)
(*                                                                         *)
(* Every step that creates, hands over or removes something has a place in *)
(* the longest program.  Programs and what is left of them after a step or *)
(* an unwinding are well made: in order, closed by scopes, and a step that *)
(* creates something is followed by the one that gives it back.  So the    *)
(* set of places ahead tells what the run holds now: the invariant relates *)
(* it to the devices, the swapfile and the sleepers of the host, and is    *)
(* carried over by one lemma for each action.                              *)
(***************************************************************************)
EXTENDS HostValidation, SequenceTheorems, WellFoundedInduction, TLAPS

----------------------------------------------------------------------------
(* Places in the programs *)

\* Where guards are dropped, scopes close, and devices are added and removed.
DropPlace(g) ==
    CASE g = "w_cleanup" -> 19
      [] g = "w_child" -> 20
      [] g = "recovery" -> 21
      [] g = "cleanup" -> 22
      [] OTHER -> 23
ClosePlace(s) == CASE s = "cgroups" -> 24 [] s = "zram" -> 65 [] OTHER -> 85
AddPlace(r) == CASE r = "bench" -> 33 [] r = "a" -> 38 [] r = "b" -> 39 [] OTHER -> 53
RemovePlace(r) == CASE r = "bench" -> 36 [] r = "a" -> 49 [] r = "b" -> 50 [] OTHER -> 61

\* The steps a program or the destructors can hold.
Steps ==
    [op : {"scope_deadline", "close"}, arg : {"cgroups", "zram", "tiering"}]
    \union [op : {"spawn", "guard", "apply", "rollback"}, arg : Sleepers]
    \union [op : {"end_sleeper"}, arg : {"crash"}]
    \union [op : {"end_child"}, arg : {"main"}]
    \union [op : {"drop"}, arg : Guards \ {"crash_group"}]
    \union [op : {"add", "setup", "remove"}, arg : Roles]
    \union [op : {"on", "off"}, arg : {"a", "b", "w"}]
    \union [op : {"check"}, arg : {"a", "ab", "b", "w"}]
    \union [op : {"w_persist", "adopt_zram", "resume"}, arg : {"w"}]
    \union [op : {"drop_zram"}, arg : Owners]
    \union [op : {"deadline", "inspect", "benchmark", "w_forget", "adopt", "no_groups",
                  "w_base", "zram0_same", "file_create", "file_on", "file_verify",
                  "file_check", "file_deadline", "file_resume", "file_off",
                  "file_unlink", "conclude"}, arg : {"none"}]

\* The place of a step in the longest program; the steps that only look have
\* none.
Place(s) ==
    CASE s.op = "scope_deadline" -> (CASE s.arg = "cgroups" -> 1
                                       [] s.arg = "zram" -> 31
                                       [] OTHER -> 71)
      [] s.op = "spawn" -> IF s.arg = "main" THEN 2 ELSE 9
      [] s.op = "guard" -> IF s.arg = "main" THEN 3 ELSE 10
      [] s.op = "apply" -> IF s.arg = "main" THEN 5 ELSE 11
      [] s.op = "rollback" -> IF s.arg = "main" THEN 7 ELSE 14
      [] s.op = "w_forget" -> 12
      [] s.op = "adopt" -> 13
      [] s.op = "end_sleeper" -> 16
      [] s.op = "end_child" -> 17
      [] s.op = "no_groups" -> 18
      [] s.op = "drop" -> DropPlace(s.arg)
      [] s.op = "close" -> ClosePlace(s.arg)
      [] s.op = "add" -> AddPlace(s.arg)
      [] s.op = "on" -> (CASE s.arg = "a" -> 42 [] s.arg = "b" -> 44 [] OTHER -> 55)
      [] s.op = "off" -> (CASE s.arg = "a" -> 46 [] s.arg = "b" -> 48 [] OTHER -> 60)
      [] s.op = "remove" -> RemovePlace(s.arg)
      [] s.op = "w_persist" -> 57
      [] s.op = "adopt_zram" -> 58
      [] s.op = "drop_zram" -> IF s.arg = "worker" THEN 63 ELSE 64
      [] s.op = "file_create" -> 74
      [] s.op = "file_on" -> 75
      [] s.op = "file_verify" -> 76
      [] s.op = "file_check" -> 77
      [] s.op = "file_deadline" -> 78
      [] s.op = "file_resume" -> 79
      [] s.op = "file_off" -> 80
      [] s.op = "file_unlink" -> 81
      [] s.op = "conclude" -> 90
      [] OTHER -> 0

\* A step at place m may come before one at place n: rollbacks are called twice.
Before(m, n) == m < n \/ (m = n /\ m \in {7, 14}) \/ (m \in {80, 81} /\ n \in {80, 81})

\* The close that ends the scope of a place.
Top(n) == IF n <= 24 THEN 24 ELSE IF n <= 65 THEN 65 ELSE 85

\* A step that comes after the one at place p and that it relies on.
Needs(p) ==
    CASE p \in {1, 2, 9, 12, 16, 17, 38, 49, 57} -> p + 1
      [] p = 3 -> 9
      [] p = 10 -> 12
      [] p = 13 -> 16
      [] p = 31 -> 33
      [] p = 33 -> 36
      [] p = 36 -> 38
      [] p \in {39, 42, 44, 46, 48} -> 49
      [] p = 50 -> 53
      [] p \in {53, 55} -> 57
      [] p \in {58, 60} -> 61
      [] p = 74 -> 81
      [] OTHER -> p

\* The steps of a list are in the order of their places; every step is in a
\* scope that is closed, and before the one it needs; and whatever is at a
\* place after m, up to n, has m before it with nothing from elsewhere in
\* between.
Ordered(q) ==
    \A i, j \in 1 .. Len(q) :
        i < j /\ Place(q[i]) > 0 /\ Place(q[j]) > 0 => Before(Place(q[i]), Place(q[j]))
Scoped(q) ==
    \A i \in 1 .. Len(q) : q[i].op # "conclude" =>
        \E j \in 1 .. Len(q) : /\ i <= j /\ q[j].op = "close"
                               /\ Place(q[i]) > 0 => Place(q[j]) <= Top(Place(q[i]))
Paired(q) ==
    \A i \in 1 .. Len(q) : \E j \in 1 .. Len(q) : i <= j /\ Place(q[j]) = Needs(Place(q[i]))
Block(q, m, n) ==
    \A i, j \in 1 .. Len(q) :
        i < j /\ Place(q[i]) \notin m .. n /\ Place(q[j]) \in m + 1 .. n =>
            \E k \in 1 .. Len(q) : i < k /\ k < j /\ Place(q[k]) = m
Blocks(q) == /\ Block(q, 2, 3) /\ Block(q, 9, 10) /\ Block(q, 12, 13)
             /\ Block(q, 57, 58) /\ Block(q, 74, 81)
Outside(n) == n \notin (2 .. 3) \union (9 .. 10) \union (12 .. 13) \union (57 .. 58) \union (74 .. 81)
WellMade(q) == q \in Seq(Steps) /\ Ordered(q) /\ Scoped(q) /\ Paired(q) /\ Blocks(q)

\* The places of a list.
PlacesOf(q) == {Place(q[i]) : i \in 1 .. Len(q)} \ {0}
Ahead == PlacesOf(todo)

----------------------------------------------------------------------------
(* Lists of steps *)

\* The places are numbers.
LEMMA PlaceType == \A s \in Steps : Place(s) \in 0 .. 90
BY DEF Place, DropPlace, ClosePlace, AddPlace, RemovePlace

\* A close is outside of the blocks.
LEMMA CloseOutside ==
  \A s \in Steps : s.op = "close" => Place(s) \in {24, 65, 85} /\ Place(s) = ClosePlace(s.arg)
BY DEF Place, ClosePlace

\* A suffix of a list is well made.
LEMMA SuffixMade ==
  ASSUME NEW q, WellMade(q), NEW k \in 1 .. Len(q)
  PROVE  WellMade(SubSeq(q, k, Len(q)))
<1> DEFINE t == SubSeq(q, k, Len(q))
<1>1. q \in Seq(Steps) /\ Len(q) \in Nat
  BY DEF WellMade
<1>2. t \in Seq(Steps) /\ Len(t) = Len(q) - k + 1 /\ \A i \in 1 .. Len(t) : t[i] = q[k + i - 1]
  BY <1>1, SubSeqProperties
<1> HIDE DEF t
<1>3. \A i \in 1 .. Len(t) : k + i - 1 \in 1 .. Len(q)
  BY <1>1, <1>2
<1>4. \A j \in 1 .. Len(q) : j >= k => j - k + 1 \in 1 .. Len(t) /\ t[j - k + 1] = q[j]
  <2> SUFFICES ASSUME NEW j \in 1 .. Len(q), j >= k
               PROVE  j - k + 1 \in 1 .. Len(t) /\ t[j - k + 1] = q[j]
    OBVIOUS
  <2>1. j - k + 1 \in 1 .. Len(t) BY <1>1, <1>2
  <2>2. k + (j - k + 1) - 1 = j OBVIOUS
  <2> QED BY <2>1, <2>2, <1>2
<1>5. Ordered(t)
  <2> SUFFICES ASSUME NEW i \in 1 .. Len(t), NEW j \in 1 .. Len(t), i < j,
                      Place(t[i]) > 0, Place(t[j]) > 0
               PROVE  Before(Place(t[i]), Place(t[j]))
    BY DEF Ordered
  <2>1. k + i - 1 < k + j - 1 BY <1>1, <1>2
  <2> QED BY <2>1, <1>2, <1>3 DEF WellMade, Ordered
<1>6. Scoped(t)
  <2> SUFFICES ASSUME NEW i \in 1 .. Len(t), t[i].op # "conclude"
               PROVE  \E j \in 1 .. Len(t) : /\ i <= j /\ t[j].op = "close"
                                             /\ Place(t[i]) > 0 => Place(t[j]) <= Top(Place(t[i]))
    BY DEF Scoped
  <2>1. PICK j \in 1 .. Len(q) : /\ k + i - 1 <= j /\ q[j].op = "close"
                                 /\ Place(t[i]) > 0 => Place(q[j]) <= Top(Place(t[i]))
    BY <1>2, <1>3 DEF WellMade, Scoped
  <2>2. j >= k /\ i <= j - k + 1 BY <2>1, <1>1, <1>2
  <2> QED BY <2>1, <2>2, <1>4
<1>7. ASSUME NEW m \in Nat, NEW n \in Nat, Block(q, m, n) PROVE Block(t, m, n)
  <2> SUFFICES ASSUME NEW i \in 1 .. Len(t), NEW j \in 1 .. Len(t), i < j,
                      Place(t[i]) \notin m .. n, Place(t[j]) \in m + 1 .. n
               PROVE  \E l \in 1 .. Len(t) : i < l /\ l < j /\ Place(t[l]) = m
    BY DEF Block
  <2>1. k + i - 1 < k + j - 1 BY <1>1, <1>2
  <2>2. PICK l \in 1 .. Len(q) : k + i - 1 < l /\ l < k + j - 1 /\ Place(q[l]) = m
    BY <2>1, <1>2, <1>3, <1>7 DEF Block
  <2>3. k \in Int /\ l \in Int /\ i \in Int /\ j \in Int /\ i >= 1 BY <1>1, <1>2
  <2>4. l >= k /\ i < l - k + 1 /\ l - k + 1 < j BY <2>2, <2>3
  <2> QED BY <2>2, <2>4, <1>4
<1>8. Blocks(t)
  BY <1>7 DEF WellMade, Blocks
<1>9. Paired(t)
  <2> SUFFICES ASSUME NEW i \in 1 .. Len(t)
               PROVE  \E j \in 1 .. Len(t) : i <= j /\ Place(t[j]) = Needs(Place(t[i]))
    BY DEF Paired
  <2>1. PICK j \in 1 .. Len(q) : k + i - 1 <= j /\ Place(q[j]) = Needs(Place(t[i]))
    BY <1>2, <1>3 DEF WellMade, Paired
  <2>2. j >= k /\ i <= j - k + 1 BY <2>1, <1>1, <1>2
  <2> QED BY <2>1, <2>2, <1>4
<1> QED BY <1>2, <1>5, <1>6, <1>8, <1>9 DEF WellMade, t

\* The empty list is well made.
LEMMA NoneMade ==
  ASSUME NEW q \in Seq(Steps), Len(q) = 0
  PROVE  WellMade(q)
<1>1. 1 .. Len(q) = {}
  OBVIOUS
<1> QED BY <1>1, Zenon DEF WellMade, Ordered, Scoped, Paired, Blocks, Block

\* The rest of a list is well made.
LEMMA RestMade ==
  ASSUME NEW q, WellMade(q), NEW n \in Nat, n = Len(q), n > 0
  PROVE  WellMade(Tail(q))
<1>1. q \in Seq(Steps)
  BY DEF WellMade
<1>2. CASE n = 1
  <2>1. q # <<>>
    BY <1>1, EmptySeq
  <2>2. Tail(q) \in Seq(Steps) /\ Len(Tail(q)) = Len(q) - 1
    BY <1>1, <2>1, HeadTailProperties
  <2>3. Len(Tail(q)) = 0
    BY <1>2, <2>2
  <2> QED BY <2>2, <2>3, NoneMade
<1>3. CASE n # 1
  <2>1. Tail(q) = SubSeq(q, 2, Len(q))
    BY <1>1
  <2>2. 2 \in 1 .. n BY <1>3
  <2> QED BY <2>1, <2>2, SuffixMade, Zenon
<1> QED BY <1>2, <1>3

\* What is left after a step is well made.
LEMMA TailMade ==
  ASSUME NEW q, WellMade(q), q # <<>>
  PROVE  WellMade(Tail(q))
<1>1. q \in Seq(Steps)
  BY DEF WellMade
<1>2. Len(q) \in Nat /\ Len(q) > 0
  BY <1>1, EmptySeq
<1> QED BY <1>2, RestMade, Zenon

\* Two lists one after the other.
LEMMA JoinMade ==
  ASSUME NEW s \in Seq(Steps), Ordered(s), Paired(s), Blocks(s),
         NEW t, WellMade(t), t # <<>>, Outside(Place(t[1])),
         \A i \in 1 .. Len(s), j \in 1 .. Len(t) :
             Place(s[i]) > 0 /\ Place(t[j]) > 0 => Before(Place(s[i]), Place(t[j])),
         \A i \in 1 .. Len(s) :
             \/ s[i].op = "close"
             \/ t[1].op = "close" /\ (Place(s[i]) > 0 => Place(t[1]) <= Top(Place(s[i])))
  PROVE  WellMade(s \o t)
<1> DEFINE q == s \o t
           a == Len(s)
           b == Len(t)
<1>1. t \in Seq(Steps) /\ a \in Nat /\ b \in Nat /\ b > 0
  BY EmptySeq DEF WellMade
<1>2. q \in Seq(Steps) /\ Len(q) = a + b
      /\ \A i \in 1 .. Len(q) : q[i] = IF i <= a THEN s[i] ELSE t[i - a]
  BY <1>1, ConcatProperties
<1> HIDE DEF q
<1>3. \A i \in 1 .. a : i \in 1 .. Len(q) /\ q[i] = s[i]
  BY <1>1, <1>2
<1>4. \A j \in 1 .. b : j + a \in 1 .. Len(q) /\ q[j + a] = t[j]
  <2> SUFFICES ASSUME NEW j \in 1 .. b PROVE j + a \in 1 .. Len(q) /\ q[j + a] = t[j]
    OBVIOUS
  <2>1. j + a \in 1 .. Len(q) /\ ~(j + a <= a) /\ j + a - a = j BY <1>1, <1>2
  <2> QED BY <2>1, <1>2
<1>5. \A i \in 1 .. Len(q) : \/ i \in 1 .. a /\ q[i] = s[i]
                             \/ i > a /\ i - a \in 1 .. b /\ q[i] = t[i - a]
  BY <1>1, <1>2
<1>6. \A i \in 1 .. Len(q) : Place(q[i]) \in 0 .. 90
  BY <1>2, PlaceType, ElementOfSeq
<1> HIDE DEF a, b
<1>7. Ordered(q)
  <2> SUFFICES ASSUME NEW i \in 1 .. Len(q), NEW j \in 1 .. Len(q), i < j,
                      Place(q[i]) > 0, Place(q[j]) > 0
               PROVE  Before(Place(q[i]), Place(q[j]))
    BY DEF Ordered
  <2>1. CASE i \in 1 .. a /\ j \in 1 .. a
    <3>1. q[i] = s[i] /\ q[j] = s[j] BY <1>3, <2>1
    <3> QED BY <2>1, <3>1 DEF Ordered, a
  <2>2. CASE i > a /\ j > a
    <3>1. i \notin 1 .. a /\ j \notin 1 .. a BY <1>1, <2>2
    <3>2. i - a \in 1 .. b /\ q[i] = t[i - a] BY <1>5, <3>1
    <3>3. j - a \in 1 .. b /\ q[j] = t[j - a] BY <1>5, <3>1
    <3>4. i - a < j - a BY <1>1
    <3> QED BY <3>2, <3>3, <3>4 DEF Ordered, WellMade, b
  <2>3. CASE i \in 1 .. a /\ j > a
    <3>1. q[i] = s[i] /\ j - a \in 1 .. b /\ q[j] = t[j - a]
      BY <1>1, <1>5, <2>3
    <3> QED BY <2>3, <3>1 DEF a, b
  <2> QED BY <1>1, <1>5, <2>1, <2>2, <2>3
<1>8. Scoped(q)
  <2> SUFFICES ASSUME NEW i \in 1 .. Len(q), q[i].op # "conclude"
               PROVE  \E j \in 1 .. Len(q) : /\ i <= j /\ q[j].op = "close"
                                             /\ Place(q[i]) > 0 => Place(q[j]) <= Top(Place(q[i]))
    BY DEF Scoped
  <2>1. CASE i \in 1 .. a /\ s[i].op = "close"
    <3>1. q[i] = s[i] /\ s[i] \in Steps BY <2>1, <1>3, ElementOfSeq DEF a
    <3>2. Place(q[i]) <= Top(Place(q[i])) BY <3>1, <2>1, CloseOutside DEF Top
    <3> QED BY <2>1, <3>1, <3>2
  <2>2. CASE i \in 1 .. a /\ s[i].op # "close"
    <3>1. q[i] = s[i] /\ 1 + a \in 1 .. Len(q) /\ q[1 + a] = t[1] /\ i <= 1 + a
      BY <1>1, <1>3, <1>4, <2>2
    <3> QED BY <2>2, <3>1 DEF a
  <2>3. CASE i > a
    <3>1. i - a \in 1 .. b /\ q[i] = t[i - a] BY <1>1, <1>5, <2>3
    <3>2. PICK j \in 1 .. b : /\ i - a <= j /\ t[j].op = "close"
                              /\ Place(t[i - a]) > 0 => Place(t[j]) <= Top(Place(t[i - a]))
      BY <3>1 DEF WellMade, Scoped, b
    <3>3. j + a \in 1 .. Len(q) /\ q[j + a] = t[j] BY <1>4
    <3>4. i <= j + a BY <1>1, <3>1, <3>2
    <3> QED BY <3>1, <3>2, <3>3, <3>4
  <2> QED BY <1>1, <1>5, <2>1, <2>2, <2>3
<1>9. ASSUME NEW m \in Nat, NEW n \in Nat, Block(s, m, n), Block(t, m, n),
             Place(t[1]) \notin m .. n
      PROVE  Block(q, m, n)
  <2> SUFFICES ASSUME NEW i \in 1 .. Len(q), NEW j \in 1 .. Len(q), i < j,
                      Place(q[i]) \notin m .. n, Place(q[j]) \in m + 1 .. n
               PROVE  \E l \in 1 .. Len(q) : i < l /\ l < j /\ Place(q[l]) = m
    BY DEF Block
  <2>1. CASE i \in 1 .. a /\ j \in 1 .. a
    <3>1. q[i] = s[i] /\ q[j] = s[j] BY <1>3, <2>1
    <3>2. PICK l \in 1 .. a : i < l /\ l < j /\ Place(s[l]) = m BY <2>1, <3>1, <1>9 DEF Block, a
    <3> QED BY <3>2, <1>3
  <2>2. CASE j > a
    <3>1. j - a \in 1 .. b /\ q[j] = t[j - a] BY <1>1, <1>5, <2>2
    <3>2. PICK o \in 1 .. b : o < j - a /\ Place(t[o]) \notin m .. n /\ o + a >= i
      <4>1. CASE i \in 1 .. a
        <5>1. 1 \in 1 .. b /\ 1 + a >= i BY <1>1, <4>1
        <5>2. j - a # 1 BY <3>1, <1>9
        <5> QED BY <5>1, <5>2, <3>1, <1>9
      <4>2. CASE i > a
        <5>1. i - a \in 1 .. b /\ q[i] = t[i - a] /\ i - a < j - a /\ i - a + a >= i
          BY <1>1, <1>5, <4>2, <2>2
        <5> QED BY <5>1
      <4> QED BY <1>1, <1>5, <4>1, <4>2
    <3>3. PICK l \in 1 .. b : o < l /\ l < j - a /\ Place(t[l]) = m
      BY <3>1, <3>2, <1>9 DEF Block, b
    <3>4. l + a \in 1 .. Len(q) /\ q[l + a] = t[l] /\ i < l + a /\ l + a < j
      BY <3>2, <3>3, <1>1, <1>4
    <3> QED BY <3>3, <3>4
  <2> QED BY <1>1, <1>5, <2>1, <2>2
<1>10. Blocks(q)
  BY <1>9 DEF WellMade, Blocks, Outside
<1>11. Paired(q)
  <2> SUFFICES ASSUME NEW i \in 1 .. Len(q)
               PROVE  \E j \in 1 .. Len(q) : i <= j /\ Place(q[j]) = Needs(Place(q[i]))
    BY DEF Paired
  <2>1. CASE i \in 1 .. a
    <3>1. q[i] = s[i] BY <1>3, <2>1
    <3>2. PICK j \in 1 .. a : i <= j /\ Place(s[j]) = Needs(Place(s[i])) BY <2>1 DEF Paired, a
    <3> QED BY <3>1, <3>2, <1>3
  <2>2. CASE i > a
    <3>1. i - a \in 1 .. b /\ q[i] = t[i - a] BY <1>1, <1>5, <2>2
    <3>2. PICK j \in 1 .. b : i - a <= j /\ Place(t[j]) = Needs(Place(t[i - a]))
      BY <3>1 DEF WellMade, Paired, b
    <3>3. j + a \in 1 .. Len(q) /\ q[j + a] = t[j] BY <1>4
    <3>4. i <= j + a BY <1>1, <3>1, <3>2
    <3> QED BY <3>1, <3>2, <3>3, <3>4
  <2> QED BY <1>1, <1>5, <2>1, <2>2
<1> QED BY <1>2, <1>7, <1>8, <1>10, <1>11 DEF WellMade, q

----------------------------------------------------------------------------
(* The programs are well made *)

\* The place of the step at position p of the longest program: 0 for a step
\* that only looks, and the second call of a rollback is where the first was.
Looks == {4, 6, 32, 34, 35, 37, 40, 41, 43, 45, 47, 51, 52, 54, 56, 59, 62, 72, 73, 84}
Spot(p) == IF p \in Looks THEN 0
           ELSE IF p \in {8, 15} THEN p - 1 ELSE IF p \in {82, 83} THEN p - 2 ELSE p
Placed(q, c) == q \in Seq(Steps) /\ \A i \in 1 .. Len(q) : Place(q[i]) = Spot(c + i)

\* A block is entered at its first place only.
EnteredFirst(m, n) ==
    /\ Spot(m) = m
    /\ \A x, y \in Nat : x < y /\ Spot(x) \notin m .. n /\ Spot(y) \in m + 1 .. n =>
           x < m /\ m < y

\* What is placed is ordered and has its blocks.
LEMMA PlacedGood ==
  ASSUME NEW q, NEW c \in Nat, Placed(q, c)
  PROVE  Ordered(q) /\ Blocks(q)
<1>1. q \in Seq(Steps) /\ Len(q) \in Nat
  BY DEF Placed
<1>2. Ordered(q)
  <2> SUFFICES ASSUME NEW i \in 1 .. Len(q), NEW j \in 1 .. Len(q), i < j,
                      Spot(c + i) > 0, Spot(c + j) > 0
               PROVE  Before(Spot(c + i), Spot(c + j))
    BY DEF Ordered, Placed
  <2>1. c + i \in Nat /\ c + j \in Nat /\ c + i < c + j BY <1>1
  <2>2. ASSUME NEW x \in Nat, NEW y \in Nat, x < y, Spot(x) > 0, Spot(y) > 0
        PROVE  Before(Spot(x), Spot(y))
    BY <2>2 DEF Spot, Looks, Before
  <2> QED BY <2>1, <2>2
<1>3. ASSUME NEW m \in Nat, NEW n \in Nat, EnteredFirst(m, n)
      PROVE  Block(q, m, n)
  <2> SUFFICES ASSUME NEW i \in 1 .. Len(q), NEW j \in 1 .. Len(q), i < j,
                      Spot(c + i) \notin m .. n, Spot(c + j) \in m + 1 .. n
               PROVE  \E k \in 1 .. Len(q) : i < k /\ k < j /\ Place(q[k]) = m
    BY DEF Block, Placed
  <2>1. c + i \in Nat /\ c + j \in Nat /\ c + i < c + j BY <1>1
  <2>2. c + i < m /\ m < c + j BY <2>1, <1>3 DEF EnteredFirst
  <2>3. m - c \in 1 .. Len(q) /\ i < m - c /\ m - c < j /\ c + (m - c) = m BY <1>1, <2>2
  <2>4. Place(q[m - c]) = m BY <2>3, <1>3 DEF Placed, EnteredFirst
  <2> QED BY <2>3, <2>4
<1>4. Block(q, 2, 3)
  <2>1. EnteredFirst(2, 3) BY DEF EnteredFirst, Spot, Looks
  <2>2. 2 \in Nat /\ 3 \in Nat OBVIOUS
  <2> QED BY <2>1, <2>2, <1>3, Zenon
<1>5. Block(q, 9, 10)
  <2>1. EnteredFirst(9, 10) BY DEF EnteredFirst, Spot, Looks
  <2>2. 9 \in Nat /\ 10 \in Nat OBVIOUS
  <2> QED BY <2>1, <2>2, <1>3, Zenon
<1>6. Block(q, 12, 13)
  <2>1. EnteredFirst(12, 13) BY DEF EnteredFirst, Spot, Looks
  <2>2. 12 \in Nat /\ 13 \in Nat OBVIOUS
  <2> QED BY <2>1, <2>2, <1>3, Zenon
<1>7. Block(q, 57, 58)
  <2>1. EnteredFirst(57, 58) BY DEF EnteredFirst, Spot, Looks
  <2>2. 57 \in Nat /\ 58 \in Nat OBVIOUS
  <2> QED BY <2>1, <2>2, <1>3, Zenon
<1>8. Block(q, 74, 81)
  <2>1. EnteredFirst(74, 81) BY DEF EnteredFirst, Spot, Looks
  <2>2. 74 \in Nat /\ 81 \in Nat OBVIOUS
  <2> QED BY <2>1, <2>2, <1>3, Zenon
<1> QED BY <1>2, <1>4, <1>5, <1>6, <1>7, <1>8 DEF Blocks

\* Two placed lists in a row.
LEMMA PlacedJoin ==
  ASSUME NEW s, NEW t, NEW c \in Nat, NEW d \in Nat, d = c + Len(s), Placed(s, c), Placed(t, d)
  PROVE  Placed(s \o t, c) /\ Len(s \o t) = Len(s) + Len(t)
<1>1. s \in Seq(Steps) /\ t \in Seq(Steps) /\ Len(s) \in Nat /\ Len(t) \in Nat
  BY DEF Placed
<1>2. s \o t \in Seq(Steps) /\ Len(s \o t) = Len(s) + Len(t)
      /\ \A i \in 1 .. Len(s) + Len(t) : (s \o t)[i] = IF i <= Len(s) THEN s[i] ELSE t[i - Len(s)]
  BY <1>1, ConcatProperties
<1>3. ASSUME NEW i \in 1 .. Len(s) + Len(t) PROVE Place((s \o t)[i]) = Spot(c + i)
  <2>1. CASE i <= Len(s)
    <3>1. i \in 1 .. Len(s) /\ (s \o t)[i] = s[i] BY <1>1, <1>2, <2>1
    <3> QED BY <3>1 DEF Placed
  <2>2. CASE ~(i <= Len(s))
    <3>1. i - Len(s) \in 1 .. Len(t) /\ (s \o t)[i] = t[i - Len(s)] BY <1>1, <1>2, <2>2
    <3>2. d + (i - Len(s)) = c + i BY <1>1
    <3> QED BY <3>1, <3>2 DEF Placed
  <2> QED BY <2>1, <2>2
<1> QED BY <1>2, <1>3 DEF Placed

\* The steps of --cgroups and their places.
LEMMA CgroupPlaces ==
  /\ S("spawn", "main") \in Steps /\ Place(S("spawn", "main")) = 2
  /\ S("guard", "main") \in Steps /\ Place(S("guard", "main")) = 3
  /\ S("deadline", "none") \in Steps /\ Place(S("deadline", "none")) = 0
  /\ S("apply", "main") \in Steps /\ Place(S("apply", "main")) = 5
  /\ S("inspect", "none") \in Steps /\ Place(S("inspect", "none")) = 0
  /\ S("rollback", "main") \in Steps /\ Place(S("rollback", "main")) = 7
  /\ S("spawn", "crash") \in Steps /\ Place(S("spawn", "crash")) = 9
  /\ S("guard", "crash") \in Steps /\ Place(S("guard", "crash")) = 10
  /\ S("apply", "crash") \in Steps /\ Place(S("apply", "crash")) = 11
  /\ S("w_forget", "none") \in Steps /\ Place(S("w_forget", "none")) = 12
  /\ S("adopt", "none") \in Steps /\ Place(S("adopt", "none")) = 13
  /\ S("rollback", "crash") \in Steps /\ Place(S("rollback", "crash")) = 14
  /\ S("end_sleeper", "crash") \in Steps /\ Place(S("end_sleeper", "crash")) = 16
  /\ S("end_child", "main") \in Steps /\ Place(S("end_child", "main")) = 17
  /\ S("no_groups", "none") \in Steps /\ Place(S("no_groups", "none")) = 18
BY DEF S, Steps, Place, DropPlace, ClosePlace, AddPlace, RemovePlace, Sleepers, Roles, Owners, Guards

\* The steps of --zram and their places.
LEMMA ZramPlaces ==
  /\ S("deadline", "none") \in Steps /\ Place(S("deadline", "none")) = 0
  /\ S("add", "bench") \in Steps /\ Place(S("add", "bench")) = 33
  /\ S("setup", "bench") \in Steps /\ Place(S("setup", "bench")) = 0
  /\ S("benchmark", "none") \in Steps /\ Place(S("benchmark", "none")) = 0
  /\ S("remove", "bench") \in Steps /\ Place(S("remove", "bench")) = 36
  /\ S("add", "a") \in Steps /\ Place(S("add", "a")) = 38
  /\ S("add", "b") \in Steps /\ Place(S("add", "b")) = 39
  /\ S("setup", "a") \in Steps /\ Place(S("setup", "a")) = 0
  /\ S("setup", "b") \in Steps /\ Place(S("setup", "b")) = 0
  /\ S("on", "a") \in Steps /\ Place(S("on", "a")) = 42
  /\ S("check", "a") \in Steps /\ Place(S("check", "a")) = 0
  /\ S("on", "b") \in Steps /\ Place(S("on", "b")) = 44
  /\ S("check", "ab") \in Steps /\ Place(S("check", "ab")) = 0
  /\ S("off", "a") \in Steps /\ Place(S("off", "a")) = 46
  /\ S("check", "b") \in Steps /\ Place(S("check", "b")) = 0
  /\ S("off", "b") \in Steps /\ Place(S("off", "b")) = 48
  /\ S("remove", "a") \in Steps /\ Place(S("remove", "a")) = 49
  /\ S("remove", "b") \in Steps /\ Place(S("remove", "b")) = 50
  /\ S("w_base", "none") \in Steps /\ Place(S("w_base", "none")) = 0
  /\ S("add", "w") \in Steps /\ Place(S("add", "w")) = 53
  /\ S("setup", "w") \in Steps /\ Place(S("setup", "w")) = 0
  /\ S("on", "w") \in Steps /\ Place(S("on", "w")) = 55
  /\ S("check", "w") \in Steps /\ Place(S("check", "w")) = 0
  /\ S("w_persist", "w") \in Steps /\ Place(S("w_persist", "w")) = 57
  /\ S("adopt_zram", "w") \in Steps /\ Place(S("adopt_zram", "w")) = 58
  /\ S("resume", "w") \in Steps /\ Place(S("resume", "w")) = 0
  /\ S("off", "w") \in Steps /\ Place(S("off", "w")) = 60
  /\ S("remove", "w") \in Steps /\ Place(S("remove", "w")) = 61
  /\ S("zram0_same", "none") \in Steps /\ Place(S("zram0_same", "none")) = 0
BY DEF S, Steps, Place, DropPlace, ClosePlace, AddPlace, RemovePlace, Sleepers, Roles, Owners, Guards

\* The steps of --tiering and their places.
LEMMA TieringPlaces ==
  /\ S("inspect", "none") \in Steps /\ Place(S("inspect", "none")) = 0
  /\ S("deadline", "none") \in Steps /\ Place(S("deadline", "none")) = 0
  /\ S("file_create", "none") \in Steps /\ Place(S("file_create", "none")) = 74
  /\ S("file_on", "none") \in Steps /\ Place(S("file_on", "none")) = 75
  /\ S("file_verify", "none") \in Steps /\ Place(S("file_verify", "none")) = 76
  /\ S("file_check", "none") \in Steps /\ Place(S("file_check", "none")) = 77
  /\ S("file_deadline", "none") \in Steps /\ Place(S("file_deadline", "none")) = 78
  /\ S("file_resume", "none") \in Steps /\ Place(S("file_resume", "none")) = 79
  /\ S("file_off", "none") \in Steps /\ Place(S("file_off", "none")) = 80
  /\ S("file_unlink", "none") \in Steps /\ Place(S("file_unlink", "none")) = 81
BY DEF S, Steps, Place, DropPlace, ClosePlace, AddPlace, RemovePlace, Sleepers, Roles, Owners, Guards

\* What encloses a scope.
LEMMA FramePlaces ==
  /\ S("scope_deadline", "cgroups") \in Steps /\ Place(S("scope_deadline", "cgroups")) = 1
  /\ S("scope_deadline", "zram") \in Steps /\ Place(S("scope_deadline", "zram")) = 31
  /\ S("scope_deadline", "tiering") \in Steps /\ Place(S("scope_deadline", "tiering")) = 71
  /\ S("close", "cgroups") \in Steps /\ Place(S("close", "cgroups")) = 24
  /\ S("close", "zram") \in Steps /\ Place(S("close", "zram")) = 65
  /\ S("close", "tiering") \in Steps /\ Place(S("close", "tiering")) = 85
  /\ S("conclude", "none") \in Steps /\ Place(S("conclude", "none")) = 90
BY DEF S, Steps, Place, DropPlace, ClosePlace, AddPlace, RemovePlace, Sleepers, Roles, Owners, Guards

\* The destructors.
LEMMA DropPlaces ==
  /\ S("drop", "w_cleanup") \in Steps /\ Place(S("drop", "w_cleanup")) = 19
  /\ S("drop", "w_child") \in Steps /\ Place(S("drop", "w_child")) = 20
  /\ S("drop", "recovery") \in Steps /\ Place(S("drop", "recovery")) = 21
  /\ S("drop", "cleanup") \in Steps /\ Place(S("drop", "cleanup")) = 22
  /\ S("drop", "child") \in Steps /\ Place(S("drop", "child")) = 23
  /\ S("drop_zram", "worker") \in Steps /\ Place(S("drop_zram", "worker")) = 63
  /\ S("drop_zram", "harness") \in Steps /\ Place(S("drop_zram", "harness")) = 64
BY DEF S, Steps, Place, DropPlace, ClosePlace, AddPlace, RemovePlace, Sleepers, Roles, Owners, Guards

\* Where the parts of the programs are.
CgroupFirstPart ==
    <<S("spawn", "main"), S("guard", "main"), S("deadline", "none"), S("apply", "main"),
    S("inspect", "none"), S("rollback", "main"), S("rollback", "main")>>

\* The first part of --cgroups.
LEMMA CgroupFirst == Placed(CgroupFirstPart, 1) /\ Len(CgroupFirstPart) = 7
<1>1. CgroupFirstPart \in Seq(Steps) /\ Len(CgroupFirstPart) = 7
  BY CgroupPlaces DEF CgroupFirstPart
<1>2. /\ CgroupFirstPart[1] = S("spawn", "main") /\ CgroupFirstPart[2] = S("guard", "main") /\ CgroupFirstPart[3] = S("deadline", "none")
      /\ CgroupFirstPart[4] = S("apply", "main") /\ CgroupFirstPart[5] = S("inspect", "none") /\ CgroupFirstPart[6] = S("rollback", "main")
      /\ CgroupFirstPart[7] = S("rollback", "main")
  BY DEF CgroupFirstPart
<1>3. /\ Spot(1 + 1) = 2 /\ Spot(1 + 2) = 3 /\ Spot(1 + 3) = 0 /\ Spot(1 + 4) = 5 /\ Spot(1 + 5) = 0
      /\ Spot(1 + 6) = 7 /\ Spot(1 + 7) = 7
  BY DEF Spot, Looks
<1>4. \A i \in 1 .. 7 : Place(CgroupFirstPart[i]) = Spot(1 + i)
  BY <1>2, <1>3, CgroupPlaces
<1> QED BY <1>1, <1>4 DEF Placed

CgroupWorkerPart ==
    <<S("spawn", "crash"), S("guard", "crash"), S("apply", "crash"), S("w_forget", "none")>>

\* The crash worker of --cgroups.
LEMMA CgroupWorker == Placed(CgroupWorkerPart, 8) /\ Len(CgroupWorkerPart) = 4
<1>1. CgroupWorkerPart \in Seq(Steps) /\ Len(CgroupWorkerPart) = 4
  BY CgroupPlaces DEF CgroupWorkerPart
<1>2. /\ CgroupWorkerPart[1] = S("spawn", "crash") /\ CgroupWorkerPart[2] = S("guard", "crash") /\ CgroupWorkerPart[3] = S("apply", "crash")
      /\ CgroupWorkerPart[4] = S("w_forget", "none")
  BY DEF CgroupWorkerPart
<1>3. /\ Spot(8 + 1) = 9 /\ Spot(8 + 2) = 10 /\ Spot(8 + 3) = 11 /\ Spot(8 + 4) = 12
  BY DEF Spot, Looks
<1>4. \A i \in 1 .. 4 : Place(CgroupWorkerPart[i]) = Spot(8 + i)
  BY <1>2, <1>3, CgroupPlaces
<1> QED BY <1>1, <1>4 DEF Placed

CgroupLastPart ==
    <<S("adopt", "none"), S("rollback", "crash"), S("rollback", "crash"),
    S("end_sleeper", "crash"), S("end_child", "main"), S("no_groups", "none")>>

\* The part of --cgroups after the worker.
LEMMA CgroupLast == Placed(CgroupLastPart, 12) /\ Len(CgroupLastPart) = 6
<1>1. CgroupLastPart \in Seq(Steps) /\ Len(CgroupLastPart) = 6
  BY CgroupPlaces DEF CgroupLastPart
<1>2. /\ CgroupLastPart[1] = S("adopt", "none") /\ CgroupLastPart[2] = S("rollback", "crash") /\ CgroupLastPart[3] = S("rollback", "crash")
      /\ CgroupLastPart[4] = S("end_sleeper", "crash") /\ CgroupLastPart[5] = S("end_child", "main") /\ CgroupLastPart[6] = S("no_groups", "none")
  BY DEF CgroupLastPart
<1>3. /\ Spot(12 + 1) = 13 /\ Spot(12 + 2) = 14 /\ Spot(12 + 3) = 14 /\ Spot(12 + 4) = 16 /\ Spot(12 + 5) = 17
      /\ Spot(12 + 6) = 18
  BY DEF Spot, Looks
<1>4. \A i \in 1 .. 6 : Place(CgroupLastPart[i]) = Spot(12 + i)
  BY <1>2, <1>3, CgroupPlaces
<1> QED BY <1>1, <1>4 DEF Placed

ZramFirstPart ==
    <<S("deadline", "none"), S("add", "bench"), S("setup", "bench"), S("benchmark", "none"),
    S("remove", "bench"), S("deadline", "none"), S("add", "a"), S("add", "b"),
    S("setup", "a"), S("setup", "b"), S("on", "a"), S("check", "a"), S("on", "b"),
    S("check", "ab"), S("off", "a"), S("check", "b"), S("off", "b"), S("remove", "a"),
    S("remove", "b"), S("deadline", "none")>>

\* The part of --zram before its worker.
LEMMA ZramFirst == Placed(ZramFirstPart, 31) /\ Len(ZramFirstPart) = 20
<1>1. ZramFirstPart \in Seq(Steps) /\ Len(ZramFirstPart) = 20
  BY ZramPlaces DEF ZramFirstPart
<1>2. /\ ZramFirstPart[1] = S("deadline", "none") /\ ZramFirstPart[2] = S("add", "bench") /\ ZramFirstPart[3] = S("setup", "bench")
      /\ ZramFirstPart[4] = S("benchmark", "none") /\ ZramFirstPart[5] = S("remove", "bench") /\ ZramFirstPart[6] = S("deadline", "none")
      /\ ZramFirstPart[7] = S("add", "a") /\ ZramFirstPart[8] = S("add", "b") /\ ZramFirstPart[9] = S("setup", "a")
      /\ ZramFirstPart[10] = S("setup", "b") /\ ZramFirstPart[11] = S("on", "a") /\ ZramFirstPart[12] = S("check", "a")
      /\ ZramFirstPart[13] = S("on", "b") /\ ZramFirstPart[14] = S("check", "ab") /\ ZramFirstPart[15] = S("off", "a")
      /\ ZramFirstPart[16] = S("check", "b") /\ ZramFirstPart[17] = S("off", "b") /\ ZramFirstPart[18] = S("remove", "a")
      /\ ZramFirstPart[19] = S("remove", "b") /\ ZramFirstPart[20] = S("deadline", "none")
  BY DEF ZramFirstPart
<1>3. /\ Spot(31 + 1) = 0 /\ Spot(31 + 2) = 33 /\ Spot(31 + 3) = 0 /\ Spot(31 + 4) = 0 /\ Spot(31 + 5) = 36
      /\ Spot(31 + 6) = 0 /\ Spot(31 + 7) = 38 /\ Spot(31 + 8) = 39 /\ Spot(31 + 9) = 0 /\ Spot(31 + 10) = 0
      /\ Spot(31 + 11) = 42 /\ Spot(31 + 12) = 0 /\ Spot(31 + 13) = 44 /\ Spot(31 + 14) = 0 /\ Spot(31 + 15) = 46
      /\ Spot(31 + 16) = 0 /\ Spot(31 + 17) = 48 /\ Spot(31 + 18) = 49 /\ Spot(31 + 19) = 50 /\ Spot(31 + 20) = 0
  BY DEF Spot, Looks
<1>4. \A i \in 1 .. 20 : Place(ZramFirstPart[i]) = Spot(31 + i)
  BY <1>2, <1>3, ZramPlaces
<1> QED BY <1>1, <1>4 DEF Placed

ZramWorkerPart ==
    <<S("w_base", "none"), S("add", "w"), S("setup", "w"), S("on", "w"), S("check", "w"),
    S("w_persist", "w")>>

\* The crash worker of --zram.
LEMMA ZramWorker == Placed(ZramWorkerPart, 51) /\ Len(ZramWorkerPart) = 6
<1>1. ZramWorkerPart \in Seq(Steps) /\ Len(ZramWorkerPart) = 6
  BY ZramPlaces DEF ZramWorkerPart
<1>2. /\ ZramWorkerPart[1] = S("w_base", "none") /\ ZramWorkerPart[2] = S("add", "w") /\ ZramWorkerPart[3] = S("setup", "w")
      /\ ZramWorkerPart[4] = S("on", "w") /\ ZramWorkerPart[5] = S("check", "w") /\ ZramWorkerPart[6] = S("w_persist", "w")
  BY DEF ZramWorkerPart
<1>3. /\ Spot(51 + 1) = 0 /\ Spot(51 + 2) = 53 /\ Spot(51 + 3) = 0 /\ Spot(51 + 4) = 55 /\ Spot(51 + 5) = 0
      /\ Spot(51 + 6) = 57
  BY DEF Spot, Looks
<1>4. \A i \in 1 .. 6 : Place(ZramWorkerPart[i]) = Spot(51 + i)
  BY <1>2, <1>3, ZramPlaces
<1> QED BY <1>1, <1>4 DEF Placed

ZramLastPart ==
    <<S("adopt_zram", "w"), S("resume", "w"), S("off", "w"), S("remove", "w"),
    S("zram0_same", "none")>>

\* The part of --zram after the worker.
LEMMA ZramLast == Placed(ZramLastPart, 57) /\ Len(ZramLastPart) = 5
<1>1. ZramLastPart \in Seq(Steps) /\ Len(ZramLastPart) = 5
  BY ZramPlaces DEF ZramLastPart
<1>2. /\ ZramLastPart[1] = S("adopt_zram", "w") /\ ZramLastPart[2] = S("resume", "w") /\ ZramLastPart[3] = S("off", "w")
      /\ ZramLastPart[4] = S("remove", "w") /\ ZramLastPart[5] = S("zram0_same", "none")
  BY DEF ZramLastPart
<1>3. /\ Spot(57 + 1) = 58 /\ Spot(57 + 2) = 0 /\ Spot(57 + 3) = 60 /\ Spot(57 + 4) = 61 /\ Spot(57 + 5) = 0
  BY DEF Spot, Looks
<1>4. \A i \in 1 .. 5 : Place(ZramLastPart[i]) = Spot(57 + i)
  BY <1>2, <1>3, ZramPlaces
<1> QED BY <1>1, <1>4 DEF Placed

TieringFirstPart ==
    <<S("inspect", "none"), S("deadline", "none")>>

\* The looks of --tiering.
LEMMA TieringFirst == Placed(TieringFirstPart, 71) /\ Len(TieringFirstPart) = 2
<1>1. TieringFirstPart \in Seq(Steps) /\ Len(TieringFirstPart) = 2
  BY TieringPlaces DEF TieringFirstPart
<1>2. /\ TieringFirstPart[1] = S("inspect", "none") /\ TieringFirstPart[2] = S("deadline", "none")
  BY DEF TieringFirstPart
<1>3. /\ Spot(71 + 1) = 0 /\ Spot(71 + 2) = 0
  BY DEF Spot, Looks
<1>4. \A i \in 1 .. 2 : Place(TieringFirstPart[i]) = Spot(71 + i)
  BY <1>2, <1>3, TieringPlaces
<1> QED BY <1>1, <1>4 DEF Placed

TieringApplyPart ==
    <<S("file_create", "none"), S("file_on", "none"), S("file_verify", "none")>>

\* apply_swapfile.
LEMMA TieringApply == Placed(TieringApplyPart, 73) /\ Len(TieringApplyPart) = 3
<1>1. TieringApplyPart \in Seq(Steps) /\ Len(TieringApplyPart) = 3
  BY TieringPlaces DEF TieringApplyPart
<1>2. /\ TieringApplyPart[1] = S("file_create", "none") /\ TieringApplyPart[2] = S("file_on", "none") /\ TieringApplyPart[3] = S("file_verify", "none")
  BY DEF TieringApplyPart
<1>3. /\ Spot(73 + 1) = 74 /\ Spot(73 + 2) = 75 /\ Spot(73 + 3) = 76
  BY DEF Spot, Looks
<1>4. \A i \in 1 .. 3 : Place(TieringApplyPart[i]) = Spot(73 + i)
  BY <1>2, <1>3, TieringPlaces
<1> QED BY <1>1, <1>4 DEF Placed

TieringHoldPart ==
    <<S("file_check", "none"), S("file_deadline", "none"), S("file_resume", "none")>>

\* The part between apply and rollback.
LEMMA TieringHold == Placed(TieringHoldPart, 76) /\ Len(TieringHoldPart) = 3
<1>1. TieringHoldPart \in Seq(Steps) /\ Len(TieringHoldPart) = 3
  BY TieringPlaces DEF TieringHoldPart
<1>2. /\ TieringHoldPart[1] = S("file_check", "none") /\ TieringHoldPart[2] = S("file_deadline", "none") /\ TieringHoldPart[3] = S("file_resume", "none")
  BY DEF TieringHoldPart
<1>3. /\ Spot(76 + 1) = 77 /\ Spot(76 + 2) = 78 /\ Spot(76 + 3) = 79
  BY DEF Spot, Looks
<1>4. \A i \in 1 .. 3 : Place(TieringHoldPart[i]) = Spot(76 + i)
  BY <1>2, <1>3, TieringPlaces
<1> QED BY <1>1, <1>4 DEF Placed

TieringBackPart ==
    <<S("file_off", "none"), S("file_unlink", "none")>>

\* rollback_swapfile.
LEMMA TieringBack == Placed(TieringBackPart, 79) /\ Len(TieringBackPart) = 2
<1>1. TieringBackPart \in Seq(Steps) /\ Len(TieringBackPart) = 2
  BY TieringPlaces DEF TieringBackPart
<1>2. /\ TieringBackPart[1] = S("file_off", "none") /\ TieringBackPart[2] = S("file_unlink", "none")
  BY DEF TieringBackPart
<1>3. /\ Spot(79 + 1) = 80 /\ Spot(79 + 2) = 81
  BY DEF Spot, Looks
<1>4. \A i \in 1 .. 2 : Place(TieringBackPart[i]) = Spot(79 + i)
  BY <1>2, <1>3, TieringPlaces
<1> QED BY <1>1, <1>4 DEF Placed

TieringAgainPart ==
    <<S("file_off", "none"), S("file_unlink", "none")>>

\* The second rollback_swapfile.
LEMMA TieringAgain == Placed(TieringAgainPart, 81) /\ Len(TieringAgainPart) = 2
<1>1. TieringAgainPart \in Seq(Steps) /\ Len(TieringAgainPart) = 2
  BY TieringPlaces DEF TieringAgainPart
<1>2. /\ TieringAgainPart[1] = S("file_off", "none") /\ TieringAgainPart[2] = S("file_unlink", "none")
  BY DEF TieringAgainPart
<1>3. /\ Spot(81 + 1) = 80 /\ Spot(81 + 2) = 81
  BY DEF Spot, Looks
<1>4. \A i \in 1 .. 2 : Place(TieringAgainPart[i]) = Spot(81 + i)
  BY <1>2, <1>3, TieringPlaces
<1> QED BY <1>1, <1>4 DEF Placed

TieringLastPart ==
    <<S("inspect", "none")>>

\* The last look of --tiering.
LEMMA TieringLast == Placed(TieringLastPart, 83) /\ Len(TieringLastPart) = 1
<1>1. TieringLastPart \in Seq(Steps) /\ Len(TieringLastPart) = 1
  BY TieringPlaces DEF TieringLastPart
<1>2. /\ TieringLastPart[1] = S("inspect", "none")
  BY DEF TieringLastPart
<1>3. /\ Spot(83 + 1) = 0
  BY DEF Spot, Looks
<1>4. \A i \in 1 .. 1 : Place(TieringLastPart[i]) = Spot(83 + i)
  BY <1>2, <1>3, TieringPlaces
<1> QED BY <1>1, <1>4 DEF Placed

\* What encloses the steps.
LEMMA FrameMade ==
  \A s \in {"cgroups", "zram", "tiering"} :
    /\ Placed(<<S("scope_deadline", s)>>, IF s = "cgroups" THEN 0 ELSE IF s = "zram" THEN 30 ELSE 70)
    /\ Len(<<S("scope_deadline", s)>>) = 1
    /\ <<S("close", s)>> \in Seq(Steps) /\ Len(<<S("close", s)>>) = 1
    /\ <<S("close", s)>>[1] = S("close", s) /\ S("close", s).op = "close"
    /\ Place(S("close", s)) = ClosePlace(s)
<1> SUFFICES ASSUME NEW s \in {"cgroups", "zram", "tiering"},
                    NEW c \in Nat, c = IF s = "cgroups" THEN 0 ELSE IF s = "zram" THEN 30 ELSE 70
             PROVE  /\ Placed(<<S("scope_deadline", s)>>, c)
                    /\ Len(<<S("scope_deadline", s)>>) = 1
                    /\ <<S("close", s)>> \in Seq(Steps) /\ Len(<<S("close", s)>>) = 1
                    /\ <<S("close", s)>>[1] = S("close", s) /\ S("close", s).op = "close"
                    /\ Place(S("close", s)) = ClosePlace(s)
  OBVIOUS
<1>1. S("close", s).op = "close" /\ S("close", s).arg = s
  BY DEF S
<1>2. S("close", s) \in Steps /\ S("scope_deadline", s) \in Steps
  BY FramePlaces
<1>3. Place(S("close", s)) = ClosePlace(s)
  BY <1>1, <1>2, CloseOutside
<1>4. Place(S("scope_deadline", s)) = Spot(c + 1)
  BY FramePlaces DEF Spot, Looks
<1>5. <<S("scope_deadline", s)>> \in Seq(Steps) /\ Len(<<S("scope_deadline", s)>>) = 1
      /\ \A i \in 1 .. 1 : <<S("scope_deadline", s)>>[i] = S("scope_deadline", s) /\ c + i = c + 1
  BY <1>2
<1>6. Placed(<<S("scope_deadline", s)>>, c)
  BY <1>4, <1>5 DEF Placed
<1> QED BY <1>1, <1>2, <1>3, <1>5, <1>6

\* The scopes up to their close.
LEMMA CgroupBody ==
  LET b == <<S("scope_deadline", "cgroups")>> \o CgroupSteps
  IN  Placed(b, 0) /\ Len(b) = 18
<1>1. Placed(CgroupFirstPart, 1) /\ Len(CgroupFirstPart) = 7
  BY CgroupFirst
<1>2. Placed(CgroupWorkerPart, 8) /\ Len(CgroupWorkerPart) = 4
  BY CgroupWorker
<1>3. Placed(CgroupFirstPart \o CgroupWorkerPart, 1) /\ Len(CgroupFirstPart \o CgroupWorkerPart) = 11
  <2>1. 1 \in Nat /\ 8 \in Nat /\ 8 = 1 + Len(CgroupFirstPart)
    BY <1>1
  <2>2. Placed(CgroupFirstPart \o CgroupWorkerPart, 1) /\ Len(CgroupFirstPart \o CgroupWorkerPart) = Len(CgroupFirstPart) + Len(CgroupWorkerPart)
    BY <1>1, <1>2, <2>1, PlacedJoin, Zenon
  <2> QED BY <1>1, <1>2, <2>2
<1>4. Placed(CgroupLastPart, 12) /\ Len(CgroupLastPart) = 6
  BY CgroupLast
<1>5. Placed(CgroupFirstPart \o CgroupWorkerPart \o CgroupLastPart, 1) /\ Len(CgroupFirstPart \o CgroupWorkerPart \o CgroupLastPart) = 17
  <2>1. 1 \in Nat /\ 12 \in Nat /\ 12 = 1 + Len(CgroupFirstPart \o CgroupWorkerPart)
    BY <1>3
  <2>2. Placed(CgroupFirstPart \o CgroupWorkerPart \o CgroupLastPart, 1) /\ Len(CgroupFirstPart \o CgroupWorkerPart \o CgroupLastPart) = Len(CgroupFirstPart \o CgroupWorkerPart) + Len(CgroupLastPart)
    BY <1>3, <1>4, <2>1, PlacedJoin, Zenon
  <2> QED BY <1>3, <1>4, <2>2
<1>6. CgroupSteps = CgroupFirstPart \o CgroupWorkerPart \o CgroupLastPart
  BY DEF CgroupSteps, CgroupWorkerSteps, CgroupFirstPart, CgroupWorkerPart, CgroupLastPart
<1>7. Placed(<<S("scope_deadline", "cgroups")>>, 0) /\ Len(<<S("scope_deadline", "cgroups")>>) = 1
  BY FrameMade
<1>8. Placed(CgroupSteps, 1) /\ Len(CgroupSteps) = 17
  BY <1>5, <1>6
<1> QED
  <2>1. 0 \in Nat /\ 1 \in Nat /\ 1 = 0 + Len(<<S("scope_deadline", "cgroups")>>)
    BY <1>7
  <2>2. Placed(<<S("scope_deadline", "cgroups")>> \o CgroupSteps, 0) /\ Len(<<S("scope_deadline", "cgroups")>> \o CgroupSteps) = Len(<<S("scope_deadline", "cgroups")>>) + Len(CgroupSteps)
    BY <1>7, <1>8, <2>1, PlacedJoin, Zenon
  <2> QED BY <1>7, <1>8, <2>2

\* --zram up to its close is placed.
LEMMA ZramBody ==
  LET b == <<S("scope_deadline", "zram")>> \o ZramSteps
  IN  Placed(b, 30) /\ Len(b) = 32
<1>1. Placed(ZramFirstPart, 31) /\ Len(ZramFirstPart) = 20
  BY ZramFirst
<1>2. Placed(ZramWorkerPart, 51) /\ Len(ZramWorkerPart) = 6
  BY ZramWorker
<1>3. Placed(ZramFirstPart \o ZramWorkerPart, 31) /\ Len(ZramFirstPart \o ZramWorkerPart) = 26
  <2>1. 31 \in Nat /\ 51 \in Nat /\ 51 = 31 + Len(ZramFirstPart)
    BY <1>1
  <2>2. Placed(ZramFirstPart \o ZramWorkerPart, 31) /\ Len(ZramFirstPart \o ZramWorkerPart) = Len(ZramFirstPart) + Len(ZramWorkerPart)
    BY <1>1, <1>2, <2>1, PlacedJoin, Zenon
  <2> QED BY <1>1, <1>2, <2>2
<1>4. Placed(ZramLastPart, 57) /\ Len(ZramLastPart) = 5
  BY ZramLast
<1>5. Placed(ZramFirstPart \o ZramWorkerPart \o ZramLastPart, 31) /\ Len(ZramFirstPart \o ZramWorkerPart \o ZramLastPart) = 31
  <2>1. 31 \in Nat /\ 57 \in Nat /\ 57 = 31 + Len(ZramFirstPart \o ZramWorkerPart)
    BY <1>3
  <2>2. Placed(ZramFirstPart \o ZramWorkerPart \o ZramLastPart, 31) /\ Len(ZramFirstPart \o ZramWorkerPart \o ZramLastPart) = Len(ZramFirstPart \o ZramWorkerPart) + Len(ZramLastPart)
    BY <1>3, <1>4, <2>1, PlacedJoin, Zenon
  <2> QED BY <1>3, <1>4, <2>2
<1>6. ZramSteps = ZramFirstPart \o ZramWorkerPart \o ZramLastPart
  BY DEF ZramSteps, ZramWorkerSteps, ZramFirstPart, ZramWorkerPart, ZramLastPart
<1>7. Placed(<<S("scope_deadline", "zram")>>, 30) /\ Len(<<S("scope_deadline", "zram")>>) = 1
  BY FrameMade
<1>8. Placed(ZramSteps, 31) /\ Len(ZramSteps) = 31
  BY <1>5, <1>6
<1> QED
  <2>1. 30 \in Nat /\ 31 \in Nat /\ 31 = 30 + Len(<<S("scope_deadline", "zram")>>)
    BY <1>7
  <2>2. Placed(<<S("scope_deadline", "zram")>> \o ZramSteps, 30) /\ Len(<<S("scope_deadline", "zram")>> \o ZramSteps) = Len(<<S("scope_deadline", "zram")>>) + Len(ZramSteps)
    BY <1>7, <1>8, <2>1, PlacedJoin, Zenon
  <2> QED BY <1>7, <1>8, <2>2

\* --tiering up to its close is placed.
LEMMA TieringBody ==
  LET b == <<S("scope_deadline", "tiering")>> \o TieringSteps
  IN  Placed(b, 70) /\ Len(b) = 14
<1> DEFINE x2 == TieringFirstPart \o TieringApplyPart
           x3 == x2 \o TieringHoldPart
           x4 == x3 \o TieringBackPart
           x5 == x4 \o TieringAgainPart
           x6 == x5 \o TieringLastPart
<1>1. TieringSteps = x6
  BY DEF TieringSteps, ApplyFile, RollbackFile, TieringFirstPart, TieringApplyPart,
         TieringHoldPart, TieringBackPart, TieringAgainPart, TieringLastPart
<1>2. Placed(x2, 71) /\ Len(x2) = 5
  <2>1. 71 \in Nat /\ 73 \in Nat /\ 73 = 71 + Len(TieringFirstPart)
    BY TieringFirst
  <2>2. Placed(TieringFirstPart \o TieringApplyPart, 71) /\ Len(TieringFirstPart \o TieringApplyPart) = Len(TieringFirstPart) + Len(TieringApplyPart)
    BY TieringFirst, TieringApply, <2>1, PlacedJoin, Zenon
  <2> QED BY TieringFirst, TieringApply, <2>2
<1> HIDE DEF x2
<1>3. Placed(x3, 71) /\ Len(x3) = 8
  <2>1. 71 \in Nat /\ 76 \in Nat /\ 76 = 71 + Len(x2)
    BY <1>2
  <2>2. Placed(x2 \o TieringHoldPart, 71) /\ Len(x2 \o TieringHoldPart) = Len(x2) + Len(TieringHoldPart)
    BY <1>2, TieringHold, <2>1, PlacedJoin, Zenon
  <2> QED BY <1>2, TieringHold, <2>2
<1> HIDE DEF x3
<1>4. Placed(x4, 71) /\ Len(x4) = 10
  <2>1. 71 \in Nat /\ 79 \in Nat /\ 79 = 71 + Len(x3)
    BY <1>3
  <2>2. Placed(x3 \o TieringBackPart, 71) /\ Len(x3 \o TieringBackPart) = Len(x3) + Len(TieringBackPart)
    BY <1>3, TieringBack, <2>1, PlacedJoin, Zenon
  <2> QED BY <1>3, TieringBack, <2>2
<1> HIDE DEF x4
<1>5. Placed(x5, 71) /\ Len(x5) = 12
  <2>1. 71 \in Nat /\ 81 \in Nat /\ 81 = 71 + Len(x4)
    BY <1>4
  <2>2. Placed(x4 \o TieringAgainPart, 71) /\ Len(x4 \o TieringAgainPart) = Len(x4) + Len(TieringAgainPart)
    BY <1>4, TieringAgain, <2>1, PlacedJoin, Zenon
  <2> QED BY <1>4, TieringAgain, <2>2
<1> HIDE DEF x5
<1>6. Placed(x6, 71) /\ Len(x6) = 13
  <2>1. 71 \in Nat /\ 83 \in Nat /\ 83 = 71 + Len(x5)
    BY <1>5
  <2>2. Placed(x5 \o TieringLastPart, 71) /\ Len(x5 \o TieringLastPart) = Len(x5) + Len(TieringLastPart)
    BY <1>5, TieringLast, <2>1, PlacedJoin, Zenon
  <2> QED BY <1>5, TieringLast, <2>2
<1> HIDE DEF x6
<1>7. Placed(<<S("scope_deadline", "tiering")>>, 70) /\ Len(<<S("scope_deadline", "tiering")>>) = 1
  BY FrameMade
<1> QED
  <2>1. 70 \in Nat /\ 71 \in Nat /\ 71 = 70 + Len(<<S("scope_deadline", "tiering")>>)
    BY <1>7
  <2>2. /\ Placed(<<S("scope_deadline", "tiering")>> \o x6, 70)
        /\ Len(<<S("scope_deadline", "tiering")>> \o x6) = Len(<<S("scope_deadline", "tiering")>>) + Len(x6)
    BY <1>6, <1>7, <2>1, PlacedJoin, Zenon
  <2> QED BY <1>1, <1>6, <1>7, <2>2

\* The places of a list are numbers, and a list of one is in order.
LEMMA PlaceOf ==
  ASSUME NEW q \in Seq(Steps), NEW i \in 1 .. Len(q)
  PROVE  Place(q[i]) \in 0 .. 90
BY PlaceType, ElementOfSeq

\* A list of one step.
LEMMA OneGood ==
  ASSUME NEW q, Len(q) = 1
  PROVE  Ordered(q) /\ Blocks(q)
<1>1. \A i, j \in 1 .. Len(q) : ~(i < j)
  OBVIOUS
<1> QED BY <1>1, Zenon DEF Ordered, Blocks, Block

\* Arithmetic of places.
LEMMA Above == ASSUME NEW p, NEW z \in Nat, p \in 0 .. 90, p = 0 \/ p > z
               PROVE  p = 0 \/ p \in z + 1 .. 90
OBVIOUS

\* A place inside a scope.
LEMMA Within == ASSUME NEW p, NEW c \in Nat, NEW z \in Nat, p \in 0 .. 90, p = 0 \/ (c < p /\ p < z)
                PROVE  p = 0 \/ p \in c + 1 .. z - 1
OBVIOUS

\* A place inside a scope is before those after it.
LEMMA Across == ASSUME NEW p, NEW r, NEW c \in Nat, NEW z \in Nat, p \in c + 1 .. z - 1, r \in z .. 90
                PROVE  Before(p, r) /\ p \in c + 1 .. z /\ p > c /\ p # 0 /\ r # 0
BY DEF Before

\* Places after the start of a scope.
LEMMA Beyond == ASSUME NEW p, NEW c \in Nat, NEW z \in Nat, c < z, p = 0 \/ p \in z .. 90 \/ p \in c + 1 .. z - 1
                PROVE  p = 0 \/ p > c
OBVIOUS

\* A list that may follow a close at place n.
Follows(t, n) == /\ WellMade(t) /\ t # <<>> /\ Outside(Place(t[1]))
                 /\ \A i \in 1 .. Len(t) : Place(t[i]) = 0 \/ Place(t[i]) > n

\* A scope before what may follow it.
Fits(b, c, z) ==
    /\ Placed(b, c) /\ Len(b) > 0 /\ Spot(c + 1) = c + 1 /\ Outside(c + 1)
    /\ \A n \in c + 1 .. z : Top(n) = z
    /\ \A i \in 1 .. Len(b) : Spot(c + i) = 0 \/ (c < Spot(c + i) /\ Spot(c + i) < z)
    /\ \A i \in 1 .. Len(b) : \E j \in 1 .. Len(b) : i <= j /\ Spot(c + j) = Needs(Spot(c + i))

\* A scope in front of what may follow it.
LEMMA ScopeMade ==
  ASSUME NEW s \in {"cgroups", "zram", "tiering"}, NEW c \in Nat, NEW b,
         NEW z \in 24 .. 85, Outside(z), z = ClosePlace(s), Fits(b, c, z), NEW t, Follows(t, z)
  PROVE  Follows(b \o (<<S("close", s)>> \o t), c)
<1> DEFINE k == S("close", s)
           u == <<k>> \o t
<1>1. /\ b \in Seq(Steps) /\ Len(b) \in Nat /\ Len(b) > 0
      /\ t \in Seq(Steps) /\ Len(t) \in Nat /\ Len(t) > 0
  BY EmptySeq DEF Fits, Placed, Follows, WellMade
<1>2. <<k>> \in Seq(Steps) /\ Len(<<k>>) = 1 /\ <<k>>[1] = k /\ k.op = "close"
      /\ Place(k) = z
  BY FrameMade
<1>3. z \in Nat /\ z > 0 /\ z \in z .. 90
  OBVIOUS
<1>4. Ordered(<<k>>) /\ Blocks(<<k>>)
  BY <1>2, OneGood
<1>5. \A i \in 1 .. Len(<<k>>) : <<k>>[i] = k
  BY <1>2
<1>16. Paired(<<k>>)
  <2>1. Needs(z) = z BY DEF ClosePlace, Needs
  <2> QED BY <2>1, <1>2, <1>5 DEF Paired
<1> HIDE DEF k
<1>6. \A i \in 1 .. Len(t) : Place(t[i]) = 0 \/ Place(t[i]) \in z + 1 .. 90
  <2> SUFFICES ASSUME NEW i \in 1 .. Len(t) PROVE Place(t[i]) = 0 \/ Place(t[i]) \in z + 1 .. 90
    OBVIOUS
  <2>1. Place(t[i]) \in 0 .. 90 /\ (Place(t[i]) = 0 \/ Place(t[i]) > z)
    BY <1>1, PlaceOf DEF Follows
  <2> QED BY <2>1, <1>3, Above, Zenon
<1>7. WellMade(u)
  <2>1. \A i \in 1 .. Len(<<k>>), j \in 1 .. Len(t) :
           Place(<<k>>[i]) > 0 /\ Place(t[j]) > 0 => Before(Place(<<k>>[i]), Place(t[j]))
    <3> SUFFICES ASSUME NEW i \in 1 .. Len(<<k>>), NEW j \in 1 .. Len(t), Place(t[j]) > 0
                 PROVE  Before(Place(<<k>>[i]), Place(t[j]))
      OBVIOUS
    <3>1. Place(t[j]) \in z + 1 .. 90 /\ Place(<<k>>[i]) = z BY <1>2, <1>5, <1>6
    <3> QED BY <3>1, <1>3 DEF Before
  <2>2. \A i \in 1 .. Len(<<k>>) : <<k>>[i].op = "close" BY <1>2, <1>5
  <2> QED BY <1>1, <1>2, <1>4, <1>16, <2>1, <2>2, JoinMade DEF Follows
<1>8. u \in Seq(Steps) /\ Len(u) = 1 + Len(t) /\ u[1] = k
      /\ \A i \in 1 .. Len(u) : Place(u[i]) = 0 \/ Place(u[i]) \in z .. 90
  <2>1. /\ u \in Seq(Steps) /\ Len(u) = 1 + Len(t)
        /\ \A i \in 1 .. 1 + Len(t) : u[i] = IF i <= 1 THEN <<k>>[i] ELSE t[i - 1]
    BY <1>1, <1>2, ConcatProperties
  <2> HIDE DEF u
  <2>2. u[1] = k BY <2>1, <1>1, <1>2
  <2> SUFFICES ASSUME NEW i \in 1 .. Len(u) PROVE Place(u[i]) = 0 \/ Place(u[i]) \in z .. 90
    BY <2>1, <2>2
  <2>3. CASE i = 1
    <3>1. Place(u[i]) = z BY <2>2, <2>3, <1>2
    <3> QED BY <3>1, <1>3
  <2>4. CASE i # 1
    <3>1. i - 1 \in 1 .. Len(t) /\ u[i] = t[i - 1] BY <2>1, <2>4, <1>1
    <3>2. Place(u[i]) = 0 \/ Place(u[i]) \in z + 1 .. 90 BY <3>1, <1>6
    <3>3. z + 1 .. 90 \subseteq z .. 90 BY <1>3
    <3> QED BY <3>2, <3>3
  <2> QED BY <2>3, <2>4
<1> HIDE DEF u
<1>9. \A i \in 1 .. Len(b) : Place(b[i]) = 0 \/ Place(b[i]) \in c + 1 .. z - 1
  <2> SUFFICES ASSUME NEW i \in 1 .. Len(b) PROVE Place(b[i]) = 0 \/ Place(b[i]) \in c + 1 .. z - 1
    OBVIOUS
  <2>1. Place(b[i]) \in 0 .. 90 BY <1>1, PlaceOf
  <2>2. Place(b[i]) = 0 \/ (c < Place(b[i]) /\ Place(b[i]) < z) BY DEF Fits, Placed
  <2> QED BY <2>1, <2>2, <1>3, Within, Zenon
<1>10. WellMade(b \o u)
  <2>1. Ordered(b) /\ Blocks(b) BY PlacedGood DEF Fits
  <2>2. u # <<>> BY <1>1, <1>8, EmptySeq
  <2>3. Outside(Place(u[1])) BY <1>2, <1>8
  <2>4. ASSUME NEW i \in 1 .. Len(b), NEW j \in 1 .. Len(u), Place(b[i]) > 0, Place(u[j]) > 0
        PROVE  Before(Place(b[i]), Place(u[j]))
    <3>1. Place(b[i]) # 0 /\ Place(u[j]) # 0 BY <2>4
    <3>2. Place(b[i]) \in c + 1 .. z - 1 /\ Place(u[j]) \in z .. 90 BY <3>1, <1>8, <1>9
    <3> QED BY <3>2, <1>3, Across, Zenon
  <2>5. ASSUME NEW i \in 1 .. Len(b)
        PROVE  u[1].op = "close" /\ (Place(b[i]) > 0 => Place(u[1]) <= Top(Place(b[i])))
    <3>1. u[1].op = "close" /\ Place(u[1]) = z BY <1>2, <1>8
    <3>2. ASSUME Place(b[i]) > 0 PROVE Place(b[i]) \in c + 1 .. z
      <4>1. Place(b[i]) # 0 BY <3>2
      <4>2. Place(b[i]) \in c + 1 .. z - 1 BY <4>1, <1>9
      <4> QED BY <4>2, <1>3, Across, Zenon
    <3>3. ASSUME Place(b[i]) > 0 PROVE Top(Place(b[i])) = z BY <3>2, <3>3 DEF Fits
    <3> QED BY <3>1, <3>3, <1>3
  <2>6. Paired(b) BY DEF Fits, Placed, Paired
  <2> QED BY <1>1, <1>7, <2>1, <2>2, <2>3, <2>4, <2>5, <2>6, JoinMade
<1>11. /\ b \o u \in Seq(Steps) /\ Len(b \o u) = Len(b) + Len(u)
       /\ \A i \in 1 .. Len(b) + Len(u) : (b \o u)[i] = IF i <= Len(b) THEN b[i] ELSE u[i - Len(b)]
  <2>1. b \in Seq(Steps) /\ u \in Seq(Steps) BY <1>1, <1>8
  <2> QED BY <2>1, ConcatProperties
<1>12. 1 \in 1 .. Len(b) /\ 1 \in 1 .. Len(b) + Len(u)
  <2>1. Len(u) \in Nat BY <1>1, <1>8
  <2> QED BY <2>1, <1>1
<1>13. (b \o u)[1] = b[1] /\ Place(b[1]) = c + 1 /\ b \o u # <<>>
  <2>1. Place(b[1]) = c + 1 BY <1>12 DEF Fits, Placed
  <2>2. (b \o u)[1] = b[1] BY <1>11, <1>12
  <2>3. Len(b \o u) # 0 BY <1>11, <1>12
  <2> QED BY <2>1, <2>2, <2>3, <1>11, EmptySeq
<1>14. c < z
  <2>1. c + 1 \in c + 1 .. z - 1 BY <1>9, <1>12, <1>13
  <2> QED BY <2>1, <1>3
<1>15. ASSUME NEW i \in 1 .. Len(b) + Len(u)
       PROVE  Place((b \o u)[i]) = 0 \/ Place((b \o u)[i]) > c
  <2>1. CASE i <= Len(b)
    <3>1. i \in 1 .. Len(b) /\ (b \o u)[i] = b[i] BY <2>1, <1>1, <1>8, <1>11
    <3> QED BY <3>1, <1>3, <1>9, <1>14, Beyond
  <2>2. CASE ~(i <= Len(b))
    <3>1. i - Len(b) \in 1 .. Len(u) /\ (b \o u)[i] = u[i - Len(b)] BY <2>2, <1>1, <1>8, <1>11
    <3> QED BY <3>1, <1>3, <1>8, <1>14, Beyond
  <2> QED BY <2>1, <2>2
<1> QED BY <1>10, <1>11, <1>13, <1>15 DEF Fits, Follows, u, k

\* The places that need another step, and where that is.
Needy == {1, 2, 3, 9, 10, 12, 13, 16, 17, 31, 33, 36, 38, 39, 42, 44, 46, 48, 49, 50, 53, 55, 57, 58, 60, 74}

\* Only the needy places need another step.
LEMMA NeedyIs ==
  ASSUME NEW p \in Nat, Needs(Spot(p)) # Spot(p)
  PROVE  p \in Needy /\ Spot(p) = p
<1>1. \A x : Needs(x) # x => x \in Needy
  BY DEF Needs, Needy
<1>2. Spot(p) \in Needy
  BY <1>1
<1> QED BY <1>2 DEF Spot, Looks, Needy

\* The step that is needed is at its own place.
LEMMA NeedsWhere == \A p \in Needy : Needs(p) \in Nat /\ Needs(p) # 0 /\ Spot(Needs(p)) = Needs(p)
<1> SUFFICES ASSUME NEW p \in Needy PROVE Needs(p) \in Nat /\ Needs(p) # 0 /\ Spot(Needs(p)) = Needs(p)
  OBVIOUS
<1>1. Needs(p) \in {2, 3, 9, 10, 12, 13, 16, 17, 18, 33, 36, 38, 39, 49, 50, 53, 57, 58, 61, 81}
  BY DEF Needs, Needy
<1> QED BY <1>1 DEF Spot, Looks

\* The scopes fit before their close.
LEMMA ScopesFit ==
  /\ Fits(<<S("scope_deadline", "cgroups")>> \o CgroupSteps, 0, 24)
  /\ Fits(<<S("scope_deadline", "zram")>> \o ZramSteps, 30, 65)
  /\ Fits(<<S("scope_deadline", "tiering")>> \o TieringSteps, 70, 85)
<1>1. ASSUME NEW b, Placed(b, 0), Len(b) = 18 PROVE Fits(b, 0, 24)
  <2>1. Spot(0 + 1) = 0 + 1 /\ Outside(0 + 1) /\ \A n \in 0 + 1 .. 24 : Top(n) = 24
    BY DEF Spot, Looks, Outside, Top
  <2>2. \A i \in 1 .. 18 : Spot(0 + i) = 0 \/ (0 < Spot(0 + i) /\ Spot(0 + i) < 24)
    BY DEF Spot, Looks
  <2>3. \A i \in 1 .. 18 : \E j \in 1 .. 18 : i <= j /\ Spot(0 + j) = Needs(Spot(0 + i))
    <3> SUFFICES ASSUME NEW i \in 1 .. 18
                 PROVE  \E j \in 1 .. 18 : i <= j /\ Spot(0 + j) = Needs(Spot(0 + i))
      OBVIOUS
    <3>1. CASE Needs(Spot(0 + i)) = Spot(0 + i) BY <3>1
    <3>2. CASE Needs(Spot(0 + i)) # Spot(0 + i)
      <4> DEFINE j == Needs(Spot(0 + i)) - 0
      <4>0. 0 + i \in Nat /\ 0 + i >= 1 /\ 0 + i <= 18 OBVIOUS
      <4>2. 0 + i \in Needy /\ Spot(0 + i) = 0 + i BY <3>2, <4>0, NeedyIs
      <4>3. Needs(0 + i) \in Nat /\ Spot(Needs(0 + i)) = Needs(0 + i) BY <4>2, NeedsWhere
      <4>4. Needs(0 + i) >= 0 + i /\ Needs(0 + i) <= 18 BY <4>0, <4>2 DEF Needs, Needy
      <4>1. j \in 1 .. 18 /\ i <= j /\ Spot(0 + j) = Needs(Spot(0 + i))
        BY <4>2, <4>3, <4>4
      <4> QED BY <4>1
    <3> QED BY <3>1, <3>2
  <2> QED BY <1>1, <2>1, <2>2, <2>3 DEF Fits
<1>2. ASSUME NEW b, Placed(b, 30), Len(b) = 32 PROVE Fits(b, 30, 65)
  <2>1. Spot(30 + 1) = 30 + 1 /\ Outside(30 + 1) /\ \A n \in 30 + 1 .. 65 : Top(n) = 65
    BY DEF Spot, Looks, Outside, Top
  <2>2. \A i \in 1 .. 32 : Spot(30 + i) = 0 \/ (30 < Spot(30 + i) /\ Spot(30 + i) < 65)
    BY DEF Spot, Looks
  <2>3. \A i \in 1 .. 32 : \E j \in 1 .. 32 : i <= j /\ Spot(30 + j) = Needs(Spot(30 + i))
    <3> SUFFICES ASSUME NEW i \in 1 .. 32
                 PROVE  \E j \in 1 .. 32 : i <= j /\ Spot(30 + j) = Needs(Spot(30 + i))
      OBVIOUS
    <3>1. CASE Needs(Spot(30 + i)) = Spot(30 + i) BY <3>1
    <3>2. CASE Needs(Spot(30 + i)) # Spot(30 + i)
      <4> DEFINE j == Needs(Spot(30 + i)) - 30
      <4>0. 30 + i \in Nat /\ 30 + i >= 31 /\ 30 + i <= 62 OBVIOUS
      <4>2. 30 + i \in Needy /\ Spot(30 + i) = 30 + i BY <3>2, <4>0, NeedyIs
      <4>3. Needs(30 + i) \in Nat /\ Spot(Needs(30 + i)) = Needs(30 + i) BY <4>2, NeedsWhere
      <4>4. Needs(30 + i) >= 30 + i /\ Needs(30 + i) <= 62 BY <4>0, <4>2 DEF Needs, Needy
      <4>1. j \in 1 .. 32 /\ i <= j /\ Spot(30 + j) = Needs(Spot(30 + i))
        BY <4>2, <4>3, <4>4
      <4> QED BY <4>1
    <3> QED BY <3>1, <3>2
  <2> QED BY <1>2, <2>1, <2>2, <2>3 DEF Fits
<1>3. ASSUME NEW b, Placed(b, 70), Len(b) = 14 PROVE Fits(b, 70, 85)
  <2>1. Spot(70 + 1) = 70 + 1 /\ Outside(70 + 1) /\ \A n \in 70 + 1 .. 85 : Top(n) = 85
    BY DEF Spot, Looks, Outside, Top
  <2>2. \A i \in 1 .. 14 : Spot(70 + i) = 0 \/ (70 < Spot(70 + i) /\ Spot(70 + i) < 85)
    BY DEF Spot, Looks
  <2>3. \A i \in 1 .. 14 : \E j \in 1 .. 14 : i <= j /\ Spot(70 + j) = Needs(Spot(70 + i))
    <3> SUFFICES ASSUME NEW i \in 1 .. 14
                 PROVE  \E j \in 1 .. 14 : i <= j /\ Spot(70 + j) = Needs(Spot(70 + i))
      OBVIOUS
    <3>1. CASE Needs(Spot(70 + i)) = Spot(70 + i) BY <3>1
    <3>2. CASE Needs(Spot(70 + i)) # Spot(70 + i)
      <4> DEFINE j == Needs(Spot(70 + i)) - 70
      <4>0. 70 + i \in Nat /\ 70 + i >= 71 /\ 70 + i <= 84 OBVIOUS
      <4>2. 70 + i \in Needy /\ Spot(70 + i) = 70 + i BY <3>2, <4>0, NeedyIs
      <4>3. Needs(70 + i) \in Nat /\ Spot(Needs(70 + i)) = Needs(70 + i) BY <4>2, NeedsWhere
      <4>4. Needs(70 + i) >= 70 + i /\ Needs(70 + i) <= 84 BY <4>0, <4>2 DEF Needs, Needy
      <4>1. j \in 1 .. 14 /\ i <= j /\ Spot(70 + j) = Needs(Spot(70 + i))
        BY <4>2, <4>3, <4>4
      <4> QED BY <4>1
    <3> QED BY <3>1, <3>2
  <2> QED BY <1>3, <2>1, <2>2, <2>3 DEF Fits
<1> QED BY <1>1, <1>2, <1>3, CgroupBody, ZramBody, TieringBody, ZenonT(60)

\* What may follow a close may follow an earlier one.
LEMMA FollowsEarlier ==
  ASSUME NEW t, NEW n \in Nat, NEW m \in Nat, m <= n, Follows(t, n)
  PROVE  Follows(t, m)
<1>1. t \in Seq(Steps)
  BY DEF Follows, WellMade
<1>2. ASSUME NEW i \in 1 .. Len(t) PROVE Place(t[i]) = 0 \/ Place(t[i]) > m
  <2>1. Place(t[i]) \in 0 .. 90 BY <1>1, PlaceOf
  <2>2. Place(t[i]) = 0 \/ Place(t[i]) > n BY DEF Follows
  <2>3. \A p \in 0 .. 90 : p > n => p > m OBVIOUS
  <2> QED BY <2>1, <2>2, <2>3, Zenon
<1> QED BY <1>2 DEF Follows

\* The last step follows every close.
LEMMA ConcludeFollows == Follows(<<S("conclude", "none")>>, 85)
<1> DEFINE e == <<S("conclude", "none")>>
<1>1. e \in Seq(Steps) /\ Len(e) = 1 /\ e[1] = S("conclude", "none") /\ e # <<>>
  BY FramePlaces
<1>2. Place(e[1]) = 90 /\ e[1].op = "conclude"
  BY FramePlaces DEF S
<1>3. Ordered(e) /\ Blocks(e)
  BY <1>1, OneGood
<1> HIDE DEF e
<1>4. \A i \in 1 .. Len(e) : e[i] = e[1]
  BY <1>1
<1>5. Scoped(e)
  BY <1>2, <1>4 DEF Scoped
<1>7. Paired(e)
  <2>1. Needs(90) = 90 BY DEF Needs
  <2> QED BY <2>1, <1>1, <1>2, <1>4 DEF Paired
<1>6. Outside(90)
  BY DEF Outside
<1> QED BY <1>1, <1>2, <1>3, <1>4, <1>5, <1>6, <1>7 DEF Follows, WellMade, e

\* A scope, and then the rest.
LEMMA ScopeFollows ==
  ASSUME NEW s \in {"cgroups", "zram", "tiering"}, NEW t, Follows(t, ClosePlace(s))
  PROVE  /\ Follows(ScopeSteps(s) \o t, CASE s = "cgroups" -> 0 [] s = "zram" -> 30 [] OTHER -> 70)
         /\ ScopeSteps(s) \in Seq(Steps)
<1>1. t \in Seq(Steps)
  BY DEF Follows, WellMade
<1>2. <<S("close", s)>> \in Seq(Steps)
  BY FrameMade
<1>3. ASSUME NEW b, NEW c \in Nat, NEW z \in 24 .. 85, Outside(z), z = ClosePlace(s), Fits(b, c, z)
      PROVE  Follows((b \o <<S("close", s)>>) \o t, c) /\ b \o <<S("close", s)>> \in Seq(Steps)
  <2>1. b \in Seq(Steps) BY <1>3 DEF Fits, Placed
  <2>2. (b \o <<S("close", s)>>) \o t = b \o (<<S("close", s)>> \o t)
    BY <1>1, <1>2, <2>1, ConcatAssociative
  <2>3. Follows(b \o (<<S("close", s)>> \o t), c) BY <1>3, ScopeMade
  <2>4. b \o <<S("close", s)>> \in Seq(Steps) BY <1>2, <2>1, ConcatProperties
  <2> QED BY <2>2, <2>3, <2>4
<1>4. Outside(24) /\ Outside(65) /\ Outside(85)
  BY DEF Outside
<1>5. CASE s = "cgroups"
  <2>1. ScopeSteps(s) = (<<S("scope_deadline", "cgroups")>> \o CgroupSteps) \o <<S("close", s)>>
    BY <1>5 DEF ScopeSteps
  <2>2. 0 \in Nat /\ 24 \in 24 .. 85 /\ 24 = ClosePlace(s) BY <1>5 DEF ClosePlace
  <2>3. Follows(ScopeSteps(s) \o t, 0) /\ ScopeSteps(s) \in Seq(Steps)
    BY <1>3, <1>4, <2>1, <2>2, ScopesFit, Zenon
  <2> QED BY <1>5, <2>3
<1>6. CASE s = "zram"
  <2>1. ScopeSteps(s) = (<<S("scope_deadline", "zram")>> \o ZramSteps) \o <<S("close", s)>>
    BY <1>6 DEF ScopeSteps
  <2>2. 30 \in Nat /\ 65 \in 24 .. 85 /\ 65 = ClosePlace(s) BY <1>6 DEF ClosePlace
  <2>3. Follows(ScopeSteps(s) \o t, 30) /\ ScopeSteps(s) \in Seq(Steps)
    BY <1>3, <1>4, <2>1, <2>2, ScopesFit, Zenon
  <2> QED BY <1>6, <2>3
<1>7. CASE s = "tiering"
  <2>1. ScopeSteps(s) = (<<S("scope_deadline", "tiering")>> \o TieringSteps) \o <<S("close", s)>>
    BY <1>7 DEF ScopeSteps
  <2>2. 70 \in Nat /\ 85 \in 24 .. 85 /\ 85 = ClosePlace(s) BY <1>7 DEF ClosePlace
  <2>3. Follows(ScopeSteps(s) \o t, 70) /\ ScopeSteps(s) \in Seq(Steps)
    BY <1>3, <1>4, <2>1, <2>2, ScopesFit, Zenon
  <2> QED BY <1>7, <2>3
<1> QED BY <1>5, <1>6, <1>7

\* Lists of steps in a row.
LEMMA Assoc ==
  ASSUME NEW s \in Seq(Steps), NEW t \in Seq(Steps), NEW u \in Seq(Steps)
  PROVE  (s \o t) \o u = s \o (t \o u)
BY ConcatAssociative

\* Every program is well made.
LEMMA ProgramsMade == \A q \in Programs : WellMade(q) /\ q # <<>> /\ Outside(Place(q[1]))
<1> DEFINE e == <<S("conclude", "none")>>
           c == ScopeSteps("cgroups")
           z == ScopeSteps("zram")
           t == ScopeSteps("tiering")
<1>1. Follows(e, 85) /\ e \in Seq(Steps)
  BY ConcludeFollows DEF Follows, WellMade
<1>2. Follows(e, 24) /\ Follows(e, 65)
  BY <1>1, FollowsEarlier
<1> HIDE DEF e
<1>3. Follows(t \o e, 70) /\ t \in Seq(Steps)
  BY <1>1, ScopeFollows DEF ClosePlace
<1>4. Follows(z \o e, 30) /\ z \in Seq(Steps)
  BY <1>2, ScopeFollows DEF ClosePlace
<1>5. Follows(c \o e, 0) /\ c \in Seq(Steps)
  BY <1>2, ScopeFollows DEF ClosePlace
<1>6. Follows(t \o e, 65)
  BY <1>3, FollowsEarlier
<1> HIDE DEF t
<1>7. Follows(z \o (t \o e), 30)
  BY <1>6, ScopeFollows DEF ClosePlace
<1>8. Follows(z \o (t \o e), 24)
  BY <1>7, FollowsEarlier
<1> HIDE DEF z
<1>9. Follows(c \o (z \o (t \o e)), 0)
  BY <1>8, ScopeFollows DEF ClosePlace
<1> HIDE DEF c
<1>10. ((c \o z) \o t) \o e = c \o (z \o (t \o e))
  <2>1. c \in Seq(Steps) /\ z \in Seq(Steps) /\ t \in Seq(Steps) /\ e \in Seq(Steps)
    BY <1>1, <1>3, <1>4, <1>5
  <2>2. c \o z \in Seq(Steps) /\ t \o e \in Seq(Steps) BY <2>1, ConcatProperties
  <2>3. ((c \o z) \o t) \o e = (c \o z) \o (t \o e) BY <2>1, <2>2, Assoc, SMTT(30)
  <2>4. (c \o z) \o (t \o e) = c \o (z \o (t \o e)) BY <2>1, <2>2, Assoc, SMTT(30)
  <2> QED BY <2>3, <2>4
<1>11. Programs = {c \o e, z \o e, t \o e, ((c \o z) \o t) \o e}
  BY DEF Programs, c, z, t, e
<1> QED BY <1>3, <1>4, <1>5, <1>9, <1>10, <1>11 DEF Follows

----------------------------------------------------------------------------
(* How the list of steps moves *)

\* A set of numbers has a least one.
LEMMA Least ==
  ASSUME NEW T, T \subseteq Nat, T # {}
  PROVE  \E x \in T : \A y \in T : x <= y
<1>1. PICK x \in T : \A y \in T : ~(<<y, x>> \in OpToRel(<, Nat))
  BY NatLessThanWellFounded, WFMin
<1>2. ASSUME NEW y \in T PROVE x <= y
  <2>1. x \in Nat /\ y \in Nat OBVIOUS
  <2>2. ~(y < x) BY <1>1, <2>1 DEF OpToRel
  <2> QED BY <2>1, <2>2
<1> QED BY <1>2

\* The least device of a set is in it.
LEMMA LowestIs ==
  ASSUME NEW T, T \subseteq Index, T # {}
  PROVE  Lowest(T) \in T
<1>1. T \subseteq Nat
  BY DEF Index
<1>2. \E x \in T : \A y \in T : x <= y
  BY <1>1, Least
<1> QED BY <1>2 DEF Lowest

\* The least number of a set.
LEMMA MinIs ==
  ASSUME NEW T, T \subseteq Nat, T # {}
  PROVE  Min(T) \in T /\ \A y \in T : Min(T) <= y
<1>1. \E x \in T : \A y \in T : x <= y
  BY Least
<1> QED BY <1>1 DEF Min

\* The first close of a list.
LEMMA FirstClose ==
  ASSUME WellMade(todo), Running, Head(todo).op # "conclude"
  PROVE  /\ AfterScope \in 1 .. Len(todo) /\ todo[AfterScope].op = "close"
         /\ \A i \in 1 .. Len(todo) : todo[i].op = "close" => AfterScope <= i
<1> DEFINE I == {i \in 1 .. Len(todo) : todo[i].op = "close"}
<1>1. todo \in Seq(Steps) /\ Len(todo) \in Nat /\ Len(todo) > 0 /\ Head(todo) = todo[1]
  BY EmptySeq DEF WellMade, Running
<1>2. 1 \in 1 .. Len(todo)
  BY <1>1
<1>3. I # {}
  BY <1>1, <1>2 DEF WellMade, Scoped
<1>4. I \subseteq Nat
  BY <1>1
<1>5. AfterScope = Min(I)
  BY <1>3 DEF AfterScope, SelectInSeq
<1> HIDE DEF I
<1>6. Min(I) \in I /\ \A y \in I : Min(I) <= y
  BY <1>3, <1>4, MinIs
<1> QED BY <1>5, <1>6 DEF I

\* Inside a block only what comes from its start.
Entered(h, P) ==
    /\ h \notin 2 .. 3 /\ 3 \in P => 2 \in P
    /\ h \notin 9 .. 10 /\ 10 \in P => 9 \in P
    /\ h \notin 12 .. 13 /\ 13 \in P => 12 \in P
    /\ h \notin 57 .. 58 /\ 58 \in P => 57 \in P
    /\ h \notin 74 .. 81 /\ P \intersect (75 .. 81) # {} => 74 \in P

\* A place is a positive number.
LEMMA Counted == ASSUME NEW p \in 1 .. 90 PROVE p > 0
OBVIOUS

\* A number that is not 0 is a place.
LEMMA Positive == ASSUME NEW p \in 0 .. 90, p # 0 PROVE p > 0
OBVIOUS

\* What the first step of a list says about the others.
Fronts(h, P) ==
    /\ P \subseteq 1 .. 90 /\ h \in 0 .. 90
    /\ h > 0 => h \in P
    /\ \A n \in P : h > 0 => n = h \/ Before(h, n)
    /\ Entered(h, P)

\* The head of a well-made list is in front of all the rest.
LEMMA FirstStep ==
  ASSUME NEW q, WellMade(q), q # <<>>
  PROVE  Head(q) \in Steps /\ Fronts(Place(Head(q)), PlacesOf(q))
<1> DEFINE h == Place(Head(q))
<1> DEFINE P == PlacesOf(q)
<1>1. q \in Seq(Steps) /\ Len(q) \in Nat /\ Len(q) > 0 /\ Head(q) = q[1]
  BY EmptySeq DEF WellMade
<1>2. 1 \in 1 .. Len(q)
  BY <1>1
<1>3. \A i \in 1 .. Len(q) : q[i] \in Steps /\ Place(q[i]) \in 0 .. 90
  BY <1>1, PlaceOf, ElementOfSeq
<1>4. P \subseteq 1 .. 90
  <2> SUFFICES ASSUME NEW i \in 1 .. Len(q), Place(q[i]) # 0 PROVE Place(q[i]) \in 1 .. 90
    BY DEF PlacesOf
  <2>1. Place(q[i]) \in 0 .. 90 BY <1>3
  <2> QED BY <2>1
<1>5. h > 0 => h \in P
  <2>1. h > 0 => h # 0 BY <1>1, <1>2, <1>3
  <2> QED BY <2>1, <1>1, <1>2 DEF PlacesOf
<1>6. ASSUME NEW n \in P, h > 0 PROVE n = h \/ Before(h, n)
  <2>1. PICK i \in 1 .. Len(q) : n = Place(q[i]) BY DEF PlacesOf
  <2>2. CASE i = 1 BY <2>1, <2>2, <1>1
  <2>3. CASE i # 1
    <3>1. 1 < i BY <2>3
    <3>2. Place(q[1]) > 0 BY <1>1, <1>6, Zenon
    <3>3. n \in 1 .. 90 BY <1>4
    <3>4. n > 0 BY <3>3, Counted, Zenon
    <3>5. Place(q[i]) > 0 BY <3>4, <2>1, Zenon
    <3> QED BY <1>1, <1>2, <2>1, <3>1, <3>2, <3>5 DEF WellMade, Ordered
  <2> QED BY <2>2, <2>3
<1>7. ASSUME NEW m \in Nat, NEW n \in Nat, Block(q, m, n), m > 0,
             h \notin m .. n, NEW p \in P, p \in m + 1 .. n
      PROVE  m \in P
  <2>1. PICK j \in 1 .. Len(q) : p = Place(q[j]) BY DEF PlacesOf
  <2>2. j # 1
    <3>1. p \in m .. n BY <1>7
    <3> QED BY <2>1, <3>1, <1>1, <1>7
  <2>3. 1 < j BY <2>2
  <2>4. PICK k \in 1 .. Len(q) : Place(q[k]) = m BY <1>1, <1>2, <1>7, <2>1, <2>3 DEF Block
  <2>5. m # 0 BY <1>7
  <2> QED BY <2>4, <2>5 DEF PlacesOf
<1>8. Block(q, 2, 3) /\ Block(q, 9, 10) /\ Block(q, 12, 13) /\ Block(q, 57, 58) /\ Block(q, 74, 81)
  BY DEF WellMade, Blocks
<1> HIDE DEF h
<1> HIDE DEF P
<1>9. Entered(h, P)
  <2>1. h \notin 2 .. 3 /\ 3 \in P => 2 \in P BY <1>7, <1>8
  <2>2. h \notin 9 .. 10 /\ 10 \in P => 9 \in P BY <1>7, <1>8
  <2>3. h \notin 12 .. 13 /\ 13 \in P => 12 \in P BY <1>7, <1>8
  <2>4. h \notin 57 .. 58 /\ 58 \in P => 57 \in P BY <1>7, <1>8
  <2>5. h \notin 74 .. 81 /\ P \intersect (75 .. 81) # {} => 74 \in P BY <1>7, <1>8
  <2> QED BY <2>1, <2>2, <2>3, <2>4, <2>5 DEF Entered
<1>10. Head(q) \in Steps /\ h \in 0 .. 90
  BY <1>1, <1>2, <1>3 DEF h
<1> QED BY <1>4, <1>5, <1>6, <1>9, <1>10 DEF Fronts, h, P

\* One step taken.
Advances(h, P, R) ==
    /\ R \subseteq P /\ P \subseteq R \union {h}
    /\ \A n \in R : h > 0 => Before(h, n)

\* A step is taken: its place is no longer ahead, unless it comes again.
LEMMA NextStep ==
  ASSUME NEW q, WellMade(q), q # <<>>
  PROVE  Advances(Place(Head(q)), PlacesOf(q), PlacesOf(Tail(q)))
<1> DEFINE t == Tail(q)
<1>1. q \in Seq(Steps) /\ Len(q) \in Nat /\ Len(q) > 0 /\ Head(q) = q[1]
  BY EmptySeq DEF WellMade
<1>2. t \in Seq(Steps) /\ Len(t) = Len(q) - 1 /\ \A i \in 1 .. Len(t) : t[i] = q[i + 1]
  BY <1>1, HeadTailProperties
<1> HIDE DEF t
<1>3. \A i \in 1 .. Len(t) : i + 1 \in 1 .. Len(q) /\ 1 < i + 1
  BY <1>1, <1>2
<1>4. PlacesOf(t) \subseteq PlacesOf(q)
  BY <1>2, <1>3 DEF PlacesOf
<1>5. ASSUME NEW i \in 1 .. Len(q), Place(q[i]) # 0, Place(q[i]) # Place(q[1])
      PROVE  Place(q[i]) \in PlacesOf(t)
  <2>1. i # 1 BY <1>5
  <2>2. i - 1 \in 1 .. Len(t) /\ t[i - 1] = q[i]
    <3>1. i - 1 \in 1 .. Len(t) /\ (i - 1) + 1 = i BY <1>1, <1>2, <2>1
    <3> QED BY <3>1, <1>2
  <2> QED BY <1>5, <2>2 DEF PlacesOf
<1>6. PlacesOf(q) \subseteq PlacesOf(t) \union {Place(Head(q))}
  BY <1>1, <1>5 DEF PlacesOf
<1>7. ASSUME NEW n \in PlacesOf(t), Place(Head(q)) > 0 PROVE Before(Place(Head(q)), n)
  <2>1. PICK i \in 1 .. Len(t) : n = Place(t[i]) /\ n # 0 BY DEF PlacesOf
  <2>2. n = Place(q[i + 1]) /\ i + 1 \in 1 .. Len(q) /\ 1 < i + 1 BY <2>1, <1>2, <1>3
  <2>3. n \in 0 .. 90 BY <2>2, <1>1, PlaceOf
  <2>4. n > 0 BY <2>1, <2>3, Positive, Zenon
  <2>5. 1 \in 1 .. Len(q) BY <1>1
  <2> QED BY <2>2, <2>4, <2>5, <1>1, <1>7 DEF WellMade, Ordered
<1> QED BY <1>4, <1>6, <1>7 DEF Advances, t

\* What is needed is ahead.
LEMMA NeededAhead ==
  ASSUME NEW q, WellMade(q)
  PROVE  \A n \in PlacesOf(q) : Needs(n) \in PlacesOf(q)
<1> SUFFICES ASSUME NEW i \in 1 .. Len(q), Place(q[i]) # 0
             PROVE  Needs(Place(q[i])) \in PlacesOf(q)
  BY DEF PlacesOf
<1>1. PICK j \in 1 .. Len(q) : Place(q[j]) = Needs(Place(q[i]))
  BY DEF WellMade, Paired
<1>2. \A p : p # 0 => Needs(p) # 0
  <2> SUFFICES ASSUME NEW p, p # 0 PROVE Needs(p) # 0
    OBVIOUS
  <2>1. CASE Needs(p) = p BY <2>1
  <2>2. CASE Needs(p) # p
    <3>1. p \in Needy BY <2>2 DEF Needs, Needy
    <3> QED BY <3>1, NeedsWhere
  <2> QED BY <2>1, <2>2
<1> QED BY <1>1, <1>2 DEF PlacesOf

\* The places of the closes.
Closes == {24, 65, 85}

\* The same, place by place.
Chain(P) ==
    /\ (1 \in P => 2 \in P) /\ (2 \in P => 3 \in P) /\ (3 \in P => 9 \in P)
    /\ (9 \in P => 10 \in P) /\ (10 \in P => 12 \in P) /\ (12 \in P => 13 \in P)
    /\ (13 \in P => 16 \in P) /\ (16 \in P => 17 \in P) /\ (17 \in P => 18 \in P)
    /\ (31 \in P => 33 \in P) /\ (33 \in P => 36 \in P) /\ (36 \in P => 38 \in P)
    /\ (38 \in P => 39 \in P) /\ (39 \in P => 49 \in P) /\ (42 \in P => 49 \in P)
    /\ (44 \in P => 49 \in P) /\ (46 \in P => 49 \in P) /\ (48 \in P => 49 \in P)
    /\ (49 \in P => 50 \in P) /\ (50 \in P => 53 \in P) /\ (53 \in P => 57 \in P)
    /\ (55 \in P => 57 \in P) /\ (57 \in P => 58 \in P) /\ (58 \in P => 61 \in P)
    /\ (60 \in P => 61 \in P) /\ (74 \in P => 81 \in P)

\* A well-made list keeps every step that is still needed.
LEMMA Chained ==
  ASSUME NEW q, WellMade(q)
  PROVE  Chain(PlacesOf(q))
<1>1. \A n \in PlacesOf(q) : Needs(n) \in PlacesOf(q)
  BY NeededAhead
<1>2. Needs(1) = 2 /\ Needs(2) = 3 /\ Needs(3) = 9 /\ Needs(9) = 10 /\ Needs(10) = 12
  BY DEF Needs
<1>7. Needs(12) = 13 /\ Needs(13) = 16 /\ Needs(16) = 17 /\ Needs(17) = 18
  BY DEF Needs
<1>3. Needs(31) = 33 /\ Needs(33) = 36 /\ Needs(36) = 38 /\ Needs(38) = 39 /\ Needs(39) = 49
  BY DEF Needs
<1>5. Needs(42) = 49 /\ Needs(44) = 49 /\ Needs(46) = 49 /\ Needs(48) = 49
  BY DEF Needs
<1>6. Needs(49) = 50 /\ Needs(50) = 53
  BY DEF Needs
<1>4. Needs(53) = 57 /\ Needs(55) = 57 /\ Needs(57) = 58
  BY DEF Needs
<1>8. Needs(58) = 61 /\ Needs(60) = 61 /\ Needs(74) = 81
  BY DEF Needs
<1> HIDE DEF PlacesOf
<1> QED BY <1>1, <1>2, <1>3, <1>4, <1>5, <1>6, <1>7, <1>8 DEF Chain

\* A step that ends its scope: R is what is ahead then, D what is inserted and
\* c the place of the close.
Leaves(P, R, D, c) ==
    /\ c \in Closes /\ c \in P
    /\ R = D \union {n \in P : n >= c}
    /\ \A n \in P : n >= c \/ Top(n) = c

\* What may be inserted before the close at c.
Drops(D, c) ==
    /\ D \in Seq(Steps) /\ Ordered(D) /\ Paired(D) /\ Blocks(D)
    /\ \A i \in 1 .. Len(D) : Place(D[i]) < c /\ Top(Place(D[i])) = c /\ Place(D[i]) # 0

\* Comparisons with the place of a close.
LEMMA Strict == ASSUME NEW p \in 0 .. 90, NEW c \in Closes
                PROVE  (p > c => p >= c) /\ (p >= c => ~(p < c))
BY DEF Closes

\* A close is a frame step.
LEMMA CloseIs == ASSUME NEW c \in Closes PROVE c >= c /\ c <= c /\ Outside(c)
BY DEF Closes, Outside

\* What is before a close comes before what is after it.
LEMMA CloseLast == ASSUME NEW c \in Closes, NEW p \in 0 .. 90, NEW r \in 0 .. 90, p < c, r >= c
                   PROVE  Before(p, r)
BY DEF Closes, Before

\* A number that is not 0 is a place.
LEMMA Counting == ASSUME NEW p \in 0 .. 90, p # 0 PROVE p > 0 /\ p \in 1 .. 90
OBVIOUS

\* The scopes of the places before a close.
LEMMA CloseTop == \A c \in Closes : \A n \in 1 .. 90 : c <= Top(n) => n >= c \/ Top(n) = c
BY DEF Top, Closes

\* The order at a close is that of numbers.
LEMMA CloseOrder == \A c \in Closes : \A n \in 0 .. 90 :
                      /\ Before(c, n) => n > c
                      /\ Before(n, c) => n < c
BY DEF Before, Closes

\* The places from the first close on.
LEMMA SuffixPlaces ==
  ASSUME NEW q, WellMade(q), NEW k \in 1 .. Len(q), q[k].op = "close",
         \A i \in 1 .. Len(q) : q[i].op = "close" => k <= i
  PROVE  /\ Place(q[k]) \in Closes
         /\ PlacesOf(SubSeq(q, k, Len(q))) = {n \in PlacesOf(q) : n >= Place(q[k])}
         /\ \A n \in PlacesOf(q) : n >= Place(q[k]) \/ Top(n) = Place(q[k])
<1> DEFINE t == SubSeq(q, k, Len(q))
<1>1. q \in Seq(Steps) /\ Len(q) \in Nat
  BY DEF WellMade
<1>2. t \in Seq(Steps) /\ Len(t) = Len(q) - k + 1 /\ \A i \in 1 .. Len(t) : t[i] = q[k + i - 1]
  BY <1>1, SubSeqProperties
<1> HIDE DEF t
<1>3. \A i \in 1 .. Len(q) : q[i] \in Steps /\ Place(q[i]) \in 0 .. 90
  BY <1>1, PlaceOf, ElementOfSeq
<1>4. PICK c \in Closes : Place(q[k]) = c
  BY <1>3, CloseOutside DEF Closes
<1>5. \A j \in 1 .. Len(q) : j >= k => j - k + 1 \in 1 .. Len(t) /\ t[j - k + 1] = q[j]
  <2> SUFFICES ASSUME NEW j \in 1 .. Len(q), j >= k
               PROVE  j - k + 1 \in 1 .. Len(t) /\ t[j - k + 1] = q[j]
    OBVIOUS
  <2>1. j - k + 1 \in 1 .. Len(t) BY <1>1, <1>2
  <2>2. k + (j - k + 1) - 1 = j OBVIOUS
  <2> QED BY <2>1, <2>2, <1>2
<1>6. \A i \in 1 .. Len(t) : k + i - 1 \in 1 .. Len(q) /\ k + i - 1 >= k
  BY <1>1, <1>2
<1>7. c > 0 /\ c \in 0 .. 90 /\ c \in Closes
  BY DEF Closes
<1>8. ASSUME NEW j \in 1 .. Len(q), j > k, Place(q[j]) # 0 PROVE Place(q[j]) > c
  <2>1. Place(q[j]) \in 0 .. 90 BY <1>3
  <2>2. Place(q[j]) > 0 BY <2>1, <1>8, Positive, Zenon
  <2>3. Place(q[k]) > 0 BY <1>4, <1>7
  <2>4. Before(c, Place(q[j])) BY <1>4, <1>8, <2>2, <2>3 DEF WellMade, Ordered
  <2> QED BY <2>1, <2>4, CloseOrder, Zenon
<1>9. ASSUME NEW j \in 1 .. Len(q), j < k, Place(q[j]) # 0 PROVE Place(q[j]) < c
  <2>1. Place(q[j]) \in 0 .. 90 BY <1>3
  <2>2. Place(q[j]) > 0 BY <2>1, <1>9, Positive, Zenon
  <2>3. Place(q[k]) > 0 BY <1>4, <1>7
  <2>4. Before(Place(q[j]), c) BY <1>4, <1>9, <2>2, <2>3 DEF WellMade, Ordered
  <2> QED BY <2>1, <2>4, CloseOrder, Zenon
<1>10. PlacesOf(t) \subseteq {n \in PlacesOf(q) : n >= c}
  <2> SUFFICES ASSUME NEW i \in 1 .. Len(t), Place(t[i]) # 0
               PROVE  Place(t[i]) \in PlacesOf(q) /\ Place(t[i]) >= c
    BY DEF PlacesOf
  <2> DEFINE j == k + i - 1
  <2>1. j \in 1 .. Len(q) /\ j >= k /\ t[i] = q[j] BY <1>2, <1>6
  <2>2. Place(q[j]) \in 0 .. 90 BY <1>3, <2>1
  <2> HIDE DEF j
  <2>3. CASE j = k
    <3>1. Place(t[i]) = c BY <2>1, <2>3, <1>4
    <3>2. c >= c BY <1>7, CloseIs, Zenon
    <3>3. Place(t[i]) \in PlacesOf(q) BY <2>1 DEF PlacesOf
    <3> QED BY <3>1, <3>2, <3>3
  <2>4. CASE j # k
    <3>1. j > k BY <2>1, <2>4
    <3>2. Place(q[j]) > c BY <1>8, <2>1, <3>1
    <3>3. Place(q[j]) >= c BY <3>2, <2>2, <1>7, Strict, Zenon
    <3> QED BY <3>3, <2>1 DEF PlacesOf
  <2> QED BY <2>3, <2>4
<1>11. {n \in PlacesOf(q) : n >= c} \subseteq PlacesOf(t)
  <2> SUFFICES ASSUME NEW j \in 1 .. Len(q), Place(q[j]) # 0, Place(q[j]) >= c
               PROVE  Place(q[j]) \in PlacesOf(t)
    BY DEF PlacesOf
  <2>1. j >= k
    <3>1. Place(q[j]) \in 0 .. 90 BY <1>3
    <3>2. ~(Place(q[j]) < c) BY <3>1, <1>7, Strict, Zenon
    <3>3. ~(j < k) BY <1>9, <3>2
    <3> QED BY <3>3
  <2> QED BY <2>1, <1>5 DEF PlacesOf
<1>12. ASSUME NEW n \in PlacesOf(q) PROVE n >= c \/ Top(n) = c
  <2>1. PICK i \in 1 .. Len(q) : n = Place(q[i]) /\ n # 0 BY DEF PlacesOf
  <2>2. n \in 0 .. 90 BY <2>1, <1>3
  <2>3. n > 0 /\ n \in 1 .. 90 BY <2>1, <2>2, Counting, Zenon
  <2>4. CASE q[i].op = "conclude"
    <3>1. n = 90 BY <2>1, <2>4, <1>3 DEF Place
    <3> QED BY <3>1, <1>7 DEF Closes
  <2>5. CASE q[i].op # "conclude"
    <3>1. PICK j \in 1 .. Len(q) : q[j].op = "close" /\ Place(q[j]) <= Top(n)
      BY <2>1, <2>3, <2>5 DEF WellMade, Scoped
    <3>2. j >= k BY <3>1
    <3>3. Place(q[j]) \in Closes BY <3>1, <1>3, CloseOutside DEF Closes
    <3>4. Place(q[j]) >= c
      <4>1. CASE j = k BY <4>1, <1>4, <1>7
      <4>2. CASE j # k
        <5>1. j > k BY <3>2, <4>2
        <5>2. Place(q[j]) # 0 BY <3>3 DEF Closes
        <5>3. Place(q[j]) > c BY <5>1, <5>2, <1>8
        <5>4. Place(q[j]) \in 0 .. 90 BY <1>3
        <5> QED BY <5>3, <5>4, <1>7, Strict, Zenon
      <4> QED BY <4>1, <4>2
    <3>5. c <= Top(n) BY <3>1, <3>3, <3>4, <2>3, <1>7 DEF Top, Closes
    <3> QED BY <3>5, <2>3, <1>7, CloseTop, Zenon
  <2> QED BY <2>4, <2>5
<1> QED BY <1>4, <1>10, <1>11, <1>12 DEF t

\* The places of two lists.
LEMMA PlacesJoin ==
  ASSUME NEW D \in Seq(Steps), NEW t \in Seq(Steps)
  PROVE  PlacesOf(D \o t) = PlacesOf(D) \union PlacesOf(t)
<1> DEFINE r == D \o t
<1>1. Len(D) \in Nat /\ Len(t) \in Nat OBVIOUS
<1>2. Len(r) = Len(D) + Len(t) /\ \A i \in 1 .. Len(r) : r[i] = IF i <= Len(D) THEN D[i] ELSE t[i - Len(D)]
  BY ConcatProperties
<1> HIDE DEF r
<1>3. \A i \in 1 .. Len(D) : i \in 1 .. Len(r) /\ r[i] = D[i] BY <1>1, <1>2
<1>4. \A j \in 1 .. Len(t) : j + Len(D) \in 1 .. Len(r) /\ r[j + Len(D)] = t[j]
  <2> SUFFICES ASSUME NEW j \in 1 .. Len(t) PROVE j + Len(D) \in 1 .. Len(r) /\ r[j + Len(D)] = t[j]
    OBVIOUS
  <2>1. j + Len(D) \in 1 .. Len(r) /\ ~(j + Len(D) <= Len(D)) /\ j + Len(D) - Len(D) = j BY <1>1, <1>2
  <2> QED BY <2>1, <1>2
<1>5. \A i \in 1 .. Len(r) : \/ i \in 1 .. Len(D) /\ r[i] = D[i]
                             \/ i - Len(D) \in 1 .. Len(t) /\ r[i] = t[i - Len(D)]
  BY <1>1, <1>2
<1>6. PlacesOf(D) \subseteq PlacesOf(r) BY <1>3 DEF PlacesOf
<1>7. PlacesOf(t) \subseteq PlacesOf(r) BY <1>4 DEF PlacesOf
<1>8. PlacesOf(r) \subseteq PlacesOf(D) \union PlacesOf(t) BY <1>5 DEF PlacesOf
<1> QED BY <1>6, <1>7, <1>8 DEF r

\* A step that ends its scope.
LEMMA LeaveScope ==
  ASSUME NEW q, WellMade(q), NEW k \in 1 .. Len(q), q[k].op = "close",
         \A i \in 1 .. Len(q) : q[i].op = "close" => k <= i,
         NEW D, Drops(D, Place(q[k]))
  PROVE  /\ WellMade(D \o SubSeq(q, k, Len(q))) /\ Place(q[k]) \in Closes
         /\ Leaves(PlacesOf(q), PlacesOf(D \o SubSeq(q, k, Len(q))), PlacesOf(D), Place(q[k]))
<1> DEFINE t == SubSeq(q, k, Len(q))
           c == Place(q[k])
           r == D \o t
<1>1. q \in Seq(Steps) /\ Len(q) \in Nat /\ q[k] \in Steps
  BY ElementOfSeq DEF WellMade
<1>2. /\ c \in Closes /\ PlacesOf(t) = {n \in PlacesOf(q) : n >= c}
      /\ \A n \in PlacesOf(q) : n >= c \/ Top(n) = c
  BY SuffixPlaces
<1>3. WellMade(t)
  BY SuffixMade
<1>4. t \in Seq(Steps) /\ Len(t) = Len(q) - k + 1 /\ Len(t) > 0 /\ t[1] = q[k]
  <2>1. t \in Seq(Steps) /\ Len(t) = Len(q) - k + 1 /\ \A i \in 1 .. Len(t) : t[i] = q[k + i - 1]
    BY <1>1, SubSeqProperties
  <2>2. 1 \in 1 .. Len(t) /\ k + 1 - 1 = k BY <1>1, <2>1
  <2> QED BY <2>1, <2>2
<1>6. D \in Seq(Steps) /\ Ordered(D) /\ Paired(D) /\ Blocks(D)
      /\ \A i \in 1 .. Len(D) : Place(D[i]) < c /\ Top(Place(D[i])) = c /\ Place(D[i]) # 0
  BY DEF Drops
<1>7. Place(t[1]) = c /\ Outside(c) /\ t[1].op = "close"
  <2>1. Outside(c) BY <1>2, CloseIs, Zenon
  <2> QED BY <2>1, <1>4
<1>8. \A j \in 1 .. Len(t) : Place(t[j]) > 0 => Place(t[j]) >= c /\ Place(t[j]) \in 0 .. 90
  <2> SUFFICES ASSUME NEW j \in 1 .. Len(t), Place(t[j]) > 0 PROVE Place(t[j]) >= c /\ Place(t[j]) \in 0 .. 90
    OBVIOUS
  <2>1. Place(t[j]) \in 0 .. 90 BY <1>4, PlaceOf
  <2>2. Place(t[j]) # 0 OBVIOUS
  <2>3. Place(t[j]) \in PlacesOf(t) BY <2>2 DEF PlacesOf
  <2> QED BY <2>1, <2>3, <1>2
<1>9. c \in PlacesOf(q)
  BY <1>2 DEF PlacesOf, Closes
<1> HIDE DEF t, c
<1>5. t # <<>>
  BY <1>4, EmptySeq
<1>10. ASSUME NEW i \in 1 .. Len(D), NEW j \in 1 .. Len(t), Place(D[i]) > 0, Place(t[j]) > 0
       PROVE  Before(Place(D[i]), Place(t[j]))
  <2>1. Place(D[i]) \in 0 .. 90 /\ Place(D[i]) < c BY <1>6, PlaceOf
  <2>2. Place(t[j]) >= c /\ Place(t[j]) \in 0 .. 90 BY <1>8, <1>10
  <2> QED BY <2>1, <2>2, <1>2, CloseLast, Zenon
<1>11. \A i \in 1 .. Len(D) : t[1].op = "close" /\ (Place(D[i]) > 0 => Place(t[1]) <= Top(Place(D[i])))
  <2>1. c <= c BY <1>2, CloseIs, Zenon
  <2> QED BY <1>6, <1>7, <2>1
<1>12. WellMade(r)
  BY <1>3, <1>5, <1>6, <1>7, <1>10, <1>11, JoinMade
<1>13. PlacesOf(r) = PlacesOf(D) \union PlacesOf(t)
  BY <1>4, <1>6, PlacesJoin
<1>14. Leaves(PlacesOf(q), PlacesOf(r), PlacesOf(D), c)
  BY <1>2, <1>9, <1>13 DEF Leaves, Closes
<1> QED BY <1>2, <1>12, <1>14 DEF t, c

----------------------------------------------------------------------------
(* What is inserted when a scope is left *)

Straight(a, n, c) ==
    \A i \in 1 .. n : Spot(a + i) = a + i /\ Needs(a + i) = a + i /\ a + i < c /\ Top(a + i) = c

\* Destructors at successive places.
LEMMA DropsMade ==
  ASSUME NEW D, NEW a \in Nat, NEW n \in Nat, NEW c, Placed(D, a), Len(D) = n, Straight(a, n, c)
  PROVE  Drops(D, c) /\ PlacesOf(D) = a + 1 .. a + n
<1>1. D \in Seq(Steps) /\ \A i \in 1 .. Len(D) : Place(D[i]) = a + i
  BY DEF Placed, Straight
<1>2. Ordered(D) /\ Blocks(D)
  BY PlacedGood
<1>3. Paired(D)
  <2> SUFFICES ASSUME NEW i \in 1 .. Len(D)
               PROVE  \E j \in 1 .. Len(D) : i <= j /\ Place(D[j]) = Needs(Place(D[i]))
    BY DEF Paired
  <2>1. i <= i /\ Place(D[i]) = Needs(Place(D[i])) BY <1>1 DEF Straight
  <2> QED BY <2>1
<1>4. \A i \in 1 .. n : a + i # 0
  OBVIOUS
<1>5. PlacesOf(D) = a + 1 .. a + n
  <2>1. PlacesOf(D) \subseteq a + 1 .. a + n BY <1>1 DEF PlacesOf
  <2>2. ASSUME NEW x \in a + 1 .. a + n PROVE x \in PlacesOf(D)
    <3>1. x - a \in 1 .. n /\ a + (x - a) = x OBVIOUS
    <3>2. Place(D[x - a]) = x /\ x # 0 BY <3>1, <1>1, <1>4
    <3> QED BY <3>1, <3>2 DEF PlacesOf
  <2> QED BY <2>1, <2>2
<1> QED BY <1>1, <1>2, <1>3, <1>4, <1>5 DEF Drops, Straight

\* The guards of --cgroups.
LEMMA CgroupDropsMade == Drops(Destructors("cgroups"), 24) /\ PlacesOf(Destructors("cgroups")) = 19 .. 23
<1> DEFINE D == Destructors("cgroups")
<1>1. Len(CgroupDrops) = 5 /\ DOMAIN CgroupDrops = 1 .. 5
      /\ CgroupDrops[1] = "w_cleanup" /\ CgroupDrops[2] = "w_child" /\ CgroupDrops[3] = "recovery"
      /\ CgroupDrops[4] = "cleanup" /\ CgroupDrops[5] = "child"
  BY DEF CgroupDrops
<1>2. D = [i \in 1 .. 5 |-> S("drop", CgroupDrops[i])]
  BY <1>1 DEF Destructors
<1>3. ASSUME NEW i \in 1 .. 5 PROVE S("drop", CgroupDrops[i]) \in Steps /\ Place(S("drop", CgroupDrops[i])) = 18 + i
  <2>1. CASE i = 1 BY <2>1, <1>1, DropPlaces
  <2>2. CASE i = 2 BY <2>2, <1>1, DropPlaces
  <2>3. CASE i = 3 BY <2>3, <1>1, DropPlaces
  <2>4. CASE i = 4 BY <2>4, <1>1, DropPlaces
  <2>5. CASE i = 5 BY <2>5, <1>1, DropPlaces
  <2> QED BY <2>1, <2>2, <2>3, <2>4, <2>5
<1>4. D \in Seq(Steps) /\ Len(D) = 5 /\ \A i \in 1 .. 5 : Place(D[i]) = 18 + i
  <2>1. D \in [1 .. 5 -> Steps] BY <1>2, <1>3
  <2>2. \A i \in 1 .. 5 : Place(D[i]) = 18 + i BY <1>2, <1>3
  <2>3. 5 \in Nat OBVIOUS
  <2> HIDE DEF D
  <2>4. D \in Seq(Steps) BY <2>1, <2>3, SeqDef
  <2>5. Len(D) = 5 BY <2>1, <2>4, LenProperties
  <2> QED BY <2>2, <2>4, <2>5
<1>5. Straight(18, 5, 24)
  BY DEF Straight, Spot, Looks, Needs, Top
<1> HIDE DEF D
<1>6. Placed(D, 18)
  BY <1>4, <1>5 DEF Placed, Straight
<1>7. Drops(D, 24) /\ PlacesOf(D) = 18 + 1 .. 18 + 5
  <2>1. 18 \in Nat /\ 5 \in Nat OBVIOUS
  <2>2. Len(D) = 5 BY <1>4
  <2> QED BY <1>5, <1>6, <2>1, <2>2, DropsMade, ZenonT(40)
<1> QED BY <1>7 DEF D

\* The guards of --zram.
LEMMA ZramDropsMade == Drops(Destructors("zram"), 65) /\ PlacesOf(Destructors("zram")) = 63 .. 64
<1> DEFINE D == Destructors("zram")
           x == S("drop_zram", "worker")
           y == S("drop_zram", "harness")
<1>1. D = <<x, y>>
  BY DEF Destructors
<1>2. D \in Seq(Steps) /\ Len(D) = 2 /\ D[1] = S("drop_zram", "worker") /\ D[2] = S("drop_zram", "harness")
  <2>1. x \in Steps /\ y \in Steps BY DropPlaces
  <2> HIDE DEF D, x, y
  <2>2. D \in Seq(Steps) BY <1>1, <2>1
  <2>3. Len(D) = 2 /\ D[1] = x /\ D[2] = y BY <1>1
  <2> QED BY <2>2, <2>3 DEF x, y
<1> HIDE DEF D
<1>3. \A i \in 1 .. 2 : Place(D[i]) = 62 + i
  <2>1. Place(D[1]) = 63 /\ Place(D[2]) = 64 BY <1>2, DropPlaces
  <2> QED BY <2>1
<1>4. Straight(62, 2, 65)
  BY DEF Straight, Spot, Looks, Needs, Top
<1>5. Placed(D, 62)
  BY <1>2, <1>3, <1>4 DEF Placed, Straight
<1>6. Drops(D, 65) /\ PlacesOf(D) = 62 + 1 .. 62 + 2
  <2>1. 62 \in Nat /\ 2 \in Nat OBVIOUS
  <2>2. Len(D) = 2 BY <1>2
  <2> QED BY <1>4, <1>5, <2>1, <2>2, DropsMade, ZenonT(40)
<1> QED BY <1>6 DEF D

\* The rollback of a swapfile.
LEMMA FileDropsMade == Drops(RollbackFile, 85) /\ PlacesOf(RollbackFile) = 80 .. 81
<1>1. Placed(RollbackFile, 79) /\ Len(RollbackFile) = 2
  <2>1. RollbackFile = TieringBackPart BY DEF RollbackFile, TieringBackPart
  <2> QED BY <2>1, TieringBack
<1>2. Straight(79, 2, 85)
  BY DEF Straight, Spot, Looks, Needs, Top
<1>3. Drops(RollbackFile, 85) /\ PlacesOf(RollbackFile) = 79 + 1 .. 79 + 2
  <2>1. 79 \in Nat /\ 2 \in Nat OBVIOUS
  <2> QED BY <1>1, <1>2, <2>1, DropsMade, Zenon
<1> QED BY <1>3

\* Nothing is inserted.
LEMMA NoDropsMade == ASSUME NEW c PROVE Drops(<<>>, c) /\ PlacesOf(<<>>) = {}
<1> DEFINE D == <<>>
<1>1. D \in Seq(Steps) /\ Len(D) = 0
  OBVIOUS
<1> HIDE DEF D
<1>2. WellMade(D)
  BY <1>1, NoneMade
<1>3. 1 .. Len(D) = {}
  BY <1>1
<1>4. Drops(D, c)
  BY <1>2, <1>3 DEF WellMade, Drops
<1>5. PlacesOf(D) = {}
  BY <1>3 DEF PlacesOf
<1> QED BY <1>4, <1>5 DEF D

\* --tiering has no destructors.
LEMMA TieringDropsMade == Destructors("tiering") = <<>>
BY DEF Destructors

\* The last place.
LEMMA ConcludePlace == \A s \in Steps : s.op = "conclude" => Place(s) = 90
BY DEF Place

DropSet(c) == CASE c = 24 -> 19 .. 23 [] c = 65 -> 63 .. 64 [] OTHER -> {}

\* An error in a scope drops the guards of the scope.
LEMMA FailLeaves ==
  ASSUME WellMade(todo), Running, Head(todo).op # "conclude",
         todo' = Destructors(Scope) \o SubSeq(todo, AfterScope, Len(todo))
  PROVE  WellMade(todo') /\ \E c \in Closes : Leaves(Ahead, Ahead', DropSet(c), c)
<1> DEFINE k == AfterScope
           c == Place(todo[k])
<1>1. k \in 1 .. Len(todo) /\ todo[k].op = "close"
      /\ \A i \in 1 .. Len(todo) : todo[i].op = "close" => k <= i
  BY FirstClose
<1>2. todo[k] \in Steps
  BY <1>1, ElementOfSeq DEF WellMade
<1>3. Scope \in {"cgroups", "zram", "tiering"} /\ c = ClosePlace(Scope)
  BY <1>1, <1>2, CloseOutside DEF Scope, Steps
<1>4. Drops(Destructors(Scope), c) /\ PlacesOf(Destructors(Scope)) = DropSet(c)
  <2>1. CASE Scope = "cgroups"
    <3>1. c = 24 BY <1>3, <2>1 DEF ClosePlace
    <3> QED BY <2>1, <3>1, CgroupDropsMade DEF DropSet
  <2>2. CASE Scope = "zram"
    <3>1. c = 65 BY <1>3, <2>2 DEF ClosePlace
    <3> QED BY <2>2, <3>1, ZramDropsMade DEF DropSet
  <2>3. CASE Scope = "tiering"
    <3>1. c = 85 BY <1>3, <2>3 DEF ClosePlace
    <3>2. DropSet(c) = {} BY <3>1 DEF DropSet
    <3>3. Destructors(Scope) = <<>> BY <2>3, TieringDropsMade
    <3> HIDE DEF c
    <3> QED BY <3>2, <3>3, NoDropsMade, Zenon
  <2> QED BY <1>3, <2>1, <2>2, <2>3
<1>5. /\ WellMade(todo') /\ c \in Closes
      /\ Leaves(PlacesOf(todo), PlacesOf(todo'), PlacesOf(Destructors(Scope)), c)
  BY <1>1, <1>4, LeaveScope
<1>6. Leaves(Ahead, Ahead', DropSet(c), c)
  BY <1>4, <1>5 DEF Ahead
<1> QED BY <1>5, <1>6

\* The close after a step of the swapfile is that of the scope.
LEMMA FileClose ==
  ASSUME NEW h \in 74 .. 81, NEW P, NEW c \in Closes, c \in P, Fronts(h, P)
  PROVE  c = 85
<1>1. c = h \/ Before(h, c)
  BY DEF Fronts
<1> QED BY <1>1 DEF Before, Closes

\* An error in a step of the swapfile, where D is inserted.
LEMMA FileLeaves ==
  ASSUME WellMade(todo), Running, Place(Head(todo)) \in 74 .. 81, NEW D, Drops(D, 85),
         todo' = D \o SubSeq(todo, AfterScope, Len(todo))
  PROVE  WellMade(todo') /\ Leaves(Ahead, Ahead', PlacesOf(D), 85)
<1> DEFINE k == AfterScope
           c == Place(todo[k])
           h == Place(Head(todo))
<1>1. Fronts(h, Ahead) /\ Head(todo) \in Steps
  BY FirstStep DEF Running, Ahead
<1>2. Head(todo).op # "conclude"
  BY <1>1, ConcludePlace
<1>3. k \in 1 .. Len(todo) /\ todo[k].op = "close"
      /\ \A i \in 1 .. Len(todo) : todo[i].op = "close" => k <= i
  BY <1>2, FirstClose
<1>4. c \in Closes
  BY <1>3, SuffixPlaces
<1>5. c \in Ahead
  BY <1>3, <1>4, SMTT(30) DEF Ahead, PlacesOf, Closes
<1>6. c = 85
  BY <1>1, <1>4, <1>5, FileClose
<1>7. /\ WellMade(todo') /\ Leaves(PlacesOf(todo), PlacesOf(todo'), PlacesOf(D), c)
  BY <1>3, <1>6, LeaveScope
<1> QED BY <1>6, <1>7 DEF Ahead

\* An error in a rollback that runs for a failed apply.
LEMMA FileStops ==
  ASSUME WellMade(todo), Running, Place(Head(todo)) \in 74 .. 81,
         todo' = SubSeq(todo, AfterScope, Len(todo))
  PROVE  WellMade(todo') /\ Leaves(Ahead, Ahead', {}, 85)
<1>1. <<>> \o SubSeq(todo, AfterScope, Len(todo)) = SubSeq(todo, AfterScope, Len(todo))
  <2>1. Head(todo) \in Steps BY FirstStep DEF Running
  <2>2. Head(todo).op # "conclude" BY <2>1, ConcludePlace
  <2>3. AfterScope \in 1 .. Len(todo) BY <2>2, FirstClose
  <2>4. SubSeq(todo, AfterScope, Len(todo)) \in Seq(Steps) BY <2>3, SubSeqProperties DEF WellMade
  <2> QED BY <2>4, ConcatEmptySeq
<1>2. Drops(<<>>, 85) /\ PlacesOf(<<>>) = {}
  BY NoDropsMade
<1> DEFINE D == <<>>
<1>3. Drops(D, 85) /\ PlacesOf(D) = {} /\ todo' = D \o SubSeq(todo, AfterScope, Len(todo))
  BY <1>1, <1>2
<1> HIDE DEF D
<1>4. WellMade(todo') /\ Leaves(Ahead, Ahead', PlacesOf(D), 85)
  BY <1>3, FileLeaves
<1> QED BY <1>3, <1>4

\* A step taken.
LEMMA GoesOn ==
  ASSUME WellMade(todo), Running, todo' = Tail(todo)
  PROVE  WellMade(todo') /\ Advances(Place(Head(todo)), Ahead, Ahead')
<1>1. WellMade(todo')
  BY TailMade DEF Running
<1>2. Ahead' = PlacesOf(Tail(todo))
  BY DEF Ahead
<1> QED BY <1>1, <1>2, NextStep DEF Running, Ahead

----------------------------------------------------------------------------
(* The inductive invariant *)

Ours == {d \in Index : dev[d] = "nemor"}

\* The device of role r has been added and is still to be removed.
Live(P, r) == AddPlace(r) \notin P /\ RemovePlace(r) \in P

\* --zram: P is what is ahead, O the devices of the harness, n their names, g
\* what the guards hold and rec the device in the recovery file.
DevicesInv(P, O, n, g, rec) ==
    /\ \A r \in Roles : Live(P, r) => n[r] \in O
    /\ \A r, s \in Roles : Live(P, r) /\ Live(P, s) /\ r # s => n[r] # n[s]
    /\ \A r \in Roles \ {"w"} : Live(P, r) => n[r] \notin g["worker"]
    /\ g["harness"] \subseteq O /\ g["worker"] \subseteq O
    /\ g["harness"] \intersect g["worker"] = {}
    /\ g["worker"] \subseteq {n["w"]}
    /\ 57 \notin P /\ 61 \in P => g["worker"] = {}
    /\ 53 \in P => g["worker"] = {}
    /\ 57 \notin P /\ 58 \in P => rec = n["w"]
    /\ P \intersect {1, 24, 31} # {} =>
          g["harness"] = {} /\ g["worker"] = {} /\ \A r \in Roles : ~Live(P, r)
    /\ 64 \notin P => \A d \in g["harness"] : \E r \in Roles : Live(P, r) /\ d = n[r]
    /\ 63 \notin P /\ g["worker"] # {} => Live(P, "w")

\* Every device of the run is held by a guard or by the recovery file.
DevicesHeld(P, O, g, rec, b) ==
    \A d \in O \ b : \/ d \in g["harness"] \union g["worker"]
                     \/ 57 \notin P /\ 58 \in P /\ d = rec

\* --tiering: f is the state of the swapfile, s the snapshot of the transaction.
FileInv(P, f, s) ==
    /\ 74 \in P => f = "absent"
    /\ 75 \in P /\ 74 \notin P => f = "ready"
    /\ f = "ready" => s.created
    /\ s.rolled => 74 \notin P /\ 75 \notin P
    /\ s.rolled => f # "ready" /\ (s.created => f = "absent")

\* The swapfile will be rolled back.
FileHeld(P, f, s) == f # "absent" => s.created /\ ~s.rolled /\ 81 \in P

\* --cgroups: G the groups, p where the sleepers are, u the guards.
GroupsInv(P, G, p, u) ==
    /\ \A c \in Sleepers : p[c] \in {"none", "origin", c}
    /\ 1 \in P => G = {} /\ p["main"] = "none" /\ p["crash"] = "none"
    /\ 18 \in P \/ \A g \in u : g = "crash_group" \/ DropPlace(g) \in P
    /\ 3 \notin P /\ P \intersect (4 .. 18) # {} => "cleanup" \in u
    /\ 10 \notin P /\ P \intersect (11 .. 12) # {} => "w_cleanup" \in u
    /\ 16 \notin P /\ P \intersect {17, 18} # {} => p["crash"] = "none"
    /\ 17 \notin P /\ 18 \in P => p["main"] = "none"

\* Every sleeper and group is held by a guard, or is handed over just now.
GroupsHeld(P, G, p, u) ==
    /\ p["main"] # "none" => "child" \in u \/ (3 \in P /\ 2 \notin P)
    /\ p["crash"] # "none" => \/ "w_child" \in u \/ "recovery" \in u
                              \/ 10 \in P /\ 9 \notin P
                              \/ 13 \in P /\ 12 \notin P
    /\ "main" \in G => "cleanup" \in u
    /\ "crash" \in G => \/ "w_cleanup" \in u
                        \/ "crash_group" \in u /\ "cleanup" \in u
                        \/ 13 \in P /\ 12 \notin P

Control ==
    /\ run \in 0 .. MaxRuns /\ acts \in Nat
    /\ Running => \/ verdict = "none" /\ run > 0 /\ WellMade(todo)
                  \/ verdict = "cleaning" /\ todo = <<S("residue", "none")>>

Transaction ==
    /\ snap \in [created : BOOLEAN, activated : BOOLEAN, rolled : BOOLEAN, owned : BOOLEAN]
    /\ run = 0 => snap = Fresh
    /\ \A r \in 1 .. MaxRuns : r > run => file[r] = "absent"
    /\ snap.rolled => file[run] # "ready" /\ (snap.created => file[run] = "absent")

Holding ==
    Validating => /\ DevicesInv(Ahead, Ours, name, reg, record)
                  /\ FileInv(Ahead, file[run], snap)
                  /\ GroupsInv(Ahead, groups, proc, guards)

\* The devices that may stay: those of earlier runs, and what a guard refused.
Refused == IF "refused" \in blame THEN base.refused ELSE {}
Excused == base.left \union Refused

Guarded ==
    Validating =>
        /\ blame \intersect DeviceRisks = {} => DevicesHeld(Ahead, Ours, reg, record, Excused)
        /\ blame \intersect FileRisks = {} => FileHeld(Ahead, file[run], snap)
        /\ blame \intersect GroupRisks = {} => GroupsHeld(Ahead, groups, proc, guards)

\* A run that has ended.
Ended == PassClean /\ ErrorPathsClean /\ (verdict \in {"pass", "fail"} => run > 0)

Inv == TypeOK /\ Control /\ Transaction /\ Holding /\ Guarded /\ Ended

----------------------------------------------------------------------------
(* --zram *)

ZramSpots == {33, 36, 38, 39, 49, 50, 53, 57, 58, 61, 63, 64}
SameSpots(P, R) ==
    /\ \A x \in ZramSpots : x \in R <=> x \in P
    /\ R \intersect {1, 24, 31} # {} => P \intersect {1, 24, 31} # {}

\* The places that make a role live.
LEMMA LiveSpots == \A r \in Roles : AddPlace(r) \in ZramSpots /\ RemovePlace(r) \in ZramSpots
BY DEF Roles, AddPlace, RemovePlace, ZramSpots

\* What is ahead has not changed for --zram.
LEMMA DevicesSame ==
  ASSUME NEW P, NEW R, NEW O, NEW n, NEW g, NEW rec, SameSpots(P, R), DevicesInv(P, O, n, g, rec)
  PROVE  /\ DevicesInv(R, O, n, g, rec)
         /\ \A b : DevicesHeld(P, O, g, rec, b) => DevicesHeld(R, O, g, rec, b)
<1>1. \A r \in Roles : Live(R, r) <=> Live(P, r)
  BY LiveSpots DEF Live, SameSpots
<1>2. /\ 53 \in R <=> 53 \in P
      /\ 57 \in R <=> 57 \in P
      /\ 58 \in R <=> 58 \in P
      /\ 61 \in R <=> 61 \in P
      /\ 63 \in R <=> 63 \in P
      /\ 64 \in R <=> 64 \in P
  BY DEF SameSpots, ZramSpots
<1>3. "w" \in Roles
  BY DEF Roles
<1>4. R \intersect {1, 24, 31} # {} =>
        g["harness"] = {} /\ g["worker"] = {} /\ \A r \in Roles : ~Live(P, r)
  BY DEF SameSpots, DevicesInv
<1>5. DevicesInv(R, O, n, g, rec)
  BY <1>1, <1>2, <1>3, <1>4 DEF DevicesInv
<1>6. \A b : DevicesHeld(P, O, g, rec, b) => DevicesHeld(R, O, g, rec, b)
  BY <1>2 DEF DevicesHeld
<1> QED BY <1>5, <1>6

\* A step of another kind.
LEMMA DevicesGoOn ==
  ASSUME NEW h, NEW P, NEW R, Advances(h, P, R), h \notin ZramSpots
  PROVE  SameSpots(P, R)
BY DEF SameSpots, Advances

\* An error outside of --zram.
LEMMA DevicesAfter ==
  ASSUME NEW P, NEW R, Leaves(P, R, DropSet(24), 24)
  PROVE  SameSpots(P, R)
<1>1. DropSet(24) \intersect ZramSpots = {}
  BY DEF DropSet, ZramSpots
<1>2. \A x \in ZramSpots : x >= 24
  BY DEF ZramSpots
<1>3. \A x \in ZramSpots : x \in R <=> x \in P
  BY <1>1, <1>2 DEF Leaves
<1>4. P \intersect {1, 24, 31} # {}
  BY DEF Leaves
<1> QED BY <1>3, <1>4 DEF SameSpots

\* An unwinding of --tiering is after --zram.
LEMMA DevicesBefore ==
  ASSUME NEW P, NEW R, NEW D, Leaves(P, R, D, 85), D \intersect (1 .. 65) = {}
  PROVE  SameSpots(P, R)
<1>1. \A x \in ZramSpots \union {1, 24, 31} : x \in 1 .. 65
  BY DEF ZramSpots
<1>2. \A x \in 1 .. 65 : ~(x >= 85) /\ Top(x) # 85
  BY DEF Top
<1>3. \A x \in ZramSpots \union {1, 24, 31} : x \notin P /\ x \notin R
  BY <1>1, <1>2 DEF Leaves
<1> QED BY <1>3 DEF SameSpots

\* An error in --zram: nothing is live any more.
LEMMA DevicesDropped ==
  ASSUME NEW h, NEW P, NEW R, Fronts(h, P), Leaves(P, R, DropSet(65), 65)
  PROVE  /\ \A r \in Roles : ~Live(R, r)
         /\ R \intersect {1, 24, 31, 53, 57, 58, 61} = {} /\ {63, 64} \subseteq R
         /\ h # 58 => ~(57 \notin P /\ 58 \in P)
<1>1. R = (63 .. 64) \union {n \in P : n >= 65} /\ P \subseteq 1 .. 90
  BY DEF Leaves, DropSet, Fronts
<1>2. \A x \in 1 .. 62 : x \notin R
  BY <1>1
<1>3. \A r \in Roles : RemovePlace(r) \in 1 .. 62
  BY DEF Roles, RemovePlace
<1>4. h # 58 => ~(57 \notin P /\ 58 \in P)
  BY DEF Fronts, Entered
<1> QED BY <1>1, <1>2, <1>3, <1>4 DEF Live

\* When --zram is left, no role is live and its guards are ahead.
LEMMA DevicesAtExit ==
  ASSUME NEW P, NEW R, NEW O, NEW Q, NEW n, NEW g, NEW u, NEW rec,
         \A r \in Roles : ~Live(R, r), R \intersect {1, 24, 31, 53, 57, 58, 61} = {}, {63, 64} \subseteq R,
         DevicesInv(P, O, n, g, rec), O \subseteq Q,
         u["harness"] = g["harness"], u["worker"] \subseteq g["worker"]
  PROVE  DevicesInv(R, Q, n, u, rec)
BY DEF DevicesInv

\* What the guards hold stays held when nothing is handed over.
LEMMA DevicesStay ==
  ASSUME NEW P, NEW R, NEW O, NEW g, NEW rec, NEW b, DevicesHeld(P, O, g, rec, b), ~(57 \notin P /\ 58 \in P)
  PROVE  DevicesHeld(R, O, g, rec, b)
BY DEF DevicesHeld

\* More devices of the harness, and less in the guard of the worker.
LEMMA DevicesMore ==
  ASSUME NEW P, NEW O, NEW Q, NEW n, NEW g, NEW u, NEW rec, DevicesInv(P, O, n, g, rec), O \subseteq Q,
         u["harness"] = g["harness"], u["worker"] = g["worker"] \/ u["worker"] = {}
  PROVE  DevicesInv(P, Q, n, u, rec)
BY DEF DevicesInv

\* An error in any scope.
LEMMA DevicesLeave ==
  ASSUME NEW h, NEW P, NEW R, NEW D, NEW c \in Closes, NEW O, NEW Q, NEW n, NEW g, NEW u, NEW rec,
         Fronts(h, P), Leaves(P, R, D, c), D = DropSet(c) \/ (c = 85 /\ D = 80 .. 81),
         DevicesInv(P, O, n, g, rec), O \subseteq Q,
         u["harness"] = g["harness"], u["worker"] = g["worker"] \/ u["worker"] = {}
  PROVE  /\ DevicesInv(R, Q, n, u, rec)
         /\ \A b : h # 58 /\ DevicesHeld(P, O, g, rec, b) => DevicesHeld(R, O, g, rec, b)
<1>1. CASE c = 65
  <2>1. D = DropSet(65) BY <1>1
  <2>2. /\ \A r \in Roles : ~Live(R, r)
        /\ R \intersect {1, 24, 31, 53, 57, 58, 61} = {} /\ {63, 64} \subseteq R
        /\ h # 58 => ~(57 \notin P /\ 58 \in P)
    BY <1>1, <2>1, DevicesDropped
  <2>3. u["worker"] \subseteq g["worker"] OBVIOUS
  <2>4. DevicesInv(R, Q, n, u, rec) BY <2>2, <2>3, DevicesAtExit
  <2> QED BY <2>2, <2>4, DevicesStay
<1>2. CASE c # 65
  <2>1. ASSUME c = 24 PROVE SameSpots(P, R)
    <3>1. Leaves(P, R, DropSet(24), 24) BY <2>1
    <3> QED BY <3>1, DevicesAfter
  <2>2. ASSUME c = 85 PROVE SameSpots(P, R)
    <3>1. D \intersect (1 .. 65) = {} BY <2>2 DEF DropSet
    <3> QED BY <2>2, <3>1, DevicesBefore
  <2>5. SameSpots(P, R) BY <1>2, <2>1, <2>2 DEF Closes
  <2>4. DevicesInv(R, O, n, g, rec) /\ \A b : DevicesHeld(P, O, g, rec, b) => DevicesHeld(R, O, g, rec, b)
    BY <2>5, DevicesSame
  <2> QED BY <2>4, DevicesMore
<1> QED BY <1>1, <1>2

----------------------------------------------------------------------------
(* Where a run starts *)

\* A program that has a step of a scope has its first one.
Whole(P) ==
    /\ P \intersect (2 .. 23) # {} => 1 \in P
    /\ P \intersect (32 .. 64) # {} => 31 \in P

\* The place of one step.
LEMMA OnePlace ==
  ASSUME NEW s \in Steps, NEW p, p = Place(s), p # 0
  PROVE  <<s>> \in Seq(Steps) /\ PlacesOf(<<s>>) = {p}
<1> DEFINE q == <<s>>
<1>1. q \in Seq(Steps) /\ Len(q) = 1 /\ q[1] = s
  OBVIOUS
<1> HIDE DEF q
<1>2. 1 .. Len(q) = {1}
  BY <1>1
<1>3. PlacesOf(q) = {p}
  BY <1>1, <1>2 DEF PlacesOf
<1> QED BY <1>1, <1>3 DEF q

\* The places of a scope.
LEMMA FitPlaces ==
  ASSUME NEW b, NEW c \in Nat, NEW z \in Nat, Fits(b, c, z)
  PROVE  PlacesOf(b) \subseteq c + 1 .. z - 1 /\ c + 1 \in PlacesOf(b)
<1>1. b \in Seq(Steps) /\ Len(b) > 0 /\ \A i \in 1 .. Len(b) : Place(b[i]) = Spot(c + i)
  BY DEF Fits, Placed
<1>2. ASSUME NEW i \in 1 .. Len(b), Place(b[i]) # 0 PROVE Place(b[i]) \in c + 1 .. z - 1
  <2>1. Place(b[i]) \in 0 .. 90 BY <1>1, PlaceOf
  <2>2. Place(b[i]) = 0 \/ (c < Place(b[i]) /\ Place(b[i]) < z) BY <1>1 DEF Fits
  <2> QED BY <1>2, <2>1, <2>2, Within, Zenon
<1>3. PlacesOf(b) \subseteq c + 1 .. z - 1
  BY <1>2 DEF PlacesOf
<1>4. 1 \in 1 .. Len(b)
  BY <1>1
<1>5. Place(b[1]) = c + 1 /\ c + 1 # 0
  BY <1>1, <1>4 DEF Fits
<1>6. c + 1 \in PlacesOf(b)
  BY <1>4, <1>5 DEF PlacesOf
<1> QED BY <1>3, <1>6

\* The places of the scopes.
LEMMA ScopePlaces ==
  /\ ScopeSteps("cgroups") \in Seq(Steps) /\ PlacesOf(ScopeSteps("cgroups")) \subseteq 1 .. 24
  /\ 1 \in PlacesOf(ScopeSteps("cgroups"))
  /\ ScopeSteps("zram") \in Seq(Steps) /\ PlacesOf(ScopeSteps("zram")) \subseteq 31 .. 65
  /\ 31 \in PlacesOf(ScopeSteps("zram"))
  /\ ScopeSteps("tiering") \in Seq(Steps) /\ PlacesOf(ScopeSteps("tiering")) \subseteq 71 .. 85
<1>1. ASSUME NEW s \in {"cgroups", "zram", "tiering"}, NEW c \in Nat, NEW z \in Nat, NEW b,
             z = ClosePlace(s), z > 0, c < z, Fits(b, c, z)
      PROVE  /\ b \o <<S("close", s)>> \in Seq(Steps)
             /\ PlacesOf(b \o <<S("close", s)>>) \subseteq c + 1 .. z
             /\ c + 1 \in PlacesOf(b \o <<S("close", s)>>)
  <2>1. b \in Seq(Steps) BY <1>1 DEF Fits, Placed
  <2>2. S("close", s) \in Steps /\ Place(S("close", s)) = z BY <1>1, FramePlaces, FrameMade
  <2>3. <<S("close", s)>> \in Seq(Steps) /\ PlacesOf(<<S("close", s)>>) = {z}
    <3>1. z # 0 BY <1>1
    <3> QED BY <2>2, <3>1, OnePlace
  <2>4. PlacesOf(b \o <<S("close", s)>>) = PlacesOf(b) \union {z}
    BY <2>1, <2>3, PlacesJoin
  <2>5. b \o <<S("close", s)>> \in Seq(Steps) BY <2>1, <2>3, ConcatProperties
  <2>6. PlacesOf(b) \subseteq c + 1 .. z - 1 /\ c + 1 \in PlacesOf(b) BY <1>1, FitPlaces
  <2>7. z \in c + 1 .. z /\ c + 1 .. z - 1 \subseteq c + 1 .. z BY <1>1
  <2> QED BY <2>4, <2>5, <2>6, <2>7
<1>2. ScopeSteps("cgroups") \in Seq(Steps) /\ PlacesOf(ScopeSteps("cgroups")) \subseteq 1 .. 24
      /\ 1 \in PlacesOf(ScopeSteps("cgroups"))
  <2> DEFINE b == <<S("scope_deadline", "cgroups")>> \o CgroupSteps
  <2>1. ScopeSteps("cgroups") = b \o <<S("close", "cgroups")>> BY DEF ScopeSteps
  <2>2. Fits(b, 0, 24) /\ 24 = ClosePlace("cgroups") BY ScopesFit DEF ClosePlace
  <2> HIDE DEF b
  <2>3. "cgroups" \in {"cgroups", "zram", "tiering"} /\ 0 \in Nat /\ 24 \in Nat /\ 24 > 0 /\ 0 < 24 OBVIOUS
  <2>4. /\ b \o <<S("close", "cgroups")>> \in Seq(Steps)
        /\ PlacesOf(b \o <<S("close", "cgroups")>>) \subseteq 0 + 1 .. 24
        /\ 0 + 1 \in PlacesOf(b \o <<S("close", "cgroups")>>)
    BY <1>1, <2>2, <2>3, Zenon
  <2>5. 0 + 1 = 1 OBVIOUS
  <2> QED BY <2>1, <2>4, <2>5
<1>3. ScopeSteps("zram") \in Seq(Steps) /\ PlacesOf(ScopeSteps("zram")) \subseteq 31 .. 65
      /\ 31 \in PlacesOf(ScopeSteps("zram"))
  <2> DEFINE b == <<S("scope_deadline", "zram")>> \o ZramSteps
  <2>1. ScopeSteps("zram") = b \o <<S("close", "zram")>> BY DEF ScopeSteps
  <2>2. Fits(b, 30, 65) /\ 65 = ClosePlace("zram") BY ScopesFit DEF ClosePlace
  <2> HIDE DEF b
  <2>3. "zram" \in {"cgroups", "zram", "tiering"} /\ 30 \in Nat /\ 65 \in Nat /\ 65 > 0 /\ 30 < 65 OBVIOUS
  <2>4. /\ b \o <<S("close", "zram")>> \in Seq(Steps)
        /\ PlacesOf(b \o <<S("close", "zram")>>) \subseteq 30 + 1 .. 65
        /\ 30 + 1 \in PlacesOf(b \o <<S("close", "zram")>>)
    BY <1>1, <2>2, <2>3, Zenon
  <2>5. 30 + 1 = 31 OBVIOUS
  <2> QED BY <2>1, <2>4, <2>5
<1>4. ScopeSteps("tiering") \in Seq(Steps) /\ PlacesOf(ScopeSteps("tiering")) \subseteq 71 .. 85
  <2> DEFINE b == <<S("scope_deadline", "tiering")>> \o TieringSteps
  <2>1. ScopeSteps("tiering") = b \o <<S("close", "tiering")>> BY DEF ScopeSteps
  <2>2. Fits(b, 70, 85) /\ 85 = ClosePlace("tiering") BY ScopesFit DEF ClosePlace
  <2> HIDE DEF b
  <2>3. "tiering" \in {"cgroups", "zram", "tiering"} /\ 70 \in Nat /\ 85 \in Nat /\ 85 > 0 /\ 70 < 85 OBVIOUS
  <2>4. /\ b \o <<S("close", "tiering")>> \in Seq(Steps)
        /\ PlacesOf(b \o <<S("close", "tiering")>>) \subseteq 70 + 1 .. 85
        /\ 70 + 1 \in PlacesOf(b \o <<S("close", "tiering")>>)
    BY <1>1, <2>2, <2>3, Zenon
  <2>5. 70 + 1 = 71 OBVIOUS
  <2> QED BY <2>1, <2>4, <2>5
<1> QED BY <1>2, <1>3, <1>4

\* The places of a program begin with those of its scopes.
LEMMA ProgramsWhole == \A q \in Programs : Whole(PlacesOf(q))
<1> DEFINE e == <<S("conclude", "none")>>
           c == ScopeSteps("cgroups")
           z == ScopeSteps("zram")
           t == ScopeSteps("tiering")
<1>1. /\ c \in Seq(Steps) /\ PlacesOf(c) \subseteq 1 .. 24 /\ 1 \in PlacesOf(c)
      /\ z \in Seq(Steps) /\ PlacesOf(z) \subseteq 31 .. 65 /\ 31 \in PlacesOf(z)
      /\ t \in Seq(Steps) /\ PlacesOf(t) \subseteq 71 .. 85
  BY ScopePlaces
<1>2. e \in Seq(Steps) /\ PlacesOf(e) = {90}
  <2>1. S("conclude", "none") \in Steps /\ Place(S("conclude", "none")) = 90 BY FramePlaces
  <2> QED BY <2>1, OnePlace
<1>3. Programs = {c \o e, z \o e, t \o e, ((c \o z) \o t) \o e}
  BY DEF Programs
<1> HIDE DEF c, z, t, e
<1>4. /\ PlacesOf(c \o e) = PlacesOf(c) \union {90}
      /\ PlacesOf(z \o e) = PlacesOf(z) \union {90}
      /\ PlacesOf(t \o e) = PlacesOf(t) \union {90}
  BY <1>1, <1>2, PlacesJoin
<1>5. PlacesOf(((c \o z) \o t) \o e) = PlacesOf(c) \union PlacesOf(z) \union PlacesOf(t) \union {90}
  <2>1. c \o z \in Seq(Steps) BY <1>1, ConcatProperties
  <2>2. (c \o z) \o t \in Seq(Steps) BY <1>1, <2>1, ConcatProperties
  <2>3. PlacesOf(c \o z) = PlacesOf(c) \union PlacesOf(z) BY <1>1, PlacesJoin
  <2>4. PlacesOf((c \o z) \o t) = PlacesOf(c \o z) \union PlacesOf(t) BY <1>1, <2>1, PlacesJoin
  <2>5. PlacesOf(((c \o z) \o t) \o e) = PlacesOf((c \o z) \o t) \union {90} BY <1>2, <2>2, PlacesJoin
  <2> QED BY <2>3, <2>4, <2>5
<1>6. ASSUME NEW C, NEW Z, NEW T, C \subseteq 1 .. 24, 1 \in C, Z \subseteq 31 .. 65, 31 \in Z, T \subseteq 71 .. 85
      PROVE  /\ Whole(C \union {90}) /\ Whole(Z \union {90}) /\ Whole(T \union {90})
             /\ Whole(C \union Z \union T \union {90})
  BY <1>6 DEF Whole
<1>7. /\ Whole(PlacesOf(c \o e)) /\ Whole(PlacesOf(z \o e)) /\ Whole(PlacesOf(t \o e))
      /\ Whole(PlacesOf(((c \o z) \o t) \o e))
  <2>1. /\ Whole(PlacesOf(c) \union {90}) /\ Whole(PlacesOf(z) \union {90}) /\ Whole(PlacesOf(t) \union {90})
        /\ Whole(PlacesOf(c) \union PlacesOf(z) \union PlacesOf(t) \union {90})
    BY <1>1, <1>6, Zenon
  <2> QED BY <2>1, <1>4, <1>5
<1> QED BY <1>3, <1>7

----------------------------------------------------------------------------
(* The steps of --zram *)

\* A step of --zram is taken once.
LEMMA Onward ==
  ASSUME NEW h \in 15 .. 79, NEW P, NEW R, Fronts(h, P), Advances(h, P, R)
  PROVE  h \in P /\ h \notin R /\ R = P \ {h} /\ \A n \in P : n >= h
<1>1. P \subseteq 1 .. 90 /\ h \in P
  BY DEF Fronts
<1>2. \A n \in P : n = h \/ Before(h, n)
  BY DEF Fronts
<1>3. \A n \in R : Before(h, n)
  BY DEF Advances
<1>4. ~Before(h, h)
  BY DEF Before
<1>5. \A n \in 1 .. 90 : Before(h, n) => n >= h
  BY DEF Before
<1>6. h >= h
  OBVIOUS
<1>7. \A n \in P : n >= h
  BY <1>1, <1>2, <1>5, <1>6, Zenon
<1>8. h \notin R
  BY <1>3, <1>4
<1> QED BY <1>1, <1>7, <1>8 DEF Advances

\* A device is added and registered.
LEMMA RoleSpots ==
  /\ \A r \in Roles : AddPlace(r) \in 32 .. 62 /\ RemovePlace(r) \in 32 .. 62 /\ AddPlace(r) < RemovePlace(r)
  /\ \A r, s \in Roles : AddPlace(r) # RemovePlace(s)
  /\ \A r, s \in Roles : r # s => AddPlace(r) # AddPlace(s) /\ RemovePlace(r) # RemovePlace(s)
<1>1. /\ AddPlace("bench") = 33 /\ AddPlace("a") = 38 /\ AddPlace("b") = 39 /\ AddPlace("w") = 53
      /\ RemovePlace("bench") = 36 /\ RemovePlace("a") = 49 /\ RemovePlace("b") = 50 /\ RemovePlace("w") = 61
  BY DEF AddPlace, RemovePlace
<1>2. \A r \in Roles : r \in {"bench", "a", "b", "w"}
  BY DEF Roles
<1>3. \A r \in Roles : AddPlace(r) \in 32 .. 62 /\ RemovePlace(r) \in 32 .. 62 /\ AddPlace(r) < RemovePlace(r)
  BY <1>1, <1>2
<1>4. \A r, s \in Roles : AddPlace(r) # RemovePlace(s)
  BY <1>1, <1>2
<1>5. \A r, s \in Roles : r # s => AddPlace(r) # AddPlace(s)
  BY <1>1, <1>2
<1>6. \A r, s \in Roles : r # s => RemovePlace(r) # RemovePlace(s)
  BY <1>1, <1>2
<1> QED BY <1>3, <1>4, <1>5, <1>6

\* Adding a device makes its role live, and no other.
LEMMA AddedLive ==
  ASSUME NEW P, NEW R, NEW r \in Roles, Chain(P), R = P \ {AddPlace(r)}, AddPlace(r) \in P
  PROVE  \A s \in Roles : Live(R, s) <=> s = r \/ Live(P, s)
<1>1. RemovePlace(r) \in P
  BY DEF Chain, Roles, AddPlace, RemovePlace
<1>2. RemovePlace(r) \in R
  BY <1>1, RoleSpots
<1>3. AddPlace(r) \notin R
  OBVIOUS
<1>4. ASSUME NEW s \in Roles, s # r PROVE Live(R, s) <=> Live(P, s)
  <2>1. AddPlace(s) # AddPlace(r) /\ RemovePlace(s) # AddPlace(r) BY <1>4, RoleSpots
  <2> QED BY <2>1 DEF Live
<1> QED BY <1>2, <1>3, <1>4 DEF Live

\* The role r gets the device d, the guard of its owner holds it.
Given(m, n, r, d) == m[r] = d /\ \A s \in Roles : s # r => m[s] = n[s]
Taking(u, g, r, d) == \A o \in Owners : u[o] = IF o = OwnerOf(r) THEN g[o] \union {d} ELSE g[o]

\* A device is added and registered (Add).
LEMMA DevicesAdd ==
  ASSUME NEW h, NEW P, NEW R, NEW r \in Roles, h = AddPlace(r), Fronts(h, P), Chain(P), Advances(h, P, R),
         NEW O, NEW n, NEW g, NEW rec, NEW d, d \notin O, DevicesInv(P, O, n, g, rec),
         NEW m, Given(m, n, r, d), NEW u, Taking(u, g, r, d)
  PROVE  /\ DevicesInv(R, O \union {d}, m, u, rec)
         /\ \A b : DevicesHeld(P, O, g, rec, b) => DevicesHeld(R, O \union {d}, u, rec, b)
<1> USE DEF Given, Taking
<1>1. h \in 15 .. 79
  <2>1. h \in 32 .. 62 BY RoleSpots
  <2> QED BY <2>1
<1>2. h \in P /\ h \notin R /\ R = P \ {h} /\ \A x \in P : x >= h
  BY <1>1, Onward
<1>3. \A s \in Roles : Live(R, s) <=> s = r \/ Live(P, s)
  BY <1>2, AddedLive
<1>4. ~Live(P, r)
  BY <1>2 DEF Live
<1>5. r = "w" => h = 53 /\ g["worker"] = {} /\ u["worker"] = {d} /\ u["harness"] = g["harness"]
  BY <1>2 DEF DevicesInv, OwnerOf, Owners, AddPlace, Roles
<1>6. r # "w" => h # 53 /\ u["worker"] = g["worker"] /\ u["harness"] = g["harness"] \union {d} /\ m["w"] = n["w"]
  BY DEF OwnerOf, Owners, AddPlace, Roles
<1>7. {1, 24, 31} \intersect R = {}
  <2>1. h \in 32 .. 62 BY RoleSpots
  <2> QED BY <2>1, <1>2
<1>8. h \notin {57, 58, 61, 63, 64}
  BY DEF AddPlace, Roles
<1>9. /\ 57 \in R <=> 57 \in P
      /\ 58 \in R <=> 58 \in P
      /\ 61 \in R <=> 61 \in P
      /\ 63 \in R <=> 63 \in P
      /\ 64 \in R <=> 64 \in P
      /\ 53 \in R => 53 \in P /\ r # "w"
      /\ r = "w" => 57 \in R
  BY <1>2, <1>5, <1>8 DEF Chain
<1>10. \A s \in Roles : Live(R, s) => m[s] \in O \union {d}
  BY <1>3, <1>4 DEF DevicesInv
<1>11. \A s, t \in Roles : Live(R, s) /\ Live(R, t) /\ s # t => m[s] # m[t]
  BY <1>3, <1>4 DEF DevicesInv
<1>12. \A s \in Roles \ {"w"} : Live(R, s) => m[s] \notin u["worker"]
  BY <1>3, <1>4, <1>5, <1>6 DEF DevicesInv
<1>13. /\ u["harness"] \subseteq O \union {d} /\ u["worker"] \subseteq O \union {d}
       /\ u["harness"] \intersect u["worker"] = {} /\ u["worker"] \subseteq {m["w"]}
  BY <1>5, <1>6 DEF DevicesInv
<1>14. 64 \notin R => \A x \in u["harness"] : \E s \in Roles : Live(R, s) /\ x = m[s]
  <2> SUFFICES ASSUME 64 \notin R, NEW x \in u["harness"] PROVE \E s \in Roles : Live(R, s) /\ x = m[s]
    OBVIOUS
  <2>1. CASE x = d BY <2>1, <1>3
  <2>2. CASE x # d
    <3>1. x \in g["harness"] BY <2>2, <1>5, <1>6
    <3>2. PICK s \in Roles : Live(P, s) /\ x = n[s] BY <3>1, <1>9 DEF DevicesInv
    <3> QED BY <3>2, <1>3, <1>4
  <2> QED BY <2>1, <2>2
<1>15. 63 \notin R /\ u["worker"] # {} => Live(R, "w")
  BY <1>3, <1>5, <1>6, <1>9 DEF DevicesInv, Roles
<1>16. /\ 57 \notin R /\ 61 \in R => u["worker"] = {}
       /\ 53 \in R => u["worker"] = {}
       /\ 57 \notin R /\ 58 \in R => rec = m["w"]
  BY <1>5, <1>6, <1>9 DEF DevicesInv
<1>17. DevicesInv(R, O \union {d}, m, u, rec)
  BY <1>7, <1>10, <1>11, <1>12, <1>13, <1>14, <1>15, <1>16 DEF DevicesInv
<1>18. \A b : DevicesHeld(P, O, g, rec, b) => DevicesHeld(R, O \union {d}, u, rec, b)
  <2>1. d \in u["harness"] \union u["worker"] /\ g["harness"] \union g["worker"] \subseteq u["harness"] \union u["worker"]
    BY <1>5, <1>6
  <2> QED BY <2>1, <1>9 DEF DevicesHeld
<1> QED BY <1>17, <1>18

\* A device is removed and its name taken from the guard.
LEMMA DevicesRemove ==
  ASSUME NEW h, NEW P, NEW R, NEW r \in Roles, h = RemovePlace(r), Fronts(h, P), Advances(h, P, R),
         NEW O, NEW n, NEW g, NEW rec, DevicesInv(P, O, n, g, rec),
         NEW u, u["harness"] = g["harness"] \ {n[r]}, u["worker"] = g["worker"]
  PROVE  /\ DevicesInv(R, O \ {n[r]}, n, u, rec) /\ n[r] \in O
         /\ \A b : DevicesHeld(P, O, g, rec, b) => DevicesHeld(R, O \ {n[r]}, u, rec, b)
<1>1. h \in 15 .. 79
  <2>1. h \in 32 .. 62 BY RoleSpots
  <2> QED BY <2>1
<1>2. h \in P /\ h \notin R /\ R = P \ {h} /\ \A x \in P : x >= h
  BY <1>1, Onward
<1>3. Live(P, r)
  <2>1. AddPlace(r) \in 32 .. 62 /\ AddPlace(r) < h BY RoleSpots
  <2>2. ~(AddPlace(r) >= h) BY <2>1, <1>1
  <2> QED BY <1>2, <2>2 DEF Live
<1>4. \A s \in Roles : Live(R, s) <=> s # r /\ Live(P, s)
  <2>1. ~Live(R, r) BY <1>2 DEF Live
  <2>2. ASSUME NEW s \in Roles, s # r PROVE Live(R, s) <=> Live(P, s)
    <3>1. AddPlace(s) # h /\ RemovePlace(s) # h BY <2>2, RoleSpots
    <3> QED BY <3>1, <1>2 DEF Live
  <2> QED BY <2>1, <2>2
<1>5. n[r] \in O /\ \A s \in Roles : Live(R, s) => n[s] # n[r] /\ n[s] \in O
  BY <1>3, <1>4 DEF DevicesInv
<1>6. n[r] \notin g["worker"]
  <2>1. CASE r = "w"
    <3>1. h = 61 BY <2>1 DEF RemovePlace
    <3>2. 57 \notin P /\ 61 \in P BY <3>1, <1>2
    <3> QED BY <3>2 DEF DevicesInv
  <2>2. CASE r # "w" BY <2>2, <1>3 DEF DevicesInv
  <2> QED BY <2>1, <2>2
<1>7. {1, 24, 31} \intersect R = {}
  <2>1. h \in 32 .. 62 BY RoleSpots
  <2> QED BY <2>1, <1>2
<1>8. h \notin {53, 57, 58, 63, 64}
  BY DEF RemovePlace, Roles
<1>9. /\ 53 \in R => 53 \in P
      /\ 57 \in R <=> 57 \in P
      /\ 58 \in R <=> 58 \in P
      /\ 61 \in R => 61 \in P
      /\ 63 \in R <=> 63 \in P
      /\ 64 \in R <=> 64 \in P
  BY <1>2, <1>8
<1>10. 64 \notin R => \A x \in u["harness"] : \E s \in Roles : Live(R, s) /\ x = n[s]
  <2> SUFFICES ASSUME 64 \notin R, NEW x \in u["harness"] PROVE \E s \in Roles : Live(R, s) /\ x = n[s]
    OBVIOUS
  <2>1. x \in g["harness"] /\ x # n[r] OBVIOUS
  <2>2. PICK s \in Roles : Live(P, s) /\ x = n[s] BY <2>1, <1>9 DEF DevicesInv
  <2> QED BY <2>1, <2>2, <1>4
<1>11. 63 \notin R /\ u["worker"] # {} => Live(R, "w")
  <2> SUFFICES ASSUME 63 \notin R, u["worker"] # {} PROVE Live(R, "w")
    OBVIOUS
  <2>1. Live(P, "w") BY <1>9 DEF DevicesInv
  <2>2. g["worker"] = {n["w"]} BY DEF DevicesInv
  <2>3. r # "w" BY <2>2, <1>6
  <2> QED BY <2>1, <2>3, <1>4 DEF Roles
<1>12. DevicesInv(R, O \ {n[r]}, n, u, rec)
  <2>1. \A s \in Roles : Live(R, s) => n[s] \in O \ {n[r]} BY <1>5
  <2>2. \A s, t \in Roles : Live(R, s) /\ Live(R, t) /\ s # t => n[s] # n[t] BY <1>4 DEF DevicesInv
  <2>3. \A s \in Roles \ {"w"} : Live(R, s) => n[s] \notin u["worker"] BY <1>4 DEF DevicesInv
  <2>4. /\ u["harness"] \subseteq O \ {n[r]} /\ u["worker"] \subseteq O \ {n[r]}
        /\ u["harness"] \intersect u["worker"] = {} /\ u["worker"] \subseteq {n["w"]}
    BY <1>6 DEF DevicesInv
  <2>5. /\ 57 \notin R /\ 61 \in R => u["worker"] = {}
        /\ 53 \in R => u["worker"] = {}
        /\ 57 \notin R /\ 58 \in R => rec = n["w"]
    BY <1>9 DEF DevicesInv
  <2> QED BY <2>1, <2>2, <2>3, <2>4, <2>5, <1>7, <1>10, <1>11 DEF DevicesInv
<1>13. \A b : DevicesHeld(P, O, g, rec, b) => DevicesHeld(R, O \ {n[r]}, u, rec, b)
  BY <1>9 DEF DevicesHeld
<1> QED BY <1>5, <1>12, <1>13

\* A device that may be switched.
LEMMA SwitchedLive ==
  ASSUME NEW P, NEW h, Fronts(h, P), Chain(P), NEW r,
         (r = "a" /\ h \in {42, 46}) \/ (r = "b" /\ h \in {44, 48}) \/ (r = "w" /\ h \in {55, 60})
  PROVE  Live(P, r)
<1>1. h \in P /\ P \subseteq 1 .. 90 /\ \A n \in P : n = h \/ Before(h, n)
  BY DEF Fronts
<1>2. RemovePlace(r) \in P
  BY <1>1 DEF Chain, RemovePlace
<1>3. AddPlace(r) < h /\ AddPlace(r) \in 1 .. 90
  BY DEF AddPlace
<1>4. AddPlace(r) # h /\ ~Before(h, AddPlace(r))
  BY <1>3 DEF Before
<1> QED BY <1>1, <1>2, <1>4 DEF Live

\* The worker hands its device over.
LEMMA DevicesPersist ==
  ASSUME NEW P, NEW R, Fronts(57, P), Chain(P), Advances(57, P, R),
         NEW O, NEW n, NEW g, NEW rec, DevicesInv(P, O, n, g, rec),
         NEW u, u["harness"] = g["harness"], u["worker"] = {}
  PROVE  /\ DevicesInv(R, O, n, u, n["w"])
         /\ \A b : DevicesHeld(P, O, g, rec, b) => DevicesHeld(R, O, u, n["w"], b)
<1>1. 57 \in P /\ 57 \notin R /\ R = P \ {57} /\ \A x \in P : x >= 57
  BY Onward
<1>2. \A s \in Roles : AddPlace(s) # 57 /\ RemovePlace(s) # 57
  BY DEF Roles, AddPlace, RemovePlace
<1>3. \A s \in Roles : Live(R, s) <=> Live(P, s)
  BY <1>1, <1>2 DEF Live
<1>4. 58 \in R /\ {1, 24, 31} \intersect R = {} /\ (64 \in R <=> 64 \in P)
  BY <1>1 DEF Chain
<1>5. DevicesInv(R, O, n, u, n["w"])
  BY <1>3, <1>4 DEF DevicesInv
<1>6. \A b : DevicesHeld(P, O, g, rec, b) => DevicesHeld(R, O, u, n["w"], b)
  BY <1>1, <1>4 DEF DevicesHeld, DevicesInv
<1> QED BY <1>5, <1>6

\* The harness takes it over.
LEMMA DevicesAdopt ==
  ASSUME NEW P, NEW R, Fronts(58, P), Chain(P), Advances(58, P, R),
         NEW O, NEW n, NEW g, NEW rec, DevicesInv(P, O, n, g, rec),
         NEW u, u["harness"] = g["harness"] \union {rec}, u["worker"] = g["worker"]
  PROVE  /\ DevicesInv(R, O, n, u, rec) /\ rec \in O
         /\ \A b : DevicesHeld(P, O, g, rec, b) => DevicesHeld(R, O, u, rec, b)
<1>1. 58 \in P /\ 58 \notin R /\ R = P \ {58} /\ \A x \in P : x >= 58
  BY Onward
<1>2. \A s \in Roles : AddPlace(s) # 58 /\ RemovePlace(s) # 58
  BY DEF Roles, AddPlace, RemovePlace
<1>3. \A s \in Roles : Live(R, s) <=> Live(P, s)
  BY <1>1, <1>2 DEF Live
<1>4. {1, 24, 31, 53, 57, 58} \intersect R = {} /\ (64 \in R <=> 64 \in P) /\ 57 \notin P /\ 53 \notin P /\ 61 \in P
  BY <1>1 DEF Chain
<1>5. rec = n["w"] /\ g["worker"] = {}
  BY <1>1, <1>4 DEF DevicesInv
<1>6. "w" \in Roles /\ Live(P, "w")
  BY <1>4 DEF Roles, Live, AddPlace, RemovePlace
<1>7. rec \in O
  BY <1>5, <1>6 DEF DevicesInv
<1>8. 64 \notin R => \A x \in u["harness"] : \E s \in Roles : Live(R, s) /\ x = n[s]
  BY <1>3, <1>4, <1>5, <1>6 DEF DevicesInv
<1>9. DevicesInv(R, O, n, u, rec)
  BY <1>3, <1>4, <1>5, <1>7, <1>8 DEF DevicesInv
<1>10. \A b : DevicesHeld(P, O, g, rec, b) => DevicesHeld(R, O, u, rec, b)
  BY DEF DevicesHeld
<1> QED BY <1>7, <1>9, <1>10

\* Past the steps of --zram nothing is live.
LEMMA NoneLive ==
  ASSUME NEW P, \A x \in P : x >= 62
  PROVE  (\A r \in Roles : ~Live(P, r)) /\ P \intersect {1, 24, 31, 53, 57, 58, 61} = {}
<1>1. \A r \in Roles : RemovePlace(r) \notin P
  BY DEF Roles, RemovePlace
<1> QED BY <1>1 DEF Live

\* A guard gives up one device.
LEMMA DevicesDrop ==
  ASSUME NEW P, NEW O, NEW n, NEW g, NEW rec, NEW o \in Owners, NEW d \in g[o],
         \A x \in P : x >= 62, o = "worker" => 63 \in P, DevicesInv(P, O, n, g, rec),
         NEW u, u[o] = g[o] \ {d}, \A q \in Owners : q # o => u[q] = g[q]
  PROVE  /\ d \in O /\ DevicesInv(P, O \ {d}, n, u, rec) /\ DevicesInv(P, O, n, u, rec)
         /\ \A b : DevicesHeld(P, O, g, rec, b) => DevicesHeld(P, O \ {d}, u, rec, b)
<1>1. (\A r \in Roles : ~Live(P, r)) /\ P \intersect {1, 24, 31, 53, 57, 58, 61} = {}
  BY NoneLive
<1>2. o = "worker" => u["harness"] = g["harness"] /\ u["worker"] = g["worker"] \ {d}
  BY DEF Owners
<1>3. o # "worker" => o = "harness" /\ u["harness"] = g["harness"] \ {d} /\ u["worker"] = g["worker"]
  BY DEF Owners
<1>4. CASE o = "worker"
  <2>1. d \in O /\ d \notin g["harness"] /\ 63 \in P BY <1>4 DEF DevicesInv
  <2>2. DevicesInv(P, O \ {d}, n, u, rec) BY <1>1, <1>2, <1>4, <2>1 DEF DevicesInv
  <2>3. DevicesInv(P, O, n, u, rec) BY <1>1, <1>2, <1>4, <2>1 DEF DevicesInv
  <2>4. \A b : DevicesHeld(P, O, g, rec, b) => DevicesHeld(P, O \ {d}, u, rec, b)
    BY <1>2, <1>4 DEF DevicesHeld
  <2> QED BY <2>1, <2>2, <2>3, <2>4
<1>5. CASE o # "worker"
  <2>1. d \in O /\ d \notin g["worker"] BY <1>3, <1>5 DEF DevicesInv
  <2>2. DevicesInv(P, O \ {d}, n, u, rec) BY <1>1, <1>3, <1>5, <2>1 DEF DevicesInv
  <2>3. DevicesInv(P, O, n, u, rec) BY <1>1, <1>3, <1>5, <2>1 DEF DevicesInv
  <2>4. \A b : DevicesHeld(P, O, g, rec, b) => DevicesHeld(P, O \ {d}, u, rec, b)
    BY <1>3, <1>5 DEF DevicesHeld
  <2> QED BY <2>1, <2>2, <2>3, <2>4
<1> QED BY <1>4, <1>5

\* A guard that holds nothing is dropped.
LEMMA DevicesDone ==
  ASSUME NEW h \in {63, 64}, NEW P, NEW R, Fronts(h, P), Advances(h, P, R),
         NEW O, NEW n, NEW g, NEW rec, DevicesInv(P, O, n, g, rec),
         g[IF h = 63 THEN "worker" ELSE "harness"] = {}
  PROVE  /\ DevicesInv(R, O, n, g, rec)
         /\ \A b : DevicesHeld(P, O, g, rec, b) => DevicesHeld(R, O, g, rec, b)
<1>1. h \in 15 .. 79
  OBVIOUS
<1>2. h \in P /\ h \notin R /\ R = P \ {h} /\ \A x \in P : x >= h
  BY <1>1, Onward
<1>3. \A x \in P : x >= 62
  <2>1. P \subseteq 1 .. 90 BY DEF Fronts
  <2> QED BY <1>2, <2>1
<1>4. (\A r \in Roles : ~Live(P, r)) /\ P \intersect {1, 24, 31, 53, 57, 58, 61} = {}
  BY <1>3, NoneLive
<1>5. (\A r \in Roles : ~Live(R, r)) /\ R \intersect {1, 24, 31, 53, 57, 58, 61} = {}
  <2>1. \A x \in R : x >= 62 BY <1>2, <1>3
  <2> QED BY <2>1, NoneLive
<1>6. CASE h = 63
  <2>1. g["worker"] = {} /\ (64 \in R <=> 64 \in P) BY <1>6, <1>2
  <2>2. DevicesInv(R, O, n, g, rec) BY <2>1, <1>4, <1>5 DEF DevicesInv
  <2> QED BY <2>2, <1>4 DEF DevicesHeld
<1>7. CASE h = 64
  <2>1. g["harness"] = {} /\ 63 \notin P /\ "w" \in Roles BY <1>7, <1>2 DEF Roles
  <2>3. g["worker"] = {} BY <2>1, <1>4 DEF DevicesInv
  <2>2. DevicesInv(R, O, n, g, rec) BY <2>1, <2>3, <1>4, <1>5 DEF DevicesInv
  <2> QED BY <2>2, <1>4 DEF DevicesHeld
<1> QED BY <1>6, <1>7

\* A scope is closed.
LEMMA DevicesClose ==
  ASSUME NEW h \in Closes, NEW P, NEW R, Fronts(h, P), Advances(h, P, R),
         NEW O, NEW n, NEW m, NEW g, NEW rec, DevicesInv(P, O, n, g, rec),
         NEW u, u["harness"] = {}, u["worker"] = {}
  PROVE  /\ DevicesInv(R, O, m, u, rec)
         /\ \A b : DevicesHeld(P, O, g, rec, b) => DevicesHeld(R, O, u, rec, b)
<1>1. P \subseteq 1 .. 90 /\ h \in P /\ h > 0 /\ \A x \in P : x = h \/ Before(h, x)
  <2>1. h > 0 BY DEF Closes
  <2> QED BY <2>1 DEF Fronts
<1>2. R \subseteq P /\ P \subseteq R \union {h}
  BY DEF Advances
<1>3. \A r \in Roles : AddPlace(r) # h /\ RemovePlace(r) # h
  BY DEF Closes, Roles, AddPlace, RemovePlace
<1>4. \A r \in Roles : Live(R, r) <=> Live(P, r)
  BY <1>2, <1>3 DEF Live
<1>5. ~(57 \notin P /\ 58 \in P)
  BY DEF Fronts, Entered, Closes
<1>6. (57 \in R <=> 57 \in P) /\ (58 \in R <=> 58 \in P)
  BY <1>2 DEF Closes
<1>7. /\ g["harness"] = {} /\ g["worker"] = {}
      /\ \A r \in Roles : ~Live(P, r)
  <2>1. CASE h = 24 BY <1>1, <2>1 DEF DevicesInv
  <2>2. CASE h # 24
    <3>1. \A x \in P : x >= 62 /\ x # 63 /\ x # 64 BY <1>1, <2>2 DEF Before, Closes
    <3>2. \A r \in Roles : ~Live(P, r) BY <3>1, NoneLive
    <3>3. 63 \notin P /\ 64 \notin P /\ "w" \in Roles BY <3>1 DEF Roles
    <3> QED BY <3>2, <3>3 DEF DevicesInv
  <2> QED BY <2>1, <2>2
<1>8. DevicesInv(R, O, m, u, rec)
  BY <1>4, <1>5, <1>6, <1>7 DEF DevicesInv
<1>9. \A b : DevicesHeld(P, O, g, rec, b) => DevicesHeld(R, O, u, rec, b)
  BY <1>5, <1>7 DEF DevicesHeld
<1> QED BY <1>8, <1>9

\* A run starts.
LEMMA DevicesStart ==
  ASSUME NEW P, Whole(P), Chain(P), NEW h, Fronts(h, P), Outside(h), NEW O, NEW n, NEW g, NEW rec,
         g["harness"] = {}, g["worker"] = {}
  PROVE  DevicesInv(P, O, n, g, rec)
<1>1. \A r \in Roles : ~Live(P, r)
  <2> SUFFICES ASSUME NEW r \in Roles, RemovePlace(r) \in P PROVE AddPlace(r) \in P
    BY DEF Live
  <2>1. RemovePlace(r) \in 32 .. 62 BY RoleSpots
  <2>2. RemovePlace(r) \in 32 .. 64 BY <2>1
  <2>3. 31 \in P BY <2>2 DEF Whole
  <2> QED BY <2>3 DEF Chain, AddPlace, Roles
<1>2. ~(57 \notin P /\ 58 \in P)
  BY DEF Fronts, Entered, Outside
<1> QED BY <1>1, <1>2 DEF DevicesInv

----------------------------------------------------------------------------
(* --tiering *)

\* A step that neither creates nor removes the swapfile.
LEMMA FileGoOn ==
  ASSUME NEW h, NEW P, NEW R, Advances(h, P, R), h # 74, NEW f, NEW s, FileInv(P, f, s),
         NEW t, t.created = s.created, t.rolled = s.rolled
  PROVE  FileInv(R, f, t) /\ (h # 81 /\ FileHeld(P, f, s) => FileHeld(R, f, t))
BY DEF Advances, FileInv, FileHeld

\* The swapfile is created.
LEMMA FileMade ==
  ASSUME NEW P, NEW R, Fronts(74, P), Advances(74, P, R), Chain(P), NEW f, NEW s, FileInv(P, f, s),
         NEW t, t.created, t.rolled = s.rolled
  PROVE  FileInv(R, "ready", t) /\ FileHeld(R, "ready", t)
<1>1. 74 \in P /\ 74 \notin R /\ R = P \ {74}
  BY Onward
<1>2. ~s.rolled
  BY <1>1 DEF FileInv
<1>3. 81 \in R
  BY <1>1 DEF Chain
<1> QED BY <1>1, <1>2, <1>3 DEF FileInv, FileHeld

\* The end of a rollback.
LEMMA FileGone ==
  ASSUME NEW P, NEW R, Fronts(81, P), Advances(81, P, R), NEW f, NEW s, FileInv(P, f, s), NEW t
  PROVE  /\ FileInv(R, "absent", t) /\ FileHeld(R, "absent", t)
         /\ s.rolled \/ ~s.created =>
              /\ t.created = s.created => FileInv(R, f, t)
              /\ FileHeld(P, f, s) => f = "absent"
<1>1. 74 \notin R /\ 75 \notin R
  BY DEF Advances, Before
<1>2. FileInv(R, "absent", t) /\ FileHeld(R, "absent", t)
  BY <1>1 DEF FileInv, FileHeld
<1>3. ASSUME s.rolled \/ ~s.created, t.created = s.created PROVE FileInv(R, f, t)
  BY <1>1, <1>3 DEF FileInv
<1>4. ASSUME s.rolled \/ ~s.created, FileHeld(P, f, s) PROVE f = "absent"
  BY <1>4 DEF FileHeld
<1> QED BY <1>2, <1>3, <1>4

\* An error in another step.
LEMMA FileAway ==
  ASSUME NEW h, h \notin 74 .. 81, NEW P, NEW R, NEW c \in Closes, Fronts(h, P),
         Leaves(P, R, DropSet(c), c), NEW f, NEW s, FileInv(P, f, s)
  PROVE  FileInv(R, f, s) /\ (FileHeld(P, f, s) => FileHeld(R, f, s))
<1>1. CASE c = 85
  <2>1. \A x \in 74 .. 81 : ~(x >= 85) /\ x \notin DropSet(85) BY DEF DropSet
  <2>2. 74 \notin R /\ 75 \notin R /\ 81 \notin R BY <1>1, <2>1 DEF Leaves
  <2>3. 81 \in P => 74 \in P BY DEF Fronts, Entered
  <2>4. FileInv(R, f, s) BY <2>2 DEF FileInv
  <2>5. FileHeld(P, f, s) => FileHeld(R, f, s) BY <2>3 DEF FileInv, FileHeld
  <2> QED BY <2>4, <2>5
<1>2. CASE c # 85
  <2>1. c \in {24, 65} BY <1>2 DEF Closes
  <2>2. \A x \in 74 .. 81 : x >= c /\ x \notin DropSet(c) BY <2>1 DEF DropSet
  <2>3. (74 \in R <=> 74 \in P) /\ (75 \in R <=> 75 \in P) /\ (81 \in R <=> 81 \in P)
    BY <2>2 DEF Leaves
  <2> QED BY <2>3 DEF FileInv, FileHeld
<1> QED BY <1>1, <1>2

\* An error in a step of the swapfile.
LEMMA FileLeft ==
  ASSUME NEW P, NEW R, NEW D, Leaves(P, R, D, 85), D = {} \/ D = 80 .. 81, NEW e, NEW t,
         e = "ready" => t.created, t.rolled => e # "ready" /\ (t.created => e = "absent")
  PROVE  FileInv(R, e, t)
<1>1. 74 \notin R /\ 75 \notin R
  BY DEF Leaves
<1> QED BY <1>1 DEF FileInv

\* An unwinding into the rollback keeps the swapfile held.
LEMMA FileKept ==
  ASSUME NEW P, NEW R, Leaves(P, R, 80 .. 81, 85), NEW f, NEW s, FileHeld(P, f, s)
  PROVE  FileHeld(R, f, s)
<1>1. 81 \in R
  BY DEF Leaves
<1> QED BY <1>1 DEF FileHeld

\* A run starts.
LEMMA FileStart ==
  ASSUME NEW h, NEW P, Fronts(h, P), Outside(h)
  PROVE  FileInv(P, "absent", Fresh) /\ FileHeld(P, "absent", Fresh)
<1>1. 75 \in P => 74 \in P
  BY DEF Fronts, Entered, Outside
<1> QED BY <1>1 DEF FileInv, FileHeld, Fresh

----------------------------------------------------------------------------
(* --cgroups *)

\* The places that mean something to the sleepers and groups.
GroupSpots == {2, 3, 9, 10, 12, 13, 16, 17, 18} \union (19 .. 23)

Fitting(p) == \A c \in Sleepers : p[c] \in {"none", "origin", c}

\* No sleeper is new, and a new group is covered.
Calmer(G, p, K, q, u) ==
    /\ \A c \in Sleepers : q[c] # "none" => p[c] # "none"
    /\ "main" \in K => "main" \in G \/ "cleanup" \in u
    /\ "crash" \in K => "crash" \in G \/ "w_cleanup" \in u

\* The two sleepers.
LEMMA TwoSleepers == "main" \in Sleepers /\ "crash" \in Sleepers /\ \A c \in Sleepers : c = "main" \/ c = "crash"
BY DEF Sleepers

\* A step that hands nothing over.
LEMMA GroupsGoOn ==
  ASSUME NEW h, NEW P, NEW R, Advances(h, P, R), h \notin GroupSpots, NEW G, NEW p, NEW u,
         GroupsInv(P, G, p, u), NEW K, NEW q, Fitting(q), Calmer(G, p, K, q, u),
         1 \in R => K \subseteq G
  PROVE  GroupsInv(R, K, q, u) /\ (GroupsHeld(P, G, p, u) => GroupsHeld(R, K, q, u))
<1>1. /\ 2 \in R <=> 2 \in P
      /\ 3 \in R <=> 3 \in P
      /\ 9 \in R <=> 9 \in P
      /\ 10 \in R <=> 10 \in P
      /\ 12 \in R <=> 12 \in P
      /\ 13 \in R <=> 13 \in P
      /\ 16 \in R <=> 16 \in P
      /\ 17 \in R <=> 17 \in P
      /\ 18 \in R <=> 18 \in P
  BY DEF Advances, GroupSpots
<1>2. \A g : DropPlace(g) \in R <=> DropPlace(g) \in P
  <2>1. \A g : DropPlace(g) \in 19 .. 23 BY DEF DropPlace
  <2> QED BY <2>1 DEF Advances, GroupSpots
<1>3. R \subseteq P
  BY DEF Advances
<1>4. GroupsInv(R, K, q, u)
  <2>1. \A c \in Sleepers : q[c] \in {"none", "origin", c} BY DEF Fitting
  <2>2. 1 \in R => K = {} /\ q["main"] = "none" /\ q["crash"] = "none"
    BY <1>3, TwoSleepers DEF GroupsInv, Calmer
  <2>3. 18 \in R \/ \A g \in u : g = "crash_group" \/ DropPlace(g) \in R
    BY <1>1, <1>2 DEF GroupsInv
  <2>4. /\ 3 \notin R /\ R \intersect (4 .. 18) # {} => "cleanup" \in u
        /\ 10 \notin R /\ R \intersect (11 .. 12) # {} => "w_cleanup" \in u
    BY <1>1, <1>3 DEF GroupsInv
  <2>5. 16 \notin R /\ R \intersect {17, 18} # {} => q["crash"] = "none"
    BY <1>1, <1>3, TwoSleepers DEF GroupsInv, Calmer
  <2>6. 17 \notin R /\ 18 \in R => q["main"] = "none"
    BY <1>1, TwoSleepers DEF GroupsInv, Calmer
  <2> QED BY <2>1, <2>2, <2>3, <2>4, <2>5, <2>6 DEF GroupsInv
<1>5. GroupsHeld(P, G, p, u) => GroupsHeld(R, K, q, u)
  BY <1>1, TwoSleepers DEF GroupsHeld, Calmer
<1> QED BY <1>4, <1>5

\* Where an error leads.
LEMMA GroupsPast ==
  ASSUME NEW h, NEW P, NEW R, NEW D, NEW c \in Closes, Fronts(h, P), Leaves(P, R, D, c),
         D = DropSet(c) \/ (c = 85 /\ D = 80 .. 81)
  PROVE  /\ \A x \in 1 .. 18 : x \notin R
         /\ c = 24 => 19 .. 23 \subseteq R
         /\ c # 24 => \A x \in 1 .. 24 : x \notin P
         /\ h \in 2 .. 23 => c = 24
         /\ h \notin {3, 10, 13} =>
              ~(3 \in P /\ 2 \notin P) /\ ~(10 \in P /\ 9 \notin P) /\ ~(13 \in P /\ 12 \notin P)
<1>1. \A x \in 1 .. 18 : x \notin D /\ ~(x >= c)
  BY DEF DropSet, Closes
<1>2. \A x \in 1 .. 18 : x \notin R
  BY <1>1 DEF Leaves
<1>3. c = 24 => 19 .. 23 \subseteq R
  BY DEF Leaves, DropSet
<1>4. c # 24 => \A x \in 1 .. 24 : x \notin P
  <2>1. c # 24 => \A x \in 1 .. 24 : ~(x >= c) /\ Top(x) # c BY DEF Top, Closes
  <2> QED BY <2>1 DEF Leaves
<1>5. h \in 2 .. 23 => c = 24
  BY <1>4 DEF Fronts
<1>6. h \notin {3, 10, 13} =>
        ~(3 \in P /\ 2 \notin P) /\ ~(10 \in P /\ 9 \notin P) /\ ~(13 \in P /\ 12 \notin P)
  BY DEF Fronts, Entered
<1> QED BY <1>2, <1>3, <1>4, <1>5, <1>6

\* An error in any scope.
LEMMA GroupsLeave ==
  ASSUME NEW h, NEW P, NEW R, NEW D, NEW c \in Closes, Fronts(h, P), Leaves(P, R, D, c),
         D = DropSet(c) \/ (c = 85 /\ D = 80 .. 81), NEW G, NEW p, NEW u, GroupsInv(P, G, p, u),
         NEW K, NEW q, NEW v, Fitting(q), v \subseteq u \/ h \in 2 .. 23
  PROVE  /\ GroupsInv(R, K, q, v)
         /\ h \notin {3, 10, 13} /\ GroupsHeld(P, G, p, u) /\ Calmer(G, p, K, q, u) => GroupsHeld(R, K, q, u)
<1>1. /\ \A x \in 1 .. 18 : x \notin R
      /\ c = 24 => 19 .. 23 \subseteq R
      /\ c # 24 => \A x \in 1 .. 24 : x \notin P
      /\ h \in 2 .. 23 => c = 24
      /\ h \notin {3, 10, 13} =>
           ~(3 \in P /\ 2 \notin P) /\ ~(10 \in P /\ 9 \notin P) /\ ~(13 \in P /\ 12 \notin P)
  BY GroupsPast
<1>2. \A g : DropPlace(g) \in 19 .. 23
  BY DEF DropPlace
<1>3. \A g \in v : g = "crash_group" \/ DropPlace(g) \in R
  <2>1. CASE c = 24 BY <1>1, <1>2, <2>1
  <2>2. CASE c # 24
    <3>1. v \subseteq u BY <1>1, <2>2
    <3>2. 18 \notin P BY <1>1, <2>2
    <3>3. \A g : DropPlace(g) \notin P BY <1>1, <1>2, <2>2
    <3> QED BY <3>1, <3>2, <3>3 DEF GroupsInv
  <2> QED BY <2>1, <2>2
<1>4. GroupsInv(R, K, q, v)
  BY <1>1, <1>3 DEF GroupsInv, Fitting
<1>5. h \notin {3, 10, 13} /\ GroupsHeld(P, G, p, u) /\ Calmer(G, p, K, q, u) => GroupsHeld(R, K, q, u)
  BY <1>1, TwoSleepers DEF GroupsHeld, Calmer
<1> QED BY <1>4, <1>5

\* A step of --cgroups that is taken once.
LEMMA Forward ==
  ASSUME NEW h \in 2 .. 18, h \notin {7, 14}, NEW P, NEW R, Fronts(h, P), Advances(h, P, R)
  PROVE  h \in P /\ R = P \ {h} /\ (\A x \in P : x >= h) /\ P \subseteq 1 .. 90
<1>1. P \subseteq 1 .. 90 /\ h \in P
  BY DEF Fronts
<1>2. \A n \in P : n = h \/ Before(h, n)
  BY DEF Fronts
<1>3. \A n \in R : Before(h, n)
  BY DEF Advances
<1>4. ~Before(h, h)
  BY DEF Before
<1>5. \A n \in 1 .. 90 : Before(h, n) => n >= h
  BY DEF Before
<1>6. \A x \in P : x >= h
  BY <1>1, <1>2, <1>5
<1> QED BY <1>1, <1>3, <1>4, <1>6 DEF Advances

\* A sleeper is spawned.
LEMMA GroupsSpawn ==
  ASSUME NEW h \in {2, 9}, NEW P, NEW R, Fronts(h, P), Advances(h, P, R), Chain(P), NEW G, NEW p, NEW u,
         GroupsInv(P, G, p, u), NEW q, q[IF h = 2 THEN "main" ELSE "crash"] = "origin",
         \A c \in Sleepers : c # (IF h = 2 THEN "main" ELSE "crash") => q[c] = p[c]
  PROVE  GroupsInv(R, G, q, u) /\ (GroupsHeld(P, G, p, u) => GroupsHeld(R, G, q, u))
<1>1. h \in P /\ R = P \ {h} /\ (\A x \in P : x >= h) /\ P \subseteq 1 .. 90
  BY Forward
<1>2. 1 \notin R /\ 10 \in R /\ 12 \in R /\ 13 \in R /\ 16 \in R /\ 17 \in R /\ 18 \in R /\ 12 \in P /\ 10 \in P /\ 13 \in P
  BY <1>1 DEF Chain
<1>3. CASE h = 2
  <2>1. 3 \in R /\ 2 \notin R /\ 9 \in R /\ 9 \in P /\ q["main"] = "origin" /\ q["crash"] = p["crash"]
    BY <1>1, <1>3, TwoSleepers DEF Chain
  <2>2. GroupsInv(R, G, q, u) BY <1>2, <2>1, TwoSleepers DEF GroupsInv
  <2> QED BY <1>2, <2>1, <2>2 DEF GroupsHeld
<1>4. CASE h = 9
  <2>1. 3 \notin R /\ 3 \notin P /\ 9 \notin R /\ 9 \in P /\ q["crash"] = "origin" /\ q["main"] = p["main"]
    BY <1>1, <1>4, TwoSleepers
  <2>2. "cleanup" \in u BY <2>1 DEF GroupsInv
  <2>3. GroupsInv(R, G, q, u) BY <1>2, <2>1, <2>2, TwoSleepers DEF GroupsInv
  <2> QED BY <1>2, <2>1, <2>3 DEF GroupsHeld
<1> QED BY <1>3, <1>4

\* Its guards are made.
LEMMA GroupsGuard ==
  ASSUME NEW h \in {3, 10}, NEW P, NEW R, Fronts(h, P), Advances(h, P, R), Chain(P), NEW G, NEW p, NEW u,
         GroupsInv(P, G, p, u), NEW v,
         v = u \union (IF h = 3 THEN {"child", "cleanup"} ELSE {"w_child", "w_cleanup"})
  PROVE  GroupsInv(R, G, p, v) /\ (GroupsHeld(P, G, p, u) => GroupsHeld(R, G, p, v))
<1>1. h \in P /\ R = P \ {h} /\ (\A x \in P : x >= h) /\ P \subseteq 1 .. 90
  BY Forward
<1>2. 1 \notin R /\ 12 \in R /\ 13 \in R /\ 16 \in R /\ 17 \in R /\ 18 \in R /\ 12 \in P /\ 13 \in P
  BY <1>1 DEF Chain
<1>3. CASE h = 3
  <2>1. v = u \union {"child", "cleanup"} BY <1>3
  <2>2. 10 \in R /\ 9 \in R /\ 9 \in P BY <1>1, <1>3 DEF Chain
  <2>3. GroupsInv(R, G, p, v) BY <1>2, <2>1, <2>2 DEF GroupsInv
  <2> QED BY <1>2, <2>1, <2>2, <2>3 DEF GroupsHeld
<1>4. CASE h = 10
  <2>1. v = u \union {"w_child", "w_cleanup"} BY <1>4
  <2>2. 3 \notin R /\ 3 \notin P /\ 10 \in P BY <1>1, <1>4
  <2>3. "cleanup" \in u BY <2>2 DEF GroupsInv
  <2>4. GroupsInv(R, G, p, v) BY <1>2, <2>1, <2>2, <2>3 DEF GroupsInv
  <2> QED BY <1>2, <2>1, <2>2, <2>4 DEF GroupsHeld
<1> QED BY <1>3, <1>4

\* The worker forgets its guards.
LEMMA GroupsForget ==
  ASSUME NEW P, NEW R, Fronts(12, P), Advances(12, P, R), Chain(P), NEW G, NEW p, NEW u,
         GroupsInv(P, G, p, u), NEW v, v = u \ {"w_child", "w_cleanup"}
  PROVE  GroupsInv(R, G, p, v) /\ (GroupsHeld(P, G, p, u) => GroupsHeld(R, G, p, v))
<1>1. 12 \in P /\ R = P \ {12} /\ (\A x \in P : x >= 12) /\ P \subseteq 1 .. 90
  BY Forward
<1>2. 1 \notin R /\ 3 \notin P /\ 13 \in R /\ 16 \in R /\ 17 \in R /\ 18 \in R /\ R \intersect (11 .. 12) = {}
  BY <1>1 DEF Chain
<1>3. "cleanup" \in v
  BY <1>1, <1>2 DEF GroupsInv
<1>4. GroupsInv(R, G, p, v)
  BY <1>2, <1>3 DEF GroupsInv
<1> QED BY <1>1, <1>2, <1>3, <1>4 DEF GroupsHeld

\* The harness adopts what the worker left.
LEMMA GroupsAdopt ==
  ASSUME NEW P, NEW R, Fronts(13, P), Advances(13, P, R), Chain(P), NEW G, NEW p, NEW u,
         GroupsInv(P, G, p, u), NEW v, v = u \union {"recovery", "crash_group"}
  PROVE  GroupsInv(R, G, p, v) /\ (GroupsHeld(P, G, p, u) => GroupsHeld(R, G, p, v))
<1>1. 13 \in P /\ R = P \ {13} /\ (\A x \in P : x >= 13) /\ P \subseteq 1 .. 90
  BY Forward
<1>2. 1 \notin R /\ 3 \notin P /\ 16 \in R /\ 17 \in R /\ 18 \in R /\ R \intersect (11 .. 12) = {}
  BY <1>1 DEF Chain
<1>3. "cleanup" \in v
  BY <1>1, <1>2 DEF GroupsInv
<1>4. GroupsInv(R, G, p, v)
  BY <1>2, <1>3 DEF GroupsInv
<1> QED BY <1>1, <1>2, <1>3, <1>4 DEF GroupsHeld

\* A sleeper is ended.
LEMMA GroupsEnd ==
  ASSUME NEW h \in {16, 17}, NEW P, NEW R, Fronts(h, P), Advances(h, P, R), Chain(P), NEW G, NEW p, NEW u,
         GroupsInv(P, G, p, u), NEW q, q[IF h = 17 THEN "main" ELSE "crash"] = "none",
         \A c \in Sleepers : c # (IF h = 17 THEN "main" ELSE "crash") => q[c] = p[c],
         NEW v, v = u \ {IF h = 17 THEN "child" ELSE "recovery"}
  PROVE  GroupsInv(R, G, q, v) /\ (GroupsHeld(P, G, p, u) => GroupsHeld(R, G, q, v))
<1>1. h \in P /\ R = P \ {h} /\ (\A x \in P : x >= h) /\ P \subseteq 1 .. 90
  BY Forward
<1>2. 1 \notin R /\ 3 \notin P /\ 13 \notin P /\ 10 \notin P /\ 18 \in R /\ R \intersect (11 .. 12) = {}
  BY <1>1 DEF Chain
<1>3. "cleanup" \in v
  BY <1>1, <1>2 DEF GroupsInv
<1>4. CASE h = 16
  <2>1. q["crash"] = "none" /\ q["main"] = p["main"] /\ v = u \ {"recovery"} /\ 17 \in R
    BY <1>1, <1>4, TwoSleepers DEF Chain
  <2>2. GroupsInv(R, G, q, v) BY <1>2, <1>3, <2>1, TwoSleepers DEF GroupsInv
  <2> QED BY <1>2, <1>3, <2>1, <2>2 DEF GroupsHeld
<1>5. CASE h = 17
  <2>1. q["main"] = "none" /\ q["crash"] = p["crash"] /\ v = u \ {"child"} /\ 16 \notin P
    BY <1>1, <1>5, TwoSleepers
  <2>2. p["crash"] = "none" BY <1>1, <1>5, <2>1 DEF GroupsInv
  <2>3. GroupsInv(R, G, q, v) BY <1>2, <1>3, <2>1, <2>2, TwoSleepers DEF GroupsInv
  <2> QED BY <1>2, <1>3, <2>1, <2>2, <2>3 DEF GroupsHeld
<1> QED BY <1>4, <1>5

\* Nothing is left.
LEMMA GroupsNone ==
  ASSUME NEW P, NEW R, Fronts(18, P), Advances(18, P, R), NEW p, NEW u, GroupsInv(P, {}, p, u)
  PROVE  GroupsInv(R, {}, p, {}) /\ GroupsHeld(R, {}, p, {})
<1>1. 18 \in P /\ R = P \ {18} /\ (\A x \in P : x >= 18) /\ P \subseteq 1 .. 90
  BY Forward
<1>2. p["main"] = "none" /\ p["crash"] = "none"
  BY <1>1 DEF GroupsInv
<1>3. \A x \in 1 .. 18 : x \notin R
  BY <1>1
<1>4. GroupsInv(R, {}, p, {})
  BY <1>2, <1>3 DEF GroupsInv
<1> QED BY <1>2, <1>4 DEF GroupsHeld

\* Past the steps of --cgroups the guards are still to be dropped.
LEMMA GroupsDropping ==
  ASSUME NEW P, \A x \in P : x >= 19, NEW G, NEW p, NEW u, GroupsInv(P, G, p, u)
  PROVE  /\ \A x \in 1 .. 18 : x \notin P
         /\ \A g \in u : g = "crash_group" \/ DropPlace(g) \in P
<1>1. \A x \in 1 .. 18 : x \notin P
  OBVIOUS
<1> QED BY <1>1 DEF GroupsInv

\* The places of the guards.
LEMMA DropSpots ==
  /\ \A g \in Guards : DropPlace(g) \in 19 .. 23
  /\ \A g, k \in Guards \ {"crash_group"} : g # k => DropPlace(g) # DropPlace(k)
  /\ DropPlace("w_cleanup") = 19 /\ DropPlace("w_child") = 20 /\ DropPlace("recovery") = 21
  /\ DropPlace("cleanup") = 22 /\ DropPlace("child") = 23
BY DEF Guards, DropPlace

\* A guard is dropped.
LEMMA GroupsDrop ==
  ASSUME NEW k \in Guards \ {"crash_group"}, NEW P, NEW R, Fronts(DropPlace(k), P), Advances(DropPlace(k), P, R),
         NEW G, NEW p, NEW u \in SUBSET Guards, GroupsInv(P, G, p, u), NEW K, NEW q, Fitting(q)
  PROVE  GroupsInv(R, K, q, u \ {k})
<1> DEFINE h == DropPlace(k)
<1>1. h \in 15 .. 79 /\ h >= 19
  <2>1. h \in 19 .. 23 BY DropSpots
  <2> QED BY <2>1
<1>2. h \in P /\ h \notin R /\ R = P \ {h} /\ \A x \in P : x >= h
  BY <1>1, Onward
<1>3. \A x \in P : x >= 19
  <2>1. P \subseteq 1 .. 90 BY DEF Fronts
  <2> QED BY <1>1, <1>2, <2>1
<1>4. (\A x \in 1 .. 18 : x \notin P) /\ \A g \in u : g = "crash_group" \/ DropPlace(g) \in P
  BY <1>3, GroupsDropping
<1>5. \A g \in u \ {k} : g = "crash_group" \/ DropPlace(g) \in R
  <2> SUFFICES ASSUME NEW g \in u \ {k}, g # "crash_group" PROVE DropPlace(g) \in R
    OBVIOUS
  <2>1. DropPlace(g) \in P BY <1>4
  <2>2. DropPlace(g) # h BY DropSpots
  <2> QED BY <1>2, <2>1, <2>2
<1>6. \A x \in 1 .. 18 : x \notin R
  BY <1>2, <1>4
<1> QED BY <1>5, <1>6 DEF GroupsInv, Fitting

\* What a guard held is gone, or still held by another one.
LEMMA GroupsDropped ==
  ASSUME NEW k \in Guards \ {"crash_group"}, NEW P, NEW R, Fronts(DropPlace(k), P), Advances(DropPlace(k), P, R),
         NEW G, NEW p, NEW u \in SUBSET Guards, GroupsInv(P, G, p, u), NEW K, NEW q, K \subseteq G,
         Calmer(G, p, K, q, u), GroupsHeld(P, G, p, u),
         k = "child" => q["main"] = "none",
         k \in {"w_child", "recovery"} => q["crash"] = "none",
         k = "w_cleanup" => "crash" \notin K,
         k = "cleanup" => "main" \notin K /\ (p["crash"] = "none" /\ "crash_group" \in u => "crash" \notin K)
  PROVE  GroupsHeld(R, K, q, u \ {k})
<1> DEFINE h == DropPlace(k)
<1>1. h \in 15 .. 79 /\ h >= 19
  <2>1. h \in 19 .. 23 BY DropSpots
  <2> QED BY <2>1
<1>2. h \in P /\ \A x \in P : x >= h
  BY <1>1, Onward
<1>3. P \subseteq 1 .. 90 /\ \A x \in P : x >= 19
  <2>1. P \subseteq 1 .. 90 BY DEF Fronts
  <2> QED BY <1>1, <1>2, <2>1
<1>4. (\A x \in 1 .. 18 : x \notin P) /\ \A g \in u : g = "crash_group" \/ DropPlace(g) \in P
  BY <1>3, GroupsDropping
<1>5. /\ q["main"] # "none" => "child" \in u
      /\ q["crash"] # "none" => "w_child" \in u \/ "recovery" \in u
      /\ "main" \in K => "cleanup" \in u
      /\ "crash" \in K => "w_cleanup" \in u \/ ("crash_group" \in u /\ "cleanup" \in u)
  BY <1>4, TwoSleepers DEF GroupsHeld, Calmer
<1>6. k # "cleanup" => \/ "crash" \notin K \/ "w_cleanup" \in u \ {k}
                       \/ "crash_group" \in u \ {k} /\ "cleanup" \in u \ {k}
  BY <1>5
<1>7. k = "cleanup" => "w_cleanup" \notin u /\ "w_child" \notin u /\ "recovery" \notin u
  <2>1. k = "cleanup" => 19 \notin P /\ 20 \notin P /\ 21 \notin P BY <1>2, <1>3, DropSpots
  <2> QED BY <2>1, <1>4, DropSpots
<1>8. k = "cleanup" => "crash" \notin K
  <2>1. k = "cleanup" => p["crash"] = "none" BY <1>7, <1>4 DEF GroupsHeld
  <2> QED BY <2>1, <1>5, <1>7
<1>9. q["main"] # "none" => "child" \in u \ {k}
  BY <1>5
<1>10. q["crash"] # "none" => "w_child" \in u \ {k} \/ "recovery" \in u \ {k}
  BY <1>5
<1>11. "main" \in K => "cleanup" \in u \ {k}
  BY <1>5
<1> QED BY <1>6, <1>8, <1>9, <1>10, <1>11 DEF GroupsHeld

\* Between the scopes nothing is left.
LEMMA GroupsClear ==
  ASSUME NEW h \in 1 .. 90, h = 1 \/ h >= 24, NEW P, Fronts(h, P), NEW G, G \subseteq Sleepers, NEW p, NEW u,
         GroupsInv(P, G, p, u), GroupsHeld(P, G, p, u)
  PROVE  G = {} /\ p["main"] = "none" /\ p["crash"] = "none"
<1>1. CASE h = 1
  <2>1. 1 \in P BY <1>1 DEF Fronts
  <2> QED BY <2>1 DEF GroupsInv
<1>2. CASE h >= 24
  <2>1. P \subseteq 1 .. 90 /\ \A x \in P : x = h \/ Before(h, x) BY DEF Fronts
  <2>2. \A x \in 1 .. 90 : Before(h, x) => x >= 24 BY <1>2 DEF Before
  <2>3. \A x \in P : x >= 24 BY <1>2, <2>1, <2>2
  <2>4. \A x \in P : x >= 19 BY <2>1, <2>3
  <2>5. (\A x \in 1 .. 18 : x \notin P) /\ \A g \in u : g = "crash_group" \/ DropPlace(g) \in P
    BY <2>4, GroupsDropping
  <2>6. \A x \in 19 .. 23 : x \notin P BY <2>3
  <2>7. "child" \notin u /\ "w_child" \notin u /\ "recovery" \notin u /\ "cleanup" \notin u /\ "w_cleanup" \notin u
    BY <2>5, <2>6, DropSpots
  <2>8. p["main"] = "none" /\ p["crash"] = "none" /\ "main" \notin G /\ "crash" \notin G
    BY <2>5, <2>7 DEF GroupsHeld
  <2> QED BY <2>8, TwoSleepers
<1> QED BY <1>1, <1>2

\* A scope is closed.
LEMMA GroupsClose ==
  ASSUME NEW h \in Closes, NEW P, NEW R, Fronts(h, P), Advances(h, P, R), NEW G, G \subseteq Sleepers, NEW p, NEW u,
         GroupsInv(P, G, p, u)
  PROVE  GroupsInv(R, G, p, {}) /\ (GroupsHeld(P, G, p, u) => GroupsHeld(R, G, p, {}))
<1>1. h \in 1 .. 90 /\ h >= 24
  BY DEF Closes
<1>2. \A x \in 1 .. 18 : x \notin R
  <2>1. \A x \in 1 .. 18 : ~Before(h, x) BY <1>1 DEF Before
  <2> QED BY <1>1, <2>1 DEF Advances
<1>3. GroupsInv(R, G, p, {})
  BY <1>2 DEF GroupsInv
<1>4. GroupsHeld(P, G, p, u) => GroupsHeld(R, G, p, {})
  <2> SUFFICES ASSUME GroupsHeld(P, G, p, u) PROVE GroupsHeld(R, G, p, {})
    OBVIOUS
  <2>1. G = {} /\ p["main"] = "none" /\ p["crash"] = "none" BY <1>1, GroupsClear
  <2> QED BY <2>1 DEF GroupsHeld
<1> QED BY <1>3, <1>4

\* A run starts.
LEMMA GroupsStart ==
  ASSUME NEW P, Whole(P), Chain(P), NEW p, \A c \in Sleepers : p[c] = "none"
  PROVE  GroupsInv(P, {}, p, {}) /\ GroupsHeld(P, {}, p, {})
<1>1. p["main"] = "none" /\ p["crash"] = "none"
  BY TwoSleepers
<1>2. P \intersect (4 .. 18) # {} => 3 \in P /\ 10 \in P
  BY DEF Whole, Chain
<1>3. P \intersect (11 .. 12) # {} => P \intersect (4 .. 18) # {}
  OBVIOUS
<1>4. GroupsInv(P, {}, p, {})
  BY <1>1, <1>2, <1>3, TwoSleepers DEF GroupsInv
<1> QED BY <1>1, <1>4 DEF GroupsHeld

----------------------------------------------------------------------------
(* Where a run ends *)

\* Between the scopes no device of the run is left.
LEMMA DevicesClear ==
  ASSUME NEW h \in {1, 31, 71, 90}, NEW P, Fronts(h, P), NEW O, NEW n, NEW g, NEW rec, NEW b,
         DevicesInv(P, O, n, g, rec), DevicesHeld(P, O, g, rec, b)
  PROVE  O \subseteq b
<1>1. ~(57 \notin P /\ 58 \in P)
  BY DEF Fronts, Entered
<1>2. g["harness"] = {} /\ g["worker"] = {}
  <2>1. CASE h \in {1, 31}
    <3>1. P \intersect {1, 24, 31} # {} BY <2>1 DEF Fronts
    <3> QED BY <3>1 DEF DevicesInv
  <2>2. CASE h \in {71, 90}
    <3>1. P \subseteq 1 .. 90 /\ \A x \in P : x = h \/ Before(h, x) BY DEF Fronts
    <3>2. \A x \in 1 .. 90 : Before(h, x) => x >= 71 BY <2>2 DEF Before
    <3>3. \A x \in P : x >= 71 BY <2>2, <3>1, <3>2
    <3>4. \A x \in P : x >= 62 BY <3>1, <3>3
    <3>5. (\A r \in Roles : ~Live(P, r)) /\ "w" \in Roles BY <3>4, NoneLive DEF Roles
    <3>6. 63 \notin P /\ 64 \notin P BY <3>3
    <3> QED BY <3>5, <3>6 DEF DevicesInv
  <2> QED BY <2>1, <2>2
<1> QED BY <1>1, <1>2 DEF DevicesHeld

\* Nor a swapfile.
LEMMA FileClear ==
  ASSUME NEW h, h \notin 74 .. 81, NEW P, Fronts(h, P), NEW f, NEW s, FileInv(P, f, s), FileHeld(P, f, s)
  PROVE  f = "absent"
<1>1. 81 \in P => 74 \in P
  BY DEF Fronts, Entered
<1> QED BY <1>1 DEF FileInv, FileHeld

----------------------------------------------------------------------------
(* One step of a run *)

\* A step that is not of the cleanup is one of the programs.
LEMMA Taken ==
  ASSUME Inv, Running, Head(todo).op # "residue"
  PROVE  /\ Validating /\ verdict = "none" /\ run \in 1 .. MaxRuns /\ WellMade(todo)
         /\ Head(todo) \in Steps /\ Fronts(Place(Head(todo)), Ahead) /\ Chain(Ahead)
<1>1. todo # <<S("residue", "none")>>
  BY DEF S
<1>2. verdict = "none" /\ run > 0 /\ WellMade(todo)
  BY <1>1 DEF Inv, Control
<1>3. run \in 1 .. MaxRuns
  BY <1>2, BoundsAssumption DEF Inv, Control
<1>4. Head(todo) \in Steps /\ Fronts(Place(Head(todo)), Ahead)
  BY <1>2, FirstStep DEF Running, Ahead
<1>5. Chain(Ahead)
  BY <1>2, Chained DEF Ahead
<1> QED BY <1>2, <1>3, <1>4, <1>5 DEF Validating

\* The steps of the programs are those of a validation.
LEMMA Meant ==
  ASSUME Inv, Validating
  PROVE  Running /\ Head(todo).op # "residue"
<1>1. WellMade(todo) /\ Running
  BY DEF Inv, Control, Validating
<1>2. Head(todo) \in Steps
  BY <1>1, FirstStep DEF Running
<1>3. Head(todo).op # "residue"
  BY <1>2 DEF Steps
<1> QED BY <1>1, <1>3

\* What a validation holds.
LEMMA Holds ==
  ASSUME Inv, Validating
  PROVE  /\ DevicesInv(Ahead, Ours, name, reg, record) /\ FileInv(Ahead, file[run], snap)
         /\ GroupsInv(Ahead, groups, proc, guards)
BY DEF Inv, Holding

Advancing == Advances(Place(Head(todo)), Ahead, Ahead')
LeavingScope == \E c \in Closes : Leaves(Ahead, Ahead', DropSet(c), c)
LeavingFile == \E D \in {{}, 80 .. 81} : Leaves(Ahead, Ahead', D, 85)
Leaving == LeavingScope \/ LeavingFile
DeviceBlamed == blame' \intersect DeviceRisks # {}
FileBlamed == blame' \intersect FileRisks # {}
GroupBlamed == blame' \intersect GroupRisks # {}

\* A guard that refuses a device adds it to the excused ones.
DevicesKept ==
    /\ DevicesInv(Ahead', Ours', name', reg', record')
    /\ ~DeviceBlamed /\ DevicesHeld(Ahead, Ours, reg, record, Excused) =>
           \/ DevicesHeld(Ahead', Ours', reg', record', Excused)
           \/ DevicesHeld(Ahead', Ours', reg', record', Excused')
FilesKept ==
    /\ FileInv(Ahead', file'[run], snap')
    /\ ~FileBlamed /\ FileHeld(Ahead, file[run], snap) => FileHeld(Ahead', file'[run], snap')
GroupsKept ==
    /\ GroupsInv(Ahead', groups', proc', guards')
    /\ ~GroupBlamed /\ GroupsHeld(Ahead, groups, proc, guards) =>
           GroupsHeld(Ahead', groups', proc', guards')

\* How the run goes on after a step that does not end it.
Onwards ==
    /\ WellMade(todo') /\ verdict' = verdict /\ run' = run /\ acts' = acts
    /\ base'.left = base.left /\ base.refused \subseteq base'.refused /\ blame \subseteq blame'

\* A step that does not end the run keeps the invariant when each part is kept.
LEMMA StepInv ==
  ASSUME Inv, Validating, Onwards, TypeOK', Transaction', DevicesKept, FilesKept, GroupsKept
  PROVE  Inv'
<1>1. verdict = "none" /\ run > 0
  BY Meant, Taken DEF Validating
<1>2. verdict' = "none" /\ run' = run /\ acts' = acts /\ WellMade(todo')
  BY <1>1 DEF Onwards
<1>3. run' > 0
  BY <1>1, <1>2
<1>4. Control'
  BY <1>2, <1>3 DEF Inv, Control
<1>5. file'[run'] = file'[run]
  BY <1>2
<1>6. Holding'
  BY <1>5 DEF Holding, DevicesKept, FilesKept, GroupsKept
<1>7. /\ ~DeviceBlamed => DevicesHeld(Ahead', Ours', reg', record', Excused')
      /\ ~FileBlamed => FileHeld(Ahead', file'[run'], snap')
      /\ ~GroupBlamed => GroupsHeld(Ahead', groups', proc', guards')
  <2>1. blame \subseteq blame' /\ Excused \subseteq Excused' BY DEF Onwards, Excused, Refused
  <2>2. ASSUME ~DeviceBlamed PROVE DevicesHeld(Ahead', Ours', reg', record', Excused')
    <3>1. blame \intersect DeviceRisks = {} BY <2>1, <2>2 DEF DeviceBlamed
    <3>2. DevicesHeld(Ahead, Ours, reg, record, Excused) BY <3>1 DEF Inv, Guarded
    <3>3. \/ DevicesHeld(Ahead', Ours', reg', record', Excused)
          \/ DevicesHeld(Ahead', Ours', reg', record', Excused')
      BY <2>2, <3>2 DEF DevicesKept
    <3>4. CASE DevicesHeld(Ahead', Ours', reg', record', Excused)
      <4> HIDE DEF Excused
      <4> QED BY <2>1, <3>4 DEF DevicesHeld
    <3> QED BY <3>3, <3>4
  <2>3. ASSUME ~FileBlamed PROVE FileHeld(Ahead', file'[run'], snap')
    <3>1. blame \intersect FileRisks = {} BY <2>1, <2>3 DEF FileBlamed
    <3>2. FileHeld(Ahead, file[run], snap) BY <3>1 DEF Inv, Guarded
    <3> QED BY <1>5, <2>3, <3>2 DEF FilesKept
  <2>4. ASSUME ~GroupBlamed PROVE GroupsHeld(Ahead', groups', proc', guards')
    <3>1. blame \intersect GroupRisks = {} BY <2>1, <2>4 DEF GroupBlamed
    <3>2. GroupsHeld(Ahead, groups, proc, guards) BY <3>1 DEF Inv, Guarded
    <3> QED BY <2>4, <3>2 DEF GroupsKept
  <2> QED BY <2>2, <2>3, <2>4
<1>8. Guarded'
  BY <1>7 DEF Guarded, DeviceBlamed, FileBlamed, GroupBlamed
<1>9. Ended'
  BY <1>2 DEF Ended, PassClean, ErrorPathsClean
<1> QED BY <1>4, <1>6, <1>8, <1>9 DEF Inv

\* A step is taken, or fails.
LEMMA MoveOn ==
  ASSUME Inv, Validating, Proceed, Smooth
  PROVE  WellMade(todo') /\ Advancing /\ blame' = blame
<1>1. WellMade(todo) /\ Running
  BY Meant, Taken
<1> QED BY <1>1, GoesOn DEF Proceed, Smooth, Advancing

\* A step fails: the scope is left through its destructors.
LEMMA MoveOut ==
  ASSUME Inv, Validating, Head(todo).op # "conclude", NEW why, Unwind(Destructors(Scope), why)
  PROVE  WellMade(todo') /\ LeavingScope /\ blame' = blame \union {why}
<1>1. WellMade(todo) /\ Running
  BY Meant, Taken
<1> QED BY <1>1, FailLeaves DEF Unwind, LeavingScope

\* The two ways of leaving, as one.
LEMMA Either ==
  ASSUME Leaving
  PROVE  \E c \in Closes : \E D : Leaves(Ahead, Ahead', D, c) /\ (D = DropSet(c) \/ (c = 85 /\ D = 80 .. 81))
<1>1. 85 \in Closes /\ DropSet(85) = {}
  BY DEF Closes, DropSet
<1> QED BY <1>1 DEF Leaving, LeavingScope, LeavingFile

\* A step that leaves the devices alone.
LEMMA ZramAside ==
  ASSUME Inv, Validating, dev' = dev, name' = name, reg' = reg, record' = record,
         \/ Advancing /\ Place(Head(todo)) \notin ZramSpots
         \/ Leaving /\ (Place(Head(todo)) # 58 \/ DeviceBlamed)
  PROVE  DevicesKept
<1>1. DevicesInv(Ahead, Ours, name, reg, record)
  BY Holds
<1>2. Ours' = Ours
  BY DEF Ours
<1>3. CASE Advancing /\ Place(Head(todo)) \notin ZramSpots
  <2>1. SameSpots(Ahead, Ahead') BY <1>3, DevicesGoOn DEF Advancing
  <2>2. /\ DevicesInv(Ahead', Ours, name, reg, record)
        /\ \A b : DevicesHeld(Ahead, Ours, reg, record, b) => DevicesHeld(Ahead', Ours, reg, record, b)
    BY <1>1, <2>1, DevicesSame
  <2> QED BY <1>2, <2>2 DEF DevicesKept
<1>4. CASE Leaving /\ (Place(Head(todo)) # 58 \/ DeviceBlamed)
  <2>1. PICK c \in Closes : \E D : Leaves(Ahead, Ahead', D, c) /\ (D = DropSet(c) \/ (c = 85 /\ D = 80 .. 81))
    BY <1>4, Either
  <2>2. PICK D : Leaves(Ahead, Ahead', D, c) /\ (D = DropSet(c) \/ (c = 85 /\ D = 80 .. 81))
    BY <2>1
  <2>3. Fronts(Place(Head(todo)), Ahead) BY Meant, Taken
  <2>4. /\ DevicesInv(Ahead', Ours, name, reg, record)
        /\ \A b : Place(Head(todo)) # 58 /\ DevicesHeld(Ahead, Ours, reg, record, b) =>
                    DevicesHeld(Ahead', Ours, reg, record, b)
    BY <1>1, <2>2, <2>3, DevicesLeave
  <2> QED BY <1>2, <1>4, <2>4 DEF DevicesKept
<1> QED BY <1>3, <1>4

\* A step that leaves the swapfile alone.
LEMMA FileAside ==
  ASSUME Inv, Validating, file' = file, snap' = snap, Place(Head(todo)) \notin 74 .. 81, Advancing \/ LeavingScope
  PROVE  FilesKept
<1> DEFINE h == Place(Head(todo))
<1>1. FileInv(Ahead, file[run], snap)
  BY Holds
<1>2. Fronts(h, Ahead)
  BY Meant, Taken
<1>3. CASE Advancing
  <2>1. h # 74 /\ h # 81 OBVIOUS
  <2> HIDE DEF h
  <2>2. Advances(h, Ahead, Ahead') BY <1>3 DEF Advancing, h
  <2>3. FileInv(Ahead', file[run], snap) /\ (FileHeld(Ahead, file[run], snap) => FileHeld(Ahead', file[run], snap))
    BY <1>1, <2>1, <2>2, FileGoOn
  <2> QED BY <2>3 DEF FilesKept
<1>4. CASE LeavingScope
  <2>1. PICK c \in Closes : Leaves(Ahead, Ahead', DropSet(c), c) BY <1>4 DEF LeavingScope
  <2>2. h \notin 74 .. 81 OBVIOUS
  <2> HIDE DEF h
  <2>3. FileInv(Ahead', file[run], snap) /\ (FileHeld(Ahead, file[run], snap) => FileHeld(Ahead', file[run], snap))
    BY <1>1, <1>2, <2>1, <2>2, FileAway
  <2> QED BY <2>3 DEF FilesKept
<1> QED BY <1>3, <1>4

\* A step that leaves the groups and the sleepers alone.
LEMMA GroupsAside ==
  ASSUME Inv, Validating, groups' = groups, proc' = proc, guards' = guards,
         \/ Advancing /\ Place(Head(todo)) \notin GroupSpots
         \/ Leaving /\ (Place(Head(todo)) \notin {3, 10, 13} \/ GroupBlamed)
  PROVE  GroupsKept
<1>1. GroupsInv(Ahead, groups, proc, guards)
  BY Holds
<1>2. Fitting(proc) /\ Calmer(groups, proc, groups, proc, guards)
  BY <1>1 DEF GroupsInv, Fitting, Calmer
<1>3. CASE Advancing /\ Place(Head(todo)) \notin GroupSpots
  <2>1. /\ GroupsInv(Ahead', groups, proc, guards)
        /\ GroupsHeld(Ahead, groups, proc, guards) => GroupsHeld(Ahead', groups, proc, guards)
    BY <1>1, <1>2, <1>3, GroupsGoOn DEF Advancing
  <2> QED BY <2>1 DEF GroupsKept
<1>4. CASE Leaving /\ (Place(Head(todo)) \notin {3, 10, 13} \/ GroupBlamed)
  <2>1. PICK c \in Closes : \E D : Leaves(Ahead, Ahead', D, c) /\ (D = DropSet(c) \/ (c = 85 /\ D = 80 .. 81))
    BY <1>4, Either
  <2>2. PICK D : Leaves(Ahead, Ahead', D, c) /\ (D = DropSet(c) \/ (c = 85 /\ D = 80 .. 81))
    BY <2>1
  <2>3. Fronts(Place(Head(todo)), Ahead) BY Meant, Taken
  <2>4. /\ GroupsInv(Ahead', groups, proc, guards)
        /\ Place(Head(todo)) \notin {3, 10, 13} /\ GroupsHeld(Ahead, groups, proc, guards) =>
             GroupsHeld(Ahead', groups, proc, guards)
    BY <1>1, <1>2, <2>2, <2>3, GroupsLeave
  <2> QED BY <1>4, <2>4 DEF GroupsKept
<1> QED BY <1>3, <1>4

----------------------------------------------------------------------------
(* Steps that only look *)

LookOps == {"deadline", "benchmark", "inspect", "setup", "resume", "check", "w_base", "zram0_same"}

\* Steps that look have no place.
LEMMA LookPlaces == \A s \in Steps : s.op \in LookOps => Place(s) = 0 /\ s.op # "conclude" /\ s.op # "residue"
BY DEF LookOps, Place

\* All that the invariant is about, beside the baselines.
matters == <<dev, reg, name, evid, record, swaps, groups, proc, guards, file, snap, report, verdict, run, acts>>
SameHistory == base'.left = base.left /\ base'.refused = base.refused

\* The type of an unchanged host.
LEMMA TypeStays ==
  ASSUME TypeOK, UNCHANGED matters
  PROVE  TypeOK'
<1>1. dev' = dev /\ swaps' = swaps /\ file' = file /\ groups' = groups /\ proc' = proc /\ reg' = reg
      /\ guards' = guards /\ name' = name /\ evid' = evid /\ record' = record /\ report' = report
      /\ verdict' = verdict
  BY DEF matters
<1>2. Existing' = Existing
  BY <1>1 DEF Existing
<1> QED BY <1>1, <1>2 DEF TypeOK

\* The transaction of an unchanged swapfile.
LEMMA TransactionStays ==
  ASSUME Transaction, file' = file, snap' = snap, run' = run
  PROVE  Transaction'
BY DEF Transaction

\* A step that looks, and goes on or fails.
LEMMA LookInv ==
  ASSUME Inv, Running, Head(todo).op \in LookOps, UNCHANGED matters, SameHistory, (Proceed /\ Smooth) \/ Fail
  PROVE  Inv'
<1>1. Head(todo).op # "residue"
  BY DEF LookOps
<1>2. Validating /\ Head(todo) \in Steps
  BY <1>1, Taken
<1>3. Place(Head(todo)) = 0 /\ Head(todo).op # "conclude"
  BY <1>2, LookPlaces
<1>4. /\ WellMade(todo') /\ blame \subseteq blame'
      /\ Advancing \/ LeavingScope
  BY <1>2, <1>3, MoveOn, MoveOut DEF Fail, FailInto
<1>5. dev' = dev /\ file' = file /\ groups' = groups /\ proc' = proc /\ reg' = reg
      /\ guards' = guards /\ name' = name /\ record' = record /\ snap' = snap
      /\ verdict' = verdict /\ run' = run /\ acts' = acts
  BY DEF matters
<1>6. Place(Head(todo)) \notin ZramSpots /\ Place(Head(todo)) \notin GroupSpots /\ Place(Head(todo)) \notin 74 .. 81
      /\ Place(Head(todo)) # 58 /\ Place(Head(todo)) \notin {3, 10, 13}
  BY <1>3 DEF ZramSpots, GroupSpots
<1>7. DevicesKept
  BY <1>2, <1>4, <1>5, <1>6, ZramAside DEF Leaving
<1>8. FilesKept
  BY <1>2, <1>4, <1>5, <1>6, FileAside
<1>9. GroupsKept
  BY <1>2, <1>4, <1>5, <1>6, GroupsAside DEF Leaving
<1>10. TypeOK' /\ Transaction'
  BY <1>5, TypeStays, TransactionStays DEF Inv
<1>11. Onwards
  BY <1>4, <1>5 DEF Onwards, SameHistory
<1> QED BY <1>2, <1>7, <1>8, <1>9, <1>10, <1>11, StepInv

\* Deadline keeps the invariant.
LEMMA DeadlineInv == ASSUME Inv, Deadline PROVE Inv'
<1>1. UNCHANGED matters /\ SameHistory
  BY DEF Deadline, zram, cgroup, swapfile, ended, rest, matters, SameHistory
<1>2. Running /\ Head(todo).op \in LookOps
  BY DEF Deadline, At, LookOps
<1>3. (Proceed /\ Smooth) \/ Fail
  BY DEF Deadline, Require, Fine
<1> QED BY <1>1, <1>2, <1>3, LookInv

\* Benchmark keeps the invariant.
LEMMA BenchmarkInv == ASSUME Inv, Benchmark PROVE Inv'
<1>1. UNCHANGED matters /\ SameHistory
  BY DEF Benchmark, zram, cgroup, swapfile, ended, rest, matters, SameHistory
<1>2. Running /\ Head(todo).op \in LookOps
  BY DEF Benchmark, At, LookOps
<1>3. (Proceed /\ Smooth) \/ Fail
  BY DEF Benchmark, Require, Fine, Fails
<1> QED BY <1>1, <1>2, <1>3, LookInv

\* Inspect keeps the invariant.
LEMMA InspectInv == ASSUME Inv, Inspect PROVE Inv'
<1>1. UNCHANGED matters /\ SameHistory
  BY DEF Inspect, zram, cgroup, swapfile, ended, rest, matters, SameHistory
<1>2. Running /\ Head(todo).op \in LookOps
  BY DEF Inspect, At, LookOps
<1>3. (Proceed /\ Smooth) \/ Fail
  BY DEF Inspect, Reads, Fine, Fails
<1> QED BY <1>1, <1>2, <1>3, LookInv

\* Setup keeps the invariant.
LEMMA SetupInv == ASSUME Inv, Setup PROVE Inv'
<1>1. UNCHANGED matters /\ SameHistory
  BY DEF Setup, KeepsZram, KeepsOthers, zram, cgroup, swapfile, ended, rest, matters, SameHistory
<1>2. Running /\ Head(todo).op \in LookOps
  BY DEF Setup, At, LookOps
<1>3. (Proceed /\ Smooth) \/ Fail
  BY DEF Setup, Reads, Fine, Fails
<1> QED BY <1>1, <1>2, <1>3, LookInv

\* Checkpoint keeps the invariant.
LEMMA CheckpointInv == ASSUME Inv, Checkpoint PROVE Inv'
<1>1. UNCHANGED matters /\ SameHistory
  BY DEF Checkpoint, KeepsZram, KeepsOthers, zram, cgroup, swapfile, ended, rest, matters, SameHistory
<1>2. Running /\ Head(todo).op \in LookOps
  BY DEF Checkpoint, At, LookOps
<1>3. (Proceed /\ Smooth) \/ Fail
  BY DEF Checkpoint, Require, Fine
<1> QED BY <1>1, <1>2, <1>3, LookInv

\* WorkerBaseline keeps the invariant.
LEMMA WorkerBaselineInv == ASSUME Inv, WorkerBaseline PROVE Inv'
<1>1. UNCHANGED matters /\ SameHistory
  BY DEF WorkerBaseline, KeepsOthers, zram, cgroup, swapfile, ended, matters, SameHistory
<1>2. Running /\ Head(todo).op \in LookOps
  BY DEF WorkerBaseline, At, LookOps
<1>3. (Proceed /\ Smooth) \/ Fail
  BY DEF WorkerBaseline, Require, Fine
<1> QED BY <1>1, <1>2, <1>3, LookInv

\* ZramSame keeps the invariant.
LEMMA ZramSameInv == ASSUME Inv, ZramSame PROVE Inv'
<1>1. UNCHANGED matters /\ SameHistory
  BY DEF ZramSame, KeepsZram, KeepsOthers, zram, cgroup, swapfile, ended, rest, matters, SameHistory
<1>2. Running /\ Head(todo).op \in LookOps
  BY DEF ZramSame, At, LookOps
<1>3. (Proceed /\ Smooth) \/ Fail
  BY DEF ZramSame, Require, Fine
<1> QED BY <1>1, <1>2, <1>3, LookInv

----------------------------------------------------------------------------
(* The steps of --cgroups *)

\* The places and arguments of the steps of --cgroups.
LEMMA CgroupAt ==
  \A s \in Steps :
    /\ s.op = "spawn" => s.arg \in Sleepers /\ Place(s) = IF s.arg = "main" THEN 2 ELSE 9
    /\ s.op = "guard" => s.arg \in Sleepers /\ Place(s) = IF s.arg = "main" THEN 3 ELSE 10
    /\ s.op = "apply" => s.arg \in Sleepers /\ Place(s) = IF s.arg = "main" THEN 5 ELSE 11
    /\ s.op = "rollback" => s.arg \in Sleepers /\ Place(s) = IF s.arg = "main" THEN 7 ELSE 14
    /\ s.op = "w_forget" => Place(s) = 12
    /\ s.op = "adopt" => Place(s) = 13
    /\ s.op = "end_sleeper" => s.arg = "crash" /\ Place(s) = 16
    /\ s.op = "end_child" => s.arg = "main" /\ Place(s) = 17
    /\ s.op = "no_groups" => Place(s) = 18
    /\ s.op = "drop" => s.arg \in Guards \ {"crash_group"} /\ Place(s) = DropPlace(s.arg)
<1>1. \A s \in Steps :
    /\ s.op = "spawn" => s.arg \in Sleepers /\ Place(s) = IF s.arg = "main" THEN 2 ELSE 9
    /\ s.op = "guard" => s.arg \in Sleepers /\ Place(s) = IF s.arg = "main" THEN 3 ELSE 10
    /\ s.op = "apply" => s.arg \in Sleepers /\ Place(s) = IF s.arg = "main" THEN 5 ELSE 11
    /\ s.op = "rollback" => s.arg \in Sleepers /\ Place(s) = IF s.arg = "main" THEN 7 ELSE 14
  BY DEF Steps, Place
<1>2. \A s \in Steps :
    /\ s.op = "w_forget" => Place(s) = 12
    /\ s.op = "adopt" => Place(s) = 13
    /\ s.op = "no_groups" => Place(s) = 18
  <2> SUFFICES ASSUME NEW s \in Steps
               PROVE  /\ s.op = "w_forget" => Place(s) = 12
                      /\ s.op = "adopt" => Place(s) = 13
                      /\ s.op = "no_groups" => Place(s) = 18
    OBVIOUS
  <2>1. s.op = "w_forget" => Place(s) = 12 BY DEF Place
  <2>2. s.op = "adopt" => Place(s) = 13 BY DEF Place
  <2>3. s.op = "no_groups" => Place(s) = 18 BY DEF Place
  <2> QED BY <2>1, <2>2, <2>3
<1>3. \A s \in Steps :
    /\ s.op = "end_sleeper" => s.arg = "crash" /\ Place(s) = 16
    /\ s.op = "end_child" => s.arg = "main" /\ Place(s) = 17
  BY DEF Steps, Place
<1>4. \A s \in Steps :
    s.op = "drop" => s.arg \in Guards \ {"crash_group"} /\ Place(s) = DropPlace(s.arg)
  BY DEF Steps, Place
<1> QED BY <1>1, <1>2, <1>3, <1>4

\* The type after a step of --cgroups.
LEMMA TypeGroups ==
  ASSUME TypeOK, KeepsCgroup, groups' \subseteq Sleepers,
         proc' \in [Sleepers -> {"none", "origin"} \union groups'], guards' \subseteq Guards
  PROVE  TypeOK'
<1>1. dev' = dev /\ swaps' = swaps /\ file' = file /\ reg' = reg /\ name' = name /\ evid' = evid
      /\ record' = record /\ report' = report /\ verdict' = verdict
  BY DEF KeepsCgroup, zram, swapfile, ended
<1>2. Existing' = Existing
  BY <1>1 DEF Existing
<1> QED BY <1>1, <1>2 DEF TypeOK

\* A step of --cgroups preserves the invariant when the groups are kept.
LEMMA CgroupInv ==
  ASSUME Inv, Validating, Place(Head(todo)) \in 2 .. 23, KeepsCgroup, WellMade(todo'), blame \subseteq blame',
         Advancing \/ LeavingScope, groups' \subseteq Sleepers,
         proc' \in [Sleepers -> {"none", "origin"} \union groups'], guards' \subseteq Guards, GroupsKept
  PROVE  Inv'
<1>1. dev' = dev /\ file' = file /\ reg' = reg /\ name' = name /\ record' = record /\ snap' = snap
      /\ verdict' = verdict /\ run' = run /\ base' = base /\ acts' = acts
  BY DEF KeepsCgroup, zram, swapfile, ended, rest
<1>2. Place(Head(todo)) \notin ZramSpots /\ Place(Head(todo)) \notin 74 .. 81 /\ Place(Head(todo)) # 58
  BY DEF ZramSpots
<1>3. DevicesKept
  BY <1>1, <1>2, ZramAside DEF Leaving
<1>4. FilesKept
  BY <1>1, <1>2, FileAside
<1>5. TypeOK' /\ Transaction'
  BY <1>1, TypeGroups, TransactionStays DEF Inv
<1>6. Onwards
  BY <1>1 DEF Onwards
<1> QED BY <1>3, <1>4, <1>5, <1>6, StepInv

\* An error that changes nothing else.
LEMMA CgroupFailInv ==
  ASSUME Inv, Validating, Place(Head(todo)) \in 2 .. 23, KeepsCgroup, UNCHANGED <<groups, proc, guards>>,
         NEW why, Unwind(Destructors(Scope), why), Place(Head(todo)) \notin {3, 10, 13} \/ why \in GroupRisks
  PROVE  Inv'
<1>1. Head(todo).op # "conclude"
  BY Meant, Taken, ConcludePlace
<1>2. WellMade(todo') /\ LeavingScope /\ blame' = blame \union {why}
  BY <1>1, MoveOut
<1>3. Place(Head(todo)) \notin {3, 10, 13} \/ GroupBlamed
  BY <1>2 DEF GroupBlamed
<1>4. GroupsKept
  BY <1>2, <1>3, GroupsAside DEF Leaving
<1>5. groups' \subseteq Sleepers /\ proc' \in [Sleepers -> {"none", "origin"} \union groups'] /\ guards' \subseteq Guards
  BY DEF Inv, TypeOK
<1> QED BY <1>2, <1>4, <1>5, CgroupInv

\* Spawn keeps the invariant.
LEMMA SpawnInv == ASSUME Inv, Spawn PROVE Inv'
<1>1. Running /\ Head(todo).op = "spawn"
  BY DEF Spawn, At
<1>2. Validating /\ Head(todo) \in Steps /\ Fronts(Place(Head(todo)), Ahead) /\ Chain(Ahead)
  BY <1>1, Taken
<1>3. Arg \in Sleepers /\ Place(Head(todo)) = IF Arg = "main" THEN 2 ELSE 9
  BY <1>1, <1>2, CgroupAt DEF Arg
<1>4. KeepsCgroup /\ groups' = groups /\ guards' = guards
  BY DEF Spawn
<1>5. CASE Fine /\ proc' = [proc EXCEPT ![Arg] = "origin"]
  <2>1. WellMade(todo') /\ Advancing /\ blame' = blame BY <1>2, <1>5, MoveOn DEF Fine
  <2>2. proc \in [Sleepers -> {"none", "origin"} \union groups] BY DEF Inv, TypeOK
  <2>3. proc' \in [Sleepers -> {"none", "origin"} \union groups'] BY <1>4, <1>5, <2>2
  <2>4. GroupsInv(Ahead, groups, proc, guards) BY <1>2, Holds
  <2>5. proc'[Arg] = "origin" /\ \A c \in Sleepers : c # Arg => proc'[c] = proc[c] BY <1>3, <1>5, <2>2
  <2>6. PICK h \in {2, 9} : h = Place(Head(todo)) /\ Arg = IF h = 2 THEN "main" ELSE "crash"
    BY <1>3, TwoSleepers
  <2>7. /\ GroupsInv(Ahead', groups, proc', guards)
        /\ GroupsHeld(Ahead, groups, proc, guards) => GroupsHeld(Ahead', groups, proc', guards)
    BY <1>2, <2>1, <2>4, <2>5, <2>6, GroupsSpawn DEF Advancing
  <2>8. GroupsKept BY <1>4, <2>7 DEF GroupsKept
  <2>9. groups' \subseteq Sleepers /\ guards' \subseteq Guards BY <1>4 DEF Inv, TypeOK
  <2>10. Place(Head(todo)) \in 2 .. 23 BY <2>6
  <2> QED BY <1>2, <1>4, <2>1, <2>3, <2>8, <2>9, <2>10, CgroupInv
<1>6. CASE Fails /\ UNCHANGED proc
  <2>1. Unwind(Destructors(Scope), Head(todo).op) BY <1>6 DEF Fails, Fail, FailInto
  <2>2. Place(Head(todo)) \in 2 .. 23 /\ Place(Head(todo)) \notin {3, 10, 13} BY <1>3
  <2> QED BY <1>2, <1>4, <1>6, <2>1, <2>2, CgroupFailInv
<1> QED BY <1>5, <1>6 DEF Spawn

\* Guard keeps the invariant.
LEMMA GuardInv == ASSUME Inv, Guard PROVE Inv'
<1>1. Running /\ Head(todo).op = "guard"
  BY DEF Guard, At
<1>2. Validating /\ Head(todo) \in Steps /\ Fronts(Place(Head(todo)), Ahead) /\ Chain(Ahead)
  BY <1>1, Taken
<1>3. Arg \in Sleepers /\ Place(Head(todo)) = IF Arg = "main" THEN 3 ELSE 10
  BY <1>1, <1>2, CgroupAt DEF Arg
<1>4. KeepsCgroup /\ groups' = groups /\ proc' = proc
  BY DEF Guard
<1>5. Place(Head(todo)) \in 2 .. 23 /\ "guard" \in GroupRisks
  BY <1>3 DEF GroupRisks
<1>6. groups' \subseteq Sleepers /\ proc' \in [Sleepers -> {"none", "origin"} \union groups'] /\ guards \subseteq Guards
  BY <1>4 DEF Inv, TypeOK
<1>7. GroupsInv(Ahead, groups, proc, guards)
  BY <1>2, Holds
<1>8. ChildGuard(Arg) \in Guards /\ CleanupGuard(Arg) \in Guards
  BY DEF ChildGuard, CleanupGuard, Guards
<1>9. CASE Require(Alive(Arg)) /\ guards' = IF Alive(Arg) THEN guards \union {ChildGuard(Arg), CleanupGuard(Arg)}
                                            ELSE guards
  <2>1. CASE Alive(Arg)
    <3>1. Fine /\ guards' = guards \union {ChildGuard(Arg), CleanupGuard(Arg)} BY <1>9, <2>1 DEF Require
    <3>2. WellMade(todo') /\ Advancing /\ blame' = blame BY <1>2, <3>1, MoveOn DEF Fine
    <3>3. PICK h \in {3, 10} : h = Place(Head(todo)) /\ Arg = IF h = 3 THEN "main" ELSE "crash"
      BY <1>3, TwoSleepers
    <3>4. guards' = guards \union (IF h = 3 THEN {"child", "cleanup"} ELSE {"w_child", "w_cleanup"})
      BY <3>1, <3>3 DEF ChildGuard, CleanupGuard
    <3>5. /\ GroupsInv(Ahead', groups, proc, guards')
          /\ GroupsHeld(Ahead, groups, proc, guards) => GroupsHeld(Ahead', groups, proc, guards')
      BY <1>2, <1>7, <3>2, <3>3, <3>4, GroupsGuard DEF Advancing
    <3>6. GroupsKept BY <1>4, <3>5 DEF GroupsKept
    <3>7. guards' \subseteq Guards BY <1>6, <1>8, <3>1
    <3> QED BY <1>2, <1>4, <1>5, <1>6, <3>2, <3>6, <3>7, CgroupInv
  <2>2. CASE ~Alive(Arg)
    <3>1. Fail /\ guards' = guards BY <1>9, <2>2 DEF Require
    <3>2. Unwind(Destructors(Scope), "guard") BY <1>1, <3>1 DEF Fail, FailInto
    <3> QED BY <1>2, <1>4, <1>5, <3>1, <3>2, CgroupFailInv
  <2> QED BY <2>1, <2>2
<1>10. CASE Fails /\ guards' \in {guards, guards \union {ChildGuard(Arg)}}
  <2>1. Unwind(Destructors(Scope), "guard") BY <1>1, <1>10 DEF Fails, Fail, FailInto
  <2>2. Head(todo).op # "conclude" BY <1>1
  <2>3. WellMade(todo') /\ LeavingScope /\ blame' = blame \union {"guard"} BY <1>2, <2>1, <2>2, MoveOut
  <2>4. PICK c \in Closes : Leaves(Ahead, Ahead', DropSet(c), c) BY <2>3 DEF LeavingScope
  <2>5. Fitting(proc) BY <1>7 DEF GroupsInv, Fitting
  <2>6. GroupsInv(Ahead', groups, proc, guards')
    BY <1>2, <1>5, <1>7, <2>4, <2>5, GroupsLeave
  <2>7. GroupBlamed BY <1>5, <2>3 DEF GroupBlamed
  <2>8. GroupsKept BY <1>4, <2>6, <2>7 DEF GroupsKept
  <2>9. guards' \subseteq Guards BY <1>6, <1>8, <1>10
  <2> QED BY <1>2, <1>4, <1>5, <1>6, <2>3, <2>8, <2>9, CgroupInv
<1> QED BY <1>9, <1>10 DEF Guard

\* A step between the milestones, taken or failed, that moves a sleeper or
\* makes or removes a group.
LEMMA BetweenInv ==
  ASSUME Inv, Validating, Place(Head(todo)) \in {5, 7, 11, 14}, KeepsCgroup, guards' = guards,
         groups' \subseteq Sleepers, proc' \in [Sleepers -> {"none", "origin"} \union groups'],
         Fitting(proc'), Calmer(groups, proc, groups', proc', guards), (Proceed /\ Smooth) \/ Fail
  PROVE  Inv'
<1> DEFINE h == Place(Head(todo))
<1>1. Fronts(h, Ahead) /\ GroupsInv(Ahead, groups, proc, guards) /\ Head(todo) \in Steps
  BY Meant, Taken, Holds
<1>2. Head(todo).op # "conclude" /\ h \in 2 .. 23 /\ h \notin GroupSpots /\ h \notin {3, 10, 13}
  BY <1>1, ConcludePlace DEF GroupSpots
<1>3. guards' \subseteq Guards
  BY DEF Inv, TypeOK
<1>4. CASE Proceed /\ Smooth
  <2>1. WellMade(todo') /\ Advancing /\ blame' = blame BY <1>4, MoveOn
  <2>2. 1 \notin Ahead'
    <3>1. \A x \in {5, 7, 11, 14} : x > 0 /\ ~Before(x, 1) BY DEF Before
    <3> QED BY <2>1, <3>1 DEF Advancing, Advances
  <2>3. /\ GroupsInv(Ahead', groups', proc', guards)
        /\ GroupsHeld(Ahead, groups, proc, guards) => GroupsHeld(Ahead', groups', proc', guards)
    BY <1>1, <1>2, <2>1, <2>2, GroupsGoOn DEF Advancing
  <2>4. GroupsKept BY <2>3 DEF GroupsKept
  <2> QED BY <1>2, <1>3, <2>1, <2>4, CgroupInv
<1>5. CASE Fail
  <2>1. WellMade(todo') /\ LeavingScope /\ blame' = blame \union {Head(todo).op}
    BY <1>2, <1>5, MoveOut DEF Fail, FailInto
  <2>2. PICK c \in Closes : Leaves(Ahead, Ahead', DropSet(c), c) BY <2>1 DEF LeavingScope
  <2>3. /\ GroupsInv(Ahead', groups', proc', guards)
        /\ GroupsHeld(Ahead, groups, proc, guards) => GroupsHeld(Ahead', groups', proc', guards)
    BY <1>1, <1>2, <2>2, GroupsLeave
  <2>4. GroupsKept BY <2>3 DEF GroupsKept
  <2> QED BY <1>2, <1>3, <2>1, <2>4, CgroupInv
<1> QED BY <1>4, <1>5

\* The cleanup guard is armed when a group is made.
LEMMA Armed ==
  ASSUME NEW h \in {5, 11}, NEW P, Fronts(h, P), NEW G, NEW p, NEW u, GroupsInv(P, G, p, u)
  PROVE  (IF h = 5 THEN "cleanup" ELSE "w_cleanup") \in u
<1>1. h \in P /\ 3 \notin P /\ (h = 11 => 10 \notin P)
  BY DEF Fronts, Before
<1> QED BY <1>1 DEF GroupsInv

\* Apply keeps the invariant.
LEMMA ApplyInv == ASSUME Inv, Apply PROVE Inv'
<1> DEFINE a == Arg
           made == groups \union {a}
           moved == [proc EXCEPT ![a] = a]
<1>1. Running /\ Head(todo).op = "apply"
  BY DEF Apply, At
<1>2. Validating /\ Head(todo) \in Steps /\ Fronts(Place(Head(todo)), Ahead)
  BY <1>1, Taken
<1>3. a \in Sleepers /\ Place(Head(todo)) = IF a = "main" THEN 5 ELSE 11
  BY <1>1, <1>2, CgroupAt DEF Arg
<1>4. KeepsCgroup /\ guards' = guards
  BY DEF Apply
<1>5. \/ Alive(a) /\ groups' = made /\ proc' \in {proc, moved}
      \/ groups' = groups /\ proc' = proc
  BY DEF Apply
<1>6. (Proceed /\ Smooth) \/ Fail
  BY DEF Apply, Fine, Fails, Require
<1>7. groups \subseteq Sleepers /\ proc \in [Sleepers -> {"none", "origin"} \union groups]
  BY DEF Inv, TypeOK
<1>8. GroupsInv(Ahead, groups, proc, guards)
  BY <1>2, Holds
<1>9. PICK h \in {5, 11} : h = Place(Head(todo)) /\ a = IF h = 5 THEN "main" ELSE "crash"
  BY <1>3, TwoSleepers
<1>10. (IF h = 5 THEN "cleanup" ELSE "w_cleanup") \in guards
  BY <1>2, <1>8, <1>9, Armed
<1>11. Fitting(proc)
  BY <1>8 DEF GroupsInv, Fitting
<1>12. CASE Alive(a) /\ groups' = made /\ proc' \in {proc, moved}
  <2>1. groups' \subseteq Sleepers BY <1>3, <1>7, <1>12
  <2>2. proc' \in [Sleepers -> {"none", "origin"} \union groups'] BY <1>3, <1>7, <1>12
  <2>3. Fitting(proc') BY <1>3, <1>7, <1>11, <1>12 DEF Fitting
  <2>4. \A c \in Sleepers : proc'[c] # "none" => proc[c] # "none" BY <1>3, <1>7, <1>12 DEF Alive
  <2>5. Calmer(groups, proc, groups', proc', guards) BY <1>9, <1>10, <1>12, <2>4 DEF Calmer
  <2>6. Place(Head(todo)) \in {5, 7, 11, 14} BY <1>9
  <2> QED BY <1>2, <1>4, <1>6, <2>1, <2>2, <2>3, <2>5, <2>6, BetweenInv
<1>13. CASE groups' = groups /\ proc' = proc
  <2>1. Calmer(groups, proc, groups', proc', guards) BY <1>13 DEF Calmer
  <2>2. Place(Head(todo)) \in {5, 7, 11, 14} BY <1>9
  <2>3. Fitting(proc') BY <1>11, <1>13
  <2>4. groups' \subseteq Sleepers /\ proc' \in [Sleepers -> {"none", "origin"} \union groups'] BY <1>7, <1>13
  <2> QED BY <1>2, <1>4, <1>6, <2>1, <2>2, <2>3, <2>4, BetweenInv
<1> QED BY <1>5, <1>12, <1>13

\* A sleeper that is moved back, or ended.
LEMMA BackIs ==
  ASSUME NEW c \in Sleepers, NEW p, p \in [Sleepers -> {"none", "origin"} \union groups], Fitting(p), p = proc
  PROVE  /\ Back(c) \in [Sleepers -> {"none", "origin"} \union (groups \ {c})]
         /\ Back(c) \in [Sleepers -> {"none", "origin"} \union groups]
         /\ Fitting(Back(c)) /\ Back(c)[c] # c
         /\ \A e \in Sleepers : (Back(c)[e] # "none" => p[e] # "none") /\ (e # c => Back(c)[e] = p[e])
<1>1. Back(c) = [p EXCEPT ![c] = IF p[c] # "none" THEN "origin" ELSE "none"]
  BY DEF Back, Alive
<1>2. Back(c)[c] = (IF p[c] # "none" THEN "origin" ELSE "none") /\ \A e \in Sleepers : e # c => Back(c)[e] = p[e]
  BY <1>1
<1>3. c # "origin" /\ c # "none"
  BY DEF Sleepers
<1>4. Back(c) \in [Sleepers -> {"none", "origin"} \union (groups \ {c})]
  <2>1. \A e \in Sleepers : Back(c)[e] \in {"none", "origin"} \union (groups \ {c})
    <3> SUFFICES ASSUME NEW e \in Sleepers PROVE Back(c)[e] \in {"none", "origin"} \union (groups \ {c})
      OBVIOUS
    <3>1. CASE e = c BY <3>1, <1>2
    <3>2. CASE e # c
      <4>1. Back(c)[e] = p[e] /\ p[e] \in {"none", "origin"} \union groups BY <3>2, <1>2
      <4>2. p[e] \in {"none", "origin", e} BY DEF Fitting
      <4> QED BY <3>2, <4>1, <4>2
    <3> QED BY <3>1, <3>2
  <2>2. Back(c) = [e \in Sleepers |-> Back(c)[e]] BY <1>1
  <2> QED BY <2>1, <2>2
<1>5. Back(c) \in [Sleepers -> {"none", "origin"} \union groups]
  BY <1>4
<1>6. Fitting(Back(c))
  BY <1>2 DEF Fitting
<1> QED BY <1>2, <1>3, <1>4, <1>5, <1>6

\* Rollback keeps the invariant.
LEMMA RollbackInv == ASSUME Inv, Rollback PROVE Inv'
<1> DEFINE a == Arg
<1>1. Running /\ Head(todo).op = "rollback"
  BY DEF Rollback, At
<1>2. Validating /\ Head(todo) \in Steps
  BY <1>1, Taken
<1>3. a \in Sleepers /\ Place(Head(todo)) = IF a = "main" THEN 7 ELSE 14
  BY <1>1, <1>2, CgroupAt DEF Arg
<1>4. KeepsCgroup /\ guards' = guards /\ Place(Head(todo)) \in {5, 7, 11, 14}
  BY <1>3 DEF Rollback
<1>5. \/ groups' = groups \ {a} /\ proc' = Back(a)
      \/ groups' = groups /\ proc' \in {proc, Back(a)}
  BY DEF Rollback
<1>6. (Proceed /\ Smooth) \/ Fail
  BY DEF Rollback, Fine, Fails
<1>7. groups \subseteq Sleepers /\ proc \in [Sleepers -> {"none", "origin"} \union groups]
  BY DEF Inv, TypeOK
<1>8. Fitting(proc)
  BY <1>2, Holds DEF GroupsInv, Fitting
<1> HIDE DEF a
<1>9. /\ Back(a) \in [Sleepers -> {"none", "origin"} \union (groups \ {a})]
      /\ Back(a) \in [Sleepers -> {"none", "origin"} \union groups] /\ Fitting(Back(a))
      /\ \A e \in Sleepers : Back(a)[e] # "none" => proc[e] # "none"
  BY <1>3, <1>7, <1>8, BackIs
<1>10. groups' \subseteq Sleepers /\ groups' \subseteq groups
  BY <1>5, <1>7
<1>11. proc' \in [Sleepers -> {"none", "origin"} \union groups'] /\ Fitting(proc')
  BY <1>5, <1>7, <1>8, <1>9
<1>12. \A e \in Sleepers : proc'[e] # "none" => proc[e] # "none"
  BY <1>5, <1>9
<1>13. Calmer(groups, proc, groups', proc', guards)
  BY <1>10, <1>12 DEF Calmer
<1> QED BY <1>2, <1>4, <1>6, <1>10, <1>11, <1>13, BetweenInv

\* A taken step of --cgroups after which the groups are kept.
LEMMA CgroupOnInv ==
  ASSUME Inv, Validating, Place(Head(todo)) \in 2 .. 23, KeepsCgroup, Proceed, Smooth,
         groups' = groups, proc' \in [Sleepers -> {"none", "origin"} \union groups], guards' \subseteq Guards,
         GroupsInv(Ahead', groups, proc', guards'),
         GroupsHeld(Ahead, groups, proc, guards) => GroupsHeld(Ahead', groups, proc', guards')
  PROVE  Inv'
<1>1. WellMade(todo') /\ Advancing /\ blame' = blame
  BY MoveOn
<1>2. GroupsKept
  BY DEF GroupsKept
<1>3. groups' \subseteq Sleepers
  BY DEF Inv, TypeOK
<1> QED BY <1>1, <1>2, <1>3, CgroupInv

\* WorkerForgets keeps the invariant.
LEMMA WorkerForgetsInv == ASSUME Inv, WorkerForgets PROVE Inv'
<1>1. Running /\ Head(todo).op = "w_forget"
  BY DEF WorkerForgets, At
<1>2. Validating /\ Head(todo) \in Steps /\ Fronts(Place(Head(todo)), Ahead) /\ Chain(Ahead)
  BY <1>1, Taken
<1>3. Place(Head(todo)) = 12
  BY <1>1, <1>2, CgroupAt
<1>4. KeepsCgroup /\ groups' = groups /\ proc' = proc /\ Place(Head(todo)) \in 2 .. 23
  BY <1>3 DEF WorkerForgets
<1>5. proc \in [Sleepers -> {"none", "origin"} \union groups] /\ guards \subseteq Guards
  BY DEF Inv, TypeOK
<1>6. CASE Fine /\ guards' = guards \ {"w_child", "w_cleanup"}
  <2>1. Advancing BY <1>2, <1>6, MoveOn DEF Fine
  <2>2. GroupsInv(Ahead, groups, proc, guards) BY <1>2, Holds
  <2>3. /\ GroupsInv(Ahead', groups, proc, guards')
        /\ GroupsHeld(Ahead, groups, proc, guards) => GroupsHeld(Ahead', groups, proc, guards')
    BY <1>2, <1>3, <1>6, <2>1, <2>2, GroupsForget DEF Advancing
  <2> QED BY <1>2, <1>4, <1>5, <1>6, <2>3, CgroupOnInv DEF Fine
<1>7. CASE Fails /\ UNCHANGED guards
  <2>1. Unwind(Destructors(Scope), Head(todo).op) BY <1>7 DEF Fails, Fail, FailInto
  <2>2. Place(Head(todo)) \notin {3, 10, 13} BY <1>3
  <2> QED BY <1>2, <1>4, <1>7, <2>1, <2>2, CgroupFailInv
<1> QED BY <1>6, <1>7 DEF WorkerForgets

\* Adopt keeps the invariant.
LEMMA AdoptInv == ASSUME Inv, Adopt PROVE Inv'
<1>1. Running /\ Head(todo).op = "adopt"
  BY DEF Adopt, At
<1>2. Validating /\ Head(todo) \in Steps /\ Fronts(Place(Head(todo)), Ahead) /\ Chain(Ahead)
  BY <1>1, Taken
<1>3. Place(Head(todo)) = 13
  BY <1>1, <1>2, CgroupAt
<1>4. KeepsCgroup /\ groups' = groups /\ proc' = proc /\ Place(Head(todo)) \in 2 .. 23
  BY <1>3 DEF Adopt
<1>5. proc \in [Sleepers -> {"none", "origin"} \union groups] /\ guards \subseteq Guards
  BY DEF Inv, TypeOK
<1>6. CASE Fine /\ guards' = guards \union {"recovery", "crash_group"}
  <2>1. Advancing BY <1>2, <1>6, MoveOn DEF Fine
  <2>2. GroupsInv(Ahead, groups, proc, guards) BY <1>2, Holds
  <2>3. /\ GroupsInv(Ahead', groups, proc, guards')
        /\ GroupsHeld(Ahead, groups, proc, guards) => GroupsHeld(Ahead', groups, proc, guards')
    BY <1>2, <1>3, <1>6, <2>1, <2>2, GroupsAdopt DEF Advancing
  <2>4. guards' \subseteq Guards BY <1>5, <1>6 DEF Guards
  <2> QED BY <1>2, <1>4, <1>5, <1>6, <2>3, <2>4, CgroupOnInv DEF Fine
<1>7. CASE Fails /\ UNCHANGED guards
  <2>1. Unwind(Destructors(Scope), "adopt") BY <1>1, <1>7 DEF Fails, Fail, FailInto
  <2>2. "adopt" \in GroupRisks BY DEF GroupRisks
  <2> QED BY <1>2, <1>4, <1>7, <2>1, <2>2, CgroupFailInv
<1> QED BY <1>6, <1>7 DEF Adopt

\* EndSleeper keeps the invariant.
LEMMA EndSleeperInv == ASSUME Inv, EndSleeper PROVE Inv'
<1> DEFINE a == Arg
<1>1. Running /\ Head(todo).op \in {"end_sleeper", "end_child"}
  BY DEF EndSleeper, At
<1>2. Head(todo).op # "residue"
  BY <1>1
<1>3. Validating /\ Head(todo) \in Steps /\ Fronts(Place(Head(todo)), Ahead) /\ Chain(Ahead)
  BY <1>1, <1>2, Taken
<1>4. PICK h \in {16, 17} : h = Place(Head(todo)) /\ a = IF h = 17 THEN "main" ELSE "crash"
  BY <1>1, <1>3, CgroupAt DEF Arg
<1>5. KeepsCgroup /\ groups' = groups /\ Place(Head(todo)) \in 2 .. 23 /\ Place(Head(todo)) \notin {3, 10, 13}
  BY <1>4 DEF EndSleeper
<1>6. proc \in [Sleepers -> {"none", "origin"} \union groups] /\ guards \subseteq Guards /\ a \in Sleepers
  BY <1>4, TwoSleepers DEF Inv, TypeOK
<1>7. CASE /\ Fine /\ proc' = [proc EXCEPT ![a] = "none"]
           /\ guards' = guards \ {IF a = "main" THEN "child" ELSE "recovery"}
  <2>1. Advancing BY <1>3, <1>7, MoveOn DEF Fine
  <2>2. GroupsInv(Ahead, groups, proc, guards) BY <1>3, Holds
  <2>3. proc'[a] = "none" /\ \A c \in Sleepers : c # a => proc'[c] = proc[c] BY <1>6, <1>7
  <2>4. guards' = guards \ {IF h = 17 THEN "child" ELSE "recovery"} BY <1>4, <1>7
  <2> HIDE DEF a
  <2>5. /\ GroupsInv(Ahead', groups, proc', guards')
        /\ GroupsHeld(Ahead, groups, proc, guards) => GroupsHeld(Ahead', groups, proc', guards')
    BY <1>3, <1>4, <2>1, <2>2, <2>3, <2>4, GroupsEnd DEF Advancing
  <2>6. proc' \in [Sleepers -> {"none", "origin"} \union groups] BY <1>6, <1>7
  <2> QED BY <1>3, <1>5, <1>6, <1>7, <2>5, <2>6, CgroupOnInv DEF Fine
<1>8. CASE Fail /\ UNCHANGED <<proc, guards>>
  <2>1. Unwind(Destructors(Scope), Head(todo).op) BY <1>8 DEF Fail, FailInto
  <2> QED BY <1>3, <1>5, <1>8, <2>1, CgroupFailInv
<1> QED BY <1>7, <1>8 DEF EndSleeper, Fails, Require

\* NoGroups keeps the invariant.
LEMMA NoGroupsInv == ASSUME Inv, NoGroups PROVE Inv'
<1>1. Running /\ Head(todo).op = "no_groups"
  BY DEF NoGroups, At
<1>2. Validating /\ Head(todo) \in Steps /\ Fronts(Place(Head(todo)), Ahead)
  BY <1>1, Taken
<1>3. Place(Head(todo)) = 18
  BY <1>1, <1>2, CgroupAt
<1>4. KeepsCgroup /\ groups' = groups /\ proc' = proc /\ Place(Head(todo)) \in 2 .. 23 /\ Place(Head(todo)) \notin {3, 10, 13}
  BY <1>3 DEF NoGroups
<1>5. proc \in [Sleepers -> {"none", "origin"} \union groups] /\ guards \subseteq Guards
  BY DEF Inv, TypeOK
<1>6. CASE groups = {}
  <2>1. Fine /\ guards' = {} BY <1>6 DEF NoGroups, Require
  <2>2. Advancing BY <1>2, <2>1, MoveOn DEF Fine
  <2>3. GroupsInv(Ahead, {}, proc, guards) BY <1>2, <1>6, Holds
  <2>4. GroupsInv(Ahead', {}, proc, {}) /\ GroupsHeld(Ahead', {}, proc, {})
    BY <1>2, <1>3, <2>2, <2>3, GroupsNone DEF Advancing
  <2> QED BY <1>2, <1>4, <1>5, <1>6, <2>1, <2>4, CgroupOnInv DEF Fine
<1>7. CASE groups # {}
  <2>1. Fail /\ guards' = guards BY <1>7 DEF NoGroups, Require
  <2>2. Unwind(Destructors(Scope), Head(todo).op) BY <2>1 DEF Fail, FailInto
  <2> QED BY <1>2, <1>4, <2>1, <2>2, CgroupFailInv
<1> QED BY <1>6, <1>7

\* What dropping a guard does to the sleepers.
LEMMA ProcAfterIs ==
  ASSUME NEW k \in Guards \ {"crash_group"}, proc \in [Sleepers -> {"none", "origin"} \union groups], Fitting(proc)
  PROVE  /\ ProcAfter(k) \in [Sleepers -> {"none", "origin"} \union groups] /\ Fitting(ProcAfter(k))
         /\ \A c \in Sleepers : ProcAfter(k)[c] # "none" => proc[c] # "none"
         /\ k = "child" => ProcAfter(k)["main"] = "none"
         /\ k \in {"w_child", "recovery"} => ProcAfter(k)["crash"] = "none"
         /\ k = "cleanup" => ProcAfter(k)["main"] # "main"
         /\ k = "w_cleanup" => ProcAfter(k)["crash"] # "crash"
<1>1. k \in {"child", "cleanup", "w_child", "w_cleanup", "recovery"}
  BY DEF Guards
<1>2. CASE k \in {"child", "w_child", "recovery"}
  <2>1. PICK c \in Sleepers : ProcAfter(k) = [proc EXCEPT ![c] = "none"] /\ c = IF k = "child" THEN "main" ELSE "crash"
    BY <1>2, TwoSleepers DEF ProcAfter
  <2>2. ProcAfter(k)[c] = "none" /\ \A e \in Sleepers : e # c => ProcAfter(k)[e] = proc[e] BY <2>1
  <2>3. ProcAfter(k) \in [Sleepers -> {"none", "origin"} \union groups] BY <2>1
  <2>4. Fitting(ProcAfter(k)) BY <2>2 DEF Fitting
  <2> QED BY <1>2, <2>1, <2>2, <2>3, <2>4
<1>3. CASE k \in {"cleanup", "w_cleanup"}
  <2>1. PICK c \in Sleepers : ProcAfter(k) = Back(c) /\ c = IF k = "cleanup" THEN "main" ELSE "crash"
    BY <1>3, TwoSleepers DEF ProcAfter
  <2>2. /\ Back(c) \in [Sleepers -> {"none", "origin"} \union groups]
        /\ Fitting(Back(c)) /\ Back(c)[c] # c
        /\ \A e \in Sleepers : Back(c)[e] # "none" => proc[e] # "none"
    BY BackIs
  <2> QED BY <1>3, <2>1, <2>2
<1> QED BY <1>1, <1>2, <1>3

\* The groups that are left when guard k is dropped.
GroupsAfter(k, q) == {g \in groups : g \in Covered(k) => \E c \in Sleepers : q[c] = g}

\* Dropping a guard leaves the groups that still hold a sleeper.
LEMMA GroupsAfterIs ==
  ASSUME NEW k \in Guards \ {"crash_group"}, groups \subseteq Sleepers,
         NEW q \in [Sleepers -> {"none", "origin"} \union groups], Fitting(q),
         k = "cleanup" => q["main"] # "main", k = "w_cleanup" => q["crash"] # "crash",
         \A c \in Sleepers : q[c] # "none" => proc[c] # "none"
  PROVE  /\ GroupsAfter(k, q) \subseteq groups
         /\ q \in [Sleepers -> {"none", "origin"} \union GroupsAfter(k, q)]
         /\ k = "w_cleanup" => "crash" \notin GroupsAfter(k, q)
         /\ k = "cleanup" => /\ "main" \notin GroupsAfter(k, q)
                             /\ proc["crash"] = "none" /\ "crash_group" \in guards => "crash" \notin GroupsAfter(k, q)
<1>1. GroupsAfter(k, q) \subseteq groups
  BY DEF GroupsAfter
<1>2. \A c \in Sleepers : q[c] \in {"none", "origin"} \union GroupsAfter(k, q)
  BY DEF GroupsAfter
<1>3. q \in [Sleepers -> {"none", "origin"} \union GroupsAfter(k, q)]
  BY <1>2
<1>4. q["main"] # "crash" /\ q["crash"] # "main"
  BY TwoSleepers DEF Fitting
<1>5. k = "w_cleanup" => "crash" \notin GroupsAfter(k, q)
  BY <1>4, TwoSleepers DEF GroupsAfter, Covered
<1>6. k = "cleanup" => "main" \notin GroupsAfter(k, q)
  BY <1>4, TwoSleepers DEF GroupsAfter, Covered
<1>7. k = "cleanup" /\ proc["crash"] = "none" /\ "crash_group" \in guards => "crash" \notin GroupsAfter(k, q)
  BY <1>4, TwoSleepers DEF GroupsAfter, Covered
<1> QED BY <1>1, <1>3, <1>5, <1>6, <1>7

\* A drop goes on in any case.
LEMMA DropOn ==
  ASSUME Inv, Validating, Proceed
  PROVE  WellMade(todo') /\ Advancing
<1>1. WellMade(todo) /\ Running
  BY Meant, Taken
<1> QED BY <1>1, GoesOn DEF Proceed, Advancing

\* Drop keeps the invariant.
LEMMA DropInv == ASSUME Inv, Drop PROVE Inv'
<1> DEFINE k == Arg
<1>1. Running /\ Head(todo).op = "drop"
  BY DEF Drop, At
<1>2. Validating /\ Head(todo) \in Steps /\ Fronts(Place(Head(todo)), Ahead)
  BY <1>1, Taken
<1>3. k \in Guards \ {"crash_group"} /\ Place(Head(todo)) = DropPlace(k)
  BY <1>1, <1>2, CgroupAt DEF Arg
<1>4. KeepsCgroup /\ guards' = guards \ {k} /\ WellMade(todo') /\ Advancing
  BY <1>2, DropOn DEF Drop
<1>5. proc \in [Sleepers -> {"none", "origin"} \union groups] /\ guards \in SUBSET Guards /\ groups \subseteq Sleepers
  BY DEF Inv, TypeOK
<1>6. GroupsInv(Ahead, groups, proc, guards)
  BY <1>2, Holds
<1>7. Fitting(proc)
  BY <1>6 DEF GroupsInv, Fitting
<1>8. Place(Head(todo)) \in 2 .. 23
  <2>1. Place(Head(todo)) \in 19 .. 23 BY <1>3, DropSpots
  <2> QED BY <2>1
<1>9. \/ proc' = ProcAfter(k) /\ groups' = GroupsAfter(k, proc') /\ blame' = blame
      \/ blame' = blame \union {"drop"} /\ proc' = proc /\ groups' = groups
      \/ k \notin guards /\ blame' = blame /\ proc' = proc /\ groups' = groups
  BY DEF Drop, GroupsAfter
<1> HIDE DEF k
<1>10. /\ ProcAfter(k) \in [Sleepers -> {"none", "origin"} \union groups] /\ Fitting(ProcAfter(k))
       /\ \A c \in Sleepers : ProcAfter(k)[c] # "none" => proc[c] # "none"
       /\ k = "child" => ProcAfter(k)["main"] = "none"
       /\ k \in {"w_child", "recovery"} => ProcAfter(k)["crash"] = "none"
       /\ k = "cleanup" => ProcAfter(k)["main"] # "main"
       /\ k = "w_cleanup" => ProcAfter(k)["crash"] # "crash"
  BY <1>3, <1>5, <1>7, ProcAfterIs
<1>11. Fitting(proc')
  BY <1>7, <1>9, <1>10
<1>12. GroupsInv(Ahead', groups', proc', guards')
  BY <1>2, <1>3, <1>4, <1>5, <1>6, <1>11, GroupsDrop DEF Advancing
<1>13. blame \subseteq blame' /\ guards' \subseteq Guards
  BY <1>4, <1>5, <1>9
<1>14. CASE proc' = ProcAfter(k) /\ groups' = GroupsAfter(k, proc') /\ blame' = blame
  <2>1. /\ groups' \subseteq groups
        /\ proc' \in [Sleepers -> {"none", "origin"} \union groups']
        /\ k = "w_cleanup" => "crash" \notin groups'
        /\ k = "cleanup" => /\ "main" \notin groups'
                            /\ proc["crash"] = "none" /\ "crash_group" \in guards => "crash" \notin groups'
    BY <1>3, <1>5, <1>10, <1>14, GroupsAfterIs
  <2>2. Calmer(groups, proc, groups', proc', guards) BY <1>10, <1>14, <2>1 DEF Calmer
  <2>3. GroupsHeld(Ahead, groups, proc, guards) => GroupsHeld(Ahead', groups', proc', guards')
    BY <1>2, <1>3, <1>4, <1>5, <1>6, <1>10, <1>14, <2>1, <2>2, GroupsDropped DEF Advancing
  <2>4. GroupsKept BY <1>12, <2>3 DEF GroupsKept
  <2>5. groups' \subseteq Sleepers BY <1>5, <2>1
  <2> QED BY <1>2, <1>4, <1>8, <1>13, <2>1, <2>4, <2>5, CgroupInv
<1>15. CASE blame' = blame \union {"drop"} /\ proc' = proc /\ groups' = groups
  <2>1. GroupBlamed BY <1>15 DEF GroupBlamed, GroupRisks
  <2>2. GroupsKept BY <1>12, <2>1 DEF GroupsKept
  <2> QED BY <1>2, <1>4, <1>5, <1>8, <1>13, <1>15, <2>2, CgroupInv
<1>16. CASE k \notin guards /\ blame' = blame /\ proc' = proc /\ groups' = groups
  <2>1. Place(Head(todo)) \in 15 .. 79
    <3>1. DropPlace(k) \in 19 .. 23 BY <1>3, DropSpots
    <3> QED BY <1>3, <3>1
  <2>2. \A x \in Ahead : x >= 19
    <3>1. \A x \in Ahead : x >= Place(Head(todo)) BY <1>2, <1>4, <2>1, Onward DEF Advancing
    <3>2. DropPlace(k) \in 19 .. 23 BY <1>3, DropSpots
    <3>3. Ahead \subseteq 1 .. 90 BY <1>2 DEF Fronts
    <3> QED BY <1>3, <3>1, <3>2, <3>3
  <2>3. \A x \in 1 .. 18 : x \notin Ahead BY <2>2
  <2>4. guards' = guards BY <1>4, <1>16
  <2>5. GroupsHeld(Ahead, groups, proc, guards) => GroupsHeld(Ahead', groups, proc, guards)
    BY <2>3 DEF GroupsHeld
  <2>6. GroupsKept BY <1>12, <1>16, <2>4, <2>5 DEF GroupsKept
  <2> QED BY <1>2, <1>4, <1>5, <1>8, <1>13, <1>16, <2>6, CgroupInv
<1> QED BY <1>9, <1>14, <1>15, <1>16

----------------------------------------------------------------------------
(* The steps of --zram *)

\* The places and arguments of the steps of --zram.
LEMMA ZramAt ==
  \A s \in Steps :
    /\ s.op = "add" => s.arg \in Roles /\ Place(s) = AddPlace(s.arg)
    /\ s.op = "remove" => s.arg \in Roles /\ Place(s) = RemovePlace(s.arg)
    /\ s.op = "on" => s.arg \in {"a", "b", "w"}
                      /\ Place(s) = (CASE s.arg = "a" -> 42 [] s.arg = "b" -> 44 [] OTHER -> 55)
    /\ s.op = "off" => s.arg \in {"a", "b", "w"}
                       /\ Place(s) = (CASE s.arg = "a" -> 46 [] s.arg = "b" -> 48 [] OTHER -> 60)
    /\ s.op = "w_persist" => Place(s) = 57
    /\ s.op = "adopt_zram" => Place(s) = 58
    /\ s.op = "drop_zram" => s.arg \in Owners /\ Place(s) = IF s.arg = "worker" THEN 63 ELSE 64
<1> SUFFICES ASSUME NEW s \in Steps
             PROVE
    /\ s.op = "add" => s.arg \in Roles /\ Place(s) = AddPlace(s.arg)
    /\ s.op = "remove" => s.arg \in Roles /\ Place(s) = RemovePlace(s.arg)
    /\ s.op = "on" => s.arg \in {"a", "b", "w"}
                      /\ Place(s) = (CASE s.arg = "a" -> 42 [] s.arg = "b" -> 44 [] OTHER -> 55)
    /\ s.op = "off" => s.arg \in {"a", "b", "w"}
                       /\ Place(s) = (CASE s.arg = "a" -> 46 [] s.arg = "b" -> 48 [] OTHER -> 60)
    /\ s.op = "w_persist" => Place(s) = 57
    /\ s.op = "adopt_zram" => Place(s) = 58
    /\ s.op = "drop_zram" => s.arg \in Owners /\ Place(s) = IF s.arg = "worker" THEN 63 ELSE 64
  OBVIOUS
<1>1. s.op = "add" => s.arg \in Roles /\ Place(s) = AddPlace(s.arg)
  BY DEF Steps, Place
<1>2. s.op = "remove" => s.arg \in Roles /\ Place(s) = RemovePlace(s.arg)
  BY DEF Steps, Place
<1>3. s.op = "on" => s.arg \in {"a", "b", "w"}
                     /\ Place(s) = (CASE s.arg = "a" -> 42 [] s.arg = "b" -> 44 [] OTHER -> 55)
  BY DEF Steps, Place
<1>4. s.op = "off" => s.arg \in {"a", "b", "w"}
                      /\ Place(s) = (CASE s.arg = "a" -> 46 [] s.arg = "b" -> 48 [] OTHER -> 60)
  BY DEF Steps, Place
<1>5. s.op = "w_persist" => Place(s) = 57
  BY DEF Place
<1>6. s.op = "adopt_zram" => Place(s) = 58
  BY DEF Place
<1>7. s.op = "drop_zram" => s.arg \in Owners /\ Place(s) = IF s.arg = "worker" THEN 63 ELSE 64
  BY DEF Steps, Place
<1> QED BY <1>1, <1>2, <1>3, <1>4, <1>5, <1>6, <1>7

ReadyFiles == {-r : r \in {q \in 1 .. MaxRuns : file[q] = "ready"}}

\* The part of the type that --zram changes.
ZramType ==
    /\ dev \in [Index -> {"none", "host", "nemor", "other"}]
    /\ swaps \subseteq Existing \union ReadyFiles
    /\ reg \in [Owners -> SUBSET Index]
    /\ name \in [Roles -> Index \union {NoDev}] /\ evid \subseteq Index
    /\ record \in Index \union {NoDev}

\* The part of the type that --zram changes.
LEMMA ZramTyped == ASSUME TypeOK PROVE ZramType
BY DEF TypeOK, ZramType, ReadyFiles

\* The type after a step of --zram.
LEMMA TypeZram ==
  ASSUME TypeOK, KeepsOthers, ZramType'
  PROVE  TypeOK'
<1>1. file' = file /\ groups' = groups /\ proc' = proc /\ guards' = guards /\ report' = report /\ verdict' = verdict
  BY DEF KeepsOthers, cgroup, swapfile, ended
<1> QED BY <1>1 DEF TypeOK, ZramType, ReadyFiles

\* A step of --zram preserves the invariant when the devices are kept.
LEMMA ZramInv ==
  ASSUME Inv, Validating, Place(Head(todo)) \in 32 .. 64, KeepsOthers, WellMade(todo'), blame \subseteq blame',
         Advancing \/ LeavingScope \/ todo' = todo, ZramType', DevicesKept,
         base'.left = base.left, base.refused \subseteq base'.refused
  PROVE  Inv'
<1>1. file' = file /\ groups' = groups /\ proc' = proc /\ guards' = guards /\ snap' = snap
      /\ verdict' = verdict /\ run' = run /\ acts' = acts
  BY DEF KeepsOthers, cgroup, swapfile, ended
<1>2. Place(Head(todo)) \notin GroupSpots /\ Place(Head(todo)) \notin 74 .. 81 /\ Place(Head(todo)) \notin {3, 10, 13}
  BY DEF GroupSpots
<1>3. FilesKept /\ GroupsKept
  <2>1. CASE Advancing \/ LeavingScope
    <3>1. FilesKept BY <1>1, <1>2, <2>1, FileAside
    <3>2. GroupsKept BY <1>1, <1>2, <2>1, GroupsAside DEF Leaving
    <3> QED BY <3>1, <3>2
  <2>2. CASE todo' = todo
    <3>1. Ahead' = Ahead BY <2>2 DEF Ahead
    <3>2. FileInv(Ahead, file[run], snap) /\ GroupsInv(Ahead, groups, proc, guards) BY Holds
    <3> QED BY <1>1, <3>1, <3>2 DEF FilesKept, GroupsKept
  <2> QED BY <2>1, <2>2
<1>5. TypeOK' /\ Transaction'
  BY <1>1, TypeZram, TransactionStays DEF Inv
<1>6. Onwards
  BY <1>1 DEF Onwards
<1> QED BY <1>3, <1>5, <1>6, StepInv

\* An error that leaves the devices alone.
LEMMA ZramFailInv ==
  ASSUME Inv, Validating, Place(Head(todo)) \in 32 .. 64, KeepsZram, UNCHANGED <<dev, name, reg, record>>,
         Fail, Place(Head(todo)) # 58 \/ Head(todo).op \in DeviceRisks, ZramType'
  PROVE  Inv'
<1>1. Head(todo).op # "conclude"
  BY Meant, Taken, ConcludePlace
<1>2. WellMade(todo') /\ LeavingScope /\ blame' = blame \union {Head(todo).op}
  BY <1>1, MoveOut DEF Fail, FailInto
<1>3. Place(Head(todo)) # 58 \/ DeviceBlamed
  BY <1>2 DEF DeviceBlamed
<1>4. DevicesKept
  BY <1>2, <1>3, ZramAside DEF Leaving
<1> QED BY <1>2, <1>4, ZramInv DEF KeepsZram

\* swapon and swapoff.
LEMMA SwitchInv ==
  ASSUME Inv, Validating, Place(Head(todo)) \in 32 .. 64, Place(Head(todo)) \notin ZramSpots, KeepsZram, UNCHANGED zram,
         swaps' \subseteq Existing \union ReadyFiles, (Proceed /\ Smooth) \/ Fail
  PROVE  Inv'
<1>1. dev' = dev /\ name' = name /\ reg' = reg /\ record' = record /\ evid' = evid /\ file' = file
  BY DEF zram, KeepsZram, KeepsOthers, swapfile
<1>2. Existing' = Existing /\ ReadyFiles' = ReadyFiles
  BY <1>1 DEF Existing, ReadyFiles
<1>3. ZramType
  BY ZramTyped DEF Inv
<1>4. ZramType'
  BY <1>1, <1>2, <1>3 DEF ZramType
<1>5. CASE Proceed /\ Smooth
  <2>1. WellMade(todo') /\ Advancing /\ blame' = blame BY <1>5, MoveOn
  <2>2. DevicesKept BY <1>1, <2>1, ZramAside
  <2> QED BY <1>4, <2>1, <2>2, ZramInv DEF KeepsZram
<1>6. CASE Fail
  <2>1. Place(Head(todo)) # 58 BY DEF ZramSpots
  <2> QED BY <1>1, <1>4, <1>6, <2>1, ZramFailInv
<1> QED BY <1>5, <1>6

\* SwapOn keeps the invariant.
LEMMA SwapOnInv == ASSUME Inv, SwapOn PROVE Inv'
<1>1. Running /\ Head(todo).op = "on"
  BY DEF SwapOn, At
<1>2. Validating /\ Head(todo) \in Steps /\ Fronts(Place(Head(todo)), Ahead) /\ Chain(Ahead)
  BY <1>1, Taken
<1>3. /\ Arg \in {"a", "b", "w"}
      /\ Place(Head(todo)) = (CASE Arg = "a" -> 42 [] Arg = "b" -> 44 [] OTHER -> 55)
  BY <1>1, <1>2, ZramAt DEF Arg
<1>4. Live(Ahead, Arg)
  BY <1>2, <1>3, SwitchedLive
<1>5. name[Arg] \in Ours
  BY <1>2, <1>3, <1>4, Holds DEF DevicesInv, Roles
<1>6. name[Arg] \in Existing
  BY <1>5 DEF Ours, Existing
<1>7. swaps \subseteq Existing \union ReadyFiles
  BY ZramTyped DEF Inv, ZramType
<1>8. swaps' \subseteq Existing \union ReadyFiles
  BY <1>6, <1>7 DEF SwapOn
<1>9. (Proceed /\ Smooth) \/ Fail
  BY DEF SwapOn, Fine, Fails
<1>10. Place(Head(todo)) \in 32 .. 64 /\ Place(Head(todo)) \notin ZramSpots
  BY <1>3 DEF ZramSpots
<1>11. KeepsZram /\ UNCHANGED zram
  BY DEF SwapOn
<1> QED BY <1>2, <1>8, <1>9, <1>10, <1>11, SwitchInv

\* SwapOff keeps the invariant.
LEMMA SwapOffInv == ASSUME Inv, SwapOff PROVE Inv'
<1>1. Running /\ Head(todo).op = "off"
  BY DEF SwapOff, At
<1>2. Validating /\ Head(todo) \in Steps
  BY <1>1, Taken
<1>3. /\ Arg \in {"a", "b", "w"}
      /\ Place(Head(todo)) = (CASE Arg = "a" -> 46 [] Arg = "b" -> 48 [] OTHER -> 60)
  BY <1>1, <1>2, ZramAt DEF Arg
<1>4. swaps \subseteq Existing \union ReadyFiles
  BY ZramTyped DEF Inv, ZramType
<1>5. swaps' \subseteq Existing \union ReadyFiles
  BY <1>4 DEF SwapOff
<1>6. (Proceed /\ Smooth) \/ Fail
  BY DEF SwapOff, Fine, Fails
<1>7. Place(Head(todo)) \in 32 .. 64 /\ Place(Head(todo)) \notin ZramSpots
  BY <1>3 DEF ZramSpots
<1>8. KeepsZram /\ UNCHANGED zram
  BY DEF SwapOff
<1> QED BY <1>2, <1>5, <1>6, <1>7, <1>8, SwitchInv

\* The devices of the harness after one is added or removed.
LEMMA OursWith ==
  ASSUME dev \in [Index -> {"none", "host", "nemor", "other"}], NEW d \in Index, dev' = [dev EXCEPT ![d] = "nemor"]
  PROVE  /\ Ours' = Ours \union {d} /\ Existing \subseteq Existing'
         /\ dev' \in [Index -> {"none", "host", "nemor", "other"}]
BY DEF Ours, Existing

\* The devices of the harness after one is removed.
LEMMA OursWithout ==
  ASSUME dev \in [Index -> {"none", "host", "nemor", "other"}], NEW d \in Index, dev' = [dev EXCEPT ![d] = "none"]
  PROVE  /\ Ours' = Ours \ {d} /\ Existing' = Existing \ {d}
         /\ dev' \in [Index -> {"none", "host", "nemor", "other"}]
BY DEF Ours, Existing

\* An error after a device was made, or before.
LEMMA AddFailInv ==
  ASSUME Inv, Validating, Place(Head(todo)) \in 32 .. 64, KeepsZram, UNCHANGED <<name, reg, evid, record, swaps>>,
         Head(todo).op = "add", Fail, NEW d \in Index, dev' = dev \/ dev' = [dev EXCEPT ![d] = "nemor"]
  PROVE  Inv'
<1>1. WellMade(todo') /\ LeavingScope /\ blame' = blame \union {"add"}
  BY MoveOut DEF Fail, FailInto
<1>2. DeviceBlamed
  BY <1>1 DEF DeviceBlamed, DeviceRisks
<1>3. ZramType
  BY ZramTyped DEF Inv
<1>4. /\ Ours \subseteq Ours' /\ Existing \subseteq Existing'
      /\ dev' \in [Index -> {"none", "host", "nemor", "other"}]
  <2>1. CASE dev' = dev BY <2>1, <1>3 DEF Ours, Existing, ZramType
  <2>2. CASE dev' = [dev EXCEPT ![d] = "nemor"] BY <2>2, <1>3, OursWith DEF ZramType
  <2> QED BY <2>1, <2>2
<1>5. ReadyFiles' = ReadyFiles
  BY DEF ReadyFiles, KeepsZram, KeepsOthers, swapfile
<1>6. ZramType'
  BY <1>3, <1>4, <1>5 DEF ZramType
<1>7. PICK c \in Closes : Leaves(Ahead, Ahead', DropSet(c), c)
  BY <1>1 DEF LeavingScope
<1>8. Fronts(Place(Head(todo)), Ahead)
  BY Meant, Taken
<1>9. DevicesInv(Ahead, Ours, name, reg, record)
  BY Holds
<1>10. DevicesInv(Ahead', Ours', name, reg, record)
  BY <1>4, <1>7, <1>8, <1>9, DevicesLeave
<1>11. DevicesKept
  BY <1>2, <1>10 DEF DevicesKept
<1> QED BY <1>1, <1>6, <1>11, ZramInv DEF KeepsZram

\* The evidence names the pair: the first of it exists when the second is added.
LEMMA EvidenceIs ==
  ASSUME NEW r \in Roles, NEW P, Fronts(AddPlace(r), P), Chain(P), DevicesInv(P, Ours, name, reg, record),
         evid \subseteq Index, NEW d \in Index
  PROVE  EvidenceAfter(r, d) \subseteq Index
<1>1. CASE r = "b"
  <2>1. AddPlace(r) = 39 /\ AddPlace("a") = 38 /\ RemovePlace("a") = 49 BY <1>1 DEF AddPlace, RemovePlace
  <2>2. 39 \in P /\ 38 \notin P BY <2>1 DEF Fronts, Before
  <2>3. 49 \in P BY <2>2 DEF Chain
  <2>4. Live(P, "a") BY <2>1, <2>2, <2>3 DEF Live
  <2>5. name["a"] \in Index BY <2>4 DEF DevicesInv, Roles, Ours
  <2> QED BY <1>1, <2>5 DEF EvidenceAfter
<1>2. CASE r # "b" BY <1>2 DEF EvidenceAfter
<1> QED BY <1>1, <1>2

\* Add keeps the invariant.
LEMMA AddInv == ASSUME Inv, Add PROVE Inv'
<1> DEFINE r == Arg
           d == Lowest(Free)
<1>1. Running /\ Head(todo).op = "add"
  BY DEF Add, At
<1>2. Validating /\ Head(todo) \in Steps /\ Fronts(Place(Head(todo)), Ahead) /\ Chain(Ahead)
  BY <1>1, Taken
<1>3. r \in Roles /\ Place(Head(todo)) = AddPlace(r)
  BY <1>1, <1>2, ZramAt DEF Arg
<1>4. Place(Head(todo)) \in 32 .. 64
  <2>1. AddPlace(r) \in 32 .. 62 BY <1>3, RoleSpots
  <2> QED BY <1>3, <2>1
<1>5. KeepsZram /\ record' = record /\ swaps' = swaps
  BY DEF Add
<1>6. ZramType
  BY ZramTyped DEF Inv
<1>7. Free \subseteq Index
  BY DEF Free
<1>8. CASE Free = {}
  <2>1. Fail /\ UNCHANGED <<dev, name, reg, evid>> BY <1>8 DEF Add, Require
  <2>2. 0 \in Index BY BoundsAssumption DEF Index
  <2> QED BY <1>1, <1>2, <1>4, <1>5, <2>1, <2>2, AddFailInv
<1>9. CASE Free # {}
  <2>1. d \in Free BY <1>7, <1>9, LowestIs
  <2>2. d \in Index /\ d \notin Existing /\ d \notin Ours BY <2>1 DEF Free, Existing, Ours
  <2>3. \/ /\ dev' = [dev EXCEPT ![d] = "nemor"] /\ Fine
           /\ name' = [name EXCEPT ![r] = d] /\ reg' = Registered(r, d) /\ evid' = EvidenceAfter(r, d)
        \/ Fail /\ (dev' = dev \/ dev' = [dev EXCEPT ![d] = "nemor"]) /\ UNCHANGED <<name, reg, evid>>
    BY <1>9 DEF Add, Require, Fails
  <2> HIDE DEF d, r
  <2>4. CASE Fail /\ (dev' = dev \/ dev' = [dev EXCEPT ![d] = "nemor"]) /\ UNCHANGED <<name, reg, evid>>
    BY <1>1, <1>2, <1>4, <1>5, <2>2, <2>4, AddFailInv
  <2>5. CASE /\ dev' = [dev EXCEPT ![d] = "nemor"] /\ Fine
             /\ name' = [name EXCEPT ![r] = d] /\ reg' = Registered(r, d) /\ evid' = EvidenceAfter(r, d)
    <3>1. WellMade(todo') /\ Advancing /\ blame' = blame BY <1>2, <2>5, MoveOn DEF Fine
    <3>2. /\ Ours' = Ours \union {d} /\ Existing \subseteq Existing'
          /\ dev' \in [Index -> {"none", "host", "nemor", "other"}]
      BY <1>6, <2>2, <2>5, OursWith DEF ZramType
    <3>3. DevicesInv(Ahead, Ours, name, reg, record) BY <1>2, Holds
    <3>4. name'[r] = d /\ (\A s \in Roles : s # r => name'[s] = name[s]) /\ name' \in [Roles -> Index \union {NoDev}]
      BY <1>3, <1>6, <2>2, <2>5 DEF ZramType
    <3>5. OwnerOf(r) \in Owners BY DEF OwnerOf, Owners
    <3>6. reg' = [reg EXCEPT ![OwnerOf(r)] = reg[OwnerOf(r)] \union {d}] BY <2>5 DEF Registered
    <3>7. /\ \A o \in Owners : reg'[o] = IF o = OwnerOf(r) THEN reg[o] \union {d} ELSE reg[o]
          /\ reg' \in [Owners -> SUBSET Index]
      BY <1>6, <2>2, <3>5, <3>6 DEF ZramType
    <3>8. /\ DevicesInv(Ahead', Ours', name', reg', record)
          /\ \A b : DevicesHeld(Ahead, Ours, reg, record, b) => DevicesHeld(Ahead', Ours', reg', record, b)
      <4>1. Fronts(AddPlace(r), Ahead) /\ Advances(AddPlace(r), Ahead, Ahead') BY <1>2, <1>3, <3>1 DEF Advancing
      <4>3. Given(name', name, r, d) BY <3>4 DEF Given
      <4>4. Taking(reg', reg, r, d) BY <3>7 DEF Taking
      <4>2. /\ DevicesInv(Ahead', Ours \union {d}, name', reg', record)
            /\ \A b : DevicesHeld(Ahead, Ours, reg, record, b) => DevicesHeld(Ahead', Ours \union {d}, reg', record, b)
        BY <1>2, <1>3, <2>2, <3>3, <4>1, <4>3, <4>4, DevicesAdd, Zenon
      <4> QED BY <3>2, <4>2
    <3>9. DevicesKept BY <1>5, <3>8 DEF DevicesKept
    <3>10. evid' \subseteq Index BY <1>2, <1>3, <1>6, <2>2, <2>5, <3>3, EvidenceIs DEF ZramType
    <3>11. ReadyFiles' = ReadyFiles BY <1>5 DEF ReadyFiles, KeepsZram, KeepsOthers, swapfile
    <3>12. ZramType' BY <1>5, <1>6, <3>2, <3>4, <3>7, <3>10, <3>11 DEF ZramType
    <3> QED BY <1>2, <1>4, <1>5, <3>1, <3>9, <3>12, ZramInv DEF KeepsZram
  <2> QED BY <2>3, <2>4, <2>5
<1> QED BY <1>8, <1>9

\* RemoveDevice keeps the invariant.
LEMMA RemoveDeviceInv == ASSUME Inv, RemoveDevice PROVE Inv'
<1> DEFINE r == Arg
           d == name[r]
<1>1. Running /\ Head(todo).op = "remove"
  BY DEF RemoveDevice, At
<1>2. Validating /\ Head(todo) \in Steps /\ Fronts(Place(Head(todo)), Ahead)
  BY <1>1, Taken
<1>3. r \in Roles /\ Place(Head(todo)) = RemovePlace(r)
  BY <1>1, <1>2, ZramAt DEF Arg
<1>4. Place(Head(todo)) \in 32 .. 64 /\ Place(Head(todo)) # 58
  BY <1>3 DEF RemovePlace
<1>5. KeepsZram /\ record' = record /\ swaps' = swaps /\ name' = name /\ evid' = evid
  BY DEF RemoveDevice
<1>6. ZramType
  BY ZramTyped DEF Inv
<1>7. ReadyFiles' = ReadyFiles
  BY <1>5 DEF ReadyFiles, KeepsZram, KeepsOthers, swapfile
<1>8. CASE d \notin swaps /\ Fine /\ dev' = [dev EXCEPT ![d] = "none"] /\ reg' = RegAfterRemove(d)
  <2>1. WellMade(todo') /\ Advancing /\ blame' = blame BY <1>2, <1>8, MoveOn DEF Fine
  <2>2. DevicesInv(Ahead, Ours, name, reg, record) BY <1>2, Holds
  <2>3. "harness" \in Owners /\ "worker" \in Owners BY DEF Owners
  <2>4. reg' = [reg EXCEPT !["harness"] = reg["harness"] \ {d}] BY <1>8 DEF RegAfterRemove
  <2>5. reg'["harness"] = reg["harness"] \ {d} /\ reg'["worker"] = reg["worker"] /\ reg' \in [Owners -> SUBSET Index]
    BY <1>6, <2>3, <2>4 DEF ZramType
  <2>6. /\ DevicesInv(Ahead', Ours \ {name[r]}, name, reg', record) /\ name[r] \in Ours
        /\ \A b : DevicesHeld(Ahead, Ours, reg, record, b) => DevicesHeld(Ahead', Ours \ {name[r]}, reg', record, b)
    BY <1>2, <1>3, <2>1, <2>2, <2>5, DevicesRemove DEF Advancing
  <2>7. d \in Index BY <2>6 DEF Ours
  <2> HIDE DEF d
  <2>8. /\ Ours' = Ours \ {d} /\ Existing' = Existing \ {d}
        /\ dev' \in [Index -> {"none", "host", "nemor", "other"}]
    BY <1>6, <1>8, <2>7, OursWithout DEF ZramType
  <2>9. DevicesKept BY <1>5, <2>6, <2>8 DEF DevicesKept, d
  <2>10. ZramType' BY <1>5, <1>6, <1>7, <1>8, <2>5, <2>8 DEF ZramType
  <2> QED BY <1>2, <1>4, <1>5, <2>1, <2>9, <2>10, ZramInv DEF KeepsZram
<1>9. CASE Fail /\ UNCHANGED <<dev, reg>>
  <2>1. Existing' = Existing BY <1>9 DEF Existing
  <2>2. ZramType' BY <1>5, <1>6, <1>7, <1>9, <2>1 DEF ZramType
  <2> QED BY <1>2, <1>4, <1>5, <1>9, <2>2, ZramFailInv
<1> QED BY <1>8, <1>9 DEF RemoveDevice, Fails, Require

\* WorkerPersists keeps the invariant.
LEMMA WorkerPersistsInv == ASSUME Inv, WorkerPersists PROVE Inv'
<1>1. Running /\ Head(todo).op = "w_persist"
  BY DEF WorkerPersists, At
<1>2. Validating /\ Head(todo) \in Steps /\ Fronts(Place(Head(todo)), Ahead) /\ Chain(Ahead)
  BY <1>1, Taken
<1>3. Place(Head(todo)) = 57 /\ Place(Head(todo)) \in 32 .. 64
  BY <1>1, <1>2, ZramAt
<1>4. KeepsZram /\ dev' = dev /\ swaps' = swaps /\ name' = name /\ evid' = evid
  BY DEF WorkerPersists
<1>5. ZramType
  BY ZramTyped DEF Inv
<1>6. ReadyFiles' = ReadyFiles /\ Existing' = Existing /\ Ours' = Ours
  BY <1>4 DEF ReadyFiles, KeepsZram, KeepsOthers, swapfile, Existing, Ours
<1>7. CASE Fine /\ record' = name["w"] /\ reg' = [reg EXCEPT !["worker"] = {}]
  <2>1. WellMade(todo') /\ Advancing /\ blame' = blame BY <1>2, <1>7, MoveOn DEF Fine
  <2>2. DevicesInv(Ahead, Ours, name, reg, record) BY <1>2, Holds
  <2>3. "harness" \in Owners /\ "worker" \in Owners BY DEF Owners
  <2>4. reg'["harness"] = reg["harness"] /\ reg'["worker"] = {} /\ reg' \in [Owners -> SUBSET Index]
    BY <1>5, <1>7, <2>3 DEF ZramType
  <2>5. /\ DevicesInv(Ahead', Ours, name, reg', name["w"])
        /\ \A b : DevicesHeld(Ahead, Ours, reg, record, b) => DevicesHeld(Ahead', Ours, reg', name["w"], b)
    BY <1>2, <1>3, <2>1, <2>2, <2>4, DevicesPersist DEF Advancing
  <2>6. DevicesKept BY <1>4, <1>6, <1>7, <2>5 DEF DevicesKept
  <2>7. record' \in Index \union {NoDev} BY <1>5, <1>7 DEF ZramType, Roles
  <2>8. ZramType' BY <1>4, <1>5, <1>6, <2>4, <2>7 DEF ZramType
  <2> QED BY <1>2, <1>3, <1>4, <2>1, <2>6, <2>8, ZramInv DEF KeepsZram
<1>8. CASE Fails /\ UNCHANGED <<record, reg>>
  <2>1. ZramType' BY <1>4, <1>5, <1>6, <1>8 DEF ZramType
  <2>2. Fail /\ Place(Head(todo)) # 58 BY <1>3, <1>8 DEF Fails
  <2> QED BY <1>2, <1>3, <1>4, <1>8, <2>1, <2>2, ZramFailInv
<1> QED BY <1>7, <1>8 DEF WorkerPersists

\* AdoptZram keeps the invariant.
LEMMA AdoptZramInv == ASSUME Inv, AdoptZram PROVE Inv'
<1>1. Running /\ Head(todo).op = "adopt_zram"
  BY DEF AdoptZram, At
<1>2. Validating /\ Head(todo) \in Steps /\ Fronts(Place(Head(todo)), Ahead) /\ Chain(Ahead)
  BY <1>1, Taken
<1>3. Place(Head(todo)) = 58 /\ Place(Head(todo)) \in 32 .. 64
  BY <1>1, <1>2, ZramAt
<1>4. KeepsZram /\ dev' = dev /\ swaps' = swaps /\ name' = name /\ evid' = evid /\ record' = record
  BY DEF AdoptZram
<1>5. ZramType
  BY ZramTyped DEF Inv
<1>6. ReadyFiles' = ReadyFiles /\ Existing' = Existing /\ Ours' = Ours
  BY <1>4 DEF ReadyFiles, KeepsZram, KeepsOthers, swapfile, Existing, Ours
<1>7. CASE Fine /\ reg' = [reg EXCEPT !["harness"] = @ \union {record}]
  <2>1. WellMade(todo') /\ Advancing /\ blame' = blame BY <1>2, <1>7, MoveOn DEF Fine
  <2>2. DevicesInv(Ahead, Ours, name, reg, record) BY <1>2, Holds
  <2>3. "harness" \in Owners /\ "worker" \in Owners BY DEF Owners
  <2>4. reg'["harness"] = reg["harness"] \union {record} /\ reg'["worker"] = reg["worker"]
    BY <1>5, <1>7, <2>3 DEF ZramType
  <2>5. /\ DevicesInv(Ahead', Ours, name, reg', record) /\ record \in Ours
        /\ \A b : DevicesHeld(Ahead, Ours, reg, record, b) => DevicesHeld(Ahead', Ours, reg', record, b)
    BY <1>2, <1>3, <2>1, <2>2, <2>4, DevicesAdopt DEF Advancing
  <2>6. DevicesKept BY <1>4, <1>6, <2>5 DEF DevicesKept
  <2>7. record \in Index BY <2>5 DEF Ours
  <2>8. reg' \in [Owners -> SUBSET Index] BY <1>5, <1>7, <2>3, <2>7 DEF ZramType
  <2>9. ZramType' BY <1>4, <1>5, <1>6, <2>8 DEF ZramType
  <2> QED BY <1>2, <1>3, <1>4, <2>1, <2>6, <2>9, ZramInv DEF KeepsZram
<1>8. CASE Fails /\ UNCHANGED reg
  <2>1. ZramType' BY <1>4, <1>5, <1>6, <1>8 DEF ZramType
  <2>2. Fail /\ Head(todo).op \in DeviceRisks BY <1>1, <1>8 DEF Fails, DeviceRisks
  <2> QED BY <1>2, <1>3, <1>4, <1>8, <2>1, <2>2, ZramFailInv
<1> QED BY <1>7, <1>8 DEF AdoptZram

\* DropZram keeps the invariant.
LEMMA DropZramInv == ASSUME Inv, DropZram PROVE Inv'
<1> DEFINE o == Arg
           d == Lowest(reg[o])
<1>1. Running /\ Head(todo).op = "drop_zram"
  BY DEF DropZram, At
<1>2. Validating /\ Head(todo) \in Steps /\ Fronts(Place(Head(todo)), Ahead) /\ WellMade(todo)
  BY <1>1, Taken
<1>3. o \in Owners /\ Place(Head(todo)) = IF o = "worker" THEN 63 ELSE 64
  BY <1>1, <1>2, ZramAt DEF Arg
<1>4. Place(Head(todo)) \in 32 .. 64 /\ Place(Head(todo)) \in {63, 64}
      /\ o = IF Place(Head(todo)) = 63 THEN "worker" ELSE "harness"
  BY <1>3 DEF Owners
<1>5. KeepsOthers /\ name' = name /\ evid' = evid /\ record' = record
  BY DEF DropZram
<1>6. ZramType
  BY ZramTyped DEF Inv
<1>7. ReadyFiles' = ReadyFiles
  BY <1>5 DEF ReadyFiles, KeepsOthers, swapfile
<1>8. DevicesInv(Ahead, Ours, name, reg, record)
  BY <1>2, Holds
<1>9. CASE reg[o] = {}
  <2>1. Proceed /\ UNCHANGED <<dev, reg, swaps, blame, base>> BY <1>9 DEF DropZram
  <2>2. WellMade(todo') /\ Advancing BY <1>2, <2>1, DropOn
  <2>3. Ours' = Ours /\ Existing' = Existing BY <2>1 DEF Ours, Existing
  <2>4. ZramType' BY <1>5, <1>6, <1>7, <2>1, <2>3 DEF ZramType
  <2> HIDE DEF o
  <2>5. /\ DevicesInv(Ahead', Ours, name, reg, record)
        /\ \A b : DevicesHeld(Ahead, Ours, reg, record, b) => DevicesHeld(Ahead', Ours, reg, record, b)
    BY <1>2, <1>4, <1>8, <1>9, <2>2, DevicesDone DEF Advancing
  <2>6. DevicesKept BY <1>5, <2>1, <2>3, <2>5 DEF DevicesKept
  <2> QED BY <1>2, <1>4, <1>5, <2>1, <2>2, <2>4, <2>6, ZramInv
<1>10. CASE reg[o] # {}
  <2>1. /\ todo' = todo /\ reg' = [reg EXCEPT ![o] = @ \ {d}]
        /\ \/ /\ blame' = blame \union {"refused"} /\ base' = [base EXCEPT !.refused = @ \union {d}]
              /\ dev' = dev /\ swaps' = swaps
           \/ dev' = [dev EXCEPT ![d] = "none"] /\ swaps' = swaps \ {d} /\ blame' = blame /\ base' = base
           \/ blame' = blame \union {"drop_zram"} /\ swaps' \subseteq swaps /\ dev' = dev /\ base' = base
    BY <1>10 DEF DropZram
  <2>2. reg[o] \subseteq Index BY <1>3, <1>6 DEF ZramType
  <2>3. d \in reg[o] /\ d \in Index BY <1>10, <2>2, LowestIs
  <2> HIDE DEF d, o
  <2>4. reg'[o] = reg[o] \ {d} /\ (\A q \in Owners : q # o => reg'[q] = reg[q]) /\ reg' \in [Owners -> SUBSET Index]
    BY <1>3, <1>6, <2>1 DEF ZramType
  <2>5. (\A x \in Ahead : x >= 62) /\ (o = "worker" => 63 \in Ahead)
    <3>1. Ahead \subseteq 1 .. 90 /\ Place(Head(todo)) \in Ahead
          /\ \A x \in Ahead : x = Place(Head(todo)) \/ Before(Place(Head(todo)), x)
      BY <1>2, <1>4 DEF Fronts
    <3>2. \A h \in {63, 64} : \A x \in 1 .. 90 : Before(h, x) => x >= 62 BY DEF Before
    <3> QED BY <1>3, <1>4, <3>1, <3>2
  <2>6. /\ d \in Ours /\ DevicesInv(Ahead, Ours \ {d}, name, reg', record) /\ DevicesInv(Ahead, Ours, name, reg', record)
        /\ \A b : DevicesHeld(Ahead, Ours, reg, record, b) => DevicesHeld(Ahead, Ours \ {d}, reg', record, b)
    BY <1>3, <1>8, <2>3, <2>4, <2>5, DevicesDrop, SMTT(30)
  <2>7. Ahead' = Ahead /\ WellMade(todo') /\ blame \subseteq blame' BY <1>2, <2>1 DEF Ahead
  <2>8. CASE dev' = [dev EXCEPT ![d] = "none"] /\ swaps' = swaps \ {d} /\ blame' = blame /\ base' = base
    <3>1. /\ Ours' = Ours \ {d} /\ Existing' = Existing \ {d}
          /\ dev' \in [Index -> {"none", "host", "nemor", "other"}]
      BY <1>6, <2>3, <2>8, OursWithout DEF ZramType
    <3>2. DevicesKept BY <1>5, <2>6, <2>7, <3>1 DEF DevicesKept
    <3>3. ZramType' BY <1>5, <1>6, <1>7, <2>4, <2>8, <3>1 DEF ZramType
    <3> QED BY <1>2, <1>4, <1>5, <2>1, <2>7, <2>8, <3>2, <3>3, ZramInv
  <2>9. CASE blame' = blame \union {"drop_zram"} /\ swaps' \subseteq swaps /\ dev' = dev /\ base' = base
    <3>1. Ours' = Ours /\ Existing' = Existing BY <2>9 DEF Ours, Existing
    <3>2. DeviceBlamed BY <2>9 DEF DeviceBlamed, DeviceRisks
    <3>3. DevicesKept BY <1>5, <2>6, <2>7, <3>1, <3>2 DEF DevicesKept
    <3>4. ZramType' BY <1>5, <1>6, <1>7, <2>4, <2>9, <3>1 DEF ZramType
    <3> QED BY <1>2, <1>4, <1>5, <2>1, <2>7, <2>9, <3>3, <3>4, ZramInv
  <2>10. CASE /\ blame' = blame \union {"refused"} /\ base' = [base EXCEPT !.refused = @ \union {d}]
              /\ dev' = dev /\ swaps' = swaps
    <3>1. Ours' = Ours /\ Existing' = Existing BY <2>10 DEF Ours, Existing
    <3>2. base'.left = base.left /\ base'.refused = base.refused \union {d} BY <2>10
    <3>3. Excused \union {d} \subseteq Excused' BY <2>10, <3>2 DEF Excused, Refused
    <3>4. DevicesHeld(Ahead, Ours, reg, record, Excused) => DevicesHeld(Ahead, Ours, reg', record, Excused')
      <4> SUFFICES ASSUME DevicesHeld(Ahead, Ours, reg, record, Excused)
                   PROVE  DevicesHeld(Ahead, Ours, reg', record, Excused')
        OBVIOUS
      <4>1. DevicesHeld(Ahead, Ours \ {d}, reg', record, Excused) BY <2>6
      <4> QED BY <3>3, <4>1 DEF DevicesHeld
    <3>5. DevicesKept BY <1>5, <2>6, <2>7, <3>1, <3>4 DEF DevicesKept
    <3>6. ZramType' BY <1>5, <1>6, <1>7, <2>4, <2>10, <3>1 DEF ZramType
    <3> QED BY <1>2, <1>4, <1>5, <2>1, <2>7, <3>2, <3>5, <3>6, ZramInv
  <2> QED BY <2>1, <2>8, <2>9, <2>10
<1> QED BY <1>9, <1>10

----------------------------------------------------------------------------
(* The steps of the swapfile *)

\* The places of the steps of the swapfile.
LEMMA FileAt ==
  \A s \in Steps :
    /\ s.op = "file_create" => Place(s) = 74
    /\ s.op = "file_on" => Place(s) = 75
    /\ s.op = "file_verify" => Place(s) = 76
    /\ s.op = "file_check" => Place(s) = 77
    /\ s.op = "file_deadline" => Place(s) = 78
    /\ s.op = "file_resume" => Place(s) = 79
    /\ s.op = "file_off" => Place(s) = 80
    /\ s.op = "file_unlink" => Place(s) = 81
<1> SUFFICES ASSUME NEW s \in Steps
             PROVE
    /\ s.op = "file_create" => Place(s) = 74
    /\ s.op = "file_on" => Place(s) = 75
    /\ s.op = "file_verify" => Place(s) = 76
    /\ s.op = "file_check" => Place(s) = 77
    /\ s.op = "file_deadline" => Place(s) = 78
    /\ s.op = "file_resume" => Place(s) = 79
    /\ s.op = "file_off" => Place(s) = 80
    /\ s.op = "file_unlink" => Place(s) = 81
  OBVIOUS
<1>1. s.op = "file_create" => Place(s) = 74
  BY DEF Place
<1>2. s.op = "file_on" => Place(s) = 75
  BY DEF Place
<1>3. s.op = "file_verify" => Place(s) = 76
  BY DEF Place
<1>4. s.op = "file_check" => Place(s) = 77
  BY DEF Place
<1>5. s.op = "file_deadline" => Place(s) = 78
  BY DEF Place
<1>6. s.op = "file_resume" => Place(s) = 79
  BY DEF Place
<1>7. s.op = "file_off" => Place(s) = 80
  BY DEF Place
<1>8. s.op = "file_unlink" => Place(s) = 81
  BY DEF Place
<1> QED BY <1>1, <1>2, <1>3, <1>4, <1>5, <1>6, <1>7, <1>8

Snapshots == [created : BOOLEAN, activated : BOOLEAN, rolled : BOOLEAN, owned : BOOLEAN]
FileStates == {"absent", "raw", "formatted", "ready"}

\* A step of the swapfile preserves the invariant when the swapfile is kept.
LEMMA TieringInv ==
  ASSUME Inv, Validating, Place(Head(todo)) \in 74 .. 81, KeepsFile, WellMade(todo'), blame \subseteq blame',
         Advancing \/ Leaving, FilesKept, snap' \in Snapshots, NEW f \in FileStates, file' = [file EXCEPT ![run] = f],
         swaps' \subseteq Existing \union ReadyFiles'
  PROVE  Inv'
<1>1. dev' = dev /\ reg' = reg /\ name' = name /\ record' = record /\ evid' = evid
      /\ groups' = groups /\ proc' = proc /\ guards' = guards /\ report' = report
      /\ verdict' = verdict /\ run' = run /\ base' = base /\ acts' = acts
  BY DEF KeepsFile, zram, cgroup, ended, rest
<1>2. Place(Head(todo)) \notin ZramSpots /\ Place(Head(todo)) \notin GroupSpots
      /\ Place(Head(todo)) # 58 /\ Place(Head(todo)) \notin {3, 10, 13}
  BY DEF ZramSpots, GroupSpots
<1>3. DevicesKept
  BY <1>1, <1>2, ZramAside
<1>4. GroupsKept
  BY <1>1, <1>2, GroupsAside
<1>5. file \in [1 .. MaxRuns -> FileStates] /\ run \in 1 .. MaxRuns
  BY Meant, Taken DEF Inv, TypeOK, FileStates
<1>6. file' \in [1 .. MaxRuns -> FileStates] /\ \A r \in 1 .. MaxRuns : r # run => file'[r] = file[r]
  BY <1>5
<1>7. TypeOK'
  <2>1. Existing' = Existing BY <1>1 DEF Existing
  <2>2. file' \in [1 .. MaxRuns -> {"absent", "raw", "formatted", "ready"}] BY <1>6 DEF FileStates
  <2>3. swaps' \subseteq Existing' \union {-r : r \in {q \in 1 .. MaxRuns : file'[q] = "ready"}}
    BY <2>1 DEF ReadyFiles
  <2> QED BY <1>1, <2>2, <2>3 DEF Inv, TypeOK
<1>8. Transaction'
  <2>1. \A r \in 1 .. MaxRuns : r > run => file'[r] = "absent"
    <3> SUFFICES ASSUME NEW r \in 1 .. MaxRuns, r > run PROVE file'[r] = "absent"
      OBVIOUS
    <3>1. r # run BY <1>5
    <3> QED BY <1>6, <3>1 DEF Inv, Transaction
  <2>2. snap'.rolled => file'[run] # "ready" /\ (snap'.created => file'[run] = "absent") BY DEF FilesKept, FileInv
  <2>3. run' # 0 BY <1>1, <1>5
  <2> QED BY <1>1, <2>1, <2>2, <2>3 DEF Transaction, Snapshots
<1>9. Onwards
  BY <1>1 DEF Onwards
<1> QED BY <1>3, <1>4, <1>7, <1>8, <1>9, StepInv

\* The ways to leave the scope.
LEMMA FileFails ==
  ASSUME Inv, Validating, Place(Head(todo)) \in 74 .. 81, Fail
  PROVE  WellMade(todo') /\ Leaves(Ahead, Ahead', {}, 85) /\ blame' = blame \union {Head(todo).op}
<1>1. Head(todo).op # "conclude" /\ Fronts(Place(Head(todo)), Ahead)
  BY Meant, Taken, ConcludePlace
<1>2. WellMade(todo') /\ LeavingScope /\ blame' = blame \union {Head(todo).op}
  BY <1>1, MoveOut DEF Fail, FailInto
<1>3. PICK c \in Closes : Leaves(Ahead, Ahead', DropSet(c), c)
  BY <1>2 DEF LeavingScope
<1>4. c \in Ahead
  BY <1>3 DEF Leaves
<1>5. c = 85
  BY <1>1, <1>4, FileClose
<1>6. DropSet(85) = {}
  BY DEF DropSet
<1> QED BY <1>2, <1>3, <1>5, <1>6

\* A failed apply goes into the rollback.
LEMMA FileRollsBack ==
  ASSUME Inv, Validating, Place(Head(todo)) \in 74 .. 81, FailInto(RollbackFile)
  PROVE  WellMade(todo') /\ Leaves(Ahead, Ahead', 80 .. 81, 85) /\ blame' = blame \union {Head(todo).op}
<1>1. WellMade(todo) /\ Running
  BY Meant, Taken
<1>2. Drops(RollbackFile, 85) /\ PlacesOf(RollbackFile) = 80 .. 81
  BY FileDropsMade
<1>3. WellMade(todo') /\ Leaves(Ahead, Ahead', PlacesOf(RollbackFile), 85)
  BY <1>1, <1>2, FileLeaves DEF FailInto, Unwind
<1> QED BY <1>2, <1>3 DEF FailInto, Unwind

\* An error in the rollback leaves the scope, and is blamed.
LEMMA FileRollbackStops ==
  ASSUME Inv, Validating, Place(Head(todo)) \in 74 .. 81, Head(todo).op \in FileRisks, RollbackError
  PROVE  WellMade(todo') /\ Leaves(Ahead, Ahead', {}, 85) /\ FileBlamed /\ blame \subseteq blame'
<1>1. CASE unwinding
  <2>1. todo' = SubSeq(todo, AfterScope, Len(todo)) /\ blame' = blame \union {Head(todo).op} BY <1>1 DEF RollbackError
  <2>2. WellMade(todo') /\ Leaves(Ahead, Ahead', {}, 85) BY <2>1, Meant, Taken, FileStops
  <2>3. FileBlamed BY <2>1 DEF FileBlamed, FileRisks
  <2> QED BY <2>1, <2>2, <2>3
<1>2. CASE ~unwinding
  <2>1. Fail BY <1>2 DEF RollbackError
  <2>2. WellMade(todo') /\ Leaves(Ahead, Ahead', {}, 85) /\ blame' = blame \union {Head(todo).op} BY <2>1, FileFails
  <2>3. FileBlamed BY <2>2 DEF FileBlamed
  <2> QED BY <2>2, <2>3
<1> QED BY <1>1, <1>2

\* The swapfile stays as it is, or cannot become active.
LEMMA FileSame ==
  ASSUME Inv, Validating, file' = file
  PROVE  /\ ReadyFiles' = ReadyFiles /\ swaps \subseteq Existing \union ReadyFiles'
         /\ \E f \in FileStates : f = file[run] /\ file' = [file EXCEPT ![run] = f]
<1>1. file \in [1 .. MaxRuns -> FileStates] /\ run \in 1 .. MaxRuns
  BY Meant, Taken DEF Inv, TypeOK, FileStates
<1>2. ReadyFiles' = ReadyFiles
  BY DEF ReadyFiles
<1>3. swaps \subseteq Existing \union ReadyFiles
  BY ZramTyped DEF Inv, ZramType
<1> QED BY <1>1, <1>2, <1>3

\* A step after which the file is the same.
LEMMA FileStepInv ==
  ASSUME Inv, Validating, Place(Head(todo)) \in 74 .. 81, KeepsFile, WellMade(todo'), blame \subseteq blame',
         Advancing \/ Leaving, file' = file, FilesKept, snap' \in Snapshots,
         swaps' \subseteq Existing \union ReadyFiles
  PROVE  Inv'
<1>1. ReadyFiles' = ReadyFiles
  BY FileSame
<1>2. PICK f \in FileStates : file' = [file EXCEPT ![run] = f]
  BY FileSame
<1> QED BY <1>1, <1>2, TieringInv

\* The two ways of leaving the swapfile steps.
LEMMA LeavesFile ==
  ASSUME NEW D \in {{}, 80 .. 81}, Leaves(Ahead, Ahead', D, 85)
  PROVE  Leaving
BY DEF Leaving, LeavingFile

\* An error after which the file is the same.
LEMMA FileFailInv ==
  ASSUME Inv, Validating, Place(Head(todo)) \in 74 .. 81, KeepsFile, WellMade(todo'), blame \subseteq blame',
         NEW D \in {{}, 80 .. 81}, Leaves(Ahead, Ahead', D, 85), FileBlamed, file' = file,
         snap' \in Snapshots, snap'.created = snap.created, snap'.rolled = snap.rolled,
         swaps' \subseteq Existing \union ReadyFiles
  PROVE  Inv'
<1>1. FileInv(Ahead, file[run], snap)
  BY Holds
<1>2. FileInv(Ahead', file[run], snap')
  <2>1. file[run] = "ready" => snap'.created BY <1>1 DEF FileInv
  <2>2. snap'.rolled => file[run] # "ready" /\ (snap'.created => file[run] = "absent") BY <1>1 DEF FileInv
  <2> QED BY <2>1, <2>2, FileLeft
<1>3. FilesKept
  BY <1>2 DEF FilesKept
<1>4. Leaving
  BY LeavesFile
<1> QED BY <1>3, <1>4, FileStepInv

\* A taken step after which the file is the same.
LEMMA FileOnwardInv ==
  ASSUME Inv, Validating, Place(Head(todo)) \in 75 .. 80, KeepsFile, Proceed, Smooth, file' = file,
         snap' \in Snapshots, snap'.created = snap.created, snap'.rolled = snap.rolled,
         swaps' \subseteq Existing \union ReadyFiles
  PROVE  Inv'
<1> DEFINE h == Place(Head(todo))
<1>1. WellMade(todo') /\ Advancing /\ blame' = blame
  BY MoveOn
<1>2. FileInv(Ahead, file[run], snap)
  BY Holds
<1>3. h # 74 /\ h # 81 /\ h \in 74 .. 81
  OBVIOUS
<1>4. Advances(h, Ahead, Ahead')
  BY <1>1 DEF Advancing
<1> HIDE DEF h
<1>5. FileInv(Ahead', file[run], snap') /\ (FileHeld(Ahead, file[run], snap) => FileHeld(Ahead', file[run], snap'))
  BY <1>2, <1>3, <1>4, FileGoOn
<1>6. FilesKept
  BY <1>5 DEF FilesKept
<1> QED BY <1>1, <1>3, <1>6, FileStepInv DEF h

\* One field of the snapshot is set.
LEMMA SnapIs ==
  ASSUME NEW s \in Snapshots, NEW x \in BOOLEAN
  PROVE  /\ [s EXCEPT !.owned = x] \in Snapshots
         /\ [s EXCEPT !.owned = x].created = s.created /\ [s EXCEPT !.owned = x].rolled = s.rolled
         /\ [s EXCEPT !.activated = x] \in Snapshots
         /\ [s EXCEPT !.activated = x].created = s.created /\ [s EXCEPT !.activated = x].rolled = s.rolled
         /\ [s EXCEPT !.rolled = x] \in Snapshots
         /\ [s EXCEPT !.rolled = x].created = s.created /\ [s EXCEPT !.rolled = x].rolled = x
BY DEF Snapshots

\* The snapshot of a created swapfile.
LEMMA SnapMade ==
  ASSUME NEW s \in Snapshots
  PROVE  /\ [s EXCEPT !.created = TRUE, !.owned = TRUE] \in Snapshots
         /\ [s EXCEPT !.created = TRUE, !.owned = TRUE].created = TRUE
         /\ [s EXCEPT !.created = TRUE, !.owned = TRUE].rolled = s.rolled
BY DEF Snapshots

\* The snapshot of a rolled-back swapfile.
LEMMA SnapRolled ==
  ASSUME NEW s \in Snapshots
  PROVE  [s EXCEPT !.owned = FALSE, !.rolled = TRUE] \in Snapshots
BY DEF Snapshots

\* What the file steps start from.
LEMMA FileTaken ==
  ASSUME Inv, Running, Head(todo).op # "residue"
  PROVE  /\ snap \in Snapshots /\ file \in [1 .. MaxRuns -> FileStates] /\ run \in 1 .. MaxRuns
         /\ FileInv(Ahead, file[run], snap) /\ swaps \subseteq Existing \union ReadyFiles
<1>1. Validating /\ run \in 1 .. MaxRuns
  BY Taken
<1>2. snap \in Snapshots /\ file \in [1 .. MaxRuns -> FileStates]
  BY DEF Inv, Transaction, Snapshots, TypeOK, FileStates
<1> QED BY <1>1, <1>2, Holds, ZramTyped DEF Inv, ZramType

\* FileCreate keeps the invariant.
LEMMA FileCreateInv == ASSUME Inv, FileCreate PROVE Inv'
<1>1. Running /\ Head(todo).op = "file_create"
  BY DEF FileCreate, At
<1>2. Validating /\ Head(todo) \in Steps /\ Fronts(Place(Head(todo)), Ahead) /\ Chain(Ahead)
  BY <1>1, Taken
<1>3. Place(Head(todo)) = 74 /\ Place(Head(todo)) \in 74 .. 81
  BY <1>1, <1>2, FileAt
<1>4. /\ snap \in Snapshots /\ file \in [1 .. MaxRuns -> FileStates] /\ run \in 1 .. MaxRuns
      /\ FileInv(Ahead, file[run], snap) /\ swaps \subseteq Existing \union ReadyFiles
  BY <1>1, FileTaken
<1>5. file[run] = "absent"
  BY <1>2, <1>3, <1>4 DEF Fronts, FileInv
<1>6. KeepsFile /\ swaps' = swaps
  BY DEF FileCreate
<1>7. CASE /\ Fine /\ file' = [file EXCEPT ![run] = "ready"]
           /\ snap' = [snap EXCEPT !.created = TRUE, !.owned = TRUE]
  <2>1. WellMade(todo') /\ Advancing /\ blame' = blame BY <1>2, <1>7, MoveOn DEF Fine
  <2>2. snap' \in Snapshots /\ snap'.created = TRUE /\ snap'.rolled = snap.rolled BY <1>4, <1>7, SnapMade
  <2>3. FileInv(Ahead', "ready", snap') /\ FileHeld(Ahead', "ready", snap')
    <3>1. Fronts(74, Ahead) /\ Advances(74, Ahead, Ahead') BY <1>2, <1>3, <2>1 DEF Advancing
    <3>2. snap'.created BY <2>2
    <3> QED BY <1>2, <1>4, <2>2, <3>1, <3>2, FileMade
  <2>4. file'[run] = "ready" BY <1>4, <1>7
  <2>5. FilesKept BY <2>3, <2>4 DEF FilesKept
  <2>6. ReadyFiles \subseteq ReadyFiles' BY <1>4, <1>7 DEF ReadyFiles
  <2>7. swaps' \subseteq Existing \union ReadyFiles' BY <1>4, <1>6, <2>6
  <2>8. "ready" \in FileStates BY DEF FileStates
  <2> QED BY <1>2, <1>3, <1>6, <1>7, <2>1, <2>2, <2>5, <2>7, <2>8, TieringInv
<1>8. CASE /\ Fault /\ FailInto(RollbackFile)
           /\ \E f \in {"absent", "raw", "formatted"} : file' = [file EXCEPT ![run] = f]
           /\ UNCHANGED snap
  <2>1. WellMade(todo') /\ Leaves(Ahead, Ahead', 80 .. 81, 85) /\ blame' = blame \union {"file_create"}
    BY <1>1, <1>2, <1>3, <1>8, FileRollsBack
  <2>2. FileBlamed BY <2>1 DEF FileBlamed, FileRisks
  <2>3. PICK f \in {"absent", "raw", "formatted"} : file' = [file EXCEPT ![run] = f] BY <1>8
  <2>4. file'[run] = f /\ f \in FileStates /\ f # "ready" BY <1>4, <2>3 DEF FileStates
  <2>5. FileInv(Ahead', f, snap')
    <3>1. ~snap.rolled BY <1>2, <1>3, <1>4 DEF Fronts, FileInv
    <3> QED BY <1>8, <2>1, <2>4, <3>1, FileLeft
  <2>6. FilesKept BY <2>2, <2>4, <2>5 DEF FilesKept
  <2>7. ReadyFiles \subseteq ReadyFiles' BY <1>4, <1>5, <2>3 DEF ReadyFiles
  <2>8. swaps' \subseteq Existing \union ReadyFiles' BY <1>4, <1>6, <2>7
  <2>9. Leaving BY <2>1, LeavesFile
  <2>10. snap' \in Snapshots BY <1>4, <1>8
  <2> QED BY <1>2, <1>3, <1>6, <2>1, <2>3, <2>4, <2>6, <2>8, <2>9, <2>10, TieringInv
<1> QED BY <1>7, <1>8 DEF FileCreate

\* FileOn keeps the invariant.
LEMMA FileOnInv == ASSUME Inv, FileOn PROVE Inv'
<1>1. Running /\ Head(todo).op = "file_on"
  BY DEF FileOn, At
<1>2. Validating /\ Head(todo) \in Steps /\ Fronts(Place(Head(todo)), Ahead)
  BY <1>1, Taken
<1>3. Place(Head(todo)) = 75 /\ Place(Head(todo)) \in 74 .. 81 /\ Place(Head(todo)) \in 75 .. 80
  BY <1>1, <1>2, FileAt
<1>4. /\ snap \in Snapshots /\ file \in [1 .. MaxRuns -> FileStates] /\ run \in 1 .. MaxRuns
      /\ FileInv(Ahead, file[run], snap) /\ swaps \subseteq Existing \union ReadyFiles
  BY <1>1, FileTaken
<1>5. 75 \in Ahead /\ 74 \notin Ahead
  BY <1>2, <1>3 DEF Fronts, Before
<1>6. file[run] = "ready"
  BY <1>4, <1>5 DEF FileInv
<1>7. Path \in ReadyFiles
  BY <1>4, <1>6 DEF Path, ReadyFiles
<1>8. KeepsFile /\ file' = file /\ swaps' \subseteq Existing \union ReadyFiles
  BY <1>4, <1>7 DEF FileOn
<1>9. CASE Fine /\ snap' = [snap EXCEPT !.activated = TRUE]
  <2>1. snap' \in Snapshots /\ snap'.created = snap.created /\ snap'.rolled = snap.rolled BY <1>4, <1>9, SnapIs
  <2> QED BY <1>2, <1>3, <1>8, <1>9, <2>1, FileOnwardInv DEF Fine
<1>10. CASE FailInto(RollbackFile) /\ UNCHANGED snap
  <2>1. WellMade(todo') /\ Leaves(Ahead, Ahead', 80 .. 81, 85) /\ blame' = blame \union {"file_on"}
    BY <1>1, <1>2, <1>3, <1>10, FileRollsBack
  <2>2. FileBlamed BY <2>1 DEF FileBlamed, FileRisks
  <2> QED BY <1>2, <1>3, <1>4, <1>8, <1>10, <2>1, <2>2, FileFailInv
<1> QED BY <1>9, <1>10 DEF FileOn

\* FileVerify keeps the invariant.
LEMMA FileVerifyInv == ASSUME Inv, FileVerify PROVE Inv'
<1>1. Running /\ Head(todo).op = "file_verify"
  BY DEF FileVerify, At
<1>2. Validating /\ Head(todo) \in Steps
  BY <1>1, Taken
<1>3. Place(Head(todo)) = 76 /\ Place(Head(todo)) \in 74 .. 81 /\ Place(Head(todo)) \in 75 .. 80
  BY <1>1, <1>2, FileAt
<1>4. snap \in Snapshots /\ FileInv(Ahead, file[run], snap) /\ swaps \subseteq Existing \union ReadyFiles
  BY <1>1, FileTaken
<1>5. KeepsFile /\ file' = file /\ snap' = snap /\ swaps' = swaps
  BY DEF FileVerify, swapfile
<1>6. CASE Fine
  BY <1>2, <1>3, <1>4, <1>5, <1>6, FileOnwardInv DEF Fine
<1>7. CASE FailInto(RollbackFile)
  <2>1. WellMade(todo') /\ Leaves(Ahead, Ahead', 80 .. 81, 85) /\ blame' = blame \union {Head(todo).op}
    BY <1>2, <1>3, <1>7, FileRollsBack
  <2>2. FileInv(Ahead', file[run], snap)
    <3>1. /\ file[run] = "ready" => snap.created
          /\ snap.rolled => file[run] # "ready" /\ (snap.created => file[run] = "absent")
      BY <1>4 DEF FileInv
    <3> QED BY <2>1, <3>1, FileLeft
  <2>3. FileHeld(Ahead, file[run], snap) => FileHeld(Ahead', file[run], snap) BY <2>1, FileKept
  <2>4. FilesKept BY <1>5, <2>2, <2>3 DEF FilesKept
  <2>5. Leaving BY <2>1, LeavesFile
  <2> QED BY <1>2, <1>3, <1>4, <1>5, <2>1, <2>4, <2>5, FileStepInv
<1> QED BY <1>6, <1>7 DEF FileVerify

\* FileCheck keeps the invariant.
LEMMA FileCheckInv == ASSUME Inv, FileCheck PROVE Inv'
<1>1. Running /\ Head(todo).op = "file_check"
  BY DEF FileCheck, At
<1>2. Validating /\ Head(todo) \in Steps
  BY <1>1, Taken
<1>3. Place(Head(todo)) = 77 /\ Place(Head(todo)) \in 74 .. 81 /\ Place(Head(todo)) \in 75 .. 80
  BY <1>1, <1>2, FileAt
<1>4. snap \in Snapshots /\ swaps \subseteq Existing \union ReadyFiles
  BY <1>1, FileTaken
<1>5. KeepsFile /\ file' = file /\ snap' = snap /\ swaps' = swaps
  BY DEF FileCheck, swapfile
<1>6. CASE Fine
  BY <1>2, <1>3, <1>4, <1>5, <1>6, FileOnwardInv DEF Fine
<1>7. CASE FailInto(RollbackFile) \/ Fail
  <2>1. PICK D \in {{}, 80 .. 81} :
          WellMade(todo') /\ Leaves(Ahead, Ahead', D, 85) /\ blame' = blame \union {"file_check"}
    BY <1>1, <1>2, <1>3, <1>7, FileRollsBack, FileFails
  <2>2. FileBlamed BY <2>1 DEF FileBlamed, FileRisks
  <2> QED BY <1>2, <1>3, <1>4, <1>5, <2>1, <2>2, FileFailInv
<1> QED BY <1>6, <1>7 DEF FileCheck, Fails

\* FileDeadline keeps the invariant.
LEMMA FileDeadlineInv == ASSUME Inv, FileDeadline PROVE Inv'
<1>1. Running /\ Head(todo).op = "file_deadline"
  BY DEF FileDeadline, At
<1>2. Validating /\ Head(todo) \in Steps
  BY <1>1, Taken
<1>3. Place(Head(todo)) = 78 /\ Place(Head(todo)) \in 74 .. 81 /\ Place(Head(todo)) \in 75 .. 80
  BY <1>1, <1>2, FileAt
<1>4. snap \in Snapshots /\ swaps \subseteq Existing \union ReadyFiles
  BY <1>1, FileTaken
<1>5. KeepsFile /\ file' = file /\ swaps' = swaps /\ snap' = [snap EXCEPT !.owned = FALSE]
  BY DEF FileDeadline
<1>6. snap' \in Snapshots /\ snap'.created = snap.created /\ snap'.rolled = snap.rolled
  BY <1>4, <1>5, SnapIs
<1>7. CASE Fine
  BY <1>2, <1>3, <1>4, <1>5, <1>6, <1>7, FileOnwardInv DEF Fine
<1>8. CASE Fail
  <2>1. WellMade(todo') /\ Leaves(Ahead, Ahead', {}, 85) /\ blame' = blame \union {"file_deadline"}
    BY <1>1, <1>2, <1>3, <1>8, FileFails
  <2>2. FileBlamed BY <2>1 DEF FileBlamed, FileRisks
  <2> QED BY <1>2, <1>3, <1>4, <1>5, <1>6, <2>1, <2>2, FileFailInv
<1> QED BY <1>7, <1>8 DEF FileDeadline, Require

\* FileResume keeps the invariant.
LEMMA FileResumeInv == ASSUME Inv, FileResume PROVE Inv'
<1>1. Running /\ Head(todo).op = "file_resume"
  BY DEF FileResume, At
<1>2. Validating /\ Head(todo) \in Steps
  BY <1>1, Taken
<1>3. Place(Head(todo)) = 79 /\ Place(Head(todo)) \in 74 .. 81 /\ Place(Head(todo)) \in 75 .. 80
  BY <1>1, <1>2, FileAt
<1>4. snap \in Snapshots /\ swaps \subseteq Existing \union ReadyFiles
  BY <1>1, FileTaken
<1>5. KeepsFile /\ file' = file /\ swaps' = swaps
  BY DEF FileResume
<1>6. CASE Fine /\ snap' = [snap EXCEPT !.owned = TRUE]
  <2>1. snap' \in Snapshots /\ snap'.created = snap.created /\ snap'.rolled = snap.rolled BY <1>4, <1>6, SnapIs
  <2> QED BY <1>2, <1>3, <1>4, <1>5, <1>6, <2>1, FileOnwardInv DEF Fine
<1>7. CASE Fails /\ UNCHANGED snap
  <2>1. WellMade(todo') /\ Leaves(Ahead, Ahead', {}, 85) /\ blame' = blame \union {"file_resume"}
    BY <1>1, <1>2, <1>3, <1>7, FileFails DEF Fails
  <2>2. FileBlamed BY <2>1 DEF FileBlamed, FileRisks
  <2> QED BY <1>2, <1>3, <1>4, <1>5, <1>7, <2>1, <2>2, FileFailInv
<1> QED BY <1>6, <1>7 DEF FileResume

\* FileOff keeps the invariant.
LEMMA FileOffInv == ASSUME Inv, FileOff PROVE Inv'
<1>1. Running /\ Head(todo).op = "file_off"
  BY DEF FileOff, At
<1>2. Validating /\ Head(todo) \in Steps
  BY <1>1, Taken
<1>3. Place(Head(todo)) = 80 /\ Place(Head(todo)) \in 74 .. 81 /\ Place(Head(todo)) \in 75 .. 80
  BY <1>1, <1>2, FileAt
<1>4. snap \in Snapshots /\ swaps \subseteq Existing \union ReadyFiles
  BY <1>1, FileTaken
<1>5. KeepsFile /\ file' = file /\ snap' = snap
  BY DEF FileOff, swapfile
<1>6. swaps' \subseteq swaps /\ (Fine \/ RollbackError \/ Fail)
  BY DEF FileOff, Reads, Fails
<1>7. CASE Fine
  BY <1>2, <1>3, <1>4, <1>5, <1>6, <1>7, FileOnwardInv DEF Fine
<1>8. CASE RollbackError
  <2>1. Head(todo).op \in FileRisks BY <1>1 DEF FileRisks
  <2>2. WellMade(todo') /\ Leaves(Ahead, Ahead', {}, 85) /\ FileBlamed /\ blame \subseteq blame'
    BY <1>2, <1>3, <1>8, <2>1, FileRollbackStops
  <2> QED BY <1>2, <1>3, <1>4, <1>5, <1>6, <2>2, FileFailInv
<1>9. CASE Fail
  <2>1. WellMade(todo') /\ Leaves(Ahead, Ahead', {}, 85) /\ blame' = blame \union {"file_off"}
    BY <1>1, <1>2, <1>3, <1>9, FileFails
  <2>2. FileBlamed BY <2>1 DEF FileBlamed, FileRisks
  <2> QED BY <1>2, <1>3, <1>4, <1>5, <1>6, <2>1, <2>2, FileFailInv
<1> QED BY <1>6, <1>7, <1>8, <1>9

\* FileUnlink keeps the invariant.
LEMMA FileUnlinkInv == ASSUME Inv, FileUnlink PROVE Inv'
<1>1. Running /\ Head(todo).op = "file_unlink"
  BY DEF FileUnlink, At
<1>2. Validating /\ Head(todo) \in Steps /\ Fronts(Place(Head(todo)), Ahead)
  BY <1>1, Taken
<1>3. Place(Head(todo)) = 81 /\ Place(Head(todo)) \in 74 .. 81
  BY <1>1, <1>2, FileAt
<1>4. /\ snap \in Snapshots /\ file \in [1 .. MaxRuns -> FileStates] /\ run \in 1 .. MaxRuns
      /\ FileInv(Ahead, file[run], snap) /\ swaps \subseteq Existing \union ReadyFiles
  BY <1>1, FileTaken
<1>5. KeepsFile /\ swaps' = swaps
  BY DEF FileUnlink
<1>6. \/ Fine /\ (snap.rolled \/ ~snap.created) /\ file' = file /\ (snap' = snap \/ snap' = [snap EXCEPT !.rolled = TRUE])
      \/ /\ Path \notin swaps /\ Fine
         /\ snap' = [snap EXCEPT !.owned = FALSE, !.rolled = TRUE] /\ file' = [file EXCEPT ![run] = "absent"]
      \/ RollbackError /\ snap' = [snap EXCEPT !.owned = FALSE] /\ file' = file
  BY DEF FileUnlink, Unlink, swapfile
<1>7. CASE Fine /\ (snap.rolled \/ ~snap.created) /\ file' = file /\ (snap' = snap \/ snap' = [snap EXCEPT !.rolled = TRUE])
  <2>1. WellMade(todo') /\ Advancing /\ blame' = blame BY <1>2, <1>7, MoveOn DEF Fine
  <2>2. snap' \in Snapshots /\ snap'.created = snap.created
    <3>1. CASE snap' = snap BY <1>4, <3>1
    <3>2. CASE snap' = [snap EXCEPT !.rolled = TRUE] BY <1>4, <3>2, SnapIs
    <3> QED BY <1>7, <3>1, <3>2
  <2>3. /\ FileInv(Ahead', "absent", snap') /\ FileHeld(Ahead', "absent", snap')
        /\ snap.rolled \/ ~snap.created =>
             /\ snap'.created = snap.created => FileInv(Ahead', file[run], snap')
             /\ FileHeld(Ahead, file[run], snap) => file[run] = "absent"
    BY <1>2, <1>3, <1>4, <2>1, FileGone DEF Advancing
  <2>4. FilesKept BY <1>7, <2>2, <2>3 DEF FilesKept
  <2> QED BY <1>2, <1>3, <1>4, <1>5, <1>7, <2>1, <2>2, <2>4, FileStepInv
<1>8. CASE /\ Path \notin swaps /\ Fine
           /\ snap' = [snap EXCEPT !.owned = FALSE, !.rolled = TRUE] /\ file' = [file EXCEPT ![run] = "absent"]
  <2>1. WellMade(todo') /\ Advancing /\ blame' = blame BY <1>2, <1>8, MoveOn DEF Fine
  <2>2. snap' \in Snapshots BY <1>4, <1>8, SnapRolled
  <2>3. FileInv(Ahead', "absent", snap') /\ FileHeld(Ahead', "absent", snap')
    BY <1>2, <1>3, <1>4, <2>1, FileGone DEF Advancing
  <2>4. file'[run] = "absent" /\ "absent" \in FileStates BY <1>4, <1>8 DEF FileStates
  <2>5. FilesKept BY <2>3, <2>4 DEF FilesKept
  <2>6. ReadyFiles \ {Path} \subseteq ReadyFiles' BY <1>4, <1>8 DEF ReadyFiles, Path
  <2>7. swaps' \subseteq Existing \union ReadyFiles' BY <1>4, <1>5, <1>8, <2>6
  <2> QED BY <1>2, <1>3, <1>5, <1>8, <2>1, <2>2, <2>4, <2>5, <2>7, TieringInv
<1>9. CASE RollbackError /\ snap' = [snap EXCEPT !.owned = FALSE] /\ file' = file
  <2>1. Head(todo).op \in FileRisks BY <1>1 DEF FileRisks
  <2>2. WellMade(todo') /\ Leaves(Ahead, Ahead', {}, 85) /\ FileBlamed /\ blame \subseteq blame'
    BY <1>2, <1>3, <1>9, <2>1, FileRollbackStops
  <2>3. snap' \in Snapshots /\ snap'.created = snap.created /\ snap'.rolled = snap.rolled BY <1>4, <1>9, SnapIs
  <2> QED BY <1>2, <1>3, <1>4, <1>5, <1>9, <2>2, <2>3, FileFailInv
<1> QED BY <1>6, <1>7, <1>8, <1>9

----------------------------------------------------------------------------
(* The ends of a scope and of a run *)

\* The places of the frame steps.
LEMMA FrameAt ==
  \A s \in Steps :
    /\ s.op = "scope_deadline" => Place(s) \in {1, 31, 71}
    /\ s.op = "close" => Place(s) \in Closes
    /\ s.op = "conclude" => Place(s) = 90
<1>1. \A s \in Steps : s.op = "scope_deadline" => Place(s) \in {1, 31, 71}
  BY DEF Place
<1> QED BY <1>1, CloseOutside, ConcludePlace DEF Closes

\* Empty guards.
LEMMA NoOwners ==
  ASSUME NEW u, u = [o \in Owners |-> {}]
  PROVE  u["harness"] = {} /\ u["worker"] = {} /\ u \in [Owners -> SUBSET Index]
BY DEF Owners

\* No role has a device.
LEMMA NoRoles ==
  ASSUME NEW n, n = [r \in Roles |-> NoDev]
  PROVE  n \in [Roles -> Index \union {NoDev}]
OBVIOUS

\* Close keeps the invariant.
LEMMA CloseInv == ASSUME Inv, Close PROVE Inv'
<1>1. Running /\ Head(todo).op = "close"
  BY DEF Close, At
<1>2. Validating /\ Head(todo) \in Steps /\ Fronts(Place(Head(todo)), Ahead)
  BY <1>1, Taken
<1>3. Place(Head(todo)) \in Closes
  BY <1>1, <1>2, FrameAt
<1>4. Place(Head(todo)) \notin 74 .. 81
  BY <1>3 DEF Closes
<1>5. WellMade(todo') /\ Advancing
  BY <1>2, DropOn DEF Close
<1>6. /\ guards' = {} /\ reg' = [o \in Owners |-> {}] /\ name' = [r \in Roles |-> NoDev]
      /\ dev' = dev /\ evid' = evid /\ record' = record /\ swaps' = swaps /\ groups' = groups /\ proc' = proc
      /\ file' = file /\ snap' = snap /\ report' = report /\ verdict' = verdict
      /\ run' = run /\ base' = base /\ acts' = acts /\ blame' = blame
  BY DEF Close, swapfile, ended, rest
<1>7. reg'["harness"] = {} /\ reg'["worker"] = {} /\ reg' \in [Owners -> SUBSET Index]
      /\ name' \in [Roles -> Index \union {NoDev}]
  BY <1>6, NoOwners, NoRoles
<1>8. Existing' = Existing /\ Ours' = Ours
  BY <1>6 DEF Existing, Ours
<1>9. DevicesKept
  <2>1. DevicesInv(Ahead, Ours, name, reg, record) BY <1>2, Holds
  <2>2. /\ DevicesInv(Ahead', Ours, name', reg', record)
        /\ \A b : DevicesHeld(Ahead, Ours, reg, record, b) => DevicesHeld(Ahead', Ours, reg', record, b)
    BY <1>2, <1>3, <1>5, <1>7, <2>1, DevicesClose DEF Advancing
  <2> QED BY <1>6, <1>8, <2>2 DEF DevicesKept
<1>10. FilesKept
  BY <1>2, <1>4, <1>5, <1>6, FileAside
<1>11. GroupsKept
  <2>1. GroupsInv(Ahead, groups, proc, guards) /\ groups \subseteq Sleepers BY <1>2, Holds DEF Inv, TypeOK
  <2>2. /\ GroupsInv(Ahead', groups, proc, {})
        /\ GroupsHeld(Ahead, groups, proc, guards) => GroupsHeld(Ahead', groups, proc, {})
    BY <1>2, <1>3, <1>5, <2>1, GroupsClose DEF Advancing
  <2> QED BY <1>6, <2>2 DEF GroupsKept
<1>12. TypeOK'
  BY <1>6, <1>7, <1>8 DEF Inv, TypeOK
<1>13. Transaction' /\ Onwards
  BY <1>5, <1>6, TransactionStays DEF Inv, Onwards
<1> QED BY <1>2, <1>9, <1>10, <1>11, <1>12, <1>13, StepInv

\* Between the scopes, and at the end, a run has left only what the risks it
\* ran into and the refusals of its guards explain.
LEMMA EndClean ==
  ASSUME Inv, Validating, Place(Head(todo)) \in {1, 31, 71, 90},
         UNCHANGED <<dev, swaps, file, groups, proc, run, base>>
  PROVE  /\ run' > 0
         /\ blame \intersect DeviceRisks = {} => DevicesLeft' \subseteq Refused
         /\ blame \intersect GroupRisks = {} => NoGroupLeft'
         /\ blame \intersect FileRisks = {} => NoFileLeft'
<1> DEFINE h == Place(Head(todo))
<1>1. Fronts(h, Ahead) /\ run \in 1 .. MaxRuns
  BY Meant, Taken
<1>2. /\ DevicesInv(Ahead, Ours, name, reg, record) /\ FileInv(Ahead, file[run], snap)
      /\ GroupsInv(Ahead, groups, proc, guards)
  BY Holds
<1>3. h \in {1, 31, 71, 90} /\ h \in 1 .. 90 /\ (h = 1 \/ h >= 24) /\ h \notin 74 .. 81
  OBVIOUS
<1> HIDE DEF h
<1>4. ASSUME blame \intersect DeviceRisks = {} PROVE DevicesLeft' \subseteq Refused
  <2>1. DevicesHeld(Ahead, Ours, reg, record, Excused) BY <1>4 DEF Inv, Guarded
  <2>2. Ours \subseteq Excused BY <1>1, <1>2, <1>3, <2>1, DevicesClear
  <2> QED BY <2>2 DEF Ours, Excused, DevicesLeft
<1>5. ASSUME blame \intersect GroupRisks = {} PROVE NoGroupLeft'
  <2>1. GroupsHeld(Ahead, groups, proc, guards) BY <1>5 DEF Inv, Guarded
  <2>2. groups \subseteq Sleepers BY DEF Inv, TypeOK
  <2>3. groups = {} /\ proc["main"] = "none" /\ proc["crash"] = "none"
    BY <1>1, <1>2, <1>3, <2>1, <2>2, GroupsClear
  <2>4. \A c \in Sleepers : proc[c] = "none" BY <2>3, TwoSleepers
  <2> QED BY <2>3, <2>4 DEF NoGroupLeft, Alive
<1>6. ASSUME blame \intersect FileRisks = {} PROVE NoFileLeft'
  <2>1. FileHeld(Ahead, file[run], snap) BY <1>6 DEF Inv, Guarded
  <2>2. file[run] = "absent" BY <1>1, <1>2, <1>3, <2>1, FileClear
  <2>3. Path \in Int /\ Path < 0 BY <1>1 DEF Path
  <2>4. Path \notin Existing BY <2>3 DEF Existing, Index
  <2>5. Path \notin ReadyFiles
    <3> SUFFICES ASSUME NEW r \in 1 .. MaxRuns, file[r] = "ready", Path = -r PROVE FALSE
      BY DEF ReadyFiles
    <3>1. r = run BY <1>1 DEF Path
    <3> QED BY <2>2, <3>1
  <2>6. swaps \subseteq Existing \union ReadyFiles BY ZramTyped DEF Inv, ZramType
  <2>7. Path' = Path BY DEF Path
  <2> QED BY <2>2, <2>4, <2>5, <2>6, <2>7 DEF NoFileLeft
<1> QED BY <1>1, <1>4, <1>5, <1>6

\* A run ends.
LEMMA OverInv ==
  ASSUME Inv, todo' = <<>>, run' = run, acts' = acts, file' = file, snap' = snap, TypeOK', Ended'
  PROVE  Inv'
<1>1. ~Running'
  BY DEF Running
<1>2. Control'
  BY <1>1 DEF Inv, Control
<1>3. Holding' /\ Guarded'
  BY <1>1 DEF Holding, Guarded, Validating
<1>4. Transaction'
  BY TransactionStays DEF Inv
<1> QED BY <1>2, <1>3, <1>4 DEF Inv

\* The type when a run ends.
LEMMA TypeOver ==
  ASSUME TypeOK, UNCHANGED <<dev, swaps, file, groups, proc, guards, name, reg, evid>>, record' \in {NoDev, record},
         report'.names \subseteq Index, verdict' \in {"pass", "fail"}
  PROVE  TypeOK'
<1>1. Existing' = Existing
  BY DEF Existing
<1> QED BY <1>1 DEF TypeOK

\* An error of main itself.
LEMMA AbortInv ==
  ASSUME Inv, Validating, Place(Head(todo)) \in {1, 31, 71, 90}, Abort, blame \subseteq blame',
         UNCHANGED <<dev, swaps, file, cgroup, name, reg, evid, snap, late, rest>>
  PROVE  Inv'
<1>1. UNCHANGED <<dev, swaps, file, groups, proc, guards, name, reg, evid, snap, run, base, acts>>
  BY DEF cgroup, rest
<1>2. todo' = <<>> /\ record' \in {NoDev, record} /\ verdict' = "fail" /\ report' = report
  BY DEF Abort, DropStateDir
<1>3. TypeOK'
  BY <1>1, <1>2, TypeOver DEF Inv, TypeOK
<1>4. Ended'
  <2>1. /\ run' > 0
        /\ blame \intersect DeviceRisks = {} => DevicesLeft' \subseteq Refused
        /\ blame \intersect GroupRisks = {} => NoGroupLeft'
        /\ blame \intersect FileRisks = {} => NoFileLeft'
    BY <1>1, EndClean
  <2>2. Refused \subseteq base'.refused BY <1>1 DEF Refused
  <2>3. PassClean' BY <1>2 DEF PassClean
  <2>4. ErrorPathsClean' BY <2>1, <2>2 DEF ErrorPathsClean
  <2> QED BY <2>1, <2>3, <2>4 DEF Ended
<1> QED BY <1>1, <1>2, <1>3, <1>4, OverInv

\* ScopeDeadline keeps the invariant.
LEMMA ScopeDeadlineInv == ASSUME Inv, ScopeDeadline PROVE Inv'
<1>1. Running /\ Head(todo).op = "scope_deadline"
  BY DEF ScopeDeadline, At
<1>2. Validating /\ Head(todo) \in Steps
  BY <1>1, Taken
<1>3. Place(Head(todo)) \in {1, 31, 71}
  BY <1>1, <1>2, FrameAt
<1>4. UNCHANGED <<dev, swaps, file, cgroup, name, reg, evid, snap, late, rest>>
  BY DEF ScopeDeadline
<1>5. CASE late
  <2>1. Abort /\ blame \subseteq blame' BY <1>5 DEF ScopeDeadline
  <2>2. Place(Head(todo)) \in {1, 31, 71, 90} BY <1>3
  <2> QED BY <1>2, <1>4, <2>1, <2>2, AbortInv
<1>6. CASE ~late
  <2>1. Fine /\ UNCHANGED <<ended, record>> BY <1>6 DEF ScopeDeadline
  <2>2. WellMade(todo') /\ Advancing /\ blame' = blame BY <1>2, <2>1, MoveOn DEF Fine
  <2>3. UNCHANGED matters BY <1>4, <2>1 DEF matters, cgroup, rest, ended
  <2>4. dev' = dev /\ file' = file /\ groups' = groups /\ proc' = proc /\ reg' = reg
        /\ guards' = guards /\ name' = name /\ record' = record /\ snap' = snap
        /\ verdict' = verdict /\ run' = run /\ base' = base /\ acts' = acts
    BY <1>4, <2>3 DEF matters, rest
  <2>5. Place(Head(todo)) \notin ZramSpots /\ Place(Head(todo)) \notin GroupSpots /\ Place(Head(todo)) \notin 74 .. 81
    BY <1>3 DEF ZramSpots, GroupSpots
  <2>6. DevicesKept BY <1>2, <2>2, <2>4, <2>5, ZramAside
  <2>7. FilesKept BY <1>2, <2>2, <2>4, <2>5, FileAside
  <2>8. GroupsKept BY <1>2, <2>2, <2>4, <2>5, GroupsAside
  <2>9. TypeOK' /\ Transaction' BY <2>3, <2>4, TypeStays, TransactionStays DEF Inv
  <2>10. Onwards BY <2>2, <2>4 DEF Onwards
  <2> QED BY <1>2, <2>6, <2>7, <2>8, <2>9, <2>10, StepInv
<1> QED BY <1>5, <1>6

\* Conclude keeps the invariant.
LEMMA ConcludeInv == ASSUME Inv, Conclude PROVE Inv'
<1>1. Running /\ Head(todo).op = "conclude"
  BY DEF Conclude, At
<1>2. Validating /\ Head(todo) \in Steps
  BY <1>1, Taken
<1>3. Place(Head(todo)) \in {1, 31, 71, 90}
  BY <1>1, <1>2, FrameAt
<1>4. UNCHANGED <<dev, swaps, file, cgroup, name, reg, evid, snap, late, rest>>
  BY DEF Conclude
<1>5. CASE Fault /\ Abort /\ blame' = blame \union {"conclude"}
  BY <1>2, <1>3, <1>4, <1>5, AbortInv
<1>6. CASE /\ todo' = <<>> /\ DropStateDir
           /\ report' = [names |-> evid, devs |-> base.devs, valid |-> TRUE]
           /\ verdict' = IF Passed THEN "pass" ELSE "fail"
           /\ UNCHANGED <<unwinding, blame, faults>>
  <2>1. UNCHANGED <<dev, swaps, file, groups, proc, guards, name, reg, evid, snap, run, base, acts>>
    BY <1>4 DEF cgroup, rest
  <2>2. report'.names \subseteq Index BY <1>6 DEF Inv, TypeOK
  <2>3. TypeOK' BY <1>6, <2>1, <2>2, TypeOver DEF Inv, DropStateDir
  <2>4. Ended'
    <3>1. /\ run' > 0
          /\ blame \intersect DeviceRisks = {} => DevicesLeft' \subseteq Refused
          /\ blame \intersect GroupRisks = {} => NoGroupLeft'
          /\ blame \intersect FileRisks = {} => NoFileLeft'
      BY <1>2, <1>3, <2>1, EndClean
    <3>2. CASE Passed
      <4>1. blame = {} /\ verdict' = "pass" BY <1>6, <3>2 DEF Passed
      <4>2. Refused = {} BY <4>1 DEF Refused
      <4>3. DevicesLeft' = {} /\ NoGroupLeft' /\ NoFileLeft' BY <3>1, <4>1, <4>2
      <4> QED BY <3>1, <4>1, <4>3 DEF Ended, PassClean, ErrorPathsClean
    <3>3. CASE ~Passed
      <4>1. blame' = blame /\ verdict' = "fail" BY <1>6, <3>3
      <4>2. Refused \subseteq base'.refused BY <2>1 DEF Refused
      <4> QED BY <3>1, <4>1, <4>2 DEF Ended, PassClean, ErrorPathsClean
    <3> QED BY <3>2, <3>3
  <2> QED BY <1>6, <2>1, <2>3, <2>4, OverInv
<1> QED BY <1>5, <1>6 DEF Conclude

----------------------------------------------------------------------------
(* Runs, the cleanup, signals and other parties *)

\* Start keeps the invariant.
LEMMA StartInv == ASSUME Inv, Start PROVE Inv'
<1> DEFINE h == Place(Head(todo'))
<1>1. /\ todo' \in Programs /\ run' = run + 1 /\ run < MaxRuns
      /\ base' = [devs |-> Existing, swaps |-> swaps, worker |-> {}, left |-> {d \in Index : dev[d] = "nemor"},
                  refused |-> {}]
      /\ name' = [r \in Roles |-> NoDev] /\ reg' = [o \in Owners |-> {}]
      /\ guards' = {} /\ evid' = {} /\ snap' = Fresh /\ blame' = {} /\ verdict' = "none"
      /\ dev' = dev /\ swaps' = swaps /\ file' = file /\ groups' = groups /\ proc' = proc /\ record' = record
      /\ report' = report /\ acts' = acts
  BY DEF Start
<1>2. groups = {} /\ \A c \in Sleepers : proc[c] = "none"
  BY DEF Start, ValidBaseline
<1>3. WellMade(todo') /\ todo' # <<>> /\ Outside(Place(todo'[1])) /\ Whole(PlacesOf(todo'))
  BY <1>1, ProgramsMade, ProgramsWhole
<1>4. Ahead' = PlacesOf(todo')
  BY DEF Ahead
<1>5. Chain(Ahead') /\ Whole(Ahead') /\ Fronts(h, Ahead')
  BY <1>3, <1>4, Chained, FirstStep
<1>6. Outside(h)
  BY <1>3 DEF WellMade
<1>7. run \in 0 .. MaxRuns /\ MaxRuns \in Nat
  BY BoundsAssumption DEF Inv, Control
<1>8. run' \in 1 .. MaxRuns /\ run' > run /\ run' > 0 /\ run' # 0
  BY <1>1, <1>7
<1>9. file'[run'] = "absent"
  BY <1>1, <1>8 DEF Inv, Transaction
<1>10. Existing' = Existing /\ Ours' = Ours
  BY <1>1 DEF Existing, Ours
<1>11. reg'["harness"] = {} /\ reg'["worker"] = {} /\ reg' \in [Owners -> SUBSET Index]
       /\ name' \in [Roles -> Index \union {NoDev}]
  BY <1>1, NoOwners, NoRoles
<1>12. TypeOK'
  BY <1>1, <1>10, <1>11 DEF Inv, TypeOK
<1>13. Control'
  <2>1. run' \in 0 .. MaxRuns BY <1>8
  <2> QED BY <1>1, <1>3, <1>8, <2>1 DEF Inv, Control
<1>14. Transaction'
  <2>1. Fresh \in [created : BOOLEAN, activated : BOOLEAN, rolled : BOOLEAN, owned : BOOLEAN] /\ ~Fresh.rolled
    BY DEF Fresh
  <2>2. \A r \in 1 .. MaxRuns : r > run' => file'[r] = "absent"
    <3> SUFFICES ASSUME NEW r \in 1 .. MaxRuns, r > run' PROVE file'[r] = "absent"
      OBVIOUS
    <3>1. r > run BY <1>1, <1>7
    <3> QED BY <1>1, <3>1 DEF Inv, Transaction
  <2> QED BY <1>1, <1>8, <2>1, <2>2 DEF Transaction
<1> HIDE DEF h
<1>15. DevicesInv(Ahead', Ours', name', reg', record')
  BY <1>5, <1>6, <1>11, DevicesStart
<1>16. FileInv(Ahead', file'[run'], snap') /\ FileHeld(Ahead', file'[run'], snap')
  BY <1>1, <1>5, <1>6, <1>9, FileStart
<1>17. GroupsInv(Ahead', groups', proc', guards') /\ GroupsHeld(Ahead', groups', proc', guards')
  BY <1>1, <1>2, <1>5, GroupsStart
<1>18. DevicesHeld(Ahead', Ours', reg', record', Excused')
  <2>1. Ours' \ Excused' = {} BY <1>1, <1>10 DEF Ours, Excused
  <2> QED BY <2>1 DEF DevicesHeld
<1>19. Holding' /\ Guarded'
  BY <1>15, <1>16, <1>17, <1>18 DEF Holding, Guarded
<1>20. Ended'
  BY <1>1 DEF Ended, PassClean, ErrorPathsClean
<1> QED BY <1>12, <1>13, <1>14, <1>19, <1>20 DEF Inv

\* ResidueStart keeps the invariant.
LEMMA ResidueStartInv == ASSUME Inv, ResidueStart PROVE Inv'
<1>1. /\ todo' = <<S("residue", "none")>> /\ verdict' = "cleaning"
      /\ reg' = [reg EXCEPT !["harness"] = report.names]
      /\ dev' = dev /\ swaps' = swaps /\ file' = file /\ groups' = groups /\ proc' = proc /\ record' = record
      /\ report' = report /\ run' = run /\ name' = name /\ guards' = guards /\ evid' = evid /\ snap' = snap
      /\ acts' = acts
  BY DEF ResidueStart, host
<1>2. Existing' = Existing
  BY <1>1 DEF Existing
<1>3. reg' \in [Owners -> SUBSET Index]
  BY <1>1 DEF Inv, TypeOK, Owners
<1>4. TypeOK'
  BY <1>1, <1>2, <1>3 DEF Inv, TypeOK
<1>5. Control'
  BY <1>1 DEF Inv, Control
<1>6. Transaction'
  BY <1>1, TransactionStays DEF Inv
<1>7. Holding' /\ Guarded' /\ Ended'
  BY <1>1 DEF Holding, Guarded, Validating, Ended, PassClean, ErrorPathsClean
<1> QED BY <1>4, <1>5, <1>6, <1>7 DEF Inv

\* The cleanup is not a validation.
LEMMA Cleaning ==
  ASSUME Inv, At("residue")
  PROVE  verdict = "cleaning" /\ todo = <<S("residue", "none")>>
<1>1. Running /\ Head(todo).op = "residue"
  BY DEF At
<1>2. ~WellMade(todo)
  <2> SUFFICES ASSUME WellMade(todo) PROVE FALSE
    OBVIOUS
  <2>1. Head(todo) \in Steps BY <1>1, FirstStep DEF Running
  <2> QED BY <1>1, <2>1 DEF Steps
<1> QED BY <1>1, <1>2 DEF Inv, Control

\* One device less.
LEMMA TypeLess ==
  ASSUME TypeOK, UNCHANGED <<file, groups, proc, guards, name, evid, record, report>>, NEW d \in Index,
         \/ dev' = dev /\ swaps' \subseteq swaps
         \/ dev' = [dev EXCEPT ![d] = "none"] /\ swaps' = swaps \ {d},
         reg' \in [Owners -> SUBSET Index], verdict' \in {"cleaning", "cleaned", "unclean"}
  PROVE  TypeOK'
<1>1. CASE dev' = dev /\ swaps' \subseteq swaps
  <2>1. Existing' = Existing BY <1>1 DEF Existing
  <2> QED BY <1>1, <2>1 DEF TypeOK
<1>2. CASE dev' = [dev EXCEPT ![d] = "none"] /\ swaps' = swaps \ {d}
  <2>1. Existing' = Existing \ {d} /\ dev' \in [Index -> {"none", "host", "nemor", "other"}]
    BY <1>2, OursWithout DEF TypeOK
  <2> QED BY <1>2, <2>1 DEF TypeOK
<1> QED BY <1>1, <1>2

Stops == (todo' = <<>> /\ verdict' \in {"cleaned", "unclean"}) \/ (todo' = todo /\ verdict' = verdict)
Sheds(d) ==
    \/ dev' = dev /\ swaps' \subseteq swaps
    \/ dev' = [dev EXCEPT ![d] = "none"] /\ swaps' = swaps \ {d}

\* Residue keeps the invariant.
LEMMA ResidueInv == ASSUME Inv, Residue PROVE Inv'
<1> DEFINE d == Lowest(reg["harness"])
<1>1. verdict = "cleaning" /\ todo = <<S("residue", "none")>>
  BY Cleaning DEF Residue
<1>2. UNCHANGED <<file, groups, proc, guards, record, report, name, evid, snap, run, base, acts>>
  BY DEF Residue, cgroup, rest
<1>3. reg \in [Owners -> SUBSET Index] /\ reg["harness"] \subseteq Index /\ "harness" \in Owners
  BY DEF Inv, TypeOK, Owners
<1>4. Stops /\ reg' \in [Owners -> SUBSET Index] /\ \E e \in Index : Sheds(e)
  <2>1. CASE reg["harness"] = {}
    <3>1. todo' = <<>> /\ dev' = dev /\ swaps' = swaps /\ reg' = reg
          /\ verdict' = IF Existing = base.devs THEN "cleaned" ELSE "unclean"
      BY <2>1 DEF Residue, ResidueEnds
    <3>2. 0 \in Index BY BoundsAssumption DEF Index
    <3>3. Sheds(0) BY <3>1 DEF Sheds
    <3>4. Stops BY <3>1 DEF Stops
    <3> QED BY <1>3, <3>1, <3>2, <3>3, <3>4
  <2>2. CASE reg["harness"] # {}
    <3>1. d \in Index BY <1>3, <2>2, LowestIs
    <3>2. /\ reg' = [reg EXCEPT !["harness"] = @ \ {d}]
          /\ CASE d = 0 \/ d \in base.devs ->
                    ResidueEnds("unclean") /\ UNCHANGED <<dev, swaps, faults>>
               [] dev[d] = "none" -> UNCHANGED <<todo, verdict, dev, swaps, faults>>
               [] OTHER ->
                  \/ /\ dev' = [dev EXCEPT ![d] = "none"] /\ swaps' = swaps \ {d}
                     /\ UNCHANGED <<todo, verdict, faults>>
                  \/ /\ Fault /\ ResidueEnds("unclean")
                     /\ swaps' \in {swaps, swaps \ {d}} /\ UNCHANGED dev
      BY <2>2 DEF Residue
    <3>3. reg' \in [Owners -> SUBSET Index] BY <1>3, <3>2
    <3> HIDE DEF d
    <3>4. \/ ResidueEnds("unclean") /\ UNCHANGED <<dev, swaps, faults>>
          \/ UNCHANGED <<todo, verdict, dev, swaps, faults>>
          \/ dev' = [dev EXCEPT ![d] = "none"] /\ swaps' = swaps \ {d} /\ UNCHANGED <<todo, verdict, faults>>
          \/ ResidueEnds("unclean") /\ swaps' \in {swaps, swaps \ {d}} /\ UNCHANGED dev
      BY <3>2
    <3>5. Stops BY <3>4 DEF Stops, ResidueEnds
    <3>6. Sheds(d) BY <3>4 DEF Sheds
    <3> QED BY <3>1, <3>3, <3>5, <3>6
  <2> QED BY <2>1, <2>2
<1>5. PICK e \in Index : Sheds(e)
  BY <1>4
<1>6. verdict' \in {"cleaning", "cleaned", "unclean"}
  BY <1>1, <1>4 DEF Stops
<1>7. TypeOK'
  BY <1>2, <1>4, <1>5, <1>6, TypeLess DEF Inv, Sheds
<1>8. Control'
  BY <1>1, <1>2, <1>4 DEF Inv, Control, Running, Stops
<1>9. Transaction'
  BY <1>2, TransactionStays DEF Inv
<1>10. Holding' /\ Guarded' /\ Ended'
  BY <1>6 DEF Holding, Guarded, Validating, Ended, PassClean, ErrorPathsClean
<1> QED BY <1>7, <1>8, <1>9, <1>10 DEF Inv

\* What does not touch what the run holds.
LEMMA QuietInv ==
  ASSUME Inv, TypeOK', Ended', acts' \in Nat, Ours' = Ours,
         UNCHANGED <<file, groups, guards, record, run, todo, base, name, reg, snap, blame, verdict>>,
         Validating => /\ GroupsInv(Ahead, groups, proc', guards)
                       /\ GroupsHeld(Ahead, groups, proc, guards) => GroupsHeld(Ahead, groups, proc', guards)
  PROVE  Inv'
<1>1. Ahead' = Ahead
  BY DEF Ahead
<1>2. (Validating' <=> Validating) /\ (Running' <=> Running)
  BY DEF Validating, Running
<1>3. Control'
  BY <1>2 DEF Inv, Control
<1>4. Transaction'
  BY TransactionStays DEF Inv
<1>5. Holding'
  BY <1>1, <1>2 DEF Inv, Holding
<1>6. Guarded'
  BY <1>1, <1>2 DEF Inv, Guarded, Excused, Refused
<1> QED BY <1>3, <1>4, <1>5, <1>6 DEF Inv

\* A step that changes nothing that matters.
LEMMA StutterInv ==
  ASSUME Inv, UNCHANGED <<host, run, todo, base, name, reg, guards, evid, snap, blame, verdict, acts>>
  PROVE  Inv'
<1>1. UNCHANGED <<dev, swaps, file, groups, proc, stateDir, record, report, run, todo, base, name, reg, guards, evid,
                  snap, blame, verdict, acts>>
  BY DEF host
<1>2. UNCHANGED matters
  BY <1>1 DEF matters
<1>3. TypeOK'
  BY <1>2, TypeStays DEF Inv
<1>4. Ended'
  BY <1>1 DEF Inv, Ended, PassClean, ErrorPathsClean, DevicesLeft, NoGroupLeft, NoFileLeft, Alive, Path
<1>5. Ours' = Ours
  BY <1>1 DEF Ours
<1>6. acts' \in Nat
  BY <1>1 DEF Inv, Control
<1> QED BY <1>1, <1>3, <1>4, <1>5, <1>6, QuietInv DEF Inv, Holding

\* Expire keeps the invariant.
LEMMA ExpireInv == ASSUME Inv, Expire PROVE Inv'
<1>1. UNCHANGED <<host, run, todo, base, name, reg, guards, evid, snap, blame, verdict, acts>>
  BY DEF Expire
<1> QED BY <1>1, StutterInv

\* Kill keeps the invariant.
LEMMA KillInv == ASSUME Inv, Kill PROVE Inv'
<1>1. /\ todo' = <<>> /\ verdict' = "killed" /\ guards' = {} /\ reg' = [o \in Owners |-> {}]
      /\ UNCHANGED <<dev, swaps, file, groups, proc, record, report, run, base, name, evid, snap, acts>>
  BY DEF Kill, host
<1>2. Existing' = Existing
  BY <1>1 DEF Existing
<1>3. reg' \in [Owners -> SUBSET Index]
  BY <1>1, NoOwners
<1>4. TypeOK'
  BY <1>1, <1>2, <1>3 DEF Inv, TypeOK
<1>5. Ended'
  BY <1>1 DEF Ended, PassClean, ErrorPathsClean
<1> QED BY <1>1, <1>4, <1>5, OverInv

\* A worker is killed in one of its steps.
LEMMA WorkerAt ==
  ASSUME Inv, Validating, InWorker
  PROVE  Place(Head(todo)) \notin 74 .. 81 /\ Head(todo).op # "conclude"
<1>1. Head(todo) \in Steps
  BY Meant, Taken
<1>2. Head(todo).op \in {"w_forget", "w_persist", "guard", "apply", "setup", "on", "check"}
  BY DEF InWorker
<1>3. \A s \in Steps : s.op \in {"w_forget", "w_persist", "guard", "apply", "setup", "on", "check"} =>
                          Place(s) \notin 74 .. 81
  BY DEF Place
<1> QED BY <1>1, <1>2, <1>3

\* KillWorker keeps the invariant.
LEMMA KillWorkerInv == ASSUME Inv, KillWorker PROVE Inv'
<1> DEFINE h == Place(Head(todo))
<1>1. Validating /\ InWorker /\ Unwind(Destructors(Scope), "killed")
  BY DEF KillWorker
<1>2. /\ guards' = guards \ {"w_child", "w_cleanup"} /\ reg' = [reg EXCEPT !["worker"] = {}]
      /\ UNCHANGED <<dev, swaps, file, groups, proc, record, report, run, base, name, evid, snap, verdict, acts>>
  BY DEF KillWorker, host
<1>3. h \notin 74 .. 81 /\ Head(todo).op # "conclude"
  BY <1>1, WorkerAt
<1>4. WellMade(todo') /\ LeavingScope /\ blame' = blame \union {"killed"}
  BY <1>1, <1>3, MoveOut
<1>5. DeviceBlamed /\ GroupBlamed
  BY <1>4 DEF DeviceBlamed, DeviceRisks, GroupBlamed, GroupRisks
<1>6. Fronts(h, Ahead)
  BY <1>1, Meant, Taken
<1>7. /\ reg'["harness"] = reg["harness"] /\ reg'["worker"] = {} /\ reg' \in [Owners -> SUBSET Index]
  BY <1>2 DEF Inv, TypeOK, Owners
<1>8. Existing' = Existing /\ Ours' = Ours
  BY <1>2 DEF Existing, Ours
<1>9. FilesKept
  BY <1>1, <1>2, <1>3, <1>4, FileAside
<1>10. PICK c \in Closes : Leaves(Ahead, Ahead', DropSet(c), c)
  BY <1>4 DEF LeavingScope
<1> HIDE DEF h
<1>11. DevicesKept
  <2>1. DevicesInv(Ahead, Ours, name, reg, record) BY <1>1, Holds
  <2>2. DevicesInv(Ahead', Ours, name, reg', record)
    BY <1>6, <1>7, <1>10, <2>1, DevicesLeave
  <2> QED BY <1>2, <1>5, <1>8, <2>2 DEF DevicesKept
<1>12. GroupsKept
  <2>1. GroupsInv(Ahead, groups, proc, guards) BY <1>1, Holds
  <2>2. Fitting(proc) /\ guards' \subseteq guards BY <1>2, <2>1 DEF GroupsInv, Fitting
  <2>3. GroupsInv(Ahead', groups, proc, guards')
    BY <1>6, <1>10, <2>1, <2>2, GroupsLeave
  <2> QED BY <1>2, <1>5, <2>3 DEF GroupsKept
<1>13. TypeOK'
  BY <1>2, <1>7, <1>8 DEF Inv, TypeOK
<1>14. Transaction' /\ Onwards
  BY <1>2, <1>4, TransactionStays DEF Inv, Onwards
<1> QED BY <1>1, <1>9, <1>11, <1>12, <1>13, <1>14, StepInv

\* One sleeper less.
LEMMA GroupsLess ==
  ASSUME NEW P, NEW G, NEW p, NEW u, GroupsInv(P, G, p, u), NEW q,
         \A c \in Sleepers : q[c] = p[c] \/ q[c] = "none"
  PROVE  GroupsInv(P, G, q, u) /\ (GroupsHeld(P, G, p, u) => GroupsHeld(P, G, q, u))
<1>1. /\ q["main"] = p["main"] \/ q["main"] = "none"
      /\ q["crash"] = p["crash"] \/ q["crash"] = "none"
  BY TwoSleepers
<1>2. \A c \in Sleepers : q[c] \in {"none", "origin", c}
  BY DEF GroupsInv
<1>3. GroupsInv(P, G, q, u)
  BY <1>1, <1>2 DEF GroupsInv
<1>4. GroupsHeld(P, G, p, u) => GroupsHeld(P, G, q, u)
  BY <1>1 DEF GroupsHeld
<1> QED BY <1>3, <1>4

\* SleeperEnds keeps the invariant.
LEMMA SleeperEndsInv == ASSUME Inv, SleeperEnds PROVE Inv'
<1>1. PICK c \in Sleepers : Alive(c) /\ proc' = [proc EXCEPT ![c] = "none"]
  BY DEF SleeperEnds
<1>2. UNCHANGED <<dev, swaps, file, groups, stateDir, record, report, run, todo, base,
                  name, reg, guards, evid, snap, blame, verdict, acts>>
  BY DEF SleeperEnds
<1>3. Existing' = Existing /\ Ours' = Ours
  BY <1>2 DEF Existing, Ours
<1>4. proc \in [Sleepers -> {"none", "origin"} \union groups]
  BY DEF Inv, TypeOK
<1>5. /\ proc' \in [Sleepers -> {"none", "origin"} \union groups]
      /\ \A x \in Sleepers : proc'[x] = proc[x] \/ proc'[x] = "none"
  BY <1>1, <1>4
<1>6. TypeOK'
  BY <1>2, <1>3, <1>5 DEF Inv, TypeOK
<1>7. Ended'
  <2>1. ~NoGroupLeft BY <1>1 DEF NoGroupLeft
  <2>2. verdict # "pass" /\ (verdict = "fail" => blame \intersect GroupRisks # {})
    BY <2>1 DEF Inv, Ended, PassClean, ErrorPathsClean
  <2>3. DevicesLeft' = DevicesLeft /\ (NoFileLeft' <=> NoFileLeft) BY <1>2 DEF DevicesLeft, NoFileLeft, Path
  <2> QED BY <1>2, <2>2, <2>3 DEF Inv, Ended, PassClean, ErrorPathsClean
<1>8. acts' \in Nat
  BY <1>2 DEF Inv, Control
<1>9. ASSUME Validating
      PROVE  /\ GroupsInv(Ahead, groups, proc', guards)
             /\ GroupsHeld(Ahead, groups, proc, guards) => GroupsHeld(Ahead, groups, proc', guards)
  <2>1. GroupsInv(Ahead, groups, proc, guards) BY <1>9, Holds
  <2> QED BY <1>5, <2>1, GroupsLess
<1> QED BY <1>2, <1>3, <1>6, <1>7, <1>8, <1>9, QuietInv

\* What another tool or an administrator does to devices and swaps.
LEMMA ForeignActs ==
  ASSUME TypeOK, Foreign
  PROVE  /\ dev' \in [Index -> {"none", "host", "nemor", "other"}]
         /\ \A d \in Index : dev'[d] = "nemor" <=> dev[d] = "nemor"
         /\ swaps' \subseteq Existing' \union ReadyFiles
         /\ \A x \in swaps' : x \in swaps \/ x \in Index
<1>1. dev \in [Index -> {"none", "host", "nemor", "other"}] /\ swaps \subseteq Existing \union ReadyFiles
  BY DEF TypeOK, ReadyFiles
<1>2. ReadyFiles \intersect Index = {}
  BY DEF ReadyFiles, Index
<1>3. CASE Free # {} /\ dev' = [dev EXCEPT ![Lowest(Free)] = "other"] /\ swaps' = swaps \union {Lowest(Free)}
  <2>1. Lowest(Free) \in Free /\ Lowest(Free) \in Index /\ dev[Lowest(Free)] = "none"
    <3>1. Free \subseteq Index /\ Free # {} BY <1>3 DEF Free
    <3>2. Lowest(Free) \in Free BY <3>1, LowestIs
    <3> QED BY <3>2 DEF Free, Existing
  <2> DEFINE d == Lowest(Free)
  <2>2. d \in Index /\ dev[d] = "none" /\ dev' = [dev EXCEPT ![d] = "other"] /\ swaps' = swaps \union {d}
    BY <1>3, <2>1
  <2> HIDE DEF d
  <2>3. Existing \subseteq Existing' /\ d \in Existing' BY <1>1, <2>2 DEF Existing
  <2>4. dev' \in [Index -> {"none", "host", "nemor", "other"}] BY <1>1, <2>2
  <2>5. \A e \in Index : dev'[e] = "nemor" <=> dev[e] = "nemor" BY <1>1, <2>2
  <2>6. swaps' \subseteq Existing' \union ReadyFiles BY <1>1, <2>2, <2>3
  <2> QED BY <2>2, <2>4, <2>5, <2>6
<1>4. CASE \E d \in Index : dev[d] = "other" /\ dev' = [dev EXCEPT ![d] = "none"] /\ swaps' = swaps \ {d}
  <2>1. PICK d \in Index : dev[d] = "other" /\ dev' = [dev EXCEPT ![d] = "none"] /\ swaps' = swaps \ {d}
    BY <1>4
  <2>2. Existing' = Existing \ {d} BY <1>1, <2>1 DEF Existing
  <2>3. dev' \in [Index -> {"none", "host", "nemor", "other"}] BY <1>1, <2>1
  <2>4. \A e \in Index : dev'[e] = "nemor" <=> dev[e] = "nemor" BY <1>1, <2>1
  <2>5. swaps' \subseteq Existing' \union ReadyFiles BY <1>1, <2>1, <2>2
  <2> QED BY <2>1, <2>3, <2>4, <2>5
<1>5. CASE dev' = dev /\ swaps' = swaps \ {0}
  BY <1>1, <1>5 DEF Existing
<1> QED BY <1>3, <1>4, <1>5 DEF Foreign

\* Foreign keeps the invariant.
LEMMA ForeignInv == ASSUME Inv, Foreign PROVE Inv'
<1>1. acts' = acts + 1 /\ UNCHANGED <<file, groups, proc, stateDir, record, report, run, todo, base, name,
                   reg, guards, evid, snap, blame, verdict>>
  BY DEF Foreign
<1>2. /\ dev' \in [Index -> {"none", "host", "nemor", "other"}]
      /\ \A d \in Index : dev'[d] = "nemor" <=> dev[d] = "nemor"
      /\ swaps' \subseteq Existing' \union ReadyFiles
      /\ \A x \in swaps' : x \in swaps \/ x \in Index
  BY ForeignActs DEF Inv
<1>3. Ours' = Ours
  BY <1>2 DEF Ours
<1>4. ReadyFiles' = ReadyFiles
  BY <1>1 DEF ReadyFiles
<1>5. TypeOK'
  <2>1. swaps' \subseteq Existing' \union ReadyFiles' BY <1>2, <1>4
  <2> QED BY <1>1, <1>2, <2>1 DEF Inv, TypeOK, ReadyFiles
<1>6. Ended'
  <2>1. DevicesLeft' = DevicesLeft BY <1>1, <1>2 DEF DevicesLeft
  <2>2. NoGroupLeft' <=> NoGroupLeft BY <1>1 DEF NoGroupLeft, Alive
  <2>3. ASSUME verdict \in {"pass", "fail"}, NoFileLeft PROVE NoFileLeft'
    <3>1. run > 0 /\ run \in Nat BY <2>3, BoundsAssumption DEF Inv, Ended, Control
    <3>2. Path \notin Index BY <3>1 DEF Path, Index
    <3>3. Path' = Path BY <1>1 DEF Path
    <3> QED BY <1>1, <1>2, <2>3, <3>2, <3>3 DEF NoFileLeft
  <2> QED BY <1>1, <2>1, <2>2, <2>3 DEF Inv, Ended, PassClean, ErrorPathsClean
<1>7. acts' \in Nat
  BY <1>1 DEF Inv, Control
<1> QED BY <1>1, <1>3, <1>5, <1>6, <1>7, QuietInv DEF Inv, Holding

----------------------------------------------------------------------------
(* The inductive invariant *)

\* The invariant holds at the start.
LEMMA InitInv == Init => Inv
<1> SUFFICES ASSUME Init PROVE Inv
  OBVIOUS
<1>1. PICK others \in SUBSET Others :
         /\ dev = [d \in Index |-> CASE d = 0 -> "host" [] d \in others -> "other" [] OTHER -> "none"]
         /\ swaps = {0} \union others
  BY DEF Init
<1>2. /\ file = [r \in 1 .. MaxRuns |-> "absent"] /\ groups = {} /\ proc = [c \in Sleepers |-> "none"]
      /\ record = NoDev /\ report = NoReport /\ run = 0 /\ todo = <<>> /\ snap = Fresh /\ verdict = "none"
      /\ name = [r \in Roles |-> NoDev] /\ reg = [o \in Owners |-> {}] /\ guards = {} /\ evid = {} /\ acts = 0
  BY DEF Init
<1>3. others \subseteq Index /\ 0 \in Index /\ MaxRuns \in Nat
  BY OthersAssumption, BoundsAssumption DEF Index
<1>4. dev \in [Index -> {"none", "host", "nemor", "other"}]
  BY <1>1
<1>5. swaps \subseteq Existing
  BY <1>1, <1>3 DEF Existing
<1>6. reg \in [Owners -> SUBSET Index] /\ name \in [Roles -> Index \union {NoDev}]
  BY <1>2, NoOwners, NoRoles
<1>7. TypeOK
  BY <1>2, <1>4, <1>5, <1>6 DEF TypeOK, NoReport
<1>8. Control
  BY <1>2, <1>3 DEF Control, Running
<1>9. Transaction
  BY <1>2 DEF Transaction, Fresh
<1>10. Holding /\ Guarded /\ Ended
  BY <1>2 DEF Holding, Guarded, Validating, Running, Ended, PassClean, ErrorPathsClean
<1> QED BY <1>7, <1>8, <1>9, <1>10 DEF Inv

\* The steps of main keep the invariant.
LEMMA MainInv == ASSUME Inv, Main PROVE Inv'
BY StartInv, ScopeDeadlineInv, DeadlineInv, BenchmarkInv, InspectInv, CloseInv, ConcludeInv DEF Main

\* The steps of --cgroups keep it.
LEMMA CgroupsInv == ASSUME Inv, Cgroups PROVE Inv'
BY SpawnInv, GuardInv, ApplyInv, RollbackInv, WorkerForgetsInv, AdoptInv, EndSleeperInv, NoGroupsInv, DropInv
   DEF Cgroups

\* The steps of --zram keep it.
LEMMA ZramsInv == ASSUME Inv, Zram PROVE Inv'
BY AddInv, SetupInv, SwapOnInv, SwapOffInv, CheckpointInv, RemoveDeviceInv, WorkerBaselineInv, WorkerPersistsInv,
   AdoptZramInv, ZramSameInv, DropZramInv DEF Zram

\* The steps of --tiering keep it.
LEMMA FilesInv == ASSUME Inv, Tiering PROVE Inv'
BY FileCreateInv, FileOnInv, FileVerifyInv, FileCheckInv, FileDeadlineInv, FileResumeInv, FileOffInv, FileUnlinkInv
   DEF Tiering

\* Every step keeps the invariant.
LEMMA NextInv == ASSUME Inv, [Next]_vars PROVE Inv'
<1>1. CASE Harness
  BY <1>1, MainInv, CgroupsInv, ZramsInv, FilesInv DEF Harness
<1>2. CASE ResidueStart BY <1>2, ResidueStartInv
<1>3. CASE Residue BY <1>3, ResidueInv
<1>4. CASE Expire BY <1>4, ExpireInv
<1>5. CASE Kill BY <1>5, KillInv
<1>6. CASE KillWorker BY <1>6, KillWorkerInv
<1>7. CASE SleeperEnds BY <1>7, SleeperEndsInv
<1>8. CASE Foreign BY <1>8, ForeignInv
<1>9. CASE UNCHANGED vars
  <2>1. UNCHANGED <<host, run, todo, base, name, reg, guards, evid, snap, blame, verdict, acts>>
    BY <1>9 DEF vars
  <2> QED BY <2>1, StutterInv
<1> QED BY <1>1, <1>2, <1>3, <1>4, <1>5, <1>6, <1>7, <1>8, <1>9 DEF Next

\* Every state of every behaviour satisfies the inductive invariant.
THEOREM Invariance == Spec => []Inv
<1>1. Init => Inv
  BY InitInv
<1>2. Inv /\ [Next]_vars => Inv'
  BY NextInv
<1> QED BY <1>1, <1>2, PTL DEF Spec

\* Swaps, files, groups, guards and device names have their types: an active
\* swap is a device or a swapfile that exists, and a sleeper is in a group
\* that exists.
THEOREM TypeCorrect == Spec => []TypeOK
<1>1. Inv => TypeOK
  BY DEF Inv
<1> QED BY <1>1, Invariance, PTL

\* A swapfile transaction that reports a rollback has left no active swapfile,
\* and has removed the swapfile that create_owned made (rollback_swapfile).
\* What a failed create_owned leaves is not part of the claim.
THEOREM RollbackHonestHolds == Spec => []RollbackHonest
<1>1. Inv => RollbackHonest
  <2> SUFFICES ASSUME Inv, snap.rolled
               PROVE  Path \notin swaps /\ (snap.created => file[run] = "absent")
    BY DEF RollbackHonest
  <2>1. file[run] # "ready" /\ (snap.created => file[run] = "absent") BY DEF Inv, Transaction
  <2>2. run # 0 BY DEF Inv, Transaction, Fresh
  <2>3. run \in 1 .. MaxRuns BY <2>2, BoundsAssumption DEF Inv, Control
  <2>4. Path \notin Index BY <2>3 DEF Path, Index
  <2>5. Path \notin ReadyFiles
    <3> SUFFICES ASSUME NEW q \in 1 .. MaxRuns, file[q] = "ready", Path = -q PROVE FALSE
      BY DEF ReadyFiles
    <3>1. q = run BY <2>3 DEF Path
    <3> QED BY <2>1, <3>1
  <2>6. swaps \subseteq Index \union ReadyFiles BY DEF Inv, TypeOK, ReadyFiles, Existing
  <2> QED BY <2>1, <2>4, <2>5, <2>6
<1> QED BY <1>1, Invariance, PTL

\* A run that passes has left no device, group, sleeper or swapfile of its own,
\* whatever other parties did (main and compare_host).
THEOREM PassCleanHolds == Spec => []PassClean
<1>1. Inv => PassClean
  BY DEF Inv, Ended
<1> QED BY <1>1, Invariance, PTL

\* Of a run that ends with an error, a device is left only after one of the
\* DeviceRisks failed, or when a guard refused it for its number; a group or
\* sleeper only after one of the GroupRisks, the swapfile only after one of the
\* FileRisks.  The drop order, the handover of ownership and the rollback of
\* the swapfile miss no other resource on any error path.
THEOREM ErrorPathsCleanHolds == Spec => []ErrorPathsClean
<1>1. Inv => ErrorPathsClean
  BY DEF Inv, Ended
<1> QED BY <1>1, Invariance, PTL

----------------------------------------------------------------------------
(* What is not the harness's own is spared *)

Spared ==
    \A d \in Existing : dev[d] # "nemor" => dev'[d] = dev[d] /\ (d \in swaps => d \in swaps')

\* A step that changes no device and switches nothing off.
LEMMA SparedSame == ASSUME dev' = dev, swaps \subseteq swaps' PROVE Spared
BY DEF Spared

\* A step that removes or switches off a device of the harness.
LEMMA SparedOwn ==
  ASSUME dev \in [Index -> {"none", "host", "nemor", "other"}], NEW x \in Ours,
         dev' = dev \/ dev' = [dev EXCEPT ![x] = "none"], swaps \ {x} \subseteq swaps'
  PROVE  Spared
<1> SUFFICES ASSUME NEW d \in Existing, dev[d] # "nemor"
             PROVE  dev'[d] = dev[d] /\ (d \in swaps => d \in swaps')
  BY DEF Spared
<1>1. d # x /\ d \in Index
  BY DEF Ours, Existing
<1> QED BY <1>1

\* main changes no device.
LEMMA MainSpared == ASSUME Main, Validating PROVE Spared
<1>1. ~Start
  BY DEF Start, Validating
<1>2. dev' = dev /\ swaps' = swaps
  <2>1. CASE ScopeDeadline BY <2>1 DEF ScopeDeadline
  <2>2. CASE Deadline BY <2>2 DEF Deadline, zram
  <2>3. CASE Benchmark BY <2>3 DEF Benchmark, zram
  <2>4. CASE Inspect BY <2>4 DEF Inspect, zram
  <2>5. CASE Close BY <2>5 DEF Close
  <2>6. CASE Conclude BY <2>6 DEF Conclude
  <2> QED BY <1>1, <2>1, <2>2, <2>3, <2>4, <2>5, <2>6 DEF Main
<1> QED BY <1>2, SparedSame

\* --cgroups changes no device.
LEMMA CgroupsSpared == ASSUME Cgroups PROVE Spared
<1>1. KeepsCgroup
  BY DEF Cgroups, Spawn, Guard, Apply, Rollback, WorkerForgets, Adopt, EndSleeper, NoGroups, Drop
<1>2. dev' = dev /\ swaps' = swaps
  BY <1>1 DEF KeepsCgroup, zram
<1> QED BY <1>2, SparedSame

\* A device is added at a free number.
LEMMA AddSpared == ASSUME Inv, Add PROVE Spared
<1>1. swaps' = swaps
  BY DEF Add
<1>2. CASE Free = {}
  BY <1>1, <1>2, SparedSame DEF Add
<1>3. CASE Free # {}
  <2> DEFINE d == Lowest(Free)
  <2>1. d \in Free
    BY <1>3, LowestIs DEF Free
  <2>2. dev' = dev \/ dev' = [dev EXCEPT ![d] = "nemor"]
    BY <1>3 DEF Add
  <2> HIDE DEF d
  <2> SUFFICES ASSUME NEW e \in Existing PROVE dev'[e] = dev[e]
    BY <1>1 DEF Spared
  <2>3. e # d /\ e \in Index
    BY <2>1 DEF Free, Existing
  <2>4. dev \in [Index -> {"none", "host", "nemor", "other"}]
    BY DEF Inv, TypeOK
  <2> QED BY <2>2, <2>3, <2>4
<1> QED BY <1>2, <1>3

\* A role that is switched off is live: its device is the harness's own.
LEMMA SwapOffSpared == ASSUME Inv, SwapOff PROVE Spared
<1>1. Running /\ Head(todo).op = "off"
  BY DEF SwapOff, At
<1>2. Validating /\ Head(todo) \in Steps /\ Fronts(Place(Head(todo)), Ahead) /\ Chain(Ahead)
  BY <1>1, Taken
<1>3. /\ Arg \in {"a", "b", "w"}
      /\ Place(Head(todo)) = (CASE Arg = "a" -> 46 [] Arg = "b" -> 48 [] OTHER -> 60)
  BY <1>1, <1>2, ZramAt DEF Arg
<1> DEFINE h == Place(Head(todo))
<1>4. (Arg = "a" /\ h = 46) \/ (Arg = "b" /\ h = 48) \/ (Arg = "w" /\ h = 60)
  BY <1>3
<1>5. Live(Ahead, Arg)
  <2> HIDE DEF h
  <2>1. Fronts(h, Ahead) BY <1>2 DEF h
  <2>2. (Arg = "a" /\ h \in {42, 46}) \/ (Arg = "b" /\ h \in {44, 48}) \/ (Arg = "w" /\ h \in {55, 60})
    BY <1>4
  <2> QED BY <1>2, <2>1, <2>2, SwitchedLive
<1>6. name[Arg] \in Ours
  <2>1. DevicesInv(Ahead, Ours, name, reg, record) BY <1>2, Holds
  <2>2. Arg \in Roles BY <1>3 DEF Roles
  <2> QED BY <1>5, <2>1, <2>2 DEF DevicesInv
<1>7. dev' = dev /\ swaps \ {name[Arg]} \subseteq swaps'
  BY DEF SwapOff, zram
<1>8. dev \in [Index -> {"none", "host", "nemor", "other"}]
  BY DEF Inv, TypeOK
<1> QED BY <1>6, <1>7, <1>8, SparedOwn

\* So is the device of a role that is removed.
LEMMA RemoveSpared == ASSUME Inv, RemoveDevice PROVE Spared
<1>1. Running /\ Head(todo).op = "remove"
  BY DEF RemoveDevice, At
<1>2. Validating /\ Head(todo) \in Steps /\ Fronts(Place(Head(todo)), Ahead) /\ Chain(Ahead)
  BY <1>1, Taken
<1>3. Arg \in Roles /\ Place(Head(todo)) = RemovePlace(Arg)
  BY <1>1, <1>2, ZramAt DEF Arg
<1>4. name[Arg] \in Ours
  <2>1. DevicesInv(Ahead, Ours, name, reg, record) BY <1>2, Holds
  <2>2. RemovePlace(Arg) \in Ahead /\ AddPlace(Arg) \notin Ahead
    <3>1. AddPlace(Arg) \in 32 .. 62 /\ RemovePlace(Arg) \in 32 .. 62 /\ AddPlace(Arg) < RemovePlace(Arg)
      BY <1>3 DEF AddPlace, RemovePlace, Roles
    <3>2. Fronts(RemovePlace(Arg), Ahead) BY <1>2, <1>3
    <3> QED BY <3>1, <3>2 DEF Fronts, Before
  <2> QED BY <1>3, <2>1, <2>2 DEF DevicesInv, Live
<1>5. swaps' = swaps /\ (dev' = dev \/ dev' = [dev EXCEPT ![name[Arg]] = "none"])
  BY DEF RemoveDevice
<1>6. dev \in [Index -> {"none", "host", "nemor", "other"}]
  BY DEF Inv, TypeOK
<1> QED BY <1>4, <1>5, <1>6, SparedOwn

\* The guards name devices of the harness only.
LEMMA DropZramSpared == ASSUME Inv, DropZram PROVE Spared
<1>1. Running /\ Head(todo).op = "drop_zram"
  BY DEF DropZram, At
<1>2. Validating /\ Head(todo) \in Steps
  BY <1>1, Taken
<1>3. Arg \in Owners
  BY <1>1, <1>2, ZramAt DEF Arg
<1>4. CASE reg[Arg] = {}
  BY <1>4, SparedSame DEF DropZram
<1>5. CASE reg[Arg] # {}
  <2> DEFINE d == Lowest(reg[Arg])
  <2>1. \/ dev' = [dev EXCEPT ![d] = "none"] /\ swaps' = swaps \ {d}
        \/ dev' = dev /\ swaps' \in {swaps, swaps \ {d}}
    BY <1>5 DEF DropZram
  <2>2. reg[Arg] \subseteq Index BY <1>3 DEF Inv, TypeOK
  <2>3. d \in reg[Arg] BY <1>5, <2>2, LowestIs
  <2>4. reg[Arg] \subseteq Ours
    <3>1. DevicesInv(Ahead, Ours, name, reg, record) BY <1>2, Holds
    <3> QED BY <1>3, <3>1 DEF DevicesInv, Owners
  <2>5. dev \in [Index -> {"none", "host", "nemor", "other"}]
    BY DEF Inv, TypeOK
  <2> HIDE DEF d
  <2> QED BY <2>1, <2>3, <2>4, <2>5, SparedOwn
<1> QED BY <1>4, <1>5

\* --zram spares what is not its own.
LEMMA ZramSpared == ASSUME Inv, Zram PROVE Spared
<1>1. CASE Add BY <1>1, AddSpared
<1>2. CASE Setup \/ Checkpoint \/ WorkerBaseline \/ WorkerPersists \/ AdoptZram \/ ZramSame
  <2>1. dev' = dev /\ swaps' = swaps
    BY <1>2 DEF Setup, Checkpoint, WorkerBaseline, WorkerPersists, AdoptZram, ZramSame, zram
  <2> QED BY <2>1, SparedSame
<1>3. CASE SwapOn
  <2>1. dev' = dev /\ swaps \subseteq swaps' BY <1>3 DEF SwapOn, zram
  <2> QED BY <2>1, SparedSame
<1>4. CASE SwapOff BY <1>4, SwapOffSpared
<1>5. CASE RemoveDevice BY <1>5, RemoveSpared
<1>6. CASE DropZram BY <1>6, DropZramSpared
<1> QED BY <1>1, <1>2, <1>3, <1>4, <1>5, <1>6 DEF Zram

\* The swapfile is no device.
LEMMA TieringSpared == ASSUME Inv, Validating, Tiering PROVE Spared
<1>1. run \in 1 .. MaxRuns
  BY Meant, Taken
<1>2. Path \notin Index
  BY <1>1 DEF Path, Index
<1>3. KeepsFile
  BY DEF Tiering, FileCreate, FileOn, FileVerify, FileCheck, FileDeadline, FileResume, FileOff, FileUnlink
<1>4. dev' = dev
  BY <1>3 DEF KeepsFile, zram
<1>5. swaps \ {Path} \subseteq swaps'
  <2>1. CASE FileCreate \/ FileVerify \/ FileCheck \/ FileDeadline \/ FileResume \/ FileUnlink
    BY <2>1 DEF FileCreate, FileVerify, FileCheck, FileDeadline, FileResume, FileUnlink
  <2>2. CASE FileOn BY <2>2 DEF FileOn
  <2>3. CASE FileOff BY <2>3 DEF FileOff
  <2> QED BY <2>1, <2>2, <2>3 DEF Tiering
<1>6. \A d \in Existing : d # Path
  BY <1>2 DEF Existing
<1> QED BY <1>4, <1>5, <1>6 DEF Spared

\* A validation run never switches off or removes a zram device that is not
\* its own: the protected /dev/zram0, another tool's device, or a number that
\* it gave back (remove_managed_device and Drop for ZramCleanup).
THEOREM ForeignSparedHolds == Spec => ForeignSpared
<1>1. Inv /\ [Next]_vars =>
        [Validating /\ acts' = acts =>
           \A d \in Existing :
             dev[d] # "nemor" => dev'[d] = dev[d] /\ (d \in swaps => d \in swaps')]_vars
  <2> SUFFICES ASSUME Inv, Next, Validating, acts' = acts PROVE Spared
    BY DEF Spared
  <2>1. acts \in Nat
    BY DEF Inv, Control
  <2>2. CASE Harness
    BY <2>2, MainSpared, CgroupsSpared, ZramSpared, TieringSpared DEF Harness
  <2>3. CASE ResidueStart
    BY <2>3 DEF ResidueStart, Validating
  <2>4. CASE Residue
    BY <2>4, Cleaning DEF Residue, Validating
  <2>5. CASE Expire \/ Kill \/ KillWorker \/ SleeperEnds
    <3>1. dev' = dev /\ swaps' = swaps BY <2>5 DEF Expire, Kill, KillWorker, SleeperEnds, host
    <3> QED BY <3>1, SparedSame
  <2>6. CASE Foreign
    BY <2>1, <2>6 DEF Foreign
  <2> QED BY <2>2, <2>3, <2>4, <2>5, <2>6 DEF Next
<1> QED BY <1>1, Invariance, PTL DEF Spec, ForeignSpared
=============================================================================
