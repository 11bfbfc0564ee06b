-------------------------- MODULE SerialRunsProofs --------------------------
(***************************************************************************)
(* Racing runs implement SerialCommands, for every program, every number   *)
(* of runs and every log.  What an attempt has come to is what the serial  *)
(* decision comes to over any log whose folds are the attempt's own: that  *)
(* is the invariant, and it says nothing of the shared log, so no other    *)
(* run can disturb it.  The prefix an attempt pinned is such a log, and    *)
(* when the append's condition holds the whole log is one as well.         *)
(***************************************************************************)
EXTENDS CommandRunProofs, SerialRuns, WellFoundedInduction, NaturalsInduction

-----------------------------------------------------------------------------
(* The recursive definitions of SerialCommands.                            *)

\* A set of numbers has a first one.
LEMMA FirstOf ==
  ASSUME NEW S \in SUBSET Nat, S # {}
  PROVE  \E q \in S : \A r \in S : ~(r < q)
PROOF
<1>1. PICK q \in S : \A r \in S : ~(<<r, q>> \in OpToRel(<, Nat))
  BY WFMin, NatLessThanWellFounded
<1> QED
  BY <1>1 DEF OpToRel

\* Both modules mean the same by the arms a record is folded by.
LEMMA SameArms ==
  ASSUME NEW slices, NEW e
  PROVE  Serial!ArmsAt(slices, e) = ArmsAt(slices, e)
PROOF BY DEF Serial!ArmsAt, Serial!Holds, ArmsAt, Holds

\* What the first k records leave of a fold, given what the ones before left.
SeenFrom(slices, env, records, before, k) ==
  IF k = 0 THEN <<>>
  ELSE IF ArmsAt(slices, records[k]) = {} THEN before[k - 1]
  ELSE Append(before[k - 1], Entry(slices, k - 1, records[k], env))

\* The equation of a serial fold has a solution.
LEMMA SeenExists ==
  ASSUME NEW slices, NEW env, NEW records, NEW n \in Nat
  PROVE  \E f : f = [k \in 0 .. n |->
                       SeenFrom(slices, env, records, f, k)]
PROOF
<1> DEFINE Next1(f, k) == SeenFrom(slices, env, records, f, k)
           Solves(f, m) == f = [k \in 0 .. m |-> Next1(f, k)]
           unsolved == {m \in Nat : ~ \E f : Solves(f, m)}
<1>1. \A f, g, k : k = 0 \/ f[k - 1] = g[k - 1] => Next1(f, k) = Next1(g, k)
  BY DEF SeenFrom
<1> HIDE DEF Next1
<1>2. unsolved = {}
  <2> SUFFICES ASSUME unsolved # {} PROVE FALSE
    OBVIOUS
  <2>1. PICK m \in unsolved : \A j \in unsolved : ~(j < m)
    <3>1. unsolved \in SUBSET Nat
      OBVIOUS
    <3> HIDE DEF unsolved
    <3> QED
      BY <3>1, FirstOf
  <2>2. CASE m = 0
    <3> DEFINE f == [k \in 0 .. 0 |-> Next1(<<>>, 0)]
    <3>1. Solves(f, 0)
      <4>1. \A k \in 0 .. 0 : k = 0
        OBVIOUS
      <4>2. \A k \in 0 .. 0 : Next1(f, k) = Next1(<<>>, 0)
        <5> HIDE DEF f
        <5> QED
          BY <1>1, <4>1
      <4> QED
        BY <4>2
    <3> HIDE DEF Solves, f
    <3> QED
      BY <2>1, <2>2, <3>1
  <2>3. CASE m # 0
    <3>1. m \in Nat /\ m - 1 \in Nat /\ m - 1 < m
      BY <2>1, <2>3
    <3>2. PICK f : Solves(f, m - 1)
      BY <2>1, <3>1
    <3> DEFINE g == [k \in 0 .. m |-> IF k = m THEN Next1(f, m) ELSE f[k]]
    <3>3. \A k \in 0 .. m : k # m => k \in 0 .. m - 1
      BY <3>1
    <3>4. \A k \in 0 .. m - 1 : g[k] = f[k] /\ f[k] = Next1(f, k)
      BY <3>1, <3>2
    <3>5. \A k \in 0 .. m : k # 0 => k - 1 \in 0 .. m - 1
      BY <3>1
    <3>6. \A k \in 0 .. m : Next1(g, k) = Next1(f, k)
      <4> HIDE DEF g
      <4> QED
        BY <1>1, <3>4, <3>5
    <3>7. \A k \in 0 .. m : g[k] = Next1(g, k)
      BY <3>3, <3>4, <3>6
    <3>8. Solves(g, m)
      BY <3>7
    <3> HIDE DEF Solves, g
    <3> QED
      BY <2>1, <3>8
  <2> QED
    BY <2>2, <2>3
<1> QED
  BY <1>2 DEF Next1

\* The serial fold is what a run's fold is held to be.
LEMMA FoldOfIsFold ==
  ASSUME NEW slices, NEW env, NEW records, Len(records) \in Nat
  PROVE  LET fold == Serial!FoldOf(slices, env, records) IN
           /\ fold = [seed |-> env, seen |-> fold.seen]
           /\ IsSeq(fold.seen)
           /\ IsFold(fold, slices, env, records, Len(records))
PROOF
<1> DEFINE Solves(f) == f = [k \in 0 .. Len(records) |->
                               SeenFrom(slices, env, records, f, k)]
           seen == CHOOSE f : Solves(f)
           Upto(k) == [seed |-> env, seen |-> seen[k]]
           Good(k) == /\ IsSeq(seen[k])
                      /\ IsFold(Upto(k), slices, env, records, k)
           bad == {k \in 0 .. Len(records) : ~Good(k)}
<1>1. Serial!FoldOf(slices, env, records) = Upto(Len(records))
  BY SameArms DEF Serial!FoldOf, SeenFrom, Entry
<1>2. Solves(seen)
  <2>1. \E f : Solves(f)
    BY SeenExists
  <2> HIDE DEF Solves
  <2> QED
    BY <2>1
<1> HIDE DEF seen
<1>3. \A k \in 0 .. Len(records) :
        seen[k] = SeenFrom(slices, env, records, seen, k)
  BY <1>2
<1>4. bad = {}
  <2> SUFFICES ASSUME bad # {} PROVE FALSE
    OBVIOUS
  <2>1. PICK k \in bad : \A j \in bad : ~(j < k)
    <3>1. bad \in SUBSET Nat
      OBVIOUS
    <3> HIDE DEF bad
    <3> QED
      BY <3>1, FirstOf
  <2>2. k \in 0 .. Len(records) /\ ~Good(k)
    BY <2>1
  <2>3. CASE k = 0
    <3>1. seen[k] = <<>>
      BY <1>3, <2>2, <2>3 DEF SeenFrom
    <3> QED
      BY <2>2, <2>3, <3>1, FoldOfNone
  <2>4. CASE k # 0
    <3>1. /\ k - 1 \in 0 .. Len(records) /\ k - 1 < k /\ k - 1 \in Nat
          /\ (k - 1) + 1 = k
      BY <2>2, <2>4
    <3>2. Good(k - 1)
      BY <2>1, <3>1
    <3> DEFINE old == Upto(k - 1)
    <3>3. /\ IsSeq(old.seen) /\ old.seed = env /\ old.seen = seen[k - 1]
          /\ IsFold(old, slices, env, records, k - 1)
      BY <3>2
    <3> HIDE DEF old
    <3>4. CASE ArmsAt(slices, records[k]) = {}
      <4>1. seen[k] = seen[k - 1]
        BY <1>3, <2>2, <2>4, <3>4 DEF SeenFrom
      <4>2. \A p \in k - 1 .. k - 1 : p = k - 1
        BY <3>1
      <4>3. \A p \in k - 1 .. k - 1 : ArmsAt(slices, records[p + 1]) = {}
        BY <3>1, <3>4, <4>2
      <4>4. IsFold(old, slices, env, records, k)
        <5>1. k \in Nat /\ k - 1 \in Nat /\ k - 1 <= k
          BY <3>1
        <5> QED
          BY ONLY <3>3, <4>3, <5>1, FoldSkips
      <4>5. Upto(k) = old
        BY <4>1 DEF old
      <4> QED
        BY <2>2, <3>3, <4>1, <4>4, <4>5
    <3>5. CASE ArmsAt(slices, records[k]) # {}
      <4> DEFINE entry == Entry(slices, k - 1, records[(k - 1) + 1], env)
                 next == [seed |-> old.seed, seen |-> Append(old.seen, entry)]
      <4>1. IsSeq(next.seen) /\ IsFold(next, slices, env, records, (k - 1) + 1)
        <5> HIDE DEF Upto
        <5> QED
          BY <3>1, <3>3, <3>5, FoldSteps
      <4>2. seen[k] = Append(seen[k - 1], entry)
        BY <1>3, <2>2, <2>4, <3>1, <3>5 DEF SeenFrom
      <4>3. Upto(k) = next
        BY <3>3, <4>2
      <4> QED
        BY <2>2, <3>1, <4>1, <4>3
    <3> QED
      BY <3>4, <3>5
  <2> QED
    BY <2>3, <2>4
<1>5. Good(Len(records))
  BY <1>4
<1> QED
  BY <1>1, <1>5

\* Records are folded in one way only: two folds of the same records have the
\* same entries.
LEMMA OneFold ==
  ASSUME NEW one, NEW other, NEW slices, NEW env, NEW records, NEW n \in Nat,
         IsSeq(one.seen), IsSeq(other.seen),
         IsFold(one, slices, env, records, n),
         IsFold(other, slices, env, records, n)
  PROVE  one.seen = other.seen
PROOF
<1> DEFINE a == one.seen
           b == other.seen
           Is(p) == Entry(slices, p, records[p + 1], env)
           Takes(p) == p \in 0 .. n - 1 /\ ArmsAt(slices, records[p + 1]) # {}
           apart == {i \in DOMAIN a \cap DOMAIN b : a[i] # b[i]}
<1>1. /\ Len(a) \in Nat /\ DOMAIN a = 1 .. Len(a)
      /\ Len(b) \in Nat /\ DOMAIN b = 1 .. Len(b)
      /\ a \in Seq({a[i] : i \in DOMAIN a})
      /\ b \in Seq({b[i] : i \in DOMAIN b})
  BY DEF IsSeq
<1>2. /\ \A i \in DOMAIN a : Takes(a[i].at) /\ a[i] = Is(a[i].at)
      /\ \A i, j \in DOMAIN a : i < j => a[i].at < a[j].at
      /\ \A p : Takes(p) => \E i \in DOMAIN a : a[i].at = p
  BY DEF IsFold
<1>3. /\ \A i \in DOMAIN b : Takes(b[i].at) /\ b[i] = Is(b[i].at)
      /\ \A i, j \in DOMAIN b : i < j => b[i].at < b[j].at
      /\ \A p : Takes(p) => \E i \in DOMAIN b : b[i].at = p
  BY DEF IsFold
<1>4. /\ \A i \in DOMAIN a : a[i].at \in Nat
      /\ \A i \in DOMAIN b : b[i].at \in Nat
  BY <1>2, <1>3
<1> HIDE DEF a, b, Is, Takes
<1>5. apart = {}
  <2> SUFFICES ASSUME apart # {} PROVE FALSE
    OBVIOUS
  <2>1. PICK i \in apart : \A j \in apart : ~(j < i)
    <3>1. apart \in SUBSET Nat
      BY <1>1
    <3> HIDE DEF apart
    <3> QED
      BY <3>1, FirstOf
  <2>2. i \in DOMAIN a /\ i \in DOMAIN b /\ a[i] # b[i]
    BY <2>1
  <2>3. a[i].at # b[i].at
    BY <1>2, <1>3, <2>2
  <2>4. CASE a[i].at < b[i].at
    <3>1. PICK j \in DOMAIN b : b[j].at = a[i].at
      BY <1>2, <1>3, <2>2
    <3>2. j < i
      <4>1. i \in Nat /\ j \in Nat
        BY <1>1, <2>2, <3>1
      <4>2. a[i].at \in Nat /\ b[i].at \in Nat /\ b[j].at \in Nat
        BY <1>4, <2>2, <3>1
      <4>3. i # j
        BY <2>4, <3>1, <4>2
      <4>4. ~(i < j)
        <5>1. i < j => b[i].at < b[j].at
          BY <1>3, <2>2, <3>1
        <5> QED
          BY <2>4, <3>1, <4>2, <5>1
      <4> QED
        BY <4>1, <4>3, <4>4
    <3>3. j \in DOMAIN a
      BY <1>1, <2>2, <3>1, <3>2
    <3>4. a[j] = b[j]
      BY <2>1, <3>1, <3>2, <3>3
    <3> QED
      BY <1>2, <1>4, <2>2, <3>1, <3>2, <3>3, <3>4
  <2>5. CASE b[i].at < a[i].at
    <3>1. PICK j \in DOMAIN a : a[j].at = b[i].at
      BY <1>2, <1>3, <2>2
    <3>2. j < i
      <4>1. i \in Nat /\ j \in Nat
        BY <1>1, <2>2, <3>1
      <4>2. b[i].at \in Nat /\ a[i].at \in Nat /\ a[j].at \in Nat
        BY <1>4, <2>2, <3>1
      <4>3. i # j
        BY <2>5, <3>1, <4>2
      <4>4. ~(i < j)
        <5>1. i < j => a[i].at < a[j].at
          BY <1>2, <2>2, <3>1
        <5> QED
          BY <2>5, <3>1, <4>2, <5>1
      <4> QED
        BY <4>1, <4>3, <4>4
    <3>3. j \in DOMAIN b
      BY <1>1, <2>2, <3>1, <3>2
    <3>4. a[j] = b[j]
      BY <2>1, <3>1, <3>2, <3>3
    <3> QED
      BY <1>3, <1>4, <2>2, <3>1, <3>2, <3>3, <3>4
  <2> QED
    BY <1>4, <2>2, <2>3, <2>4, <2>5
<1>6. ~(Len(b) < Len(a))
  <2> SUFFICES ASSUME Len(b) < Len(a) PROVE FALSE
    OBVIOUS
  <2>1. Len(b) + 1 \in DOMAIN a
    BY <1>1
  <2>2. PICK j \in DOMAIN b : b[j].at = a[Len(b) + 1].at
    BY <1>2, <1>3, <2>1
  <2>3. j \in DOMAIN a /\ j < Len(b) + 1
    BY <1>1, <2>2
  <2>4. a[j] = b[j]
    BY <1>5, <2>2, <2>3
  <2> QED
    BY <1>2, <1>4, <2>1, <2>2, <2>3, <2>4
<1>7. ~(Len(a) < Len(b))
  <2> SUFFICES ASSUME Len(a) < Len(b) PROVE FALSE
    OBVIOUS
  <2>1. Len(a) + 1 \in DOMAIN b
    BY <1>1
  <2>2. PICK j \in DOMAIN a : a[j].at = b[Len(a) + 1].at
    BY <1>2, <1>3, <2>1
  <2>3. j \in DOMAIN b /\ j < Len(a) + 1
    BY <1>1, <2>2
  <2>4. a[j] = b[j]
    BY <1>5, <2>2, <2>3
  <2> QED
    BY <1>3, <1>4, <2>1, <2>2, <2>3, <2>4
<1>8. DOMAIN a = DOMAIN b
  <2>1. Len(a) \in Nat /\ Len(b) \in Nat
    BY <1>1
  <2>2. Len(a) = Len(b)
    BY ONLY <1>6, <1>7, <2>1
  <2> QED
    BY <1>1, <2>2
<1>9. \A i \in DOMAIN a : a[i] = b[i]
  BY <1>5, <1>8
<1>10. a = b
  BY <1>1, <1>8, <1>9
<1> QED
  BY <1>10 DEF a, b

\* So a run's fold is the serial fold.
LEMMA FoldIsFoldOf ==
  ASSUME NEW fold, NEW slices, NEW env, NEW records, Len(records) \in Nat,
         fold = [seed |-> fold.seed, seen |-> fold.seen],
         IsSeq(fold.seen),
         IsFold(fold, slices, env, records, Len(records))
  PROVE  fold = Serial!FoldOf(slices, env, records)
PROOF
<1> DEFINE serial == Serial!FoldOf(slices, env, records)
<1>1. /\ serial = [seed |-> env, seen |-> serial.seen]
      /\ IsSeq(serial.seen)
      /\ IsFold(serial, slices, env, records, Len(records))
  BY FoldOfIsFold
<1> HIDE DEF serial
<1>2. fold.seen = serial.seen
  BY <1>1, OneFold
<1>3. fold.seed = env
  BY DEF IsFold
<1> QED
  BY <1>1, <1>2, <1>3 DEF serial

-----------------------------------------------------------------------------
(* Decisions, stage by stage.                                              *)

\* What s stages come to, given what the ones before came to.
DecidedFrom(q, now, records, before, s) ==
  IF s = 0 THEN Serial!Undecided(q, now)
  ELSE IF before[s - 1].flow # "next" THEN before[s - 1]
  ELSE Serial!DecideStage(q, s, before[s - 1], records)

\* A decision's equation, one stage at a time.
LEMMA DecideToIs ==
  ASSUME NEW q, NEW now, NEW records, NEW n \in Nat
  PROVE  /\ Serial!DecideTo(q, now, records, 0) = Serial!Undecided(q, now)
         /\ LET d == Serial!DecideTo(q, now, records, n) IN
              Serial!DecideTo(q, now, records, n + 1) =
                IF d.flow # "next" THEN d
                ELSE Serial!DecideStage(q, n + 1, d, records)
PROOF
<1> DEFINE Each(f, k) == DecidedFrom(q, now, records, f, k)
           Solves(f, m) == f = [k \in 0 .. m |-> Each(f, k)]
           D(m) == CHOOSE f : Solves(f, m)
           unsolved == {m \in Nat : ~ \E f : Solves(f, m)}
           apart == {s \in 0 .. n : D(n)[s] # D(n + 1)[s]}
<1>1. \A f, g, k : k = 0 \/ f[k - 1] = g[k - 1] => Each(f, k) = Each(g, k)
  BY DEF DecidedFrom
<1>2. \A m \in Nat : Serial!DecideTo(q, now, records, m) = D(m)[m]
  BY DEF Serial!DecideTo, DecidedFrom
<1> HIDE DEF Each, D
<1>3. unsolved = {}
  <2> SUFFICES ASSUME unsolved # {} PROVE FALSE
    OBVIOUS
  <2>1. PICK m \in unsolved : \A j \in unsolved : ~(j < m)
    <3>1. unsolved \in SUBSET Nat
      OBVIOUS
    <3> HIDE DEF unsolved
    <3> QED
      BY <3>1, FirstOf
  <2>2. CASE m = 0
    <3> DEFINE f == [k \in 0 .. 0 |-> Each(<<>>, 0)]
    <3>1. Solves(f, 0)
      <4>1. \A k \in 0 .. 0 : k = 0
        OBVIOUS
      <4>2. \A k \in 0 .. 0 : Each(f, k) = Each(<<>>, 0)
        <5> HIDE DEF f
        <5> QED
          BY <1>1, <4>1
      <4> QED
        BY <4>2
    <3> HIDE DEF Solves, f
    <3> QED
      BY <2>1, <2>2, <3>1
  <2>3. CASE m # 0
    <3>1. m \in Nat /\ m - 1 \in Nat /\ m - 1 < m
      BY <2>1, <2>3
    <3>2. PICK f : Solves(f, m - 1)
      BY <2>1, <3>1
    <3> DEFINE g == [k \in 0 .. m |-> IF k = m THEN Each(f, m) ELSE f[k]]
    <3>3. \A k \in 0 .. m : k # m => k \in 0 .. m - 1
      BY <3>1
    <3>4. \A k \in 0 .. m - 1 : g[k] = f[k] /\ f[k] = Each(f, k)
      BY <3>1, <3>2
    <3>5. \A k \in 0 .. m : k # 0 => k - 1 \in 0 .. m - 1
      BY <3>1
    <3>6. \A k \in 0 .. m : Each(g, k) = Each(f, k)
      <4> HIDE DEF g
      <4> QED
        BY <1>1, <3>4, <3>5
    <3>7. \A k \in 0 .. m : g[k] = Each(g, k)
      BY <3>3, <3>4, <3>6
    <3>8. Solves(g, m)
      BY <3>7
    <3> HIDE DEF Solves, g
    <3> QED
      BY <2>1, <3>8
  <2> QED
    BY <2>2, <2>3
<1>4. \A m \in Nat : Solves(D(m), m)
  <2> TAKE m \in Nat
  <2>1. \E f : Solves(f, m)
    BY <1>3
  <2> HIDE DEF Solves
  <2> QED
    BY <2>1 DEF D
<1>5. /\ \A s \in 0 .. n : D(n)[s] = Each(D(n), s)
      /\ \A s \in 0 .. n + 1 : D(n + 1)[s] = Each(D(n + 1), s)
  BY <1>4
<1>6. D(0)[0] = Each(D(0), 0)
  BY <1>4
<1>7. apart = {}
  <2> SUFFICES ASSUME apart # {} PROVE FALSE
    OBVIOUS
  <2>1. PICK s \in apart : \A t \in apart : ~(t < s)
    <3>1. apart \in SUBSET Nat
      OBVIOUS
    <3> HIDE DEF apart
    <3> QED
      BY <3>1, FirstOf
  <2>2. s \in 0 .. n /\ s \in 0 .. n + 1 /\ D(n)[s] # D(n + 1)[s]
    BY <2>1
  <2>3. s # 0 => s - 1 \in 0 .. n /\ s - 1 < s
    BY <2>2
  <2>4. s = 0 \/ D(n)[s - 1] = D(n + 1)[s - 1]
    BY <2>1, <2>3
  <2> QED
    BY <1>1, <1>5, <2>2, <2>4
<1>8. D(n)[n] = D(n + 1)[n]
  BY <1>7
<1>9. D(n + 1)[n + 1] = Each(D(n + 1), n + 1) /\ (n + 1) - 1 = n /\ n + 1 # 0
  BY <1>5
<1>10. Serial!DecideTo(q, now, records, 0) = Serial!Undecided(q, now)
  BY <1>2, <1>6 DEF DecidedFrom, Each
<1>11. /\ Serial!DecideTo(q, now, records, n) = D(n + 1)[n]
       /\ Serial!DecideTo(q, now, records, n + 1) = D(n + 1)[n + 1]
  BY <1>2, <1>8
<1> QED
  BY <1>9, <1>10, <1>11 DEF DecidedFrom, Each

\* A decision that is made is the decision.
LEMMA DecisionStays ==
  ASSUME NEW q, NEW now, NEW records, NEW s \in Nat, NEW t \in Nat, s <= t,
         Serial!DecideTo(q, now, records, s).flow # "next"
  PROVE  Serial!DecideTo(q, now, records, t)
           = Serial!DecideTo(q, now, records, s)
PROOF
<1> DEFINE D(m) == Serial!DecideTo(q, now, records, m)
           moved == {m \in Nat : s <= m /\ D(m) # D(s)}
<1>1. \A m \in Nat : D(m).flow # "next" => D(m + 1) = D(m)
  BY DecideToIs
<1> HIDE DEF D
<1>2. moved = {}
  <2> SUFFICES ASSUME moved # {} PROVE FALSE
    OBVIOUS
  <2>1. PICK m \in moved : \A j \in moved : ~(j < m)
    <3>1. moved \in SUBSET Nat
      OBVIOUS
    <3> HIDE DEF moved
    <3> QED
      BY <3>1, FirstOf
  <2>2. m # s /\ m - 1 \in Nat /\ s <= m - 1 /\ m - 1 < m /\ (m - 1) + 1 = m
    BY <2>1
  <2>3. D(m - 1) = D(s)
    BY <2>1, <2>2
  <2>4. D(s).flow # "next"
    BY DEF D
  <2> QED
    BY <1>1, <2>1, <2>2, <2>3, <2>4
<1> QED
  BY <1>2 DEF D

-----------------------------------------------------------------------------
(* The invariant: an attempt follows the serial decision.                  *)

\* The slices an attempt has read, the gated ones too.
SlicesRead(r) ==
  UNION {{trail[r][i].slices[k] : k \in DOMAIN trail[r][i].slices} :
           i \in DOMAIN trail[r]}

\* Every fold of the attempt is the fold of `records`.
AgreesWith(r, records) ==
  \A i \in DOMAIN trail[r] :
    IsFold(trail[r][i].fold, trail[r][i].slices, trail[r][i].env, records,
           Len(records))

\* What s stages of r's command come to over `records`, and from there the
\* statements above the stage under way and its slices.
DecidedBy(r, records, s) ==
  Serial!DecideTo(request[r], prepared[r].now, records, s)

Before(r, records) == DecidedBy(r, records, stage[r] - 1)

Above(r, records) == Pre(request[r], stage[r], Before(r, records).frame)

Narrow(r, records) ==
  Slices(request[r], stage[r], Above(r, records).frame)

AtAStage(r, records) ==
  pc[r] = "pre" =>
    /\ Before(r, records).flow = "next"
    /\ Before(r, records).frame = frame[r]
    /\ Before(r, records).emits = emitted[r]
    /\ Before(r, records).slices = SlicesRead(r)

AboveTheFold(r, records) ==
  pc[r] \in {"open", "fold"} =>
    /\ Before(r, records).flow = "next"
    /\ Above(r, records).flow = "next"
    /\ Above(r, records).frame = frame[r]
    /\ Before(r, records).emits \o Above(r, records).emits = emitted[r]
    /\ Before(r, records).slices = SlicesRead(r)

BelowTheFold(r, records) ==
  pc[r] = "post" =>
    /\ Before(r, records).flow = "next"
    /\ Above(r, records).flow = "next"
    /\ Before(r, records).emits \o Above(r, records).emits = emitted[r]
    /\ Reads(request[r], stage[r]) =>
         /\ frame[r] = Bound(Above(r, records).frame,
                             Serial!FoldOf(Narrow(r, records),
                                           Above(r, records).frame, records))
         /\ SlicesRead(r) =
              Before(r, records).slices
                \cup {Narrow(r, records)[i] : i \in DOMAIN Narrow(r, records)}
    /\ ~Reads(request[r], stage[r]) =>
         /\ frame[r] = Above(r, records).frame
         /\ SlicesRead(r) = Before(r, records).slices

Decided(r, records) ==
  pc[r] \in {"settle", "append"} =>
    LET decision == DecidedBy(r, records, Stages(request[r])) IN
      /\ Serial!Verdict(decision) = ret[r]
      /\ decision.emits = emitted[r]
      /\ decision.slices = SlicesRead(r)

Follows(r, records) ==
  /\ AtAStage(r, records)
  /\ AboveTheFold(r, records)
  /\ BelowTheFold(r, records)
  /\ Decided(r, records)

IsTrace(fold) == fold = [seed |-> fold.seed, seen |-> fold.seen]

\* What an attempt starts from and carries has the shape it was given.
Kept(r) ==
  /\ pc[r] # "idle" => prepared[r] = Prepared(request[r], prepared[r].now)
  /\ pc[r] \in {"pre", "open", "fold", "post", "append"} => ret[r] = "ok"
  /\ pc[r] = "fold" => IsTrace(acc[r])
  /\ folded[r].some => IsTrace(folded[r].fold)
  /\ carried[r].some => IsTrace(carried[r].fold)

RunSerial(r) ==
  /\ Kept(r)
  /\ \A records \in Seq(Event) :
       AgreesWith(r, records) => Follows(r, records)

SerialInv == Inv /\ \A r \in Run : RunSerial(r)

\* Another run's step leaves what r holds, the log not being part of it.
LEMMA OtherSerial ==
  ASSUME NEW r \in Run, Same(r), RunSerial(r)
  PROVE  RunSerial(r)'
PROOF
<1> USE DEF Same
<1>1. Kept(r)'
  BY DEF RunSerial, Kept
<1>2. ASSUME NEW records \in Seq(Event), AgreesWith(r, records)'
      PROVE  Follows(r, records)'
  <2>1. Follows(r, records)
    BY <1>2 DEF RunSerial, AgreesWith
  <2>2. /\ Before(r, records)' = Before(r, records)
        /\ Above(r, records)' = Above(r, records)
        /\ Narrow(r, records)' = Narrow(r, records)
        /\ DecidedBy(r, records, Stages(request[r]))'
             = DecidedBy(r, records, Stages(request[r]))
        /\ SlicesRead(r)' = SlicesRead(r)
    BY DEF Before, Above, Narrow, DecidedBy, SlicesRead
  <2>3. AtAStage(r, records)'
    BY <2>1, <2>2 DEF Follows, AtAStage
  <2>4. AboveTheFold(r, records)'
    BY <2>1, <2>2 DEF Follows, AboveTheFold
  <2>5. BelowTheFold(r, records)'
    BY <2>1, <2>2 DEF Follows, BelowTheFold
  <2>6. Decided(r, records)'
    BY <2>1, <2>2 DEF Follows, Decided
  <2> QED
    BY <2>3, <2>4, <2>5, <2>6 DEF Follows
<1> QED
  BY <1>1, <1>2 DEF RunSerial

\* A step of r establishes the invariant if it does so for r.
LEMMA SerialStepOf ==
  ASSUME SerialInv, NEW r \in Run, RunSerial(r)', Inv',
         \A x \in Run \ {r} : Same(x)
  PROVE  SerialInv'
PROOF BY OtherSerial DEF SerialInv

\* Before any stage, nothing is decided.
LEMMA FreshFollows ==
  ASSUME NEW r \in Run, NEW records, NEW q, NEW now
  PROVE  /\ Serial!DecideTo(q, now, records, 1 - 1).flow = "next"
         /\ Serial!DecideTo(q, now, records, 1 - 1).frame = Prepared(q, now)
         /\ Serial!DecideTo(q, now, records, 1 - 1).emits = <<>>
         /\ Serial!DecideTo(q, now, records, 1 - 1).slices = {}
PROOF
<1>1. 0 \in Nat /\ 1 - 1 = 0
  OBVIOUS
<1>2. Serial!DecideTo(q, now, records, 1 - 1) = Serial!Undecided(q, now)
  BY <1>1, DecideToIs
<1> QED
  BY <1>2 DEF Serial!Undecided, Prepared

-----------------------------------------------------------------------------
(* One lemma per action.                                                   *)

\* An attempt that starts has decided nothing, whichever attempt it is.
LEMMA FreshSerial ==
  ASSUME Inv, NEW r \in Run, RunSerial(r), NEW base,
         FreshAttempt(r, base), request' = request,
         prepared'[r] = base, base = Prepared(request[r], base.now),
         pc'[r] \in {"pre", "done"}, carried' = carried
  PROVE  RunSerial(r)'
PROOF
<1> DEFINE now == base.now
<1>1. /\ frame'[r] = base /\ stage'[r] = 1 /\ emitted'[r] = <<>>
      /\ ret'[r] = "ok" /\ folded'[r] = NoCarry /\ trail'[r] = <<>>
  BY DEF Inv, TypeOK, Domains, FreshAttempt
<1>2. Kept(r)'
  BY <1>1 DEF RunSerial, Kept, NoCarry
<1>3. SlicesRead(r)' = {}
  BY <1>1 DEF SlicesRead
<1>4. ASSUME NEW records \in Seq(Event) PROVE Follows(r, records)'
  <2>1. Before(r, records)'
          = Serial!DecideTo(request[r], base.now, records, 1 - 1)
    BY <1>1 DEF Before, DecidedBy
  <2>2. AtAStage(r, records)'
    BY <1>1, <1>3, <2>1, FreshFollows DEF AtAStage
  <2> QED
    BY <2>2 DEF Follows, AboveTheFold, BelowTheFold, Decided
<1> QED
  BY <1>2, <1>4 DEF RunSerial

\* Begin and Retry start an attempt from the request and the pinned clock.
LEMMA BeginSerial ==
  ASSUME Inv, NEW r \in Run, RunSerial(r), Begin(r) \/ Retry(r)
  PROVE  RunSerial(r)'
PROOF
<1>1. pc \in [Run -> {"idle", "pre", "open", "fold", "post", "settle",
                      "append", "done"}] /\ DOMAIN prepared = Run
  BY DEF Inv, TypeOK, Domains
<1>2. CASE Begin(r)
  <2> DEFINE base == Prepared(request[r], Len(log))
  <2>1. base = Prepared(request[r], base.now)
    BY DEF Prepared
  <2>2. /\ FreshAttempt(r, base) /\ request' = request
        /\ prepared'[r] = base /\ carried' = carried
        /\ pc'[r] \in {"pre", "done"}
    BY <1>1, <1>2 DEF Begin, End
  <2> HIDE DEF base
  <2> QED
    BY <2>1, <2>2, FreshSerial
<1>3. CASE Retry(r)
  <2> DEFINE base == prepared[r]
  <2>1. base = Prepared(request[r], base.now)
    BY <1>3 DEF RunSerial, Kept, Retry
  <2>2. /\ FreshAttempt(r, base) /\ request' = request
        /\ prepared'[r] = base /\ carried' = carried
        /\ pc'[r] \in {"pre", "done"}
    BY <1>1, <1>3 DEF Retry, Restart
  <2> HIDE DEF base
  <2> QED
    BY <2>1, <2>2, FreshSerial
<1> QED
  BY <1>2, <1>3

\* What is decided at s stages, and returned, is the decision.
LEMMA Returned ==
  ASSUME NEW q \in Request, NEW now, NEW records,
         NEW s \in 1 .. Stages(q),
         Serial!DecideTo(q, now, records, s).flow # "next" \/ s = Stages(q)
  PROVE  Serial!DecideTo(q, now, records, Stages(q))
           = Serial!DecideTo(q, now, records, s)
PROOF
<1>1. s \in Nat /\ Stages(q) \in Nat /\ s <= Stages(q)
  BY StagesAssumption
<1> QED
  BY <1>1, DecisionStays

\* One stage on from a decision that is under way.
LEMMA DecideOn ==
  ASSUME NEW q \in Request, NEW now, NEW records,
         NEW s \in 1 .. Stages(q), NEW d,
         d = Serial!DecideTo(q, now, records, s - 1), d.flow = "next"
  PROVE  Serial!DecideTo(q, now, records, s)
           = Serial!DecideStage(q, s, d, records)
PROOF
<1>1. s - 1 \in Nat /\ (s - 1) + 1 = s
  BY StagesAssumption
<1> QED
  BY <1>1, DecideToIs

\* RunPre: the statements above run in the frame the decision is in.
LEMMA RunPreSerial ==
  ASSUME Inv, NEW r \in Run, RunSerial(r), RunPre(r)
  PROVE  RunSerial(r)'
PROOF
<1> DEFINE q == request[r]
           s == stage[r]
           now == prepared[r].now
           half == Pre(q, s, frame[r])
           onward == IF Reads(q, s) THEN "open" ELSE "post"
<1>1. /\ q \in Request /\ s \in 1 .. Stages(q)
      /\ DOMAIN frame = Run /\ DOMAIN emitted = Run /\ DOMAIN pc = Run
      /\ DOMAIN ret = Run /\ DOMAIN stage = Run
  BY DEF Inv, TypeOK, Domains
<1>2. /\ pc[r] = "pre" /\ RunHalf(r, half, onward, s)
      /\ request' = request /\ prepared' = prepared /\ acc' = acc
      /\ folded' = folded /\ carried' = carried /\ trail' = trail
  BY DEF RunPre
<1>3. /\ pc'[r] = onward /\ half.flow = "next"
         /\ frame'[r] = half.frame /\ emitted'[r] = emitted[r] \o half.emits
         /\ stage'[r] = s /\ ret'[r] = ret[r]
      \/ /\ pc'[r] = "settle" /\ half.flow \in {"ok", "invalid", "reject"}
         /\ emitted'[r] = emitted[r] \o half.emits
         /\ stage'[r] = s /\ ret'[r] = half.flow
      \/ pc'[r] = "done"
  BY <1>1, <1>2 DEF RunHalf, End
<1>4. Kept(r)'
  BY <1>2, <1>3 DEF RunSerial, Kept
<1>5. SlicesRead(r)' = SlicesRead(r)
  BY <1>2 DEF SlicesRead
<1>6. ASSUME NEW records \in Seq(Event), AgreesWith(r, records)'
      PROVE  Follows(r, records)'
  <2> DEFINE d == Before(r, records)
  <2>1. AgreesWith(r, records)
    BY <1>2, <1>6 DEF AgreesWith
  <2>2. /\ d.flow = "next" /\ d.frame = frame[r] /\ d.emits = emitted[r]
        /\ d.slices = SlicesRead(r)
    BY <1>2, <2>1 DEF RunSerial, Follows, AtAStage
  <2>3. d = Serial!DecideTo(q, now, records, s - 1)
    BY DEF Before, DecidedBy
  <2>4. CASE /\ pc'[r] = onward /\ half.flow = "next"
             /\ frame'[r] = half.frame
             /\ emitted'[r] = emitted[r] \o half.emits
             /\ stage'[r] = s
    <3>1. Before(r, records)' = d
      BY <1>2, <2>3, <2>4 DEF Before, DecidedBy
    <3>2. Above(r, records)' = half
      BY <1>2, <2>2, <2>4, <3>1 DEF Above
    <3>3. AboveTheFold(r, records)'
      BY <1>5, <2>2, <2>4, <3>1, <3>2 DEF AboveTheFold
    <3>4. BelowTheFold(r, records)'
      BY <1>2, <1>5, <2>2, <2>4, <3>1, <3>2 DEF BelowTheFold
    <3> QED
      BY <2>4, <3>3, <3>4 DEF Follows, AtAStage, Decided
  <2>5. CASE /\ pc'[r] = "settle" /\ half.flow \in {"ok", "invalid", "reject"}
             /\ emitted'[r] = emitted[r] \o half.emits
             /\ ret'[r] = half.flow
    <3> DEFINE next == Serial!DecideStage(q, s, d, records)
    <3>1. /\ next.flow = half.flow
          /\ next.emits = d.emits \o half.emits
          /\ next.slices = d.slices
      <4>1. /\ half = Pre(q, s, d.frame) /\ half.flow # "next"
            /\ next = Serial!DecideStage(q, s, d, records)
        BY <2>2, <2>5
      <4> HIDE DEF half, d, next, q, s
      <4> QED
        BY <4>1 DEF Serial!DecideStage
    <3> HIDE DEF next, d, half
    <3>2. next = Serial!DecideTo(q, now, records, s)
      BY <1>1, <2>2, <2>3, DecideOn DEF next
    <3>3. next = Serial!DecideTo(q, now, records, Stages(q))
      BY <1>1, <2>5, <3>1, <3>2, Returned
    <3>4. DecidedBy(r, records, Stages(request[r]))' = next
      BY <1>2, <3>3 DEF DecidedBy
    <3>5. Serial!Verdict(next) = half.flow
      BY <2>5, <3>1 DEF Serial!Verdict
    <3>6. Decided(r, records)'
      BY <1>5, <2>2, <2>5, <3>1, <3>4, <3>5 DEF Decided
    <3> QED
      BY <2>5, <3>6 DEF Follows, AtAStage, AboveTheFold, BelowTheFold
  <2>6. CASE pc'[r] = "done"
    BY <2>6 DEF Follows, AtAStage, AboveTheFold, BelowTheFold, Decided
  <2> HIDE DEF half, d
  <2> QED
    BY <1>3, <2>4, <2>5, <2>6
<1> QED
  BY <1>4, <1>6 DEF RunSerial

\* Settle and the steps that end a run: a settled attempt is the decision.
LEMMA SettleSerial ==
  ASSUME Inv, NEW r \in Run, RunSerial(r), Settle(r)
  PROVE  RunSerial(r)'
PROOF
<1>1. /\ DOMAIN pc = Run /\ DOMAIN carried = Run
      /\ ret[r] \in {"ok", "invalid", "reject"}
  BY DEF Inv, TypeOK, Domains
<1>2. /\ pc[r] = "settle"
      /\ request' = request /\ prepared' = prepared /\ acc' = acc
      /\ folded' = folded /\ trail' = trail /\ emitted' = emitted
      /\ ret' = ret /\ carried'[r] = Carries(r)
      /\ \/ pc'[r] = "append" /\ ret[r] = "ok"
         \/ pc'[r] = "done"
  BY <1>1 DEF Settle, End
<1>3. Kept(r)'
  BY <1>2 DEF RunSerial, Kept, Carries
<1>4. ASSUME NEW records \in Seq(Event), AgreesWith(r, records)'
      PROVE  Follows(r, records)'
  <2>1. Decided(r, records)
    BY <1>2, <1>4 DEF RunSerial, AgreesWith, Follows
  <2>2. /\ SlicesRead(r)' = SlicesRead(r)
        /\ DecidedBy(r, records, Stages(request[r]))'
             = DecidedBy(r, records, Stages(request[r]))
    BY <1>2 DEF SlicesRead, DecidedBy
  <2>3. Decided(r, records)'
    BY <1>2, <2>1, <2>2 DEF Decided
  <2> QED
    BY <1>2, <2>3 DEF Follows, AtAStage, AboveTheFold, BelowTheFold
<1> QED
  BY <1>3, <1>4 DEF RunSerial

\* A run that has ended decides no more.
LEMMA EndSerial ==
  ASSUME Inv, NEW r \in Run, RunSerial(r),
         AppendEvents(r) \/ GiveUp(r) \/ Fails(r)
  PROVE  RunSerial(r)'
PROOF
<1>1. /\ DOMAIN pc = Run /\ pc[r] # "idle"
      /\ request' = request /\ prepared' = prepared
      /\ folded' = folded /\ carried' = carried /\ pc'[r] = "done"
  BY DEF Inv, TypeOK, AppendEvents, GiveUp, Fails, End
<1>2. Kept(r)'
  BY <1>1 DEF RunSerial, Kept
<1>3. \A records : Follows(r, records)'
  BY <1>1 DEF Follows, AtAStage, AboveTheFold, BelowTheFold, Decided
<1> QED
  BY <1>2, <1>3 DEF RunSerial

\* OpenFold and Visit leave the decision where the statements above left it.
LEMMA FoldingSerial ==
  ASSUME Inv, NEW r \in Run, RunSerial(r), OpenFold(r) \/ Visit(r)
  PROVE  RunSerial(r)'
PROOF
<1>1. /\ DOMAIN pc = Run /\ DOMAIN acc = Run
  BY DEF Inv, TypeOK, Domains
<1>2. /\ pc[r] \in {"open", "fold"} /\ pc'[r] = "fold"
      /\ request' = request /\ prepared' = prepared /\ frame' = frame
      /\ stage' = stage /\ folded' = folded /\ carried' = carried
      /\ trail' = trail /\ emitted' = emitted /\ ret' = ret
  BY <1>1 DEF OpenFold, Visit
<1>3. IsTrace(acc'[r])
  <2>1. CASE OpenFold(r)
    <3>1. acc'[r] = ResumeFrom(r, Slices(request[r], stage[r], frame[r]))
      BY <1>1, <2>1 DEF OpenFold
    <3>2. carried[r].some => IsTrace(carried[r].fold)
      BY DEF RunSerial, Kept
    <3> QED
      BY <3>1, <3>2 DEF ResumeFrom, Resumes, IsTrace
  <2>2. CASE Visit(r)
    <3>1. pc[r] = "fold" => IsTrace(acc[r])
      BY DEF RunSerial, Kept
    <3> QED
      BY <1>1, <2>2, <3>1 DEF Visit, IsTrace
  <2> QED
    BY <2>1, <2>2
<1>4. Kept(r)'
  BY <1>2, <1>3 DEF RunSerial, Kept, IsTrace
<1>5. ASSUME NEW records \in Seq(Event), AgreesWith(r, records)'
      PROVE  Follows(r, records)'
  <2>1. AboveTheFold(r, records)
    BY <1>2, <1>5 DEF RunSerial, AgreesWith, Follows
  <2>2. Before(r, records)' = Before(r, records)
    BY <1>2 DEF Before, DecidedBy
  <2>3. /\ SlicesRead(r)' = SlicesRead(r)
        /\ Above(r, records)' = Above(r, records)
    BY <1>2, <2>2 DEF SlicesRead, Above
  <2>4. AboveTheFold(r, records)'
    BY <1>2, <2>1, <2>2, <2>3 DEF AboveTheFold
  <2> QED
    BY <1>2, <2>4 DEF Follows, AtAStage, BelowTheFold, Decided
<1> QED
  BY <1>4, <1>5 DEF RunSerial

\* CloseFold: the fold that is bound is the serial one.
LEMMA CloseFoldSerial ==
  ASSUME Inv, NEW r \in Run, RunSerial(r), CloseFold(r)
  PROVE  RunSerial(r)'
PROOF
<1> DEFINE q == request[r]
           s == stage[r]
           new == [slices |-> resolved[r], env |-> frame[r], fold |-> acc[r]]
<1>1. /\ DOMAIN pc = Run /\ DOMAIN frame = Run /\ DOMAIN trail = Run
      /\ DOMAIN folded = Run
  BY DEF Inv, TypeOK, Domains
<1>2. /\ pc[r] = "fold" /\ pc'[r] = "post"
      /\ request' = request /\ prepared' = prepared
      /\ stage' = stage /\ carried' = carried
      /\ emitted' = emitted /\ ret' = ret
      /\ folded'[r] = Leaving(r)
      /\ frame'[r] = Bound(frame[r], acc[r])
      /\ trail'[r] = Append(trail[r], new)
  BY <1>1 DEF CloseFold
<1>3. /\ IsSeq(trail[r]) /\ Reads(q, s) /\ IsSeq(acc[r].seen)
      /\ resolved[r] = Slices(q, s, frame[r])
  BY <1>2 DEF Inv, RunInv, Phases, Folding, Trailing
<1>4. /\ IsTrace(acc[r])
      /\ folded[r].some => IsTrace(folded[r].fold)
  BY <1>2 DEF RunSerial, Kept
<1>5. Kept(r)'
  BY <1>2, <1>4 DEF RunSerial, Kept, Leaving, IsTrace
<1>6. /\ Len(trail[r]) \in Nat /\ DOMAIN trail[r] = 1 .. Len(trail[r])
      /\ DOMAIN trail'[r] = 1 .. Len(trail[r]) + 1
      /\ \A i \in DOMAIN trail[r] : trail'[r][i] = trail[r][i]
      /\ trail'[r][Len(trail[r]) + 1] = new
  BY <1>2, <1>3, AppendAny
<1>7. /\ \A i \in DOMAIN trail[r] : i \in DOMAIN trail'[r]
      /\ Len(trail[r]) + 1 \in DOMAIN trail'[r]
      /\ \A i \in DOMAIN trail'[r] :
           i \in DOMAIN trail[r] \/ i = Len(trail[r]) + 1
  BY <1>6
<1>8. SlicesRead(r)' = SlicesRead(r)
                         \cup {resolved[r][k] : k \in DOMAIN resolved[r]}
  <2> DEFINE Of(x) == {x.slices[k] : k \in DOMAIN x.slices}
             was == trail[r]
             is  == trail'[r]
             last == Len(trail[r]) + 1
  <2>1. Of(is[last]) = {resolved[r][k] : k \in DOMAIN resolved[r]}
    BY <1>6
  <2>2. \A i \in DOMAIN was : Of(is[i]) = Of(was[i])
    BY <1>6
  <2>3. /\ SlicesRead(r) = UNION {Of(was[i]) : i \in DOMAIN was}
        /\ SlicesRead(r)' = UNION {Of(is[i]) : i \in DOMAIN is}
    BY DEF SlicesRead
  <2>4. /\ \A i \in DOMAIN was : i \in DOMAIN is
        /\ last \in DOMAIN is
        /\ \A i \in DOMAIN is : i \in DOMAIN was \/ i = last
    BY <1>7
  <2> HIDE DEF Of, was, is, last
  <2> QED
    BY ONLY <2>1, <2>2, <2>3, <2>4
<1>9. ASSUME NEW records \in Seq(Event), AgreesWith(r, records)'
      PROVE  Follows(r, records)'
  <2>1. \A i \in DOMAIN trail'[r] :
          IsFold(trail'[r][i].fold, trail'[r][i].slices, trail'[r][i].env,
                 records, Len(records))
    BY <1>9 DEF AgreesWith
  <2>2. AgreesWith(r, records)
    <3>1. \A i \in DOMAIN trail[r] :
            IsFold(trail'[r][i].fold, trail'[r][i].slices, trail'[r][i].env,
                   records, Len(records))
      BY <1>7, <2>1
    <3> QED
      BY <1>6, <3>1 DEF AgreesWith
  <2>3. IsFold(acc[r], resolved[r], frame[r], records, Len(records))
    <3>1. IsFold(new.fold, new.slices, new.env, records, Len(records))
      BY <1>6, <1>7, <2>1
    <3> QED
      BY <3>1
  <2>4. acc[r] = Serial!FoldOf(resolved[r], frame[r], records)
    BY <1>3, <1>4, <2>3, FoldIsFoldOf DEF IsTrace
  <2>5. AboveTheFold(r, records)
    BY <1>2, <2>2 DEF RunSerial, Follows
  <2>6. Before(r, records)' = Before(r, records)
    BY <1>2 DEF Before, DecidedBy
  <2>7. Above(r, records)' = Above(r, records)
    BY <1>2, <2>6 DEF Above
  <2>8. Above(r, records).frame = frame[r]
    BY <1>2, <2>5 DEF AboveTheFold
  <2>9. Narrow(r, records)' = resolved[r]
    BY <1>2, <1>3, <2>7, <2>8 DEF Narrow
  <2>10. BelowTheFold(r, records)'
    BY <1>2, <1>3, <1>8, <2>4, <2>5, <2>6, <2>7, <2>8, <2>9
    DEF BelowTheFold, AboveTheFold
  <2> QED
    BY <1>2, <2>10 DEF Follows, AtAStage, AboveTheFold, Decided
<1> QED
  BY <1>5, <1>9 DEF RunSerial

\* RunPost: the statements below run in the frame the decision has, and the
\* stage is over.
LEMMA RunPostSerial ==
  ASSUME Inv, NEW r \in Run, RunSerial(r), RunPost(r)
  PROVE  RunSerial(r)'
PROOF
<1> DEFINE q == request[r]
           s == stage[r]
           now == prepared[r].now
           half == Post(q, s, frame[r])
<1>1. /\ q \in Request /\ s \in 1 .. Stages(q) /\ Stages(q) \in Nat
      /\ DOMAIN frame = Run /\ DOMAIN emitted = Run /\ DOMAIN pc = Run
      /\ DOMAIN ret = Run /\ DOMAIN stage = Run
  BY StagesAssumption DEF Inv, TypeOK, Domains
<1>2. /\ pc[r] = "post"
      /\ RunHalf(r, half, IF LastStage(r) THEN "settle" ELSE "pre",
                 IF LastStage(r) THEN s ELSE s + 1)
      /\ request' = request /\ prepared' = prepared /\ acc' = acc
      /\ folded' = folded /\ carried' = carried /\ trail' = trail
  BY DEF RunPost
<1>3. ret[r] = "ok"
  BY <1>2 DEF RunSerial, Kept
<1>4. \/ /\ pc'[r] = "pre" /\ stage'[r] = s + 1 /\ ret'[r] = "ok"
         /\ half.flow = "next" /\ frame'[r] = half.frame
         /\ emitted'[r] = emitted[r] \o half.emits
      \/ /\ pc'[r] = "settle" /\ s = Stages(q) /\ ret'[r] = "ok"
         /\ half.flow = "next"
         /\ emitted'[r] = emitted[r] \o half.emits
      \/ /\ pc'[r] = "settle" /\ half.flow \in {"ok", "invalid", "reject"}
         /\ emitted'[r] = emitted[r] \o half.emits
         /\ ret'[r] = half.flow
      \/ pc'[r] = "done"
  BY <1>1, <1>2, <1>3 DEF RunHalf, End, LastStage
<1>5. Kept(r)'
  BY <1>2, <1>4 DEF RunSerial, Kept
<1>6. SlicesRead(r)' = SlicesRead(r)
  BY <1>2 DEF SlicesRead
<1>7. ASSUME NEW records \in Seq(Event), AgreesWith(r, records)'
      PROVE  Follows(r, records)'
  <2> DEFINE d == Before(r, records)
             pre == Above(r, records)
             next == Serial!DecideStage(q, s, d, records)
  <2>1. AgreesWith(r, records)
    BY <1>2, <1>7 DEF AgreesWith
  <2>2. BelowTheFold(r, records)
    BY <1>2, <2>1 DEF RunSerial, Follows
  <2>3. /\ d = Serial!DecideTo(q, now, records, s - 1)
        /\ pre = Pre(q, s, d.frame)
        /\ Narrow(r, records) = Slices(q, s, pre.frame)
    BY DEF Before, Above, Narrow, DecidedBy
  <2>4. /\ d.flow = "next" /\ pre.flow = "next"
        /\ d.emits \o pre.emits = emitted[r]
    BY <1>2, <2>2 DEF BelowTheFold
  <2>5. Reads(q, s) =>
          /\ frame[r] = [pre.frame EXCEPT !.folds = Append(@,
                Serial!FoldOf(Slices(q, s, pre.frame), pre.frame, records))]
          /\ SlicesRead(r) = d.slices
               \cup {Slices(q, s, pre.frame)[i] :
                       i \in DOMAIN Slices(q, s, pre.frame)}
    BY <1>2, <2>2, <2>3 DEF BelowTheFold, Bound
  <2>6. ~Reads(q, s) => frame[r] = pre.frame /\ SlicesRead(r) = d.slices
    BY <1>2, <2>2 DEF BelowTheFold
  <2>7. /\ next.flow = half.flow
        /\ next.emits = emitted[r] \o half.emits
        /\ next.slices = SlicesRead(r)
        /\ next.frame = half.frame
    <3>1. half = Post(q, s, frame[r])
      OBVIOUS
    <3> DEFINE narrow == Slices(q, s, pre.frame)
               bound  == IF Reads(q, s)
                         THEN [pre.frame EXCEPT !.folds = Append(@,
                                 Serial!FoldOf(narrow, pre.frame, records))]
                         ELSE pre.frame
               gained == IF Reads(q, s)
                         THEN d.slices \cup {narrow[i] : i \in DOMAIN narrow}
                         ELSE d.slices
    <3>3. frame[r] = bound /\ SlicesRead(r) = gained
      BY <2>5, <2>6
    <3>4. next = [flow |-> Post(q, s, bound).flow,
                  emits |-> d.emits \o pre.emits \o Post(q, s, bound).emits,
                  slices |-> gained, frame |-> Post(q, s, bound).frame]
      <4> HIDE DEF d, pre, half
      <4> QED
        BY <2>3, <2>4, Zenon DEF Serial!DecideStage
    <3> HIDE DEF d, pre, next, half, bound, gained
    <3> QED
      BY <2>4, <3>1, <3>3, <3>4
  <2> HIDE DEF d, pre, half
  <2>8. next = Serial!DecideTo(q, now, records, s)
    <3>1. q \in Request /\ s \in 1 .. Stages(q)
      BY <1>1
    <3>2. d = Serial!DecideTo(q, now, records, s - 1) /\ d.flow = "next"
      BY <2>3, <2>4
    <3> HIDE DEF q, s, now
    <3>3. Serial!DecideTo(q, now, records, s)
            = Serial!DecideStage(q, s, d, records)
      BY ONLY <3>1, <3>2, DecideOn
    <3> QED
      BY <3>3
  <2> HIDE DEF next
  <2>9. CASE /\ pc'[r] = "pre" /\ stage'[r] = s + 1
             /\ half.flow = "next" /\ frame'[r] = half.frame
             /\ emitted'[r] = emitted[r] \o half.emits
    <3>1. stage'[r] - 1 = s
      BY <1>1, <2>9
    <3>2. Before(r, records)' = next
      BY <1>2, <2>8, <3>1 DEF Before, DecidedBy
    <3>3. AtAStage(r, records)'
      BY <1>6, <2>7, <2>9, <3>2 DEF AtAStage
    <3> QED
      BY <2>9, <3>3 DEF Follows, AboveTheFold, BelowTheFold, Decided
  <2>10. CASE /\ pc'[r] = "settle"
              /\ \/ s = Stages(q) /\ ret'[r] = "ok" /\ half.flow = "next"
                 \/ /\ half.flow \in {"ok", "invalid", "reject"}
                    /\ ret'[r] = half.flow
              /\ emitted'[r] = emitted[r] \o half.emits
    <3>1. next = Serial!DecideTo(q, now, records, Stages(q))
      BY <1>1, <2>7, <2>8, <2>10, Returned
    <3>2. DecidedBy(r, records, Stages(request[r]))' = next
      BY <1>2, <3>1 DEF DecidedBy
    <3>3. Serial!Verdict(next) = ret'[r]
      BY <2>7, <2>10 DEF Serial!Verdict
    <3>4. Decided(r, records)'
      BY <1>6, <2>7, <2>10, <3>2, <3>3 DEF Decided
    <3> QED
      BY <2>10, <3>4 DEF Follows, AtAStage, AboveTheFold, BelowTheFold
  <2>11. CASE pc'[r] = "done"
    BY <2>11 DEF Follows, AtAStage, AboveTheFold, BelowTheFold, Decided
  <2> QED
    BY <1>4, <2>9, <2>10, <2>11 DEF half
<1> QED
  BY <1>5, <1>7 DEF RunSerial

-----------------------------------------------------------------------------
(* The invariant holds of every reachable state.                           *)

\* A step of r moves what is r's, and the log.
LEMMA OthersStay ==
  ASSUME Inv, NEW r \in Run, Begin(r) \/ Step(r) \/ Fails(r),
         NEW x \in Run \ {r}
  PROVE  Same(x)
PROOF
<1>0. /\ DOMAIN pc = Run /\ DOMAIN request = Run /\ DOMAIN outcome = Run
      /\ DOMAIN attempt = Run /\ DOMAIN prepared = Run /\ DOMAIN frame = Run
      /\ DOMAIN stage = Run /\ DOMAIN after = Run /\ DOMAIN resolved = Run
      /\ DOMAIN cursor = Run /\ DOMAIN acc = Run /\ DOMAIN read = Run
      /\ DOMAIN emitted = Run /\ DOMAIN ret = Run /\ DOMAIN leading = Run
      /\ DOMAIN folded = Run /\ DOMAIN carried = Run
      /\ DOMAIN condition = Run /\ DOMAIN trail = Run
  BY DEF Inv, TypeOK, Domains
<1> USE DEF Same, FreshAttempt, End
<1>1. CASE Begin(r)
  BY <1>0, <1>1 DEF Begin
<1>2. CASE RunPre(r)
  BY <1>0, <1>2 DEF RunPre, RunHalf
<1>3. CASE OpenFold(r)
  BY <1>0, <1>3 DEF OpenFold
<1>4. CASE Visit(r)
  BY <1>0, <1>4 DEF Visit
<1>5. CASE CloseFold(r)
  BY <1>0, <1>5 DEF CloseFold
<1>6. CASE RunPost(r)
  BY <1>0, <1>6 DEF RunPost, RunHalf
<1>7. CASE Settle(r)
  BY <1>0, <1>7 DEF Settle
<1>8. CASE AppendEvents(r)
  BY <1>0, <1>8 DEF AppendEvents
<1>9. CASE Retry(r)
  BY <1>0, <1>9 DEF Retry
<1>10. CASE GiveUp(r) \/ Fails(r)
  BY <1>0, <1>10 DEF GiveUp, Fails
<1> QED
  BY <1>1, <1>2, <1>3, <1>4, <1>5, <1>6, <1>7, <1>8, <1>9, <1>10 DEF Step

\* No run has begun: nothing is claimed of any.
LEMMA SerialInit == Init => SerialInv
PROOF
<1> SUFFICES ASSUME Init PROVE SerialInv
  OBVIOUS
<1>1. ASSUME NEW r \in Run PROVE RunSerial(r)
  <2>1. pc[r] = "idle" /\ ~folded[r].some /\ ~carried[r].some
    BY DEF Init, NoCarry
  <2>2. Kept(r)
    BY <2>1 DEF Kept
  <2>3. \A records : Follows(r, records)
    BY <2>1 DEF Follows, AtAStage, AboveTheFold, BelowTheFold, Decided
  <2> QED
    BY <2>2, <2>3 DEF RunSerial
<1> QED
  BY <1>1, InitInv DEF SerialInv

\* Every step keeps the invariant: a step of r for r by the lemma of its
\* action, and for the other runs because nothing of theirs moves.
LEMMA SerialNext == SerialInv /\ [Next]_vars => SerialInv'
PROOF
<1> SUFFICES ASSUME SerialInv, [Next]_vars PROVE SerialInv'
  OBVIOUS
<1>1. Inv /\ Inv' /\ \A r \in Run : RunSerial(r)
  BY NextInv DEF SerialInv
<1>2. ASSUME NEW r \in Run, Begin(r) \/ Step(r) \/ Fails(r)
      PROVE  SerialInv'
  <2>1. \A x \in Run \ {r} : Same(x)
    BY <1>1, <1>2, OthersStay
  <2>2. CASE Begin(r) \/ Retry(r)
    BY <1>1, <2>1, <2>2, BeginSerial, SerialStepOf
  <2>3. CASE RunPre(r)
    BY <1>1, <2>1, <2>3, RunPreSerial, SerialStepOf
  <2>4. CASE OpenFold(r) \/ Visit(r)
    BY <1>1, <2>1, <2>4, FoldingSerial, SerialStepOf
  <2>5. CASE CloseFold(r)
    BY <1>1, <2>1, <2>5, CloseFoldSerial, SerialStepOf
  <2>6. CASE RunPost(r)
    BY <1>1, <2>1, <2>6, RunPostSerial, SerialStepOf
  <2>7. CASE Settle(r)
    BY <1>1, <2>1, <2>7, SettleSerial, SerialStepOf
  <2>8. CASE AppendEvents(r) \/ GiveUp(r) \/ Fails(r)
    BY <1>1, <2>1, <2>8, EndSerial, SerialStepOf
  <2> QED
    BY <1>2, <2>2, <2>3, <2>4, <2>5, <2>6, <2>7, <2>8 DEF Step
<1>3. CASE External \/ UNCHANGED vars
  <2>1. \A r \in Run : Same(r)
    BY <1>3 DEF External, vars, Same
  <2> QED
    BY <1>1, <2>1, OtherSerial DEF SerialInv
<1> QED
  BY <1>2, <1>3 DEF Next

\* The invariant holds of every reachable state.
LEMMA SerialInvariance == Spec => []SerialInv
PROOF BY SerialInit, SerialNext, PTL DEF Spec

-----------------------------------------------------------------------------
(* Every step is a step of SerialCommands, or none.                        *)

\* A fold of a log's first records is the fold of the log they make.
LEMMA FoldOfPrefix ==
  ASSUME NEW fold, NEW slices, NEW env, NEW records \in Seq(Event),
         NEW n \in 0 .. Len(records), IsFold(fold, slices, env, records, n)
  PROVE  IsFold(fold, slices, env, SubSeq(records, 1, n),
                Len(SubSeq(records, 1, n)))
PROOF
<1> DEFINE prefix == SubSeq(records, 1, n)
<1>1. /\ Len(prefix) = n
      /\ \A p \in 0 .. n - 1 : prefix[p + 1] = records[p + 1]
  OBVIOUS
<1> HIDE DEF prefix
<1>2. IsFold(fold, slices, env, prefix, n)
  BY <1>1 DEF IsFold
<1> QED
  BY <1>1, <1>2 DEF prefix

\* A moment whose records the attempt's folds are folds of is one at which
\* the serial decision is what the attempt has come to.
LEMMA DecidedAt ==
  ASSUME SerialInv, NEW r \in Run, pc[r] \in {"settle", "append"},
         NEW n \in 0 .. Len(log),
         \A i \in DOMAIN trail[r] :
           IsFold(trail[r][i].fold, trail[r][i].slices, trail[r][i].env, log,
                  n)
  PROVE  /\ Serial!Verdict(Serial!At(r, n)) = ret[r]
         /\ Serial!At(r, n).emits = emitted[r]
         /\ Serial!At(r, n).slices = SlicesRead(r)
PROOF
<1> DEFINE prefix == SubSeq(log, 1, n)
<1>1. log \in Seq(Event)
  BY DEF SerialInv, Inv, TypeOK
<1>2. prefix \in Seq(Event)
  BY <1>1
<1>3. AgreesWith(r, prefix)
  BY <1>1, FoldOfPrefix DEF AgreesWith
<1>4. Decided(r, prefix)
  BY <1>2, <1>3 DEF SerialInv, RunSerial, Follows
<1>5. AskedAt[r] = prepared[r].now
  BY DEF AskedAt
<1>6. Serial!At(r, n) = DecidedBy(r, prefix, Stages(request[r]))
  BY <1>5 DEF Serial!At, Serial!Decide, DecidedBy
<1> QED
  BY <1>4, <1>6 DEF Decided

\* The head an attempt read to, the log's own if it read nothing, is such a
\* moment, and one of the call.
LEMMA HeadIsAMoment ==
  ASSUME SerialInv, NEW r \in Run, pc[r] \in {"settle", "append"}, NEW n,
         n = IF after[r] = Unpinned THEN Len(log) ELSE after[r]
  PROVE  /\ n \in 0 .. Len(log) /\ n \in Serial!Moments(r)
         /\ \A i \in DOMAIN trail[r] :
              IsFold(trail[r][i].fold, trail[r][i].slices, trail[r][i].env,
                     log, n)
PROOF
<1>1. RunInv(r) /\ TypeOK
  BY DEF SerialInv, Inv
<1>2. /\ Len(log) \in Nat /\ after[r] \in {Unpinned} \cup 0 .. Len(log)
      /\ attempt[r] \in Nat /\ prepared[r].now \in 0 .. Len(log)
  BY <1>1 DEF TypeOK, RunInv, Phases
<1>3. after[r] # Unpinned => prepared[r].now <= after[r]
  <2>1. after[r] # Unpinned => attempt[r] <= after[r] - prepared[r].now
    BY <1>1 DEF RunInv, Paid
  <2> QED
    BY <1>2, <2>1
<1>4. AskedAt[r] = prepared[r].now
  BY DEF AskedAt
<1>5. n \in 0 .. Len(log) /\ n \in Serial!Moments(r)
  BY <1>2, <1>3, <1>4 DEF Serial!Moments
<1>6. after[r] = Unpinned => trail[r] = <<>>
  BY <1>1 DEF RunInv, LeadingStage
<1>7. \A i \in DOMAIN trail[r] :
        IsFold(trail[r][i].fold, trail[r][i].slices, trail[r][i].env, log, n)
  <2>1. CASE after[r] = Unpinned
    BY <1>6, <2>1
  <2>2. CASE after[r] # Unpinned
    BY <1>1, <2>2 DEF RunInv, Trailing
  <2> QED
    BY <2>1, <2>2
<1> QED
  BY <1>5, <1>7

\* A run that has begun and not ended waits for its answer.
LEMMA BegunWaits ==
  ASSUME Inv, NEW r \in Run, pc[r] \notin {"idle", "done"}
  PROVE  Serial!Waiting(r)
PROOF
<1>1. prepared[r].now \in 0 .. Len(log) /\ outcome[r] = "none"
  BY DEF Inv, RunInv, Phases
<1>2. AskedAt[r] = prepared[r].now
  BY DEF AskedAt
<1>3. AskedAt[r] # -1
  BY <1>1, <1>2
<1> QED
  BY <1>1, <1>3 DEF Serial!Waiting, Serial!NotBegun

\* A step past the beginning of a run moves no request's moment.
LEMMA AskedStays ==
  ASSUME Inv, NEW r \in Run, pc[r] # "idle", pc'[r] # "idle",
         \A x \in Run \ {r} : pc'[x] = pc[x], prepared' = prepared
  PROVE  AskedAt' = AskedAt
PROOF BY DEF AskedAt

\* Begin is the request's arrival.
LEMMA BeginAsks ==
  ASSUME Inv, NEW r \in Run, Begin(r)
  PROVE  Serial!Ask(r)
PROOF
<1>1. /\ DOMAIN pc = Run /\ DOMAIN prepared = Run
      /\ outcome \in [Run -> Outcomes] /\ outcome[r] = "none"
  BY DEF Inv, TypeOK, Domains, RunInv, Phases, Begin
<1>2. AskedAt[r] = -1
  BY DEF AskedAt, Begin
<1>3. AskedAt' = [AskedAt EXCEPT ![r] = Len(log)]
  <2>1. pc'[r] # "idle" /\ prepared'[r].now = Len(log)
    BY <1>1 DEF Begin, End, Prepared
  <2>2. \A x \in Run \ {r} : pc'[x] = pc[x] /\ prepared'[x] = prepared[x]
    BY <1>1 DEF Begin, End
  <2> QED
    BY <2>1, <2>2 DEF AskedAt
<1>4. outcome' = [outcome EXCEPT ![r] =
                    IF Accepts(request[r]) THEN "none" ELSE "error"]
  <2>1. CASE Accepts(request[r])
    BY <1>1, <2>1 DEF Begin
  <2>2. CASE ~Accepts(request[r])
    BY <2>2 DEF Begin, End
  <2> QED
    BY <2>1, <2>2
<1> QED
  BY <1>2, <1>3, <1>4 DEF Serial!Ask, Serial!NotBegun, Begin

\* A refusal decided at the head its attempt read to.
LEMMA SettleRefuses ==
  ASSUME SerialInv, NEW r \in Run, Settle(r), ret[r] # "ok"
  PROVE  Serial!Refuse(r)
PROOF
<1> DEFINE n == IF after[r] = Unpinned THEN Len(log) ELSE after[r]
<1>1. Inv /\ pc[r] = "settle" /\ DOMAIN pc = Run
      /\ ret[r] \in {"invalid", "reject"}
  BY DEF SerialInv, Settle, Inv, TypeOK
<1>2. /\ n \in 0 .. Len(log) /\ n \in Serial!Moments(r)
      /\ \A i \in DOMAIN trail[r] :
           IsFold(trail[r][i].fold, trail[r][i].slices, trail[r][i].env, log,
                  n)
  BY <1>1, HeadIsAMoment
<1> HIDE DEF n
<1>3. Serial!Verdict(Serial!At(r, n)) = ret[r]
  BY <1>1, <1>2, DecidedAt
<1>4. Serial!Waiting(r)
  BY <1>1, BegunWaits
<1>5. /\ outcome' = [outcome EXCEPT ![r] = ret[r]]
      /\ UNCHANGED log /\ UNCHANGED request /\ prepared' = prepared
      /\ pc' = [pc EXCEPT ![r] = "done"]
  BY DEF Settle, End
<1>6. AskedAt' = AskedAt
  BY <1>1, <1>5, AskedStays
<1>7. Serial!Answer(r, Serial!Verdict(Serial!At(r, n)))
  BY <1>3, <1>5, <1>6 DEF Serial!Answer
<1> QED
  BY <1>1, <1>2, <1>3, <1>4, <1>5, <1>7 DEF Serial!Refuse

\* An append that is not beaten is one decision over the whole log.
LEMMA AppendCommits ==
  ASSUME SerialInv, NEW r \in Run, AppendEvents(r)
  PROVE  Serial!Commit(r)
PROOF
<1>1. Inv /\ pc[r] = "append" /\ DOMAIN pc = Run /\ log \in Seq(Event)
      /\ ret[r] = "ok"
  BY DEF SerialInv, AppendEvents, Inv, TypeOK, RunSerial, Kept
<1>2. \A i \in DOMAIN trail[r] :
        IsFold(trail[r][i].fold, trail[r][i].slices, trail[r][i].env, log,
               Len(log))
  BY <1>1, UnbeatenFoldsAll DEF AppendEvents
<1>3. Len(log) \in 0 .. Len(log)
  BY <1>1
<1>4. /\ Serial!Verdict(Serial!At(r, Len(log))) = "ok"
      /\ Serial!At(r, Len(log)).emits = emitted[r]
  BY <1>1, <1>2, <1>3, DecidedAt
<1>5. Serial!Waiting(r)
  BY <1>1, BegunWaits
<1>6. /\ outcome' = [outcome EXCEPT ![r] = "ok"]
      /\ log' = log \o emitted[r] /\ UNCHANGED request
      /\ prepared' = prepared /\ pc' = [pc EXCEPT ![r] = "done"]
  BY DEF AppendEvents, End
<1>7. AskedAt' = AskedAt
  BY <1>1, <1>6, AskedStays
<1> QED
  BY <1>4, <1>5, <1>6, <1>7 DEF Serial!Commit, Serial!Answer

\* A conflict was lost to a record in a slice the decision read.
LEMMA GiveUpIsBeaten ==
  ASSUME SerialInv, NEW r \in Run, GiveUp(r)
  PROVE  Serial!Beaten(r)
PROOF
<1> DEFINE n == IF after[r] = Unpinned THEN Len(log) ELSE after[r]
<1>1. Inv /\ pc[r] = "append" /\ DOMAIN pc = Run /\ log \in Seq(Event)
      /\ Conflicts(condition[r], log)
  BY DEF SerialInv, GiveUp, Inv, TypeOK
<1>2. /\ n \in 0 .. Len(log) /\ n \in Serial!Moments(r)
      /\ \A i \in DOMAIN trail[r] :
           IsFold(trail[r][i].fold, trail[r][i].slices, trail[r][i].env, log,
                  n)
  BY <1>1, HeadIsAMoment
<1>3. PICK i \in DOMAIN trail[r], p \in after[r] .. Len(log) - 1 :
        ArmsAt(trail[r][i].slices, log[p + 1]) # {}
  BY <1>1, BeatenBy
<1>4. n = after[r]
  <2>1. trail[r] # <<>>
    BY <1>3
  <2> QED
    BY <1>1, <2>1 DEF Inv, RunInv, LeadingStage
<1> HIDE DEF n
<1>5. p + 1 \in n + 1 .. Len(log)
  BY <1>1, <1>2, <1>3, <1>4
<1>6. PICK k \in DOMAIN trail[r][i].slices :
        /\ trail[r][i].slices[k].live
        /\ Holds(trail[r][i].slices[k].predicate, log[p + 1])
  BY <1>3 DEF ArmsAt
<1>7. trail[r][i].slices[k] \in Serial!At(r, n).slices
  <2>1. Serial!At(r, n).slices = SlicesRead(r)
    BY <1>1, <1>2, DecidedAt
  <2>2. trail[r][i].slices[k] \in SlicesRead(r)
    BY <1>3, <1>6 DEF SlicesRead
  <2> QED
    BY <2>1, <2>2
<1>8. Serial!Holds(trail[r][i].slices[k].predicate, log[p + 1])
  BY <1>6 DEF Holds, Serial!Holds
<1>9. \E m \in Serial!Moments(r) : \E j \in m + 1 .. Len(log) :
        \E slice \in Serial!At(r, m).slices :
          slice.live /\ Serial!Holds(slice.predicate, log[j])
  BY <1>2, <1>5, <1>6, <1>7, <1>8
<1>10. Serial!Waiting(r)
  BY <1>1, BegunWaits
<1>11. /\ outcome' = [outcome EXCEPT ![r] = "conflict"]
       /\ UNCHANGED log /\ UNCHANGED request
       /\ prepared' = prepared /\ pc' = [pc EXCEPT ![r] = "done"]
  BY DEF GiveUp, End
<1>12. AskedAt' = AskedAt
  BY <1>1, <1>11, AskedStays
<1> QED
  BY <1>9, <1>10, <1>11, <1>12 DEF Serial!Beaten, Serial!Answer

\* A run that raises or whose call fails lands nothing.
LEMMA EndFails ==
  ASSUME Inv, NEW r \in Run, pc[r] \notin {"idle", "done"},
         End(r, "error"), UNCHANGED <<log, request, prepared>>
  PROVE  Serial!Fail(r)
PROOF
<1>1. DOMAIN pc = Run
  BY DEF Inv, TypeOK
<1>2. AskedAt' = AskedAt
  BY <1>1, AskedStays DEF End
<1>3. Serial!Waiting(r)
  BY BegunWaits
<1> QED
  BY <1>2, <1>3 DEF Serial!Fail, Serial!Answer, End

\* A half of a stage goes on unseen, or fails the run.
LEMMA HalfMaps ==
  ASSUME Inv, NEW r \in Run, pc[r] \in {"pre", "post"},
         NEW half, NEW onward \in {"open", "post", "settle", "pre"}, NEW next,
         RunHalf(r, half, onward, next), UNCHANGED <<log, request, prepared>>
  PROVE  Serial!Fail(r) \/ UNCHANGED Serial!vars
PROOF
<1>1. DOMAIN pc = Run
  BY DEF Inv, TypeOK
<1>2. CASE End(r, "error")
  BY <1>2, EndFails
<1>3. CASE /\ \/ pc' = [pc EXCEPT ![r] = onward]
              \/ pc' = [pc EXCEPT ![r] = "settle"]
           /\ UNCHANGED outcome
  <2>1. AskedAt' = AskedAt
    BY <1>1, <1>3, AskedStays
  <2> QED
    BY <1>3, <2>1 DEF Serial!vars
<1> QED
  BY <1>2, <1>3 DEF RunHalf

\* What an attempt does for itself is hidden.
LEMMA InsideIsHidden ==
  ASSUME Inv, NEW r \in Run,
         \/ OpenFold(r) \/ Visit(r) \/ CloseFold(r) \/ Retry(r)
         \/ Settle(r) /\ ret[r] = "ok"
  PROVE  UNCHANGED Serial!vars
PROOF
<1>1. DOMAIN pc = Run
  BY DEF Inv, TypeOK
<1>2. /\ UNCHANGED <<log, request, prepared, outcome>>
      /\ pc[r] # "idle" /\ pc'[r] # "idle"
      /\ \A x \in Run \ {r} : pc'[x] = pc[x]
  BY <1>1 DEF OpenFold, Visit, CloseFold, Retry, Settle
<1>3. AskedAt' = AskedAt
  BY <1>2, AskedStays
<1> QED
  BY <1>2, <1>3 DEF Serial!vars

\* Every step of the runs is one of the commands', or hidden.
LEMMA StepMaps == SerialInv /\ [Next]_vars => [Serial!Next]_(Serial!vars)
PROOF
<1> SUFFICES ASSUME SerialInv, [Next]_vars
             PROVE  Serial!Next \/ UNCHANGED Serial!vars
  OBVIOUS
<1> USE DEF Serial!Next
<1>1. Inv
  BY DEF SerialInv
<1>2. ASSUME NEW r \in Run, Begin(r) PROVE Serial!Next
  BY <1>1, <1>2, BeginAsks
<1>3. ASSUME NEW r \in Run, RunPre(r) \/ RunPost(r)
      PROVE  Serial!Next \/ UNCHANGED Serial!vars
  <2>1. Serial!Fail(r) \/ UNCHANGED Serial!vars
    <3>1. CASE RunPre(r)
      <4> DEFINE onward == IF Reads(request[r], stage[r]) THEN "open"
                                                          ELSE "post"
      <4>1. /\ pc[r] \in {"pre", "post"}
            /\ onward \in {"open", "post", "settle", "pre"}
            /\ RunHalf(r, Pre(request[r], stage[r], frame[r]), onward,
                       stage[r])
            /\ UNCHANGED <<log, request, prepared>>
        BY <3>1 DEF RunPre
      <4> HIDE DEF onward
      <4> QED
        BY <1>1, <4>1, HalfMaps
    <3>2. CASE RunPost(r)
      <4> DEFINE onward == IF LastStage(r) THEN "settle" ELSE "pre"
                 next   == IF LastStage(r) THEN stage[r] ELSE stage[r] + 1
      <4>1. /\ pc[r] \in {"pre", "post"}
            /\ onward \in {"open", "post", "settle", "pre"}
            /\ RunHalf(r, Post(request[r], stage[r], frame[r]), onward, next)
            /\ UNCHANGED <<log, request, prepared>>
        BY <3>2 DEF RunPost
      <4> HIDE DEF onward, next
      <4> QED
        BY <1>1, <4>1, HalfMaps
    <3> QED
      BY <1>3, <3>1, <3>2
  <2> QED
    BY <2>1
<1>4. ASSUME NEW r \in Run, OpenFold(r) \/ Visit(r) \/ CloseFold(r) \/ Retry(r)
      PROVE  UNCHANGED Serial!vars
  BY <1>1, <1>4, InsideIsHidden
<1>5. ASSUME NEW r \in Run, Settle(r)
      PROVE  Serial!Next \/ UNCHANGED Serial!vars
  BY <1>1, <1>5, InsideIsHidden, SettleRefuses
<1>6. ASSUME NEW r \in Run, AppendEvents(r) PROVE Serial!Next
  BY <1>6, AppendCommits
<1>7. ASSUME NEW r \in Run, GiveUp(r) PROVE Serial!Next
  BY <1>7, GiveUpIsBeaten
<1>8. ASSUME NEW r \in Run, Fails(r) PROVE Serial!Next
  <2>1. /\ pc[r] \notin {"idle", "done"}
        /\ End(r, "error") /\ UNCHANGED <<log, request, prepared>>
    BY <1>8 DEF Fails
  <2> QED
    BY <1>1, <2>1, EndFails
<1>9. CASE External
  <2>1. AskedAt' = AskedAt /\ UNCHANGED <<request, outcome>>
    BY <1>9 DEF External, AskedAt
  <2> QED
    BY <1>9, <2>1 DEF External, Serial!External
<1>10. CASE UNCHANGED vars
  <2>1. AskedAt' = AskedAt
    BY <1>10 DEF vars, AskedAt
  <2> QED
    BY <1>10, <2>1 DEF vars, Serial!vars
<1> QED
  BY <1>2, <1>3, <1>4, <1>5, <1>6, <1>7, <1>8, <1>9, <1>10 DEF Next, Step

\* Whatever the program, the number of runs and the writers they race,
\* `execute` and `run_retrying` are commands deciding one at a time: a commit
\* is one decision over the whole log it appends to, a refusal one over the
\* log as it was at some moment of the call, and a conflict was lost to a
\* record that decision would have read.
THEOREM RunsAreSerial == Spec => SerializesCommands
PROOF
<1>1. Init => Serial!Init
  BY DEF Init, Serial!Init, AskedAt, Serial!NotBegun
<1>2. SerialInv /\ [Next]_vars => [Serial!Next]_(Serial!vars)
  BY StepMaps
<1> QED
  BY <1>1, <1>2, SerialInvariance, PTL
  DEF Spec, SerializesCommands, Serial!Spec
=============================================================================
