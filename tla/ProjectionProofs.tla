-------------------------- MODULE ProjectionProofs --------------------------
(***************************************************************************)
(* The theorems of Projection, for every projector, every log and every    *)
(* order of records, erasures and rebuilds.  Rows are compared as they are *)
(* to be seen now, with what is gone taken out; a projection that takes    *)
(* nothing out is what both the rows and a rebuild are compared with.      *)
(***************************************************************************)
EXTENDS Projection, WellFoundedInduction, NaturalsInduction, TLAPS

-----------------------------------------------------------------------------
(* The invariant.                                                          *)

\* What no one can read now.
Now == Unreadable(Told(records))

\* A column, with what is gone taken out.
Seen(value, gone) == IF Sealed(value) /\ value \in gone THEN None ELSE value

\* Two stores in which the same is to be seen.
Alike(one, other, gone) ==
  /\ DOMAIN one = DOMAIN other
  /\ \A cell \in DOMAIN one :
       /\ DOMAIN one[cell] = DOMAIN other[cell]
       /\ \A c \in DOMAIN one[cell] :
            Seen(one[cell][c], gone) = Seen(other[cell][c], gone)

\* The columns the parser holds to plain values.
Types(p, plain) ==
  \A event \in Landing :
    /\ Body(p, event) \in Seq(Range(Body(p, event)))
    /\ \A stmt \in Range(Body(p, event)) : StatementFits(stmt, event, plain)

AllColumns == UNION {ColumnsOf(entity) : entity \in DOMAIN Entities}

Plain(p) == CHOOSE plain \in SUBSET AllColumns : Types(p, plain)

\* Rows of their entities, which hold content under keys of the log, and none
\* in a plain column.
RowStands(row, entity, keys, plain) ==
  /\ entity \in DOMAIN Entities
  /\ row = [c \in DOMAIN Entities[entity].columns |-> row[c]]
  /\ \A c \in DOMAIN row : Sealed(row[c]) =>
       row[c] \in keys /\ <<entity, c>> \notin plain

Stands(store, keys, plain) ==
  /\ store = [cell \in DOMAIN store |-> store[cell]]
  /\ \A cell \in DOMAIN store : RowStands(store[cell], cell[1], keys, plain)

\* The projection of the records the rows were given, with nothing taken out.
Whole == Project(projector, records, given, {})

RowsInv ==
  /\ projector \in Projectors
  /\ records \in Seq(Landing) /\ given \in 0 .. Len(records)
  /\ Stands(rows, KeysOfLog(records), Plain(projector))
  /\ ~stuck => Alike(rows, Whole.rows, Now)

-----------------------------------------------------------------------------
(* The recursive definitions.                                              *)

\* A set of numbers has a first one.
LEMMA FirstOf ==
  ASSUME NEW S \in SUBSET Nat, S # {}
  PROVE  \E q \in S : \A r \in S : ~(r < q)
PROOF
<1>1. PICK q \in S : \A r \in S : ~(<<r, q>> \in OpToRel(<, Nat))
  BY WFMin, NatLessThanWellFounded
<1> QED
  BY <1>1 DEF OpToRel

\* One step up, given the steps before.
UpFrom(above, key, before, k) ==
  IF k = 0 THEN {key}
  ELSE before[k - 1]
         \cup UNION {above[x] : x \in before[k - 1] \cap DOMAIN above}

\* The equation of a climb has a solution.
LEMMA UpExists ==
  ASSUME NEW above, NEW key, NEW n \in Nat
  PROVE  \E f : f = [k \in 0 .. n |-> UpFrom(above, key, f, k)]
PROOF
<1> DEFINE Each(f, k) == UpFrom(above, key, f, k)
           Solves(f, m) == f = [k \in 0 .. m |-> Each(f, k)]
           unsolved == {m \in Nat : ~ \E f : Solves(f, m)}
<1>1. \A f, g, k : k = 0 \/ f[k - 1] = g[k - 1] => Each(f, k) = Each(g, k)
  BY DEF UpFrom
<1> HIDE DEF Each
<1>2. unsolved = {}
  <2> SUFFICES ASSUME unsolved # {} PROVE FALSE
    OBVIOUS
  <2>1. PICK m \in unsolved : \A j \in unsolved : ~(j < m)
    <3>1. unsolved \in SUBSET Nat
      OBVIOUS
    <3> HIDE DEF unsolved
    <3> QED
      BY <3>1, FirstOf
  <2>2. CASE m = 0
    <3> DEFINE f == [k \in 0 .. 0 |-> Each(<<>>, 0)]
    <3>1. Solves(f, 0)
      <4>1. \A k \in 0 .. 0 : k = 0
        OBVIOUS
      <4>2. \A k \in 0 .. 0 : Each(f, k) = Each(<<>>, 0)
        <5> HIDE DEF f
        <5> QED
          BY <1>1, <4>1
      <4> QED
        BY <4>2
    <3> HIDE DEF Solves, f
    <3> QED
      BY <2>1, <2>2, <3>1
  <2>3. CASE m # 0
    <3>1. m \in Nat /\ m - 1 \in Nat /\ m - 1 < m
      BY <2>1, <2>3
    <3>2. PICK f : Solves(f, m - 1)
      BY <2>1, <3>1
    <3> DEFINE g == [k \in 0 .. m |-> IF k = m THEN Each(f, m) ELSE f[k]]
    <3>3. \A k \in 0 .. m : k # m => k \in 0 .. m - 1
      BY <3>1
    <3>4. \A k \in 0 .. m - 1 : g[k] = f[k] /\ f[k] = Each(f, k)
      BY <3>1, <3>2
    <3>5. \A k \in 0 .. m : k # 0 => k - 1 \in 0 .. m - 1
      BY <3>1
    <3>6. \A k \in 0 .. m : Each(g, k) = Each(f, k)
      <4> HIDE DEF g
      <4> QED
        BY <1>1, <3>4, <3>5
    <3>7. \A k \in 0 .. m : g[k] = Each(g, k)
      BY <3>3, <3>4, <3>6
    <3>8. Solves(g, m)
      BY <3>7
    <3> HIDE DEF Solves, g
    <3> QED
      BY <2>1, <3>8
  <2> QED
    BY <2>2, <2>3
<1> QED
  BY <1>2 DEF Each

\* So a climb is what it is defined to be, step by step.
LEMMA ClimbIs ==
  ASSUME NEW above, NEW key, NEW most \in Nat
  PROVE  \E up : /\ Climb(above, key, most) = up[most]
                 /\ \A k \in 0 .. most : up[k] = UpFrom(above, key, up, k)
PROOF
<1> DEFINE Solves(f) == f = [k \in 0 .. most |-> UpFrom(above, key, f, k)]
           up == CHOOSE f : Solves(f)
<1>1. Climb(above, key, most) = up[most]
  BY DEF Climb, UpFrom
<1>2. Solves(up)
  <2>1. \E f : Solves(f)
    BY UpExists
  <2> HIDE DEF Solves
  <2> QED
    BY <2>1
<1> HIDE DEF up
<1>3. \A k \in 0 .. most : up[k] = UpFrom(above, key, up, k)
  BY <1>2
<1> QED
  BY <1>1, <1>3

\* No climb leaves a set that holds what is above what it holds.
LEMMA ClimbStays ==
  ASSUME NEW above, NEW key, NEW most \in Nat, NEW S, key \in S,
         \A k \in S \cap DOMAIN above : above[k] \subseteq S
  PROVE  Climb(above, key, most) \subseteq S
PROOF
<1>1. PICK up : /\ Climb(above, key, most) = up[most]
                /\ \A k \in 0 .. most : up[k] = UpFrom(above, key, up, k)
  BY ClimbIs
<1> DEFINE out == {k \in 0 .. most : ~(up[k] \subseteq S)}
<1>2. out = {}
  <2> SUFFICES ASSUME out # {} PROVE FALSE
    OBVIOUS
  <2>1. PICK k \in out : \A j \in out : ~(j < k)
    <3>1. out \in SUBSET Nat
      OBVIOUS
    <3> HIDE DEF out
    <3> QED
      BY <3>1, FirstOf
  <2>2. k \in 0 .. most /\ ~(up[k] \subseteq S)
    BY <2>1
  <2>3. k # 0
    BY <1>1, <2>2 DEF UpFrom
  <2>4. k - 1 \in 0 .. most /\ k - 1 < k
    BY <2>2, <2>3
  <2>5. up[k - 1] \subseteq S
    BY <2>1, <2>4
  <2>6. up[k] = up[k - 1]
                  \cup UNION {above[x] : x \in up[k - 1] \cap DOMAIN above}
    BY <1>1, <2>2, <2>3 DEF UpFrom
  <2>7. \A x \in up[k - 1] \cap DOMAIN above : above[x] \subseteq S
    BY <2>5
  <2>8. up[k] \subseteq S
    BY <2>5, <2>6, <2>7
  <2> QED
    BY <2>2, <2>8
<1>3. up[most] \subseteq S
  BY <1>2
<1> QED
  BY <1>1, <1>3

\* A climb comes to everything on a line upwards that is short enough.
LEMMA ClimbReaches ==
  ASSUME NEW above, NEW key, NEW most \in Nat, NEW line,
         Len(line) \in Nat, Len(line) <= most + 1, line[1] = key,
         \A i \in 1 .. Len(line) - 1 :
           line[i] \in DOMAIN above /\ line[i + 1] \in above[line[i]]
  PROVE  \A i \in 1 .. Len(line) : line[i] \in Climb(above, key, most)
PROOF
<1>1. PICK up : /\ Climb(above, key, most) = up[most]
                /\ \A k \in 0 .. most : up[k] = UpFrom(above, key, up, k)
  BY ClimbIs
<1> DEFINE short == {k \in 0 .. most : \E i \in 1 .. Len(line) :
                       i <= k + 1 /\ line[i] \notin up[k]}
<1>2. short = {}
  <2> SUFFICES ASSUME short # {} PROVE FALSE
    OBVIOUS
  <2>1. PICK k \in short : \A j \in short : ~(j < k)
    <3>1. short \in SUBSET Nat
      OBVIOUS
    <3> HIDE DEF short
    <3> QED
      BY <3>1, FirstOf
  <2>2. PICK i \in 1 .. Len(line) : i <= k + 1 /\ line[i] \notin up[k]
    BY <2>1
  <2>3. k \in 0 .. most
    BY <2>1
  <2>4. CASE k = 0
    <3>1. i = 1
      BY <2>2, <2>3, <2>4
    <3> QED
      BY <1>1, <2>2, <2>3, <2>4, <3>1 DEF UpFrom
  <2>5. CASE k # 0
    <3>1. k - 1 \in 0 .. most /\ k - 1 < k
      BY <2>3, <2>5
    <3>2. \A j \in 1 .. Len(line) : j <= (k - 1) + 1 => line[j] \in up[k - 1]
      BY <2>1, <3>1
    <3>3. up[k] = up[k - 1]
                    \cup UNION {above[x] : x \in up[k - 1] \cap DOMAIN above}
      BY <1>1, <2>3, <2>5 DEF UpFrom
    <3>4. ~(i <= k)
      BY <2>2, <2>3, <3>2, <3>3
    <3>5. i = k + 1 /\ k \in 1 .. Len(line) - 1 /\ k \in 1 .. Len(line)
      BY <2>2, <2>3, <2>5, <3>4
    <3>6. line[k] \in up[k - 1] /\ line[k] \in DOMAIN above
          /\ line[k + 1] \in above[line[k]]
      BY <2>3, <3>2, <3>5
    <3>7. line[k + 1] \in up[k]
      BY <3>3, <3>6
    <3> QED
      BY <2>2, <3>5, <3>7
  <2> QED
    BY <2>4, <2>5
<1>3. \A i \in 1 .. Len(line) : i <= most + 1
  OBVIOUS
<1>4. most \in 0 .. most
  OBVIOUS
<1>5. \A i \in 1 .. Len(line) : line[i] \in up[most]
  BY <1>2, <1>3, <1>4
<1> QED
  BY <1>1, <1>5

-----------------------------------------------------------------------------
(* Keys, and the lines they hang in.                                       *)

\* A set of positions has the first that `Min` names.
LEMMA MinIs ==
  ASSUME NEW S \in SUBSET Nat, S # {}
  PROVE  Min(S) \in S /\ \A x \in S : Min(S) <= x
PROOF
<1>1. PICK q \in S : \A r \in S : ~(r < q)
  BY FirstOf
<1>2. \A r \in S : q <= r
  BY <1>1
<1> QED
  BY <1>1, <1>2 DEF Min

\* The line of an event that seals: its key, and an id of each ancestor.
IsLine(event, line, n) ==
  /\ n \in 0 .. MaxWrapDepth
  /\ Len(line) = n + 1
  /\ DOMAIN line = 1 .. n + 1
  /\ line = [i \in 1 .. n + 1 |-> line[i]]
  /\ line[1] = <<event.seals, event.carries[event.seals][1]>>
  /\ KeysOfEvent(event) = {line[1]}
  /\ Chain(event) = [i \in 1 .. n |-> line[i + 1]]

\* Every event that seals has such a line.
LEMMA LineFacts ==
  ASSUME OneOfEach, NEW event \in Landing, event.seals # NoSubject
  PROVE  IsLine(event, KeysMinted(event), Len(Ancestors[event.seals]))
PROOF
<1> DEFINE line == KeysMinted(event)
           above == Ancestors[event.seals]
           chain == Chain(event)
           n == Len(above)
           told == {k \in 0 .. n : \A i \in 1 .. k :
                      Len(event.carries[above[i]]) = 1}
           first == <<event.seals, event.carries[event.seals][1]>>
<1>1. event.seals \in DOMAIN Ancestors
  BY EventsAssumption
<1>2. /\ n \in 0 .. MaxWrapDepth /\ n \in Nat /\ DOMAIN above = 1 .. n
      /\ MaxWrapDepth \in Nat
  BY <1>1, BackstopAssumption
<1>3. \A i \in 1 .. n : Len(event.carries[above[i]]) = 1
  BY <1>2 DEF OneOfEach
<1>4. told = 0 .. n
  BY <1>2, <1>3
<1>5. Max(told) = n
  <2>1. n \in told /\ \A x \in told : n >= x
    BY <1>2, <1>4
  <2>2. \A x \in told : (\A y \in told : x >= y) => x = n
    BY <1>2, <1>4, <2>1
  <2> HIDE DEF told
  <2> QED
    BY <2>1, <2>2 DEF Max
<1>6. chain = [i \in 1 .. n |-> <<above[i], event.carries[above[i]][1]>>]
  BY <1>5 DEF Chain
<1>7. KeysOfEvent(event) = {first}
  BY DEF KeysOfEvent
<1>8. (CHOOSE key \in KeysOfEvent(event) : TRUE) = first
  BY <1>7
<1>9. line = <<first>> \o chain
  BY <1>8 DEF KeysMinted
<1> HIDE DEF first, told, chain, line
<1>10. \E S : chain \in Seq(S) /\ first \in S
  <2> DEFINE S == {chain[i] : i \in 1 .. n} \cup {first}
  <2>1. DOMAIN chain = 1 .. n /\ chain = [i \in 1 .. n |-> chain[i]]
    BY <1>6
  <2>2. chain \in [1 .. n -> S]
    BY <2>1
  <2>3. chain \in Seq(S)
    BY <1>2, <2>2
  <2> QED
    BY <2>3
<1>11. PICK S : chain \in Seq(S) /\ first \in S
  BY <1>10
<1>12. Len(chain) = n /\ DOMAIN chain = 1 .. n
  <2>1. DOMAIN chain = 1 .. n
    BY <1>6
  <2> QED
    BY <1>2, <1>11, <2>1
<1>13. /\ line \in Seq(S) /\ Len(line) = n + 1
       /\ line[1] = first
       /\ \A i \in 1 .. n : line[i + 1] = chain[i]
  BY <1>2, <1>9, <1>11, <1>12
<1>14. DOMAIN line = 1 .. n + 1 /\ line = [i \in 1 .. n + 1 |-> line[i]]
  BY <1>13
<1>15. chain = [i \in 1 .. n |-> line[i + 1]]
  BY <1>6, <1>13
<1> QED
  BY <1>2, <1>7, <1>13, <1>14, <1>15 DEF first, line, chain, IsLine

\* An event that seals nothing names no key.
LEMMA NoLine ==
  ASSUME NEW event, event.seals = NoSubject
  PROVE  KeysOfEvent(event) = {} /\ KeysMinted(event) = <<>>
PROOF BY DEF KeysOfEvent, KeysMinted

\* The first event that seals under a key, which tells what is above it.
FirstSeals(log, key, m) ==
  /\ m \in DOMAIN log /\ log[m] \in Landing
  /\ log[m].seals # NoSubject
  /\ m = Min(Sealing(log, key))
  /\ key = KeysMinted(log[m])[1]
  /\ \A j \in Sealing(log, key) : m <= j
  /\ key \in DOMAIN Told(log)
  /\ Told(log)[key] = Chain(log[m])

\* Every key of a log has one.
LEMMA FirstTells ==
  ASSUME OneOfEach, NEW log \in Seq(Landing), NEW key \in KeysOfLog(log)
  PROVE  FirstSeals(log, key, Min(Sealing(log, key)))
PROOF
<1> DEFINE sealing == Sealing(log, key)
           m == Min(sealing)
           telling == {i \in sealing : Chain(log[i]) # <<>>}
<1>1. DOMAIN log = 1 .. Len(log) /\ Len(log) \in Nat
      /\ \A i \in DOMAIN log : log[i] \in Landing
  OBVIOUS
<1>2. sealing \in SUBSET Nat /\ sealing # {} /\ sealing \subseteq DOMAIN log
  BY <1>1 DEF KeysOfLog, Sealing
<1>3. m \in sealing /\ \A j \in sealing : m <= j
  BY <1>2, MinIs
<1>4. \A j \in sealing :
        /\ log[j] \in Landing /\ log[j].seals # NoSubject
        /\ key = KeysMinted(log[j])[1]
        /\ key = <<log[j].seals, log[j].carries[log[j].seals][1]>>
        /\ DOMAIN Chain(log[j]) = 1 .. Len(Ancestors[log[j].seals])
        /\ Len(Ancestors[log[j].seals]) \in Nat
  <2> TAKE j \in sealing
  <2>1. key \in KeysOfEvent(log[j]) /\ log[j] \in Landing
    BY <1>1, <1>2 DEF Sealing
  <2>2. log[j].seals # NoSubject
    BY <2>1 DEF KeysOfEvent
  <2>3. IsLine(log[j], KeysMinted(log[j]), Len(Ancestors[log[j].seals]))
    BY <2>1, <2>2, LineFacts
  <2> DEFINE n == Len(Ancestors[log[j].seals])
  <2>4. key = KeysMinted(log[j])[1]
        /\ key = <<log[j].seals, log[j].carries[log[j].seals][1]>>
    BY <2>1, <2>3 DEF IsLine
  <2>5. n \in Nat
    <3>1. n \in 0 .. MaxWrapDepth
      BY <2>3 DEF IsLine
    <3> QED
      BY <3>1
  <2>6. DOMAIN Chain(log[j]) = 1 .. n
    BY <2>3 DEF IsLine
  <2> QED
    BY <2>1, <2>2, <2>4, <2>5, <2>6
<1>5. \A i, j \in sealing : Chain(log[i]) = <<>> => Chain(log[j]) = <<>>
  <2> TAKE i, j \in sealing
  <2>1. log[i].seals = log[j].seals
    BY <1>4
  <2>2. DOMAIN Chain(log[i]) = DOMAIN Chain(log[j])
    BY <1>4, <2>1
  <2>3. log[j].seals # NoSubject /\ log[j] \in Landing
    BY <1>4
  <2>4. IsLine(log[j], KeysMinted(log[j]), Len(Ancestors[log[j].seals]))
    BY <2>3, LineFacts
  <2>5. Chain(log[j]) = [k \in DOMAIN Chain(log[j]) |-> KeysMinted(log[j])[k + 1]]
    BY <2>4 DEF IsLine
  <2>6. Chain(log[i]) = <<>> => DOMAIN Chain(log[j]) = {}
    BY <2>2
  <2> QED
    BY <2>5, <2>6
<1>6. key \in DOMAIN Told(log)
  BY DEF Told
<1>7. Told(log)[key] = IF telling = {} THEN <<>> ELSE Chain(log[Min(telling)])
  BY DEF Told
<1> HIDE DEF m, sealing
<1>8. Told(log)[key] = Chain(log[m])
  <2>1. CASE telling = {}
    BY <1>3, <1>7, <2>1
  <2>2. CASE telling # {}
    <3>1. telling = sealing
      BY <1>5, <2>2
    <3> QED
      BY <1>7, <2>2, <3>1 DEF m
  <2> QED
    BY <2>1, <2>2
<1> QED
  BY <1>1, <1>2, <1>3, <1>4, <1>6, <1>8 DEF m, sealing, FirstSeals

\* Two lines that both name a key go on alike from it: both lines are of the
\* event that seals under it first, or one of them names it above another.
GoOnAlike(line, i, other, j) ==
  /\ Len(line) - i = Len(other) - j
  /\ \A d \in 1 .. Len(line) - i : line[i + d] = other[j + d]

\* The line a key heads in the log: that of the first event that seals under
\* it.
Heads(log, key, m, line, n) ==
  /\ n \in Nat /\ n \in 0 .. MaxWrapDepth /\ MaxWrapDepth \in Nat
  /\ Len(line) = n + 1 /\ DOMAIN line = 1 .. n + 1
  /\ line[1] = key /\ line = KeysMinted(log[m])
  /\ m \in DOMAIN log /\ log[m] \in Landing
  /\ key \in DOMAIN Told(log)
  /\ Told(log)[key] = [i \in 1 .. n |-> line[i + 1]]
  /\ m \in Sealing(log, key)
  /\ \A j \in Sealing(log, key) : m <= j

\* Every key of a log heads a line.
LEMMA KeyHeads ==
  ASSUME OneOfEach, NEW log \in Seq(Landing), NEW key \in KeysOfLog(log)
  PROVE  \E m, line, n : Heads(log, key, m, line, n)
PROOF
<1> DEFINE m == Min(Sealing(log, key))
           line == KeysMinted(log[m])
           n == Len(Ancestors[log[m].seals])
<1>1. FirstSeals(log, key, m)
  BY FirstTells
<1> HIDE DEF m
<1>2. log[m] \in Landing /\ log[m].seals # NoSubject /\ key = line[1]
  BY <1>1 DEF FirstSeals
<1>3. IsLine(log[m], line, n)
  BY <1>2, LineFacts
<1> HIDE DEF line, n
<1>4. n \in 0 .. MaxWrapDepth
  BY <1>3 DEF IsLine
<1>5. n \in Nat /\ MaxWrapDepth \in Nat
  BY <1>4, BackstopAssumption
<1>6. Len(line) = n + 1 /\ DOMAIN line = 1 .. n + 1
      /\ Chain(log[m]) = [i \in 1 .. n |-> line[i + 1]]
      /\ KeysOfEvent(log[m]) = {line[1]}
  BY <1>3 DEF IsLine
<1>7. m \in DOMAIN log /\ \A j \in Sealing(log, key) : m <= j
  BY <1>1 DEF FirstSeals
<1>8. key \in DOMAIN Told(log) /\ Told(log)[key] = Chain(log[m])
  BY <1>1 DEF FirstSeals
<1>9. m \in Sealing(log, key)
  BY <1>2, <1>6, <1>7 DEF Sealing
<1>10. Heads(log, key, m, line, n)
  BY <1>2, <1>4, <1>5, <1>6, <1>7, <1>8, <1>9 DEF Heads, line
<1> QED
  BY <1>10

\* What is told to be above a key of the line is on the line.
LEMMA ToldOnLine ==
  ASSUME WrapsAlike, NEW log \in Seq(Landing), NEW key,
         NEW m, NEW line, NEW n, Heads(log, key, m, line, n),
         NEW k \in Range(line) \cap DOMAIN Told(log)
  PROVE  Range(Told(log)[k]) \subseteq Range(line)
PROOF
<1>1. /\ DOMAIN line = 1 .. n + 1 /\ n \in Nat /\ Len(line) = n + 1
      /\ line[1] = key
      /\ log[m] \in Landing /\ line = KeysMinted(log[m])
  BY DEF Heads
<1>2. PICK i \in 1 .. n + 1 : line[i] = k
  BY <1>1 DEF Range
<1>3. k \in KeysOfLog(log)
  BY DEF Told
<1>4. PICK mk, other, nk : Heads(log, k, mk, other, nk)
  BY <1>3, KeyHeads DEF WrapsAlike
<1>5. /\ DOMAIN other = 1 .. nk + 1 /\ nk \in Nat /\ Len(other) = nk + 1
      /\ other[1] = k
      /\ log[mk] \in Landing /\ other = KeysMinted(log[mk])
      /\ Told(log)[k] = [d \in 1 .. nk |-> other[d + 1]]
  BY <1>4 DEF Heads
<1>6. CASE i = 1
  <2>1. k = key /\ Told(log)[k] = [d \in 1 .. n |-> line[d + 1]]
    <3>1. Told(log)[key] = [d \in 1 .. n |-> line[d + 1]]
      BY DEF Heads
    <3> QED
      BY <1>1, <1>2, <1>6, <3>1
  <2>2. \A d \in 1 .. n : d + 1 \in DOMAIN line
    BY <1>1
  <2>3. Range(Told(log)[k]) = {line[d + 1] : d \in 1 .. n}
    BY <2>1 DEF Range
  <2> QED
    BY <2>2, <2>3 DEF Range
<1>7. CASE i # 1
  <2>1. HangsAlike(line, other)
    BY <1>1, <1>5 DEF WrapsAlike, HangAlike
  <2>2. i > 1 /\ i \in DOMAIN line /\ 1 \in DOMAIN other /\ line[i] = other[1]
    BY <1>1, <1>2, <1>5, <1>7
  <2>3. GoOnAlike(line, i, other, 1)
    BY <2>1, <2>2 DEF HangsAlike, GoOnAlike
  <2>4. \A d \in 1 .. nk : d + 1 = 1 + d /\ i + d \in DOMAIN line
                           /\ line[i + d] = other[1 + d]
    BY <1>1, <1>2, <1>5, <2>3 DEF GoOnAlike
  <2>5. Range(Told(log)[k]) = {other[d + 1] : d \in 1 .. nk}
    <3>1. Told(log)[k] = [d \in 1 .. nk |-> other[d + 1]]
      BY <1>5
    <3> QED
      BY <3>1 DEF Range
  <2> QED
    BY <2>4, <2>5 DEF Range
<1> QED
  BY <1>6, <1>7

\* All that is told to be above a key.
ToldAbove(log, key) ==
  Climb([k \in DOMAIN Told(log) |-> Range(Told(log)[k])], key, MaxWrapDepth)

\* So what is told to be above a key is its line.
LEMMA ToldAboveIs ==
  ASSUME WrapsAlike, NEW log \in Seq(Landing), NEW key,
         NEW m, NEW line, NEW n, Heads(log, key, m, line, n)
  PROVE  ToldAbove(log, key) = Range(line)
PROOF
<1> DEFINE above == [k \in DOMAIN Told(log) |-> Range(Told(log)[k])]
<1>1. /\ DOMAIN line = 1 .. n + 1 /\ n \in 0 .. MaxWrapDepth
      /\ n \in Nat /\ MaxWrapDepth \in Nat /\ line[1] = key
      /\ key \in DOMAIN Told(log)
      /\ Told(log)[key] = [i \in 1 .. n |-> line[i + 1]]
  BY DEF Heads
<1>2. Climb(above, key, MaxWrapDepth) \subseteq Range(line)
  <2>1. key \in Range(line)
    BY <1>1 DEF Range
  <2>2. \A k \in Range(line) \cap DOMAIN above : above[k] \subseteq Range(line)
    BY ToldOnLine
  <2> HIDE DEF above
  <2> QED
    BY <1>1, <2>1, <2>2, ClimbStays
<1>3. \A i \in 1 .. n + 1 : line[i] \in Climb(above, key, MaxWrapDepth)
  <2> TAKE i \in 1 .. n + 1
  <2>1. CASE i = 1
    <3> DEFINE short == <<key>>
    <3>1. /\ Len(short) \in Nat /\ Len(short) <= MaxWrapDepth + 1
          /\ short[1] = key /\ 1 \in 1 .. Len(short)
          /\ \A d \in 1 .. Len(short) - 1 :
               short[d] \in DOMAIN above /\ short[d + 1] \in above[short[d]]
      BY <1>1
    <3> HIDE DEF above, short
    <3>2. short[1] \in Climb(above, key, MaxWrapDepth)
      BY <1>1, <3>1, ClimbReaches
    <3> QED
      BY <1>1, <2>1, <3>1, <3>2
  <2>2. CASE i # 1
    <3> DEFINE short == <<key, line[i]>>
    <3>1. i - 1 \in 1 .. n /\ (i - 1) + 1 = i
      BY <1>1, <2>2
    <3>2. Told(log)[key][i - 1] = line[i] /\ i - 1 \in DOMAIN Told(log)[key]
      BY <1>1, <3>1
    <3>3. line[i] \in above[key]
      BY <1>1, <3>2 DEF Range
    <3>4. /\ Len(short) \in Nat /\ Len(short) <= MaxWrapDepth + 1
          /\ short[1] = key /\ 2 \in 1 .. Len(short) /\ short[2] = line[i]
      BY <1>1, <3>1
    <3>5. \A d \in 1 .. Len(short) - 1 :
            short[d] \in DOMAIN above /\ short[d + 1] \in above[short[d]]
      BY <1>1, <3>3
    <3> HIDE DEF above, short
    <3>6. short[2] \in Climb(above, key, MaxWrapDepth)
      BY <1>1, <3>4, <3>5, ClimbReaches
    <3> QED
      BY <3>4, <3>6
  <2> QED
    BY <2>1, <2>2
<1>4. Climb(above, key, MaxWrapDepth) = Range(line)
  BY <1>1, <1>2, <1>3 DEF Range
<1> QED
  BY <1>4 DEF ToldAbove

\* The keys an event names are a sequence.
LEMMA LineShape ==
  ASSUME OneOfEach, NEW event \in Landing
  PROVE  /\ Len(KeysMinted(event)) \in Nat
         /\ DOMAIN KeysMinted(event) = 1 .. Len(KeysMinted(event))
         /\ KeysMinted(event) # <<>> =>
              KeysOfEvent(event) = {KeysMinted(event)[1]}
PROOF
<1>1. CASE event.seals = NoSubject
  BY <1>1, NoLine
<1>2. CASE event.seals # NoSubject
  <2> DEFINE n == Len(Ancestors[event.seals])
  <2>1. IsLine(event, KeysMinted(event), n)
    BY <1>2, LineFacts
  <2> HIDE DEF n
  <2>2. n \in Nat /\ Len(KeysMinted(event)) = n + 1
        /\ DOMAIN KeysMinted(event) = 1 .. n + 1
        /\ KeysOfEvent(event) = {KeysMinted(event)[1]}
    <3>1. n \in 0 .. MaxWrapDepth
      BY <2>1 DEF IsLine
    <3>2. n \in Nat
      BY <3>1, BackstopAssumption
    <3> QED
      BY <2>1, <3>2 DEF IsLine
  <2> QED
    BY <2>2
<1> QED
  BY <1>1, <1>2

\* The events that name a key, and the first of them.
Naming(log, k) == {i \in DOMAIN log : k \in Range(KeysMinted(log[i]))}
FirstNamed(log, k) == KeysMinted(log[Min(Naming(log, k))])

\* The first event that names a key of the line says above it what the line
\* says.
LEMMA NamedAlike ==
  ASSUME WrapsAlike, NEW log \in Seq(Landing), NEW key,
         NEW m, NEW line, NEW n, Heads(log, key, m, line, n),
         NEW i \in 1 .. n + 1, NEW j \in DOMAIN FirstNamed(log, line[i]),
         FirstNamed(log, line[i])[j] = line[i]
  PROVE  GoOnAlike(line, i, FirstNamed(log, line[i]), j)
PROOF
<1> DEFINE k == line[i]
           f == Min(Naming(log, k))
           other == FirstNamed(log, k)
<1>1. /\ DOMAIN line = 1 .. n + 1 /\ n \in Nat /\ Len(line) = n + 1
      /\ line[1] = key /\ m \in DOMAIN log
      /\ log[m] \in Landing /\ line = KeysMinted(log[m])
      /\ \A q \in Sealing(log, key) : m <= q
  BY DEF Heads
<1>2. DOMAIN log \in SUBSET Nat /\ \A q \in DOMAIN log : log[q] \in Landing
  OBVIOUS
<1>3. m \in Naming(log, k)
  BY <1>1 DEF Naming, Range
<1>4. f \in Naming(log, k) /\ f <= m
  <2>1. Naming(log, k) \in SUBSET Nat /\ Naming(log, k) # {}
    BY <1>2, <1>3 DEF Naming
  <2> HIDE DEF k
  <2> QED
    BY <1>3, <2>1, MinIs
<1>5. f \in DOMAIN log /\ log[f] \in Landing /\ other = KeysMinted(log[f])
      /\ f \in Nat /\ m \in Nat
  BY <1>1, <1>2, <1>4 DEF Naming, FirstNamed
<1> HIDE DEF f, other
<1>6. /\ DOMAIN other = 1 .. Len(other) /\ Len(other) \in Nat
      /\ other # <<>> => KeysOfEvent(log[f]) = {other[1]}
  BY <1>5, LineShape DEF WrapsAlike
<1>7. j \in 1 .. Len(other) /\ other[j] = line[i]
  BY <1>6 DEF other
<1>8. CASE i > 1
  <2>1. HangsAlike(line, other)
    BY <1>1, <1>5 DEF WrapsAlike, HangAlike
  <2>2. i \in DOMAIN line /\ j \in DOMAIN other /\ line[i] = other[j]
    BY <1>1, <1>6, <1>7
  <2>3. GoOnAlike(line, i, other, j)
    BY ONLY <1>8, <2>1, <2>2 DEF HangsAlike, GoOnAlike
  <2> QED
    BY <2>3 DEF other
<1>9. CASE j > 1
  <2>1. HangsAlike(other, line)
    BY <1>1, <1>5 DEF WrapsAlike, HangAlike
  <2>2. i \in DOMAIN line /\ j \in DOMAIN other /\ other[j] = line[i]
    BY <1>1, <1>6, <1>7
  <2>3. GoOnAlike(other, j, line, i)
    BY ONLY <1>9, <2>1, <2>2 DEF HangsAlike, GoOnAlike
  <2>4. GoOnAlike(line, i, other, j)
    BY <1>1, <1>6, <1>7, <2>3 DEF GoOnAlike
  <2> QED
    BY <2>4 DEF other
<1>10. CASE i = 1 /\ j = 1
  <2>1. other # <<>>
    BY <1>6, <1>7
  <2>2. f \in Sealing(log, key)
    BY <1>1, <1>5, <1>6, <1>7, <1>10, <2>1 DEF Sealing
  <2>3. f = m
    BY <1>1, <1>4, <1>5, <2>2
  <2>4. other = line
    BY <1>1, <1>5, <2>3
  <2>5. GoOnAlike(line, i, other, j)
    BY <1>10, <2>4 DEF GoOnAlike
  <2> QED
    BY <2>5 DEF other
<1> QED
  BY <1>1, <1>6, <1>7, <1>8, <1>9, <1>10

\* A key of a line, stored under the next, or under none.
UnderNext(above, line, n, i) ==
  /\ line[i] \in DOMAIN above
  /\ above[line[i]] = IF i = n + 1 THEN {} ELSE {line[i + 1]}

\* So what is stored above a key of the line is the next key of the line.
LEMMA StoredOnLine ==
  ASSUME WrapsAlike, NEW log \in Seq(Landing), NEW key,
         NEW m, NEW line, NEW n, Heads(log, key, m, line, n),
         NEW i \in 1 .. n + 1
  PROVE  UnderNext(StoredUnder(log), line, n, i)
PROOF
<1> DEFINE k == line[i]
           other == FirstNamed(log, k)
<1>1. /\ DOMAIN line = 1 .. n + 1 /\ n \in Nat /\ Len(line) = n + 1
      /\ m \in DOMAIN log
      /\ log[m] \in Landing /\ line = KeysMinted(log[m])
  BY DEF Heads
<1>2. k \in Range(KeysMinted(log[m]))
  BY <1>1 DEF Range
<1>3. k \in DOMAIN StoredUnder(log)
  BY <1>1, <1>2 DEF StoredUnder
<1>4. StoredUnder(log)[k] =
        {other[j + 1] : j \in {q \in 1 .. Len(other) - 1 : other[q] = k}}
  BY <1>3 DEF StoredUnder, FirstNamed, Naming
<1>5. Min(Naming(log, k)) \in Naming(log, k)
  <2>1. DOMAIN log \in SUBSET Nat
    OBVIOUS
  <2>2. Naming(log, k) \in SUBSET Nat /\ Naming(log, k) # {}
    BY <1>1, <1>2, <2>1 DEF Naming
  <2> HIDE DEF k
  <2> QED
    BY <2>2, MinIs
<1>6. PICK f \in DOMAIN log : other = KeysMinted(log[f]) /\ k \in Range(other)
  BY <1>5 DEF Naming, FirstNamed
<1>7. DOMAIN other = 1 .. Len(other) /\ Len(other) \in Nat
  <2>1. log[f] \in Landing
    BY <1>6
  <2> QED
    BY <1>6, <2>1, LineShape DEF WrapsAlike
<1>8. PICK j \in 1 .. Len(other) : other[j] = k
  BY <1>6, <1>7 DEF Range
<1>9. \A q \in 1 .. Len(other) : other[q] = k => GoOnAlike(line, i, other, q)
  BY <1>7, NamedAlike
<1> HIDE DEF other, k
<1>10. GoOnAlike(line, i, other, j)
  BY <1>8, <1>9
<1>11. \A q \in 1 .. Len(other) : other[q] = k => q = j
  <2> TAKE q \in 1 .. Len(other)
  <2> HAVE other[q] = k
  <2>1. Len(line) - i = Len(other) - q /\ Len(line) - i = Len(other) - j
    <3>1. GoOnAlike(line, i, other, q)
      BY <1>9
    <3> QED
      BY ONLY <1>10, <3>1 DEF GoOnAlike
  <2> QED
    BY <1>1, <1>7, <1>8, <2>1
<1>12. CASE i = n + 1
  <2>1. j = Len(other)
    BY <1>1, <1>7, <1>8, <1>10, <1>12 DEF GoOnAlike
  <2>2. {q \in 1 .. Len(other) - 1 : other[q] = k} = {}
    <3> DEFINE z == Len(other)
    <3>1. \A q \in 1 .. Len(other) - 1 : q \in 1 .. Len(other) /\ q # j
      <4>1. z \in Nat /\ j = z
        BY <1>7, <2>1
      <4> HIDE DEF z
      <4>2. \A q \in 1 .. z - 1 : q \in 1 .. z /\ q # z
        BY ONLY <4>1
      <4> QED
        BY ONLY <4>1, <4>2 DEF z
    <3> QED
      BY <1>11, <3>1
  <2> QED
    BY <1>3, <1>4, <1>12, <2>2 DEF k, UnderNext
<1>13. CASE i # n + 1
  <2>1. j \in 1 .. Len(other) - 1 /\ other[j + 1] = line[i + 1]
    BY <1>1, <1>7, <1>8, <1>10, <1>13 DEF GoOnAlike
  <2>2. {q \in 1 .. Len(other) - 1 : other[q] = k} = {j}
    BY <1>7, <1>8, <1>11, <2>1
  <2> QED
    BY <1>3, <1>4, <1>13, <2>1, <2>2 DEF k, UnderNext
<1> QED
  BY <1>12, <1>13

\* And a key hangs from the keys of its line.
LEMMA HangsFromLine ==
  ASSUME WrapsAlike, NEW log \in Seq(Landing), NEW key,
         NEW m, NEW line, NEW n, Heads(log, key, m, line, n)
  PROVE  HangsFrom(log, key) = Range(line)
PROOF
<1> DEFINE above == StoredUnder(log)
<1>1. /\ DOMAIN line = 1 .. n + 1 /\ n \in 0 .. MaxWrapDepth
      /\ n \in Nat /\ MaxWrapDepth \in Nat /\ line[1] = key
      /\ Len(line) = n + 1
  BY DEF Heads
<1>2. \A i \in 1 .. n + 1 :
        /\ line[i] \in DOMAIN above
        /\ above[line[i]] = IF i = n + 1 THEN {} ELSE {line[i + 1]}
  <2> TAKE i \in 1 .. n + 1
  <2>1. UnderNext(above, line, n, i)
    BY StoredOnLine
  <2> QED
    BY <2>1 DEF UnderNext
<1> HIDE DEF above
<1>3. Climb(above, key, MaxWrapDepth) \subseteq Range(line)
  <2>1. key \in Range(line)
    BY <1>1 DEF Range
  <2>2. \A i \in 1 .. n + 1 : above[line[i]] \subseteq Range(line)
    <3> TAKE i \in 1 .. n + 1
    <3>1. CASE i = n + 1
      BY <1>2, <3>1
    <3>2. CASE i # n + 1
      <4>1. i + 1 \in DOMAIN line
        BY <1>1, <3>2
      <4>2. line[i + 1] \in Range(line)
        BY <4>1 DEF Range
      <4> QED
        BY <1>2, <3>2, <4>2
    <3> QED
      BY <3>1, <3>2
  <2>3. \A k \in Range(line) \cap DOMAIN above : above[k] \subseteq Range(line)
    BY <1>1, <2>2 DEF Range
  <2> QED
    BY <1>1, <2>1, <2>3, ClimbStays
<1>4. \A i \in 1 .. Len(line) : line[i] \in Climb(above, key, MaxWrapDepth)
  <2>1. \A i \in 1 .. Len(line) - 1 :
          line[i] \in DOMAIN above /\ line[i + 1] \in above[line[i]]
    <3> TAKE i \in 1 .. Len(line) - 1
    <3>1. i \in 1 .. n + 1 /\ i # n + 1
      BY <1>1
    <3> QED
      BY <1>2, <3>1
  <2>2. Len(line) \in Nat /\ Len(line) <= MaxWrapDepth + 1
    BY <1>1
  <2> QED
    BY <1>1, <2>1, <2>2, ClimbReaches
<1>5. Climb(above, key, MaxWrapDepth) = Range(line)
  BY <1>1, <1>3, <1>4 DEF Range
<1> QED
  BY <1>5 DEF HangsFrom, above

\* What is told to be above a key is what it hangs from.
LEMMA ToldIsStored ==
  ASSUME WrapsAlike, NEW log \in Seq(Landing), NEW key \in KeysOfLog(log)
  PROVE  ToldAbove(log, key) = HangsFrom(log, key)
PROOF
<1>1. PICK m, line, n : Heads(log, key, m, line, n)
  BY KeyHeads DEF WrapsAlike
<1>2. ToldAbove(log, key) = Range(line)
  BY <1>1, ToldAboveIs
<1>3. HangsFrom(log, key) = Range(line)
  BY <1>1, HangsFromLine
<1> QED
  BY <1>2, <1>3

\* What a record that lands later says of a key changes nothing above it.
LEMMA HangsStill ==
  ASSUME WrapsAlike, NEW log \in Seq(Landing), NEW key \in KeysOfLog(log),
         NEW event \in Landing
  PROVE  /\ key \in KeysOfLog(Append(log, event))
         /\ HangsFrom(Append(log, event), key) = HangsFrom(log, key)
PROOF
<1> DEFINE more == Append(log, event)
<1>1. /\ more \in Seq(Landing) /\ DOMAIN log \subseteq DOMAIN more
      /\ DOMAIN more \subseteq Nat
      /\ \A i \in DOMAIN log : more[i] = log[i]
      /\ \A i \in DOMAIN log : \A j \in DOMAIN more : j <= i => j \in DOMAIN log
  OBVIOUS
<1> HIDE DEF more
<1>2. key \in KeysOfLog(more)
  BY <1>1 DEF KeysOfLog
<1>3. PICK m, line, n : Heads(log, key, m, line, n)
  BY KeyHeads DEF WrapsAlike
<1>4. PICK mm, long, nn : Heads(more, key, mm, long, nn)
  BY <1>1, <1>2, KeyHeads DEF WrapsAlike
<1>5. m \in DOMAIN log /\ m \in Sealing(log, key) /\ line = KeysMinted(log[m])
      /\ \A j \in Sealing(log, key) : m <= j
  BY <1>3 DEF Heads
<1>6. mm \in Sealing(more, key) /\ long = KeysMinted(more[mm])
      /\ \A j \in Sealing(more, key) : mm <= j
  BY <1>4 DEF Heads
<1>7. m \in Sealing(more, key)
  BY <1>1, <1>5 DEF Sealing
<1>8. mm \in DOMAIN log /\ mm \in Sealing(log, key)
  BY <1>1, <1>5, <1>6, <1>7 DEF Sealing
<1>9. mm = m
  BY <1>1, <1>5, <1>6, <1>7, <1>8
<1>10. long = line
  BY <1>1, <1>5, <1>6, <1>9
<1>11. HangsFrom(log, key) = Range(line)
  BY <1>3, HangsFromLine
<1>12. HangsFrom(more, key) = Range(long)
  BY <1>1, <1>4, HangsFromLine
<1> QED
  BY <1>2, <1>10, <1>11, <1>12 DEF more

-----------------------------------------------------------------------------
(* Writing a row.                                                          *)

\* What no key is needed for.
Readable(row, gone) == \A c \in DOMAIN row : Sealed(row[c]) => row[c] \notin gone

\* What a store holds was there, or is readable.
Fresh(before, after, gone) ==
  \A cell \in DOMAIN after :
    \/ cell \in DOMAIN before /\ after[cell] = before[cell]
    \/ Readable(after[cell], gone)

\* Two rows in which the same is to be seen.
RowsAlike(one, other, gone) ==
  /\ DOMAIN one = DOMAIN other
  /\ \A c \in DOMAIN one : Seen(one[c], gone) = Seen(other[c], gone)

\* What is taken out has nothing more to take out.
LEMMA SeenAgain ==
  ASSUME NEW value, NEW gone
  PROVE  /\ Seen(Seen(value, gone), gone) = Seen(value, gone)
         /\ Sealed(Seen(value, gone)) =>
              Seen(value, gone) = value /\ value \notin gone
         /\ Seen(value, {}) = value
         /\ ~Sealed(value) => Seen(value, gone) = value
PROOF
<1>1. ~Sealed(None)
  BY DEF Sealed, None
<1> QED
  BY <1>1 DEF Seen

\* What is gone stays gone: more of it takes out what less did.
LEMMA SeenLater ==
  ASSUME NEW one, NEW other, NEW gone, NEW more, gone \subseteq more,
         Seen(one, gone) = Seen(other, gone)
  PROVE  Seen(one, more) = Seen(other, more)
PROOF
<1>1. ~Sealed(None)
  BY DEF Sealed, None
<1> QED
  BY <1>1 DEF Seen

\* A row as it is shredded.
LEMMA ShreddedIs ==
  ASSUME NEW row, NEW gone
  PROVE  /\ DOMAIN Shredded(row, gone) = DOMAIN row
         /\ \A c \in DOMAIN row : Shredded(row, gone)[c] = Seen(row[c], gone)
         /\ Shredded(row, gone) = [c \in DOMAIN row |-> Seen(row[c], gone)]
PROOF BY DEF Shredded, Seen

\* What a write leaves where it wrote and where it did not.
WroteRow(store, cell, row, after) ==
  /\ DOMAIN after = DOMAIN store \cup {cell}
  /\ after = [x \in DOMAIN after |-> after[x]]
  /\ after[cell] = row
  /\ \A x \in DOMAIN store \ {cell} : after[x] = store[x]

\* A write that does not raise leaves that.
LEMMA PutIs ==
  ASSUME NEW store, NEW entity, NEW key, NEW row, NEW gone,
         PutRow(store, entity, key, row, gone).fine
  PROVE  WroteRow(store, <<entity, key>>, Shredded(row, gone),
                  PutRow(store, entity, key, row, gone).rows)
PROOF
<1> DEFINE new == [cell \in {<<entity, key>>} |-> Shredded(row, gone)]
           after == PutRow(store, entity, key, row, gone).rows
<1>1. ~Unshreddable(entity, row, gone)
  BY DEF PutRow
<1>2. after = Over(new, store)
  BY <1>1 DEF PutRow
<1>3. DOMAIN new = {<<entity, key>>} /\ new[<<entity, key>>] = Shredded(row, gone)
  OBVIOUS
<1> HIDE DEF new, after
<1>4. after = [cell \in {<<entity, key>>} \cup DOMAIN store |->
                 IF cell \in {<<entity, key>>} THEN new[cell] ELSE store[cell]]
  BY <1>2, <1>3 DEF Over
<1> QED
  BY <1>3, <1>4 DEF after, WroteRow

\* A write that raises leaves the rows, and one with nothing gone does not
\* raise.
LEMMA PutElse ==
  ASSUME NEW store, NEW entity, NEW key, NEW row, NEW gone
  PROVE  /\ ~PutRow(store, entity, key, row, gone).fine =>
              PutRow(store, entity, key, row, gone).rows = store
         /\ gone = {} => PutRow(store, entity, key, row, gone).fine
PROOF BY DEF PutRow, Unshreddable

\* A store and what it becomes, both standing, what is new in it readable,
\* and nothing raised if nothing is gone.
Written(store, wrote, gone, keys, plain) ==
  /\ Stands(wrote.rows, keys, plain)
  /\ Fresh(store, wrote.rows, gone)
  /\ gone = {} => wrote.fine

\* A row that stands is written so.
LEMMA PutWritten ==
  ASSUME NEW store, NEW entity, NEW key, NEW row, NEW gone, NEW keys, NEW plain,
         Stands(store, keys, plain), RowStands(row, entity, keys, plain)
  PROVE  Written(store, PutRow(store, entity, key, row, gone), gone, keys, plain)
PROOF
<1> DEFINE wrote == PutRow(store, entity, key, row, gone)
           after == wrote.rows
           cell == <<entity, key>>
           columns == DOMAIN Entities[entity].columns
<1>1. CASE ~wrote.fine
  <2>1. after = store /\ gone # {}
    BY <1>1, PutElse
  <2> HIDE DEF wrote
  <2>2. Fresh(store, after, gone)
    BY <2>1 DEF Fresh
  <2> QED
    BY <2>1, <2>2 DEF Written, wrote
<1>2. CASE wrote.fine
  <2>1. /\ DOMAIN after = DOMAIN store \cup {cell}
        /\ after = [x \in DOMAIN after |-> after[x]]
        /\ after[cell] = Shredded(row, gone)
        /\ \A x \in DOMAIN store \ {cell} : after[x] = store[x]
    <3>1. WroteRow(store, cell, Shredded(row, gone), after)
      BY <1>2, PutIs
    <3> HIDE DEF after, cell
    <3> QED
      BY <3>1 DEF WroteRow
  <2>2. entity \in DOMAIN Entities /\ DOMAIN row = columns
        /\ \A c \in columns : Sealed(row[c]) =>
             row[c] \in keys /\ <<entity, c>> \notin plain
    BY DEF RowStands
  <2>3. Shredded(row, gone) = [c \in columns |-> Seen(row[c], gone)]
    BY <2>2, ShreddedIs
  <2>4. \A c \in columns : Sealed(Seen(row[c], gone)) =>
          /\ Seen(row[c], gone) = row[c]
          /\ row[c] \notin gone
    BY SeenAgain
  <2>5. RowStands(Shredded(row, gone), entity, keys, plain)
    BY <2>2, <2>3, <2>4 DEF RowStands
  <2>6. Readable(Shredded(row, gone), gone)
    BY <2>3, <2>4 DEF Readable
  <2> HIDE DEF wrote, columns
  <2>7. cell[1] = entity
    OBVIOUS
  <2> HIDE DEF cell
  <2>8. \A x \in DOMAIN store : RowStands(store[x], x[1], keys, plain)
    BY DEF Stands
  <2>9. \A x \in DOMAIN after : RowStands(after[x], x[1], keys, plain)
    BY <2>1, <2>5, <2>7, <2>8
  <2>10. Stands(after, keys, plain)
    BY <2>1, <2>9 DEF Stands
  <2>11. Fresh(store, after, gone)
    BY <2>1, <2>6 DEF Fresh
  <2> QED
    BY <1>2, <2>10, <2>11 DEF Written, wrote
<1> QED
  BY <1>1, <1>2

\* Rows that are alike are written alike, into stores that are.
LEMMA PutAlike ==
  ASSUME NEW one, NEW other, NEW entity, NEW key, NEW row, NEW like, NEW gone,
         Alike(one, other, gone), RowsAlike(row, like, gone),
         PutRow(one, entity, key, row, gone).fine
  PROVE  Alike(PutRow(one, entity, key, row, gone).rows,
               PutRow(other, entity, key, like, {}).rows, gone)
PROOF
<1> DEFINE first == PutRow(one, entity, key, row, gone).rows
           second == PutRow(other, entity, key, like, {}).rows
           cell == <<entity, key>>
<1>1. /\ DOMAIN first = DOMAIN one \cup {cell}
      /\ first[cell] = Shredded(row, gone)
      /\ \A x \in DOMAIN one \ {cell} : first[x] = one[x]
  <2>1. WroteRow(one, cell, Shredded(row, gone), first)
    BY PutIs
  <2> HIDE DEF first, cell
  <2> QED
    BY <2>1 DEF WroteRow
<1>2. PutRow(other, entity, key, like, {}).fine
  BY PutElse
<1>3. /\ DOMAIN second = DOMAIN other \cup {cell}
      /\ second[cell] = Shredded(like, {})
      /\ \A x \in DOMAIN other \ {cell} : second[x] = other[x]
  <2>1. WroteRow(other, cell, Shredded(like, {}), second)
    BY <1>2, PutIs
  <2> HIDE DEF second, cell
  <2> QED
    BY <2>1 DEF WroteRow
<1>4. RowsAlike(Shredded(row, gone), Shredded(like, {}), gone)
  <2>1. /\ DOMAIN row = DOMAIN like
        /\ \A c \in DOMAIN row : Seen(row[c], gone) = Seen(like[c], gone)
    BY DEF RowsAlike
  <2>2. /\ DOMAIN Shredded(row, gone) = DOMAIN row
        /\ \A c \in DOMAIN row : Shredded(row, gone)[c] = Seen(row[c], gone)
    BY ShreddedIs
  <2>3. /\ DOMAIN Shredded(like, {}) = DOMAIN like
        /\ \A c \in DOMAIN like : Shredded(like, {})[c] = like[c]
    BY ShreddedIs, SeenAgain
  <2> QED
    BY <2>1, <2>2, <2>3, SeenAgain DEF RowsAlike
<1>5. /\ DOMAIN one = DOMAIN other
      /\ \A x \in DOMAIN one : RowsAlike(one[x], other[x], gone)
  BY DEF Alike, RowsAlike
<1> HIDE DEF first, second, cell
<1>6. /\ DOMAIN first = DOMAIN second
      /\ \A x \in DOMAIN first : RowsAlike(first[x], second[x], gone)
  BY <1>1, <1>3, <1>4, <1>5
<1>7. Alike(first, second, gone)
  BY <1>6 DEF Alike, RowsAlike
<1> QED
  BY <1>7 DEF first, second

-----------------------------------------------------------------------------
(* A statement.                                                            *)

\* A value that may stand in a column: under a key of the log if it is
\* sealed, and then not in a plain one.
MayStand(value, column, keys, plain) ==
  Sealed(value) => value \in keys /\ column \notin plain

\* A value the statement itself gives is the same whatever is stored.
LEMMA GivenValue ==
  ASSUME NEW event \in Landing, NEW keys, KeysOfEvent(event) \subseteq keys,
         NEW expr, NEW column, NEW plain, NEW stored,
         FieldFits(expr, event, column, plain) \/ ConstFits(expr)
  PROVE  /\ MayStand(Evaluate(expr, event, stored), column, keys, plain)
         /\ Evaluate(expr, event, stored) = Evaluate(expr, event, <<>>)
PROOF
<1>1. CASE FieldFits(expr, event, column, plain)
  <2>1. /\ expr.src = "field" /\ expr.of \in DOMAIN event.with
        /\ Sealed(event.with[expr.of]) => column \notin plain
    BY <1>1 DEF FieldFits
  <2>2. \A s : Evaluate(expr, event, s) = event.with[expr.of]
    BY <2>1 DEF Evaluate
  <2>3. Sealed(event.with[expr.of]) => event.with[expr.of] \in keys
    BY <2>1, EventsAssumption
  <2> QED
    BY <2>1, <2>2, <2>3 DEF MayStand
<1>2. CASE ConstFits(expr)
  <2>1. expr.src = "const" /\ ~Sealed(expr.of)
    BY <1>2 DEF ConstFits
  <2>2. \A s : Evaluate(expr, event, s) = expr.of
    BY <2>1 DEF Evaluate
  <2> QED
    BY <2>1, <2>2 DEF MayStand
<1> QED
  BY <1>1, <1>2

\* A value made from what is stored.
LEMMA StoredValue ==
  ASSUME NEW event, NEW keys, NEW plain, NEW entity, NEW c, NEW expr,
         StoredFits(expr, <<entity, c>>, plain),
         NEW stored, RowStands(stored, entity, keys, plain)
  PROVE  MayStand(Evaluate(expr, event, stored), <<entity, c>>, keys, plain)
PROOF
<1>1. expr.of \in DOMAIN Entities[entity].columns
  BY DEF StoredFits, ColumnsOf
<1>2. Sealed(stored[expr.of]) =>
        stored[expr.of] \in keys /\ <<entity, expr.of>> \notin plain
  BY <1>1 DEF RowStands
<1>3. CASE expr.src = "stored" /\ (<<entity, c>> \in plain => <<entity, expr.of>> \in plain)
  <2>1. Evaluate(expr, event, stored) = stored[expr.of]
    BY <1>3 DEF Evaluate
  <2> QED
    BY <1>2, <1>3, <2>1 DEF MayStand
<1>4. CASE expr.src = "count"
  <2>1. Evaluate(expr, event, stored) = <<Min({stored[expr.of][1] + 1, MaxCount})>>
    BY <1>4 DEF Evaluate
  <2>2. ~Sealed(Evaluate(expr, event, stored))
    BY <2>1 DEF Sealed
  <2> QED
    BY <2>2 DEF MayStand
<1> QED
  BY <1>3, <1>4 DEF StoredFits

\* From rows that are alike it is made alike.
LEMMA StoredAlike ==
  ASSUME NEW event, NEW keys, NEW plain, NEW entity, NEW c, NEW expr, NEW gone,
         StoredFits(expr, <<entity, c>>, plain),
         NEW stored, RowStands(stored, entity, keys, plain),
         NEW like, RowStands(like, entity, keys, plain),
         RowsAlike(stored, like, gone)
  PROVE  Seen(Evaluate(expr, event, stored), gone) =
           Seen(Evaluate(expr, event, like), gone)
PROOF
<1>1. expr.of \in DOMAIN Entities[entity].columns
  BY DEF StoredFits, ColumnsOf
<1>2. Seen(stored[expr.of], gone) = Seen(like[expr.of], gone)
  BY <1>1 DEF RowStands, RowsAlike
<1>3. CASE expr.src = "stored"
  BY <1>2, <1>3 DEF Evaluate
<1>4. CASE expr.src = "count" /\ <<entity, expr.of>> \in plain
  <2>1. ~Sealed(stored[expr.of]) /\ ~Sealed(like[expr.of])
    BY <1>1, <1>4 DEF RowStands
  <2>2. stored[expr.of] = like[expr.of]
    BY <1>2, <2>1, SeenAgain
  <2> QED
    BY <1>4, <2>2 DEF Evaluate
<1> QED
  BY <1>3, <1>4 DEF StoredFits

\* A row that is made where there is none.
LEMMA MadeStands ==
  ASSUME NEW entity \in DOMAIN Entities, NEW key, ~Sealed(key), NEW keys, NEW plain
  PROVE  RowStands(Materialize(entity, key), entity, keys, plain)
PROOF
<1> DEFINE row == Materialize(entity, key)
           columns == DOMAIN Entities[entity].columns
<1>1. row = [c \in columns |-> IF c = Entities[entity].key THEN key
                               ELSE Entities[entity].columns[c].zero]
  BY DEF Materialize
<1>2. \A c \in columns : ~Sealed(row[c])
  BY <1>1, EntitiesAssumption
<1> HIDE DEF row
<1> QED
  BY <1>1, <1>2 DEF RowStands, row

\* Columns written over a row.
LEMMA OverStands ==
  ASSUME NEW entity \in DOMAIN Entities, NEW keys, NEW plain,
         NEW stored, RowStands(stored, entity, keys, plain),
         NEW fields, DOMAIN fields \subseteq DOMAIN Entities[entity].columns,
         \A c \in DOMAIN fields : MayStand(fields[c], <<entity, c>>, keys, plain)
  PROVE  RowStands(Over(fields, stored), entity, keys, plain)
PROOF
<1> DEFINE columns == DOMAIN Entities[entity].columns
<1>1. DOMAIN stored = columns
      /\ \A c \in columns : MayStand(stored[c], <<entity, c>>, keys, plain)
  BY DEF RowStands, MayStand
<1>2. Over(fields, stored) =
        [c \in columns |-> IF c \in DOMAIN fields THEN fields[c] ELSE stored[c]]
  BY <1>1 DEF Over
<1> QED
  BY <1>1, <1>2 DEF RowStands, MayStand

\* And over rows that are alike.
LEMMA OverAlike ==
  ASSUME NEW stored, NEW like, NEW gone, RowsAlike(stored, like, gone),
         NEW fields, NEW others, RowsAlike(fields, others, gone)
  PROVE  RowsAlike(Over(fields, stored), Over(others, like), gone)
PROOF BY DEF RowsAlike, Over

\* What the columns of a statement are set to, over a stored row.
FieldsOver(stmt, event, stored) ==
  [c \in DOMAIN stmt.fields |-> Evaluate(stmt.fields[c], event, stored)]

\* The row a `patch` starts from.
StartOf(store, stmt, key) ==
  IF <<stmt.entity, key>> \in DOMAIN store THEN store[<<stmt.entity, key>>]
  ELSE Materialize(stmt.entity, key)

\* A row that is put.
LEMMA PutRowStands ==
  ASSUME NEW event \in Landing, NEW keys, KeysOfEvent(event) \subseteq keys,
         NEW plain, NEW stmt, StatementFits(stmt, event, plain),
         stmt.do = "put"
  PROVE  RowStands(FieldsOver(stmt, event, <<>>), stmt.entity, keys, plain)
PROOF
<1> DEFINE row == FieldsOver(stmt, event, <<>>)
           columns == DOMAIN Entities[stmt.entity].columns
<1>1. stmt.entity \in DOMAIN Entities /\ DOMAIN stmt.fields = columns
  BY DEF StatementFits
<1>2. \A c \in columns :
        \/ FieldFits(stmt.fields[c], event, <<stmt.entity, c>>, plain)
        \/ ConstFits(stmt.fields[c])
  BY <1>1 DEF StatementFits
<1>3. \A c \in columns :
        MayStand(Evaluate(stmt.fields[c], event, <<>>), <<stmt.entity, c>>,
                 keys, plain)
  BY <1>2, GivenValue
<1>4. row = [c \in columns |-> Evaluate(stmt.fields[c], event, <<>>)]
  BY <1>1 DEF FieldsOver
<1> HIDE DEF columns, row
<1>5. RowStands(row, stmt.entity, keys, plain)
  BY <1>1, <1>3, <1>4 DEF RowStands, MayStand, columns
<1> QED
  BY <1>5 DEF row

\* The key of a `patch` or an `update` is nothing sealed, and the row it
\* starts from stands.
LEMMA StartStands ==
  ASSUME NEW event \in Landing, NEW keys, KeysOfEvent(event) \subseteq keys,
         NEW plain, NEW stmt, StatementFits(stmt, event, plain),
         stmt.do # "put", NEW store, Stands(store, keys, plain)
  PROVE  RowStands(StartOf(store, stmt, Evaluate(stmt.key, event, <<>>)),
                   stmt.entity, keys, plain)
PROOF
<1> DEFINE key == Evaluate(stmt.key, event, <<>>)
           cell == <<stmt.entity, key>>
<1>1. stmt.entity \in DOMAIN Entities
      /\ (FieldFits(stmt.key, event, <<>>, {<<>>}) \/ ConstFits(stmt.key))
  BY DEF StatementFits
<1>2. MayStand(key, <<>>, keys, {<<>>})
  BY <1>1, GivenValue
<1>3. ~Sealed(key)
  BY <1>2 DEF MayStand
<1> HIDE DEF key
<1>4. CASE cell \in DOMAIN store
  <2>1. RowStands(store[cell], cell[1], keys, plain)
    BY <1>4 DEF Stands
  <2>2. cell[1] = stmt.entity
    OBVIOUS
  <2>3. RowStands(StartOf(store, stmt, key), stmt.entity, keys, plain)
    BY <1>4, <2>1, <2>2 DEF StartOf
  <2> QED
    BY <2>3 DEF key
<1>5. CASE cell \notin DOMAIN store
  <2>1. RowStands(Materialize(stmt.entity, key), stmt.entity, keys, plain)
    BY <1>1, <1>3, MadeStands
  <2>2. RowStands(StartOf(store, stmt, key), stmt.entity, keys, plain)
    BY <1>5, <2>1 DEF StartOf
  <2> QED
    BY <2>2 DEF key
<1> QED
  BY <1>4, <1>5

\* A row that is patched.
LEMMA PatchRowStands ==
  ASSUME NEW event \in Landing, NEW keys, KeysOfEvent(event) \subseteq keys,
         NEW plain, NEW stmt, StatementFits(stmt, event, plain),
         stmt.do # "put",
         NEW stored, RowStands(stored, stmt.entity, keys, plain)
  PROVE  RowStands(Over(FieldsOver(stmt, event, stored), stored),
                   stmt.entity, keys, plain)
PROOF
<1> DEFINE fields == FieldsOver(stmt, event, stored)
<1>1. stmt.entity \in DOMAIN Entities
  BY DEF StatementFits
<1>2. DOMAIN fields = DOMAIN stmt.fields
      /\ \A c \in DOMAIN fields :
           fields[c] = Evaluate(stmt.fields[c], event, stored)
  BY DEF FieldsOver
<1>3. \A c \in DOMAIN stmt.fields :
        /\ <<stmt.entity, c>> \in ColumnsOf(stmt.entity)
        /\ \/ FieldFits(stmt.fields[c], event, <<stmt.entity, c>>, plain)
           \/ ConstFits(stmt.fields[c])
           \/ StoredFits(stmt.fields[c], <<stmt.entity, c>>, plain)
  BY DEF StatementFits
<1> HIDE DEF fields
<1>4. DOMAIN fields \subseteq DOMAIN Entities[stmt.entity].columns
  BY <1>2, <1>3 DEF ColumnsOf
<1>5. \A c \in DOMAIN fields : MayStand(fields[c], <<stmt.entity, c>>, keys, plain)
  BY <1>2, <1>3, GivenValue, StoredValue
<1>6. RowStands(Over(fields, stored), stmt.entity, keys, plain)
  BY <1>1, <1>4, <1>5, OverStands
<1> QED
  BY <1>6 DEF fields

\* Any statement leaves the rows standing, with nothing new in them that is
\* gone.
LEMMA StatementWritten ==
  ASSUME NEW event \in Landing, NEW keys, KeysOfEvent(event) \subseteq keys,
         NEW plain, NEW stmt, StatementFits(stmt, event, plain), NEW gone,
         NEW store, Stands(store, keys, plain)
  PROVE  Written(store, Execute(store, stmt, event, gone), gone, keys, plain)
PROOF
<1> DEFINE key == Evaluate(stmt.key, event, <<>>)
           cell == <<stmt.entity, key>>
           start == StartOf(store, stmt, key)
           put == FieldsOver(stmt, event, <<>>)
           patched == Over(FieldsOver(stmt, event, start), start)
           wrote == Execute(store, stmt, event, gone)
<1>1. stmt.do \in {"put", "patch", "update", "delete"}
  BY DEF StatementFits
<1>2. Written(store, [rows |-> store, fine |-> TRUE], gone, keys, plain)
  BY DEF Written, Fresh
<1>3. CASE stmt.do = "put"
  <2>1. RowStands(put, stmt.entity, keys, plain)
    BY <1>3, PutRowStands
  <2>2. wrote = PutRow(store, stmt.entity, put[Entities[stmt.entity].key], put, gone)
    BY <1>3 DEF Execute, PutStatement, FieldsOver
  <2> HIDE DEF put, wrote
  <2>3. Written(store, wrote, gone, keys, plain)
    BY <2>1, <2>2, PutWritten
  <2> QED
    BY <2>3 DEF wrote
<1>4. CASE stmt.do \in {"patch", "update"}
  <2>1. RowStands(start, stmt.entity, keys, plain)
    BY <1>4, StartStands
  <2>2. RowStands(patched, stmt.entity, keys, plain)
    BY <1>4, <2>1, PatchRowStands
  <2>3. wrote = IF cell \notin DOMAIN store /\ stmt.do = "update"
                THEN [rows |-> store, fine |-> TRUE]
                ELSE PutRow(store, stmt.entity, key, patched, gone)
    BY <1>4 DEF Execute, PatchStatement, StartOf, FieldsOver
  <2> HIDE DEF patched, wrote, key
  <2>4. Written(store, wrote, gone, keys, plain)
    BY <1>2, <2>2, <2>3, PutWritten
  <2> QED
    BY <2>4 DEF wrote
<1>5. CASE stmt.do = "delete"
  <2> DEFINE less == [x \in DOMAIN store \ {cell} |-> store[x]]
  <2>1. wrote = [rows |-> less, fine |-> TRUE]
    BY <1>5 DEF Execute, DeleteStatement
  <2> HIDE DEF wrote, cell
  <2>2. Stands(less, keys, plain)
    BY DEF Stands
  <2>3. Fresh(store, less, gone)
    BY DEF Fresh
  <2> HIDE DEF less
  <2>4. Written(store, wrote, gone, keys, plain)
    BY <2>1, <2>2, <2>3 DEF Written
  <2> QED
    BY <2>4 DEF wrote
<1> QED
  BY <1>1, <1>3, <1>4, <1>5

\* Any statement keeps alike what was.
LEMMA StatementAlike ==
  ASSUME NEW event \in Landing, NEW keys, KeysOfEvent(event) \subseteq keys,
         NEW plain, NEW stmt, StatementFits(stmt, event, plain), NEW gone,
         NEW one, Stands(one, keys, plain),
         NEW other, Stands(other, keys, plain),
         Alike(one, other, gone), Execute(one, stmt, event, gone).fine
  PROVE  Alike(Execute(one, stmt, event, gone).rows,
               Execute(other, stmt, event, {}).rows, gone)
PROOF
<1> DEFINE key == Evaluate(stmt.key, event, <<>>)
           cell == <<stmt.entity, key>>
           start == StartOf(one, stmt, key)
           like == StartOf(other, stmt, key)
           put == FieldsOver(stmt, event, <<>>)
           fields == FieldsOver(stmt, event, start)
           others == FieldsOver(stmt, event, like)
           first == Execute(one, stmt, event, gone)
           second == Execute(other, stmt, event, {})
<1>1. stmt.do \in {"put", "patch", "update", "delete"}
  BY DEF StatementFits
<1>2. DOMAIN one = DOMAIN other
      /\ \A x \in DOMAIN one : RowsAlike(one[x], other[x], gone)
  BY DEF Alike, RowsAlike
<1>3. CASE stmt.do = "put"
  <2> DEFINE at == put[Entities[stmt.entity].key]
  <2>1. first = PutRow(one, stmt.entity, at, put, gone)
        /\ second = PutRow(other, stmt.entity, at, put, {})
    BY <1>3 DEF Execute, PutStatement, FieldsOver
  <2>2. RowsAlike(put, put, gone) /\ first.fine
    BY DEF RowsAlike
  <2> HIDE DEF put, at, first, second
  <2>3. Alike(first.rows, second.rows, gone)
    BY <2>1, <2>2, PutAlike
  <2> QED
    BY <2>3 DEF first, second
<1>4. CASE stmt.do \in {"patch", "update"}
  <2>1. first = IF cell \notin DOMAIN one /\ stmt.do = "update"
                THEN [rows |-> one, fine |-> TRUE]
                ELSE PutRow(one, stmt.entity, key, Over(fields, start), gone)
    BY <1>4 DEF Execute, PatchStatement, StartOf, FieldsOver
  <2>2. second = IF cell \notin DOMAIN other /\ stmt.do = "update"
                 THEN [rows |-> other, fine |-> TRUE]
                 ELSE PutRow(other, stmt.entity, key, Over(others, like), {})
    BY <1>4 DEF Execute, PatchStatement, StartOf, FieldsOver
  <2>3. RowStands(start, stmt.entity, keys, plain)
        /\ RowStands(like, stmt.entity, keys, plain)
    BY <1>4, StartStands
  <2>4. RowsAlike(start, like, gone)
    BY <1>2 DEF StartOf, RowsAlike
  <2> HIDE DEF start, like, key
  <2>5. RowsAlike(fields, others, gone)
    <3>1. DOMAIN fields = DOMAIN stmt.fields /\ DOMAIN others = DOMAIN stmt.fields
          /\ \A c \in DOMAIN stmt.fields :
               /\ fields[c] = Evaluate(stmt.fields[c], event, start)
               /\ others[c] = Evaluate(stmt.fields[c], event, like)
      BY DEF FieldsOver
    <3>2. \A c \in DOMAIN stmt.fields :
            \/ FieldFits(stmt.fields[c], event, <<stmt.entity, c>>, plain)
            \/ ConstFits(stmt.fields[c])
            \/ StoredFits(stmt.fields[c], <<stmt.entity, c>>, plain)
      BY DEF StatementFits
    <3> HIDE DEF fields, others
    <3>3. ASSUME NEW c \in DOMAIN stmt.fields
          PROVE  Seen(fields[c], gone) = Seen(others[c], gone)
      <4>1. CASE StoredFits(stmt.fields[c], <<stmt.entity, c>>, plain)
        <5>1. Seen(Evaluate(stmt.fields[c], event, start), gone) =
                Seen(Evaluate(stmt.fields[c], event, like), gone)
          BY <2>3, <2>4, <4>1, StoredAlike
        <5> QED
          BY <3>1, <5>1
      <4>2. CASE \/ FieldFits(stmt.fields[c], event, <<stmt.entity, c>>, plain)
                 \/ ConstFits(stmt.fields[c])
        <5>1. Evaluate(stmt.fields[c], event, start) =
                Evaluate(stmt.fields[c], event, <<>>)
              /\ Evaluate(stmt.fields[c], event, like) =
                   Evaluate(stmt.fields[c], event, <<>>)
          BY <4>2, GivenValue
        <5> QED
          BY <3>1, <5>1
      <4> QED
        BY <3>2, <4>1, <4>2
    <3> QED
      BY <3>1, <3>3 DEF RowsAlike
  <2> HIDE DEF fields, others
  <2>6. RowsAlike(Over(fields, start), Over(others, like), gone)
    BY <2>4, <2>5, OverAlike
  <2>7. first.fine
    OBVIOUS
  <2> HIDE DEF cell, first, second
  <2>8. CASE cell \notin DOMAIN one /\ stmt.do = "update"
    <3>1. Alike(first.rows, second.rows, gone)
      BY <1>2, <2>1, <2>2, <2>8
    <3> QED
      BY <3>1 DEF first, second
  <2>9. CASE ~(cell \notin DOMAIN one /\ stmt.do = "update")
    <3>1. first = PutRow(one, stmt.entity, key, Over(fields, start), gone)
          /\ second = PutRow(other, stmt.entity, key, Over(others, like), {})
      BY <1>2, <2>1, <2>2, <2>9
    <3>2. Alike(first.rows, second.rows, gone)
      BY <2>6, <2>7, <3>1, PutAlike
    <3> QED
      BY <3>2 DEF first, second
  <2> QED
    BY <2>8, <2>9
<1>5. CASE stmt.do = "delete"
  <2>1. first.rows = [x \in DOMAIN one \ {cell} |-> one[x]]
        /\ second.rows = [x \in DOMAIN other \ {cell} |-> other[x]]
    BY <1>5 DEF Execute, DeleteStatement
  <2> HIDE DEF first, second, cell
  <2>2. Alike(first.rows, second.rows, gone)
    BY <1>2, <2>1 DEF Alike, RowsAlike
  <2> QED
    BY <2>2 DEF first, second
<1> QED
  BY <1>1, <1>3, <1>4, <1>5

-----------------------------------------------------------------------------
(* A record, and a log.                                                    *)

\* What holds first and is kept by every step of so many is held by all.
LEMMA Steps ==
  ASSUME NEW n \in Nat, NEW bad \in SUBSET (0 .. n), 0 \notin bad,
         \A k \in 1 .. n : k - 1 \notin bad => k \notin bad
  PROVE  bad = {}
PROOF
<1> SUFFICES ASSUME bad # {} PROVE FALSE
  OBVIOUS
<1>1. PICK k \in bad : \A j \in bad : ~(j < k)
  BY FirstOf
<1>2. k \in 1 .. n /\ k - 1 < k
  BY <1>1
<1> QED
  BY <1>1, <1>2

\* The rows after so many statements of a record.
RunFrom(handlers, store, event, gone, before, k) ==
  IF k = 0 THEN [rows |-> store, fine |-> TRUE]
  ELSE IF before[k - 1].fine
  THEN Execute(before[k - 1].rows, Body(handlers, event)[k], event, gone)
  ELSE before[k - 1]

\* The rows after so many records of a log.
WholeFrom(handlers, log, gone, before, k) ==
  IF k = 0 THEN [rows |-> <<>>, fine |-> TRUE]
  ELSE IF before[k - 1].fine
  THEN ApplyRecord(handlers, before[k - 1].rows, log[k], gone)
  ELSE before[k - 1]

\* The equation of a record has a solution.
LEMMA RunExists ==
  ASSUME NEW handlers, NEW store, NEW event, NEW gone, NEW n \in Nat
  PROVE  \E f : f = [k \in 0 .. n |-> RunFrom(handlers, store, event, gone, f, k)]
PROOF
<1> DEFINE Each(f, k) == RunFrom(handlers, store, event, gone, f, k)
           Solves(f, m) == f = [k \in 0 .. m |-> Each(f, k)]
           unsolved == {m \in Nat : ~ \E f : Solves(f, m)}
<1>1. \A f, g, k : k = 0 \/ f[k - 1] = g[k - 1] => Each(f, k) = Each(g, k)
  BY DEF RunFrom
<1> HIDE DEF Each
<1>2. unsolved = {}
  <2> SUFFICES ASSUME unsolved # {} PROVE FALSE
    OBVIOUS
  <2>1. PICK m \in unsolved : \A j \in unsolved : ~(j < m)
    <3>1. unsolved \in SUBSET Nat
      OBVIOUS
    <3> HIDE DEF unsolved
    <3> QED
      BY <3>1, FirstOf
  <2>2. CASE m = 0
    <3> DEFINE f == [k \in 0 .. 0 |-> Each(<<>>, 0)]
    <3>1. Solves(f, 0)
      <4>1. \A k \in 0 .. 0 : k = 0
        OBVIOUS
      <4>2. \A k \in 0 .. 0 : Each(f, k) = Each(<<>>, 0)
        <5> HIDE DEF f
        <5> QED
          BY <1>1, <4>1
      <4> QED
        BY <4>2
    <3> HIDE DEF Solves, f
    <3> QED
      BY <2>1, <2>2, <3>1
  <2>3. CASE m # 0
    <3>1. m \in Nat /\ m - 1 \in Nat /\ m - 1 < m
      BY <2>1, <2>3
    <3>2. PICK f : Solves(f, m - 1)
      BY <2>1, <3>1
    <3> DEFINE g == [k \in 0 .. m |-> IF k = m THEN Each(f, m) ELSE f[k]]
    <3>3. \A k \in 0 .. m : k # m => k \in 0 .. m - 1
      BY <3>1
    <3>4. \A k \in 0 .. m - 1 : g[k] = f[k] /\ f[k] = Each(f, k)
      BY <3>1, <3>2
    <3>5. \A k \in 0 .. m : k # 0 => k - 1 \in 0 .. m - 1
      BY <3>1
    <3>6. \A k \in 0 .. m : Each(g, k) = Each(f, k)
      <4> HIDE DEF g
      <4> QED
        BY <1>1, <3>4, <3>5
    <3>7. \A k \in 0 .. m : g[k] = Each(g, k)
      BY <3>3, <3>4, <3>6
    <3>8. Solves(g, m)
      BY <3>7
    <3> HIDE DEF Solves, g
    <3> QED
      BY <2>1, <3>8
  <2> QED
    BY <2>2, <2>3
<1> QED
  BY <1>2 DEF Each

\* And that of a log.
SolvesWhole(handlers, log, gone, n, f) ==
  f = [k \in 0 .. n |-> WholeFrom(handlers, log, gone, f, k)]

\* It has a solution too.
LEMMA WholeExists ==
  ASSUME NEW handlers, NEW log, NEW gone, NEW n \in Nat
  PROVE  \E f : SolvesWhole(handlers, log, gone, n, f)
PROOF
<1> DEFINE Each(f, k) == WholeFrom(handlers, log, gone, f, k)
           Solves(f, m) == f = [k \in 0 .. m |-> Each(f, k)]
           unsolved == {m \in Nat : ~ \E f : Solves(f, m)}
<1>1. \A f, g, k : k = 0 \/ f[k - 1] = g[k - 1] => Each(f, k) = Each(g, k)
  BY DEF WholeFrom
<1> HIDE DEF Each
<1>2. unsolved = {}
  <2> SUFFICES ASSUME unsolved # {} PROVE FALSE
    OBVIOUS
  <2>1. PICK m \in unsolved : \A j \in unsolved : ~(j < m)
    <3>1. unsolved \in SUBSET Nat
      OBVIOUS
    <3> HIDE DEF unsolved
    <3> QED
      BY <3>1, FirstOf
  <2>2. CASE m = 0
    <3> DEFINE f == [k \in 0 .. 0 |-> Each(<<>>, 0)]
    <3>1. Solves(f, 0)
      <4>1. \A k \in 0 .. 0 : k = 0
        OBVIOUS
      <4>2. \A k \in 0 .. 0 : Each(f, k) = Each(<<>>, 0)
        <5> HIDE DEF f
        <5> QED
          BY <1>1, <4>1
      <4> QED
        BY <4>2
    <3> HIDE DEF Solves, f
    <3> QED
      BY <2>1, <2>2, <3>1
  <2>3. CASE m # 0
    <3>1. m \in Nat /\ m - 1 \in Nat /\ m - 1 < m
      BY <2>1, <2>3
    <3>2. PICK f : Solves(f, m - 1)
      BY <2>1, <3>1
    <3> DEFINE g == [k \in 0 .. m |-> IF k = m THEN Each(f, m) ELSE f[k]]
    <3>3. \A k \in 0 .. m : k # m => k \in 0 .. m - 1
      BY <3>1
    <3>4. \A k \in 0 .. m - 1 : g[k] = f[k] /\ f[k] = Each(f, k)
      BY <3>1, <3>2
    <3>5. \A k \in 0 .. m : k # 0 => k - 1 \in 0 .. m - 1
      BY <3>1
    <3>6. \A k \in 0 .. m : Each(g, k) = Each(f, k)
      <4> HIDE DEF g
      <4> QED
        BY <1>1, <3>4, <3>5
    <3>7. \A k \in 0 .. m : g[k] = Each(g, k)
      BY <3>3, <3>4, <3>6
    <3>8. Solves(g, m)
      BY <3>7
    <3> HIDE DEF Solves, g
    <3> QED
      BY <2>1, <3>8
  <2> QED
    BY <2>2, <2>3
<1> QED
  BY <1>2 DEF Each, SolvesWhole

\* So a record is applied statement by statement.
LEMMA RunIs ==
  ASSUME NEW handlers, NEW store, NEW event, NEW gone,
         Len(Body(handlers, event)) \in Nat
  PROVE  \E at :
           /\ ApplyRecord(handlers, store, event, gone) = at[Len(Body(handlers, event))]
           /\ \A k \in 0 .. Len(Body(handlers, event)) :
                at[k] = RunFrom(handlers, store, event, gone, at, k)
PROOF
<1> DEFINE n == Len(Body(handlers, event))
           Solves(f) == f = [k \in 0 .. n |->
                               RunFrom(handlers, store, event, gone, f, k)]
           at == CHOOSE f : Solves(f)
<1>1. ApplyRecord(handlers, store, event, gone) = at[n]
  BY DEF ApplyRecord, RunFrom
<1>2. Solves(at)
  <2>1. \E f : Solves(f)
    <3>1. \A m \in Nat : \E f : f = [k \in 0 .. m |->
                                       RunFrom(handlers, store, event, gone, f, k)]
      BY RunExists
    <3>2. n \in Nat
      OBVIOUS
    <3> HIDE DEF n
    <3>3. \E f : f = [k \in 0 .. n |-> RunFrom(handlers, store, event, gone, f, k)]
      BY ONLY <3>1, <3>2, Zenon
    <3> QED
      BY <3>3 DEF Solves, n
  <2> HIDE DEF Solves
  <2> QED
    BY <2>1
<1> HIDE DEF at
<1>3. \A k \in 0 .. n : at[k] = RunFrom(handlers, store, event, gone, at, k)
  BY <1>2
<1> QED
  BY <1>1, <1>3

\* And a log record by record.
LEMMA WholeIs ==
  ASSUME NEW handlers, NEW log, NEW gone, NEW n \in Nat
  PROVE  \E at : /\ Project(handlers, log, n, gone) = at[n]
                 /\ \A k \in 0 .. n :
                      at[k] = WholeFrom(handlers, log, gone, at, k)
PROOF
<1> DEFINE Solves(f) == f = [k \in 0 .. n |-> WholeFrom(handlers, log, gone, f, k)]
           at == CHOOSE f : Solves(f)
<1>1. Project(handlers, log, n, gone) = at[n]
  BY DEF Project, WholeFrom
<1>2. Solves(at)
  <2>1. \E f : Solves(f)
    <3>1. \E f : SolvesWhole(handlers, log, gone, n, f)
      BY WholeExists
    <3> QED
      BY <3>1 DEF SolvesWhole
  <2> HIDE DEF Solves
  <2> QED
    BY <2>1
<1> HIDE DEF at
<1>3. \A k \in 0 .. n : at[k] = WholeFrom(handlers, log, gone, at, k)
  BY <1>2
<1> QED
  BY <1>1, <1>3

\* What follows what was written is written on from what it follows.
LEMMA WrittenOn ==
  ASSUME NEW store, NEW gone, NEW keys, NEW plain,
         NEW wrote, Written(store, wrote, gone, keys, plain),
         NEW then, Written(wrote.rows, then, gone, keys, plain)
  PROVE  Written(store, then, gone, keys, plain)
PROOF BY DEF Written, Fresh

\* What leaves the rows leaves them standing.
LEMMA WrittenSame ==
  ASSUME NEW store, NEW gone, NEW keys, NEW plain, Stands(store, keys, plain)
  PROVE  Written(store, [rows |-> store, fine |-> TRUE], gone, keys, plain)
PROOF BY DEF Written, Fresh

\* The statements of a record fit, one by one.
LEMMA BodyFits ==
  ASSUME NEW handlers, NEW plain, Types(handlers, plain), NEW event \in Landing
  PROVE  /\ Len(Body(handlers, event)) \in Nat
         /\ \A k \in 1 .. Len(Body(handlers, event)) :
              StatementFits(Body(handlers, event)[k], event, plain)
PROOF
<1> DEFINE body == Body(handlers, event)
<1>1. body \in Seq(Range(body))
      /\ \A stmt \in Range(body) : StatementFits(stmt, event, plain)
  BY DEF Types
<1> HIDE DEF body
<1>2. Len(body) \in Nat /\ \A k \in 1 .. Len(body) : body[k] \in Range(body)
  BY <1>1
<1> QED
  BY <1>1, <1>2 DEF body

\* A record leaves the rows standing, with nothing new in them that is gone.
LEMMA RecordWritten ==
  ASSUME NEW handlers, NEW plain, Types(handlers, plain),
         NEW event \in Landing, NEW keys, KeysOfEvent(event) \subseteq keys,
         NEW gone, NEW store, Stands(store, keys, plain)
  PROVE  Written(store, ApplyRecord(handlers, store, event, gone),
                 gone, keys, plain)
PROOF
<1> DEFINE body == Body(handlers, event)
           n == Len(body)
<1>1. n \in Nat /\ \A k \in 1 .. n : StatementFits(body[k], event, plain)
  BY BodyFits
<1>2. PICK at : /\ ApplyRecord(handlers, store, event, gone) = at[n]
                /\ \A k \in 0 .. n :
                     at[k] = RunFrom(handlers, store, event, gone, at, k)
  BY <1>1, RunIs
<1> HIDE DEF n
<1> DEFINE bad == {k \in 0 .. n : ~Written(store, at[k], gone, keys, plain)}
<1>3. 0 \notin bad
  <2>1. at[0] = [rows |-> store, fine |-> TRUE]
    <3>1. 0 \in 0 .. n
      BY <1>1
    <3>2. at[0] = RunFrom(handlers, store, event, gone, at, 0)
      BY <1>2, <3>1
    <3> QED
      BY <3>2 DEF RunFrom
  <2> QED
    BY <2>1, WrittenSame
<1>4. ASSUME NEW k \in 1 .. n, k - 1 \notin bad PROVE k \notin bad
  <2>1. k \in 0 .. n /\ k - 1 \in 0 .. n /\ k # 0
    BY <1>1
  <2>2. Written(store, at[k - 1], gone, keys, plain)
    BY <1>4, <2>1
  <2>3. at[k] = IF at[k - 1].fine
                THEN Execute(at[k - 1].rows, body[k], event, gone)
                ELSE at[k - 1]
    BY <1>2, <2>1 DEF RunFrom
  <2>4. Stands(at[k - 1].rows, keys, plain)
    BY <2>2 DEF Written
  <2>5. Written(at[k - 1].rows, Execute(at[k - 1].rows, body[k], event, gone),
                gone, keys, plain)
    BY <1>1, <2>4, StatementWritten
  <2>6. Written(store, at[k], gone, keys, plain)
    BY <2>2, <2>3, <2>5, WrittenOn
  <2> QED
    BY <2>6
<1>5. bad = {}
  <2>1. bad \in SUBSET (0 .. n)
    OBVIOUS
  <2> HIDE DEF bad
  <2> QED
    BY <1>1, <1>3, <1>4, <2>1, Steps
<1>6. n \in 0 .. n
  BY <1>1
<1> QED
  BY <1>2, <1>5, <1>6

\* A record keeps alike what was, if it does not raise.
LEMMA RecordAlike ==
  ASSUME NEW handlers, NEW plain, Types(handlers, plain),
         NEW event \in Landing, NEW keys, KeysOfEvent(event) \subseteq keys,
         NEW gone, NEW one, Stands(one, keys, plain),
         NEW other, Stands(other, keys, plain), Alike(one, other, gone),
         ApplyRecord(handlers, one, event, gone).fine
  PROVE  Alike(ApplyRecord(handlers, one, event, gone).rows,
               ApplyRecord(handlers, other, event, {}).rows, gone)
PROOF
<1> DEFINE body == Body(handlers, event)
           n == Len(body)
<1>1. n \in Nat /\ \A k \in 1 .. n : StatementFits(body[k], event, plain)
  BY BodyFits
<1>2. PICK at : /\ ApplyRecord(handlers, one, event, gone) = at[n]
                /\ \A k \in 0 .. n :
                     at[k] = RunFrom(handlers, one, event, gone, at, k)
  BY <1>1, RunIs
<1>3. PICK by : /\ ApplyRecord(handlers, other, event, {}) = by[n]
                /\ \A k \in 0 .. n :
                     by[k] = RunFrom(handlers, other, event, {}, by, k)
  BY <1>1, RunIs
<1> HIDE DEF n
<1> DEFINE Good(k) == /\ Stands(at[k].rows, keys, plain)
                      /\ Stands(by[k].rows, keys, plain) /\ by[k].fine
                      /\ at[k].fine => Alike(at[k].rows, by[k].rows, gone)
           bad == {k \in 0 .. n : ~Good(k)}
<1>4. 0 \notin bad
  <2>1. at[0] = [rows |-> one, fine |-> TRUE]
        /\ by[0] = [rows |-> other, fine |-> TRUE]
    <3>1. 0 \in 0 .. n
      BY <1>1
    <3>2. at[0] = RunFrom(handlers, one, event, gone, at, 0)
          /\ by[0] = RunFrom(handlers, other, event, {}, by, 0)
      BY <1>2, <1>3, <3>1
    <3> QED
      BY <3>2 DEF RunFrom
  <2> QED
    BY <2>1
<1>5. ASSUME NEW k \in 1 .. n, k - 1 \notin bad PROVE k \notin bad
  <2>1. k \in 0 .. n /\ k - 1 \in 0 .. n /\ k # 0
    BY <1>1
  <2>2. Good(k - 1)
    BY <1>5, <2>1
  <2> DEFINE was == at[k - 1].rows
             like == by[k - 1].rows
  <2>3. at[k] = IF at[k - 1].fine THEN Execute(was, body[k], event, gone)
                ELSE at[k - 1]
    BY <1>2, <2>1 DEF RunFrom
  <2>4. by[k] = Execute(like, body[k], event, {})
    BY <1>3, <2>1, <2>2 DEF RunFrom
  <2>5. StatementFits(body[k], event, plain)
    BY <1>1
  <2>6. Written(was, Execute(was, body[k], event, gone), gone, keys, plain)
    BY <2>2, <2>5, StatementWritten
  <2>7. Written(like, by[k], {}, keys, plain)
    BY <2>2, <2>4, <2>5, StatementWritten
  <2>8. Stands(at[k].rows, keys, plain)
        /\ Stands(by[k].rows, keys, plain) /\ by[k].fine
    BY <2>2, <2>3, <2>6, <2>7 DEF Written
  <2>9. ASSUME at[k].fine PROVE Alike(at[k].rows, by[k].rows, gone)
    <3>1. at[k - 1].fine /\ at[k] = Execute(was, body[k], event, gone)
      BY <2>3, <2>9
    <3>2. /\ Alike(was, like, gone)
          /\ Stands(was, keys, plain) /\ Stands(like, keys, plain)
      BY <2>2, <3>1
    <3> HIDE DEF was, like, body
    <3>3. Execute(was, body[k], event, gone).fine
      BY <2>9, <3>1
    <3> QED
      BY <2>4, <2>5, <3>1, <3>2, <3>3, StatementAlike
  <2> QED
    BY <2>8, <2>9
<1>6. bad = {}
  <2>1. bad \in SUBSET (0 .. n)
    OBVIOUS
  <2> HIDE DEF bad
  <2> QED
    BY <1>1, <1>4, <1>5, <2>1, Steps
<1>7. Good(n)
  BY <1>1, <1>6
<1> QED
  BY <1>2, <1>3, <1>7

\* No rows stand.
LEMMA NoRowsStand ==
  ASSUME NEW keys, NEW plain
  PROVE  Stands(<<>>, keys, plain)
PROOF
<1>1. DOMAIN <<>> = {} /\ <<>> = [cell \in DOMAIN <<>> |-> <<>>[cell]]
  OBVIOUS
<1> QED
  BY <1>1 DEF Stands

\* A log built so far, record by record.
Builds(handlers, log, gone, n, at) ==
  \A k \in 0 .. n : at[k] = WholeFrom(handlers, log, gone, at, k)

\* Two that are built of the same records are the same.
LEMMA BuildsAlike ==
  ASSUME NEW handlers, NEW log, NEW more, NEW gone, NEW n \in Nat, NEW m \in Nat,
         n <= m, \A k \in 1 .. n : log[k] = more[k],
         NEW at, Builds(handlers, log, gone, n, at),
         NEW by, Builds(handlers, more, gone, m, by)
  PROVE  \A k \in 0 .. n : at[k] = by[k]
PROOF
<1> DEFINE bad == {k \in 0 .. n : at[k] # by[k]}
<1>1. \A k \in 0 .. n : k \in 0 .. m
  OBVIOUS
<1>2. \A k \in 0 .. n : /\ at[k] = WholeFrom(handlers, log, gone, at, k)
                        /\ by[k] = WholeFrom(handlers, more, gone, by, k)
  BY <1>1 DEF Builds
<1>3. 0 \notin bad
  <2>1. 0 \in 0 .. n
    OBVIOUS
  <2> QED
    BY <1>2, <2>1 DEF WholeFrom
<1>4. ASSUME NEW k \in 1 .. n, k - 1 \notin bad PROVE k \notin bad
  <2>1. k \in 0 .. n /\ k - 1 \in 0 .. n /\ k # 0
    OBVIOUS
  <2>2. at[k - 1] = by[k - 1] /\ log[k] = more[k]
    BY <1>4, <2>1
  <2>3. WholeFrom(handlers, log, gone, at, k) = WholeFrom(handlers, more, gone, by, k)
    BY <2>1, <2>2 DEF WholeFrom
  <2> QED
    BY <1>2, <2>1, <2>3
<1>5. bad = {}
  <2>1. bad \in SUBSET (0 .. n)
    OBVIOUS
  <2> HIDE DEF bad
  <2> QED
    BY <1>3, <1>4, <2>1, Steps
<1> QED
  BY <1>5

\* So a projection of a log's first records is one of a longer log's.
LEMMA WholeSame ==
  ASSUME NEW handlers, NEW log, NEW more, NEW gone, NEW n \in Nat,
         \A k \in 1 .. n : log[k] = more[k]
  PROVE  Project(handlers, log, n, gone) = Project(handlers, more, n, gone)
PROOF
<1>1. PICK at : Project(handlers, log, n, gone) = at[n]
                /\ Builds(handlers, log, gone, n, at)
  BY WholeIs DEF Builds
<1>2. PICK by : Project(handlers, more, n, gone) = by[n]
                /\ Builds(handlers, more, gone, n, by)
  BY WholeIs DEF Builds
<1>3. \A k \in 0 .. n : at[k] = by[k]
  BY <1>1, <1>2, BuildsAlike
<1> QED
  BY <1>1, <1>2, <1>3

\* And one more record is applied to the rows of those before it.
LEMMA WholeNext ==
  ASSUME NEW handlers, NEW log, NEW gone, NEW n \in Nat
  PROVE  Project(handlers, log, n + 1, gone) =
           IF Project(handlers, log, n, gone).fine
           THEN ApplyRecord(handlers, Project(handlers, log, n, gone).rows,
                            log[n + 1], gone)
           ELSE Project(handlers, log, n, gone)
PROOF
<1> DEFINE m == n + 1
<1>1. PICK at : Project(handlers, log, n, gone) = at[n]
                /\ Builds(handlers, log, gone, n, at)
  BY WholeIs DEF Builds
<1>2. m \in Nat /\ n <= m /\ m \in 0 .. m /\ m # 0 /\ m - 1 = n
  OBVIOUS
<1> HIDE DEF m
<1>3. PICK by : Project(handlers, log, m, gone) = by[m]
                /\ Builds(handlers, log, gone, m, by)
  BY <1>2, WholeIs DEF Builds
<1>4. \A k \in 0 .. n : at[k] = by[k]
  BY <1>1, <1>2, <1>3, BuildsAlike
<1>5. by[n] = Project(handlers, log, n, gone)
  BY <1>1, <1>4
<1>6. by[m] = WholeFrom(handlers, log, gone, by, m)
  BY <1>2, <1>3 DEF Builds
<1>7. by[m] = IF by[n].fine THEN ApplyRecord(handlers, by[n].rows, log[m], gone)
              ELSE by[n]
  BY <1>2, <1>6 DEF WholeFrom
<1> QED
  BY <1>3, <1>5, <1>7 DEF m

\* No records, no rows.
LEMMA WholeNone ==
  ASSUME NEW handlers, NEW log, NEW gone
  PROVE  Project(handlers, log, 0, gone) = [rows |-> <<>>, fine |-> TRUE]
PROOF
<1>1. PICK at : Project(handlers, log, 0, gone) = at[0]
                /\ Builds(handlers, log, gone, 0, at)
  BY WholeIs DEF Builds
<1>2. at[0] = WholeFrom(handlers, log, gone, at, 0)
  BY <1>1 DEF Builds
<1> QED
  BY <1>1, <1>2 DEF WholeFrom

\* The keys of a record are keys of the log.
LEMMA KeysOfRecord ==
  ASSUME NEW log \in Seq(Landing), NEW k \in 1 .. Len(log)
  PROVE  log[k] \in Landing /\ KeysOfEvent(log[k]) \subseteq KeysOfLog(log)
PROOF BY DEF KeysOfLog

\* A projection stands, with nothing in it that is gone; and one that takes
\* nothing out does not raise.
LEMMA WholeWritten ==
  ASSUME NEW handlers, NEW plain, Types(handlers, plain), NEW gone,
         NEW log \in Seq(Landing), NEW n \in 0 .. Len(log)
  PROVE  Written(<<>>, Project(handlers, log, n, gone), gone,
                 KeysOfLog(log), plain)
PROOF
<1> DEFINE keys == KeysOfLog(log)
           Good(k) == Written(<<>>, Project(handlers, log, k, gone), gone,
                              keys, plain)
           bad == {k \in 0 .. n : ~Good(k)}
<1>1. Len(log) \in Nat /\ n \in Nat
  OBVIOUS
<1>2. 0 \notin bad
  <2>1. Stands(<<>>, keys, plain)
    BY NoRowsStand
  <2> QED
    BY <2>1, WholeNone, WrittenSame
<1>3. ASSUME NEW k \in 1 .. n, k - 1 \notin bad PROVE k \notin bad
  <2> DEFINE j == k - 1
             was == Project(handlers, log, j, gone)
  <2>1. j \in 0 .. n /\ j \in Nat /\ j + 1 = k /\ k \in 1 .. Len(log)
    BY <1>1
  <2>2. Good(j)
    BY <1>3, <2>1
  <2> HIDE DEF j
  <2>3. Project(handlers, log, k, gone) =
          IF was.fine THEN ApplyRecord(handlers, was.rows, log[k], gone) ELSE was
    BY <2>1, WholeNext
  <2>4. log[k] \in Landing /\ KeysOfEvent(log[k]) \subseteq keys
    BY <2>1, KeysOfRecord
  <2>5. Stands(was.rows, keys, plain)
    BY <2>2 DEF Written
  <2> HIDE DEF was, keys
  <2>6. Written(was.rows, ApplyRecord(handlers, was.rows, log[k], gone),
                gone, keys, plain)
    BY <2>4, <2>5, RecordWritten
  <2>7. Good(k)
    BY <2>2, <2>3, <2>6, WrittenOn DEF was
  <2> QED
    BY <2>7
<1>4. bad = {}
  <2>1. bad \in SUBSET (0 .. n)
    OBVIOUS
  <2> HIDE DEF bad
  <2> QED
    BY <1>1, <1>2, <1>3, <2>1, Steps
<1> QED
  BY <1>1, <1>4

\* A projection that takes out what is gone is alike one that does not, if it
\* does not raise.
LEMMA WholeAlike ==
  ASSUME NEW handlers, NEW plain, Types(handlers, plain), NEW gone,
         NEW log \in Seq(Landing), NEW n \in 0 .. Len(log),
         Project(handlers, log, n, gone).fine
  PROVE  Alike(Project(handlers, log, n, gone).rows,
               Project(handlers, log, n, {}).rows, gone)
PROOF
<1> DEFINE keys == KeysOfLog(log)
           Good(k) == Project(handlers, log, k, gone).fine =>
                        Alike(Project(handlers, log, k, gone).rows,
                              Project(handlers, log, k, {}).rows, gone)
           bad == {k \in 0 .. n : ~Good(k)}
<1>1. Len(log) \in Nat /\ n \in Nat
  OBVIOUS
<1>2. 0 \notin bad
  BY WholeNone DEF Alike
<1>3. ASSUME NEW k \in 1 .. n, k - 1 \notin bad PROVE k \notin bad
  <2> DEFINE j == k - 1
             was == Project(handlers, log, j, gone)
             like == Project(handlers, log, j, {})
  <2>1. j \in 0 .. n /\ j \in Nat /\ j + 1 = k /\ k \in 1 .. Len(log)
        /\ j \in 0 .. Len(log)
    BY <1>1
  <2>2. Good(j)
    BY <1>3, <2>1
  <2> HIDE DEF j
  <2>3. Project(handlers, log, k, gone) =
          IF was.fine THEN ApplyRecord(handlers, was.rows, log[k], gone) ELSE was
    BY <2>1, WholeNext
  <2>4. Written(<<>>, was, gone, keys, plain) /\ Written(<<>>, like, {}, keys, plain)
    BY <2>1, WholeWritten
  <2>5. Stands(was.rows, keys, plain) /\ Stands(like.rows, keys, plain) /\ like.fine
    BY <2>4 DEF Written
  <2>6. Project(handlers, log, k, {}) = ApplyRecord(handlers, like.rows, log[k], {})
    BY <2>1, <2>5, WholeNext
  <2>7. log[k] \in Landing /\ KeysOfEvent(log[k]) \subseteq keys
    BY <2>1, KeysOfRecord
  <2>8. was.fine => Alike(was.rows, like.rows, gone)
    BY <2>2
  <2> HIDE DEF was, like, keys
  <2>9. ASSUME Project(handlers, log, k, gone).fine
        PROVE  Alike(Project(handlers, log, k, gone).rows,
                     Project(handlers, log, k, {}).rows, gone)
    <3>1. was.fine
          /\ Project(handlers, log, k, gone) = ApplyRecord(handlers, was.rows, log[k], gone)
      BY <2>3, <2>9
    <3>2. ApplyRecord(handlers, was.rows, log[k], gone).fine
      BY <2>9, <3>1
    <3>3. Alike(ApplyRecord(handlers, was.rows, log[k], gone).rows,
                ApplyRecord(handlers, like.rows, log[k], {}).rows, gone)
      BY <2>5, <2>7, <2>8, <3>1, <3>2, RecordAlike
    <3> QED
      BY <2>6, <3>1, <3>3
  <2> QED
    BY <2>9
<1>4. bad = {}
  <2>1. bad \in SUBSET (0 .. n)
    OBVIOUS
  <2> HIDE DEF bad
  <2> QED
    BY <1>1, <1>2, <1>3, <2>1, Steps
<1> QED
  BY <1>1, <1>4

-----------------------------------------------------------------------------
(* What is gone, now and later.                                            *)

\* What no one can read of a log once so many keys are erased.
UnreadableOf(log, dead) ==
  {key \in KeysOfLog(log) \cup dead : ToldAbove(log, key) \cap dead # {}}

\* It is what the rows are read with.
LEMMA NowIs ==
  /\ Now = UnreadableOf(records, erased)
  /\ Now' = UnreadableOf(records', erased')
PROOF
<1>1. DOMAIN Told(records) = KeysOfLog(records)
      /\ DOMAIN Told(records') = KeysOfLog(records')
  BY DEF Told
<1> QED
  BY <1>1 DEF Now, Unreadable, Gone, UnreadableOf, ToldAbove

\* Of the keys of the log it is what hangs from an erased one.
LEMMA UnreadableHangs ==
  ASSUME WrapsAlike, NEW log \in Seq(Landing), NEW key \in KeysOfLog(log),
         NEW dead
  PROVE  key \in UnreadableOf(log, dead) <=> HangsFrom(log, key) \cap dead # {}
PROOF BY ToldIsStored DEF UnreadableOf

\* Rows stand in a longer log.
LEMMA StandsOn ==
  ASSUME NEW store, NEW keys, NEW plain, Stands(store, keys, plain),
         NEW more, keys \subseteq more
  PROVE  Stands(store, more, plain)
PROOF BY DEF Stands, RowStands

\* What is alike is alike whatever else is gone.
LEMMA AlikeLater ==
  ASSUME NEW one, NEW other, NEW gone, Alike(one, other, gone),
         NEW more, gone \subseteq more
  PROVE  Alike(one, other, more)
PROOF
<1>1. \A cell \in DOMAIN one : \A c \in DOMAIN one[cell] :
        Seen(one[cell][c], more) = Seen(other[cell][c], more)
  BY SeenLater DEF Alike
<1> QED
  BY <1>1 DEF Alike

\* And where the same is gone of the keys of its rows.
LEMMA AlikeStill ==
  ASSUME NEW keys, NEW plain, NEW one, Stands(one, keys, plain),
         NEW other, Stands(other, keys, plain),
         NEW gone, Alike(one, other, gone),
         NEW after, \A key \in keys : key \in gone <=> key \in after
  PROVE  Alike(one, other, after)
PROOF
<1>1. \A cell \in DOMAIN one : \A c \in DOMAIN one[cell] :
        Sealed(one[cell][c]) => one[cell][c] \in keys
  BY DEF Stands, RowStands
<1>2. \A cell \in DOMAIN other : \A c \in DOMAIN other[cell] :
        Sealed(other[cell][c]) => other[cell][c] \in keys
  BY DEF Stands, RowStands
<1>3. \A v : (Sealed(v) => v \in keys) => Seen(v, after) = Seen(v, gone)
  BY DEF Seen
<1>4. \A cell \in DOMAIN one : \A c \in DOMAIN one[cell] :
        Seen(one[cell][c], after) = Seen(other[cell][c], after)
  BY <1>1, <1>2, <1>3 DEF Alike
<1> QED
  BY <1>4 DEF Alike

-----------------------------------------------------------------------------
(* The invariant is inductive.                                             *)

\* The columns of a deployed projector fit.
LEMMA PlainFits ==
  ASSUME NEW p \in Projectors
  PROVE  Types(p, Plain(p))
PROOF
<1>1. \E plain \in SUBSET AllColumns : Types(p, plain)
  BY ProjectorsAssumption DEF Types, AllColumns
<1> QED
  BY <1>1 DEF Plain

\* No records, no rows, and nothing to be seen in them.
LEMMA RowsInitially ==
  ASSUME ProjectionInit
  PROVE  RowsInv
PROOF
<1>1. /\ projector \in Projectors /\ records = <<>> /\ rows = <<>> /\ given = 0
  BY DEF ProjectionInit
<1>2. records \in Seq(Landing) /\ given \in 0 .. Len(records)
  BY <1>1
<1>3. Stands(rows, KeysOfLog(records), Plain(projector))
  BY <1>1, NoRowsStand
<1>4. Whole.rows = <<>>
  BY <1>1, WholeNone DEF Whole
<1>5. Alike(rows, Whole.rows, Now)
  BY <1>1, <1>4 DEF Alike
<1> QED
  BY <1>1, <1>2, <1>3, <1>5 DEF RowsInv

\* A record that lands hangs nothing elsewhere.
LEMMA RowsLanded ==
  ASSUME WrapsAlike, RowsInv, NEW event \in Landing, LandRecord(event)
  PROVE  RowsInv'
PROOF
<1> DEFINE keys == KeysOfLog(records)
           plain == Plain(projector)
<1>1. /\ projector \in Projectors /\ records \in Seq(Landing)
      /\ given \in 0 .. Len(records)
      /\ Stands(rows, keys, plain)
      /\ ~stuck => Alike(rows, Whole.rows, Now)
  BY DEF RowsInv
<1>2. /\ records' = Append(records, event) /\ projector' = projector
      /\ erased' = erased /\ rows' = rows /\ given' = given /\ stuck' = stuck
  BY DEF LandRecord
<1>3. records' \in Seq(Landing) /\ given' \in 0 .. Len(records')
      /\ given \in Nat /\ \A k \in 1 .. given : records'[k] = records[k]
  BY <1>1, <1>2
<1>4. keys \subseteq KeysOfLog(records')
  BY <1>1, <1>2, HangsStill
<1>5. Stands(rows', KeysOfLog(records'), Plain(projector'))
  BY <1>1, <1>2, <1>4, StandsOn
<1>6. Whole' = Whole
  <2>1. Project(projector, records, given, {}) = Project(projector, records', given, {})
    BY <1>3, WholeSame
  <2> QED
    BY <1>2, <2>1 DEF Whole
<1>7. \A key \in keys : key \in Now <=> key \in Now'
  <2> TAKE key \in keys
  <2>1. key \in Now <=> HangsFrom(records, key) \cap erased # {}
    BY <1>1, NowIs, UnreadableHangs
  <2>2. key \in Now' <=> HangsFrom(records', key) \cap erased # {}
    BY <1>2, <1>3, <1>4, NowIs, UnreadableHangs
  <2>3. HangsFrom(records', key) = HangsFrom(records, key)
    BY <1>1, <1>2, HangsStill
  <2> QED
    BY <2>1, <2>2, <2>3
<1>8. ASSUME ~stuck PROVE Alike(rows, Whole.rows, Now')
  <2>1. Written(<<>>, Whole, {}, keys, plain)
    BY <1>1, PlainFits, WholeWritten DEF Whole
  <2>2. Stands(Whole.rows, keys, plain)
    BY <2>1 DEF Written
  <2>3. Alike(rows, Whole.rows, Now)
    BY <1>1, <1>8
  <2> QED
    BY <1>1, <1>7, <2>2, <2>3, AlikeStill
<1>9. ~stuck' => Alike(rows', (Whole.rows)', Now')
  BY <1>2, <1>6, <1>8
<1> QED
  BY <1>1, <1>2, <1>3, <1>5, <1>9 DEF RowsInv

\* What is erased is gone from the rows and from a rebuild alike.
LEMMA RowsErased ==
  ASSUME RowsInv, NEW key, EraseKey(key)
  PROVE  RowsInv'
PROOF
<1>1. /\ projector \in Projectors /\ records \in Seq(Landing)
      /\ given \in 0 .. Len(records)
      /\ Stands(rows, KeysOfLog(records), Plain(projector))
      /\ ~stuck => Alike(rows, Whole.rows, Now)
  BY DEF RowsInv
<1>2. /\ records' = records /\ projector' = projector
      /\ erased' = erased \cup {key} /\ rows' = rows /\ given' = given
      /\ stuck' = stuck
  BY DEF EraseKey
<1>3. Whole' = Whole
  BY <1>2 DEF Whole
<1>4. Now \subseteq Now'
  <2>1. UnreadableOf(records, erased) \subseteq UnreadableOf(records, erased')
    BY <1>2 DEF UnreadableOf
  <2> QED
    BY <1>2, <2>1, NowIs
<1>5. ~stuck => Alike(rows, Whole.rows, Now')
  BY <1>1, <1>4, AlikeLater
<1> QED
  BY <1>1, <1>2, <1>3, <1>5 DEF RowsInv

\* What is gone stays what it is where neither the log nor the erased keys
\* change.
LEMMA NowStill ==
  ASSUME records' = records, erased' = erased
  PROVE  Now' = Now
PROOF BY NowIs

\* A record applied to the rows and to a projection of what was before it
\* leaves the same to be seen, if it does not raise.
LEMMA RowsApplied ==
  ASSUME RowsInv, ApplyNext
  PROVE  /\ RowsInv'
         /\ Stands(rows', KeysOfLog(records), Plain(projector))
         /\ Fresh(rows, rows', Now)
PROOF
<1> DEFINE keys == KeysOfLog(records)
           plain == Plain(projector)
           event == records[given + 1]
           wrote == ApplyRecord(projector, rows, event, Now)
<1>1. /\ projector \in Projectors /\ records \in Seq(Landing)
      /\ given \in 0 .. Len(records)
      /\ Stands(rows, keys, plain)
      /\ ~stuck => Alike(rows, Whole.rows, Now)
  BY DEF RowsInv
<1>2. /\ ~stuck /\ given < Len(records)
      /\ rows' = wrote.rows /\ stuck' = ~wrote.fine
      /\ given' = IF wrote.fine THEN given + 1 ELSE given
      /\ projector' = projector /\ records' = records /\ erased' = erased
  BY DEF ApplyNext, Now
<1>3. Types(projector, plain)
  BY <1>1, PlainFits
<1>4. given \in Nat /\ given + 1 \in 1 .. Len(records)
      /\ given' \in 0 .. Len(records)
  BY <1>1, <1>2
<1>5. event \in Landing /\ KeysOfEvent(event) \subseteq keys
  BY <1>1, <1>4, KeysOfRecord
<1> HIDE DEF event, keys, plain
<1>6. Written(rows, wrote, Now, keys, plain)
  BY <1>1, <1>3, <1>5, RecordWritten
<1>7. Stands(rows', keys, plain) /\ Fresh(rows, rows', Now)
  BY <1>2, <1>6 DEF Written
<1>8. Now' = Now
  BY <1>2, NowStill
<1>9. ASSUME ~stuck' PROVE Alike(rows', (Whole.rows)', Now)
  <2>1. wrote.fine /\ given' = given + 1
    BY <1>2, <1>9
  <2>2. Written(<<>>, Whole, {}, keys, plain)
    BY <1>1, <1>3, WholeWritten DEF Whole, keys
  <2>3. Stands(Whole.rows, keys, plain) /\ Whole.fine
    BY <2>2 DEF Written
  <2>4. Whole' = Project(projector, records, given + 1, {})
    BY <1>2, <2>1 DEF Whole
  <2>5. Whole' = ApplyRecord(projector, Whole.rows, event, {})
    BY <1>4, <2>3, <2>4, WholeNext DEF Whole, event
  <2>6. Alike(rows, Whole.rows, Now)
    BY <1>1, <1>2
  <2>7. Alike(wrote.rows, ApplyRecord(projector, Whole.rows, event, {}).rows, Now)
    BY <1>1, <1>3, <1>5, <2>1, <2>3, <2>6, RecordAlike
  <2> QED
    BY <1>2, <2>5, <2>7
<1> QED
  BY <1>1, <1>2, <1>4, <1>7, <1>8, <1>9 DEF RowsInv, keys, plain

\* Rows that are built again are what they were to be seen as, and hold
\* nothing that is gone.
LEMMA RowsBuilt ==
  ASSUME RowsInv, ProjectAgain
  PROVE  /\ RowsInv'
         /\ Stands(rows', KeysOfLog(records), Plain(projector))
         /\ Fresh(<<>>, rows', Now)
PROOF
<1> DEFINE keys == KeysOfLog(records)
           plain == Plain(projector)
           built == Project(projector, records, given, Now)
<1>1. /\ projector \in Projectors /\ records \in Seq(Landing)
      /\ given \in 0 .. Len(records)
  BY DEF RowsInv
<1>2. /\ built.fine /\ rows' = built.rows
      /\ projector' = projector /\ records' = records /\ erased' = erased
      /\ given' = given /\ stuck' = stuck
  BY DEF ProjectAgain, Now
<1>3. Types(projector, plain)
  BY <1>1, PlainFits
<1> HIDE DEF plain
<1>4. Written(<<>>, built, Now, keys, plain)
  BY <1>1, <1>3, WholeWritten
<1>5. Alike(built.rows, Whole.rows, Now)
  BY <1>1, <1>2, <1>3, WholeAlike DEF Whole
<1> HIDE DEF built, keys
<1>6. Stands(rows', keys, plain) /\ Fresh(<<>>, rows', Now)
  BY <1>2, <1>4 DEF Written
<1>7. Now' = Now /\ Whole' = Whole
  BY <1>2, NowStill DEF Whole
<1>8. Alike(rows', (Whole.rows)', Now')
  BY <1>2, <1>5, <1>7
<1> QED
  BY <1>1, <1>2, <1>6, <1>8 DEF RowsInv, keys, plain

\* And no step leaves the invariant.
LEMMA RowsStep ==
  ASSUME WrapsAlike, RowsInv, [ProjectionNext]_projectionVars
  PROVE  RowsInv'
PROOF
<1>1. ASSUME UNCHANGED projectionVars PROVE RowsInv'
  <2>1. /\ projector' = projector /\ records' = records /\ erased' = erased
        /\ rows' = rows /\ given' = given /\ stuck' = stuck
    BY <1>1 DEF projectionVars
  <2>2. Now' = Now /\ Whole' = Whole
    BY <2>1, NowStill DEF Whole
  <2> QED
    BY <2>1, <2>2 DEF RowsInv
<1> QED
  BY <1>1, RowsLanded, RowsErased, RowsApplied, RowsBuilt DEF ProjectionNext

-----------------------------------------------------------------------------
(* The theorems.                                                           *)

\* The invariant, where events do not say two things of one key.
THEOREM RowsInvariant ==
  ASSUME WrapsAlike
  PROVE  ProjectionSpec => []RowsInv
PROOF BY RowsInitially, RowsStep, PTL DEF ProjectionSpec

\* Of the keys of the log, it is gone what is lost.
LEMMA LostIsNow ==
  ASSUME WrapsAlike, RowsInv, NEW key \in KeysOfLog(records)
  PROVE  /\ key \in Now <=> Lost(key)
         /\ Gone(key, Told(records)) <=> Lost(key)
PROOF
<1>1. records \in Seq(Landing)
  BY DEF RowsInv
<1>2. key \in Now <=> HangsFrom(records, key) \cap erased # {}
  BY <1>1, NowIs, UnreadableHangs
<1>3. ToldAbove(records, key) = HangsFrom(records, key)
  BY <1>1, ToldIsStored
<1> QED
  BY <1>2, <1>3 DEF Lost, Gone, ToldAbove

\* What a runner tells a world of a log's keys is what a key store that
\* recorded them one by one would say (src/src/testing.rs:151), of any log
\* whose events say the same of what is above a key: an erasure reaches
\* exactly the content that hangs from it.
THEOREM WhatIsToldIsStored ==
  ASSUME WrapsAlike
  PROVE  ProjectionSpec => []MintedAsStored
PROOF
<1>1. RowsInv => MintedAsStored
  BY LostIsNow DEF MintedAsStored, KeysOfLog
<1> QED
  BY <1>1, RowsInvariant, PTL

\* Building the read model again changes nothing but what was erased, for any
\* projector and any order of records, erasures and rebuilds (docs/
\* projectors.md rule 9; `Projection::apply` of src/src/interp.rs).
THEOREM RebuildIsTheSame ==
  ASSUME WrapsAlike
  PROVE  ProjectionSpec => []RebuildsTheSame
PROOF
<1> DEFINE keys == KeysOfLog(records)
           plain == Plain(projector)
           built == Project(projector, records, given, Now)
<1>1. ASSUME RowsInv, built.fine, ~stuck
      PROVE  built.rows = [cell \in DOMAIN rows |->
               [c \in DOMAIN rows[cell] |->
                 IF Sealed(rows[cell][c]) /\ Lost(rows[cell][c]) THEN None
                 ELSE rows[cell][c]]]
  <2>1. /\ projector \in Projectors /\ records \in Seq(Landing)
        /\ given \in 0 .. Len(records)
        /\ Stands(rows, keys, plain) /\ Alike(rows, Whole.rows, Now)
    BY <1>1 DEF RowsInv
  <2>2. Types(projector, plain)
    BY <2>1, PlainFits
  <2> HIDE DEF plain
  <2>3. Written(<<>>, built, Now, keys, plain)
    BY <2>1, <2>2, WholeWritten
  <2>4. Alike(built.rows, Whole.rows, Now)
    BY <1>1, <2>1, <2>2, WholeAlike DEF Whole
  <2>5. \A key \in keys : key \in Now <=> Lost(key)
    BY <1>1, LostIsNow
  <2> DEFINE new == built.rows
  <2>6. Stands(new, keys, plain) /\ Fresh(<<>>, new, Now)
    BY <2>3 DEF Written
  <2> HIDE DEF built, keys, new
  <2>7. /\ new = [cell \in DOMAIN new |-> new[cell]]
        /\ DOMAIN new = DOMAIN rows
        /\ \A cell \in DOMAIN rows :
             /\ DOMAIN new[cell] = DOMAIN rows[cell]
             /\ new[cell] = [c \in DOMAIN new[cell] |-> new[cell][c]]
             /\ Readable(new[cell], Now)
             /\ \A c \in DOMAIN rows[cell] :
                  /\ Seen(new[cell][c], Now) = Seen(rows[cell][c], Now)
                  /\ Sealed(rows[cell][c]) => rows[cell][c] \in keys
    <3>1. DOMAIN new = DOMAIN rows
          /\ \A cell \in DOMAIN rows :
               /\ DOMAIN new[cell] = DOMAIN rows[cell]
               /\ \A c \in DOMAIN rows[cell] :
                    Seen(new[cell][c], Now) = Seen(rows[cell][c], Now)
      BY <2>1, <2>4 DEF Alike, new
    <3>2. new = [cell \in DOMAIN new |-> new[cell]]
          /\ \A cell \in DOMAIN new :
               new[cell] = [c \in DOMAIN new[cell] |-> new[cell][c]]
      <4>1. new = [cell \in DOMAIN new |-> new[cell]]
        BY <2>6 DEF Stands
      <4>2. \A cell \in DOMAIN new : RowStands(new[cell], cell[1], keys, plain)
        BY <2>6 DEF Stands
      <4>3. \A row, entity : RowStands(row, entity, keys, plain) =>
              row = [c \in DOMAIN row |-> row[c]]
        BY DEF RowStands
      <4> QED
        BY <4>1, <4>2, <4>3
    <3>3. \A cell \in DOMAIN new : Readable(new[cell], Now)
      BY <2>6 DEF Fresh
    <3>4. \A cell \in DOMAIN rows : \A c \in DOMAIN rows[cell] :
            Sealed(rows[cell][c]) => rows[cell][c] \in keys
      BY <2>1 DEF Stands, RowStands
    <3> QED
      BY <3>1, <3>2, <3>3, <3>4
  <2>8. \A cell \in DOMAIN rows : \A c \in DOMAIN rows[cell] :
          new[cell][c] =
            IF Sealed(rows[cell][c]) /\ Lost(rows[cell][c]) THEN None
            ELSE rows[cell][c]
    <3> TAKE cell \in DOMAIN rows
    <3> TAKE c \in DOMAIN rows[cell]
    <3> DEFINE value == new[cell][c]
               had == rows[cell][c]
    <3>1. Seen(value, Now) = Seen(had, Now)
          /\ (Sealed(had) => had \in keys)
          /\ (Sealed(value) => value \notin Now)
      BY <2>7 DEF Readable
    <3>2. Seen(value, Now) = value
      BY <3>1 DEF Seen
    <3>3. Sealed(had) => (had \in Now <=> Lost(had))
      BY <2>5, <3>1
    <3> HIDE DEF value, had
    <3> QED
      BY <3>1, <3>2, <3>3 DEF Seen, value, had
  <2>9. \A cell \in DOMAIN rows :
          new[cell] = [c \in DOMAIN rows[cell] |->
                         IF Sealed(rows[cell][c]) /\ Lost(rows[cell][c]) THEN None
                         ELSE rows[cell][c]]
    BY <2>7, <2>8
  <2>10. new = [cell \in DOMAIN rows |->
                  [c \in DOMAIN rows[cell] |->
                    IF Sealed(rows[cell][c]) /\ Lost(rows[cell][c]) THEN None
                    ELSE rows[cell][c]]]
    BY <2>7, <2>9
  <2> QED
    BY <2>10 DEF new
<1>2. RowsInv => RebuildsTheSame
  BY <1>1 DEF RebuildsTheSame, Now
<1> QED
  BY <1>2, RowsInvariant, PTL

\* A record that is applied, or a read model that is built again, writes no
\* content whose key, or a key above it, is gone: what an erase leaves in a
\* row is gone from it at the row's next write (docs/projectors.md rule 9).
THEOREM NothingGoneIsWritten ==
  ASSUME WrapsAlike
  PROVE  ProjectionSpec => WritesNothingGone
PROOF
<1> DEFINE Clean == \A cell \in DOMAIN rows' :
             cell \notin DOMAIN rows \/ rows'[cell] # rows[cell] =>
               \A c \in DOMAIN rows'[cell] :
                 Sealed(rows'[cell][c]) => ~Lost(rows'[cell][c])
<1>1. ASSUME RowsInv, rows' = rows PROVE Clean
  BY <1>1
<1>2. ASSUME RowsInv, Stands(rows', KeysOfLog(records), Plain(projector)),
             NEW store, Fresh(store, rows', Now),
             \A cell \in DOMAIN store :
               cell \in DOMAIN rows /\ store[cell] = rows[cell]
      PROVE  Clean
  <2> SUFFICES ASSUME NEW cell \in DOMAIN rows',
                      cell \notin DOMAIN rows \/ rows'[cell] # rows[cell],
                      NEW c \in DOMAIN rows'[cell], Sealed(rows'[cell][c])
               PROVE  ~Lost(rows'[cell][c])
    OBVIOUS
  <2>1. Readable(rows'[cell], Now)
    BY <1>2 DEF Fresh
  <2>2. rows'[cell][c] \in KeysOfLog(records)
    BY <1>2 DEF Stands, RowStands
  <2>3. rows'[cell][c] \notin Now
    BY <2>1 DEF Readable
  <2> QED
    BY <1>2, <2>2, <2>3, LostIsNow
<1>3. ASSUME RowsInv, ApplyNext PROVE Clean
  <2>1. Stands(rows', KeysOfLog(records), Plain(projector))
        /\ Fresh(rows, rows', Now)
    BY <1>3, RowsApplied
  <2> HIDE DEF Clean
  <2> QED
    BY <1>2, <1>3, <2>1
<1>4. ASSUME RowsInv, ProjectAgain PROVE Clean
  <2>1. Stands(rows', KeysOfLog(records), Plain(projector))
        /\ Fresh(<<>>, rows', Now)
    BY <1>4, RowsBuilt
  <2>2. DOMAIN <<>> = {}
    OBVIOUS
  <2> HIDE DEF Clean
  <2> QED
    BY <1>2, <1>4, <2>1, <2>2
<1>5. ASSUME RowsInv, [ProjectionNext]_projectionVars PROVE [Clean]_projectionVars
  <2>1. CASE UNCHANGED projectionVars
    BY <2>1
  <2>2. ASSUME NEW event \in Landing, LandRecord(event) PROVE Clean
    BY <1>1, <1>5, <2>2 DEF LandRecord
  <2>3. ASSUME NEW key \in AnyKey, EraseKey(key) PROVE Clean
    BY <1>1, <1>5, <2>3 DEF EraseKey
  <2> HIDE DEF Clean
  <2> QED
    BY <1>3, <1>4, <1>5, <2>1, <2>2, <2>3 DEF ProjectionNext
<1>6. RowsInv /\ [ProjectionNext]_projectionVars => [Clean]_projectionVars
  BY <1>5
<1>7. ProjectionSpec => [][Clean]_projectionVars
  BY <1>6, RowsInvariant, PTL DEF ProjectionSpec
<1> QED
  BY <1>7 DEF WritesNothingGone

=============================================================================
