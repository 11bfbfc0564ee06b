------------------------- MODULE DerivedTablesProofs -------------------------
(***************************************************************************)
(* DerivedTables, proved for every accepted program: no key reaches an arm *)
(* whose gate it fails, and every column holds what it is defined to hold, *)
(* followed or rebuilt.                                                    *)
(***************************************************************************)
EXTENDS DerivedTables, FiniteSetTheorems, WellFoundedInduction, TLAPS

Arm(f, n) == program[f].arms[n]

Table(f) == program[f].table

---------------------------------------------------------------------------
(* Declarations.                                                           *)

\* An accepted program is shaped as the parser leaves one.
LEMMA ProgramFacts ==
  ASSUME program \in Programs, NEW f \in DOMAIN program
  PROVE  /\ \A key \in KeysOf(Table(f)) :
              /\ key = [p \in PartsOf(program, f) |-> key[p]]
              /\ \A p \in PartsOf(program, f) : key[p] # NoValue
         /\ program[f].arms \in Seq(Range(program[f].arms))
         /\ DirectReads(program, f) \subseteq DOMAIN program
         /\ \A g \in DirectReads(program, f) : Stored(program, g)
PROOF
<1>1. Accepted(program) /\ Shaped(program)
  BY ProgramsAssumption
<1> QED
  BY <1>1 DEF Accepted, Shaped, Table

\* So is each of its arms.
LEMMA ArmFacts ==
  ASSUME program \in Programs, NEW f \in DOMAIN program,
         NEW n \in DOMAIN program[f].arms
  PROVE  /\ Arm(f, n).where \in Seq(Range(Arm(f, n).where))
         /\ DOMAIN Arm(f, n).gates \subseteq PartsOf(program, f)
         /\ DOMAIN Arm(f, n).keys \subseteq PartsOf(program, f)
         /\ Params(Arm(f, n)) \subseteq PartsOf(program, f)
         /\ \A p \in DOMAIN Arm(f, n).gates : Arm(f, n).gates[p] # NoValue
         /\ \A w \in Range(Arm(f, n).where) : w.is.src \in {"part", "const"}
         /\ DOMAIN Arm(f, n).keys \cap DOMAIN Arm(f, n).gates = {}
         /\ DOMAIN Arm(f, n).keys # {} \/ Arm(f, n).lookups # <<>> =>
              \A p \in Params(Arm(f, n)) :
                Match(Arm(f, n), p).how \in {"fixed", "field"}
PROOF
<1>1. Accepted(program) /\ Shaped(program)
  BY ProgramsAssumption
<1>2. ArmAccepted(program, f, n)
  BY <1>1 DEF Accepted
<1>3. /\ Arm(f, n).where \in Seq(Range(Arm(f, n).where))
      /\ DOMAIN Arm(f, n).gates \cup DOMAIN Arm(f, n).keys
           \cup Params(Arm(f, n)) \subseteq PartsOf(program, f)
      /\ \A p \in DOMAIN Arm(f, n).gates : Arm(f, n).gates[p] # NoValue
      /\ \A w \in Range(Arm(f, n).where) : w.is.src \in {"part", "const"}
  BY <1>1 DEF Shaped, Arm
<1> QED
  BY <1>2, <1>3 DEF ArmAccepted, Arm

\* The least of some numbers is one of them.
LEMMA MinIsIn ==
  ASSUME NEW S \in SUBSET Nat, S # {}
  PROVE  Min(S) \in S
PROOF
<1>1. PICK x \in S : \A y \in S : ~(<<y, x>> \in OpToRel(<, Nat))
  BY WFMin, NatLessThanWellFounded
<1>2. \A y \in S : ~(y < x)
  BY <1>1 DEF OpToRel
<1>3. x \in S /\ \A y \in S : x <= y
  BY <1>2
<1> QED
  BY <1>3 DEF Min

FixedAt(arm, p) == Match(arm, p).how = "fixed" /\ Match(arm, p).by = arm.gates[p]

ComputedAt(arm, p) ==
  Match(arm, p).how = "computed" /\ Match(arm, p).by = arm.keys[p]

FieldAt(arm, p) ==
  /\ Match(arm, p).how = "field"
  /\ \E n \in DOMAIN arm.where :
       arm.where[n].is = Part(p) /\ Match(arm, p).by = arm.where[n].field

\* How an arm fills a part.
LEMMA MatchIs ==
  ASSUME NEW arm, NEW p, arm.where \in Seq(Range(arm.where))
  PROVE  \/ p \in DOMAIN arm.gates /\ FixedAt(arm, p)
         \/ p \notin DOMAIN arm.gates /\ p \in DOMAIN arm.keys /\ ComputedAt(arm, p)
         \/ /\ p \notin DOMAIN arm.gates /\ p \notin DOMAIN arm.keys
            /\ FieldAt(arm, p) \/ Match(arm, p).how = "open"
PROOF
<1> DEFINE pins == {n \in DOMAIN arm.where : arm.where[n].is = Part(p)}
<1>1. pins \in SUBSET Nat
  OBVIOUS
<1>2. pins # {} => Min(pins) \in pins
  BY <1>1, MinIsIn
<1> HIDE DEF pins
<1>3. CASE p \in DOMAIN arm.gates
  BY <1>3 DEF Match, FixedAt
<1>4. CASE p \notin DOMAIN arm.gates /\ p \in DOMAIN arm.keys
  BY <1>4 DEF Match, ComputedAt
<1>5. CASE p \notin DOMAIN arm.gates \cup DOMAIN arm.keys /\ pins # {}
  <2>1. Match(arm, p) = [how |-> "field", by |-> arm.where[Min(pins)].field]
    BY <1>5 DEF Match, pins
  <2>2. Min(pins) \in DOMAIN arm.where /\ arm.where[Min(pins)].is = Part(p)
    BY <1>2, <1>5 DEF pins
  <2> QED
    BY <1>5, <2>1, <2>2 DEF FieldAt
<1>6. CASE p \notin DOMAIN arm.gates \cup DOMAIN arm.keys /\ pins = {}
  <2>1. Match(arm, p) = [how |-> "open"]
    BY <1>6 DEF Match, pins
  <2> QED
    BY <1>6, <2>1
<1> QED
  BY <1>3, <1>4, <1>5, <1>6

---------------------------------------------------------------------------
(* The keys an arm writes.                                                 *)

\* What an arm pins, part by part.
PinsArm(pins, f, n, event, read) ==
  /\ pins = [p \in DOMAIN pins |-> pins[p]]
  /\ DOMAIN pins = {p \in PartsOf(program, f) : Match(Arm(f, n), p).how # "open"}
  /\ DOMAIN Arm(f, n).gates \subseteq DOMAIN pins
  /\ DOMAIN Arm(f, n).keys \subseteq DOMAIN pins
  /\ \A p \in DOMAIN Arm(f, n).gates :
       pins[p] = Arm(f, n).gates[p] /\ FixedAt(Arm(f, n), p)
  /\ \A p \in DOMAIN Arm(f, n).keys :
       /\ pins[p] = ValueOf(Arm(f, n).keys[p].is, <<>>, event, read)
       /\ ComputedAt(Arm(f, n), p)
  /\ \A p \in DOMAIN pins :
       \/ p \in DOMAIN Arm(f, n).gates
       \/ p \in DOMAIN Arm(f, n).keys
       \/ /\ FieldAt(Arm(f, n), p)
          /\ pins[p] = event.with[Match(Arm(f, n), p).by]

\* PinsOf is what an arm pins.
LEMMA PinsAre ==
  ASSUME program \in Programs, NEW f \in DOMAIN program,
         NEW n \in DOMAIN program[f].arms, NEW event, NEW read
  PROVE  PinsArm(PinsOf(f, n, event, read), f, n, event, read)
PROOF
<1> DEFINE pins == PinsOf(f, n, event, read)
           arm == Arm(f, n)
           pinned == {p \in PartsOf(program, f) : Match(arm, p).how # "open"}
<1>1. /\ arm.where \in Seq(Range(arm.where))
      /\ DOMAIN arm.gates \subseteq PartsOf(program, f)
      /\ DOMAIN arm.keys \subseteq PartsOf(program, f)
      /\ DOMAIN arm.keys \cap DOMAIN arm.gates = {}
  BY ArmFacts
<1>2. pins = [p \in pinned |->
                CASE Match(arm, p).how = "field"    -> event.with[Match(arm, p).by]
                  [] Match(arm, p).how = "fixed"    -> Match(arm, p).by
                  [] Match(arm, p).how = "computed" ->
                        ValueOf(Match(arm, p).by.is, <<>>, event, read)]
  BY DEF PinsOf, Arm
<1> HIDE DEF pins, arm
<1>3. pins = [p \in DOMAIN pins |-> pins[p]] /\ DOMAIN pins = pinned
  BY <1>2
<1>4. \A p \in DOMAIN arm.gates :
        p \in DOMAIN pins /\ pins[p] = arm.gates[p] /\ FixedAt(arm, p)
  <2> SUFFICES ASSUME NEW p \in DOMAIN arm.gates
               PROVE  p \in DOMAIN pins /\ pins[p] = arm.gates[p] /\ FixedAt(arm, p)
    OBVIOUS
  <2>1. FixedAt(arm, p)
    BY <1>1, MatchIs
  <2>2. p \in pinned
    BY <1>1, <2>1 DEF FixedAt
  <2> QED
    BY <1>2, <1>3, <2>1, <2>2 DEF FixedAt
<1>5. \A p \in DOMAIN arm.keys :
        /\ p \in DOMAIN pins /\ ComputedAt(arm, p)
        /\ pins[p] = ValueOf(arm.keys[p].is, <<>>, event, read)
  <2> SUFFICES ASSUME NEW p \in DOMAIN arm.keys
               PROVE  /\ p \in DOMAIN pins /\ ComputedAt(arm, p)
                      /\ pins[p] = ValueOf(arm.keys[p].is, <<>>, event, read)
    OBVIOUS
  <2>1. ComputedAt(arm, p)
    BY <1>1, MatchIs
  <2>2. p \in pinned
    BY <1>1, <2>1 DEF ComputedAt
  <2> QED
    BY <1>2, <1>3, <2>1, <2>2 DEF ComputedAt
<1>6. \A p \in DOMAIN pins :
        \/ p \in DOMAIN arm.gates
        \/ p \in DOMAIN arm.keys
        \/ FieldAt(arm, p) /\ pins[p] = event.with[Match(arm, p).by]
  <2> SUFFICES ASSUME NEW p \in DOMAIN pins,
                      p \notin DOMAIN arm.gates, p \notin DOMAIN arm.keys
               PROVE  FieldAt(arm, p) /\ pins[p] = event.with[Match(arm, p).by]
    OBVIOUS
  <2>1. p \in pinned
    BY <1>3
  <2>2. FieldAt(arm, p)
    BY <1>1, <2>1, MatchIs
  <2> QED
    BY <1>2, <2>1, <2>2 DEF FieldAt
<1> QED
  BY <1>3, <1>4, <1>5, <1>6 DEF pins, arm, PinsArm

\* A key with the parts an arm pins passes the arm's gates.
LEMMA CoveredIsLive ==
  ASSUME program \in Programs, NEW f \in DOMAIN program,
         NEW n \in DOMAIN program[f].arms, NEW event, NEW read,
         NEW key, Covers(PinsOf(f, n, event, read), key)
  PROVE  Live(Arm(f, n), key)
PROOF
<1> DEFINE pins == PinsOf(f, n, event, read)
<1>1. PinsArm(pins, f, n, event, read)
  BY PinsAre
<1> QED
  BY <1>1 DEF PinsArm, Live, Covers

\* A key an arm takes has the parts the arm pins, and none of them is none.
LEMMA TakenIsCovered ==
  ASSUME program \in Programs, NEW f \in DOMAIN program,
         NEW n \in DOMAIN program[f].arms, NEW event, NEW read,
         NEW key \in KeysOf(Table(f)), Takes(Arm(f, n), key, event, read)
  PROVE  /\ Covers(PinsOf(f, n, event, read), key)
         /\ \A p \in DOMAIN PinsOf(f, n, event, read) :
              PinsOf(f, n, event, read)[p] # NoValue
PROOF
<1> DEFINE pins == PinsOf(f, n, event, read)
           arm == Arm(f, n)
<1>1. /\ \A p \in DOMAIN arm.gates : key[p] = arm.gates[p]
      /\ \A p \in DOMAIN arm.keys :
           ValueOf(arm.keys[p].is, <<>>, event, read) = key[p]
  BY DEF Takes, Live, Mine
<1>2. \A w \in DOMAIN arm.where :
        event.with[arm.where[w].field] = ValueOf(arm.where[w].is, key, event, <<>>)
  BY DEF Takes, Filtered
<1>0. PinsArm(pins, f, n, event, read)
  BY PinsAre
<1>3. DOMAIN pins \subseteq PartsOf(program, f)
  BY <1>0 DEF PinsArm
<1>4. /\ \A p \in DOMAIN arm.gates : pins[p] = arm.gates[p]
      /\ \A p \in DOMAIN arm.keys :
           pins[p] = ValueOf(arm.keys[p].is, <<>>, event, read)
      /\ \A p \in DOMAIN pins :
           \/ p \in DOMAIN arm.gates
           \/ p \in DOMAIN arm.keys
           \/ FieldAt(arm, p) /\ pins[p] = event.with[Match(arm, p).by]
  <2> HIDE DEF pins
  <2> QED
    BY <1>0 DEF PinsArm
<1> HIDE DEF pins, arm
<1>5. ASSUME NEW p \in DOMAIN pins, FieldAt(arm, p),
             pins[p] = event.with[Match(arm, p).by]
      PROVE  key[p] = pins[p]
  <2>1. PICK w \in DOMAIN arm.where :
          arm.where[w].is = Part(p) /\ Match(arm, p).by = arm.where[w].field
    BY <1>5 DEF FieldAt
  <2>2. ValueOf(Part(p), key, event, <<>>) = key[p]
    BY DEF ValueOf, Part
  <2> QED
    BY <1>2, <1>5, <2>1, <2>2
<1>6. \A p \in DOMAIN pins : key[p] = pins[p]
  BY <1>1, <1>4, <1>5
<1>7. \A p \in PartsOf(program, f) : key[p] # NoValue
  BY ProgramFacts
<1> QED
  BY <1>3, <1>6, <1>7 DEF Covers, pins

\* A record an arm takes at a key passes the filter on the parts that need
\* neither a lookup nor a computed part.
LEMMA TakenIsNarrowed ==
  ASSUME program \in Programs, NEW f \in DOMAIN program,
         NEW n \in DOMAIN program[f].arms, NEW event, NEW read,
         NEW key \in KeysOf(Table(f)), Takes(Arm(f, n), key, event, read)
  PROVE  Narrowed(f, n, event)
PROOF
<1> DEFINE arm   == Arm(f, n)
           early == {p \in PartsOf(program, f) : Match(arm, p).how \in {"field", "fixed"}}
           part  == [p \in early |->
                       IF Match(arm, p).how = "fixed" THEN Match(arm, p).by
                       ELSE event.with[Match(arm, p).by]]
<1> SUFFICES ASSUME DOMAIN arm.keys # {} \/ arm.lookups # <<>>
             PROVE  NoValue \notin Range(part) /\ Filtered(arm, part, event)
  BY DEF Narrowed, Arm
<1>1. /\ arm.where \in Seq(Range(arm.where))
      /\ Params(arm) \subseteq PartsOf(program, f)
      /\ \A w \in Range(arm.where) : w.is.src \in {"part", "const"}
      /\ \A p \in Params(arm) : Match(arm, p).how \in {"fixed", "field"}
  BY ArmFacts
<1>2. Filtered(arm, key, event) /\ Live(arm, key)
  BY DEF Takes
<1>3. \A p \in PartsOf(program, f) : key[p] # NoValue
  BY ProgramFacts
<1> HIDE DEF arm
<1>4. ASSUME NEW p \in early
      PROVE  part[p] = key[p]
  <2>1. CASE Match(arm, p).how = "fixed"
    <3>1. p \in DOMAIN arm.gates /\ FixedAt(arm, p)
      BY <1>1, <2>1, MatchIs DEF FieldAt, ComputedAt
    <3> QED
      BY <1>2, <2>1, <3>1 DEF Live, FixedAt
  <2>2. CASE Match(arm, p).how = "field"
    <3>1. FieldAt(arm, p)
      BY <1>1, <2>2, MatchIs DEF FixedAt, ComputedAt
    <3>2. PICK w \in DOMAIN arm.where :
            arm.where[w].is = Part(p) /\ Match(arm, p).by = arm.where[w].field
      BY <3>1 DEF FieldAt
    <3>3. ValueOf(Part(p), key, event, <<>>) = key[p]
      BY DEF ValueOf, Part
    <3> QED
      BY <1>2, <2>2, <3>2, <3>3 DEF Filtered
  <2> QED
    BY <2>1, <2>2
<1>5. NoValue \notin Range(part)
  BY <1>3, <1>4 DEF Range
<1>6. ASSUME NEW w \in DOMAIN arm.where
      PROVE  ValueOf(arm.where[w].is, part, event, <<>>)
               = ValueOf(arm.where[w].is, key, event, <<>>)
  <2>1. arm.where[w] \in Range(arm.where)
    BY DEF Range
  <2>2. CASE arm.where[w].is.src = "part"
    <3>1. arm.where[w].is.of \in Params(arm)
      BY <2>1, <2>2 DEF Params
    <3>2. arm.where[w].is.of \in early
      BY <1>1, <3>1
    <3> QED
      BY <1>4, <2>2, <3>2 DEF ValueOf
  <2>3. CASE arm.where[w].is.src = "const"
    BY <2>3 DEF ValueOf
  <2> QED
    BY <1>1, <2>1, <2>2, <2>3
<1>7. Filtered(arm, part, event)
  BY <1>2, <1>6 DEF Filtered
<1> QED
  BY <1>5, <1>7

\* A key an arm writes is one it takes.
LEMMA WrittenIsTaken ==
  ASSUME program \in Programs, NEW f \in DOMAIN program,
         NEW n \in DOMAIN program[f].arms, NEW event, NEW read, NEW key,
         Covers(PinsOf(f, n, event, read), key),
         ~Skips(Arm(f, n), event, read), Filtered(Arm(f, n), key, event)
  PROVE  Takes(Arm(f, n), key, event, read)
PROOF
<1> DEFINE pins == PinsOf(f, n, event, read)
<1>1. Live(Arm(f, n), key)
  BY CoveredIsLive
<1>2. PinsArm(pins, f, n, event, read)
  BY PinsAre
<1>3. \A p \in DOMAIN pins : key[p] = pins[p]
  BY DEF Covers
<1> HIDE DEF pins
<1>4. \A p \in DOMAIN Arm(f, n).keys :
        ValueOf(Arm(f, n).keys[p].is, <<>>, event, read) = key[p]
  BY <1>2, <1>3 DEF PinsArm
<1> QED
  BY <1>1, <1>4 DEF Takes, Mine

\* An arm that pins the whole key covers one key, the one it pins.
LEMMA PinnedCoversOne ==
  ASSUME program \in Programs, NEW f \in DOMAIN program,
         NEW n \in DOMAIN program[f].arms, NEW event, NEW read,
         NEW key \in KeysOf(Table(f)), Pinned(program, f, n)
  PROVE  Covers(PinsOf(f, n, event, read), key) <=> key = PinsOf(f, n, event, read)
PROOF
<1> DEFINE pins == PinsOf(f, n, event, read)
<1>1. PinsArm(pins, f, n, event, read)
  BY PinsAre
<1> HIDE DEF pins
<1>2. pins = [p \in PartsOf(program, f) |-> pins[p]]
  <2>1. DOMAIN pins = PartsOf(program, f)
    BY <1>1 DEF PinsArm, Pinned, Arm
  <2> QED
    BY <1>1, <2>1 DEF PinsArm
<1>3. key = [p \in PartsOf(program, f) |-> key[p]]
  BY ProgramFacts
<1> QED
  BY <1>2, <1>3 DEF Covers, pins

\* The keys an arm writes: the ones it takes and, where it ranges, of those
\* the ones with a row.
LEMMA ArmKeysAre ==
  ASSUME program \in Programs, NEW f \in DOMAIN program,
         NEW n \in DOMAIN program[f].arms, NEW event, NEW read,
         NEW key \in KeysOf(Table(f)), NEW store, NEW minted, NEW lax
  PROVE  key \in ArmKeys(store, f, n, event, read, minted, lax) <=>
           /\ Takes(Arm(f, n), key, event, read)
           /\ Pinned(program, f, n) \/ key \in Rows(store, Table(f)) \cup minted
PROOF
<1> DEFINE pins    == PinsOf(f, n, event, read)
           nothing == \/ ~Narrowed(f, n, event)
                      \/ Skips(Arm(f, n), event, read)
                      \/ \E p \in DOMAIN pins :
                           /\ Match(Arm(f, n), p).how = "field"
                           /\ pins[p] = NoValue
           ranged  == {k \in Offered(store, f, pins, lax) \cup minted : Covers(pins, k)}
           keys    == IF nothing THEN {}
                      ELSE IF Pinned(program, f, n) THEN {pins} ELSE ranged
<1>1. key \in ArmKeys(store, f, n, event, read, minted, lax) <=>
        key \in keys /\ Filtered(Arm(f, n), key, event)
  BY DEF ArmKeys, Candidates, Arm
<1>2. Takes(Arm(f, n), key, event, read) =>
        /\ ~nothing /\ Covers(pins, key)
        /\ Filtered(Arm(f, n), key, event)
  <2> SUFFICES ASSUME Takes(Arm(f, n), key, event, read)
               PROVE  /\ ~nothing /\ Covers(pins, key)
                      /\ Filtered(Arm(f, n), key, event)
    OBVIOUS
  <2>1. /\ Covers(pins, key)
        /\ \A p \in DOMAIN pins : pins[p] # NoValue
    BY TakenIsCovered
  <2>2. Narrowed(f, n, event)
    BY TakenIsNarrowed
  <2>3. Filtered(Arm(f, n), key, event) /\ ~Skips(Arm(f, n), event, read)
    BY DEF Takes, Mine
  <2> HIDE DEF pins
  <2> QED
    BY <2>1, <2>2, <2>3
<1>3. /\ ~nothing /\ Covers(pins, key) /\ Filtered(Arm(f, n), key, event)
      => Takes(Arm(f, n), key, event, read)
  BY WrittenIsTaken
<1>4. key \in ranged <=> key \in Rows(store, Table(f)) \cup minted /\ Covers(pins, key)
  BY DEF Offered, Table
<1>5. Pinned(program, f, n) => (Covers(pins, key) <=> key = pins)
  BY PinnedCoversOne
<1> HIDE DEF pins, nothing, ranged
<1> QED
  BY <1>1, <1>2, <1>3, <1>4, <1>5

---------------------------------------------------------------------------
(* No gate fails.                                                          *)

\* What an arm considers has the parts it pins.
LEMMA CandidatesAreCovered ==
  ASSUME NEW f, NEW n, NEW event, NEW read, NEW store, NEW minted, NEW lax,
         NEW key \in Candidates(store, f, n, event, read, minted, lax)
  PROVE  Covers(PinsOf(f, n, event, read), key)
PROOF
<1> DEFINE pins == PinsOf(f, n, event, read)
<1>1. \/ key = pins
      \/ Covers(pins, key)
  <2> HIDE DEF pins
  <2> QED
    BY DEF Candidates, pins
<1> QED
  BY <1>1 DEF Covers

\* No step hands an arm a key that its gate refuses.
LEMMA NoDeadGates ==
  ASSUME program \in Programs, NEW folds \in SUBSET DOMAIN program,
         NEW store, NEW at, NEW lax
  PROVE  ~DeadGates(store, at, folds, lax)
PROOF
<1> SUFFICES ASSUME DeadGates(store, at, folds, lax) PROVE FALSE
  OBVIOUS
<1> DEFINE event == log[at + 1]
<1>1. PICK a \in ArmsOn(folds, event) :
        LET read == ReadBefore(store, a[1], a[2], event)
        IN  \E key \in Candidates(store, a[1], a[2], event, read,
                         Minted(store, folds, event, program[a[1]].table, lax), lax) :
              ~Live(program[a[1]].arms[a[2]], key)
  BY DEF DeadGates
<1>2. PICK f \in folds : \E n \in DOMAIN program[f].arms : a = <<f, n>>
  BY <1>1 DEF ArmsOn
<1>3. PICK n \in DOMAIN program[f].arms : a = <<f, n>>
  BY <1>2
<1> DEFINE read   == ReadBefore(store, f, n, event)
           minted == Minted(store, folds, event, Table(f), lax)
<1>4. PICK key \in Candidates(store, f, n, event, read, minted, lax) :
        ~Live(Arm(f, n), key)
  BY <1>1, <1>3 DEF Arm, Table
<1>5. Covers(PinsOf(f, n, event, read), key)
  BY <1>4, CandidatesAreCovered
<1> QED
  BY <1>4, <1>5, CoveredIsLive

---------------------------------------------------------------------------
(* Arms in their order.                                                    *)

IsList(s) == \E S : s \in Seq(S)

\* Lists end to end are a list, and none of it is lost.
LEMMA ListsEndToEnd ==
  ASSUME NEW s, NEW t, IsList(s), IsList(t)
  PROVE  /\ IsList(s \o t)
         /\ s \o t = <<>> <=> s = <<>> /\ t = <<>>
         /\ t = <<>> => s \o t = s
PROOF
<1>1. PICK S : s \in Seq(S)
  BY DEF IsList
<1>2. PICK T : t \in Seq(T)
  BY DEF IsList
<1> DEFINE U == S \cup T
<1>3. s \in Seq(U) /\ t \in Seq(U)
  BY <1>1, <1>2
<1> HIDE DEF U
<1>4. s \o t \in Seq(U) /\ Len(s \o t) = Len(s) + Len(t)
  BY <1>3
<1>5. Len(s) \in Nat /\ Len(t) \in Nat
  BY <1>3
<1>6. /\ s = <<>> <=> Len(s) = 0
      /\ t = <<>> <=> Len(t) = 0
      /\ s \o t = <<>> <=> Len(s \o t) = 0
  BY <1>3, <1>4
<1>7. t = <<>> => s \o t = s
  BY <1>3
<1> QED
  BY <1>4, <1>5, <1>6, <1>7 DEF IsList

\* What some arms of a fold leave, one by one in their order, is a list, and
\* empty only if there are none.
LEMMA InOrderFacts ==
  ASSUME NEW arms, IsFiniteSet(arms), NEW left,
         left = [i \in DOMAIN InOrder(arms) |-> left[i]]
  PROVE  /\ IsList(left)
         /\ left = <<>> <=> arms = {}
PROOF
<1> DEFINE n == Cardinality(arms)
<1>1. n \in Nat /\ (n = 0 <=> arms = {})
  BY FS_CardinalityType, FS_EmptySet
<1>2. DOMAIN InOrder(arms) = 1 .. n
  BY DEF InOrder
<1> HIDE DEF n
<1>3. left = [i \in 1 .. n |-> left[i]] /\ DOMAIN left = 1 .. n
  BY <1>2
<1> DEFINE S == {left[i] : i \in 1 .. n}
<1>4. left \in [1 .. n -> S]
  BY <1>3
<1> HIDE DEF S
<1>5. left \in Seq(S) /\ Len(left) = n
  BY <1>1, <1>3, <1>4
<1>6. left = <<>> <=> n = 0
  BY <1>1, <1>5
<1> QED
  BY <1>1, <1>5, <1>6 DEF IsList

---------------------------------------------------------------------------
(* What the columns are defined to hold.                                   *)

\* The rows are the ones some column that makes them stands in, and every
\* trace is a list.
RowsStand(now) ==
  /\ \A f \in AllFolds : \A key \in KeysOf(Table(f)) :
       now.trace[f][key] # <<>> => <<Table(f), key>> \in now.rows
  /\ \A row \in now.rows :
       \E f \in AllFolds : \E key \in KeysOf(Table(f)) :
         /\ row = <<Table(f), key>>
         /\ Mints(program, f)
         /\ now.trace[f][key] # <<>>

TracesAreLists(now) ==
  \A f \in DOMAIN program : \A key \in KeysOf(Table(f)) : IsList(now.trace[f][key])

Stands(now) == RowsStand(now) /\ TracesAreLists(now)

\* What the arms that take a record at a key leave.
Left(now, at, event, f, key) ==
  LET order == InOrder(TakesIn(now, event, f, key))
  IN  [i \in DOMAIN order |->
         Entry(Arm(f, order[i]), order[i], at, key, event,
               ReadAt(now, event, f, order[i]))]

\* A record adds what the arms that take it leave.
LEMMA DefinedIs ==
  ASSUME program \in Programs, NEW now, NEW at, NEW event, TracesAreLists(now),
         NEW f \in DOMAIN program, NEW key \in KeysOf(Table(f))
  PROVE  LET next == Defined(now, at, event)
             left == Left(now, at, event, f, key)
             takes == TakesIn(now, event, f, key)
         IN  /\ next.trace[f][key] = now.trace[f][key] \o left
             /\ IsList(left) /\ IsList(next.trace[f][key])
             /\ next.trace[f][key] = <<>> <=> now.trace[f][key] = <<>> /\ takes = {}
             /\ takes = {} => next.trace[f][key] = now.trace[f][key]
PROOF
<1> DEFINE next == Defined(now, at, event)
           left == Left(now, at, event, f, key)
           takes == TakesIn(now, event, f, key)
<1>1. next.trace[f][key] = now.trace[f][key] \o left
  BY DEF Defined, Left, Table, Arm
<1>2. IsFiniteSet(takes)
  <2>1. program[f].arms \in Seq(Range(program[f].arms))
    BY ProgramFacts
  <2>2. DOMAIN program[f].arms = 1 .. Len(program[f].arms)
        /\ Len(program[f].arms) \in Nat
    BY <2>1
  <2>3. IsFiniteSet(DOMAIN program[f].arms)
    BY <2>2, FS_Interval
  <2>4. takes \subseteq DOMAIN program[f].arms
    BY DEF TakesIn
  <2> QED
    BY <2>3, <2>4, FS_Subset
<1>3. left = [i \in DOMAIN InOrder(takes) |-> left[i]]
  BY DEF Left
<1>4. IsList(left) /\ (left = <<>> <=> takes = {})
  <2> HIDE DEF left, takes
  <2> QED
    BY <1>2, <1>3, InOrderFacts
<1>5. IsList(now.trace[f][key])
  BY DEF TracesAreLists
<1> HIDE DEF next, left, takes
<1> QED
  BY <1>1, <1>4, <1>5, ListsEndToEnd DEF next, left, takes

\* A row is made by a column that pins its key, of a stored fold.
LEMMA BornIs ==
  ASSUME NEW now, NEW event, NEW row
  PROVE  row \in Born(now, event) <=>
           \E f \in AllFolds : \E key \in KeysOf(Table(f)) :
             /\ row = <<Table(f), key>>
             /\ \E n \in DOMAIN program[f].arms :
                  Pinned(program, f, n) /\ TakenAt(now, event, f, n, key)
  BY DEF Born, AllFolds, Kept, Table

\* What the columns are defined to hold stands, record by record.
LEMMA DefinedStands ==
  ASSUME program \in Programs, NEW now, Stands(now), NEW at, NEW event
  PROVE  Stands(Defined(now, at, event))
PROOF
<1> DEFINE next == Defined(now, at, event)
<1>1. next.rows = now.rows \cup Born(now, event)
  BY DEF Defined
<1>2. AllFolds \subseteq DOMAIN program
  BY DEF AllFolds, Kept
<1>3. \A f \in DOMAIN program : \A key \in KeysOf(Table(f)) :
        /\ IsList(next.trace[f][key])
        /\ next.trace[f][key] = <<>> <=>
             now.trace[f][key] = <<>> /\ TakesIn(now, event, f, key) = {}
  BY DefinedIs DEF Stands
<1> HIDE DEF next
<1>4. ASSUME NEW f \in AllFolds, NEW key \in KeysOf(Table(f)),
             next.trace[f][key] # <<>>
      PROVE  <<Table(f), key>> \in next.rows
  <2>1. CASE now.trace[f][key] # <<>>
    BY <1>1, <2>1 DEF Stands, RowsStand
  <2>2. CASE TakesIn(now, event, f, key) # {}
    <3>1. PICK n \in DOMAIN program[f].arms :
            /\ TakenAt(now, event, f, n, key)
            /\ \/ Pinned(program, f, n)
               \/ <<Table(f), key>> \in now.rows \cup Born(now, event)
      BY <2>2 DEF TakesIn, Table
    <3>2. Pinned(program, f, n) => <<Table(f), key>> \in Born(now, event)
      BY <3>1, BornIs
    <3> QED
      BY <1>1, <3>1, <3>2
  <2> QED
    BY <1>2, <1>3, <1>4, <2>1, <2>2
<1>5. ASSUME NEW row \in next.rows
      PROVE  \E f \in AllFolds : \E key \in KeysOf(Table(f)) :
               /\ row = <<Table(f), key>>
               /\ Mints(program, f)
               /\ next.trace[f][key] # <<>>
  <2>1. CASE row \in now.rows
    <3>1. PICK f \in AllFolds : \E key \in KeysOf(Table(f)) :
            /\ row = <<Table(f), key>>
            /\ Mints(program, f)
            /\ now.trace[f][key] # <<>>
      BY <2>1 DEF Stands, RowsStand
    <3> QED
      BY <1>2, <1>3, <3>1
  <2>2. CASE row \in Born(now, event)
    <3>1. PICK f \in AllFolds : \E key \in KeysOf(Table(f)) :
            /\ row = <<Table(f), key>>
            /\ \E n \in DOMAIN program[f].arms :
                 Pinned(program, f, n) /\ TakenAt(now, event, f, n, key)
      BY <2>2, BornIs
    <3>2. PICK key \in KeysOf(Table(f)) :
            /\ row = <<Table(f), key>>
            /\ \E n \in DOMAIN program[f].arms :
                 Pinned(program, f, n) /\ TakenAt(now, event, f, n, key)
      BY <3>1
    <3>3. TakesIn(now, event, f, key) # {}
      BY <3>2 DEF TakesIn
    <3>4. next.trace[f][key] # <<>>
      BY <1>2, <1>3, <3>3
    <3>5. Mints(program, f)
      BY <3>2 DEF Mints
    <3> QED
      BY <3>2, <3>4, <3>5
  <2> QED
    BY <1>1, <2>1, <2>2
<1> QED
  BY <1>3, <1>4, <1>5 DEF Stands, RowsStand, TracesAreLists, next

---------------------------------------------------------------------------
(* A store that holds what its columns are defined to hold.                *)

\* Of the folds written, the ones kept have their traces; of the others, the
\* keys are there.
Sound(store, folds, kept, now) ==
  /\ \A cell \in DOMAIN store : cell[1] \in folds /\ cell = <<cell[1], cell[2]>>
  /\ \A f \in folds : \A key \in KeysOf(Table(f)) :
       /\ <<f, key>> \in DOMAIN store <=> now.trace[f][key] # <<>>
       /\ f \in kept => Trace(store, f, key) = now.trace[f][key]

\* What is looked up is kept, and what makes the keys a range goes over is
\* written.
Closed(folds, kept) ==
  /\ folds \subseteq AllFolds
  /\ \A f \in folds : DirectReads(program, f) \subseteq folds \cap kept
  /\ \A f \in folds : Ranges(program, f) =>
       {g \in AllFolds : Table(g) = Table(f) /\ Mints(program, g)} \subseteq folds

\* A store is read, before a record, for what the columns are defined to be.
LEMMA ReadsAgree ==
  ASSUME NEW store, NEW folds, NEW kept, NEW now, Closed(folds, kept),
         Sound(store, folds, kept, now), NEW f \in folds, NEW n, NEW event
  PROVE  ReadBefore(store, f, n, event) = ReadAt(now, event, f, n)
PROOF
<1> DEFINE held == [g \in DirectReads(program, f) |->
                      [key \in KeysOf(program[g].table) |->
                         Value(Trace(store, g, key))]]
<1>1. \A g \in DirectReads(program, f) : \A key \in KeysOf(program[g].table) :
        Trace(store, g, key) = now.trace[g][key]
  BY DEF Closed, Sound, Table
<1>2. held = Values(program, f, now.trace)
  BY <1>1 DEF Values
<1> HIDE DEF held
<1>3. ReadBefore(store, f, n, event) = LookedUp(program[f].arms[n], event, held)
  BY DEF ReadBefore, held
<1> QED
  BY <1>2, <1>3 DEF ReadAt

\* An arm takes only the records it is on.
LEMMA TakenIsOn ==
  ASSUME NEW now, NEW event, NEW f, NEW n, NEW key, TakenAt(now, event, f, n, key)
  PROVE  Arm(f, n).on = event.type
PROOF
  BY DEF TakenAt, Takes, Filtered, Arm

\* The keys a record's arms pin are the rows it makes, and the ones the rest
\* of the arms go over are the rows there are.
LEMMA RowsAgree ==
  ASSUME program \in Programs, NEW store, NEW folds, NEW kept, NEW now,
         Stands(now), Closed(folds, kept), Sound(store, folds, kept, now),
         NEW f \in folds, Ranges(program, f), NEW event, NEW lax,
         NEW key \in KeysOf(Table(f))
  PROVE  key \in Rows(store, Table(f)) \cup Minted(store, folds, event, Table(f), lax)
           <=> <<Table(f), key>> \in now.rows \cup Born(now, event)
PROOF
<1> DEFINE minted == Minted(store, folds, event, Table(f), lax)
<1>1. /\ folds \subseteq AllFolds /\ AllFolds \subseteq DOMAIN program
      /\ \A g \in AllFolds : Table(g) = Table(f) /\ Mints(program, g) => g \in folds
  BY DEF Closed, AllFolds, Kept
<1>2. key \in Rows(store, Table(f)) => <<Table(f), key>> \in now.rows
  <2> SUFFICES ASSUME key \in Rows(store, Table(f))
               PROVE  <<Table(f), key>> \in now.rows
    OBVIOUS
  <2>1. PICK cell \in DOMAIN store :
          program[cell[1]].table = Table(f) /\ key = cell[2]
    BY DEF Rows
  <2>2. PICK g \in folds : cell = <<g, cell[2]>>
    BY <2>1 DEF Sound
  <2>3. cell = <<g, key>> /\ Table(g) = Table(f)
    BY <2>1, <2>2 DEF Table
  <2>4. key \in KeysOf(Table(g))
    BY <2>3
  <2>5. now.trace[g][key] # <<>>
    BY <2>1, <2>3, <2>4 DEF Sound
  <2>6. <<Table(g), key>> \in now.rows
    BY <1>1, <2>4, <2>5 DEF Stands, RowsStand
  <2> QED
    BY <2>3, <2>6
<1>3. <<Table(f), key>> \in now.rows => key \in Rows(store, Table(f))
  <2> SUFFICES ASSUME <<Table(f), key>> \in now.rows
               PROVE  key \in Rows(store, Table(f))
    OBVIOUS
  <2>1. PICK g \in AllFolds : \E k \in KeysOf(Table(g)) :
          /\ <<Table(f), key>> = <<Table(g), k>>
          /\ Mints(program, g)
          /\ now.trace[g][k] # <<>>
    BY DEF Stands, RowsStand
  <2>2. /\ Table(g) = Table(f) /\ Mints(program, g)
        /\ now.trace[g][key] # <<>> /\ key \in KeysOf(Table(g))
    BY <2>1
  <2>3. <<g, key>> \in DOMAIN store
    BY <1>1, <2>2 DEF Sound
  <2> QED
    BY <2>2, <2>3 DEF Rows, Table
<1>4. ASSUME NEW g \in folds, Table(g) = Table(f), NEW n \in DOMAIN program[g].arms,
             Pinned(program, g, n)
      PROVE  key \in ArmKeys(store, g, n, event, ReadBefore(store, g, n, event), {}, lax)
               <=> TakenAt(now, event, g, n, key)
  <2>1. ReadBefore(store, g, n, event) = ReadAt(now, event, g, n)
    BY ReadsAgree
  <2>2. key \in ArmKeys(store, g, n, event, ReadAt(now, event, g, n), {}, lax)
          <=> Takes(Arm(g, n), key, event, ReadAt(now, event, g, n))
    BY <1>1, <1>4, ArmKeysAre
  <2> QED
    BY <2>1, <2>2 DEF TakenAt, Arm
<1>5. key \in minted => <<Table(f), key>> \in Born(now, event)
  <2> SUFFICES ASSUME key \in minted
               PROVE  <<Table(f), key>> \in Born(now, event)
    OBVIOUS
  <2>1. PICK a \in ArmsOn(folds, event) :
          /\ program[a[1]].table = Table(f) /\ Pinned(program, a[1], a[2])
          /\ key \in ArmKeys(store, a[1], a[2], event,
                             ReadBefore(store, a[1], a[2], event), {}, lax)
    BY DEF Minted
  <2>2. PICK g \in folds : \E n \in DOMAIN program[g].arms : a = <<g, n>>
    BY DEF ArmsOn
  <2>3. PICK n \in DOMAIN program[g].arms : a = <<g, n>>
    BY <2>2
  <2>4. Table(g) = Table(f) /\ Pinned(program, g, n)
    BY <2>1, <2>3 DEF Table
  <2>5. TakenAt(now, event, g, n, key)
    BY <1>4, <2>1, <2>3, <2>4
  <2>6. g \in AllFolds /\ key \in KeysOf(Table(g))
    BY <1>1, <2>4
  <2>7. <<Table(g), key>> \in Born(now, event)
    BY <2>4, <2>5, <2>6, BornIs
  <2> QED
    BY <2>4, <2>7
<1>6. <<Table(f), key>> \in Born(now, event) => key \in minted
  <2> SUFFICES ASSUME <<Table(f), key>> \in Born(now, event)
               PROVE  key \in minted
    OBVIOUS
  <2>1. PICK g \in AllFolds : \E k \in KeysOf(Table(g)) :
          /\ <<Table(f), key>> = <<Table(g), k>>
          /\ \E n \in DOMAIN program[g].arms :
               Pinned(program, g, n) /\ TakenAt(now, event, g, n, k)
    BY BornIs
  <2>2. PICK n \in DOMAIN program[g].arms :
          Pinned(program, g, n) /\ TakenAt(now, event, g, n, key)
    BY <2>1
  <2>3. Table(g) = Table(f) /\ Mints(program, g)
    BY <2>1, <2>2 DEF Mints
  <2>4. g \in folds
    BY <1>1, <2>3
  <2>5. key \in ArmKeys(store, g, n, event, ReadBefore(store, g, n, event), {}, lax)
    BY <1>4, <2>2, <2>3, <2>4
  <2>6. <<g, n>> \in ArmsOn(folds, event)
    BY <2>2, <2>4, TakenIsOn DEF ArmsOn, Arm
  <2> QED
    BY <2>2, <2>3, <2>5, <2>6 DEF Minted, Table
<1> QED
  BY <1>2, <1>3, <1>5, <1>6

\* The arms a record's writes at a key are of are the ones that take it.
LEMMA ArmsAgree ==
  ASSUME program \in Programs, NEW store, NEW folds, NEW kept, NEW now,
         Stands(now), Closed(folds, kept), Sound(store, folds, kept, now),
         NEW f \in folds, NEW event, NEW lax, NEW key \in KeysOf(Table(f))
  PROVE  LET written == Written(store, folds, event, lax)
         IN  /\ {a[2] : a \in {b \in DOMAIN written : b[1] = f /\ key \in written[b]}}
                  = TakesIn(now, event, f, key)
             /\ (\E a \in DOMAIN written : a[1] = f /\ key \in written[a])
                  <=> TakesIn(now, event, f, key) # {}
PROOF
<1> DEFINE written == Written(store, folds, event, lax)
           writes  == {b \in DOMAIN written : b[1] = f /\ key \in written[b]}
           takes   == TakesIn(now, event, f, key)
           keys(n) == ArmKeys(store, f, n, event, ReadBefore(store, f, n, event),
                              Minted(store, folds, event, Table(f), lax), lax)
<1>1. f \in DOMAIN program
  BY DEF Closed, AllFolds, Kept
<1>2. ASSUME NEW n \in DOMAIN program[f].arms
      PROVE  key \in keys(n) <=> n \in takes
  <2> DEFINE minted == Minted(store, folds, event, Table(f), lax)
             read == ReadAt(now, event, f, n)
  <2>1. keys(n) = ArmKeys(store, f, n, event, read, minted, lax)
    BY ReadsAgree
  <2>2. key \in ArmKeys(store, f, n, event, read, minted, lax) <=>
           /\ Takes(Arm(f, n), key, event, read)
           /\ Pinned(program, f, n) \/ key \in Rows(store, Table(f)) \cup minted
    <3> HIDE DEF minted, read
    <3> QED
      BY <1>1, ArmKeysAre
  <2>3. ~Pinned(program, f, n) =>
          (key \in Rows(store, Table(f)) \cup minted
             <=> <<Table(f), key>> \in now.rows \cup Born(now, event))
    <3>1. ~Pinned(program, f, n) => Ranges(program, f)
      BY DEF Ranges
    <3> QED
      BY <3>1, RowsAgree
  <2>4. TakenAt(now, event, f, n, key) <=> Takes(Arm(f, n), key, event, read)
    BY DEF TakenAt, Arm
  <2>5. n \in takes <=>
          /\ TakenAt(now, event, f, n, key)
          /\ \/ Pinned(program, f, n)
             \/ <<Table(f), key>> \in now.rows \cup Born(now, event)
    BY DEF TakesIn, Table
  <2> HIDE DEF keys, takes, minted, read
  <2> QED
    BY <2>1, <2>2, <2>3, <2>4, <2>5
<1>3. /\ DOMAIN written = ArmsOn(folds, event)
      /\ \A n : <<f, n>> \in ArmsOn(folds, event) => written[<<f, n>>] = keys(n)
  BY DEF Written, Table
<1>4. \A n : <<f, n>> \in ArmsOn(folds, event) <=>
              n \in DOMAIN program[f].arms /\ Arm(f, n).on = event.type
  BY DEF ArmsOn, Arm
<1>5. takes \subseteq {n \in DOMAIN program[f].arms : Arm(f, n).on = event.type}
  BY TakenIsOn DEF TakesIn
<1>6. \A a \in ArmsOn(folds, event) : a = <<a[1], a[2]>>
  BY DEF ArmsOn
<1> HIDE DEF written, takes, keys
<1>7. ASSUME NEW n
      PROVE  <<f, n>> \in writes <=> n \in takes
  BY <1>2, <1>3, <1>4, <1>5
<1>8. \A a \in writes : a = <<f, a[2]>>
  BY <1>3, <1>6
<1>9. {a[2] : a \in writes} = takes
  <2> HIDE DEF writes
  <2>1. \A a \in writes : a[2] \in takes
    BY <1>7, <1>8
  <2>2. \A n \in takes : <<f, n>> \in writes /\ <<f, n>>[2] = n
    BY <1>7
  <2> QED
    BY <2>1, <2>2
<1>10. (\E a \in DOMAIN written : a[1] = f /\ key \in written[a]) <=> writes # {}
  OBVIOUS
<1>11. writes # {} <=> takes # {}
  <2> HIDE DEF writes
  <2> QED
    BY <1>9
<1> QED
  BY <1>9, <1>10, <1>11 DEF written, takes

\* A record given to a sound store leaves a sound store.
LEMMA WritesAreSound ==
  ASSUME program \in Programs, NEW store, NEW folds, NEW kept, NEW now,
         Stands(now), Closed(folds, kept), Sound(store, folds, kept, now),
         NEW at, NEW lax
  PROVE  Sound(Applying(store, at, folds, kept, lax), folds, kept,
               Defined(now, at, log[at + 1]))
PROOF
<1> DEFINE event   == log[at + 1]
           next    == Defined(now, at, event)
           written == Written(store, folds, event, lax)
           arms(f, key) == {a[2] : a \in {b \in DOMAIN written :
                                            b[1] = f /\ key \in written[b]}}
           cells   == UNION {{<<a[1], key>> : key \in written[a]} : a \in DOMAIN written}
           given   == Applying(store, at, folds, kept, lax)
<1>1. given = [cell \in cells \cup DOMAIN store |->
                 IF cell \in cells
                 THEN FoldInto(store, cell[1], cell[2], at, event,
                               arms(cell[1], cell[2]), cell[1] \in kept)
                 ELSE store[cell]]
  BY DEF Applying, WriteAll
<1>2. folds \subseteq DOMAIN program
  BY DEF Closed, AllFolds, Kept
<1>3. \A a \in DOMAIN written : a[1] \in folds
  BY DEF Written, ArmsOn
<1>4. ASSUME NEW f \in folds, NEW key \in KeysOf(Table(f))
      PROVE  /\ arms(f, key) = TakesIn(now, event, f, key)
             /\ <<f, key>> \in cells <=> TakesIn(now, event, f, key) # {}
  <2>1. /\ arms(f, key) = TakesIn(now, event, f, key)
        /\ (\E a \in DOMAIN written : a[1] = f /\ key \in written[a])
              <=> TakesIn(now, event, f, key) # {}
    BY ArmsAgree
  <2> HIDE DEF written
  <2>2. <<f, key>> \in cells <=> \E a \in DOMAIN written : a[1] = f /\ key \in written[a]
    OBVIOUS
  <2> QED
    BY <2>1, <2>2
<1>5. \A cell \in cells : cell[1] \in folds /\ cell = <<cell[1], cell[2]>>
  <2> HIDE DEF written
  <2> QED
    BY <1>3
<1> HIDE DEF written, given, cells, next, arms
<1>6. \A cell \in DOMAIN given : cell[1] \in folds /\ cell = <<cell[1], cell[2]>>
  BY <1>1, <1>5 DEF Sound
<1>7. ASSUME NEW f \in folds, NEW key \in KeysOf(Table(f))
      PROVE  /\ <<f, key>> \in DOMAIN given <=> next.trace[f][key] # <<>>
             /\ f \in kept => Trace(given, f, key) = next.trace[f][key]
  <2> DEFINE cell  == <<f, key>>
             takes == TakesIn(now, event, f, key)
             left  == Left(now, at, event, f, key)
  <2>1. /\ cell \in DOMAIN store <=> now.trace[f][key] # <<>>
        /\ f \in kept => Trace(store, f, key) = now.trace[f][key]
    BY DEF Sound
  <2>2. /\ next.trace[f][key] = now.trace[f][key] \o left
        /\ next.trace[f][key] = <<>> <=> now.trace[f][key] = <<>> /\ takes = {}
        /\ takes = {} => next.trace[f][key] = now.trace[f][key]
    <3>1. TracesAreLists(now) /\ f \in DOMAIN program
      BY <1>2 DEF Stands
    <3>2. next = Defined(now, at, event)
      BY DEF next
    <3> HIDE DEF event
    <3> QED
      BY <3>1, <3>2, DefinedIs
  <2>3. cell \in DOMAIN given <=> next.trace[f][key] # <<>>
    <3> HIDE DEF cell, takes, left
    <3> QED
      BY <1>1, <1>4, <2>1, <2>2 DEF cell, takes
  <2>4. ASSUME f \in kept, cell \in cells
        PROVE  Trace(given, f, key) = next.trace[f][key]
    <3> DEFINE order == InOrder(takes)
    <3>1. given[cell] = FoldInto(store, f, key, at, event, takes, TRUE)
      <4>1. cell[1] = f /\ cell[2] = key /\ (f \in kept <=> TRUE)
        BY <2>4
      <4>2. given[cell] = FoldInto(store, cell[1], cell[2], at, event,
                                   arms(cell[1], cell[2]), cell[1] \in kept)
        BY <1>1, <2>4
      <4> QED
        BY <1>4, <2>4, <4>1, <4>2 DEF FoldInto
    <3>2. \A n : ReadBefore(store, f, n, event) = ReadAt(now, event, f, n)
      BY ReadsAgree
    <3>3. FoldInto(store, f, key, at, event, takes, TRUE)
            = Trace(store, f, key) \o left
      BY <3>2 DEF FoldInto, Order, Left, Arm
    <3> QED
      BY <1>1, <2>1, <2>2, <2>4, <3>1, <3>3 DEF Trace
  <2>5. ASSUME f \in kept, cell \notin cells
        PROVE  Trace(given, f, key) = next.trace[f][key]
    <3>1. takes = {}
      BY <1>4, <2>5
    <3>2. Trace(given, f, key) = Trace(store, f, key)
      BY <1>1, <2>5 DEF Trace
    <3> QED
      BY <2>1, <2>2, <2>5, <3>1, <3>2
  <2> QED
    BY <2>3, <2>4, <2>5
<1> QED
  BY <1>6, <1>7 DEF Sound, next, given

---------------------------------------------------------------------------
(* What a rebuild replays.                                                 *)

\* What some folds lead to has them, and with each fold what is next to it,
\* and is the least such set.
LEMMA ReachedFacts ==
  ASSUME NEW next, NEW folds \in SUBSET DOMAIN next,
         \A f \in DOMAIN next : next[f] \subseteq DOMAIN next
  PROVE  /\ Reached(next, folds) \subseteq DOMAIN next
         /\ folds \subseteq Reached(next, folds)
         /\ \A f \in Reached(next, folds) : next[f] \subseteq Reached(next, folds)
         /\ \A S \in SUBSET DOMAIN next :
              folds \subseteq S /\ (\A f \in S : next[f] \subseteq S)
                => Reached(next, folds) \subseteq S
PROOF
<1>1. \A f \in Reached(next, folds) : \A S \in SUBSET DOMAIN next :
        folds \subseteq S /\ (\A g \in S : next[g] \subseteq S) => f \in S
  BY DEF Reached
<1>2. Reached(next, folds) \subseteq DOMAIN next
  BY DEF Reached
<1>3. folds \subseteq Reached(next, folds)
  BY DEF Reached
<1>4. ASSUME NEW f \in Reached(next, folds), NEW g \in next[f]
      PROVE  g \in Reached(next, folds)
  <2>1. \A S \in SUBSET DOMAIN next :
          folds \subseteq S /\ (\A h \in S : next[h] \subseteq S) => g \in S
    BY <1>1, <1>4
  <2>2. g \in DOMAIN next
    BY <1>2, <1>4
  <2> QED
    BY <2>1, <2>2 DEF Reached
<1> QED
  BY <1>1, <1>2, <1>3, <1>4

\* What a fold reads through is what it looks up and what that reads through.
LEMMA ReadsFacts ==
  ASSUME program \in Programs, NEW f \in DOMAIN program
  PROVE  /\ Reads(program, f) \subseteq AllFolds
         /\ DirectReads(program, f) \subseteq Reads(program, f)
         /\ \A g \in Reads(program, f) :
              /\ DirectReads(program, g) \subseteq Reads(program, f)
              /\ Reads(program, g) \subseteq Reads(program, f)
PROOF
<1> DEFINE next == [g \in DOMAIN program |-> DirectReads(program, g)]
<1>1. \A g \in DOMAIN program : DirectReads(program, g) \subseteq AllFolds
  BY ProgramFacts DEF AllFolds, Kept
<1>2. AllFolds \subseteq DOMAIN program
  BY DEF AllFolds, Kept
<1>3. /\ DOMAIN next = DOMAIN program
      /\ \A g \in DOMAIN next : next[g] = DirectReads(program, g)
  OBVIOUS
<1>4. \A g \in DOMAIN next : next[g] \subseteq DOMAIN next
  BY <1>1, <1>2, <1>3
<1>5. \A g \in DOMAIN program : Reads(program, g) = Reached(next, DirectReads(program, g))
  BY DEF Reads
<1> HIDE DEF next
<1>6. ASSUME NEW g \in DOMAIN program
      PROVE  /\ DirectReads(program, g) \subseteq Reads(program, g)
             /\ \A h \in Reads(program, g) :
                  DirectReads(program, h) \subseteq Reads(program, g)
             /\ Reads(program, g) \subseteq DOMAIN program
             /\ \A S \in SUBSET DOMAIN program :
                  /\ DirectReads(program, g) \subseteq S
                  /\ \A h \in S : DirectReads(program, h) \subseteq S
                  => Reads(program, g) \subseteq S
  <2>1. DirectReads(program, g) \in SUBSET DOMAIN next
    BY <1>1, <1>2, <1>3
  <2>2. LET all == Reached(next, DirectReads(program, g))
        IN  /\ all \subseteq DOMAIN next
            /\ DirectReads(program, g) \subseteq all
            /\ \A h \in all : next[h] \subseteq all
            /\ \A S \in SUBSET DOMAIN next :
                 DirectReads(program, g) \subseteq S /\ (\A h \in S : next[h] \subseteq S)
                   => all \subseteq S
    BY <1>4, <2>1, ReachedFacts
  <2> QED
    BY <1>3, <1>5, <2>2
<1>7. Reads(program, f) \subseteq AllFolds
  BY <1>1, <1>2, <1>6
<1>8. ASSUME NEW g \in Reads(program, f)
      PROVE  Reads(program, g) \subseteq Reads(program, f)
  <2>1. g \in DOMAIN program /\ Reads(program, f) \in SUBSET DOMAIN program
    BY <1>6, <1>8
  <2> QED
    BY <1>6, <1>8, <2>1
<1> QED
  BY <1>6, <1>7, <1>8

\* What a rebuild of some columns replays is what it was asked for and what
\* that needs, all of it columns.
LEMMA ClosureFacts ==
  ASSUME program \in Programs, NEW asked \in SUBSET DOMAIN program
  PROVE  /\ Closure(program, asked) \subseteq AllFolds
         /\ Kept(asked) \subseteq Closure(program, asked)
         /\ \A f \in Closure(program, asked) :
              Needs(program, f) \subseteq Closure(program, asked)
PROOF
<1> DEFINE next == [f \in DOMAIN program |-> Needs(program, f)]
<1>1. /\ DOMAIN next = DOMAIN program
      /\ \A f \in DOMAIN next : next[f] = Needs(program, f)
  OBVIOUS
<1>2. AllFolds \subseteq DOMAIN program /\ Kept(asked) \subseteq AllFolds
  BY DEF AllFolds, Kept
<1>3. \A g \in DOMAIN program : Mints(program, g) => g \in AllFolds
  BY DEF Mints, Stored, Pinned, AllFolds, Kept
<1>4. \A f \in DOMAIN program : Needs(program, f) \subseteq AllFolds
  BY <1>3, ReadsFacts DEF Needs
<1>5. Closure(program, asked) = Reached(next, Kept(asked))
  BY DEF Closure, Kept
<1> HIDE DEF next
<1>6. /\ Kept(asked) \in SUBSET DOMAIN next
      /\ \A f \in DOMAIN next : next[f] \subseteq DOMAIN next
  BY <1>1, <1>2, <1>4
<1>7. LET all == Reached(next, Kept(asked))
      IN  /\ all \subseteq DOMAIN next
          /\ Kept(asked) \subseteq all
          /\ \A f \in all : next[f] \subseteq all
          /\ \A S \in SUBSET DOMAIN next :
               Kept(asked) \subseteq S /\ (\A f \in S : next[f] \subseteq S)
                 => all \subseteq S
  BY <1>6, ReachedFacts
<1>8. Closure(program, asked) \subseteq AllFolds
  BY <1>1, <1>2, <1>4, <1>5, <1>7
<1> QED
  BY <1>1, <1>5, <1>7, <1>8

\* A rebuild replays what its columns need, and has it all if it keeps what
\* they look up.
LEMMA RebuildIsClosed ==
  ASSUME program \in Programs, NEW asked \in SUBSET DOMAIN program,
         NEW way, NEW kept, kept = IF way = "keys" THEN asked ELSE Closure(program, asked)
  PROVE  /\ Closure(program, asked) \subseteq AllFolds
         /\ (\A f \in Closure(program, asked) : DirectReads(program, f) \subseteq kept)
              => Closed(Closure(program, asked), kept)
         /\ Kept(asked) \subseteq Closure(program, asked) \cap kept
PROOF
<1> DEFINE folds == Closure(program, asked)
<1>1. /\ folds \subseteq AllFolds /\ Kept(asked) \subseteq folds
      /\ \A f \in folds : Needs(program, f) \subseteq folds
  BY ClosureFacts
<1>2. AllFolds \subseteq DOMAIN program /\ Kept(asked) \subseteq asked
  BY DEF AllFolds, Kept
<1>3. \A f \in folds : DirectReads(program, f) \subseteq folds
  BY <1>1, <1>2, ReadsFacts DEF Needs
<1>4. \A f \in folds : Ranges(program, f) =>
        {g \in AllFolds : Table(g) = Table(f) /\ Mints(program, g)} \subseteq folds
  BY <1>1, <1>2 DEF Needs, Table
<1> HIDE DEF folds
<1> QED
  BY <1>1, <1>2, <1>3, <1>4 DEF Closed, folds

---------------------------------------------------------------------------
(* The invariant.                                                          *)

\* One answer by length of the log, each the last with one record more.
Chronicle ==
  /\ IsList(log) /\ IsList(answers)
  /\ Len(answers) = Len(log) + 1
  /\ answers[1] = [rows |-> {}, trace |-> Seeds(program)]
  /\ \A m \in 1 .. Len(log) + 1 : Stands(answers[m])
  /\ \A m \in 1 .. Len(log) : answers[m + 1] = Defined(answers[m], m - 1, log[m])

\* The live store is sound at the record it has come to, unless a rebuild that
\* looked up what it did not keep was swapped in.
LiveIsSound ==
  /\ applied \in 0 .. Len(log)
  /\ ~blind => Sound(live, AllFolds, AllFolds, answers[applied + 1])

\* So is the store of a rebuild that keeps what it looks up: it is of all that
\* it needs.
JobIsSound ==
  job # Idle =>
    /\ job = [way |-> job.way, asked |-> job.asked, folds |-> job.folds,
              at |-> job.at, kept |-> job.kept, store |-> job.store]
    /\ job.at \in 0 .. applied
    /\ job.folds \subseteq AllFolds
    /\ Kept(job.asked) \subseteq job.folds \cap job.kept
    /\ Sighted => /\ Closed(job.folds, job.kept)
                  /\ Sound(job.store, job.folds, job.kept, answers[job.at + 1])

TablesInv ==
  /\ program \in Programs
  /\ Chronicle /\ LiveIsSound /\ JobIsSound
  /\ GatesStayLive

\* Every column reads and ranges over columns.
LEMMA AllIsClosed ==
  ASSUME program \in Programs
  PROVE  Closed(AllFolds, AllFolds) /\ AllFolds \in SUBSET DOMAIN program
PROOF
<1>1. AllFolds \subseteq DOMAIN program
  BY DEF AllFolds, Kept
<1>2. \A f \in AllFolds : DirectReads(program, f) \subseteq AllFolds
  BY <1>1, ProgramFacts DEF AllFolds, Kept
<1> QED
  BY <1>1, <1>2 DEF Closed

\* An empty store holds what columns hold before the first record.
LEMMA EmptyIsSound ==
  ASSUME NEW folds \in SUBSET DOMAIN program, NEW kept
  PROVE  Sound(Empty, folds, kept, [rows |-> {}, trace |-> Seeds(program)])
PROOF
<1>1. DOMAIN Empty = {}
  BY DEF Empty
<1>2. \A f \in folds : \A key \in KeysOf(Table(f)) : Seeds(program)[f][key] = <<>>
  BY DEF Seeds, Table
<1> QED
  BY <1>1, <1>2 DEF Sound, Trace

\* A record no column folds leaves what every column holds as it was.
LEMMA UnsubscribedIsSound ==
  ASSUME program \in Programs, NEW store, NEW folds, NEW kept, NEW now, Stands(now),
         folds \subseteq AllFolds, Sound(store, folds, kept, now),
         NEW at, NEW event, ~Subscribed(event)
  PROVE  Sound(store, folds, kept, Defined(now, at, event))
PROOF
<1> DEFINE next == Defined(now, at, event)
<1>1. folds \subseteq DOMAIN program
  BY DEF AllFolds, Kept
<1>2. ASSUME NEW f \in folds, NEW key \in KeysOf(Table(f))
      PROVE  next.trace[f][key] = now.trace[f][key]
  <2>1. TracesAreLists(now) /\ f \in DOMAIN program
    BY <1>1 DEF Stands
  <2>2. TakesIn(now, event, f, key) = {}
    <3>1. \A n \in DOMAIN program[f].arms : Arm(f, n).on # event.type
      BY DEF Subscribed, Arm
    <3> QED
      BY <3>1, TakenIsOn DEF TakesIn
  <2> QED
    BY <2>1, <2>2, DefinedIs
<1> HIDE DEF next
<1> QED
  BY <1>2 DEF Sound, next

\* The answer a record further on.
LEMMA NextAnswer ==
  ASSUME Chronicle, NEW n \in Nat, n < Len(log)
  PROVE  /\ Stands(answers[n + 1])
         /\ answers[n + 2] = Defined(answers[n + 1], n, log[n + 1])
PROOF
<1>1. Len(log) \in Nat
  BY DEF Chronicle, IsList
<1>2. n + 1 \in 1 .. Len(log) /\ n + 1 \in 1 .. Len(log) + 1 /\ (n + 1) + 1 = n + 2
      /\ (n + 1) - 1 = n
  BY <1>1
<1> QED
  BY <1>2 DEF Chronicle

\* A system that has seen no record.
LEMMA InitHolds == Init => TablesInv
PROOF
<1> SUFFICES ASSUME Init PROVE TablesInv
  OBVIOUS
<1> DEFINE first == [rows |-> {}, trace |-> Seeds(program)]
<1>1. /\ program \in Programs /\ log = <<>> /\ live = Empty /\ applied = 0
      /\ job = Idle /\ dead = FALSE /\ answers = <<first>>
  BY DEF Init
<1>2. Stands(first)
  <2>1. \A f \in DOMAIN program : \A key \in KeysOf(Table(f)) :
          Seeds(program)[f][key] = <<>>
    BY DEF Seeds, Table
  <2>2. <<>> \in Seq({})
    OBVIOUS
  <2>3. AllFolds \subseteq DOMAIN program
    BY DEF AllFolds, Kept
  <2> QED
    BY <2>1, <2>2, <2>3 DEF Stands, RowsStand, TracesAreLists, IsList
<1>3. Chronicle
  <2>1. answers[1] = [rows |-> {}, trace |-> Seeds(program)]
    BY <1>1
  <2> HIDE DEF first
  <2>2. answers \in Seq({first}) /\ Len(answers) = 1 /\ answers[1] = first
    BY <1>1
  <2>3. log \in Seq({}) /\ Len(log) = 0
    BY <1>1
  <2>4. /\ \A m \in 1 .. Len(log) + 1 : Stands(answers[m])
        /\ 1 .. Len(log) = {}
    BY <1>2, <2>2, <2>3
  <2>5. IsList(log) /\ IsList(answers) /\ Len(answers) = Len(log) + 1
    BY <2>2, <2>3 DEF IsList
  <2> QED
    BY <2>1, <2>4, <2>5 DEF Chronicle
<1>4. LiveIsSound
  <2>1. Sound(Empty, AllFolds, AllFolds, first)
    BY <1>1, AllIsClosed, EmptyIsSound
  <2> HIDE DEF first
  <2>2. Len(log) = 0 /\ answers[1] = first
    BY <1>1
  <2> QED
    BY <1>1, <2>1, <2>2 DEF LiveIsSound
<1> QED
  BY <1>1, <1>3, <1>4 DEF TablesInv, JobIsSound, GatesStayLive

\* What is said of a store or an answer goes by the program, which stays.
LEMMA ProgramStays ==
  ASSUME program' = program
  PROVE  /\ AllFolds' = AllFolds
         /\ \A m : Stands(answers'[m]) => Stands(answers[m])'
         /\ \A m : Defined(answers'[m], m - 1, log'[m])
                     = Defined(answers[m], m - 1, log[m])'
         /\ Sound(live', AllFolds, AllFolds, answers'[applied' + 1])
              => Sound(live, AllFolds, AllFolds, answers[applied + 1])'
         /\ Sound(job'.store, job'.folds, job'.kept, answers'[job'.at + 1])
              => Sound(job.store, job.folds, job.kept, answers[job.at + 1])'
         /\ Closed(job'.folds, job'.kept) => Closed(job.folds, job.kept)'
         /\ Kept(job'.asked) = Kept(job.asked)'
         /\ Sighted' <=> \A f \in job'.folds : DirectReads(program, f) \subseteq job'.kept
PROOF
<1>1. AllFolds' = AllFolds
  BY DEF AllFolds, Kept
<1>2. \A f : Table(f)' = Table(f)
  BY DEF Table
<1>3. \A m : Stands(answers'[m]) => Stands(answers[m])'
  BY <1>1 DEF Stands, RowsStand, TracesAreLists, Table
<1>4. \A m : Defined(answers'[m], m - 1, log'[m])
               = Defined(answers[m], m - 1, log[m])'
  BY DEF Defined, Born, TakesIn, TakenAt, ReadAt
<1>5. Sound(live', AllFolds, AllFolds, answers'[applied' + 1])
        => Sound(live, AllFolds, AllFolds, answers[applied + 1])'
  BY <1>1 DEF Sound, Table, Trace
<1>6. Sound(job'.store, job'.folds, job'.kept, answers'[job'.at + 1])
        => Sound(job.store, job.folds, job.kept, answers[job.at + 1])'
  BY DEF Sound, Table, Trace
<1>7. Closed(job'.folds, job'.kept) => Closed(job.folds, job.kept)'
  BY <1>1 DEF Closed, Table
<1>8. Kept(job'.asked) = Kept(job.asked)'
  BY DEF Kept
<1>9. Sighted' <=> \A f \in job'.folds : DirectReads(program, f) \subseteq job'.kept
  BY DEF Sighted
<1> QED
  BY <1>1, <1>3, <1>4, <1>5, <1>6, <1>7, <1>8, <1>9

\* A rebuild under way is as it was, the answer it has come to too.
LEMMA JobStays ==
  ASSUME JobIsSound, program' = program, job' = job,
         job # Idle => /\ job.at \in 0 .. applied'
                       /\ answers'[job.at + 1] = answers[job.at + 1]
  PROVE  JobIsSound'
PROOF
<1> SUFFICES ASSUME job' # Idle
             PROVE  /\ job' = [way |-> job.way, asked |-> job.asked,
                               folds |-> job.folds, at |-> job.at,
                               kept |-> job.kept, store |-> job.store]'
                    /\ job'.at \in 0 .. applied'
                    /\ job'.folds \subseteq AllFolds'
                    /\ Kept(job.asked)' \subseteq job'.folds \cap job'.kept
                    /\ Sighted' =>
                         /\ Closed(job.folds, job.kept)'
                         /\ Sound(job.store, job.folds, job.kept, answers[job.at + 1])'
  BY DEF JobIsSound, Idle
<1>1. /\ job = [way |-> job.way, asked |-> job.asked, folds |-> job.folds,
                at |-> job.at, kept |-> job.kept, store |-> job.store]
      /\ job.at \in 0 .. applied'
      /\ job.folds \subseteq AllFolds
      /\ Kept(job.asked) \subseteq job.folds \cap job.kept
      /\ Sighted => /\ Closed(job.folds, job.kept)
                    /\ Sound(job.store, job.folds, job.kept, answers[job.at + 1])
  BY DEF JobIsSound
<1>2. Sighted' <=> Sighted
  BY ProgramStays DEF Sighted
<1>3. Sighted => Sound(job'.store, job'.folds, job'.kept, answers'[job'.at + 1])
  BY <1>1
<1>4. (Sighted => Closed(job'.folds, job'.kept)) /\ Kept(job'.asked) = Kept(job.asked)
  BY <1>1
<1> QED
  BY <1>1, <1>2, <1>3, <1>4, ProgramStays

\* A record lands: it is answered by one record more, and nothing else moves.
LEMMA LandKeeps ==
  ASSUME TablesInv, NEW event \in Events(program), Land(event)
  PROVE  TablesInv'
PROOF
<1> DEFINE next == Defined(Last(answers), Len(log), event)
<1>1. /\ log' = Append(log, event) /\ answers' = Append(answers, next)
      /\ program' = program /\ live' = live /\ applied' = applied
      /\ job' = job /\ dead' = dead /\ blind' = blind
  BY DEF Land
<1>2. /\ Len(log) \in Nat /\ Len(answers) = Len(log) + 1
      /\ Last(answers) = answers[Len(log) + 1]
  BY DEF TablesInv, Chronicle, IsList, Last
<1>3. /\ IsList(log') /\ IsList(answers')
      /\ Len(log') = Len(log) + 1 /\ Len(answers') = Len(log) + 2
      /\ \A m \in 1 .. Len(log) : log'[m] = log[m]
      /\ \A m \in 1 .. Len(log) + 1 : answers'[m] = answers[m]
      /\ log'[Len(log) + 1] = event /\ answers'[Len(log) + 2] = next
  <2>1. PICK S : log \in Seq(S)
    BY DEF TablesInv, Chronicle, IsList
  <2>2. PICK T : answers \in Seq(T)
    BY DEF TablesInv, Chronicle, IsList
  <2> HIDE DEF next
  <2>3. log \in Seq(S \cup {event}) /\ answers \in Seq(T \cup {next})
    BY <2>1, <2>2
  <2>4. log' \in Seq(S \cup {event}) /\ answers' \in Seq(T \cup {next})
    BY <1>1, <2>3
  <2> QED
    BY <1>1, <1>2, <2>3, <2>4 DEF IsList
<1>4. Stands(answers[Len(log) + 1])
  BY <1>2 DEF TablesInv, Chronicle
<1>5. next = Defined(answers[Len(log) + 1], Len(log), event) /\ Stands(next)
  BY <1>2, <1>4, DefinedStands DEF TablesInv
<1> HIDE DEF next
<1>6. \A m \in 1 .. Len(log) + 2 : Stands(answers'[m])
  <2> SUFFICES ASSUME NEW m \in 1 .. Len(log) + 2 PROVE Stands(answers'[m])
    OBVIOUS
  <2>1. CASE m = Len(log) + 2
    BY <1>3, <1>5, <2>1
  <2>2. CASE m \in 1 .. Len(log) + 1
    BY <1>3, <2>2 DEF TablesInv, Chronicle
  <2> QED
    BY <1>2, <2>1, <2>2
<1>7. \A m \in 1 .. Len(log) + 1 :
        answers'[m + 1] = Defined(answers'[m], m - 1, log'[m])
  <2> SUFFICES ASSUME NEW m \in 1 .. Len(log) + 1
               PROVE  answers'[m + 1] = Defined(answers'[m], m - 1, log'[m])
    OBVIOUS
  <2>1. CASE m = Len(log) + 1
    <3>1. m - 1 = Len(log) /\ m + 1 = Len(log) + 2
      BY <1>2, <2>1
    <3>2. answers'[m] = answers[Len(log) + 1] /\ log'[m] = event
      BY <1>3, <2>1
    <3> QED
      BY <1>3, <1>5, <3>1, <3>2
  <2>2. CASE m \in 1 .. Len(log)
    <3>1. m + 1 \in 1 .. Len(log) + 1
      BY <1>2, <2>2
    <3>2. answers[m + 1] = Defined(answers[m], m - 1, log[m])
      BY <2>2 DEF TablesInv, Chronicle
    <3> QED
      BY <1>3, <2>2, <3>1, <3>2
  <2> QED
    BY <1>2, <2>1, <2>2
<1>8. Chronicle'
  <2>1. Len(log') + 1 = Len(log) + 2
    BY <1>2, <1>3
  <2>2. \A m \in 1 .. Len(log') + 1 : Stands(answers[m])'
    BY <1>1, <1>6, <2>1, ProgramStays
  <2>3. \A m \in 1 .. Len(log') :
          answers'[m + 1] = Defined(answers[m], m - 1, log[m])'
    BY <1>1, <1>3, <1>7, ProgramStays
  <2>4. answers'[1] = [rows |-> {}, trace |-> Seeds(program)]
    BY <1>2, <1>3 DEF TablesInv, Chronicle
  <2> QED
    BY <1>1, <1>3, <2>1, <2>2, <2>3, <2>4 DEF Chronicle
<1>9. LiveIsSound'
  <2>1. /\ applied \in 0 .. Len(log)
        /\ ~blind => Sound(live, AllFolds, AllFolds, answers[applied + 1])
    BY DEF TablesInv, LiveIsSound
  <2>2. answers'[applied + 1] = answers[applied + 1] /\ applied \in 0 .. Len(log')
    BY <1>2, <1>3, <2>1
  <2>3. ~blind => Sound(live', AllFolds, AllFolds, answers'[applied' + 1])
    BY <1>1, <2>1, <2>2
  <2> QED
    BY <1>1, <2>2, <2>3, ProgramStays DEF LiveIsSound
<1>10. JobIsSound'
  <2>1. job # Idle => /\ job.at \in 0 .. applied'
                      /\ answers'[job.at + 1] = answers[job.at + 1]
    BY <1>1, <1>2, <1>3 DEF TablesInv, JobIsSound, LiveIsSound
  <2> QED
    BY <1>1, <2>1, JobStays DEF TablesInv
<1> QED
  BY <1>1, <1>8, <1>9, <1>10 DEF TablesInv, GatesStayLive

\* The log and its answers are as they were.
LEMMA ChronicleStays ==
  ASSUME Chronicle, program' = program, log' = log, answers' = answers
  PROVE  Chronicle'
PROOF
<1>1. \A m \in 1 .. Len(log) + 1 : Stands(answers'[m])
  BY DEF Chronicle
<1>2. \A m \in 1 .. Len(log) :
        answers'[m + 1] = Defined(answers'[m], m - 1, log'[m])
  BY DEF Chronicle
<1>3. /\ IsList(log') /\ IsList(answers') /\ Len(answers') = Len(log') + 1
      /\ answers'[1] = [rows |-> {}, trace |-> Seeds(program')]
  BY DEF Chronicle
<1>4. /\ \A m \in 1 .. Len(log') + 1 : Stands(answers[m])'
      /\ \A m \in 1 .. Len(log') :
           answers'[m + 1] = Defined(answers[m], m - 1, log[m])'
  BY <1>1, <1>2, ProgramStays
<1> QED
  BY <1>3, <1>4 DEF Chronicle

\* The live store is given a record.
LEMMA FollowKeeps ==
  ASSUME TablesInv, NEW lax \in BOOLEAN, Follow(lax)
  PROVE  TablesInv'
PROOF
<1> DEFINE event == log[applied + 1]
           now   == answers[applied + 1]
           next  == answers[applied + 2]
<1>1. /\ applied < Len(log) /\ applied' = applied + 1
      /\ program' = program /\ log' = log /\ job' = job /\ answers' = answers
      /\ blind' = blind
      /\ IF Subscribed(event)
         THEN /\ live' = Applying(live, applied, AllFolds, AllFolds, lax)
              /\ dead' = (dead \/ DeadGates(live, applied, AllFolds, lax))
         ELSE live' = live /\ dead' = dead
  BY DEF Follow, history
<1>2. /\ program \in Programs /\ Chronicle /\ dead = FALSE
      /\ applied \in 0 .. Len(log) /\ Len(log) \in Nat
      /\ ~blind => Sound(live, AllFolds, AllFolds, now)
  BY DEF TablesInv, LiveIsSound, GatesStayLive, Chronicle, IsList
<1>3. Stands(now) /\ next = Defined(now, applied, event)
  BY <1>1, <1>2, NextAnswer
<1>4. Closed(AllFolds, AllFolds) /\ AllFolds \in SUBSET DOMAIN program
  BY <1>2, AllIsClosed
<1> HIDE DEF event, now, next
<1>5. ASSUME ~blind PROVE Sound(live', AllFolds, AllFolds, next)
  <2>1. CASE Subscribed(event)
    <3>1. Sound(Applying(live, applied, AllFolds, AllFolds, lax), AllFolds, AllFolds,
                Defined(now, applied, log[applied + 1]))
      BY <1>2, <1>3, <1>4, <1>5, WritesAreSound
    <3> QED
      BY <1>1, <1>3, <2>1, <3>1 DEF event
  <2>2. CASE ~Subscribed(event)
    <3>1. Sound(live, AllFolds, AllFolds, Defined(now, applied, event))
      BY <1>2, <1>3, <1>5, <2>2, UnsubscribedIsSound
    <3> QED
      BY <1>1, <1>3, <2>2, <3>1
  <2> QED
    BY <2>1, <2>2
<1>6. LiveIsSound'
  <2>1. applied' \in 0 .. Len(log') /\ applied' + 1 = applied + 2
    BY <1>1, <1>2
  <2>2. ~blind => Sound(live', AllFolds, AllFolds, answers'[applied' + 1])
    BY <1>1, <1>5, <2>1 DEF next
  <2> QED
    BY <1>1, <2>1, <2>2, ProgramStays DEF LiveIsSound
<1>7. GatesStayLive'
  BY <1>1, <1>2, <1>4, NoDeadGates DEF GatesStayLive
<1>8. JobIsSound'
  <2>1. job # Idle => /\ job.at \in 0 .. applied'
                      /\ answers'[job.at + 1] = answers[job.at + 1]
    BY <1>1, <1>2 DEF TablesInv, JobIsSound
  <2> QED
    BY <1>1, <2>1, JobStays DEF TablesInv
<1> QED
  BY <1>1, <1>2, <1>6, <1>7, <1>8, ChronicleStays DEF TablesInv

\* A rebuild begins, of an empty store.
LEMMA BeginKeeps ==
  ASSUME TablesInv, NEW asked \in SUBSET DOMAIN program,
         NEW way \in Ways(program, asked), Begin(asked, way)
  PROVE  TablesInv'
PROOF
<1> DEFINE folds == Closure(program, asked)
           kept  == IF way = "keys" THEN asked ELSE folds
           begun == [way |-> way, asked |-> asked, folds |-> folds, at |-> 0,
                     kept |-> kept, store |-> Empty]
<1>1. /\ job' = begun /\ program' = program /\ log' = log /\ live' = live
      /\ applied' = applied /\ dead' = dead /\ blind' = blind /\ answers' = answers
  BY DEF Begin, history
<1>2. program \in Programs /\ Chronicle /\ LiveIsSound /\ GatesStayLive
  BY DEF TablesInv
<1> DEFINE sighted == \A f \in folds : DirectReads(program, f) \subseteq kept
<1>3. /\ folds \subseteq AllFolds
      /\ sighted => Closed(folds, kept)
      /\ Kept(asked) \subseteq folds \cap kept
  BY <1>2, RebuildIsClosed
<1> HIDE DEF folds, kept
<1>4. /\ job' = [way |-> job.way, asked |-> job.asked, folds |-> job.folds,
                 at |-> job.at, kept |-> job.kept, store |-> job.store]'
      /\ job'.at = 0 /\ job'.folds = folds /\ job'.kept = kept
      /\ job'.asked = asked /\ job'.store = Empty
  BY <1>1
<1>5. Sound(Empty, folds, kept, answers[1])
  <2>1. folds \in SUBSET DOMAIN program
    BY <1>3 DEF AllFolds, Kept
  <2> QED
    BY <1>2, <2>1, EmptyIsSound DEF Chronicle
<1>6. Sound(job'.store, job'.folds, job'.kept, answers'[job'.at + 1])
  BY <1>1, <1>4, <1>5
<1>7. JobIsSound'
  <2>1. /\ sighted => Closed(job'.folds, job'.kept)
        /\ Kept(job'.asked) = Kept(asked)
        /\ Sighted' <=> sighted
    BY <1>1, <1>3, <1>4, ProgramStays
  <2>2. job'.at \in 0 .. applied'
    BY <1>1, <1>2, <1>4 DEF LiveIsSound
  <2> HIDE DEF sighted
  <2> QED
    BY <1>1, <1>3, <1>4, <1>6, <2>1, <2>2, ProgramStays DEF JobIsSound
<1>8. LiveIsSound'
  BY <1>1, <1>2, ProgramStays DEF LiveIsSound
<1> QED
  BY <1>1, <1>2, <1>7, <1>8, ChronicleStays DEF TablesInv, GatesStayLive

\* A rebuild is given a record.
LEMMA ReplayKeeps ==
  ASSUME TablesInv, NEW lax \in BOOLEAN, Replay(lax)
  PROVE  TablesInv'
PROOF
<1> DEFINE event == log[job.at + 1]
           now   == answers[job.at + 1]
           next  == answers[job.at + 2]
           given == IF Subscribed(event)
                    THEN Applying(job.store, job.at, job.folds, job.kept, lax)
                    ELSE job.store
<1>1. /\ job # Idle /\ job.at < applied
      /\ job' = [job EXCEPT !.at = @ + 1, !.store = given]
      /\ dead' = (dead \/ DeadGates(job.store, job.at, job.folds, lax))
      /\ program' = program /\ log' = log /\ live' = live
      /\ applied' = applied /\ blind' = blind /\ answers' = answers
  BY DEF Replay, history
<1>2. /\ program \in Programs /\ Chronicle /\ LiveIsSound /\ dead = FALSE
      /\ applied \in 0 .. Len(log) /\ Len(log) \in Nat
  BY DEF TablesInv, LiveIsSound, GatesStayLive, Chronicle, IsList
<1>3. /\ job = [way |-> job.way, asked |-> job.asked, folds |-> job.folds,
                at |-> job.at, kept |-> job.kept, store |-> job.store]
      /\ job.at \in 0 .. applied
      /\ job.folds \subseteq AllFolds
      /\ Kept(job.asked) \subseteq job.folds \cap job.kept
      /\ Sighted => /\ Closed(job.folds, job.kept)
                    /\ Sound(job.store, job.folds, job.kept, now)
  BY <1>1 DEF TablesInv, JobIsSound
<1>4. Stands(now) /\ next = Defined(now, job.at, event)
  BY <1>1, <1>2, <1>3, NextAnswer
<1>5. job.folds \subseteq AllFolds /\ job.folds \in SUBSET DOMAIN program
  BY <1>3 DEF AllFolds, Kept
<1> HIDE DEF event, now, next
<1>6. ASSUME Sighted PROVE Sound(given, job.folds, job.kept, next)
  <2>1. CASE Subscribed(event)
    <3>1. Sound(Applying(job.store, job.at, job.folds, job.kept, lax), job.folds,
                job.kept, Defined(now, job.at, log[job.at + 1]))
      BY <1>2, <1>3, <1>4, <1>6, WritesAreSound
    <3> QED
      BY <1>4, <2>1, <3>1 DEF event
  <2>2. CASE ~Subscribed(event)
    <3>1. Sound(job.store, job.folds, job.kept, Defined(now, job.at, event))
      BY <1>2, <1>3, <1>4, <1>5, <1>6, <2>2, UnsubscribedIsSound
    <3> QED
      BY <1>4, <2>2, <3>1
  <2> QED
    BY <2>1, <2>2
<1> HIDE DEF given
<1>7. /\ job' = [way |-> job.way, asked |-> job.asked, folds |-> job.folds,
                 at |-> job.at + 1, kept |-> job.kept, store |-> given]
      /\ job'.at = job.at + 1 /\ job'.folds = job.folds /\ job'.kept = job.kept
      /\ job'.way = job.way /\ job'.asked = job.asked /\ job'.store = given
  BY <1>1, <1>3
<1>8. Sighted => Sound(job'.store, job'.folds, job'.kept, answers'[job'.at + 1])
  <2>1. (job.at + 1) + 1 = job.at + 2
    BY <1>2, <1>3
  <2> QED
    BY <1>1, <1>6, <1>7, <2>1 DEF next
<1>9. JobIsSound'
  <2>1. /\ Sighted => Closed(job'.folds, job'.kept)
        /\ Kept(job'.asked) = Kept(job.asked)
        /\ Sighted' <=> Sighted
    BY <1>1, <1>3, <1>7, ProgramStays DEF Sighted
  <2>2. job'.at \in 0 .. applied'
    BY <1>1, <1>2, <1>3, <1>7
  <2>3. job' = [way |-> job.way, asked |-> job.asked, folds |-> job.folds,
                at |-> job.at, kept |-> job.kept, store |-> job.store]'
    BY <1>7
  <2> QED
    BY <1>1, <1>3, <1>7, <1>8, <2>1, <2>2, <2>3, ProgramStays DEF JobIsSound
<1>10. GatesStayLive'
  BY <1>1, <1>2, <1>5, NoDeadGates DEF GatesStayLive
<1>11. LiveIsSound'
  BY <1>1, <1>2, ProgramStays DEF LiveIsSound
<1> QED
  BY <1>1, <1>2, <1>9, <1>10, <1>11, ChronicleStays DEF TablesInv

\* The rebuilt columns take the place of the live ones.
LEMMA SwapKeeps ==
  ASSUME TablesInv, Swap
  PROVE  TablesInv'
PROOF
<1> DEFINE now  == answers[applied + 1]
           took == Columns(job.store, job.asked)
           stay == DOMAIN live \ Columns(live, job.asked)
<1>1. /\ job # Idle /\ job.at = applied /\ job' = Idle
      /\ live' = [c \in took \cup stay |-> IF c \in stay THEN live[c] ELSE job.store[c]]
      /\ program' = program /\ log' = log /\ applied' = applied
      /\ dead' = dead /\ answers' = answers /\ blind' = (blind \/ ~Sighted)
  BY DEF Swap, history
<1>2. /\ program \in Programs /\ Chronicle /\ GatesStayLive
      /\ applied \in 0 .. Len(log)
      /\ ~blind => Sound(live, AllFolds, AllFolds, now)
  BY DEF TablesInv, LiveIsSound
<1>3. /\ job.folds \subseteq AllFolds
      /\ Kept(job.asked) \subseteq job.folds \cap job.kept
      /\ Sighted => Sound(job.store, job.folds, job.kept, now)
  BY <1>1 DEF TablesInv, JobIsSound
<1>4. /\ job.folds \subseteq AllFolds
      /\ \A f \in AllFolds : f \in job.asked => f \in job.folds /\ f \in job.kept
  BY <1>3 DEF AllFolds, Kept
<1>5. /\ \A c : c \in took <=> c \in DOMAIN job.store /\ c[1] \in job.asked
      /\ \A c : c \in stay <=> c \in DOMAIN live /\ c[1] \notin job.asked
  BY DEF Columns
<1> HIDE DEF now, took, stay
<1>6. DOMAIN live' = took \cup stay
  BY <1>1
<1>7. ASSUME ~blind, Sighted
      PROVE  Sound(live', AllFolds, AllFolds, now)
  <2>1. \A c \in DOMAIN live' : c[1] \in AllFolds /\ c = <<c[1], c[2]>>
    BY <1>2, <1>3, <1>4, <1>5, <1>6, <1>7 DEF Sound
  <2>2. ASSUME NEW f \in AllFolds, NEW key \in KeysOf(Table(f))
        PROVE  /\ <<f, key>> \in DOMAIN live' <=> now.trace[f][key] # <<>>
               /\ Trace(live', f, key) = now.trace[f][key]
    <3> DEFINE cell == <<f, key>>
    <3>1. cell[1] = f
      OBVIOUS
    <3>2. CASE f \in job.asked
      <4>1. /\ cell \in DOMAIN job.store <=> now.trace[f][key] # <<>>
            /\ Trace(job.store, f, key) = now.trace[f][key]
        BY <1>3, <1>4, <1>7, <3>2 DEF Sound
      <4>2. /\ cell \notin stay
            /\ cell \in DOMAIN live' <=> cell \in DOMAIN job.store
        BY <1>5, <1>6, <3>1, <3>2
      <4>3. cell \in DOMAIN live' => live'[cell] = job.store[cell]
        BY <1>1, <1>6, <4>2
      <4> QED
        BY <4>1, <4>2, <4>3 DEF Trace
    <3>3. CASE f \notin job.asked
      <4>1. /\ cell \in DOMAIN live <=> now.trace[f][key] # <<>>
            /\ Trace(live, f, key) = now.trace[f][key]
        BY <1>2, <1>7 DEF Sound
      <4>2. cell \in DOMAIN live' <=> cell \in stay
        BY <1>5, <1>6, <3>1, <3>3
      <4>3. cell \in stay <=> cell \in DOMAIN live
        BY <1>5, <3>1, <3>3
      <4>4. cell \in DOMAIN live' => live'[cell] = live[cell]
        BY <1>1, <1>6, <4>2
      <4> QED
        BY <4>1, <4>2, <4>3, <4>4 DEF Trace
    <3> QED
      BY <3>2, <3>3
  <2> QED
    BY <2>1, <2>2 DEF Sound
<1>8. LiveIsSound'
  <2>1. ~blind' => Sound(live', AllFolds, AllFolds, answers'[applied' + 1])
    BY <1>1, <1>7 DEF now
  <2> QED
    BY <1>1, <1>2, <2>1, ProgramStays DEF LiveIsSound
<1> QED
  BY <1>1, <1>2, <1>8, ChronicleStays DEF TablesInv, JobIsSound, GatesStayLive, Idle

\* Nothing moves but what the model does not name here.
LEMMA StutterKeeps ==
  ASSUME TablesInv, UNCHANGED vars
  PROVE  TablesInv'
PROOF
<1>1. /\ program' = program /\ log' = log /\ live' = live /\ applied' = applied
      /\ job' = job /\ dead' = dead /\ blind' = blind /\ answers' = answers
  BY DEF vars
<1>2. Chronicle /\ LiveIsSound /\ JobIsSound
  BY DEF TablesInv
<1>3. ~blind => Sound(live', AllFolds, AllFolds, answers'[applied' + 1])
  BY <1>1, <1>2 DEF LiveIsSound
<1>4. LiveIsSound'
  BY <1>1, <1>2, <1>3, ProgramStays DEF LiveIsSound
<1>5. job # Idle => /\ job.at \in 0 .. applied'
                    /\ answers'[job.at + 1] = answers[job.at + 1]
  BY <1>1, <1>2 DEF JobIsSound
<1>6. JobIsSound'
  BY <1>1, <1>2, <1>5, JobStays
<1> QED
  BY <1>1, <1>2, <1>4, <1>6, ChronicleStays DEF TablesInv, GatesStayLive

\* Every step keeps the invariant.
LEMMA StepKeeps ==
  ASSUME TablesInv, [Next]_vars
  PROVE  TablesInv'
PROOF
<1>1. CASE \E event \in Events(program) : Land(event)
  BY <1>1, LandKeeps
<1>2. CASE \E lax \in BOOLEAN : Follow(lax) \/ Replay(lax)
  BY <1>2, FollowKeeps, ReplayKeeps
<1>3. CASE \E asked \in SUBSET DOMAIN program \ {{}} :
             \E way \in Ways(program, asked) : Begin(asked, way)
  BY <1>3, BeginKeeps
<1>4. CASE Swap
  BY <1>4, SwapKeeps
<1>5. CASE UNCHANGED vars
  BY <1>5, StutterKeeps
<1> QED
  BY <1>1, <1>2, <1>3, <1>4, <1>5 DEF Next

\* A reachable state keeps the invariant.
LEMMA TablesKeepTheInvariant == Spec => []TablesInv
PROOF
<1>1. TablesInv /\ [Next]_vars => TablesInv'
  BY StepKeeps
<1> QED
  BY <1>1, InitHolds, PTL DEF Spec

\* No key the sink hands an arm fails the arm's gate, whatever a host hands
\* back for a range (`Tables::bind_key`).
THEOREM NoGateIsRefused == Spec => []GatesStayLive
PROOF
<1>1. TablesInv => GatesStayLive
  BY DEF TablesInv
<1> QED
  BY <1>1, TablesKeepTheInvariant, PTL

\* The store that follows the log holds what the columns are defined to hold,
\* whatever was rebuilt meanwhile, unless a rebuild was swapped in that kept but
\* the keys of what it looks up (`Tables::apply`).
THEOREM ColumnsHoldTheirDefinition == Spec => []ColumnsAreDefined
PROOF
<1>1. TablesInv => ColumnsAreDefined
  BY DEF TablesInv, LiveIsSound, Sound, ColumnsAreDefined, Holds, Table
<1> QED
  BY <1>1, TablesKeepTheInvariant, PTL

\* A rebuild of some columns answers what the whole sink does, at every record
\* of its replay, if it keeps the values of what it looks up (`Rebuild::apply`).
THEOREM RebuildsAnswerAsTheSink == Spec => []RebuildsAnswer
PROOF
<1>1. TablesInv => RebuildsAnswer
  <2> SUFFICES ASSUME TablesInv, job # Idle, Sighted
               PROVE  Holds(job.store, Kept(job.asked), answers[job.at + 1].trace)
    BY DEF RebuildsAnswer
  <2>1. /\ Kept(job.asked) \subseteq job.folds \cap job.kept
        /\ Sound(job.store, job.folds, job.kept, answers[job.at + 1])
    BY DEF TablesInv, JobIsSound
  <2> QED
    BY <2>1 DEF Sound, Holds, Table
<1> QED
  BY <1>1, TablesKeepTheInvariant, PTL

---------------------------------------------------------------------------
(* Columns and reads of one key.                                           *)

\* The columns that are reads: what they are defined to hold is what folding
\* the log for their key comes to.
Agree(now, folded) ==
  \A f \in DOMAIN program : ~RangedThrough(program, f) =>
    \A key \in KeysOf(Table(f)) : now.trace[f][key] = folded[f][key]

\* A record more leaves them so.
LEMMA RecordsAgree ==
  ASSUME program \in Programs, NEW now, NEW folded, Agree(now, folded),
         NEW at, NEW event
  PROVE  Agree(Defined(now, at, event), Refold(program, folded, at, event))
PROOF
<1> SUFFICES ASSUME NEW f \in DOMAIN program, ~RangedThrough(program, f),
                    NEW key \in KeysOf(Table(f))
             PROVE  Defined(now, at, event).trace[f][key]
                      = Refold(program, folded, at, event)[f][key]
  BY DEF Agree
<1> DEFINE held  == Values(program, f, folded)
           arms  == program[f].arms
           read(n) == LookedUp(arms[n], event, held)
           takes == {n \in DOMAIN arms : Takes(arms[n], key, event, read(n))}
           order == InOrder(takes)
           left  == [i \in DOMAIN order |->
                       Entry(arms[order[i]], order[i], at, key, event, read(order[i]))]
<1>1. \A n \in DOMAIN arms : Pinned(program, f, n)
  BY DEF RangedThrough, Ranges
<1>2. ASSUME NEW g \in DirectReads(program, f)
      PROVE  g \in DOMAIN program /\ ~RangedThrough(program, g)
  <2>1. /\ g \in Reads(program, f)
        /\ Reads(program, g) \subseteq Reads(program, f)
        /\ Reads(program, f) \subseteq AllFolds
    BY ReadsFacts
  <2> QED
    BY <2>1 DEF RangedThrough, AllFolds, Kept
<1>3. Values(program, f, now.trace) = held
  <2>1. \A g \in DirectReads(program, f) : \A k \in KeysOf(program[g].table) :
          now.trace[g][k] = folded[g][k]
    BY <1>2 DEF Agree, Table
  <2> QED
    BY <2>1 DEF Values
<1> HIDE DEF held
<1>4. \A n : ReadAt(now, event, f, n) = read(n)
  BY <1>3 DEF ReadAt
<1>5. TakesIn(now, event, f, key) = takes
  BY <1>1, <1>4 DEF TakesIn, TakenAt
<1>6. Defined(now, at, event).trace[f][key] = now.trace[f][key] \o left
  BY <1>4, <1>5 DEF Defined, Table
<1>7. Refold(program, folded, at, event)[f][key] = folded[f][key] \o left
  BY DEF Refold, FoldRecord, Table, held
<1>8. now.trace[f][key] = folded[f][key]
  BY DEF Agree
<1> QED
  BY <1>6, <1>7, <1>8

\* By length of the log, the two agree.
FoldsAgree ==
  /\ IsList(refolds) /\ Len(refolds) = Len(answers)
  /\ \A m \in 1 .. Len(answers) : Agree(answers[m], refolds[m])

RefoldInv == TablesInv /\ FoldsAgree

\* They agree on a log without a record.
LEMMA InitAgrees == Init => FoldsAgree
PROOF
<1> SUFFICES ASSUME Init PROVE FoldsAgree
  OBVIOUS
<1> DEFINE seeds == Seeds(program)
           first == [rows |-> {}, trace |-> seeds]
<1>1. answers = <<first>> /\ refolds = <<seeds>>
  BY DEF Init
<1>2. Agree(first, seeds)
  BY DEF Agree
<1> HIDE DEF first, seeds
<1>3. /\ refolds \in Seq({seeds}) /\ Len(refolds) = 1 /\ refolds[1] = seeds
      /\ Len(answers) = 1 /\ answers[1] = first
  BY <1>1
<1> QED
  BY <1>2, <1>3 DEF FoldsAgree, IsList

\* Every step keeps them agreeing.
LEMMA StepAgrees ==
  ASSUME RefoldInv, [Next]_vars
  PROVE  RefoldInv'
PROOF
<1>1. TablesInv'
  BY StepKeeps DEF RefoldInv
<1>2. program' = program
  BY DEF Next, vars, Land, Follow, Begin, Replay, Swap
<1>3. ASSUME Len(answers') \in Nat, \A m \in 1 .. Len(answers') : Agree(answers'[m], refolds'[m])
      PROVE  \A m \in 1 .. Len(answers)' : Agree(answers[m], refolds[m])'
  BY <1>2, <1>3 DEF Agree, Table
<1>4. ASSUME NEW event \in Events(program), Land(event)
      PROVE  FoldsAgree'
  <2> DEFINE next   == Defined(Last(answers), Len(log), event)
             folded == Refold(program, Last(refolds), Len(log), event)
  <2>1. answers' = Append(answers, next) /\ refolds' = Append(refolds, folded)
    BY <1>4 DEF Land
  <2>2. PICK S, T : answers \in Seq(S) /\ refolds \in Seq(T)
    BY DEF RefoldInv, TablesInv, Chronicle, FoldsAgree, IsList
  <2>3. Len(answers) \in Nat /\ Len(answers) > 0 /\ Len(refolds) = Len(answers)
    <3>1. IsList(log) /\ Len(answers) = Len(log) + 1 /\ Len(refolds) = Len(answers)
      BY DEF RefoldInv, TablesInv, Chronicle, FoldsAgree
    <3> QED
      BY <3>1 DEF IsList
  <2>4. Agree(Last(answers), Last(refolds))
    BY <2>3 DEF RefoldInv, FoldsAgree, Last
  <2>5. Agree(next, folded)
    BY <2>4, RecordsAgree DEF RefoldInv, TablesInv
  <2> HIDE DEF next, folded
  <2> DEFINE n == Len(answers)
  <2>6. /\ answers' \in Seq(S \cup {next}) /\ refolds' \in Seq(T \cup {folded})
        /\ Len(answers') = n + 1 /\ Len(refolds') = n + 1
        /\ answers'[n + 1] = next /\ refolds'[n + 1] = folded
        /\ \A m \in 1 .. n : answers'[m] = answers[m] /\ refolds'[m] = refolds[m]
    <3>1. answers \in Seq(S \cup {next}) /\ refolds \in Seq(T \cup {folded})
      BY <2>2
    <3> QED
      BY <2>1, <2>3, <3>1
  <2>7. \A m \in 1 .. n : Agree(answers'[m], refolds'[m])
    BY <2>6 DEF RefoldInv, FoldsAgree
  <2> HIDE DEF n
  <2>8. \A m \in 1 .. n + 1 : Agree(answers'[m], refolds'[m])
    BY <2>3, <2>5, <2>6, <2>7 DEF n
  <2>9. \A m \in 1 .. Len(answers)' : Agree(answers[m], refolds[m])'
    BY <1>3, <2>3, <2>6, <2>8 DEF n
  <2> QED
    BY <2>6, <2>9 DEF FoldsAgree, IsList
<1>5. ASSUME UNCHANGED <<refolds, answers>>
      PROVE  FoldsAgree'
  <2>1. /\ IsList(refolds) /\ Len(refolds) = Len(answers) /\ Len(answers) \in Nat
        /\ \A m \in 1 .. Len(answers) : Agree(answers[m], refolds[m])
    BY DEF RefoldInv, FoldsAgree, TablesInv, Chronicle, IsList
  <2>2. \A m \in 1 .. Len(answers') : Agree(answers'[m], refolds'[m])
    BY <1>5, <2>1
  <2>3. \A m \in 1 .. Len(answers)' : Agree(answers[m], refolds[m])'
    BY <1>3, <1>5, <2>1, <2>2
  <2> QED
    BY <1>5, <2>1, <2>3 DEF FoldsAgree
<1>6. \/ \E event \in Events(program) : Land(event)
      \/ UNCHANGED <<refolds, answers>>
  BY DEF Next, vars, history, Follow, Begin, Replay, Swap
<1> QED
  BY <1>1, <1>4, <1>5, <1>6 DEF RefoldInv

\* A column that neither ranges nor reads through one that does answers what a
\* read of its key folds the log to (`Interpreter::fold`), at every length of
\* the log, under the same condition.
THEOREM PinnedColumnsAreReads == Spec => []PinnedColumnsRefold
PROOF
<1>1. Init => RefoldInv
  BY InitHolds, InitAgrees DEF RefoldInv
<1>2. RefoldInv /\ [Next]_vars => RefoldInv'
  BY StepAgrees
<1>3. RefoldInv => PinnedColumnsRefold
  <2> SUFFICES ASSUME RefoldInv, ~blind
               PROVE  Holds(live, {f \in AllFolds : ~RangedThrough(program, f)},
                            refolds[applied + 1])
    BY DEF PinnedColumnsRefold
  <2>1. applied + 1 \in 1 .. Len(answers)
    BY DEF RefoldInv, TablesInv, LiveIsSound, Chronicle, IsList
  <2>2. Agree(answers[applied + 1], refolds[applied + 1])
    BY <2>1 DEF RefoldInv, FoldsAgree
  <2>3. Sound(live, AllFolds, AllFolds, answers[applied + 1])
    BY DEF RefoldInv, TablesInv, LiveIsSound
  <2>4. AllFolds \subseteq DOMAIN program
    BY DEF AllFolds, Kept
  <2> QED
    BY <2>2, <2>3, <2>4 DEF Agree, Sound, Holds, Table
<1> QED
  BY <1>1, <1>2, <1>3, PTL DEF Spec
=============================================================================
