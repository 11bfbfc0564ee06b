------------------------- MODULE EffectDeliveryProofs -------------------------
(***************************************************************************)
(* The theorems of EffectDelivery, for every effect, whatever its bodies   *)
(* do, whatever answers, and however often deliveries are lost.  The       *)
(* argument is one inductive invariant, Inv, stated for one delivery and   *)
(* the world: `best` is what the one run of the body came to so far, the   *)
(* delivery under way has come to the same as far as it got, and the       *)
(* journal holds what it holds of exactly that run.                        *)
(***************************************************************************)
EXTENDS DurableDeliveries, SequenceTheorems, FiniteSetTheorems, TLAPS

\* A sequence of anything.
IsSeq(s) == s \in Seq({s[i] : i \in DOMAIN s})

\* How often a call was made before the one at i, and the two together.
OrdinalAt(s, i) == Cardinality({j \in 1 .. i - 1 : s[j].key = s[i].key})
Entered(s, i)   == [key |-> s[i].key, ordinal |-> OrdinalAt(s, i)]

-----------------------------------------------------------------------------
(* What a delivery holds.                                                  *)

Reached(d)   == At(d) < Len(log)
Beginning(d) == Begins(d, log[At(d) + 1])
Runs(d)      == Beginning(d) \in {"clock", "body"}

\* How many calls come before the body's first: the clock's, if it is read.
FirstCall(d) == IF Beginning(d) = "clock" THEN 1 ELSE 0

Asked(d) == {performed[d][i] : i \in DOMAIN performed[d]}

\* Variables whose values are a program's own are on deliveries.
Domains ==
  /\ DOMAIN seen = Delivery
  /\ DOMAIN landed = Delivery
  /\ DOMAIN journal = Delivery
  /\ best = [d \in Delivery |-> best[d]]
  /\ DOMAIN performed = Delivery

Lists(d) == IsSeq(seen[d]) /\ IsSeq(best[d]) /\ IsSeq(performed[d])

\* Before its position is in the log, nothing was delivered.
Untouched(d) ==
  ~Reached(d) =>
    /\ pc[d] = "waiting"
    /\ seen[d] = <<>> /\ best[d] = <<>> /\ performed[d] = <<>>
    /\ journal[d] = {} /\ returned[d] = {}

Begun(d) ==
  /\ pc[d] \in {"clock", "body", "call", "landed"} => Runs(d)
  /\ best[d] # <<>> \/ performed[d] # <<>> => Runs(d)
  /\ pc[d] = "clock" => Beginning(d) = "clock" /\ seen[d] = <<>>
  /\ pc[d] \in {"body", "call", "landed"} => Len(seen[d]) >= FirstCall(d)
  /\ performed[d] # <<>> => Len(best[d]) >= FirstCall(d)

\* The furthest delivery is one run of the body.
Traced(d) ==
  \A i \in 1 .. Len(best[d]) :
    LET made == best[d][i] IN
      /\ made = [key |-> made.key, answer |-> made.answer]
      /\ i <= FirstCall(d) => made.key = NowKey
      /\ i > FirstCall(d) =>
           /\ made.key = Turn(d, Prefix(d), SubSeq(best[d], 1, i - 1))
           /\ made.key.does \in Journaled \cup {"reveal"}
           /\ made.key.does = "reveal" => made.answer = Plaintext

\* The journal holds the calls of that run, and nothing else.
Journaling(d) ==
  /\ \A entry \in journal[d] : \E i \in 1 .. Len(best[d]) :
       /\ entry.key = best[d][i].key
       /\ entry.ordinal = OrdinalAt(best[d], i)
       /\ entry.answer = best[d][i].answer
  /\ \A i \in 1 .. Len(best[d]) : best[d][i].key.does # "reveal" =>
       \E entry \in journal[d] :
         /\ entry.key = best[d][i].key
         /\ entry.ordinal = OrdinalAt(best[d], i)
         /\ entry.answer = best[d][i].answer

\* What a call may come to.
MayCome(call) ==
  CASE call.does = "http"   -> {Response(reply) : reply \in Replies}
    [] call.does = "invoke" -> {Outcome(flow) : flow \in {"ok", "invalid", "reject"}}
    [] OTHER                -> {Done}

\* Only the furthest delivery calls.
AtTheFront(d) ==
  pc[d] \in {"call", "landed"} =>
    /\ Len(seen[d]) = Len(best[d])
    /\ Furthest(d).does \in Journaled

Landing(d) ==
  pc[d] = "landed" =>
    /\ AskedFurthest(d)
    /\ landed[d] \in MayCome(Furthest(d))

\* The world was asked for the calls of the run, and at most its next one.
Performing(d) ==
  /\ \A i \in 1 .. Len(best[d]) : best[d][i].key.does \in Journaled =>
       Entered(best[d], i) \in Asked(d)
  /\ \A call \in Asked(d) :
       /\ call.key.does \in Journaled
       /\ \/ call = NextCall(d)
          \/ \E i \in 1 .. Len(best[d]) : call = Entered(best[d], i)

\* A call that landed and was not recorded is paid for before it is made
\* again.
Losing(d) ==
  LET again == Len(performed[d]) - Cardinality(Asked(d)) IN
    /\ again <= lost[d]
    /\ AskedFurthest(d) /\ pc[d] # "landed" => again < lost[d]

\* The run came to an end, and stays there.
Ends(d, what) ==
  Runs(d) /\ Len(best[d]) >= FirstCall(d) /\ Furthest(d).does = what

\* No delivery gets past content whose key is gone.
Stopped(d) ==
  /\ Runs(d)
  /\ \E n \in FirstCall(d) .. Len(best[d]) :
       /\ Len(seen[d]) <= n
       /\ Turn(d, Prefix(d), SubSeq(best[d], 1, n)).does = "reveal"
       /\ Gone(Turn(d, Prefix(d), SubSeq(best[d], 1, n)).on)

Answering(d) ==
  /\ returned[d] \subseteq Answers \ {"none"}
  /\ returned[d] # {} => pc[d] \notin {"call", "landed"}
  /\ pc[d] = "returned" => answer[d] \in returned[d]
  /\ "ignored" \in returned[d] => Beginning(d) = "ignored"
  /\ "done" \in returned[d] => Ends(d, "done")
  /\ "failed" \in returned[d] => Ends(d, "fail")
  /\ "skipped" \in returned[d] => Stopped(d)

DeliveryInv(d) ==
  /\ Lists(d)
  /\ Untouched(d)
  /\ Begun(d)
  /\ IsPrefix(seen[d], best[d])
  /\ Traced(d)
  /\ Journaling(d)
  /\ AtTheFront(d)
  /\ Landing(d)
  /\ Performing(d)
  /\ Losing(d)
  /\ Answering(d)

Inv == TypeOK /\ Domains /\ \A d \in Delivery : DeliveryInv(d)

-----------------------------------------------------------------------------
(* Sequences.                                                              *)

\* What is known of a sequence of anything.
LEMMA SeqFacts ==
  ASSUME NEW s, IsSeq(s)
  PROVE  Len(s) \in Nat /\ DOMAIN s = 1 .. Len(s)
BY DEF IsSeq

\* Appending to one.
LEMMA AppendAny ==
  ASSUME NEW s, IsSeq(s), NEW x
  PROVE  /\ IsSeq(Append(s, x))
         /\ Len(Append(s, x)) = Len(s) + 1
         /\ \A i \in 1 .. Len(s) : Append(s, x)[i] = s[i]
         /\ Append(s, x)[Len(s) + 1] = x
PROOF
<1> DEFINE S == {s[i] : i \in DOMAIN s} \cup {x}
           t == Append(s, x)
<1>1. s \in Seq(S) /\ x \in S
  BY DEF IsSeq
<1>2. /\ t \in Seq(S)
      /\ Len(t) = Len(s) + 1
      /\ DOMAIN t = 1 .. Len(s) + 1
      /\ \A i \in 1 .. Len(s) : t[i] = s[i]
      /\ t[Len(s) + 1] = x
  BY <1>1
<1>3. t \in Seq({t[i] : i \in DOMAIN t})
  BY <1>2
<1> QED
  BY <1>2, <1>3 DEF IsSeq

\* Cutting one short.
LEMMA SubSeqAny ==
  ASSUME NEW s, IsSeq(s), NEW n \in 0 .. Len(s)
  PROVE  /\ IsSeq(SubSeq(s, 1, n))
         /\ Len(SubSeq(s, 1, n)) = n
         /\ \A i \in 1 .. n : SubSeq(s, 1, n)[i] = s[i]
PROOF
<1> DEFINE S == {s[i] : i \in DOMAIN s}
           t == SubSeq(s, 1, n)
<1>1. s \in Seq(S) /\ Len(s) \in Nat
  BY DEF IsSeq
<1>2. t = [i \in 1 .. n |-> s[i]]
  BY <1>1
<1>3. \A i \in 1 .. n : t[i] = s[i]
  BY <1>2
<1>4. n \in Nat /\ DOMAIN t = 1 .. n /\ t = [i \in 1 .. n |-> t[i]]
  BY <1>1, <1>2
<1> HIDE DEF t
<1>5. t \in [1 .. n -> {t[i] : i \in DOMAIN t}]
  BY <1>4
<1>6. t \in Seq({t[i] : i \in DOMAIN t}) /\ Len(t) = n
  BY <1>4, <1>5
<1> QED
  BY <1>3, <1>6 DEF IsSeq, t

\* The empty one.
LEMMA EmptyAny == IsSeq(<<>>) /\ Len(<<>>) = 0
BY DEF IsSeq

\* Two with the same elements are the same.
LEMMA SameElements ==
  ASSUME NEW s, IsSeq(s), NEW t, IsSeq(t), Len(s) = Len(t),
         \A i \in 1 .. Len(s) : s[i] = t[i]
  PROVE  s = t
PROOF
<1> DEFINE S == {s[i] : i \in DOMAIN s} \cup {t[i] : i \in DOMAIN t}
<1>1. s \in Seq(S) /\ t \in Seq(S)
  BY DEF IsSeq
<1> QED
  BY <1>1, SeqEqual

\* A prefix is what is left of a sequence cut short.
LEMMA PrefixIsCut ==
  ASSUME NEW s, IsSeq(s), NEW t, IsSeq(t), IsPrefix(s, t)
  PROVE  s = SubSeq(t, 1, Len(s)) /\ Len(s) \in 0 .. Len(t)
PROOF
<1>1. Len(s) \in 0 .. Len(t)
  BY SeqFacts DEF IsPrefix
<1>2. /\ IsSeq(SubSeq(t, 1, Len(s)))
      /\ Len(SubSeq(t, 1, Len(s))) = Len(s)
      /\ \A i \in 1 .. Len(s) : SubSeq(t, 1, Len(s))[i] = t[i]
  BY <1>1, SubSeqAny
<1>3. \A i \in 1 .. Len(s) : s[i] = SubSeq(t, 1, Len(s))[i]
  BY <1>2 DEF IsPrefix
<1> QED
  BY <1>1, <1>2, <1>3, SameElements

\* What is cut from a prefix is cut from the whole.
LEMMA CutOfPrefix ==
  ASSUME NEW s, IsSeq(s), NEW t, IsSeq(t), IsPrefix(s, t), NEW n \in 0 .. Len(s)
  PROVE  SubSeq(t, 1, n) = SubSeq(s, 1, n)
PROOF
<1>1. n \in 0 .. Len(t)
  BY SeqFacts DEF IsPrefix
<1>2. /\ IsSeq(SubSeq(s, 1, n)) /\ Len(SubSeq(s, 1, n)) = n
      /\ \A i \in 1 .. n : SubSeq(s, 1, n)[i] = s[i]
  BY SubSeqAny
<1>3. /\ IsSeq(SubSeq(t, 1, n)) /\ Len(SubSeq(t, 1, n)) = n
      /\ \A i \in 1 .. n : SubSeq(t, 1, n)[i] = t[i]
  BY <1>1, SubSeqAny
<1>4. \A i \in 1 .. n : s[i] = t[i]
  BY SeqFacts DEF IsPrefix
<1> QED
  BY <1>2, <1>3, <1>4, SameElements

\* A prefix as long as the whole is the whole.
LEMMA PrefixOfLength ==
  ASSUME NEW s, IsSeq(s), NEW t, IsSeq(t), IsPrefix(s, t), Len(s) = Len(t)
  PROVE  s = t
BY SameElements DEF IsPrefix

-----------------------------------------------------------------------------
(* Ordinals.                                                               *)

\* Indexes that are picked out are finitely many.
LEMMA PickedIndexes ==
  ASSUME NEW n \in Nat, NEW S \in SUBSET (1 .. n)
  PROVE  IsFiniteSet(S) /\ Cardinality(S) \in Nat
PROOF
<1>1. IsFiniteSet(1 .. n)
  BY FS_Interval
<1>2. IsFiniteSet(S)
  BY <1>1, FS_Subset
<1> QED
  BY <1>2, FS_CardinalityType

\* An ordinal is a number.
LEMMA OrdinalIsNat ==
  ASSUME NEW s, IsSeq(s), NEW key
  PROVE  Ordinal(s, key) \in Nat
BY SeqFacts, PickedIndexes DEF Ordinal

LEMMA OrdinalAtIsNat ==
  ASSUME NEW s, IsSeq(s), NEW i \in 1 .. Len(s)
  PROVE  OrdinalAt(s, i) \in Nat
PROOF
<1>1. Len(s) \in Nat /\ {j \in 1 .. i - 1 : s[j].key = s[i].key} \in SUBSET (1 .. Len(s))
  BY SeqFacts
<1> QED
  BY <1>1, PickedIndexes DEF OrdinalAt

\* The first entry has ordinal 0.
LEMMA FirstOrdinal == \A s : OrdinalAt(s, 1) = 0
PROOF
<1>1. \A s : {j \in 1 .. 1 - 1 : s[j].key = s[1].key} = {}
  OBVIOUS
<1> QED
  BY <1>1, FS_EmptySet DEF OrdinalAt

LEMMA OrdinalOfNone == \A key : Ordinal(<<>>, key) = 0
PROOF
<1>1. \A key : {i \in DOMAIN <<>> : (<<>>)[i].key = key} = {}
  OBVIOUS
<1> QED
  BY <1>1, FS_EmptySet DEF Ordinal

\* More indexes are picked where one is added.
LEMMA PickedMore ==
  ASSUME NEW n \in Nat, NEW S \in SUBSET (1 .. n), NEW T \in SUBSET S,
         NEW i \in S, i \notin T
  PROVE  Cardinality(T) < Cardinality(S)
PROOF
<1>1. IsFiniteSet(S) /\ IsFiniteSet(T)
      /\ Cardinality(T) \in Nat /\ Cardinality(S) \in Nat
  BY PickedIndexes
<1>2. Cardinality(T) <= Cardinality(S) /\ (Cardinality(S) = Cardinality(T) => S = T)
  BY <1>1, FS_Subset
<1> QED
  BY <1>1, <1>2

\* Of two calls alike, the later one has the higher ordinal.
LEMMA OrdinalsRise ==
  ASSUME NEW s, IsSeq(s), NEW i \in 1 .. Len(s), NEW j \in 1 .. Len(s),
         i < j, s[i].key = s[j].key
  PROVE  OrdinalAt(s, i) < OrdinalAt(s, j)
PROOF
<1> DEFINE Before(k) == {h \in 1 .. k - 1 : s[h].key = s[k].key}
<1>1. Len(s) \in Nat
  BY SeqFacts
<1>2. /\ Before(j) \in SUBSET (1 .. Len(s))
      /\ Before(i) \in SUBSET Before(j)
      /\ i \in Before(j) /\ i \notin Before(i)
  BY <1>1
<1>3. Cardinality(Before(i)) < Cardinality(Before(j))
  BY <1>1, <1>2, PickedMore
<1> QED
  BY <1>3 DEF OrdinalAt

\* A call that is made again has a higher ordinal than each before it.
LEMMA NextOrdinal ==
  ASSUME NEW s, IsSeq(s), NEW i \in 1 .. Len(s)
  PROVE  OrdinalAt(s, i) < Ordinal(s, s[i].key)
PROOF
<1> DEFINE Before == {h \in 1 .. i - 1 : s[h].key = s[i].key}
           All    == {h \in DOMAIN s : s[h].key = s[i].key}
<1>1. Len(s) \in Nat /\ DOMAIN s = 1 .. Len(s)
  BY SeqFacts
<1>2. /\ All \in SUBSET (1 .. Len(s)) /\ Before \in SUBSET All
      /\ i \in All /\ i \notin Before
  BY <1>1
<1>3. Cardinality(Before) < Cardinality(All)
  BY <1>1, <1>2, PickedMore
<1> QED
  BY <1>3 DEF OrdinalAt, Ordinal

\* A call and its ordinal tell where it was made.
LEMMA EnteredOnce ==
  ASSUME NEW s, IsSeq(s), NEW i \in 1 .. Len(s), NEW j \in 1 .. Len(s),
         s[i].key = s[j].key, OrdinalAt(s, i) = OrdinalAt(s, j)
  PROVE  i = j
PROOF
<1>1. OrdinalAt(s, i) \in Nat /\ OrdinalAt(s, j) \in Nat /\ Len(s) \in Nat
  BY OrdinalAtIsNat, SeqFacts
<1>2. i < j => OrdinalAt(s, i) < OrdinalAt(s, j)
  BY OrdinalsRise
<1>3. j < i => OrdinalAt(s, j) < OrdinalAt(s, i)
  BY OrdinalsRise
<1> QED
  BY <1>1, <1>2, <1>3

\* What was entered stays as it was when calls are added.
LEMMA OrdinalStays ==
  ASSUME NEW s, NEW t, IsSeq(s), IsSeq(t), IsPrefix(s, t), NEW i \in 1 .. Len(s)
  PROVE  OrdinalAt(t, i) = OrdinalAt(s, i) /\ Entered(t, i) = Entered(s, i)
PROOF
<1>1. \A j \in 1 .. i : j \in 1 .. Len(s) /\ s[j] = t[j]
  BY SeqFacts DEF IsPrefix
<1>2. {j \in 1 .. i - 1 : s[j].key = s[i].key}
        = {j \in 1 .. i - 1 : t[j].key = t[i].key}
  BY <1>1, SeqFacts
<1>3. s[i] = t[i]
  BY <1>1, SeqFacts
<1> QED
  BY <1>2, <1>3 DEF OrdinalAt, Entered

\* The ordinal a call is given is the one it is entered under.
LEMMA OrdinalGiven ==
  ASSUME NEW s, NEW t, IsSeq(s), IsSeq(t), IsPrefix(s, t), Len(s) < Len(t)
  PROVE  OrdinalAt(t, Len(s) + 1) = Ordinal(s, t[Len(s) + 1].key)
PROOF
<1> DEFINE key == t[Len(s) + 1].key
<1>1. Len(s) \in Nat /\ DOMAIN s = 1 .. Len(s)
  BY SeqFacts
<1>2. \A j \in 1 .. Len(s) : s[j] = t[j]
  BY DEF IsPrefix
<1>3. {j \in 1 .. (Len(s) + 1) - 1 : t[j].key = key}
        = {j \in DOMAIN s : s[j].key = key}
  BY <1>1, <1>2
<1> QED
  BY <1>3 DEF OrdinalAt, Ordinal

\* What was asked for is finitely much, and no more than was performed.
LEMMA ElementsAreFinite ==
  ASSUME NEW s, IsSeq(s)
  PROVE  LET S == {s[i] : i \in DOMAIN s} IN
           IsFiniteSet(S) /\ Cardinality(S) \in Nat
PROOF
<1> DEFINE S == {s[i] : i \in DOMAIN s}
<1>1. Len(s) \in Nat /\ DOMAIN s = 1 .. Len(s)
  BY SeqFacts
<1>2. IsFiniteSet(1 .. Len(s))
  BY <1>1, FS_Interval
<1>3. [i \in 1 .. Len(s) |-> s[i]] \in Surjection(1 .. Len(s), S)
  BY <1>1 DEF Surjection
<1>4. IsFiniteSet(S)
  BY <1>2, <1>3, FS_Surjection
<1> QED
  BY <1>4, FS_CardinalityType

LEMMA AskedAreFinite ==
  ASSUME NEW d \in Delivery, IsSeq(performed[d])
  PROVE  IsFiniteSet(Asked(d)) /\ Cardinality(Asked(d)) \in Nat
BY ElementsAreFinite DEF Asked

-----------------------------------------------------------------------------
(* Types.                                                                  *)

LEMMA TypesStart == Init => TypeOK
PROOF
<1> SUFFICES ASSUME Init PROVE TypeOK
  OBVIOUS
<1> QED
  BY DeliveryAssumption DEF Init, TypeOK, Answers

\* Nor does an answer.
LEMMA AnswersAreTyped ==
  ASSUME TypeOK, NEW d \in Delivery, NEW how \in Answers, Answer(d, how)
  PROVE  /\ pc' \in [Delivery -> {"waiting", "clock", "body", "call", "landed",
                                  "returned", "over"}]
         /\ \A e \in Delivery : pc'[e] = "call" => pc[e] = "call"
         /\ answer' \in [Delivery -> Answers]
         /\ returned' \in [Delivery -> SUBSET Answers]
PROOF
<1>1. /\ pc' \in [Delivery -> {"waiting", "clock", "body", "call", "landed",
                                  "returned", "over"}]
      /\ \A e \in Delivery : pc'[e] = "call" => pc[e] = "call"
  BY DEF TypeOK, Answer, Goto
<1>2. answer' \in [Delivery -> Answers]
  BY DEF TypeOK, Answer
<1>3. returned[d] \cup {how} \in SUBSET Answers
  BY DEF TypeOK
<1>4. returned' \in [Delivery -> SUBSET Answers]
  BY <1>3 DEF TypeOK, Answer
<1> QED
  BY <1>1, <1>2, <1>4

\* No step leaves the types.
LEMMA TypesStay == TypeOK /\ [Next]_vars => TypeOK'
PROOF
<1> SUFFICES ASSUME TypeOK, [Next]_vars PROVE TypeOK'
  OBVIOUS
<1> USE DEF TypeOK, Answers
<1>1. CASE UNCHANGED vars
  BY <1>1 DEF vars
<1>2. CASE Elsewhere
  <2>1. erased' \subseteq Subject /\ credential' \in 0 .. MaxRotations
    BY <1>2, DeliveryAssumption DEF Elsewhere
  <2>2. log' \in Seq(Event)
    <3>1. log' = log \/ \E e \in Event : log' = Append(log, e)
      BY <1>2, DeliveryAssumption DEF Elsewhere
    <3>2. log \in Seq(Event)
      OBVIOUS
    <3>3. ASSUME NEW e \in Event PROVE Append(log, e) \in Seq(Event)
      BY <3>2, AppendProperties
    <3> QED
      BY <3>1, <3>2, <3>3
  <2> QED
    BY <1>2, <2>1, <2>2 DEF Elsewhere, history
<1>3. ASSUME NEW d \in Delivery, Local(d) PROVE TypeOK'
  <2>1. CASE Deliver(d)
    <3>1. CASE UNCHANGED <<answer, returned>>
      BY <2>1, <3>1 DEF Deliver, Answer, Goto, world
    <3>2. CASE Answer(d, "ignored")
      BY <2>1, <3>2, AnswersAreTyped DEF Deliver, world
    <3> QED
      BY <2>1, <3>1, <3>2 DEF Deliver
  <2>2. CASE PinClock(d)
    BY <2>2 DEF PinClock, Learn, Goto, world
  <2>3. CASE Replay(d)
    BY <2>3 DEF Replay, Learn, world
  <2>4. CASE Call(d)
    <3>1. 0 \in 0 .. Attempts /\ 0 < Attempts
      BY DeliveryAssumption
    <3> QED
      BY <2>4, <3>1 DEF Call, Goto, world, history
  <2>5. CASE Erases(d)
    BY <2>5 DEF Erases, Perform, Goto
  <2>6. CASE Record(d)
    BY <2>6 DEF Record, Learn, Goto, world
  <2>7. CASE Reveal(d)
    BY <2>7 DEF Reveal, Learn, world
  <2>8. CASE Skip(d)
    BY <2>8, AnswersAreTyped DEF Skip, world
  <2>9. CASE Return(d)
    BY <2>9, AnswersAreTyped DEF Return, world
  <2>10. CASE Advance(d)
    BY <2>10 DEF Advance, Goto, world, history
  <2> QED
    BY <1>3, <2>1, <2>2, <2>3, <2>4, <2>5, <2>6, <2>7, <2>8, <2>9, <2>10
       DEF Local
<1>4. ASSUME NEW d \in Delivery, Answered(d) PROVE TypeOK'
  BY <1>4 DEF Answered, Perform, Goto
<1>5. ASSUME NEW d \in Delivery, Absorbed(d) PROVE TypeOK'
  <2>1. /\ tries[d] + 1 \in 0 .. Attempts
        /\ ~SentOut(d) => tries[d] + 1 < Attempts
    BY <1>5, DeliveryAssumption DEF Absorbed, SentOut
  <2> QED
    BY <1>5, <2>1 DEF Absorbed, Goto, world, history
<1>6. ASSUME NEW d \in Delivery, Invoked(d) PROVE TypeOK'
  <2> DEFINE emits == Decide(Move(d), log).emits
  <2>1. log' = log \o emits /\ emits \in Seq(Event)
    BY <1>6 DEF Invoked
  <2> HIDE DEF emits
  <2>2. log' \in Seq(Event)
    BY <2>1
  <2> QED
    BY <1>6, <2>2 DEF Invoked, Perform, Goto
<1>7. ASSUME NEW d \in Delivery, Beaten(d) PROVE TypeOK'
  BY <1>7 DEF Beaten, Goto, world, history
<1>8. ASSUME NEW d \in Delivery, Raise(d) PROVE TypeOK'
  BY <1>8 DEF Raise, Goto, world, history
<1>9. ASSUME NEW d \in Delivery, Crash(d) PROVE TypeOK'
  <2>1. crashes' \in 0 .. MaxCrashes
    BY <1>9, DeliveryAssumption DEF Crash
  <2>2. lost' \in [Delivery -> Nat]
    BY <1>9 DEF Crash
  <2> QED
    BY <1>9, <2>1, <2>2 DEF Crash, Goto
<1> QED
  BY <1>1, <1>2, <1>3, <1>4, <1>5, <1>6, <1>7, <1>8, <1>9 DEF Next

\* Variables hold what they are declared to hold, and a request is sent no
\* more often than `ATTEMPTS`.
THEOREM TypeCorrect == Spec => []TypeOK
PROOF
<1> QED
  BY TypesStart, TypesStay, PTL DEF Spec

-----------------------------------------------------------------------------
(* What a step of one delivery leaves alone.                               *)

\* Records are added and keys destroyed, never the other way.
Grows ==
  /\ log \in Seq(Event) /\ log' \in Seq(Event)
  /\ IsPrefix(log, log')
  /\ erased \subseteq erased'

Alone(d) ==
  /\ pc'[d] = pc[d] /\ seen'[d] = seen[d] /\ landed'[d] = landed[d]
  /\ journal'[d] = journal[d] /\ answer'[d] = answer[d] /\ best'[d] = best[d]
  /\ performed'[d] = performed[d] /\ returned'[d] = returned[d]
  /\ lost'[d] = lost[d]

OthersAlone(d) == \A e \in Delivery \ {d} : Alone(e)

LEMMA LogAppended ==
  ASSUME NEW s \in Seq(Event), NEW t \in Seq(Event)
  PROVE  IsPrefix(s, s) /\ IsPrefix(s, s \o t)
PROOF
<1>1. /\ Len(s \o t) = Len(s) + Len(t)
      /\ \A i \in 1 .. Len(s) : (s \o t)[i] = s[i]
      /\ Len(s) \in Nat /\ Len(t) \in Nat
  BY ConcatProperties
<1> QED
  BY <1>1 DEF IsPrefix

LEMMA EventAppended ==
  ASSUME NEW s \in Seq(Event), NEW e \in Event
  PROVE  Append(s, e) \in Seq(Event) /\ IsPrefix(s, Append(s, e))
BY AppendProperties DEF IsPrefix

\* The world around the deliveries leaves every one of them alone.
LEMMA ElsewhereAlone ==
  ASSUME TypeOK, Domains, Elsewhere
  PROVE  Grows /\ Domains' /\ \A d \in Delivery : Alone(d)
PROOF
<1>1. log \in Seq(Event)
  BY DEF TypeOK
<1>2. log' = log \/ \E e \in Event : log' = Append(log, e)
  BY DeliveryAssumption DEF Elsewhere
<1>3. log' \in Seq(Event) /\ IsPrefix(log, log')
  BY <1>1, <1>2, EventAppended, LogAppended
<1>4. erased \subseteq erased'
  BY DEF Elsewhere
<1> QED
  BY <1>1, <1>3, <1>4 DEF Elsewhere, Grows, Alone, Domains, history

\* ... and a step of one leaves the others alone, and destroys or takes back
\* nothing.
LEMMA StepAlone ==
  ASSUME TypeOK, Domains, NEW d \in Delivery,
         \/ Local(d) \/ Answered(d) \/ Absorbed(d) \/ Invoked(d) \/ Beaten(d)
         \/ Raise(d) \/ Crash(d)
  PROVE  Grows /\ Domains' /\ OthersAlone(d)
PROOF
<1>1. log \in Seq(Event) /\ IsPrefix(log, log)
  BY LogAppended DEF TypeOK
<1> USE <1>1 DEF TypeOK, Grows, Domains, OthersAlone, Alone
<1>2. CASE Deliver(d)
  BY <1>2 DEF Deliver, Answer, Goto, world
<1>3. CASE PinClock(d)
  BY <1>3 DEF PinClock, Learn, Goto, world
<1>4. CASE Replay(d)
  BY <1>4 DEF Replay, Learn, world
<1>5. CASE Call(d)
  BY <1>5 DEF Call, Goto, world, history
<1>6. CASE Erases(d)
  BY <1>6 DEF Erases, Perform, Goto
<1>7. CASE Record(d)
  BY <1>7 DEF Record, Learn, Goto, world
<1>8. CASE Reveal(d)
  BY <1>8 DEF Reveal, Learn, world
<1>9. CASE Skip(d)
  BY <1>9 DEF Skip, Answer, Goto, world
<1>10. CASE Return(d)
  BY <1>10 DEF Return, Answer, Goto, world
<1>11. CASE Advance(d)
  BY <1>11 DEF Advance, Goto, world, history
<1>12. CASE Answered(d)
  BY <1>12 DEF Answered, Perform, Goto
<1>13. CASE Absorbed(d)
  BY <1>13 DEF Absorbed, Goto, world, history
<1>14. CASE Invoked(d)
  <2> DEFINE emits == Decide(Move(d), log).emits
  <2>1. log' = log \o emits /\ emits \in Seq(Event)
    BY <1>14 DEF Invoked
  <2> HIDE DEF emits
  <2>2. log' \in Seq(Event) /\ IsPrefix(log, log')
    BY <2>1, LogAppended
  <2> QED
    BY <1>14, <2>2 DEF Invoked, Perform, Goto
<1>15. CASE Beaten(d)
  BY <1>15 DEF Beaten, Goto, world, history
<1>16. CASE Raise(d)
  BY <1>16 DEF Raise, Goto, world, history
<1>17. CASE Crash(d)
  BY <1>17 DEF Crash, Goto
<1> QED
  BY <1>2, <1>3, <1>4, <1>5, <1>6, <1>7, <1>8, <1>9, <1>10, <1>11, <1>12,
     <1>13, <1>14, <1>15, <1>16, <1>17 DEF Local

\* Where a position is in the log, what is read of the log for it stays.
LEMMA WorldKept ==
  ASSUME NEW d \in Delivery, Grows, Reached(d)
  PROVE  /\ Reached(d)'
         /\ Prefix(d)' = Prefix(d)
         /\ Beginning(d)' = Beginning(d)
         /\ FirstCall(d)' = FirstCall(d)
         /\ Runs(d)' = Runs(d)
PROOF
<1>1. /\ At(d) \in Nat /\ Len(log) \in Nat /\ Len(log') \in Nat
      /\ At(d) + 1 \in 1 .. Len(log) /\ Len(log) <= Len(log')
      /\ At(d) + 1 \in 1 .. Len(log')
      /\ \A i \in 1 .. Len(log) : log[i] = log'[i]
  BY DeliveryAssumption DEF Grows, Reached, IsPrefix
<1>2. IsSeq(log) /\ IsSeq(log')
  BY DEF Grows, IsSeq
<1>3. SubSeq(log', 1, At(d) + 1) = SubSeq(log, 1, At(d) + 1)
  <2> DEFINE s == SubSeq(log, 1, At(d) + 1)
             t == SubSeq(log', 1, At(d) + 1)
  <2>1. /\ IsSeq(s) /\ Len(s) = At(d) + 1
        /\ \A i \in 1 .. At(d) + 1 : s[i] = log[i]
    BY <1>1, <1>2, SubSeqAny
  <2>2. /\ IsSeq(t) /\ Len(t) = At(d) + 1
        /\ \A i \in 1 .. At(d) + 1 : t[i] = log'[i]
    BY <1>1, <1>2, SubSeqAny
  <2>3. \A i \in 1 .. Len(s) : s[i] = t[i]
    BY <1>1, <2>1, <2>2
  <2> QED
    BY <2>1, <2>2, <2>3, SameElements
<1>4. Prefix(d)' = Prefix(d)
  BY <1>3 DEF Prefix
<1>5. Reached(d)' /\ Beginning(d)' = Beginning(d)
  BY <1>1 DEF Reached, Beginning
<1> QED
  BY <1>4, <1>5 DEF FirstCall, Runs

\* A key that is gone stays gone.
LEMMA GoneForGood ==
  ASSUME Grows
  PROVE  \A s : Gone(s) => Wraps(s) \cap erased' # {}
BY DEF Grows, Gone

-----------------------------------------------------------------------------
(* Where a delivery stands in the run.                                     *)

LEMMA FrontFacts ==
  ASSUME NEW d \in Delivery, DeliveryInv(d)
  PROVE  /\ IsSeq(seen[d]) /\ IsSeq(best[d]) /\ IsSeq(performed[d])
         /\ Len(seen[d]) \in 0 .. Len(best[d]) /\ Len(best[d]) \in Nat
         /\ Len(performed[d]) \in Nat
         /\ seen[d] = SubSeq(best[d], 1, Len(seen[d]))
         /\ FirstCall(d) \in 0 .. 1
PROOF
<1>1. IsSeq(seen[d]) /\ IsSeq(best[d]) /\ IsSeq(performed[d])
      /\ IsPrefix(seen[d], best[d])
  BY DEF DeliveryInv, Lists
<1>2. FirstCall(d) \in 0 .. 1
  BY DEF FirstCall
<1> QED
  BY <1>1, <1>2, PrefixIsCut, SeqFacts

\* At the front, what the body does next is what the furthest one does, and
\* nothing is recorded of it.
LEMMA Fronted ==
  ASSUME NEW d \in Delivery, DeliveryInv(d), Len(seen[d]) = Len(best[d])
  PROVE  /\ seen[d] = best[d]
         /\ Move(d) = Furthest(d)
         /\ \A i \in 1 .. Len(best[d]) : best[d][i].key = Furthest(d) =>
              OrdinalAt(best[d], i) # Ordinal(best[d], Furthest(d))
         /\ RecordedNext(d) = {}
PROOF
<1>1. seen[d] = best[d]
  BY PrefixOfLength DEF DeliveryInv, Lists
<1>2. Move(d) = Furthest(d)
  BY <1>1 DEF Move, Furthest
<1>3. \A i \in 1 .. Len(best[d]) : best[d][i].key = Furthest(d) =>
        OrdinalAt(best[d], i) # Ordinal(best[d], Furthest(d))
  <2> SUFFICES ASSUME NEW i \in 1 .. Len(best[d]), best[d][i].key = Furthest(d)
               PROVE  OrdinalAt(best[d], i) # Ordinal(best[d], Furthest(d))
    OBVIOUS
  <2>1. IsSeq(best[d])
    BY DEF DeliveryInv, Lists
  <2>2. OrdinalAt(best[d], i) < Ordinal(best[d], Furthest(d))
    BY <2>1, NextOrdinal
  <2>3. OrdinalAt(best[d], i) \in Nat
    BY <2>1, OrdinalAtIsNat
  <2> QED
    BY <2>2, <2>3
<1>4. RecordedNext(d) = {}
  BY <1>1, <1>2, <1>3 DEF RecordedNext, Recorded, KeyOf, Shown, DeliveryInv, Journaling
<1> QED
  BY <1>1, <1>2, <1>3, <1>4

\* Short of the front, the body does next what the run did there, and what
\* is recorded of it is what the run learned.
LEMMA Retraced ==
  ASSUME NEW d \in Delivery, DeliveryInv(d), Len(seen[d]) >= FirstCall(d),
         Len(seen[d]) < Len(best[d])
  PROVE  LET made == best[d][Len(seen[d]) + 1] IN
           /\ made.key = Move(d)
           /\ made = [key |-> made.key, answer |-> made.answer]
           /\ Move(d).does \in Journaled \cup {"reveal"}
           /\ Move(d).does = "reveal" => made.answer = Plaintext
           /\ Move(d).does \in Journaled => RecordedNext(d) # {}
           /\ \A entry \in RecordedNext(d) :
                entry.key = made.key /\ entry.answer = made.answer
PROOF
<1> DEFINE n    == Len(seen[d])
           made == best[d][n + 1]
<1>1. /\ IsSeq(seen[d]) /\ IsSeq(best[d])
      /\ n \in Nat /\ Len(best[d]) \in Nat /\ FirstCall(d) \in Nat
      /\ seen[d] = SubSeq(best[d], 1, n)
  BY FrontFacts
<1>2. n + 1 \in 1 .. Len(best[d]) /\ n + 1 > FirstCall(d) /\ (n + 1) - 1 = n
  BY <1>1
<1>3. /\ made = [key |-> made.key, answer |-> made.answer]
      /\ made.key = Turn(d, Prefix(d), SubSeq(best[d], 1, n))
      /\ made.key.does \in Journaled \cup {"reveal"}
      /\ made.key.does = "reveal" => made.answer = Plaintext
  BY <1>2 DEF DeliveryInv, Traced
<1>4. made.key = Move(d)
  BY <1>1, <1>3 DEF Move
<1>5. OrdinalAt(best[d], n + 1) = Ordinal(seen[d], Move(d))
  BY <1>1, <1>4, OrdinalGiven DEF DeliveryInv
<1>6. Move(d).does \in Journaled => RecordedNext(d) # {}
  BY <1>2, <1>4, <1>5
     DEF RecordedNext, Recorded, KeyOf, Shown, DeliveryInv, Journaling, Journaled
<1>7. ASSUME NEW entry \in RecordedNext(d)
      PROVE  entry.key = made.key /\ entry.answer = made.answer
  <2>1. /\ entry \in journal[d]
        /\ entry.key = Move(d) /\ entry.ordinal = Ordinal(seen[d], Move(d))
    BY <1>7 DEF RecordedNext, Recorded, KeyOf, Shown
  <2>2. PICK i \in 1 .. Len(best[d]) :
          /\ entry.key = best[d][i].key
          /\ entry.ordinal = OrdinalAt(best[d], i)
          /\ entry.answer = best[d][i].answer
    BY <2>1 DEF DeliveryInv, Journaling
  <2>3. i = n + 1
    BY <1>1, <1>2, <1>4, <1>5, <2>1, <2>2, EnteredOnce
  <2> QED
    BY <2>2, <2>3
<1> QED
  BY <1>3, <1>4, <1>6, <1>7

\* A delivery that learns what the run did there stays on the run.
LEMMA Follows ==
  ASSUME NEW d \in Delivery, Domains, DeliveryInv(d), Len(seen[d]) < Len(best[d]),
         NEW key, NEW what, Learn(d, key, what),
         best[d][Len(seen[d]) + 1] = [key |-> key, answer |-> what]
  PROVE  /\ best'[d] = best[d]
         /\ IsSeq(seen'[d]) /\ IsPrefix(seen'[d], best[d])
         /\ Len(seen'[d]) = Len(seen[d]) + 1
PROOF
<1> DEFINE n    == Len(seen[d])
           call == [key |-> key, answer |-> what]
           made == Append(seen[d], call)
<1>1. /\ IsSeq(seen[d]) /\ IsSeq(best[d]) /\ n \in Nat /\ Len(best[d]) \in Nat
      /\ IsPrefix(seen[d], best[d])
  BY FrontFacts DEF DeliveryInv
<1>2. /\ IsSeq(made) /\ Len(made) = n + 1
      /\ \A i \in 1 .. n : made[i] = seen[d][i]
      /\ made[n + 1] = call
  BY <1>1, AppendAny
<1>3. /\ seen'[d] = made
      /\ best'[d] = IF Len(made) > Len(best[d]) THEN made ELSE best[d]
  BY DEF Learn, Domains
<1>4. IsPrefix(made, best[d])
  <2>1. \A i \in 1 .. n : made[i] = best[d][i]
    BY <1>1, <1>2 DEF IsPrefix
  <2> QED
    BY <1>1, <1>2, <2>1 DEF IsPrefix
<1> HIDE DEF made
<1> QED
  BY <1>1, <1>2, <1>3, <1>4

\* The run learned one thing more.
Further(d, key, what) ==
  /\ IsSeq(best'[d]) /\ Len(best'[d]) = Len(best[d]) + 1
  /\ IsPrefix(best[d], best'[d])
  /\ best'[d][Len(best[d]) + 1] = [key |-> key, answer |-> what]

\* A delivery that learns at the front takes the run further.
LEMMA GoesFurther ==
  ASSUME NEW d \in Delivery, Domains, DeliveryInv(d), Len(seen[d]) = Len(best[d]),
         NEW key, NEW what, Learn(d, key, what)
  PROVE  /\ best'[d] = Append(best[d], [key |-> key, answer |-> what])
         /\ seen'[d] = best'[d]
         /\ Further(d, key, what)
PROOF
<1> DEFINE call == [key |-> key, answer |-> what]
           made == Append(best[d], call)
<1>1. seen[d] = best[d] /\ IsSeq(best[d]) /\ Len(best[d]) \in Nat
  BY FrontFacts, Fronted
<1>2. /\ IsSeq(made) /\ Len(made) = Len(best[d]) + 1
      /\ \A i \in 1 .. Len(best[d]) : made[i] = best[d][i]
      /\ made[Len(best[d]) + 1] = call
  BY <1>1, AppendAny
<1>3. /\ seen'[d] = made
      /\ best'[d] = IF Len(made) > Len(best[d]) THEN made ELSE best[d]
  BY <1>1 DEF Learn, Domains
<1> HIDE DEF made
<1>4. best'[d] = made
  BY <1>1, <1>2, <1>3
<1> QED
  BY <1>1, <1>2, <1>3, <1>4 DEF IsPrefix, Further, made

-----------------------------------------------------------------------------
(* A step that takes the run no further.                                   *)

RunKept(d) ==
  best'[d] = best[d] /\ journal'[d] = journal[d] /\ performed'[d] = performed[d]

LEMMA NextCallKept ==
  ASSUME NEW d \in Delivery, Grows, Reached(d), best'[d] = best[d]
  PROVE  /\ Furthest(d)' = Furthest(d)
         /\ NextCall(d)' = NextCall(d)
PROOF
<1>1. Prefix(d)' = Prefix(d)
  BY WorldKept
<1>2. Furthest(d)' = Furthest(d)
  BY <1>1 DEF Furthest
<1> QED
  BY <1>2 DEF NextCall, Ordinal

LEMMA TracedKept ==
  ASSUME NEW d \in Delivery, Grows, Reached(d), best'[d] = best[d], Traced(d)
  PROVE  Traced(d)'
PROOF
<1>1. Prefix(d)' = Prefix(d) /\ FirstCall(d)' = FirstCall(d)
  BY WorldKept
<1> QED
  BY <1>1 DEF Traced

LEMMA EndsKept ==
  ASSUME NEW d \in Delivery, Grows, Reached(d), best'[d] = best[d], NEW what
  PROVE  Ends(d, what)' = Ends(d, what)
PROOF
<1>1. /\ Furthest(d)' = Furthest(d) /\ FirstCall(d)' = FirstCall(d)
      /\ Runs(d)' = Runs(d)
  BY WorldKept, NextCallKept
<1> QED
  BY <1>1 DEF Ends

LEMMA RunIsKept ==
  ASSUME NEW d \in Delivery, Grows, Reached(d), RunKept(d), DeliveryInv(d)
  PROVE  /\ Asked(d)' = Asked(d)
         /\ AskedFurthest(d)' = AskedFurthest(d)
         /\ Traced(d)' /\ Journaling(d)' /\ Performing(d)'
PROOF
<1>1. Furthest(d)' = Furthest(d) /\ NextCall(d)' = NextCall(d)
  BY NextCallKept DEF RunKept
<1>2. Asked(d)' = Asked(d)
  BY DEF RunKept, Asked
<1>3. AskedFurthest(d)' = AskedFurthest(d)
  BY <1>1 DEF RunKept, AskedFurthest
<1>4. Traced(d)'
  BY TracedKept DEF RunKept, DeliveryInv
<1>5. Journaling(d)'
  <2>1. \A i : OrdinalAt(best[d], i)' = OrdinalAt(best[d], i)
    BY DEF RunKept, OrdinalAt
  <2>2. best'[d] = best[d] /\ journal'[d] = journal[d]
    BY DEF RunKept
  <2> QED
    BY <2>1, <2>2 DEF DeliveryInv, Journaling
<1>6. Performing(d)'
  <2>1. \A i : Entered(best[d], i)' = Entered(best[d], i)
    BY DEF RunKept, Entered, OrdinalAt
  <2>2. best'[d] = best[d]
    BY DEF RunKept
  <2> QED
    BY <1>1, <1>2, <2>1, <2>2 DEF DeliveryInv, Performing
<1> QED
  BY <1>2, <1>3, <1>4, <1>5, <1>6

\* A delivery that is no further than it was is stopped where it was.
LEMMA StoppedStays ==
  ASSUME NEW d \in Delivery, Grows, Reached(d), DeliveryInv(d), Stopped(d),
         best'[d] = best[d],
         \A n \in FirstCall(d) .. Len(best[d]) :
           Len(seen[d]) <= n /\ Len(seen'[d]) > n =>
             LET call == Turn(d, Prefix(d), SubSeq(best[d], 1, n)) IN
               ~(call.does = "reveal" /\ Gone(call.on))
  PROVE  Stopped(d)'
PROOF
<1> DEFINE call(n) == Turn(d, Prefix(d), SubSeq(best[d], 1, n))
<1>1. PICK n \in FirstCall(d) .. Len(best[d]) :
        Len(seen[d]) <= n /\ call(n).does = "reveal" /\ Gone(call(n).on)
  BY DEF Stopped
<1>2. ~(Len(seen'[d]) > n)
  BY <1>1
<1>3. Wraps(call(n).on) \cap erased' # {}
  BY <1>1, GoneForGood
<1>4. /\ Prefix(d)' = Prefix(d) /\ FirstCall(d)' = FirstCall(d)
      /\ Runs(d)' /\ Len(seen'[d]) <= n
  BY <1>1, <1>2, WorldKept, FrontFacts DEF Stopped
<1> QED
  BY <1>1, <1>3, <1>4 DEF Stopped, Gone

-----------------------------------------------------------------------------
(* A step that takes the run further.                                      *)

\* What may follow on the run.
Follow(d, key, what) ==
  \/ Len(best[d]) < FirstCall(d) /\ key = NowKey
  \/ /\ Len(best[d]) >= FirstCall(d) /\ key = Furthest(d)
     /\ key.does \in Journaled \cup {"reveal"}
     /\ key.does = "reveal" => what = Plaintext

LEMMA TracedFurther ==
  ASSUME NEW d \in Delivery, Grows, Reached(d), DeliveryInv(d),
         NEW key, NEW what, Further(d, key, what), Follow(d, key, what)
  PROVE  Traced(d)'
PROOF
<1> DEFINE n == Len(best[d])
<1>1. /\ IsSeq(best[d]) /\ IsSeq(best'[d]) /\ n \in Nat /\ Len(best'[d]) = n + 1
      /\ IsPrefix(best[d], best'[d]) /\ FirstCall(d) \in Nat
      /\ best'[d][n + 1] = [key |-> key, answer |-> what]
  BY FrontFacts DEF Further
<1>2. Prefix(d)' = Prefix(d) /\ FirstCall(d)' = FirstCall(d)
  BY WorldKept
<1>3. ASSUME NEW i \in 1 .. n
      PROVE  /\ best'[d][i] = best[d][i]
             /\ SubSeq(best'[d], 1, i - 1) = SubSeq(best[d], 1, i - 1)
  <2>1. i - 1 \in 0 .. n
    BY <1>1
  <2> QED
    BY <1>1, <2>1, CutOfPrefix DEF IsPrefix
<1>4. SubSeq(best'[d], 1, n) = best[d]
  BY <1>1, PrefixIsCut
<1> DEFINE Right(i) ==
     LET made == best'[d][i] IN
       /\ made = [key |-> made.key, answer |-> made.answer]
       /\ i <= FirstCall(d) => made.key = NowKey
       /\ i > FirstCall(d) =>
            /\ made.key = Turn(d, Prefix(d), SubSeq(best'[d], 1, i - 1))
            /\ made.key.does \in Journaled \cup {"reveal"}
            /\ made.key.does = "reveal" => made.answer = Plaintext
<1>5. ASSUME NEW i \in 1 .. n PROVE Right(i)
  BY <1>3 DEF DeliveryInv, Traced
<1>6. Right(n + 1)
  <2>1. (n + 1) - 1 = n
    BY <1>1
  <2>2. n + 1 <= FirstCall(d) => n < FirstCall(d)
    BY <1>1
  <2>3. n + 1 > FirstCall(d) => n >= FirstCall(d)
    BY <1>1
  <2>4. /\ n < FirstCall(d) => key = NowKey
        /\ n >= FirstCall(d) => /\ key = Turn(d, Prefix(d), best[d])
                                /\ key.does \in Journaled \cup {"reveal"}
                                /\ key.does = "reveal" => what = Plaintext
    BY <1>1 DEF Follow, Furthest
  <2>5. LET made == best'[d][n + 1] IN
          made.key = key /\ made.answer = what
            /\ made = [key |-> made.key, answer |-> made.answer]
    BY <1>1
  <2>6. SubSeq(best'[d], 1, (n + 1) - 1) = best[d]
    BY <1>4, <2>1
  <2> QED
    BY <2>2, <2>3, <2>4, <2>5, <2>6, <1>1
<1>7. \A i \in 1 .. n + 1 : Right(i)
  BY <1>1, <1>5, <1>6
<1> QED
  BY <1>1, <1>2, <1>7 DEF Traced

\* What is entered of the run, once it is longer.
LEMMA EnteredFurther ==
  ASSUME NEW d \in Delivery, DeliveryInv(d),
         NEW key, NEW what, Further(d, key, what)
  PROVE  /\ \A i \in 1 .. Len(best[d]) :
              /\ best'[d][i] = best[d][i]
              /\ OrdinalAt(best'[d], i) = OrdinalAt(best[d], i)
              /\ Entered(best'[d], i) = Entered(best[d], i)
         /\ OrdinalAt(best'[d], Len(best[d]) + 1) = Ordinal(best[d], key)
         /\ Entered(best'[d], Len(best[d]) + 1)
              = [key |-> key, ordinal |-> Ordinal(best[d], key)]
PROOF
<1>1. /\ IsSeq(best[d]) /\ IsSeq(best'[d])
      /\ Len(best[d]) \in Nat /\ Len(best'[d]) = Len(best[d]) + 1
      /\ IsPrefix(best[d], best'[d])
      /\ best'[d][Len(best[d]) + 1].key = key
  BY FrontFacts DEF Further
<1>2. ASSUME NEW i \in 1 .. Len(best[d])
      PROVE  /\ best'[d][i] = best[d][i]
             /\ OrdinalAt(best'[d], i) = OrdinalAt(best[d], i)
             /\ Entered(best'[d], i) = Entered(best[d], i)
  BY <1>1, OrdinalStays DEF IsPrefix
<1>3. OrdinalAt(best'[d], Len(best[d]) + 1) = Ordinal(best[d], key)
  BY <1>1, OrdinalGiven
<1> QED
  BY <1>1, <1>2, <1>3 DEF Entered

LEMMA JournalFurther ==
  ASSUME NEW d \in Delivery, DeliveryInv(d),
         NEW key, NEW what, Further(d, key, what),
         \/ key.does = "reveal" /\ journal'[d] = journal[d]
         \/ journal'[d] = Insert(journal[d],
              [key |-> key, ordinal |-> Ordinal(best[d], key), answer |-> what])
  PROVE  Journaling(d)'
PROOF
<1> DEFINE n == Len(best[d])
           new == [key |-> key, ordinal |-> Ordinal(best[d], key), answer |-> what]
<1>1. /\ n \in Nat /\ Len(best'[d]) = n + 1 /\ IsSeq(best[d])
      /\ best'[d][n + 1] = [key |-> key, answer |-> what]
  BY FrontFacts DEF Further
<1>2. /\ \A i \in 1 .. n : /\ best'[d][i] = best[d][i]
                           /\ OrdinalAt(best'[d], i) = OrdinalAt(best[d], i)
      /\ OrdinalAt(best'[d], n + 1) = Ordinal(best[d], key)
  BY EnteredFurther
<1>3. ASSUME NEW entry \in journal[d]
      PROVE  entry.key # key \/ entry.ordinal # Ordinal(best[d], key)
  <2>1. PICK i \in 1 .. n :
          entry.key = best[d][i].key /\ entry.ordinal = OrdinalAt(best[d], i)
    BY DEF DeliveryInv, Journaling
  <2>2. OrdinalAt(best[d], i) < Ordinal(best[d], best[d][i].key)
        /\ OrdinalAt(best[d], i) \in Nat
    BY <1>1, NextOrdinal, OrdinalAtIsNat
  <2> QED
    BY <2>1, <2>2
<1>4. \/ key.does = "reveal" /\ journal'[d] = journal[d]
      \/ journal'[d] = journal[d] \cup {new}
  BY <1>3 DEF Insert
<1>5. ASSUME NEW entry \in journal'[d]
      PROVE  \E i \in 1 .. Len(best'[d]) :
               /\ entry.key = best'[d][i].key
               /\ entry.ordinal = OrdinalAt(best'[d], i)
               /\ entry.answer = best'[d][i].answer
  <2>1. CASE entry \in journal[d]
    <3>1. PICK i \in 1 .. n : /\ entry.key = best[d][i].key
                              /\ entry.ordinal = OrdinalAt(best[d], i)
                              /\ entry.answer = best[d][i].answer
      BY <2>1 DEF DeliveryInv, Journaling
    <3> QED
      BY <1>1, <1>2, <3>1
  <2>2. CASE entry = new
    <3>1. n + 1 \in 1 .. Len(best'[d])
      BY <1>1
    <3> QED
      BY <1>1, <1>2, <2>2, <3>1
  <2> QED
    BY <1>4, <1>5, <2>1, <2>2
<1>6. ASSUME NEW i \in 1 .. Len(best'[d]), best'[d][i].key.does # "reveal"
      PROVE  \E entry \in journal'[d] :
               /\ entry.key = best'[d][i].key
               /\ entry.ordinal = OrdinalAt(best'[d], i)
               /\ entry.answer = best'[d][i].answer
  <2>1. CASE i \in 1 .. n
    <3>1. PICK entry \in journal[d] : /\ entry.key = best[d][i].key
                                      /\ entry.ordinal = OrdinalAt(best[d], i)
                                      /\ entry.answer = best[d][i].answer
      BY <1>2, <1>6, <2>1 DEF DeliveryInv, Journaling
    <3> QED
      BY <1>2, <1>4, <2>1, <3>1
  <2>2. CASE i = n + 1
    <3>1. new \in journal'[d]
      BY <1>1, <1>4, <1>6, <2>2
    <3>2. /\ new.key = best'[d][i].key
          /\ new.ordinal = OrdinalAt(best'[d], i)
          /\ new.answer = best'[d][i].answer
      BY <1>1, <1>2, <2>2
    <3> QED
      BY <3>1, <3>2
  <2> QED
    BY <1>1, <2>1, <2>2
<1> QED
  BY <1>5, <1>6 DEF Journaling

LEMMA PerformedFurther ==
  ASSUME NEW d \in Delivery, Domains', DeliveryInv(d), IsSeq(best'[d]),
         performed'[d] = performed[d],
         NEW key, NEW what, Further(d, key, what),
         performed[d] # <<>> => key = Furthest(d),
         key.does \in Journaled => key = Furthest(d) /\ AskedFurthest(d)
  PROVE  /\ Asked(d)' = Asked(d)
         /\ Performing(d)'
         /\ ~AskedFurthest(d)'
PROOF
<1> DEFINE n == Len(best[d])
<1>1. n \in Nat /\ Len(best'[d]) = n + 1
      /\ best'[d][n + 1] = [key |-> key, answer |-> what]
  BY FrontFacts DEF Further
<1>2. /\ \A i \in 1 .. n : /\ best'[d][i] = best[d][i]
                           /\ Entered(best'[d], i) = Entered(best[d], i)
      /\ Entered(best'[d], n + 1)
           = [key |-> key, ordinal |-> Ordinal(best[d], key)]
  BY EnteredFurther
<1>3. Asked(d)' = Asked(d)
  BY DEF Asked
<1>4. ASSUME NEW i \in 1 .. Len(best'[d]), best'[d][i].key.does \in Journaled
      PROVE  Entered(best'[d], i) \in Asked(d)
  <2>1. CASE i \in 1 .. n
    BY <1>2, <1>4, <2>1 DEF DeliveryInv, Performing
  <2>2. CASE i = n + 1
    <3>1. key = Furthest(d) /\ AskedFurthest(d)
      BY <1>1, <1>4, <2>2
    <3> QED
      BY <1>2, <2>2, <3>1 DEF AskedFurthest, NextCall, Asked
  <2> QED
    BY <1>1, <2>1, <2>2
<1>5. ASSUME NEW call \in Asked(d)
      PROVE  /\ call.key.does \in Journaled
             /\ \E i \in 1 .. Len(best'[d]) : call = Entered(best'[d], i)
  <2>1. /\ call.key.does \in Journaled
        /\ \/ call = NextCall(d)
           \/ \E i \in 1 .. n : call = Entered(best[d], i)
    BY DEF DeliveryInv, Performing
  <2>2. CASE call = NextCall(d)
    <3>1. performed[d] # <<>>
      BY <1>5 DEF Asked
    <3>2. call = Entered(best'[d], n + 1) /\ n + 1 \in 1 .. Len(best'[d])
      BY <1>1, <1>2, <2>2, <3>1 DEF NextCall
    <3> QED
      BY <2>1, <3>2
  <2>3. CASE \E i \in 1 .. n : call = Entered(best[d], i)
    BY <1>1, <1>2, <2>1, <2>3
  <2> QED
    BY <2>1, <2>2, <2>3
<1>6. Performing(d)'
  BY <1>3, <1>4, <1>5 DEF Performing
<1>7. ~AskedFurthest(d)'
  <2>1. SUFFICES ASSUME AskedFurthest(d)' PROVE FALSE
    OBVIOUS
  <2>2. NextCall(d)' \in Asked(d)
    BY <1>3, <2>1 DEF AskedFurthest, Asked
  <2>3. PICK i \in 1 .. Len(best'[d]) : NextCall(d)' = Entered(best'[d], i)
    BY <1>5, <2>2
  <2>4. /\ best'[d][i].key = Furthest(d)'
        /\ OrdinalAt(best'[d], i) = Ordinal(best'[d], Furthest(d)')
    BY <2>3 DEF NextCall, Entered
  <2>5. /\ OrdinalAt(best'[d], i) < Ordinal(best'[d], best'[d][i].key)
        /\ OrdinalAt(best'[d], i) \in Nat
    BY NextOrdinal, OrdinalAtIsNat
  <2> QED
    BY <2>4, <2>5
<1> QED
  BY <1>3, <1>6, <1>7

-----------------------------------------------------------------------------
(* Answers.                                                                *)

\* An answer the run gives.
Fits(d, how) ==
  \/ how = "ignored" /\ Beginning(d) = "ignored"
  \/ how = "done" /\ Ends(d, "done")
  \/ how = "failed" /\ Ends(d, "fail")
  \/ how = "skipped" /\ Stopped(d)

\* Nothing gets past content whose key is gone.
Passes(d) ==
  \A n \in FirstCall(d) .. Len(best[d]) :
    Len(seen[d]) <= n /\ Len(seen'[d]) > n =>
      LET call == Turn(d, Prefix(d), SubSeq(best[d], 1, n)) IN
        ~(call.does = "reveal" /\ Gone(call.on))

LEMMA AnsweringStays ==
  ASSUME NEW d \in Delivery, Grows, Reached(d), DeliveryInv(d),
         best'[d] = best[d], Passes(d),
         \A how \in returned'[d] \ returned[d] : Fits(d, how),
         returned'[d] # {} => pc'[d] \notin {"call", "landed"},
         pc'[d] = "returned" => answer'[d] \in returned'[d]
  PROVE  Answering(d)'
PROOF
<1>1. Stopped(d) => Stopped(d)'
  BY StoppedStays DEF Passes
<1>2. Ends(d, "done")' = Ends(d, "done") /\ Ends(d, "fail")' = Ends(d, "fail")
  BY EndsKept
<1>3. Beginning(d)' = Beginning(d)
  BY WorldKept
<1>4. /\ returned[d] \subseteq Answers \ {"none"}
      /\ \A how \in returned[d] : Fits(d, how)
  BY DEF DeliveryInv, Answering, Answers, Fits
<1>5. /\ returned'[d] \subseteq Answers \ {"none"}
      /\ \A how \in returned'[d] : Fits(d, how)
  BY <1>4 DEF Fits, Answers
<1>6. /\ "ignored" \in returned'[d] => Beginning(d) = "ignored"
      /\ "done" \in returned'[d] => Ends(d, "done")
      /\ "failed" \in returned'[d] => Ends(d, "fail")
      /\ "skipped" \in returned'[d] => Stopped(d)
  BY <1>5 DEF Fits
<1> QED
  BY <1>1, <1>2, <1>3, <1>5, <1>6 DEF Answering

\* A delivery that goes on from the front is of a position never answered.
LEMMA FrontIsSilent ==
  ASSUME NEW d \in Delivery, DeliveryInv(d), Runs(d),
         Len(seen[d]) = Len(best[d]),
         \/ Len(best[d]) < FirstCall(d)
         \/ Furthest(d).does \in Journaled
         \/ Furthest(d).does = "reveal" /\ ~Gone(Furthest(d).on)
  PROVE  returned[d] = {}
PROOF
<1>1. /\ Len(best[d]) \in Nat /\ FirstCall(d) \in Nat
      /\ IsSeq(best[d]) /\ seen[d] = best[d]
      /\ SubSeq(best[d], 1, Len(best[d])) = best[d]
  BY FrontFacts, Fronted
<1>2. "ignored" \notin returned[d]
  BY DEF DeliveryInv, Answering, Runs
<1>3. ~Ends(d, "done") /\ ~Ends(d, "fail")
  BY <1>1 DEF Ends, Journaled
<1>4. ~Stopped(d)
  <2> SUFFICES ASSUME NEW n \in FirstCall(d) .. Len(best[d]), Len(seen[d]) <= n,
                      Turn(d, Prefix(d), SubSeq(best[d], 1, n)).does = "reveal",
                      Gone(Turn(d, Prefix(d), SubSeq(best[d], 1, n)).on)
               PROVE  FALSE
    BY DEF Stopped
  <2>1. n = Len(best[d]) /\ Len(best[d]) >= FirstCall(d)
    BY <1>1
  <2>2. Furthest(d).does = "reveal" /\ Gone(Furthest(d).on)
    BY <1>1, <2>1 DEF Furthest
  <2> QED
    BY <1>1, <2>1, <2>2 DEF Journaled
<1> QED
  BY <1>2, <1>3, <1>4 DEF DeliveryInv, Answering, Answers

-----------------------------------------------------------------------------
(* Steps, by what they do to the run.                                      *)

\* One that leaves the run as it was.
LEMMA QuietStep ==
  ASSUME NEW d \in Delivery, Grows, Reached(d), DeliveryInv(d), RunKept(d),
         IsSeq(seen'[d]), IsPrefix(seen'[d], best[d]),
         Begun(d)', AtTheFront(d)', Landing(d)', Losing(d)', Answering(d)'
  PROVE  DeliveryInv(d)'
PROOF
<1>1. Traced(d)' /\ Journaling(d)' /\ Performing(d)'
  BY RunIsKept
<1>2. best'[d] = best[d] /\ performed'[d] = performed[d]
  BY DEF RunKept
<1>3. Lists(d)' /\ IsPrefix(seen[d], best[d])'
  BY <1>2 DEF DeliveryInv, Lists
<1>4. Untouched(d)'
  BY WorldKept DEF Untouched
<1> QED
  BY <1>1, <1>3, <1>4 DEF DeliveryInv

\* One that nothing of the run follows from, and that leaves the body.
LEMMA RestStep ==
  ASSUME NEW d \in Delivery, TypeOK, TypeOK', Grows, Reached(d), DeliveryInv(d),
         RunKept(d),
         seen'[d] \in {seen[d], <<>>},
         pc'[d] \in {"waiting", "returned", "over"},
         IF pc[d] = "landed" THEN lost'[d] = lost[d] + 1 ELSE lost'[d] = lost[d],
         \A how \in returned'[d] \ returned[d] : Fits(d, how),
         pc'[d] = "returned" => answer'[d] \in returned'[d]
  PROVE  DeliveryInv(d)'
PROOF
<1>1. /\ IsSeq(seen[d]) /\ IsSeq(performed[d]) /\ Len(seen[d]) \in Nat
      /\ Len(performed[d]) \in Nat /\ FirstCall(d) \in Nat
      /\ lost[d] \in Nat /\ lost'[d] \in Nat
  <2>1. lost[d] \in Nat /\ lost'[d] \in Nat
    BY DEF TypeOK
  <2> QED
    BY <2>1, FrontFacts
<1>2. /\ IsSeq(seen'[d]) /\ IsPrefix(seen'[d], best[d])
      /\ Len(seen'[d]) <= Len(seen[d]) /\ Len(seen'[d]) \in Nat
  <2>1. IsPrefix(<<>>, best[d])
    BY FrontFacts, EmptyAny DEF IsPrefix
  <2> QED
    BY <1>1, <2>1, EmptyAny DEF DeliveryInv
<1>3. Begun(d)'
  BY WorldKept DEF RunKept, DeliveryInv, Begun
<1>4. AtTheFront(d)' /\ Landing(d)'
  BY DEF AtTheFront, Landing
<1>5. Losing(d)'
  <2>1. Asked(d)' = Asked(d) /\ AskedFurthest(d)' = AskedFurthest(d)
        /\ performed'[d] = performed[d]
    BY RunIsKept DEF RunKept
  <2>2. Cardinality(Asked(d)) \in Nat
    BY <1>1, AskedAreFinite
  <2> QED
    BY <1>1, <2>1, <2>2 DEF DeliveryInv, Losing
<1>6. Answering(d)'
  <2>1. Passes(d)
    BY <1>1, <1>2, FrontFacts DEF Passes
  <2> QED
    BY <2>1, AnsweringStays DEF RunKept
<1> QED
  BY <1>2, <1>3, <1>4, <1>5, <1>6, QuietStep

\* One of another delivery, or of the world around them.
LEMMA AloneStep ==
  ASSUME NEW d \in Delivery, TypeOK, TypeOK', Grows, DeliveryInv(d), Alone(d)
  PROVE  DeliveryInv(d)'
PROOF
<1>1. RunKept(d) /\ seen'[d] = seen[d]
  BY DEF Alone, RunKept
<1>2. CASE Reached(d)
  <2>1. IsSeq(seen'[d]) /\ IsPrefix(seen'[d], best[d])
    BY <1>1, FrontFacts DEF DeliveryInv
  <2>2. Begun(d)'
    BY <1>2, WorldKept DEF Alone, DeliveryInv, Begun
  <2>3. AtTheFront(d)' /\ Landing(d)'
    <3>1. Furthest(d)' = Furthest(d) /\ AskedFurthest(d)' = AskedFurthest(d)
      BY <1>1, <1>2, RunIsKept, NextCallKept DEF RunKept
    <3>2. MayCome(Furthest(d))' = MayCome(Furthest(d))
      BY <3>1 DEF MayCome, Response, Outcome, Done
    <3> QED
      BY <3>1, <3>2 DEF Alone, DeliveryInv, AtTheFront, Landing
  <2>4. Losing(d)'
    BY <1>1, <1>2, RunIsKept DEF Alone, DeliveryInv, Losing
  <2>5. Answering(d)'
    <3>1. Passes(d)
      BY <1>1, FrontFacts DEF Passes
    <3>2. /\ returned'[d] = returned[d]
          /\ returned'[d] # {} => pc'[d] \notin {"call", "landed"}
          /\ pc'[d] = "returned" => answer'[d] \in returned'[d]
      BY DEF Alone, DeliveryInv, Answering
    <3> QED
      BY <1>1, <1>2, <3>1, <3>2, AnsweringStays DEF RunKept
  <2> QED
    BY <1>1, <1>2, <2>1, <2>2, <2>3, <2>4, <2>5, QuietStep
<1>3. CASE ~Reached(d)
  <2>1. /\ pc'[d] = "waiting"
        /\ seen'[d] = <<>> /\ best'[d] = <<>> /\ performed'[d] = <<>>
        /\ journal'[d] = {} /\ returned'[d] = {}
    BY <1>3 DEF Alone, DeliveryInv, Untouched
  <2>2. Lists(d)' /\ Untouched(d)' /\ IsPrefix(seen[d], best[d])'
    BY <2>1, EmptyAny DEF Lists, Untouched, IsPrefix
  <2>3. Begun(d)' /\ AtTheFront(d)' /\ Landing(d)'
    BY <2>1 DEF Begun, AtTheFront, Landing
  <2>4. Traced(d)' /\ Journaling(d)'
    BY <2>1, EmptyAny DEF Traced, Journaling
  <2>5. Asked(d)' = {} /\ ~AskedFurthest(d)'
    BY <2>1 DEF Asked, AskedFurthest
  <2>6. Performing(d)'
    BY <2>1, <2>5, EmptyAny DEF Performing
  <2>7. Losing(d)'
    <3>1. Len(performed'[d]) = 0 /\ Cardinality({}) = 0 /\ lost'[d] \in Nat
      BY <2>1, EmptyAny, FS_EmptySet DEF TypeOK
    <3> QED
      BY <2>5, <3>1 DEF Losing
  <2>8. Answering(d)'
    BY <2>1 DEF Answering
  <2> QED
    BY <2>2, <2>3, <2>4, <2>6, <2>7, <2>8 DEF DeliveryInv
<1> QED
  BY <1>2, <1>3

\* One that learns what the run learned before.
LEMMA FollowStep ==
  ASSUME NEW d \in Delivery, TypeOK, TypeOK', Domains, Grows, Reached(d),
         DeliveryInv(d), Runs(d), Len(seen[d]) < Len(best[d]),
         NEW key, NEW what, Learn(d, key, what),
         best[d][Len(seen[d]) + 1] = [key |-> key, answer |-> what],
         journal'[d] = journal[d], performed'[d] = performed[d],
         lost'[d] = lost[d], returned'[d] = returned[d],
         pc'[d] = "body", pc[d] # "landed",
         Len(seen[d]) >= FirstCall(d) =>
           ~(Move(d).does = "reveal" /\ Gone(Move(d).on))
  PROVE  DeliveryInv(d)'
PROOF
<1>1. /\ best'[d] = best[d]
      /\ IsSeq(seen'[d]) /\ IsPrefix(seen'[d], best[d])
      /\ Len(seen'[d]) = Len(seen[d]) + 1
  BY Follows
<1>2. /\ Len(seen[d]) \in Nat /\ FirstCall(d) \in 0 .. 1
      /\ seen[d] = SubSeq(best[d], 1, Len(seen[d]))
  BY FrontFacts
<1>3. RunKept(d)
  BY <1>1 DEF RunKept
<1>4. Begun(d)'
  BY <1>1, <1>2, WorldKept DEF DeliveryInv, Begun
<1>5. AtTheFront(d)' /\ Landing(d)'
  BY DEF AtTheFront, Landing
<1>6. Losing(d)'
  BY <1>3, RunIsKept DEF DeliveryInv, Losing
<1>7. Passes(d)
  <2> SUFFICES ASSUME NEW n \in FirstCall(d) .. Len(best[d]),
                      Len(seen[d]) <= n, Len(seen'[d]) > n
               PROVE  ~(/\ Turn(d, Prefix(d), SubSeq(best[d], 1, n)).does = "reveal"
                        /\ Gone(Turn(d, Prefix(d), SubSeq(best[d], 1, n)).on))
    BY DEF Passes
  <2>1. n = Len(seen[d]) /\ Len(seen[d]) >= FirstCall(d)
    BY <1>1, <1>2
  <2> QED
    BY <1>2, <2>1 DEF Move
<1>8. Answering(d)'
  BY <1>1, <1>7, AnsweringStays
<1> QED
  BY <1>1, <1>3, <1>4, <1>5, <1>6, <1>8, QuietStep

\* One that learns something new.
LEMMA FurtherStep ==
  ASSUME NEW d \in Delivery, TypeOK, TypeOK', Domains, Domains', Grows,
         Reached(d), DeliveryInv(d), Runs(d), Len(seen[d]) = Len(best[d]),
         NEW key, NEW what, Learn(d, key, what), Follow(d, key, what),
         \/ key.does = "reveal" /\ ~Gone(key.on) /\ journal'[d] = journal[d]
         \/ /\ key.does # "reveal"
            /\ journal'[d] = Insert(journal[d],
                 [key |-> key, ordinal |-> Ordinal(best[d], key), answer |-> what]),
         key.does \in Journaled => AskedFurthest(d),
         performed'[d] = performed[d],
         lost'[d] = lost[d], returned'[d] = returned[d], pc'[d] = "body"
  PROVE  DeliveryInv(d)'
PROOF
<1>1. Further(d, key, what) /\ seen'[d] = best'[d]
  BY GoesFurther
<1>2. /\ IsSeq(best[d]) /\ IsSeq(best'[d]) /\ IsSeq(performed[d])
      /\ Len(best[d]) \in Nat /\ Len(best'[d]) = Len(best[d]) + 1
      /\ FirstCall(d) \in 0 .. 1
  BY <1>1, FrontFacts DEF Further
<1>3. Lists(d)' /\ IsPrefix(seen[d], best[d])'
  BY <1>1, <1>2 DEF Lists, IsPrefix
<1>4. Untouched(d)'
  BY WorldKept DEF Untouched
<1>5. Begun(d)'
  BY <1>1, <1>2, WorldKept DEF Begun
<1>6. Traced(d)'
  BY <1>1, TracedFurther
<1>7. Journaling(d)'
  BY <1>1, JournalFurther
<1>8. Asked(d)' = Asked(d) /\ Performing(d)' /\ ~AskedFurthest(d)'
  <2>1. performed[d] # <<>> => Len(best[d]) >= FirstCall(d)
    BY DEF DeliveryInv, Begun
  <2>2. performed[d] # <<>> => key = Furthest(d)
    BY <1>2, <2>1 DEF Follow
  <2>3. key.does \in Journaled => key = Furthest(d)
    BY DEF Follow, NowKey, Journaled
  <2> QED
    BY <1>1, <1>2, <2>2, <2>3, PerformedFurther
<1>9. AtTheFront(d)' /\ Landing(d)'
  BY DEF AtTheFront, Landing
<1>10. Losing(d)'
  BY <1>8 DEF DeliveryInv, Losing
<1>11. Answering(d)'
  <2>1. \/ Len(best[d]) < FirstCall(d)
        \/ Furthest(d).does \in Journaled
        \/ Furthest(d).does = "reveal" /\ ~Gone(Furthest(d).on)
    BY DEF Follow
  <2>2. returned[d] = {}
    BY <2>1, FrontIsSilent
  <2> QED
    BY <2>2 DEF Answering
<1> QED
  BY <1>3, <1>4, <1>5, <1>6, <1>7, <1>8, <1>9, <1>10, <1>11 DEF DeliveryInv

\* One that asks the world.
LEMMA PerformStep ==
  ASSUME NEW d \in Delivery, TypeOK, TypeOK', Domains, Grows, Reached(d),
         DeliveryInv(d), pc[d] = "call",
         NEW what \in MayCome(Move(d)), Perform(d, what)
  PROVE  DeliveryInv(d)'
PROOF
<1>1. /\ IsSeq(best[d]) /\ IsSeq(performed[d]) /\ IsSeq(seen[d])
      /\ Len(performed[d]) \in Nat /\ Len(best[d]) \in Nat
      /\ Len(seen[d]) = Len(best[d]) /\ Furthest(d).does \in Journaled
  BY FrontFacts DEF DeliveryInv, AtTheFront
<1>2. seen[d] = best[d] /\ Move(d) = Furthest(d)
  BY <1>1, Fronted
<1>3. /\ pc'[d] = "landed" /\ landed'[d] = what
      /\ seen' = seen /\ best' = best /\ journal' = journal /\ lost' = lost
      /\ answer' = answer /\ returned' = returned
      /\ performed'[d] = Append(performed[d], NextCall(d))
  <2>1. performed'[d] = Append(performed[d], NextCall(d))
    BY <1>2 DEF Perform, Domains, Shown, KeyOf, NextCall
  <2> QED
    BY <2>1 DEF Perform, Goto, TypeOK, Domains
<1>4. Furthest(d)' = Furthest(d) /\ NextCall(d)' = NextCall(d)
  BY <1>3, NextCallKept
<1>5. /\ IsSeq(performed'[d]) /\ Len(performed'[d]) = Len(performed[d]) + 1
      /\ \A i \in 1 .. Len(performed[d]) : performed'[d][i] = performed[d][i]
      /\ performed'[d][Len(performed[d]) + 1] = NextCall(d)
  BY <1>1, <1>3, AppendAny
<1>6. Asked(d)' = Asked(d) \cup {NextCall(d)}
  <2>1. /\ DOMAIN performed[d] = 1 .. Len(performed[d])
        /\ DOMAIN performed'[d] = 1 .. Len(performed[d]) + 1
    BY <1>1, <1>5, SeqFacts
  <2> QED
    BY <1>1, <1>5, <2>1 DEF Asked
<1>7. AskedFurthest(d)'
  BY <1>4, <1>6 DEF Asked, AskedFurthest
<1>8. AskedFurthest(d) <=> NextCall(d) \in Asked(d)
  BY DEF Asked, AskedFurthest
<1>9. Lists(d)' /\ IsPrefix(seen[d], best[d])'
  BY <1>1, <1>3, <1>5 DEF Lists, DeliveryInv
<1>10. Untouched(d)'
  BY WorldKept DEF Untouched
<1>11. Begun(d)'
  BY <1>2, <1>3, WorldKept DEF DeliveryInv, Begun
<1>12. Traced(d)'
  BY <1>3, TracedKept DEF DeliveryInv
<1>13. Journaling(d)'
  <2>1. \A i : OrdinalAt(best[d], i)' = OrdinalAt(best[d], i)
    BY <1>3 DEF OrdinalAt
  <2> QED
    BY <1>3, <2>1 DEF DeliveryInv, Journaling
<1>14. AtTheFront(d)' /\ Landing(d)'
  <2>1. MayCome(Furthest(d))' = MayCome(Move(d))
    BY <1>2, <1>4 DEF MayCome, Response, Outcome, Done
  <2> QED
    BY <1>1, <1>3, <1>4, <1>7, <2>1 DEF AtTheFront, Landing
<1>15. Performing(d)'
  <2>1. \A i : Entered(best[d], i)' = Entered(best[d], i)
    BY <1>3 DEF Entered, OrdinalAt
  <2>2. NextCall(d).key.does \in Journaled
    BY <1>1 DEF NextCall
  <2> QED
    BY <1>3, <1>4, <1>6, <2>1, <2>2 DEF DeliveryInv, Performing
<1>16. Losing(d)'
  <2> DEFINE C == Cardinality(Asked(d))
  <2>1. IsFiniteSet(Asked(d)) /\ C \in Nat
    BY <1>1, AskedAreFinite
  <2>2. Cardinality(Asked(d)') = IF NextCall(d) \in Asked(d) THEN C ELSE C + 1
    BY <1>6, <2>1, FS_AddElement
  <2>3. /\ Len(performed[d]) - C <= lost[d]
        /\ NextCall(d) \in Asked(d) => Len(performed[d]) - C < lost[d]
    BY <1>8 DEF DeliveryInv, Losing
  <2>4. lost[d] \in Nat /\ lost'[d] = lost[d]
    BY <1>3 DEF TypeOK
  <2> DEFINE P == Len(performed[d])
             L == lost[d]
  <2>5. Len(performed'[d]) - Cardinality(Asked(d)') <= lost'[d]
    <3>1. C \in Nat /\ P \in Nat /\ L \in Nat /\ P - C <= L
      BY <1>1, <2>1, <2>3, <2>4
    <3>2. Len(performed'[d]) = P + 1 /\ lost'[d] = L
      BY <1>5, <2>4
    <3>3. CASE NextCall(d) \in Asked(d)
      <4>1. P - C < L /\ Cardinality(Asked(d)') = C
        BY <2>2, <2>3, <3>3
      <4> HIDE DEF P, L, C
      <4> QED
        BY ONLY <3>1, <3>2, <4>1
    <3>4. CASE NextCall(d) \notin Asked(d)
      <4>1. Cardinality(Asked(d)') = C + 1
        BY <2>2, <3>4
      <4> HIDE DEF P, L, C
      <4> QED
        BY ONLY <3>1, <3>2, <4>1
    <3> QED
      BY <3>3, <3>4
  <2> QED
    BY <1>3, <2>5 DEF Losing
<1>17. Answering(d)'
  <2>1. returned[d] = {}
    BY <1>1, FrontIsSilent DEF DeliveryInv, Begun
  <2> QED
    BY <1>3, <2>1 DEF Answering
<1> QED
  BY <1>9, <1>10, <1>11, <1>12, <1>13, <1>14, <1>15, <1>16, <1>17
     DEF DeliveryInv

-----------------------------------------------------------------------------
(* The steps of a delivery, one by one.                                    *)

\* What each of them starts from.
Ready(d) ==
  /\ TypeOK /\ TypeOK' /\ Domains /\ Domains' /\ Grows
  /\ Reached(d) /\ DeliveryInv(d)

LEMMA DeliverKeeps ==
  ASSUME NEW d \in Delivery, Ready(d), Deliver(d)
  PROVE  DeliveryInv(d)'
PROOF
<1>1. /\ seen'[d] = <<>> /\ pc[d] = "waiting" /\ RunKept(d)
      /\ lost' = lost
  BY DEF Deliver, Ready, Domains, RunKept
<1>2. CASE Beginning(d) \in {"clock", "body"}
  <2>1. pc'[d] = Beginning(d) /\ returned' = returned
    BY <1>2 DEF Deliver, Goto, Ready, TypeOK, Beginning, Answer
  <2>2. IsSeq(seen'[d]) /\ IsPrefix(seen'[d], best[d]) /\ Len(seen'[d]) = 0
    BY <1>1, EmptyAny, FrontFacts DEF IsPrefix, Ready
  <2>3. Begun(d)'
    BY <1>1, <1>2, <2>1, <2>2, WorldKept
       DEF Begun, Ready, DeliveryInv, RunKept, Runs, FirstCall
  <2>4. AtTheFront(d)' /\ Landing(d)'
    BY <1>2, <2>1 DEF AtTheFront, Landing
  <2>5. Losing(d)'
    BY <1>1, <2>1, RunIsKept DEF Losing, Ready, DeliveryInv, RunKept
  <2>6. Answering(d)'
    <3>1. Passes(d)
      BY <2>2, FrontFacts DEF Passes, Ready
    <3> QED
      BY <1>1, <1>2, <2>1, <3>1, AnsweringStays DEF Ready, RunKept
  <2> QED
    BY <1>1, <2>2, <2>3, <2>4, <2>5, <2>6, QuietStep DEF Ready
<1>3. CASE Beginning(d) = "ignored"
  <2>1. Answer(d, "ignored")
    BY <1>3 DEF Deliver, Beginning
  <2>2. /\ pc'[d] = "returned" /\ answer'[d] = "ignored"
        /\ returned'[d] = returned[d] \cup {"ignored"}
    BY <2>1 DEF Answer, Goto, Ready, TypeOK
  <2> QED
    BY <1>1, <1>3, <2>2, RestStep DEF Ready, Fits
<1>4. CASE Beginning(d) = "wedge"
  <2>1. pc' = pc /\ returned' = returned
    BY <1>4 DEF Deliver, Beginning
  <2> QED
    BY <1>1, <2>1, RestStep DEF Ready
<1> QED
  BY <1>2, <1>3, <1>4 DEF Deliver, Beginning

LEMMA PinClockKeeps ==
  ASSUME NEW d \in Delivery, Ready(d), PinClock(d)
  PROVE  DeliveryInv(d)'
PROOF
<1> USE DEF Ready
<1>1. /\ pc[d] = "clock" /\ pc'[d] = "body"
      /\ performed' = performed /\ lost' = lost /\ returned' = returned
  BY DEF PinClock, Goto, TypeOK
<1>2. /\ Runs(d) /\ FirstCall(d) = 1 /\ seen[d] = <<>> /\ Len(seen[d]) = 0
  BY <1>1, EmptyAny DEF DeliveryInv, Begun, FirstCall
<1>3. IsSeq(best[d]) /\ Len(best[d]) \in Nat
  BY FrontFacts
<1>4. OrdinalAt(best[d], 1) = 0 /\ Ordinal(best[d], NowKey) \in Nat
  BY <1>3, FirstOrdinal, OrdinalIsNat
<1>5. CASE Len(best[d]) > 0
  <2>1. /\ 1 \in 1 .. Len(best[d]) /\ best[d][1].key = NowKey
        /\ best[d][1] = [key |-> NowKey, answer |-> best[d][1].answer]
    <3>1. 1 \in 1 .. Len(best[d]) /\ 1 <= FirstCall(d) /\ Traced(d)
      BY <1>2, <1>3, <1>5 DEF DeliveryInv
    <3>2. LET made == best[d][1] IN
            made = [key |-> made.key, answer |-> made.answer] /\ made.key = NowKey
      BY <3>1 DEF Traced
    <3> QED
      BY <3>1, <3>2
  <2>2. Pinned(d) # {}
    BY <1>4, <2>1 DEF DeliveryInv, Journaling, Pinned, Recorded, NowKey
  <2>3. ASSUME NEW entry \in Pinned(d) PROVE entry.answer = best[d][1].answer
    <3>1. entry \in journal[d] /\ entry.key = NowKey /\ entry.ordinal = 0
      BY <2>3 DEF Pinned, Recorded
    <3>2. PICK i \in 1 .. Len(best[d]) :
            /\ best[d][i].key = NowKey /\ OrdinalAt(best[d], i) = 0
            /\ entry.answer = best[d][i].answer
      BY <3>1 DEF DeliveryInv, Journaling
    <3>3. i = 1
      BY <1>3, <1>4, <2>1, <3>2, EnteredOnce
    <3> QED
      BY <3>2, <3>3
  <2>4. Learn(d, NowKey, best[d][1].answer) /\ journal' = journal
    BY <2>2, <2>3 DEF PinClock
  <2> QED
    BY <1>1, <1>2, <1>3, <1>5, <2>1, <2>4, FollowStep
<1>6. CASE Len(best[d]) = 0
  <2>1. Pinned(d) = {}
    BY <1>6 DEF DeliveryInv, Journaling, Pinned, Recorded
  <2>2. /\ Learn(d, NowKey, Now)
        /\ journal'[d] = Insert(journal[d],
             [key |-> NowKey, ordinal |-> 0, answer |-> Now])
    BY <2>1 DEF PinClock, Domains
  <2>3. Ordinal(best[d], NowKey) = 0
    <3>1. best[d] = <<>>
      BY <1>2, <1>6, Fronted
    <3> QED
      BY <3>1, OrdinalOfNone
  <2>4. Follow(d, NowKey, Now)
    BY <1>2, <1>6 DEF Follow
  <2>5. NowKey.does # "reveal" /\ NowKey.does \notin Journaled
    BY DEF NowKey, Journaled
  <2> QED
    BY <1>1, <1>2, <1>6, <2>2, <2>3, <2>4, <2>5, FurtherStep
<1> QED
  BY <1>3, <1>5, <1>6

LEMMA ReplayKeeps ==
  ASSUME NEW d \in Delivery, Ready(d), Replay(d)
  PROVE  DeliveryInv(d)'
PROOF
<1> USE DEF Ready
<1>1. /\ pc[d] = "body" /\ pc' = pc /\ Move(d).does \in Journaled
      /\ RecordedNext(d) # {} /\ journal' = journal
      /\ performed' = performed /\ lost' = lost /\ returned' = returned
  BY DEF Replay
<1>2. Runs(d) /\ Len(seen[d]) >= FirstCall(d)
  BY <1>1 DEF DeliveryInv, Begun
<1>3. Len(seen[d]) < Len(best[d])
  BY <1>1, Fronted, FrontFacts
<1>4. PICK entry \in RecordedNext(d) : Learn(d, entry.key, entry.answer)
  BY DEF Replay
<1>5. best[d][Len(seen[d]) + 1] = [key |-> entry.key, answer |-> entry.answer]
  BY <1>2, <1>3, <1>4, Retraced
<1>6. Move(d).does # "reveal"
  BY <1>1 DEF Journaled
<1> QED
  BY <1>1, <1>2, <1>3, <1>4, <1>5, <1>6, FollowStep

LEMMA CallKeeps ==
  ASSUME NEW d \in Delivery, Ready(d), Call(d)
  PROVE  DeliveryInv(d)'
PROOF
<1> USE DEF Ready
<1>1. /\ pc[d] = "body" /\ pc'[d] = "call" /\ Move(d).does \in Journaled
      /\ RecordedNext(d) = {} /\ RunKept(d) /\ seen' = seen
      /\ lost' = lost /\ returned' = returned /\ best' = best
  BY DEF Call, Goto, TypeOK, history, RunKept
<1>2. Runs(d) /\ Len(seen[d]) >= FirstCall(d)
  BY <1>1 DEF DeliveryInv, Begun
<1>3. Len(seen[d]) = Len(best[d])
  <2>1. ~(Len(seen[d]) < Len(best[d]))
    BY <1>1, <1>2, Retraced
  <2> QED
    BY <2>1, FrontFacts
<1>4. Furthest(d).does \in Journaled /\ returned[d] = {}
  BY <1>1, <1>2, <1>3, Fronted, FrontIsSilent
<1>5. IsSeq(seen'[d]) /\ IsPrefix(seen'[d], best[d])
  BY <1>1, FrontFacts DEF DeliveryInv
<1>6. Begun(d)'
  BY <1>1, <1>2, WorldKept DEF Begun, DeliveryInv, RunKept
<1>7. AtTheFront(d)' /\ Landing(d)'
  BY <1>1, <1>3, <1>4, NextCallKept DEF AtTheFront, Landing
<1>8. Losing(d)'
  BY <1>1, RunIsKept DEF Losing, DeliveryInv, RunKept
<1>9. Answering(d)'
  BY <1>1, <1>4 DEF Answering
<1> QED
  BY <1>1, <1>5, <1>6, <1>7, <1>8, <1>9, QuietStep

LEMMA AsksKeep ==
  ASSUME NEW d \in Delivery, Ready(d),
         Answered(d) \/ Invoked(d) \/ Erases(d)
  PROVE  DeliveryInv(d)'
PROOF
<1>1. pc[d] = "call" /\ \E what \in MayCome(Move(d)) : Perform(d, what)
  BY DEF Answered, Invoked, Erases, MayCome
<1> QED
  BY <1>1, PerformStep DEF Ready

LEMMA RecordKeeps ==
  ASSUME NEW d \in Delivery, Ready(d), Record(d)
  PROVE  DeliveryInv(d)'
PROOF
<1> USE DEF Ready
<1>1. /\ pc[d] = "landed" /\ pc'[d] = "body"
      /\ performed' = performed /\ lost' = lost /\ returned' = returned
  BY DEF Record, Goto, TypeOK
<1>2. /\ Len(seen[d]) = Len(best[d]) /\ Furthest(d).does \in Journaled
      /\ AskedFurthest(d) /\ Runs(d) /\ Len(seen[d]) >= FirstCall(d)
  BY <1>1 DEF DeliveryInv, AtTheFront, Landing, Begun
<1>3. seen[d] = best[d] /\ Move(d) = Furthest(d)
  BY <1>2, Fronted
<1>4. /\ Learn(d, Furthest(d), landed[d])
      /\ journal'[d] = Insert(journal[d],
           [key |-> Furthest(d), ordinal |-> Ordinal(best[d], Furthest(d)),
            answer |-> landed[d]])
  BY <1>3 DEF Record, KeyOf, Shown, Domains
<1>5. Furthest(d).does # "reveal"
  BY <1>2 DEF Journaled
<1>6. Follow(d, Furthest(d), landed[d])
  BY <1>2, <1>5 DEF Follow
<1> QED
  BY <1>1, <1>2, <1>4, <1>5, <1>6, FurtherStep

LEMMA RevealKeeps ==
  ASSUME NEW d \in Delivery, Ready(d), Reveal(d)
  PROVE  DeliveryInv(d)'
PROOF
<1> USE DEF Ready
<1>1. /\ pc[d] = "body" /\ pc' = pc /\ Move(d).does = "reveal"
      /\ ~Gone(Move(d).on) /\ Learn(d, Move(d), Plaintext)
      /\ journal' = journal
      /\ performed' = performed /\ lost' = lost /\ returned' = returned
  BY DEF Reveal
<1>2. Runs(d) /\ Len(seen[d]) >= FirstCall(d)
  BY <1>1 DEF DeliveryInv, Begun
<1>3. CASE Len(seen[d]) < Len(best[d])
  <2>1. best[d][Len(seen[d]) + 1] = [key |-> Move(d), answer |-> Plaintext]
    BY <1>1, <1>2, <1>3, Retraced
  <2> QED
    BY <1>1, <1>2, <1>3, <2>1, FollowStep
<1>4. CASE Len(seen[d]) = Len(best[d])
  <2>1. Move(d) = Furthest(d)
    BY <1>4, Fronted
  <2>2. Follow(d, Move(d), Plaintext)
    BY <1>1, <1>2, <1>4, <2>1 DEF Follow
  <2>3. Move(d).does \notin Journaled
    BY <1>1 DEF Journaled
  <2> QED
    BY <1>1, <1>2, <1>4, <2>2, <2>3, FurtherStep
<1> QED
  BY <1>3, <1>4, FrontFacts

LEMMA SkipKeeps ==
  ASSUME NEW d \in Delivery, Ready(d), Skip(d)
  PROVE  DeliveryInv(d)'
PROOF
<1> USE DEF Ready
<1>1. /\ pc[d] = "body" /\ Move(d).does = "reveal" /\ Gone(Move(d).on)
      /\ pc'[d] = "returned" /\ answer'[d] = "skipped"
      /\ returned'[d] = returned[d] \cup {"skipped"}
      /\ RunKept(d) /\ seen' = seen /\ lost' = lost
  BY DEF Skip, Answer, Goto, TypeOK, RunKept
<1>2. Stopped(d)
  <2>1. Runs(d) /\ Len(seen[d]) \in FirstCall(d) .. Len(best[d])
    BY <1>1, FrontFacts DEF DeliveryInv, Begun
  <2>2. Move(d) = Turn(d, Prefix(d), SubSeq(best[d], 1, Len(seen[d])))
    BY FrontFacts DEF Move
  <2> QED
    BY <1>1, <2>1, <2>2 DEF Stopped
<1> QED
  BY <1>1, <1>2, RestStep DEF Fits

LEMMA ReturnKeeps ==
  ASSUME NEW d \in Delivery, Ready(d), Return(d)
  PROVE  DeliveryInv(d)'
PROOF
<1> USE DEF Ready
<1>1. PICK how \in {"done", "failed"} :
        /\ Move(d).does = (IF how = "done" THEN "done" ELSE "fail")
        /\ Answer(d, how)
  BY DEF Return
<1>2. /\ pc[d] = "body" /\ pc'[d] = "returned" /\ answer'[d] = how
      /\ returned'[d] = returned[d] \cup {how}
      /\ RunKept(d) /\ seen' = seen /\ lost' = lost
  BY <1>1 DEF Return, Answer, Goto, TypeOK, RunKept
<1>3. Runs(d) /\ Len(seen[d]) >= FirstCall(d)
  BY <1>2 DEF DeliveryInv, Begun
<1>4. Len(seen[d]) = Len(best[d])
  <2>1. Move(d).does \notin Journaled \cup {"reveal"}
    BY <1>1 DEF Journaled
  <2>2. ~(Len(seen[d]) < Len(best[d]))
    BY <1>3, <2>1, Retraced
  <2> QED
    BY <2>2, FrontFacts
<1>5. Ends(d, IF how = "done" THEN "done" ELSE "fail")
  BY <1>1, <1>3, <1>4, Fronted DEF Ends
<1>6. Fits(d, how)
  BY <1>5 DEF Fits
<1> QED
  BY <1>2, <1>6, RestStep

LEMMA RestKeeps ==
  ASSUME NEW d \in Delivery, Ready(d),
         \/ Raise(d) \/ Beaten(d) \/ Advance(d) \/ Crash(d)
         \/ Absorbed(d) /\ SentOut(d)
  PROVE  DeliveryInv(d)'
PROOF
<1> USE DEF Ready
<1>1. /\ pc'[d] \in {"waiting", "over"} /\ seen' = seen /\ RunKept(d)
      /\ returned' = returned
      /\ IF pc[d] = "landed" THEN lost'[d] = lost[d] + 1 ELSE lost'[d] = lost[d]
  BY DEF Raise, Beaten, Advance, Crash, Absorbed, Goto, TypeOK, RunKept, history
<1> QED
  BY <1>1, RestStep

-----------------------------------------------------------------------------
(* The invariant, and what follows from it.                                *)

LEMMA InvStarts == Init => Inv
PROOF
<1> SUFFICES ASSUME Init PROVE Inv
  OBVIOUS
<1>1. TypeOK /\ Domains
  BY TypesStart DEF Init, Domains
<1>2. ASSUME NEW d \in Delivery PROVE DeliveryInv(d)
  <2>1. /\ pc[d] = "waiting"
        /\ seen[d] = <<>> /\ best[d] = <<>> /\ performed[d] = <<>>
        /\ journal[d] = {} /\ returned[d] = {} /\ lost[d] = 0
    BY DEF Init
  <2>2. Lists(d) /\ Untouched(d) /\ IsPrefix(seen[d], best[d])
    BY <2>1, EmptyAny DEF Lists, Untouched, IsPrefix
  <2>3. Begun(d) /\ AtTheFront(d) /\ Landing(d)
    BY <2>1 DEF Begun, AtTheFront, Landing
  <2>4. Traced(d) /\ Journaling(d)
    BY <2>1, EmptyAny DEF Traced, Journaling
  <2>5. Asked(d) = {} /\ ~AskedFurthest(d)
    BY <2>1 DEF Asked, AskedFurthest
  <2>6. Performing(d)
    BY <2>1, <2>5, EmptyAny DEF Performing
  <2>7. Losing(d)
    BY <2>1, <2>5, EmptyAny, FS_EmptySet DEF Losing
  <2>8. Answering(d)
    BY <2>1 DEF Answering
  <2> QED
    BY <2>2, <2>3, <2>4, <2>6, <2>7, <2>8 DEF DeliveryInv
<1> QED
  BY <1>1, <1>2 DEF Inv

\* A step of a delivery keeps what it holds itself.
LEMMA OwnStep ==
  ASSUME TypeOK, TypeOK', Domains, NEW d \in Delivery, DeliveryInv(d),
         \/ Local(d) \/ Answered(d) \/ Absorbed(d) \/ Invoked(d) \/ Beaten(d)
         \/ Raise(d) \/ Crash(d)
  PROVE  DeliveryInv(d)'
PROOF
<1>1. Grows /\ Domains'
  BY StepAlone
<1>2. Reached(d)
  <2>1. CASE Deliver(d)
    BY <2>1 DEF Deliver, Reached
  <2>2. CASE pc[d] # "waiting"
    BY <2>2 DEF DeliveryInv, Untouched
  <2> QED
    BY <2>1, <2>2
       DEF Local, PinClock, Replay, Call, Erases, Record, Reveal, Skip, Return,
           Advance, Answered, Absorbed, Invoked, Beaten, Raise, Crash
<1>3. Ready(d)
  BY <1>1, <1>2 DEF Ready
<1>4. CASE Local(d)
  BY <1>3, <1>4, DeliverKeeps, PinClockKeeps, ReplayKeeps, CallKeeps, AsksKeep,
     RecordKeeps, RevealKeeps, SkipKeeps, ReturnKeeps, RestKeeps DEF Local
<1>5. CASE Absorbed(d) /\ ~SentOut(d)
  <2>1. Alone(d)
    BY <1>5 DEF Absorbed, Goto, TypeOK, Alone, history
  <2> QED
    BY <1>1, <2>1, AloneStep
<1> QED
  BY <1>3, <1>4, <1>5, AsksKeep, RestKeeps

LEMMA InvStays == Inv /\ [Next]_vars => Inv'
PROOF
<1> SUFFICES ASSUME Inv, [Next]_vars PROVE Inv'
  OBVIOUS
<1>1. /\ TypeOK /\ TypeOK' /\ Domains
      /\ \A d \in Delivery : DeliveryInv(d)
  BY TypesStay DEF Inv
<1>2. CASE UNCHANGED vars
  <2>1. Grows
    BY <1>1, <1>2, LogAppended DEF vars, Grows, TypeOK
  <2>2. Domains' /\ \A d \in Delivery : Alone(d)
    BY <1>1, <1>2 DEF vars, Domains, Alone
  <2> QED
    BY <1>1, <2>1, <2>2, AloneStep DEF Inv
<1>3. CASE Elsewhere
  BY <1>1, <1>3, ElsewhereAlone, AloneStep DEF Inv
<1>4. ASSUME NEW d \in Delivery,
             \/ Local(d) \/ Answered(d) \/ Absorbed(d) \/ Invoked(d) \/ Beaten(d)
             \/ Raise(d) \/ Crash(d)
      PROVE  Inv'
  <2>1. Grows /\ Domains' /\ OthersAlone(d)
    BY <1>1, <1>4, StepAlone
  <2>2. DeliveryInv(d)'
    BY <1>1, <1>4, OwnStep
  <2>3. ASSUME NEW e \in Delivery, e # d PROVE DeliveryInv(e)'
    BY <1>1, <2>1, <2>3, AloneStep DEF OthersAlone
  <2> QED
    BY <1>1, <2>1, <2>2, <2>3 DEF Inv
<1> QED
  BY <1>2, <1>3, <1>4 DEF Next

\* What a delivery holds, it always holds.
THEOREM InvHolds == Spec => []Inv
PROOF
<1> QED
  BY InvStarts, InvStays, PTL DEF Spec

\* A delivery retraces the one that got furthest, call for call and answer
\* for answer, and goes on from where that one stopped: neither the clock,
\* nor a longer log, nor a rotated credential leads it elsewhere.
THEOREM DeliveriesRetrace == Spec => []ReplayFollows
PROOF
<1>1. Inv => ReplayFollows
  BY DEF Inv, DeliveryInv, ReplayFollows
<1> QED
  BY <1>1, InvHolds, PTL

\* The world is asked again only for a call that landed and was lost before
\* it was recorded, once for each loss.
THEOREM OnlyLossesRepeat == Spec => []NothingIsRepeated
PROOF
<1>1. Inv => NothingIsRepeated
  BY DEF Inv, DeliveryInv, Losing, Asked, NothingIsRepeated
<1> QED
  BY <1>1, InvHolds, PTL

\* Each call of the run was asked of the world under an ordinal of its own.
LEMMA MadeIsAsked ==
  ASSUME NEW d \in Delivery, DeliveryInv(d), NEW key, key.does \in Journaled
  PROVE  Count(seen[d], key)
           <= Cardinality({j \in DOMAIN performed[d] : performed[d][j].key = key})
PROOF
<1> DEFINE S == {j \in DOMAIN seen[d] : seen[d][j].key = key}
           T == {j \in DOMAIN performed[d] : performed[d][j].key = key}
           f == [j \in S |-> CHOOSE k \in T : performed[d][k] = Entered(best[d], j)]
<1>1. /\ IsSeq(best[d]) /\ DOMAIN seen[d] = 1 .. Len(seen[d])
      /\ DOMAIN performed[d] = 1 .. Len(performed[d])
      /\ Len(seen[d]) \in Nat /\ Len(performed[d]) \in Nat
      /\ Len(seen[d]) <= Len(best[d]) /\ Len(best[d]) \in Nat
  BY FrontFacts, SeqFacts
<1>2. ASSUME NEW j \in S
      PROVE  j \in 1 .. Len(best[d]) /\ best[d][j].key = key
  BY <1>1 DEF DeliveryInv, IsPrefix
<1>3. ASSUME NEW j \in S
      PROVE  \E k \in T : performed[d][k] = Entered(best[d], j)
  <2>1. Entered(best[d], j) \in Asked(d)
    BY <1>2 DEF DeliveryInv, Performing
  <2>2. PICK k \in DOMAIN performed[d] : performed[d][k] = Entered(best[d], j)
    BY <2>1 DEF Asked
  <2>3. performed[d][k].key = key
    BY <1>2, <2>2 DEF Entered
  <2> QED
    BY <2>2, <2>3
<1>4. ASSUME NEW j \in S
      PROVE  f[j] \in T /\ performed[d][f[j]] = Entered(best[d], j)
  BY <1>3
<1>5. ASSUME NEW i \in S, NEW j \in S, f[i] = f[j] PROVE i = j
  <2>1. Entered(best[d], i) = Entered(best[d], j)
    BY <1>4, <1>5
  <2>2. OrdinalAt(best[d], i) = OrdinalAt(best[d], j)
    BY <2>1 DEF Entered
  <2> QED
    BY <1>1, <1>2, <2>2, EnteredOnce
<1>6. f \in Injection(S, T)
  <2>1. f \in [S -> T]
    BY <1>4
  <2> HIDE DEF f, S, T
  <2> QED
    BY <1>5, <2>1 DEF Injection, IsInjective
<1>7. IsFiniteSet(T)
  BY <1>1, PickedIndexes
<1> HIDE DEF f, T
<1>8. Cardinality(S) <= Cardinality(T)
  BY <1>6, <1>7, FS_Injection
<1> QED
  BY <1>8 DEF Count, T

\* A call the program makes twice is made twice: the second is not answered
\* with what the first came to.
THEOREM EveryCallIsMade == Spec => []RepeatsAreMade
PROOF
<1>1. Inv => RepeatsAreMade
  <2> SUFFICES ASSUME Inv, NEW d \in Delivery, NEW i \in DOMAIN seen[d],
                      seen[d][i].key.does \in Journaled
               PROVE  Cardinality({j \in DOMAIN performed[d] :
                                     performed[d][j].key = seen[d][i].key})
                        >= Count(seen[d], seen[d][i].key)
    BY DEF RepeatsAreMade
  <2>1. IsSeq(seen[d]) /\ IsSeq(performed[d])
    BY DEF Inv, DeliveryInv, Lists
  <2>2. /\ Count(seen[d], seen[d][i].key) \in Nat
        /\ Cardinality({j \in DOMAIN performed[d] :
                          performed[d][j].key = seen[d][i].key}) \in Nat
    BY <2>1, SeqFacts, PickedIndexes DEF Count
  <2> QED
    BY <2>2, MadeIsAsked DEF Inv
<1> QED
  BY <1>1, InvHolds, PTL

\* A position answered twice is answered alike, unless a key it needs was
\* destroyed since.
THEOREM AnswersAlike == Spec => []AnswersAgree
PROOF
<1>1. Inv => AnswersAgree
  <2> SUFFICES ASSUME Inv, NEW d \in Delivery, NEW one \in returned[d],
                      NEW other \in returned[d], one # other,
                      "skipped" \notin {one, other}
               PROVE  FALSE
    BY DEF AnswersAgree
  <2>1. Answering(d)
    BY DEF Inv, DeliveryInv
  <2>2. {one, other} \subseteq {"done", "failed", "ignored"}
    BY <2>1 DEF Answering, Answers
  <2> QED
    BY <2>1, <2>2 DEF Answering, Ends, Runs
<1> QED
  BY <1>1, InvHolds, PTL

\* A position answered once is done with: delivered again before the cursor
\* moved, it asks nothing more of the world.
THEOREM AnswersSettle == Spec => AnsweredIsSilent
PROOF
<1>1. Inv /\ [Next]_vars =>
        [\A d \in Delivery :
           returned[d] # {} => performed'[d] = performed[d]]_vars
  <2> SUFFICES ASSUME Inv, [Next]_vars, NEW d \in Delivery, returned[d] # {}
               PROVE  performed'[d] = performed[d]
    OBVIOUS
  <2>1. /\ TypeOK /\ Domains /\ DOMAIN performed = Delivery
        /\ pc[d] \notin {"call", "landed"}
    BY DEF Inv, Domains, DeliveryInv, Answering
  <2>2. CASE UNCHANGED vars
    BY <2>2 DEF vars
  <2>3. CASE Elsewhere
    BY <2>3 DEF Elsewhere, history
  <2>4. ASSUME NEW e \in Delivery,
               \/ Local(e) \/ Answered(e) \/ Absorbed(e) \/ Invoked(e)
               \/ Beaten(e) \/ Raise(e) \/ Crash(e)
        PROVE  performed'[d] = performed[d]
    <3>1. CASE e # d
      BY <2>1, <2>4, <3>1, StepAlone DEF OthersAlone, Alone
    <3>2. CASE e = d
      <4>1. ~Answered(e) /\ ~Invoked(e) /\ ~Erases(e) /\ ~Absorbed(e) /\ ~Beaten(e)
        BY <2>1, <3>2 DEF Answered, Invoked, Erases, Absorbed, Beaten
      <4> QED
        BY <2>4, <4>1
           DEF Local, Deliver, PinClock, Replay, Call, Record, Reveal, Skip,
               Return, Advance, Raise, Crash, history
    <3> QED
      BY <3>1, <3>2
  <2> QED
    BY <2>2, <2>3, <2>4 DEF Next
<1> QED
  BY <1>1, InvHolds, PTL DEF Spec, AnsweredIsSilent


-----------------------------------------------------------------------------
(* EffectDelivery implements DurableEffects, step by step: the steps that  *)
(* take the furthest delivery further, those that ask the world and those  *)
(* that move a cursor are steps of the run, and all others, every wedge,   *)
(* crash and replay among them, are not noticed by it.                     *)

\* The run's own words, of the deliveries.
LEMMA RunOfDeliveries ==
  ASSUME NEW d \in Delivery
  PROVE  /\ Durable!Due(d) = Furthest(d)
         /\ \A calls : Durable!Onward(d, calls) = Turn(d, Prefix(d), calls)
         /\ Durable!First(d) = FirstCall(d)
         /\ Durable!Started(d) <=> Len(best[d]) >= FirstCall(d)
         /\ pc[d] # "over" /\ Reached(d) /\ Runs(d) => Durable!Running(d)
         /\ \A s : Durable!Unreadable(s) <=> Gone(s)
PROOF
<1>1. /\ Durable!Due(d) = Furthest(d)
      /\ \A calls : Durable!Onward(d, calls) = Turn(d, Prefix(d), calls)
  BY DEF Durable!Due, Durable!Onward, Furthest, Prefix
<1>2. Durable!First(d) = FirstCall(d)
  BY DEF Durable!First, Durable!Trigger, FirstCall, Beginning
<1>3. Durable!Started(d) <=> Len(best[d]) >= FirstCall(d)
  BY <1>2 DEF Durable!Started
<1>4. pc[d] # "over" /\ Reached(d) /\ Runs(d) => Durable!Running(d)
  BY DEF Durable!Running, Durable!Trigger, Outcomes, Reached, Runs, Beginning
<1>5. \A s : Durable!Unreadable(s) <=> Gone(s)
  BY DEF Durable!Unreadable, Gone
<1> QED
  BY <1>1, <1>2, <1>3, <1>4, <1>5

\* A delivery that is left alone was asked for what it was.
LEMMA AskedStays ==
  ASSUME NEW d \in Delivery, Grows, DeliveryInv(d),
         best'[d] = best[d], performed'[d] = performed[d]
  PROVE  AskedFurthest(d)' = AskedFurthest(d)
PROOF
<1>1. CASE Reached(d)
  <2>1. NextCall(d)' = NextCall(d)
    BY <1>1, NextCallKept
  <2> QED
    BY <2>1 DEF AskedFurthest
<1>2. CASE ~Reached(d)
  <2>1. performed[d] = <<>>
    BY <1>2 DEF DeliveryInv, Untouched
  <2> QED
    BY <2>1 DEF AskedFurthest
<1> QED
  BY <1>1, <1>2

\* Where no delivery's run changes, nothing of the runs does.
LEMMA RunsStay ==
  ASSUME Inv, Grows, best' = best,
         \A d \in Delivery : AskedFurthest(d)' = AskedFurthest(d),
         \A d \in Delivery :
           IF pc[d] = "over" THEN pc'[d] = "over" /\ answer'[d] = answer[d]
                             ELSE pc'[d] # "over"
  PROVE  UNCHANGED <<best, AskedNext, Outcomes>>
PROOF
<1>1. AskedNext' = AskedNext
  BY DEF AskedNext
<1>2. Outcomes' = Outcomes
  BY DEF Outcomes
<1> QED
  BY <1>1, <1>2

\* A step of one delivery is a step of its run only.
LEMMA OneRun ==
  ASSUME Inv, Inv', NEW d \in Delivery, Grows, OthersAlone(d)
  PROVE  /\ AskedNext' = [AskedNext EXCEPT ![d] = AskedFurthest(d)']
         /\ Outcomes' = [Outcomes EXCEPT ![d] =
              IF pc'[d] = "over" THEN answer'[d] ELSE "none"]
PROOF
<1>1. ASSUME NEW e \in Delivery, e # d
      PROVE  /\ AskedFurthest(e)' = AskedFurthest(e)
             /\ pc'[e] = pc[e] /\ answer'[e] = answer[e]
  <2>1. Alone(e) /\ DeliveryInv(e)
    BY <1>1 DEF OthersAlone, Inv
  <2> QED
    BY <2>1, AskedStays DEF Alone
<1>2. AskedNext' = [AskedNext EXCEPT ![d] = AskedFurthest(d)']
  BY <1>1 DEF AskedNext
<1>3. Outcomes' = [Outcomes EXCEPT ![d] =
        IF pc'[d] = "over" THEN answer'[d] ELSE "none"]
  BY <1>1 DEF Outcomes
<1> QED
  BY <1>2, <1>3

LEMMA RunsStart == Init => Durable!Init
PROOF
<1> SUFFICES ASSUME Init PROVE Durable!Init
  OBVIOUS
<1>1. AskedNext = [d \in Delivery |-> FALSE]
  <2>1. \A d \in Delivery : performed[d] = <<>>
    BY DEF Init
  <2>2. \A d \in Delivery : AskedFurthest(d) = FALSE
    BY <2>1 DEF AskedFurthest
  <2> QED
    BY <2>2 DEF AskedNext
<1>2. Outcomes = [d \in Delivery |-> "none"]
  BY DEF Init, Outcomes
<1> QED
  BY <1>1, <1>2 DEF Init, Durable!Init

-----------------------------------------------------------------------------
(* Steps of a delivery.                                                    *)

\* What each of them starts from.
Steps(d) ==
  /\ Inv /\ Inv' /\ Grows /\ OthersAlone(d)
  /\ Reached(d) /\ pc[d] # "over"

LEMMA StepFacts ==
  ASSUME NEW d \in Delivery, Steps(d)
  PROVE  /\ TypeOK /\ Domains /\ Grows /\ Reached(d)
         /\ DeliveryInv(d) /\ DeliveryInv(d)'
         /\ best = [e \in Delivery |-> best[e]]
         /\ IsSeq(best[d]) /\ Len(best[d]) \in Nat
         /\ Len(seen[d]) \in Nat /\ Len(seen[d]) <= Len(best[d])
         /\ FirstCall(d) \in 0 .. 1
PROOF
<1>1. /\ TypeOK /\ Domains /\ Grows /\ Reached(d)
      /\ DeliveryInv(d) /\ DeliveryInv(d)'
  BY DEF Steps, Inv
<1>2. best = [e \in Delivery |-> best[e]]
  BY <1>1 DEF Domains
<1> QED
  BY <1>1, <1>2, FrontFacts

\* One the run does not notice.
LEMMA Unnoticed ==
  ASSUME NEW d \in Delivery, Steps(d), log' = log, erased' = erased,
         best' = best, performed' = performed, pc'[d] # "over"
  PROVE  UNCHANGED Durable!vars
PROOF
<1>1. \A e \in Delivery : AskedFurthest(e)' = AskedFurthest(e)
  BY AskedStays DEF Steps, Inv
<1>2. \A e \in Delivery :
        IF pc[e] = "over" THEN pc'[e] = "over" /\ answer'[e] = answer[e]
                          ELSE pc'[e] # "over"
  BY DEF Steps, OthersAlone, Alone
<1>3. UNCHANGED <<best, AskedNext, Outcomes>>
  BY <1>1, <1>2, RunsStay DEF Steps
<1> QED
  BY <1>3 DEF Durable!vars

\* A wedge, a crash, a replay from the start: the run does not notice.
LEMMA IdleStep ==
  ASSUME NEW d \in Delivery, Steps(d),
         \/ Deliver(d) \/ Call(d) \/ Skip(d) \/ Return(d) \/ Absorbed(d)
         \/ Raise(d) \/ Beaten(d) \/ Crash(d)
  PROVE  UNCHANGED Durable!vars
PROOF
<1>1. pc \in [Delivery -> {"waiting", "clock", "body", "call", "landed",
                           "returned", "over"}] /\ pc[d] # "over"
  BY DEF Steps, Inv, TypeOK
<1>2. /\ log' = log /\ erased' = erased /\ best' = best
      /\ performed' = performed /\ pc'[d] # "over"
  BY <1>1 DEF Deliver, Call, Skip, Return, Absorbed, Raise, Beaten, Crash,
              Answer, Goto, world, history
<1> QED
  BY <1>2, Unnoticed

\* Nor does it notice what it learned before.
LEMMA RetracingStep ==
  ASSUME NEW d \in Delivery, Steps(d), Len(seen[d]) < Len(best[d]),
         NEW key, NEW what, Learn(d, key, what),
         log' = log, erased' = erased, performed' = performed, pc'[d] = "body"
  PROVE  UNCHANGED Durable!vars
PROOF
<1> DEFINE made == Append(seen[d], [key |-> key, answer |-> what])
<1>1. Domains /\ DeliveryInv(d) /\ best = [e \in Delivery |-> best[e]]
  BY StepFacts
<1>2. Len(made) = Len(seen[d]) + 1
  BY <1>1, FrontFacts, AppendAny
<1>3. ~(Len(made) > Len(best[d]))
  BY <1>2, StepFacts
<1>4. best' = [best EXCEPT ![d] = IF Len(made) > Len(@) THEN made ELSE @]
  BY DEF Learn
<1> HIDE DEF made
<1>5. best' = best
  BY <1>1, <1>3, <1>4
<1> QED
  BY <1>5, Unnoticed

\* What the furthest delivery learns, the run does.
LEMMA LearningStep ==
  ASSUME NEW d \in Delivery, Steps(d), Len(seen[d]) = Len(best[d]),
         NEW key, NEW what, Learn(d, key, what),
         log' = log, erased' = erased, performed' = performed,
         Follow(d, key, what), pc'[d] = "body",
         key.does \in Journaled => AskedFurthest(d)
  PROVE  /\ best' = [best EXCEPT ![d] =
              Append(@, [key |-> key, answer |-> what])]
         /\ AskedNext' = [AskedNext EXCEPT ![d] = FALSE]
         /\ UNCHANGED Outcomes
PROOF
<1>1. /\ Domains /\ Domains' /\ DeliveryInv(d) /\ DeliveryInv(d)'
      /\ best = [e \in Delivery |-> best[e]] /\ Len(best[d]) \in Nat
  BY StepFacts DEF Steps, Inv
<1>2. Further(d, key, what)
      /\ best'[d] = Append(best[d], [key |-> key, answer |-> what])
  BY <1>1, GoesFurther
<1>3. best' = [best EXCEPT ![d] = Append(@, [key |-> key, answer |-> what])]
  BY <1>1, <1>2 DEF Learn
<1>4. ~AskedFurthest(d)'
  <2>1. performed[d] # <<>> => key = Furthest(d)
    <3>1. performed[d] # <<>> => Len(best[d]) >= FirstCall(d)
      BY <1>1 DEF DeliveryInv, Begun
    <3> QED
      BY <3>1, StepFacts DEF Follow
  <2>2. key.does \in Journaled => key = Furthest(d)
    BY DEF Follow, NowKey, Journaled
  <2> QED
    BY <1>1, <1>2, <2>1, <2>2, PerformedFurther DEF Further
<1>5. AskedNext' = [AskedNext EXCEPT ![d] = FALSE]
  BY <1>4, OneRun DEF Steps
<1>6. Outcomes' = Outcomes
  BY OneRun DEF Steps, Outcomes
<1> QED
  BY <1>3, <1>5, <1>6

LEMMA ClockStep ==
  ASSUME NEW d \in Delivery, Steps(d), PinClock(d)
  PROVE  Durable!ReadClock(d) \/ UNCHANGED Durable!vars
PROOF
<1>1. /\ pc[d] = "clock" /\ pc'[d] = "body"
      /\ log' = log /\ erased' = erased /\ performed' = performed
      /\ \E what : Learn(d, NowKey, what)
  <2>1. pc \in [Delivery -> {"waiting", "clock", "body", "call", "landed",
                             "returned", "over"}]
    BY DEF Steps, Inv, TypeOK
  <2> QED
    BY <2>1 DEF PinClock, Goto, world
<1>2. /\ DeliveryInv(d) /\ Reached(d)
      /\ Runs(d) /\ FirstCall(d) = 1 /\ seen[d] = <<>> /\ Len(seen[d]) = 0
  BY <1>1, StepFacts, EmptyAny DEF DeliveryInv, Begun, FirstCall
<1>3. CASE Len(best[d]) > 0
  BY <1>1, <1>2, <1>3, RetracingStep
<1>4. CASE Len(best[d]) = 0
  <2>1. best[d] = <<>>
    BY <1>2, <1>4, Fronted
  <2>2. Pinned(d) = {}
    BY <1>2, <1>4 DEF DeliveryInv, Journaling, Pinned, Recorded
  <2>3. Learn(d, NowKey, Now)
    BY <2>2 DEF PinClock
  <2>4. Follow(d, NowKey, Now) /\ NowKey.does \notin Journaled
    BY <1>2, <1>4 DEF Follow, NowKey, Journaled
  <2>5. /\ best' = [best EXCEPT ![d] = Append(@, [key |-> NowKey, answer |-> Now])]
        /\ AskedNext' = [AskedNext EXCEPT ![d] = FALSE]
        /\ UNCHANGED Outcomes
    BY <1>1, <1>2, <1>4, <2>3, <2>4, LearningStep
  <2>6. AskedNext' = AskedNext
    <3>1. performed[d] = <<>>
      BY <1>2, <1>4 DEF DeliveryInv, Begun
    <3>2. AskedFurthest(d) = FALSE
      BY <3>1 DEF AskedFurthest
    <3> QED
      BY <2>5, <3>2 DEF AskedNext
  <2>7. best' = [best EXCEPT ![d] = <<[key |-> NowKey, answer |-> Now]>>]
    BY <2>1, <2>5
  <2>8. Durable!Running(d) /\ ~Durable!Started(d)
    BY <1>1, <1>2, <1>4, RunOfDeliveries
  <2> QED
    BY <1>1, <2>5, <2>6, <2>7, <2>8 DEF Durable!ReadClock, NowKey, Now
<1> QED
  BY <1>3, <1>4, StepFacts

LEMMA ReplayStep ==
  ASSUME NEW d \in Delivery, Steps(d), Replay(d)
  PROVE  UNCHANGED Durable!vars
PROOF
<1>1. /\ pc[d] = "body" /\ pc' = pc /\ RecordedNext(d) # {}
      /\ log' = log /\ erased' = erased /\ performed' = performed
      /\ \E key, what : Learn(d, key, what)
  BY DEF Replay, world
<1>2. Len(seen[d]) < Len(best[d])
  BY <1>1, StepFacts, Fronted
<1> QED
  BY <1>1, <1>2, RetracingStep

\* What each of Ask and Learn needs.
LEMMA AtItsNextCall ==
  ASSUME NEW d \in Delivery, Steps(d), pc[d] \in {"body", "call", "landed"},
         Len(seen[d]) = Len(best[d])
  PROVE  /\ Durable!Running(d) /\ Durable!Started(d)
         /\ Durable!Due(d) = Move(d) /\ Move(d) = Furthest(d)
         /\ Len(best[d]) >= FirstCall(d) /\ seen[d] = best[d]
PROOF
<1>1. Runs(d) /\ Len(best[d]) >= FirstCall(d)
  BY StepFacts DEF DeliveryInv, Begun
<1>2. Move(d) = Furthest(d) /\ seen[d] = best[d]
  BY StepFacts, Fronted
<1> QED
  BY <1>1, <1>2, StepFacts, RunOfDeliveries DEF Steps

LEMMA AskStep ==
  ASSUME NEW d \in Delivery, Steps(d),
         Answered(d) \/ Invoked(d) \/ Erases(d)
  PROVE  Durable!Ask(d)
PROOF
<1>1. /\ pc[d] = "call" /\ best' = best
      /\ \E what : Perform(d, what)
  BY DEF Answered, Invoked, Erases, Perform
<1>2. pc'[d] = "landed"
  BY <1>1, StepFacts DEF Perform, Goto, TypeOK
<1>3. Len(seen[d]) = Len(best[d])
  BY <1>1, StepFacts DEF DeliveryInv, AtTheFront
<1>4. /\ Durable!Running(d) /\ Durable!Started(d) /\ Durable!Due(d) = Move(d)
  BY <1>1, <1>3, AtItsNextCall
<1>5. AskedFurthest(d)' = TRUE
  BY <1>2, StepFacts DEF DeliveryInv, Landing, AskedFurthest
<1>6. AskedNext' = [AskedNext EXCEPT ![d] = TRUE]
  BY <1>5, OneRun DEF Steps
<1>7. Outcomes' = Outcomes
  BY <1>1, <1>2, OneRun DEF Steps, Outcomes
<1>8. \/ Move(d).does = "http" /\ UNCHANGED <<log, erased>>
      \/ /\ Move(d).does = "invoke"
         /\ log' = log \o Decide(Move(d), log).emits
         /\ UNCHANGED erased
      \/ /\ Move(d).does = "erase"
         /\ erased' = erased \cup {Move(d).on}
         /\ UNCHANGED log
  BY DEF Answered, Invoked, Erases
<1> QED
  BY <1>1, <1>4, <1>6, <1>7, <1>8 DEF Durable!Ask

LEMMA RecordStep ==
  ASSUME NEW d \in Delivery, Steps(d), Record(d)
  PROVE  Durable!Learn(d)
PROOF
<1>1. /\ pc[d] = "landed" /\ log' = log /\ erased' = erased
      /\ performed' = performed
      /\ Learn(d, Move(d), landed[d])
  BY DEF Record, world, KeyOf, Shown
<1>2. pc'[d] = "body"
  BY StepFacts DEF Record, Goto, TypeOK
<1>3. /\ Len(seen[d]) = Len(best[d]) /\ Furthest(d).does \in Journaled
      /\ AskedFurthest(d) /\ landed[d] \in MayCome(Furthest(d))
  BY <1>1, StepFacts DEF DeliveryInv, AtTheFront, Landing
<1>4. /\ Durable!Running(d) /\ Durable!Started(d) /\ Durable!Due(d) = Move(d)
      /\ Move(d) = Furthest(d) /\ Len(best[d]) >= FirstCall(d)
  BY <1>1, <1>3, AtItsNextCall
<1>5. Follow(d, Move(d), landed[d])
  BY <1>3, <1>4 DEF Follow, Journaled
<1>6. /\ best' = [best EXCEPT ![d] =
           Append(@, [key |-> Move(d), answer |-> landed[d]])]
      /\ AskedNext' = [AskedNext EXCEPT ![d] = FALSE]
      /\ UNCHANGED Outcomes
  BY <1>1, <1>2, <1>3, <1>4, <1>5, LearningStep
<1>7. landed[d] \in Durable!MayCome(d)
  BY <1>3, <1>4
     DEF Durable!MayCome, MayCome, Journaled, Response, Outcome, Done
<1>8. AskedNext[d]
  BY <1>3 DEF AskedNext
<1> QED
  BY <1>1, <1>4, <1>6, <1>7, <1>8 DEF Durable!Learn

LEMMA RevealStep ==
  ASSUME NEW d \in Delivery, Steps(d), Reveal(d)
  PROVE  Durable!Learn(d) \/ UNCHANGED Durable!vars
PROOF
<1>1. /\ pc[d] = "body" /\ pc' = pc /\ log' = log /\ erased' = erased
      /\ performed' = performed /\ Move(d).does = "reveal"
      /\ ~Gone(Move(d).on) /\ Learn(d, Move(d), Plaintext)
  BY DEF Reveal, world
<1>2. CASE Len(seen[d]) < Len(best[d])
  BY <1>1, <1>2, RetracingStep
<1>3. CASE Len(seen[d]) = Len(best[d])
  <2>1. /\ Durable!Running(d) /\ Durable!Started(d) /\ Durable!Due(d) = Move(d)
        /\ Move(d) = Furthest(d) /\ Len(best[d]) >= FirstCall(d)
    BY <1>1, <1>3, AtItsNextCall
  <2>2. Follow(d, Move(d), Plaintext) /\ Move(d).does \notin Journaled
    BY <1>1, <2>1 DEF Follow, Journaled
  <2>3. /\ best' = [best EXCEPT ![d] =
             Append(@, [key |-> Move(d), answer |-> Plaintext])]
        /\ AskedNext' = [AskedNext EXCEPT ![d] = FALSE]
        /\ UNCHANGED Outcomes
    BY <1>1, <1>3, <2>2, LearningStep
  <2>4. Plaintext \in Durable!MayCome(d)
    BY <1>1, <2>1, RunOfDeliveries DEF Durable!MayCome, Plaintext
  <2> QED
    BY <1>1, <2>1, <2>2, <2>3, <2>4 DEF Durable!Learn, Journaled
<1> QED
  BY <1>2, <1>3, StepFacts

LEMMA AdvanceStep ==
  ASSUME NEW d \in Delivery, Steps(d), Advance(d)
  PROVE  Durable!Finish(d) \/ Durable!Skip(d) \/ Durable!Ignore(d)
PROOF
<1>1. /\ pc[d] = "returned" /\ log' = log /\ erased' = erased
      /\ best' = best /\ performed' = performed /\ answer' = answer
  BY DEF Advance, world, history
<1>2. pc'[d] = "over"
  BY StepFacts DEF Advance, Goto, TypeOK
<1>3. /\ answer[d] \in returned[d] /\ Answering(d) /\ Reached(d)
      /\ answer[d] \in {"done", "failed", "skipped", "ignored"}
  BY <1>1, StepFacts DEF DeliveryInv, Answering, Answers
<1>4. Durable!End(d, answer[d])
  <2>1. Outcomes' = [Outcomes EXCEPT ![d] = answer[d]]
    BY <1>1, <1>2, OneRun DEF Steps
  <2>2. AskedNext' = AskedNext
    <3>1. \A e \in Delivery : AskedFurthest(e)' = AskedFurthest(e)
      BY <1>1, AskedStays DEF Steps, Inv
    <3> QED
      BY <3>1 DEF AskedNext
  <2> QED
    BY <1>1, <2>1, <2>2 DEF Durable!End
<1>5. /\ Runs(d) => Durable!Running(d)
      /\ Durable!Started(d) <=> Len(best[d]) >= FirstCall(d)
      /\ Durable!Due(d) = Furthest(d) /\ Durable!First(d) = FirstCall(d)
      /\ \A calls : Durable!Onward(d, calls) = Turn(d, Prefix(d), calls)
      /\ \A s : Durable!Unreadable(s) <=> Gone(s)
  BY <1>1, <1>3, RunOfDeliveries
<1>6. CASE answer[d] = "done"
  BY <1>3, <1>4, <1>5, <1>6 DEF Answering, Ends, Durable!Finish
<1>7. CASE answer[d] = "failed"
  BY <1>3, <1>4, <1>5, <1>7 DEF Answering, Ends, Durable!Finish
<1>8. CASE answer[d] = "skipped"
  <2>1. Stopped(d)
    BY <1>3, <1>8 DEF Answering
  <2>2. PICK n \in FirstCall(d) .. Len(best[d]) :
          /\ Turn(d, Prefix(d), SubSeq(best[d], 1, n)).does = "reveal"
          /\ Gone(Turn(d, Prefix(d), SubSeq(best[d], 1, n)).on)
    BY <2>1 DEF Stopped
  <2>3. Len(best[d]) >= FirstCall(d) /\ Runs(d)
    BY <2>1, <2>2, StepFacts DEF Stopped
  <2> QED
    BY <1>4, <1>5, <1>8, <2>2, <2>3 DEF Durable!Skip
<1>9. CASE answer[d] = "ignored"
  <2>1. Beginning(d) = "ignored"
    BY <1>3, <1>9 DEF Answering
  <2>2. Outcomes[d] = "none"
    BY <1>1 DEF Outcomes
  <2> QED
    BY <1>3, <1>4, <1>9, <2>1, <2>2
       DEF Durable!Ignore, Durable!Trigger, Beginning, Reached
<1> QED
  BY <1>3, <1>6, <1>7, <1>8, <1>9

-----------------------------------------------------------------------------
(* Every step.                                                             *)

LEMMA WorldStep ==
  ASSUME Inv, Elsewhere
  PROVE  Durable!Elsewhere \/ UNCHANGED Durable!vars
PROOF
<1>1. Grows /\ \A d \in Delivery : Alone(d)
  BY ElsewhereAlone DEF Inv
<1>2. best' = best
  BY DEF Elsewhere, history
<1>3. /\ \A d \in Delivery : AskedFurthest(d)' = AskedFurthest(d)
      /\ \A d \in Delivery :
           IF pc[d] = "over" THEN pc'[d] = "over" /\ answer'[d] = answer[d]
                             ELSE pc'[d] # "over"
  BY <1>1, AskedStays DEF Inv, Alone
<1>4. UNCHANGED <<best, AskedNext, Outcomes>>
  BY <1>1, <1>2, <1>3, RunsStay
<1> QED
  BY <1>4 DEF Elsewhere, Durable!Elsewhere, Durable!vars

LEMMA StepsAreDurable ==
  Inv /\ Inv' /\ [Next]_vars => [Durable!Next]_Durable!vars
PROOF
<1> SUFFICES ASSUME Inv, Inv', [Next]_vars
             PROVE  Durable!Next \/ UNCHANGED Durable!vars
  OBVIOUS
<1>1. CASE UNCHANGED vars
  <2>1. \A d \in Delivery : AskedFurthest(d)' = AskedFurthest(d)
    <3>1. Grows
      BY <1>1, LogAppended DEF vars, Grows, Inv, TypeOK
    <3> QED
      BY <1>1, <3>1, AskedStays DEF vars, Inv
  <2>2. AskedNext' = AskedNext /\ Outcomes' = Outcomes
    BY <1>1, <2>1 DEF vars, AskedNext, Outcomes
  <2> QED
    BY <1>1, <2>2 DEF vars, Durable!vars
<1>2. CASE Elsewhere
  BY <1>2, WorldStep DEF Durable!Next
<1>3. ASSUME NEW d \in Delivery,
             \/ Local(d) \/ Answered(d) \/ Absorbed(d) \/ Invoked(d) \/ Beaten(d)
             \/ Raise(d) \/ Crash(d)
      PROVE  Durable!Next \/ UNCHANGED Durable!vars
  <2>1. Grows /\ OthersAlone(d)
    BY <1>3, StepAlone DEF Inv
  <2>2. Reached(d) /\ pc[d] # "over"
    <3>1. CASE Deliver(d)
      BY <3>1 DEF Deliver, Reached
    <3>2. CASE pc[d] \notin {"waiting", "over"}
      BY <3>2 DEF Inv, DeliveryInv, Untouched
    <3> QED
      BY <1>3, <3>1, <3>2
         DEF Local, PinClock, Replay, Call, Erases, Record, Reveal, Skip, Return,
             Advance, Answered, Absorbed, Invoked, Beaten, Raise, Crash
  <2>3. Steps(d)
    BY <2>1, <2>2 DEF Steps
  <2>4. CASE \/ Deliver(d) \/ Call(d) \/ Skip(d) \/ Return(d) \/ Absorbed(d)
             \/ Raise(d) \/ Beaten(d) \/ Crash(d)
    BY <2>3, <2>4, IdleStep
  <2>5. CASE PinClock(d)
    BY <2>3, <2>5, ClockStep DEF Durable!Next
  <2>6. CASE Replay(d)
    BY <2>3, <2>6, ReplayStep
  <2>7. CASE Answered(d) \/ Invoked(d) \/ Erases(d)
    BY <2>3, <2>7, AskStep DEF Durable!Next
  <2>8. CASE Record(d)
    BY <2>3, <2>8, RecordStep DEF Durable!Next
  <2>9. CASE Reveal(d)
    BY <2>3, <2>9, RevealStep DEF Durable!Next
  <2>10. CASE Advance(d)
    BY <2>3, <2>10, AdvanceStep DEF Durable!Next
  <2> QED
    BY <1>3, <2>4, <2>5, <2>6, <2>7, <2>8, <2>9, <2>10 DEF Local
<1> QED
  BY <1>1, <1>2, <1>3 DEF Next

\* However often it is delivered, wedged, lost and replayed, a position's
\* body has run once: its calls were asked for in its own order, each was
\* learned once and for good, and its end is the answer the cursor took.
THEOREM DeliveriesRunOnce == Spec => DeliveriesAreDurable
PROOF
<1>1. Init => Durable!Init
  BY RunsStart
<1>2. Inv /\ Inv' /\ [Next]_vars => [Durable!Next]_Durable!vars
  BY StepsAreDurable
<1> QED
  BY <1>1, <1>2, InvHolds, PTL DEF Spec, DeliveriesAreDurable, Durable!Spec

=============================================================================
