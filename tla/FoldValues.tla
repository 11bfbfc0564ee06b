----------------------------- MODULE FoldValues -----------------------------
(***************************************************************************)
(* What a fold may store (`fold_body` and `fold_arms` of src/parse.rs):    *)
(* a seed and arms written as expressions, the seals of the arms and of    *)
(* the declaration, and rule 17, which looks through a value for an id no  *)
(* event claimed. Beside them, the fold applied to the records of a log.   *)
(*                                                                         *)
(* An expression is a tree [is, type, want, name, holds, noted, parts]:    *)
(* `type` is what `type_of` answers, `want` what its position declared,    *)
(* `noted` that a literal was resolved against a subject. An arm's value   *)
(* is grown a form at a time; the other parts of a form are leaves.        *)
(***************************************************************************)
EXTENDS Methods

CONSTANTS
    Binds,       \* the fields the arms bind: name -> type
    Shapes,      \* the records: name -> the types of its fields, in order
    Fns,         \* the module's `fn`s: name -> [params, ret, gives]
    FoldTypes,   \* what a fold may declare: [named, type]
    Positions,   \* the types the positions inside a value declare
    Carried,     \* the records of the log: name -> value
    MostParts,   \* how many forms a value is grown by
    MostRecords  \* how many records are folded

VARIABLES
    arm,         \* the value being written
    fold,        \* [named, type, seed, arms], once it is accepted
    row,         \* its value so far
    claimed,     \* the ids the folded records carry
    folded       \* how many there were

foldVars == <<arm, fold, row, claimed, folded>>

Tree(is, type, want, parts) ==
    [is |-> is, type |-> type, want |-> want, parts |-> parts,
     name |-> "", holds |-> Nothing, noted |-> FALSE]

NoArm  == Tree("idle", Kind("nothing"), Anything, <<>>)
NoFold == [named |-> FALSE, type |-> Kind("nothing"), seed |-> NoArm, arms |-> <<>>]

---------------------------------------------------------------------------
(* Positions. A fold's value takes the seal on, so the check that refuses  *)
(* sealed content at a plain position stands down while one is parsed.     *)

Sits(t, want) ==
    t.want = want /\ (want # Anything => Fills(Unsealed(t.type), Unsealed(want)))

Unboxed(t) == ~IsSealed(t.type)           \* `no_seal`

Unkeyed == Kind("unkeyed")
SealOf(type) == IF IsSealed(type) THEN InnerOf(type).of[2] ELSE Unkeyed

(* A bare value in an arm of an `if` that wants an optional becomes one.   *)
Wrapped(t, want) ==
    IF want.is = "Opt" /\ t.type = want.of[1] THEN Tree("wrap", want, t.want, <<t>>) ELSE t

---------------------------------------------------------------------------
(* Leaves.                                                                 *)

TakesAnId(want) == AsScalar(Peeled(InnerOf(want))) = IntT

WrittenId(want) ==
    LET type == IF TakesAnId(want) THEN Peeled(InnerOf(want)) ELSE IntT
    IN  [Tree("lit", type, want, <<>>)
            EXCEPT !.holds = Scalar(IntT, 0), !.noted = type.is = "Subject"]

Absent(want) ==
    (IF want.is = "Opt" THEN {[Tree("none", want, want, <<>>) EXCEPT !.holds = Holding(want, <<>>)]} ELSE {})
    \cup (IF InnerOf(want).is = "List" THEN {Tree("list", InnerOf(want), want, <<>>)} ELSE {})

Reading(is, name, type, want) == [Tree(is, type, want, <<>>) EXCEPT !.name = name]

(* What a seed may be made of, and what an arm may.                        *)
Closed(want) ==
    {WrittenId(want)} \cup Absent(want)
    \cup {Reading("call", f, Fns[f].ret, want) : f \in {g \in DOMAIN Fns : Fns[g].params = <<>>}}

Open(want, acc) ==
    Closed(want) \cup {Reading("load", f, Binds[f], want) : f \in DOMAIN Binds}
    \cup {Reading("load", "acc", acc, want)}

Leaves(want) == {t \in Open(want, fold.type) : Sits(t, want)}

---------------------------------------------------------------------------
(* Forms.                                                                  *)

RECURSIVE Depth(_)
Depth(t) == IF t.parts = <<>> THEN 0 ELSE 1 + Max({Depth(t.parts[i]) : i \in DOMAIN t.parts})

Writing == fold.arms = <<>> /\ arm # NoArm /\ Depth(arm) < MostParts

Write(t) == arm' = t /\ UNCHANGED <<fold, row, claimed, folded>>

Element(want) == IF InnerOf(want).is = "List" THEN InnerOf(want).of[1] ELSE Anything

(* With no type declared the first element says what the list holds. That  *)
(* the rest are of it, a written number aside, is the program's affair.    *)
AList ==
    /\ Writing
    /\ \E want \in Positions :
       \E one \in {t \in {arm} : Sits(t, Element(want))} :
       \E two \in {one} \cup {t \in Leaves(Element(want)) :
                                Element(want) = Anything => t.is = "lit" \/ t.type = one.type} :
          /\ Unboxed(one) /\ Unboxed(two)
          /\ Write(Tree("list", List(IF Element(want) = Anything THEN one.type ELSE Element(want)), want,
                        IF two = one THEN <<one>> ELSE <<one, two>>))

(* `record_literal`: every field, each at the type it declares.            *)
ARecord ==
    /\ Writing
    /\ \E shape \in DOMAIN Shapes, want \in Positions :
       \E parts \in {<<one, two>> : one \in {arm} \cup Leaves(Shapes[shape][1]),
                                    two \in {arm} \cup Leaves(Shapes[shape][2])} :
          /\ \E i \in 1..2 : parts[i] = arm
          /\ \A i \in 1..2 : Sits(parts[i], Shapes[shape][i]) /\ Unboxed(parts[i])
          /\ Write(Tree("record", Kind(shape), want, parts))

AField ==
    /\ Writing
    /\ arm.type.is \in DOMAIN Shapes
    /\ \E i \in DOMAIN Shapes[arm.type.is] :
          Write([Tree("field", Shapes[arm.type.is][i], arm.want, <<arm>>) EXCEPT !.holds.units = i])

(* Each argument of a `fn` is at the type of its parameter, and the seal   *)
(* check there stands down with the rest.                                  *)
ACall ==
    /\ Writing
    /\ \E f \in DOMAIN Fns, want \in Positions :
          /\ Len(Fns[f].params) = 1 /\ Sits(arm, Fns[f].params[1])
          /\ Write([Tree("call", Fns[f].ret, want, <<arm>>) EXCEPT !.name = f])

Selectors == {"first", "push", "concat", "remove", "unwrap_or", "max"}

(* The receiver is written where the call is, and wants what it wants.     *)
AMethod ==
    /\ Writing
    /\ \E want \in Positions : \E held \in {t \in {arm} \cup Leaves(want) : t.want = want} :
       \E m \in Selectors : \E sig \in {MethodSig(held.type, m)} :
          /\ sig # NoMethod /\ Unboxed(held)
          /\ \E args \in IF sig.params = <<>> THEN {<<>>}
                         ELSE {<<a>> : a \in Leaves(sig.params[1])
                                             \cup {t \in {arm} : Sits(t, sig.params[1])}} :
                /\ \E i \in DOMAIN (<<held>> \o args) : (<<held>> \o args)[i] = arm
                /\ \A i \in DOMAIN args : Unboxed(args[i])
                /\ Write([Tree("method", sig.ret, want, <<held>> \o args) EXCEPT !.name = m])

(* A comparison of an id or a count with a written one.                    *)
Comparisons(l) ==
    {Tree("compare", BoolT, BoolT, <<l, r>>) : r \in {t \in {WrittenId(l.type)} : Comparable("==", l.type, t.type)}}

Conditions == UNION {Comparisons(Reading("load", f, Binds[f], BoolT)) :
                       f \in {g \in DOMAIN Binds : AsScalar(Binds[g]) = IntT}}

AnIf ==
    /\ Writing
    /\ \E want \in Positions :
       \E one \in {t \in {arm} : Sits(t, want)}, two \in Leaves(want), cond \in Conditions :
       \E parts \in {<<cond, Wrapped(one, want), Wrapped(two, want)>>,
                     <<cond, Wrapped(two, want), Wrapped(one, want)>>} :
          /\ parts[2].type = parts[3].type
          /\ Write(Tree("if", parts[2].type, want, parts))

(* `[item for item in over if item == ..]`.                                *)
AComprehension ==
    /\ Writing
    /\ arm.want = Anything /\ arm.type.is = "List"
    /\ \E want \in Positions :
       LET item == Reading("load", "item", arm.type.of[1], Element(want))
       IN  \E yield \in {item, WrittenId(Element(want))}, cond \in {<<>>} \cup {<<c>> : c \in Comparisons(item)} :
             /\ Sits(yield, Element(want)) /\ Unboxed(yield)
             /\ Write(Tree("comp", List(IF Element(want) = Anything THEN yield.type ELSE Element(want)), want,
                           <<arm, yield>> \o cond))

---------------------------------------------------------------------------
(* Rule 17: a fold may not invent a subject id.                            *)

KeysASubject(type) == InnerOf(type).is = "Subject"           \* `subject_of`

(* Mutant of HoldsASubject: asked of the type, and not of what it holds.   *)
IsASubject(type) == KeysASubject(type)

RECURSIVE HoldsASubject(_)
HoldsASubject(type) ==
    CASE type.is \in {"Opt", "List"} -> HoldsASubject(type.of[1])
      [] type.is \in DOMAIN Shapes   -> \E i \in DOMAIN Shapes[type.is] : HoldsASubject(Shapes[type.is][i])
      [] OTHER                       -> KeysASubject(type)

(* Mutant of PositionOf: that of the part itself.                          *)
AtOwnType(t, at, i) == t.parts[i].type

(* The type of the position a part sits at, the whole being at `at`.       *)
PositionOf(t, at, i) ==
    CASE t.is = "list"   -> Element(at)
      [] t.is = "record" -> Shapes[t.type.is][i]
      [] OTHER           -> t.parts[i].type

RECURSIVE Invents(_, _)
Invents(t, at) ==
    /\ HoldsASubject(at)
    /\ \/ KeysASubject(at) /\ (t.is = "lit" \/ t.noted)
       \/ t.is = "call"
       \/ \E i \in DOMAIN t.parts : Invents(t.parts[i], PositionOf(t, at, i))

---------------------------------------------------------------------------
(* A fold: its seed, its arms, and what they agree to be sealed under.     *)

(* Rule 12: every arm under one subject, or none under any.                *)
ArmsAgree(arms) == \A i, j \in DOMAIN arms : SealOf(arms[i].type) = SealOf(arms[j].type)

(* Rule 7: where the type declares a seal it is the one the arms carry,    *)
(* and a named fold, which its column is typed from, declares it.          *)
SaysSo(decl, arms) ==
    LET bound == SealOf(arms[1].type)
    IN  bound # Unkeyed => IF IsSealed(decl.type) THEN SealOf(decl.type) = bound ELSE ~decl.named

(* Mutant of Sealable: what the declaration says is not asked.              *)
SealableAlike(decl, arms) == ArmsAgree(arms)

Sealable(decl, arms) == ArmsAgree(arms) /\ SaysSo(decl, arms)

(* What its reader is told it holds: an inline one takes the seal on.      *)
Published ==
    LET bound == SealOf(fold.arms[1].type)
    IN  IF fold.named \/ bound = Unkeyed THEN fold.type
        ELSE Opt(Made("Sealed", <<InnerOf(fold.type), bound>>))

Seed ==
    /\ fold = NoFold
    /\ \E decl \in FoldTypes, want \in Positions :
       \E seed \in {t \in Closed(decl.type) : Sits(t, decl.type) /\ ~Invents(t, decl.type)} :
       \E t \in Open(want, decl.type) :
          /\ fold' = [named |-> decl.named, type |-> decl.type, seed |-> seed, arms |-> <<>>]
          /\ arm' = t
    /\ UNCHANGED <<row, claimed, folded>>

---------------------------------------------------------------------------
(* Evaluating one, over what the record and the row hold.                  *)

FitTo(parts, type) ==     \* a list's elements, each where it lands
    LET push(list, v) == IF list.raises # "no" THEN list
                         ELSE IF v.raises # "no" THEN v ELSE Pushed(list.value, v.value)
    IN  FoldLeft(push, Good(Holding(List(type), <<>>)), parts)

FirstFailing(parts, answer) ==
    LET failing == {i \in DOMAIN parts : parts[i].raises # "no"}
    IN  IF failing = {} THEN answer ELSE parts[Min(failing)]

Recorded(t, parts) ==
    LET fits == [i \in DOMAIN parts |->
                   IF parts[i].raises # "no" THEN parts[i] ELSE Fitted(parts[i].value, Shapes[t.type.is][i])]
    IN  FirstFailing(fits, Good(Holding(t.type, [i \in DOMAIN fits |-> fits[i].value])))

(* `call_function`: the arguments at their parameters, the result at `ret`. *)
Returned(helper, parts) ==
    IF parts = <<>> THEN Fitted(helper.gives, helper.ret)
    ELSE IF parts[1].raises # "no" THEN parts[1]
    ELSE LET given == Fitted(parts[1].value, helper.params[1])
         IN  IF given.raises # "no" THEN given
             ELSE Fitted(IF helper.gives = Nothing THEN given.value ELSE helper.gives, helper.ret)

RECURSIVE Comes(_, _)
Comes(t, frame) ==
    LET part(i) == Comes(t.parts[i], frame)
        parts   == [i \in DOMAIN t.parts |-> part(i)]
        each    == CHOOSE v \in {part(1)} : TRUE
    IN  CASE t.is \in {"lit", "none"} -> Good(t.holds)
          [] t.is = "load" -> Good(frame[t.name])
          [] t.is = "list" -> FitTo(parts, IF t.parts = <<>> THEN t.type.of[1]
                                           ELSE IF Element(t.want) # Anything THEN Element(t.want)
                                           ELSE parts[1].value.type)
          [] t.is = "record" -> Recorded(t, parts)
          [] t.is = "field"  -> IF each.raises # "no" THEN each ELSE Good(each.value.items[t.holds.units])
          [] t.is = "call"   -> Returned(Fns[t.name], parts)
          [] t.is = "wrap"   -> IF each.raises # "no" THEN each ELSE Good(Holding(t.type, <<each.value>>))
          [] t.is = "method" -> FirstFailing(parts,
                                  CHOOSE a \in CallMethod(parts[1].value, t.name,
                                                          [i \in 1 .. (Len(parts) - 1) |-> parts[i + 1].value]) : TRUE)
          [] t.is = "compare" -> FirstFailing(parts, Compared("==", parts[1].value, parts[2].value))
          [] t.is = "if" -> IF parts[1].raises # "no" THEN parts[1]
                            ELSE IF parts[1].value = Truth(TRUE) THEN parts[2] ELSE parts[3]
          [] t.is = "comp" ->
                IF each.raises # "no" THEN each
                ELSE LET of(item, n) == Comes(t.parts[n], [frame EXCEPT !["item"] = item])
                         kept == SelectSeq(each.value.items,
                                           LAMBDA item : Len(t.parts) = 2 \/ of(item, 3).value = Truth(TRUE))
                     IN  FitTo([i \in DOMAIN kept |-> of(kept[i], 2)], t.type.of[1])

Surroundings(record) ==
    [n \in DOMAIN record \cup {"acc", "item"} |->
        IF n = "acc" THEN row ELSE IF n = "item" THEN Nothing ELSE record[n]]

---------------------------------------------------------------------------
(* The ids a value of a type holds, and the subjects its content is under. *)
RECURSIVE IdsIn(_, _)
IdsIn(v, type) ==
    CASE type.is = "Subject"         -> {v.units}
      [] type.is \in {"Opt", "List"} -> UNION {IdsIn(v.items[i], type.of[1]) : i \in DOMAIN v.items}
      [] type.is \in DOMAIN Shapes   -> UNION {IdsIn(v.items[i], Shapes[type.is][i]) : i \in DOMAIN v.items}
      [] OTHER                       -> {}

RECURSIVE SealsIn(_)
SealsIn(v) ==
    (IF v.type.is = "Sealed" THEN {v.type.of[2]} ELSE {})
    \cup UNION {SealsIn(v.items[i]) : i \in DOMAIN v.items}

(* The arms are read, and the fold stands at its seed.                     *)
Accept ==
    /\ fold.arms = <<>> /\ Sits(arm, fold.type)
    /\ \E other \in Leaves(fold.type) : \E arms \in {<<arm, other>>} :
          /\ \A i \in DOMAIN arms : ~Invents(arms[i], fold.type)
          /\ Sealable(fold, arms)
          /\ fold' = [fold EXCEPT !.arms = arms]
    /\ LET seed == Comes(fold.seed, <<>>)
       IN  seed.raises = "no" /\ row' = Coerced(seed.value, fold.type)
    /\ arm' = NoArm
    /\ UNCHANGED <<claimed, folded>>

FoldNextRecord ==
    /\ fold.arms # <<>> /\ folded < MostRecords
    /\ \E record \in Carried, i \in DOMAIN fold.arms :
       \E value \in {Comes(fold.arms[i], Surroundings(record))} :
          /\ value.raises = "no" /\ Fitted(value.value, fold.type).raises = "no"
          /\ row' = Coerced(value.value, fold.type)
          /\ claimed' = claimed \cup UNION {IdsIn(record[f], Binds[f]) : f \in DOMAIN Binds}
    /\ folded' = folded + 1
    /\ UNCHANGED <<arm, fold>>

FoldInit ==
    /\ arm = NoArm /\ fold = NoFold
    /\ row = Nothing /\ claimed = {} /\ folded = 0

FoldNext ==
    \/ Seed \/ Accept \/ FoldNextRecord
    \/ AList \/ ARecord \/ AField \/ ACall \/ AMethod \/ AnIf \/ AComprehension

---------------------------------------------------------------------------
(* Rule 17 (docs/folds.md): derived state names rows an erasure has to     *)
(* reach, and it reaches the ids the log holds. However the value of an    *)
(* arm is put together, every id a fold stores where its type says a       *)
(* subject is came from a record it folded.                                *)
IdsComeFromTheLog == fold.arms # <<>> => IdsIn(row, Published) \subseteq claimed

(* Rules 7 and 12: sealed content is stored only where the type the column *)
(* and the caller are given says whose key it is under.                    *)
ContentIsUnderItsSubject ==
    fold.arms # <<>> => \A subject \in SealsIn(row) : SealOf(Published) = subject
=============================================================================
