---------------------------- MODULE Expressions ----------------------------
(***************************************************************************)
(* Expressions: what the parser makes of one (`expr` and the ladder under  *)
(* it in src/parse.rs: the hints it hands down, the types it works out,    *)
(* what it refuses) beside what evaluating it comes to (`eval` of          *)
(* src/interp.rs, which sees values and no types).                         *)
(*                                                                         *)
(* An expression is grown a form at a time around the one there is; each   *)
(* form takes its other parts from the leaves. What is kept of one is      *)
(*                                                                         *)
(*   type     what `type_of` answers                                       *)
(*   want     the type its position declared, or Anything                  *)
(*   number   the literal it is, while no type has claimed it              *)
(*   says     what evaluating it comes to                                  *)
(*   reads    how it reads the one slot that may be narrowed: not at all,  *)
(*            whole, or as the value a condition proved present            *)
(*   proves   the outcomes, of it as a condition, that prove it present    *)
(***************************************************************************)
EXTENDS Methods

CONSTANTS
    Held,       \* what the frame holds: [type, value]
    Wants,       \* the types positions declare
    Numbers,     \* the numbers written: [digits, places]
    Undeclared,  \* how many elements a list of no declared type may have
    MaxForms     \* how many forms an expression is grown by

VARIABLES
    term,        \* the expression so far
    maybe        \* what the slot that may be narrowed holds

termVars == <<term, maybe>>

NotNumber == [digits |-> 0, places |-> -1]

Term(type, want, says) ==
    [type |-> type, want |-> want, says |-> says, number |-> NotNumber,
     reads |-> "no", proves |-> {}, forms |-> 0]

NoTerm == Term(Kind("nothing"), Anything, Failing("idle"))

MaybeT == Opt(IntT)

---------------------------------------------------------------------------
(* The checks a declared position makes, of a value and what it wants.     *)

CheckSecret(t, want) == HoldsSecret(t.type) => HoldsSecret(want)
CheckSeal(t, want)   == IsSealed(t.type) => IsSealed(want)
CheckType(t, want)   == Fills(Unsealed(t.type), Unsealed(want))

NoSealOutright(t) == t.type.is # "Sealed"
NoSeal(t)   == ~IsSealed(t.type)
NoSecret(t) == ~HoldsSecret(t.type)
NoEvent(t)  == t.type.is # "Event"

Checked(t, want) == CheckSecret(t, want) /\ CheckSeal(t, want) /\ CheckType(t, want)

CheckBool(t) == Checked(t, BoolT)

(* `expr`: parsed for a position, and checked where the position declares. *)
Positioned(t, want) == t.want = want /\ (want # Anything => Checked(t, want))

---------------------------------------------------------------------------
(* Literals, and the type a number takes from where it is written.         *)

NumericTarget(want) == AsScalar(Peeled(InnerOf(want))).is \in {"Int", "Decimal", "Money"}

DefaultType(number) == IF number.places = 0 THEN IntT ELSE Scaled("Decimal", number.places)

(* The number as a type holds it; a subject's id is its scalar.            *)
Resolved(number, t) ==
    LET scalar == AsScalar(Unsealed(t))
    IN  FromAmount(Resolve(number.digits, number.places, Bare(scalar.is, scalar.scale)))

Number(number, want) ==
    IF NumericTarget(want)
    THEN Term(Peeled(InnerOf(want)), want, Resolved(number, InnerOf(want)))
    ELSE [Term(DefaultType(number), want, Resolved(number, DefaultType(number)))
            EXCEPT !.number = number]

(* A written text is the Uuid, the moment or the id its position wants.    *)
Written(want) ==
    LET target == AsScalar(InnerOf(want))
    IN  IF target.is \in {"Uuid", "Timestamp", "String"}
        THEN Term(IF target.is = "Timestamp" THEN target ELSE InnerOf(want), want,
                  Good(Scalar(target, 0)))
        ELSE Term(TextT, want, Good(Scalar(TextT, 0)))

(* What only a target makes a value of: `none`, `[]`, `Map.empty`.         *)
Empty(want) ==
    LET inner == InnerOf(want)
    IN  (IF want.is = "Opt" THEN {Term(want, want, Good(Holding(want, <<>>)))} ELSE {})
        \cup (IF inner.is \in {"List", "Map"} THEN {Term(inner, want, Good(Holding(inner, <<>>)))} ELSE {})

(* A credential: read, or missing where it may be.                         *)
SecretRead(want) ==
    LET held == Scalar(Kind("Secret"), 1)
    IN  {Term(Kind("Secret"), want, a) : a \in {Good(held), Failing("secret")}}
        \cup {Term(Opt(Kind("Secret")), want, Good(v)) : v \in Optional(Kind("Secret"), {held})}

Load(want) ==
    {Term(slot.type, want, Good(slot.value)) : slot \in Held}
    \cup {[Term(MaybeT, want, Good(maybe)) EXCEPT !.reads = "whole"],
          [Term(IntT, want, IF maybe.items = <<>> THEN Failing("malformed") ELSE Good(maybe.items[1]))
             EXCEPT !.reads = "narrowed"]}

Primary(want) ==
    Load(want)
    \cup {t \in {Number(n, want) : n \in Numbers} : t.says.raises = "no"}
    \cup {Term(BoolT, want, Good(Truth(TRUE))), Written(want),
          Term(Kind("Rounding"), want, Good(Scalar(Kind("Rounding"), 0)))}
    \cup Empty(want) \cup SecretRead(want)

(* The parts of a form: the expression there is, or a leaf; those a        *)
(* declared position takes; and two of which one is the expression, the    *)
(* second written where the first leaves a hint.                           *)
Part(want)    == {t \in {term} : t.want = want} \cup Primary(want)
Fitting(want) == {t \in Part(want) : Positioned(t, want)}

Pairs(want, Hint(_)) ==
    {<<l, term>> : l \in {leaf \in Primary(want) : Hint(leaf) = term.want}}
    \cup IF term.want = want THEN {<<term, r>> : r \in Part(Hint(term))} ELSE {}

---------------------------------------------------------------------------
(* A form evaluates its parts in order, and stops at the first that fails. *)

Both(l, r, answer) ==
    IF l.says.raises # "no" THEN l.says ELSE IF r.says.raises # "no" THEN r.says ELSE answer

(* Parts of one form read the slot in one way: it is narrowed or it is not.*)
Ways(l, r) == {l.reads, r.reads} # {"whole", "narrowed"}
EitherReads(l, r) == IF l.reads # "no" THEN l.reads ELSE r.reads

(* A part that runs only when `cond` came out `side`: what that proves is  *)
(* held while it is parsed, so a slot read whole before is narrowed in it. *)
UnderWays(cond, side, t) ==
    IF side \in cond.proves THEN t.reads # "whole" ELSE Ways(cond, t)
UnderReads(cond, side, t) ==
    IF side \in cond.proves THEN cond.reads ELSE EitherReads(cond, t)

ReadsOf(parts) == FoldLeft(LAMBDA reads, t : IF reads # "no" THEN reads ELSE t.reads, "no", parts)

Growing == term # NoTerm /\ term.forms < MaxForms

Grown(t) ==
    /\ term' = [t EXCEPT !.forms = term.forms + 1]
    /\ UNCHANGED maybe

---------------------------------------------------------------------------
(* The forms.                                                              *)

Opposite ==
    /\ Growing
    /\ term.want = BoolT /\ CheckBool(term)
    /\ \E want \in Wants :
          Grown([Term(BoolT, want,
                      IF term.says.raises # "no" THEN term.says
                      ELSE IF term.says.value.type # BoolT THEN Failing("unary")
                      ELSE Good(Truth(term.says.value.units = 0)))
                   EXCEPT !.reads = term.reads, !.proves = {~side : side \in term.proves}])

Negative ==
    /\ Growing
    /\ Grown([Term(term.type, term.want,
                   IF term.says.raises # "no" THEN term.says ELSE Negated(term.says.value))
                EXCEPT !.reads = term.reads])

AsTruth(answer) ==      \* `eval_bool`
    IF answer.raises = "no" /\ answer.value.type # BoolT THEN Failing("mismatch") ELSE answer

Decides(l, op, r) ==
    LET left == AsTruth(l.says)
    IN  IF left.raises # "no" \/ left.value = Truth(op = "||") THEN left ELSE AsTruth(r.says)

Truthful(l) == BoolT

Logic ==
    /\ Growing
    /\ \E want \in Wants : \E p \in Pairs(want, Truthful), op \in {"&&", "||"} : \E l \in {p[1]}, r \in {p[2]} :
          /\ CheckBool(l) /\ CheckBool(r)
          /\ UnderWays(l, op = "&&", r)
          /\ Grown([Term(BoolT, want, Decides(l, op, r))
                      EXCEPT !.reads = UnderReads(l, op = "&&", r),
                             !.proves = (l.proves \cup r.proves) \cap {op = "&&"}])

(* Two operands meet: a number nothing claimed takes its neighbour's type, *)
(* and of two the one with fewer places takes the other's.                 *)
Retyped(t, type) ==
    IF t.number = NotNumber \/ ~NumericTarget(type) \/ Resolved(t.number, InnerOf(type)).raises # "no"
    THEN t
    ELSE [Term(Unsealed(InnerOf(type)), t.want, Resolved(t.number, InnerOf(type))) EXCEPT !.forms = t.forms]

Settled(l, r) ==
    IF l.number # NotNumber /\ r.number # NotNumber
    THEN IF l.number.places > r.number.places THEN <<l, Retyped(r, DefaultType(l.number))>>
         ELSE IF r.number.places > l.number.places THEN <<Retyped(l, DefaultType(r.number)), r>>
         ELSE <<l, r>>
    ELSE <<Retyped(l, r.type), Retyped(r, l.type)>>

HintFrom(l) == IF l.number # NotNumber THEN Anything ELSE l.type

(* The bare side of an equality with an optional becomes one.              *)
Lifted(t, type) ==
    IF type.is # "Opt" \/ t.type # type.of[1] THEN t
    ELSE [t EXCEPT !.type = type,
                   !.says = IF @.raises # "no" THEN @
                            ELSE IF ~HasType(@.value, t.type) THEN Failing("mismatch")
                            ELSE Good(Holding(Opt(t.type), <<@.value>>))]

CheckCompare(op, l, r) == Comparable(op, l.type, r.type)

LiftTheRight(op, pair) ==
    IF op \notin Equality THEN pair ELSE <<pair[1], Lifted(pair[2], pair[1].type)>>
Lift(op, pair) ==
    IF op \notin Equality THEN pair
    ELSE <<Lifted(pair[1], pair[2].type), Lifted(pair[2], pair[1].type)>>

Compare ==
    /\ Growing
    /\ \E want \in Wants : \E p \in Pairs(want, HintFrom) : \E l \in {p[1]}, r \in {p[2]} :
          /\ Ways(l, r)
          /\ \A t \in {l, r} : NoSeal(t) /\ NoSecret(t) /\ NoEvent(t)
          /\ \E pair \in {Settled(l, r)}, op \in Equality \cup {"<", ">="} :
                /\ CheckCompare(op, pair[1], pair[2])
                /\ \E lifted \in {Lift(op, pair)} :
                      Grown([Term(BoolT, want,
                                  Both(lifted[1], lifted[2],
                                       Compared(op, lifted[1].says.value, lifted[2].says.value)))
                               EXCEPT !.reads = EitherReads(l, r)])

CheckArith(op, l, r) ==
    /\ \A t \in {l, r} : NoSeal(t) /\ NoSecret(t)
    /\ ArithType(op, l.type, r.type) # Anything

Operated(op, l, r, want) ==
    /\ Ways(l, r)
    /\ \E pair \in {IF op \in {"+", "-"} THEN Settled(l, r) ELSE <<l, r>>} :
          /\ CheckArith(op, pair[1], pair[2])
          /\ Grown([Term(ArithType(op, pair[1].type, pair[2].type), want,
                         Both(pair[1], pair[2], Calculated(op, pair[1].says.value, pair[2].says.value)))
                      EXCEPT !.reads = EitherReads(l, r)])

Add ==
    /\ Growing
    /\ \E want \in Wants :
       LET hint(l) == IF HintFrom(l) # Anything THEN HintFrom(l) ELSE want
       IN  \E p \in Pairs(want, hint), op \in {"+", "-"} : Operated(op, p[1], p[2], want)

Multiply ==
    /\ Growing
    /\ \E want \in Wants :
       LET none(l) == Anything
       IN  \E p \in Pairs(want, none), op \in {"*", "/"} : Operated(op, p[1], p[2], want)

(* Each arm is a position of its own, and two arms that come to two types  *)
(* are no value. What the condition proves is not held in either arm.      *)
Conditional ==
    /\ Growing
    /\ \E want \in Wants : \E arms \in {Fitting(want)} : \E cond \in Fitting(BoolT), one \in arms, two \in arms :
          /\ term \in {cond, one, two}
          /\ Ways(cond, one) /\ Ways(cond, two) /\ Ways(one, two)
          /\ \E then \in {Lifted(one, want)}, otherwise \in {Lifted(two, want)} :
                /\ then.type = otherwise.type
                /\ Grown([Term(then.type, want,
                               IF AsTruth(cond.says).raises # "no" THEN AsTruth(cond.says)
                               ELSE IF cond.says.value = Truth(TRUE) THEN then.says ELSE otherwise.says)
                            EXCEPT !.reads = ReadsOf(<<cond, one, two>>)])

MethodNames == {"trim", "after_last", "truncate", "contains", "to_int", "string", "array",
                "unwrap_or", "is_some", "is_none", "max", "first", "push", "remove", "sum",
                "concat", "distinct", "get", "set", "keys", "values", "mul", "div", "year",
                "add_days", "pad", "ok", "code", "refused"}

(* What the parser refuses of a call before it looks for the method.       *)
Poisoned(held, m) ==
    \/ IsSealed(held.type) /\ m \notin {"is_some", "is_none"}
    \/ held.reads = "narrowed" /\ m \in {"is_some", "is_none", "unwrap_or"}

Arguments(params) ==
    CASE Len(params) = 0 -> {<<>>}
      [] Len(params) = 1 -> {<<a>> : a \in Fitting(params[1])}
      [] Len(params) = 2 -> Fitting(params[1]) \X Fitting(params[2])

Called(held, m, args) ==
    IF held.says.raises # "no" THEN {held.says}
    ELSE IF \E i \in DOMAIN args : args[i].says.raises # "no"
    THEN {args[Min({i \in DOMAIN args : args[i].says.raises # "no"})].says}
    ELSE CallMethod(held.says.value, m, [i \in DOMAIN args |-> args[i].says.value])

ProvesOf(held, m) ==
    IF held.reads # "whole" \/ held.type # MaybeT \/ held.forms # 0 THEN {}
    ELSE CASE m = "is_some" -> {TRUE} [] m = "is_none" -> {FALSE} [] OTHER -> {}

Method ==
    /\ Growing
    /\ \E want \in Wants : \E held \in Part(want), m \in MethodNames : \E sig \in {MethodSig(held.type, m)} :
          /\ ~Poisoned(held, m) /\ sig # NoMethod
          /\ term = held \/ \E i \in DOMAIN sig.params : Positioned(term, sig.params[i])
          /\ \E args \in Arguments(sig.params) :
                /\ term = held \/ \E i \in DOMAIN args : args[i] = term
                /\ \A i \in DOMAIN args :
                      NoSeal(args[i]) /\ Ways(held, args[i]) /\ Ways(args[1], args[i])
                /\ \E says \in Called(held, m, args) :
                      Grown([Term(sig.ret, want, says)
                               EXCEPT !.reads = ReadsOf(<<held>> \o args),
                                      !.proves = ProvesOf(held, m)])

(* `status` and `body`, of a response and nothing else.                    *)
Field ==
    /\ Growing
    /\ term.type.is = "Response"
    /\ \E t \in {IntT, JsonT} :
          Grown([Term(t, term.want,
                      IF term.says.raises # "no" THEN term.says
                      ELSE IF term.says.value.type.is # "Response" THEN Failing("field")
                      ELSE Good(Scalar(t, 0)))
                   EXCEPT !.reads = term.reads])

ElementOf(want) == IF InnerOf(want).is = "List" THEN InnerOf(want).of[1] ELSE Anything

FitAll(items, inner) ==      \* each where it lands, up to the first that fails
    LET fit(list, t) ==
            IF list.raises # "no" THEN list
            ELSE IF t.says.raises # "no" THEN t.says
            ELSE IF inner = Anything
            THEN Good([list.value EXCEPT !.items = Append(@, t.says.value)])
            ELSE Pushed(list.value, t.says.value)
    IN  FoldLeft(fit, Good(Holding(List(inner), <<>>)), items)

(* With no type declared, the first element says what the list holds.      *)
Listed(items, inner) ==
    LET list == FitAll(items, inner)
    IN  IF list.raises = "no" /\ inner = Anything
        THEN Good([list.value EXCEPT !.type = List(items[1].says.value.type)]) ELSE list

Bracketed ==
    /\ Growing
    /\ \E want \in Wants : \E one \in {t \in {term} : Positioned(t, ElementOf(want))}, two \in Fitting(ElementOf(want)) :
       \E items \in {<<one>>} \cup (IF ElementOf(want) = Anything /\ Undeclared < 2 THEN {} ELSE {<<one, two>>}) :
          /\ Ways(one, two)
          /\ \A i \in DOMAIN items :
                NoSecret(items[i]) /\ NoSeal(items[i]) /\ NoEvent(items[i])
          /\ Grown([Term(List(IF ElementOf(want) = Anything THEN one.type ELSE ElementOf(want)), want,
                         Listed(items, ElementOf(want)))
                      EXCEPT !.reads = IF Len(items) = 1 THEN one.reads ELSE EitherReads(one, two)])

(* What a loop walks: the elements, or a map's values beside its keys.     *)
Elements(over) == over.says.value.items

ItemType(t) == IF t.is = "Map" THEN t.of[2] ELSE t.of[1]

(* `[item for item in over if cond]`, or with a leaf for the yield.        *)
Comprehension ==
    /\ Growing
    /\ term.want = Anything
    /\ NoSeal(term) /\ term.type.is \in {"List", "Map"}
    /\ \E want \in Wants, kept \in BOOLEAN :
       \E leaf \in Primary(ElementOf(want)) \cup {Term(ItemType(term.type), ElementOf(want), Failing("item"))} :
       \E inner \in {IF ElementOf(want) # Anything THEN ElementOf(want) ELSE leaf.type} :
          /\ Positioned(leaf, ElementOf(want)) /\ NoSecret(leaf) /\ NoSeal(leaf) /\ Ways(term, leaf)
          /\ Grown([Term(List(inner), want,
                         IF term.says.raises # "no" THEN term.says
                         ELSE IF term.says.value.type.is \notin {"List", "Map"} THEN Failing("iterable")
                         ELSE FitAll([i \in 1 .. (IF kept THEN Len(Elements(term)) ELSE 0) |->
                                        IF leaf.says.raises = "item"
                                        THEN [leaf EXCEPT !.says = Good(Elements(term)[i])] ELSE leaf],
                                     inner))
                      EXCEPT !.reads = EitherReads(term, leaf)])

(* An object, written where a document is wanted, is one.                  *)
Object ==
    /\ Growing
    /\ term.want = Anything
    /\ NoSeal(term) /\ NoSecret(term) /\ NoEvent(term)
    /\ \E want \in Wants :
          /\ InnerOf(want) = JsonT
          /\ Grown([Term(JsonT, want,
                         IF term.says.raises # "no" THEN term.says ELSE Good(Scalar(JsonT, 0)))
                      EXCEPT !.reads = term.reads])

(* A text with a credential in it is one.                                  *)
Interpolation ==
    /\ Growing
    /\ term.want = Anything
    /\ NoSeal(term) /\ NoEvent(term)
    /\ ~(term.type.is = "Opt" /\ HoldsSecret(term.type))
    /\ \E want \in Wants :
          Grown([Term(IF HoldsSecret(term.type) THEN Kind("Secret") ELSE TextT, want,
                      IF term.says.raises # "no" THEN term.says
                      ELSE Good(Scalar(IF HoldsSecret(term.says.value.type) THEN Kind("Secret") ELSE TextT, 0)))
                   EXCEPT !.reads = term.reads])

(* `Money.parse` and its kind: a text, and the type its position wants.    *)
Parse ==
    /\ Growing
    /\ Positioned(term, TextT)
    /\ \E want \in Wants :
          /\ InnerOf(want).is \in {"Money", "Decimal", "Timestamp"}
          /\ \E v \in Optional(InnerOf(want), {Scalar(InnerOf(want), 0)}) :
                Grown([Term(Opt(InnerOf(want)), want,
                            IF term.says.raises # "no" THEN term.says
                            ELSE IF term.says.value.type # TextT THEN Failing("malformed") ELSE Good(v))
                         EXCEPT !.reads = term.reads])

(* The only way out of a seal: its text, read as the type it was declared. *)
Opened(v, t) ==
    CASE v.type.is = "Sealed" -> {Good(Scalar(t, v.units)), Failing("erased")}
      [] v.type.is = "Opt" /\ v.items # <<>> ->
            {Good(Holding(Unsealed(v.type), <<Scalar(t, v.items[1].units)>>)), Failing("erased")}
      [] OTHER -> {Good(v)}

Reveal ==
    /\ Growing
    /\ term.want = Anything /\ IsSealed(term.type)
    /\ \E want \in Wants :
       \E says \in IF term.says.raises # "no" THEN {term.says}
                   ELSE Opened(term.says.value, InnerOf(Unsealed(term.type))) :
          Grown([Term(Unsealed(term.type), want, says) EXCEPT !.reads = term.reads])

(* A declared position: a `fn`'s parameter and what it returns, a record's *)
(* field, read back at the type declared.                                  *)
AtDeclared ==
    /\ Growing
    /\ \E t \in Wants \ {Anything}, want \in Wants :
          /\ Positioned(term, t)
          /\ ~IsSealed(t)
          /\ Grown([Term(t, want, IF term.says.raises # "no" THEN term.says ELSE Fitted(term.says.value, t))
                      EXCEPT !.reads = term.reads])

TermInit == term = NoTerm /\ maybe = NoneOf(IntT)

Begin ==
    /\ term = NoTerm
    /\ \E held \in Optional(IntT, {Scalar(IntT, 1)}) : maybe' = held
    /\ \E want \in Wants : \E t \in Primary(want)' : term' = t

TermNext ==
    \/ Begin
    \/ Opposite \/ Negative \/ Logic \/ Compare \/ Add \/ Multiply \/ Conditional \/ Method \/ Field
    \/ Bracketed \/ Comprehension \/ Object \/ Interpolation \/ Parse \/ Reveal \/ AtDeclared

---------------------------------------------------------------------------
(* An error no operand could tell the checker of: a width, a zero, an      *)
(* amount that would round, a credential or a key that is gone.            *)
Unforeseeable == {"no", "overflow", "zero", "inexact", "pad", "secret", "erased"}

(* Two optionals, or two lists, of one thing: of a subject and of its id,  *)
(* say, which only the checker tells apart.                                *)
OneThing(pair) == pair.op \in Equality /\ SameUnsealed(pair.l, pair.r)

(* What the checker might have foreseen and lets through: `-` takes any    *)
(* operand, and `mul` any first argument.                                  *)
LetThrough(says) ==
    \/ says.raises \in {"unary", "argument"}
    \/ says.raises = "operands" /\ OneThing(says.pair)

Evaluated == term \notin {NoTerm} /\ term.reads # "narrowed"

(* However it is put together, an expression the parser accepts evaluates  *)
(* to a value of the type it worked out, or raises an error no type could  *)
(* have foreseen, or one of the three kinds that LetThrough names: no      *)
(* method is missing, no other operand is refused, and nothing proved      *)
(* present is absent.                                                      *)
AcceptedExpressionsRun ==
    Evaluated =>
       \/ term.says.raises \in Unforeseeable
             /\ (term.says.raises = "no" => HasType(term.says.value, term.type))
       \/ LetThrough(term.says)

RECURSIVE HoldsSeal(_)
HoldsSeal(v) == v.type.is = "Sealed" \/ \E i \in DOMAIN v.items : HoldsSeal(v.items[i])

(* A seal is "transparent to the runtime": what it guards "is a parse-time *)
(* rule" (src/value.rs). So wherever sealed content has come to, its type  *)
(* says so, which is all that keeps it out of a comparison and a text; and *)
(* what is not sealed, nothing takes for a credential.                     *)
SealsAreKnown ==
    term.says.raises = "no" =>
       /\ HoldsSeal(term.says.value) => IsSealed(term.type)
       /\ HoldsSecret(term.says.value.type) => HoldsSecret(term.type)
=============================================================================
