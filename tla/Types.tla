------------------------------- MODULE Types -------------------------------
(***************************************************************************)
(* The types of src/types.rs and the values of src/value.rs: which type    *)
(* fills which, what a comparison, an operator and a method are given and  *)
(* give back, and how a value meets the type a position declares.          *)
(*                                                                         *)
(* A type is [is, scale, of], a value [type, units, keys, items] where     *)
(* `type` is what `Value::ty` answers: a scalar has units, an optional and *)
(* a list have items, a map has its keys in order beside its items.        *)
(***************************************************************************)
EXTENDS Numerals, FiniteSets, SequencesExt

Made(is, of)    == [is |-> is, scale |-> 0, of |-> of]
Kind(is)        == Made(is, <<>>)
Scaled(is, n)   == [is |-> is, scale |-> n, of |-> <<>>]
Opt(t)          == Made("Opt", <<t>>)
List(t)         == Made("List", <<t>>)
MapOf(k, v)     == Made("Map", <<k, v>>)
SealedOf(t)     == Made("Sealed", <<t>>)
Subject(id)     == Made("Subject", <<id>>)

Scalar(t, units)  == [type |-> t, units |-> units, keys |-> <<>>, items |-> <<>>]
Holding(t, items) == [type |-> t, units |-> 0, keys |-> <<>>, items |-> items]
Mapping(t, keys, items) == [type |-> t, units |-> 0, keys |-> keys, items |-> items]
SomeOf(v)  == Holding(Opt(v.type), <<v>>)
NoneOf(t)  == Holding(Opt(t), <<>>)
Truth(b)   == Scalar(Kind("Bool"), IF b THEN 1 ELSE 0)

---------------------------------------------------------------------------
(* Looking through an optional, a seal, a subject.                         *)

InnerOf(t)  == IF t.is = "Opt" THEN t.of[1] ELSE t
Peeled(t)   == IF t.is = "Sealed" THEN t.of[1] ELSE t
AsScalar(t) == IF t.is = "Subject" THEN t.of[1] ELSE t
IsSealed(t) == InnerOf(t).is = "Sealed"

HoldsSecret(t) == InnerOf(t).is = "Secret"

RECURSIVE SameUnsealed(_, _)
SameUnsealed(one, two) ==
    LET l == Peeled(one)
        r == Peeled(two)
    IN  IF l.is = r.is /\ l.is \in {"Opt", "List", "Map"}
        THEN \A i \in DOMAIN l.of : SameUnsealed(l.of[i], r.of[i])
        ELSE AsScalar(l) = AsScalar(r)

RECURSIVE Unsealed(_)
Unsealed(t) ==
    IF t.is = "Sealed" THEN Unsealed(t.of[1])
    ELSE IF t.is \in {"Opt", "List", "Map"}
    THEN [t EXCEPT !.of = [i \in DOMAIN t.of |-> Unsealed(t.of[i])]]
    ELSE t

(* A bare T fills a T?, and nothing else fills what it is not.             *)
Fills(found, t) == found = t \/ (t.is = "Opt" /\ t.of[1] = found)

HasType(v, t) == v.type.is = "Sealed" \/ SameUnsealed(v.type, t)

ArithType(op, l, r) ==
    LET row == Arithmetic(op, Bare(l.is, l.scale), Bare(r.is, r.scale))
    IN  IF row = NoType THEN Kind("unknown") ELSE Scaled(row.is, row.scale)

Equality == {"==", "!="}
Ordered  == {"Int", "Decimal", "Money", "String", "Timestamp"}

Comparable(op, l, r) ==
    \/ op \in Equality /\ (Fills(l, r) \/ Fills(r, l))
    \/ l = r /\ (op \in Equality \/ AsScalar(l).is \in Ordered)

---------------------------------------------------------------------------
(* What an evaluation comes to: a value, or the error it raises, with the  *)
(* operator and the two types a pair of bad operands names.                *)

Nothing  == Scalar(Kind("nothing"), 0)
NoPair   == [op |-> "", l |-> Kind("nothing"), r |-> Kind("nothing")]
Good(v)  == [raises |-> "no", value |-> v, pair |-> NoPair]
Failing(what) == [raises |-> what, value |-> Nothing, pair |-> NoPair]
BadOperands(op, l, r) ==
    [raises |-> "operands", value |-> Nothing,
     pair |-> [op |-> op, l |-> l.type, r |-> r.type]]

(* A bare value meeting a T? becomes one, under the type declared.         *)
Coerced(v, t) ==
    LET want == Peeled(t)
    IN  IF want.is = "Opt" /\ HasType(v, want.of[1]) THEN Holding(want, <<v>>) ELSE v

Fitted(v, t) ==
    IF HasType(Coerced(v, t), t) THEN Good(Coerced(v, t)) ELSE Failing("mismatch")

(* The one place two values are ordered.                                   *)
Orders(l, r) == l.type = r.type /\ l.type.is \in Ordered

Compared(op, l, r) ==
    IF op \in Equality
    THEN IF l.type # r.type THEN BadOperands(op, l, r)
         ELSE Good(Truth((l = r) = (op = "==")))
    ELSE IF ~Orders(l, r) THEN BadOperands(op, l, r)
    ELSE Good(Truth(CASE op = "<"  -> l.units < r.units
                      [] op = "<=" -> l.units <= r.units
                      [] op = ">"  -> l.units > r.units
                      [] op = ">=" -> l.units >= r.units))

AmountOf(v) == [is |-> v.type.is, scale |-> v.type.scale, units |-> v.units]

FromAmount(a) ==
    IF a.raises = "no" THEN Good(Scalar(Scaled(a.is, a.scale), a.units)) ELSE Failing(a.raises)

Calculated(op, l, r) ==
    LET result == Binary(op, AmountOf(l), AmountOf(r))
    IN  IF result = NoOperands THEN BadOperands(op, l, r) ELSE FromAmount(result)

Negated(v) ==
    IF v.type.is \in {"Int", "Decimal", "Money"} THEN FromAmount(Neg(AmountOf(v)))
    ELSE Failing("unary")

(* `max` and `min`, of two values that order.                              *)
Selected(m, held, other) ==
    IF Orders(held, other)
    THEN Good(IF (m = "max") = (held.units >= other.units) THEN held ELSE other)
    ELSE IF ~Orders(held, held) THEN Failing("method") ELSE Failing("mismatch")
=============================================================================
