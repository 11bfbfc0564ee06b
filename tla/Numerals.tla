------------------------------ MODULE Numerals ------------------------------
(***************************************************************************)
(* Whole numbers, decimals and money: which operators their types have     *)
(* (`arithmetic` of src/types.rs), what they come to (src/scaled.rs and    *)
(* `binary`, `unary` and `sum` of src/interp.rs), and how an amount is     *)
(* written out and read back (`text`, `parse_scaled`, `Number::resolve`).  *)
(*                                                                         *)
(* An amount is its type and its units, [is, scale, units], an `Int` being *)
(* of scale 0. The code's i64 is Units here and its i128 is Wide: as there,*)
(* Wide holds the product of two Units and any Units at RatioScale more    *)
(* places, and Units holds a 1 at MaxScale.                                *)
(***************************************************************************)
EXTENDS Integers, Sequences

CONSTANTS
    MaxUnits,      \* i64::MAX
    MaxWide,       \* i128::MAX
    MaxScale,      \* MAX_SCALE
    RatioScale     \* RATIO_SCALE

Pow10(scale) ==
    LET up[n \in 0 .. scale] == IF n = 0 THEN 1 ELSE 10 * up[n - 1]
    IN  up[scale]

ASSUME WidthsAssumption ==
    /\ MaxUnits \in Nat /\ MaxWide \in Nat /\ MaxScale \in Nat /\ RatioScale \in Nat
    /\ Pow10(MaxScale) <= MaxUnits
    /\ (MaxUnits + 1) * (MaxUnits + 1) <= MaxWide
    /\ (MaxUnits + 1) * Pow10(RatioScale) <= MaxWide
    /\ (MaxUnits + 1) * Pow10(MaxScale) <= MaxWide

Units == -MaxUnits - 1 .. MaxUnits
Wide  == -MaxWide - 1 .. MaxWide

Int64(units)      == [is |-> "Int", scale |-> 0, units |-> units]
Amount(type, units)   == [is |-> type.is, scale |-> type.scale, units |-> units]
Bare(is, scale)   == [is |-> is, scale |-> scale]
TypeOf(amount)    == Bare(amount.is, amount.scale)
NoType            == Bare("none", 0)

---------------------------------------------------------------------------
(* Integers as the machine has them: division goes toward zero, and what   *)
(* does not fit is an error.                                               *)

Magnitude(n) == IF n < 0 THEN -n ELSE n

Quotient(n, d) ==
    LET q == Magnitude(n) \div Magnitude(d)
    IN  IF (n < 0) = (d < 0) THEN q ELSE -q

Remainder(n, d) == n - d * Quotient(n, d)

Raise(what) == [raises |-> what, units |-> 0]

Fit(value) ==
    IF value \in Units THEN [raises |-> "no", units |-> value] ELSE Raise("overflow")

(* What follows from an intermediate that must fit in the wide width.      *)
Widened(value, result) == IF value \in Wide THEN result ELSE Raise("overflow")

AwayFromTheNumerator(n, d) == IF n < 0 THEN -1 ELSE 1
Away(n, d) == IF (n < 0) # (d < 0) THEN -1 ELSE 1

Adjust(n, d, rounding) ==
    LET twice     == 2 * Magnitude(Remainder(n, d))
        magnitude == Magnitude(d)
    IN  CASE rounding = "HalfUp"   -> IF twice >= magnitude THEN Away(n, d) ELSE 0
          [] rounding = "HalfEven" ->
                IF \/ twice > magnitude
                   \/ twice = magnitude /\ Remainder(Quotient(n, d), 2) # 0
                THEN Away(n, d) ELSE 0
          [] rounding = "Down"     -> 0

RoundDiv(n, d, rounding) ==
    IF d = 0 THEN Raise("zero")
    ELSE IF Remainder(n, d) = 0 THEN Fit(Quotient(n, d))
    ELSE LET rounded == Quotient(n, d) + Adjust(n, d, rounding)
         IN  Widened(rounded, Fit(rounded))

ExactDiv(n, d) ==
    IF d = 0 THEN Raise("zero")
    ELSE IF Remainder(n, d) # 0 THEN Raise("inexact")
    ELSE Fit(Quotient(n, d))

Rescale(units, from, to) ==
    IF to >= from
    THEN LET widened == units * Pow10(to - from) IN Widened(widened, Fit(widened))
    ELSE RoundDiv(units, Pow10(from - to), "HalfUp")

MulRatio(units, factor, scale, rounding) ==
    Widened(units * factor, RoundDiv(units * factor, Pow10(scale), rounding))

MulRatioExact(units, factor, scale) ==
    Widened(units * factor, ExactDiv(units * factor, Pow10(scale)))

Ratio(n, d) ==
    LET widened == n * Pow10(RatioScale)
    IN  Widened(widened, RoundDiv(widened, d, "HalfUp"))

Arith(op, l, r) ==
    CASE op = "+" -> Fit(l + r)
      [] op = "-" -> Fit(l - r)
      [] op = "*" -> Fit(l * r)
      [] op \in {"/", "%"} /\ r = 0 -> Raise("zero")
      [] op = "/" /\ r # 0 -> Fit(Quotient(l, r))
      [] op = "%" /\ r # 0 ->
            IF Quotient(l, r) \in Units THEN Fit(Remainder(l, r)) ELSE Raise("overflow")

---------------------------------------------------------------------------
(* The table the parser keeps: the type of `l op r`, or none.              *)

Arithmetic(op, l, r) ==
    CASE l.is = "Int" /\ r.is = "Int" -> l
      [] l = r /\ l.is \in {"Decimal", "Money"} /\ op \in {"+", "-"} -> l
      [] l.is = "Decimal" /\ r.is = "Int" /\ op \in {"*", "/"} -> l
      [] l.is = "Int" /\ r.is \in {"Decimal", "Money"} /\ op = "*" -> r
      [] l.is = "Money" /\ l = r /\ op = "/" -> Bare("Decimal", RatioScale)
      [] l.is = "Money" /\ r.is = "Int" /\ op \in {"*", "/"} -> l
      [] l.is = "Money" /\ r.is = "Decimal" /\ op = "*" -> l
      [] l.is = "Decimal" /\ r.is = "Money" /\ op = "*" -> r
      [] OTHER -> NoType

(* And what runs, which looks at the values alone.                         *)
As(is, scale, result) ==
    [raises |-> result.raises, units |-> result.units, is |-> is, scale |-> scale]

NoOperands == As("none", 0, Raise("operands"))

Binary(op, l, r) ==
    LET plain == Arith(op, l.units, r.units)
    IN  CASE l.is = "Int" /\ r.is = "Int" -> As("Int", 0, plain)
          [] l.is = "Decimal" /\ TypeOf(l) = TypeOf(r) /\ op \in {"+", "-"} ->
                As("Decimal", l.scale, plain)
          [] l.is = "Decimal" /\ r.is = "Int" /\ op \in {"*", "/"} ->
                As("Decimal", l.scale, plain)
          [] l.is = "Int" /\ r.is = "Decimal" /\ op = "*" -> As("Decimal", r.scale, plain)
          [] l.is = "Money" /\ TypeOf(l) = TypeOf(r) /\ op \in {"+", "-"} ->
                As("Money", l.scale, plain)
          [] l.is = "Money" /\ TypeOf(l) = TypeOf(r) /\ op = "/" ->
                As("Decimal", RatioScale, Ratio(l.units, r.units))
          [] l.is = "Money" /\ r.is = "Int" /\ op = "*" -> As("Money", l.scale, plain)
          [] l.is = "Int" /\ r.is = "Money" /\ op = "*" -> As("Money", r.scale, plain)
          [] l.is = "Money" /\ r.is = "Int" /\ op = "/" ->
                As("Money", l.scale, ExactDiv(l.units, r.units))
          [] l.is = "Money" /\ r.is = "Decimal" /\ op = "*" ->
                As("Money", l.scale, MulRatioExact(l.units, r.units, r.scale))
          [] l.is = "Decimal" /\ r.is = "Money" /\ op = "*" ->
                As("Money", r.scale, MulRatioExact(r.units, l.units, l.scale))
          [] OTHER -> NoOperands

(* `mul` and `div` of money, which say how they round.                     *)
MoneyMul(l, r, rounding) == As("Money", l.scale, MulRatio(l.units, r.units, r.scale, rounding))
MoneyDiv(l, r, rounding) == As("Money", l.scale, RoundDiv(l.units, r.units, rounding))

Neg(l) == As(l.is, l.scale, Fit(-l.units))

(* One element after another, whatever the whole comes to.                 *)
Sum(type, items) ==
    LET total[n \in 0 .. Len(items)] ==
            IF n = 0 THEN Fit(0)
            ELSE IF total[n - 1].raises # "no" THEN total[n - 1]
            ELSE Fit(total[n - 1].units + items[n].units)
    IN  As(type.is, type.scale, total[Len(items)])

---------------------------------------------------------------------------
(* Written out and read back: a sign, whole digits, and `places` digits.   *)

TextSignedByItsWhole(amount) ==
    LET digits == Magnitude(amount.units)
        whole  == digits \div Pow10(amount.scale)
    IN  [negative |-> amount.units < 0 /\ whole # 0, whole |-> whole,
         fraction |-> digits % Pow10(amount.scale), places |-> amount.scale]
Text(amount) ==
    LET digits == Magnitude(amount.units)
    IN  [negative |-> amount.units < 0, whole |-> digits \div Pow10(amount.scale),
         fraction |-> digits % Pow10(amount.scale), places |-> amount.scale]

(* A written number takes the type it is read at: exactly, or not at all.  *)
Resolve(digits, places, type) ==
    IF places > type.scale THEN As(type.is, type.scale, Raise("too precise"))
    ELSE IF digits \notin Units THEN As(type.is, type.scale, Raise("overflow"))
    ELSE As(type.is, type.scale, Rescale(digits, places, type.scale))

ParseScaled(text, type) ==
    LET written == text.whole * Pow10(text.places) + text.fraction
    IN  Resolve(IF text.negative THEN -written ELSE written, text.places, type)
=============================================================================
