------------------------------ MODULE Decimals ------------------------------
(***************************************************************************)
(* One calculation: an operator, a rounding method, a negation, a sum, or  *)
(* an amount written out and read back (Numerals), of amounts at hand.     *)
(***************************************************************************)
EXTENDS Numerals

CONSTANT Amounts       \* those a calculation starts from

ASSUME AmountsAssumption ==
    \A amount \in Amounts :
        /\ amount.units \in Units
        /\ \/ TypeOf(amount) = Bare("Int", 0)
           \/ \E scale \in 0 .. MaxScale :
                 TypeOf(amount) \in {Bare("Decimal", scale), Bare("Money", scale)}

VARIABLES
    asked,     \* the calculation: [op, of : amounts, by : rounding]
    answer     \* what it came to: [raises, units, is, scale]

decimalVars == <<asked, answer>>

---------------------------------------------------------------------------

Operators == {"+", "-", "*", "/", "%"}
Roundings == {"HalfUp", "HalfEven", "Down"}

Asked(op, of, by) == [op |-> op, of |-> of, by |-> by]

Idle == asked.op = "nothing"

DecimalInit ==
    /\ asked = Asked("nothing", <<>>, "")
    /\ answer = NoOperands

Calculate ==
    /\ Idle
    /\ \E op \in Operators, l, r \in Amounts :
          /\ asked' = Asked(op, <<l, r>>, "")
          /\ answer' = Binary(op, l, r)

Round ==
    /\ Idle
    /\ \E rounding \in Roundings, l, r \in Amounts :
          /\ l.is = "Money"
          /\ \/ /\ r.is = "Decimal"
                /\ asked' = Asked("*", <<l, r>>, rounding)
                /\ answer' = MoneyMul(l, r, rounding)
             \/ /\ r.is = "Int"
                /\ asked' = Asked("/", <<l, r>>, rounding)
                /\ answer' = MoneyDiv(l, r, rounding)

Negate ==
    /\ Idle
    /\ \E l \in Amounts :
          /\ asked' = Asked("-", <<Amount(TypeOf(l), 0), l>>, "")
          /\ answer' = Neg(l)

Total ==
    /\ Idle
    /\ \E l, m, r \in Amounts :
          /\ TypeOf(l) = TypeOf(m) /\ TypeOf(m) = TypeOf(r)
          /\ asked' = Asked("sum", <<l, m, r>>, "")
          /\ answer' = Sum(TypeOf(l), <<l, m, r>>)

Reread ==
    /\ Idle
    /\ \E l, as \in Amounts :
          /\ asked' = Asked("read", <<l, Amount(TypeOf(as), 0)>>, "")
          /\ answer' = ParseScaled(Text(l), TypeOf(as))

DecimalNext == Calculate \/ Round \/ Negate \/ Total \/ Reread

DecimalSpec == DecimalInit /\ [][DecimalNext]_decimalVars

---------------------------------------------------------------------------
(* What an answer should be, from the values the operands stand for: the   *)
(* fraction n / d, in units of the answer.                                 *)

Exactly(op, l, r, scale) ==
    LET over == Pow10(l.scale + r.scale)
    IN  CASE op = "+" -> [n |-> (l.units * Pow10(r.scale) + r.units * Pow10(l.scale)) * Pow10(scale),
                          d |-> over]
          [] op = "-" -> [n |-> (l.units * Pow10(r.scale) - r.units * Pow10(l.scale)) * Pow10(scale),
                          d |-> over]
          [] op = "*" -> [n |-> l.units * r.units * Pow10(scale), d |-> over]
          [] op = "/" -> [n |-> l.units * Pow10(r.scale) * Pow10(scale),
                          d |-> r.units * Pow10(l.scale)]

(* How a bare operator rounds: money does not, a ratio is no money.        *)
BareRounding(op, l, r) ==
    IF op # "/" THEN "Exact"
    ELSE IF l.is # "Money" THEN "Down"
    ELSE IF r.is = "Money" THEN "HalfUp" ELSE "Exact"

Stands(u, f, rounding) ==
    LET off == Magnitude(f.n - u * f.d)
        one == Magnitude(f.d)
    IN  CASE rounding = "Exact"    -> off = 0
          [] rounding = "Down"     -> off < one /\ Magnitude(u * f.d) <= Magnitude(f.n)
          [] rounding = "HalfUp"   -> \/ 2 * off < one
                                      \/ 2 * off = one /\ Magnitude(u * f.d) > Magnitude(f.n)
          [] rounding = "HalfEven" -> 2 * off < one \/ (2 * off = one /\ u % 2 = 0)

(* "The bare operator is an error" where a result "is not exactly          *)
(* representable", and "Money never rounds silently"; two amounts "meet at *)
(* one scale" or not at all (docs/money.md). An answer is of the type the  *)
(* checker said, stands for the value of its operands, to the rounding     *)
(* asked for, and is refused only where no such answer fits: on either     *)
(* side of zero, of a half and of the width.                               *)
AnswersStand ==
    asked.op \in Operators =>
        LET l    == asked.of[1]
            r    == asked.of[2]
            type == Arithmetic(asked.op, TypeOf(l), TypeOf(r))
            by   == IF asked.by = "" THEN BareRounding(asked.op, l, r) ELSE asked.by
        IN  IF asked.by = "" /\ type = NoType THEN answer.raises = "operands"
            ELSE IF asked.op = "%"
            THEN CASE answer.raises = "zero" -> r.units = 0
                   [] answer.raises = "overflow" -> Quotient(l.units, r.units) \notin Units
                   [] OTHER -> /\ answer.raises = "no"
                               /\ \E q \in Units : q * r.units + answer.units = l.units
                               /\ Magnitude(answer.units) < Magnitude(r.units)
                               /\ answer.units * l.units >= 0
            ELSE LET f == Exactly(asked.op, l, r, answer.scale)
                 IN  /\ asked.by = "" => TypeOf(answer) = type
                     /\ CASE answer.raises = "no"       -> Stands(answer.units, f, by)
                          [] answer.raises = "zero"     -> f.d = 0
                          [] answer.raises = "inexact"  -> by = "Exact" /\ f.n % Magnitude(f.d) # 0
                          [] answer.raises = "overflow" -> \A u \in Units : ~Stands(u, f, by)
                          [] OTHER -> FALSE

(* An amount read back at its own type is itself, and at another its value *)
(* or a refusal, never a rounding; a sum is the whole of what it added.    *)
NothingIsLost ==
    LET l == asked.of[1]
    IN  CASE asked.op = "read" ->
               LET type == TypeOf(asked.of[2])
               IN  CASE answer.raises = "no" ->
                          answer.units * Pow10(l.scale) = l.units * Pow10(type.scale)
                     [] answer.raises = "overflow" ->
                          l.units * Pow10(type.scale - l.scale) \notin Units
                     [] OTHER -> type.scale < l.scale
          [] asked.op = "sum" /\ answer.raises = "no" ->
               answer.units = l.units + asked.of[2].units + asked.of[3].units
          [] OTHER -> TRUE

(* Both, of every amount the language computes (src/scaled.rs).            *)
AmountsHold == AnswersStand /\ NothingIsLost
=============================================================================
