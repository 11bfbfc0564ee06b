--------------------------- MODULE MCExpressions ---------------------------
(* A slot of each kind of type, and the positions they are written in.     *)
EXTENDS Expressions

Moneyed   == Scaled("Money", 2)
Rate      == Scaled("Decimal", 1)
Numbered  == {[digits |-> 1, places |-> 0], [digits |-> 15, places |-> 1]}

Slot(t, v) == [type |-> t, value |-> v]

TextSeal == Scalar(SealedOf(TextT), 1)
ATag     == Kind("Enum")
PriceMap == MapOf(TextT, Moneyed)

PlainSlots ==
    {Slot(IntT, Scalar(IntT, n)) : n \in {0, 100}}
    \cup {Slot(t, Scalar(t, 1)) :
            t \in {BoolT, TextT, Moneyed, Rate, MomentT, ATag, JsonT, Kind("Response"), Kind("Outcome")}}
    \cup {Slot(Opt(Moneyed), v) : v \in Optional(Moneyed, {Scalar(Moneyed, 5)})}
    \cup {Slot(List(IntT), Holding(List(IntT), <<Scalar(IntT, 2)>>)),
          Slot(PriceMap, Mapping(PriceMap, <<Scalar(TextT, 1)>>, <<Scalar(Moneyed, 5)>>)),
          Slot(SealedOf(TextT), TextSeal),
          Slot(Opt(SealedOf(TextT)), Holding(Opt(SealedOf(TextT)), <<TextSeal>>))}

PlainWants ==
    {Anything, BoolT, TextT, Opt(Moneyed), List(IntT), Opt(JsonT), PriceMap}

(* An id, alone and where it may not be: what the checker calls a customer *)
(* and what runs calls a number.                                           *)
Customer == Subject(IntT)

IdSlots == {Slot(Customer, Scalar(IntT, 7)), Slot(Opt(Customer), Holding(Opt(Customer), <<Scalar(IntT, 7)>>))}

(* A few of them, where no type is declared.                               *)
FewHeld == {s \in PlainSlots : s.type \in {IntT, TextT, Moneyed}} \cup IdSlots
NoWants == {Anything}

MCHeld == PlainSlots \cup IdSlots
MCWants == PlainWants \cup {Customer}
=============================================================================
