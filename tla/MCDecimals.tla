----------------------------- MODULE MCDecimals -----------------------------
(* Eight bits for sixty-four and sixteen for a hundred and twenty-eight:   *)
(* two places fit, as eighteen do there. Amounts about zero, about a half  *)
(* of every divisor, and at the edge of the width.                         *)
EXTENDS Decimals

MCAmounts ==
    {[is |-> t.is, scale |-> t.scale, units |-> u] :
        t \in {Bare("Int", 0)} \cup {Bare(is, s) : is \in {"Decimal", "Money"}, s \in 0 .. MaxScale},
        u \in {-128, -127, -51, -50, -15, -10, -3, -2, -1, 0, 1, 2, 3, 5, 10, 25, 49, 50, 100, 127}}
=============================================================================
