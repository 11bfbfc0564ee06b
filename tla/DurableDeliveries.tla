-------------------------- MODULE DurableDeliveries --------------------------
(***************************************************************************)
(* How EffectDelivery implements DurableEffects: of the many deliveries of *)
(* a position, what the furthest of them learned is what its one run       *)
(* learned, and the answer its cursor moved on is how that run ended.      *)
(***************************************************************************)
EXTENDS EffectDelivery

\* What the furthest delivery came to next.
Furthest(d) == Turn(d, Prefix(d), best[d])

\* ... as the world is asked for it.
NextCall(d) ==
  [key |-> Furthest(d), ordinal |-> Ordinal(best[d], Furthest(d))]

AskedFurthest(d) == \E i \in DOMAIN performed[d] : performed[d][i] = NextCall(d)

\* The world was asked for the next call of the run.
AskedNext == [d \in Delivery |-> AskedFurthest(d)]

\* How a run ended, once the cursor is past it.
Outcomes == [d \in Delivery |-> IF pc[d] = "over" THEN answer[d] ELSE "none"]

Durable == INSTANCE DurableEffects WITH
  made <- best, asked <- AskedNext, outcome <- Outcomes

\* However often it is delivered, a position's body has run once.
DeliveriesAreDurable == Durable!Spec
=============================================================================
