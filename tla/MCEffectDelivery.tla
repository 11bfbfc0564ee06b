-------------------------- MODULE MCEffectDelivery --------------------------
(***************************************************************************)
(* Effects on EffectDelivery.  `notify` confirms an order to its shopper,  *)
(* twice if it is handled early, has a command note it, and forgets the    *)
(* shopper before a last call that tells nobody anything personal; its     *)
(* confirmation says how many notes its fold counts.  `close` forgets a    *)
(* whole shop, under whose key the shopper's is wrapped.                   *)
(***************************************************************************)
EXTENDS DurableDeliveries

Placed == "placed"
Closed == "closed"
Noted  == "noted"
Other  == "other"
Broken == "broken"

MCEvent   == {Placed, Closed, Noted, Other, Broken}
MCForeign == {Noted}
MCSubject == {"shopper", "shop"}
MCWraps(s) == IF s = "shopper" THEN {"shopper", "shop"} ELSE {"shop"}
MCReplies == {200, 400}

Notify == "notify"
Close  == "close"
Audit  == "audit"
Report == "report"

\* Each delivery is named for its effect, and is of one position.
OrderHistory  == <<Placed, Closed>>
OddHistory    == <<Placed, Broken, Other>>
MCAt(d) ==
  CASE d = Notify -> 0 [] d = Audit -> 0 [] d = Close -> 1 [] d = Report -> 2

MCBegins(d, e) ==
  CASE e = Other  -> "ignored"
    [] e = Broken -> "wedge"
    [] d = Notify -> "clock"
    [] OTHER      -> "body"

Does(what, on) == [does |-> what, on |-> on]

Notes(prefix) == Cardinality({i \in DOMAIN prefix : prefix[i] = Noted})

Early(made) == made[1].answer.now <= 2

Confirm(prefix) ==
  Does("http", IF Notes(prefix) = 0 THEN "first" ELSE "again")

\* What each body does when nothing makes it give up.
Plan(d, prefix, made) ==
  CASE d = Notify ->
         <<Does("reveal", "shopper"), Confirm(prefix)>>
           \o (IF Early(made) THEN <<Confirm(prefix)>> ELSE <<>>)
           \o <<Does("invoke", "Note"), Does("erase", "shopper"),
                Does("http", "bye")>>
    [] d = Close  -> <<Does("erase", "shop")>>
    [] d = Audit  -> <<Does("http", "audit"), Does("raise", "overflow")>>
    [] d = Report -> <<Does("http", "report")>>

GivesUp(made) ==
  \E i \in DOMAIN made : made[i].key.does = "http" /\ made[i].answer.status = 400

MCTurn(d, prefix, made) ==
  LET plan == Plan(d, prefix, made)
      next == IF d = Notify THEN Len(made) ELSE Len(made) + 1
  IN IF GivesUp(made) THEN Does("fail", "rejected")
     ELSE IF next <= Len(plan) THEN plan[next] ELSE Does("done", "")

\* `Note` notes once, and refuses the second time.
MCDecide(c, records) ==
  IF \E i \in DOMAIN records : records[i] = Noted
  THEN [flow |-> "reject", emits |-> <<>>]
  ELSE [flow |-> "ok", emits |-> <<Noted>>]

=============================================================================
