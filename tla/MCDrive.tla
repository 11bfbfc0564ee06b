------------------------------- MODULE MCDrive -------------------------------
(***************************************************************************)
(* An effect on Drive.  `publish` is `on latest` over edits, keyed by      *)
(* shop; `bill` is a plain arm on orders whose command emits an edit of    *)
(* the shop or a further order, so an order may set off orders for ever.   *)
(***************************************************************************)
EXTENDS Drive

CONSTANT Longest   \* bound: how long a backlog may be

Edit(shop)  == [path |-> "edit", shop |-> shop]
Order(shop) == [path |-> "order", shop |-> shop]
Note        == [path |-> "note", shop |-> "one"]

Shops   == {"one", "two"}

\* `none` names no shop: a key field that holds something else.
MCEvent == {Edit(s) : s \in Shops \cup {"none"}}
             \cup {Order("one"), Order("none"), Note}

MCArms     == {"publish", "bill"}
MCArmOf(e) ==
  CASE e.path = "edit"  -> "publish"
    [] e.path = "order" -> "bill"
    [] OTHER            -> "no arm"
MCLatest(a)   == a = "publish"
MCReadable(e) == e.shop # "none"
MCLane(e)     == e.shop

MCAppends(e) ==
  IF e.path = "order"
  THEN {<<>>, <<Order("one")>>, <<Edit("one"), Note>>}
  ELSE {<<>>}

MCBacklogs == UNION {[1 .. n -> MCEvent] : n \in 0 .. Longest}
=============================================================================
