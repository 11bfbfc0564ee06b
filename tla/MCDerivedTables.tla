--------------------------- MODULE MCDerivedTables ---------------------------
(* Programs for DerivedTables: orders of a shop with arms that pin and      *)
(* arms that range, queues whose kind is fixed by the arm, and sales       *)
(* counted by what they read through other folds.                          *)
EXTENDS DerivedTables, TLC

none == "none"

MCKeysOf(table) ==
    CASE table = "orders" -> {"s1", "s2"} \X {"o1", "o2"}
      [] table = "queues" -> {"new", "old"} \X {"s1", "s2"}
      [] table = "games"  -> {<<"g1">>, <<"g2">>}
      [] table = "genres" -> {<<"r1">>, <<"r2">>}
      [] table = "states" -> {<<"on">>, <<"off">>}

Arm(on, where, gates, keys, lookups, gives) ==
    [on |-> on, where |-> where, gates |-> gates, keys |-> keys,
     lookups |-> lookups, gives |-> gives]

By(field, p) == [field |-> field, is |-> Part(p)]
Plain(on, where, gives) == Arm(on, where, <<>>, <<>>, <<>>, Const(gives))

OrderTables == [
    Total  |-> [table |-> "orders", arms |-> <<
        Plain("placed", <<By("shop", 1), By("order", 2)>>, "on")>>],
    Closed |-> [table |-> "orders", arms |-> <<
        Plain("placed", <<By("shop", 1), By("order", 2)>>, "off"),
        Plain("left", <<By("shop", 1)>>, "on")>>],
    Seen   |-> [table |-> "orders", arms |-> <<
        Plain("placed", <<By("shop", 1)>>, "off"),
        Plain("placed", <<By("shop", 1), By("order", 2)>>, "on")>>],
    Marks  |-> [table |-> "orders", arms |-> <<
        Plain("left", <<By("shop", 1)>>, "on"),
        Plain("placed", <<By("order", 2)>>, "off")>>]]

States == [
    Total  |-> OrderTables.Total,
    Closed |-> OrderTables.Closed,
    States |-> [table |-> "states", arms |-> <<
        Arm("edited", <<>>, <<>>, 1 :> [is |-> Read(1), skip |-> TRUE],
            <<[fold |-> "Closed", args |-> <<Field("shop"), Field("order")>>]>>,
            Const("on"))>>]]

Queues == [
    Open  |-> [table |-> "queues", arms |-> <<
        Arm("placed", <<By("shop", 2)>>, 1 :> "new", <<>>, <<>>, Field("order")),
        Arm("left", <<>>, 1 :> "old", <<>>, <<>>, Const("off")),
        Arm("placed", <<By("kind", 1), By("shop", 2)>>, 1 :> "old", <<>>, <<>>, Field("order"))>>]]

Sales == [
    Genre |-> [table |-> "games", arms |-> <<
        Arm("tagged", <<By("game", 1)>>, <<>>, <<>>, <<>>, Field("genre"))>>],
    Units |-> [table |-> "genres", arms |-> <<
        Arm("sold", <<>>, <<>>, 1 :> [is |-> Read(1), skip |-> TRUE],
            <<[fold |-> "Genre", args |-> <<Field("game")>>]>>, Field("game")),
        Arm("tagged", <<>>, <<>>, 1 :> [is |-> Read(1), skip |-> TRUE],
            <<[fold |-> "Genre", args |-> <<Field("game")>>]>>, Field("game"))>>],
    Chain |-> [table |-> "games", arms |-> <<
        Arm("sold", <<By("game", 1)>>, <<>>, <<>>,
            <<[fold |-> "Genre", args |-> <<Field("game")>>],
              [fold |-> "Units", args |-> <<Read(1)>>]>>, Read(2))>>]]

Event(type, with) == [type |-> type, with |-> with]

MCEvents(deployed) ==
    LET placed == {Event("placed", [shop |-> s, order |-> o, kind |-> k]) :
                    s \in {"s1", "s2"}, o \in {"o1", "o2"}, k \in {"new", "old"}}
        left   == {Event("left", [shop |-> s]) : s \in {"s1", "s2"}}
        edited == {Event("edited", [shop |-> "s1", order |-> o]) : o \in {"o1", "o2"}}
        tagged == {Event("tagged", [game |-> "g1", genre |-> r]) : r \in {"r1", "r2", none}}
                    \cup {Event("tagged", [game |-> "g2", genre |-> "r1"])}
        sold   == {Event("sold", [game |-> g]) : g \in {"g1", none}}
        plain  == {e \in placed : e.with.kind = "new"}
        lone   == {e \in plain : e.with.shop = "s1" \/ e.with.order = "o1"}
    IN  CASE deployed = OrderTables -> lone \cup left
          [] deployed = States -> {e \in plain : e.with.shop = "s1"} \cup left \cup edited
          [] deployed = Queues -> {e \in placed : e.with.order = "o1"} \cup left
          [] deployed = Sales  -> tagged \cup sold

(* One column or two are rebuilt over a shadow of what that takes, and one *)
(* with but the keys of what it did not ask for.                           *)
MCWays(deployed, asked) ==
    {way \in {"shadow"} : Cardinality(asked) < 3} \cup {way \in {"keys"} : Cardinality(asked) = 1}

MCPrograms == {OrderTables, States, Queues, Sales}
LookingUp  == {States, Sales}
=============================================================================
