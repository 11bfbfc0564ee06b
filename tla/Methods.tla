------------------------------ MODULE Methods ------------------------------
(***************************************************************************)
(* What a method is given and gives back (`method_sig` of src/types.rs,    *)
(* which the checker asks), and what calling it comes to (`call_method` of *)
(* src/interp.rs, which looks at the values it finds). What a text or a    *)
(* document answers is any answer of its type.                             *)
(***************************************************************************)
EXTENDS Types

Sig(params, ret) == [params |-> params, ret |-> ret]
Anything  == Kind("unknown")          \* a parameter the table declares nothing for
NoMethod  == Sig(<<>>, Anything)

BoolT == Kind("Bool")
IntT  == Scaled("Int", 0)
TextT == Kind("String")
JsonT == Kind("Json")
MomentT == Kind("Timestamp")
UuidT == Kind("Uuid")

StringSig(m) ==
    CASE m \in {"trim", "lower", "upper"}          -> Sig(<<>>, TextT)
      [] m \in {"strip_prefix", "after_last"}      -> Sig(<<TextT>>, TextT)
      [] m = "len"                                 -> Sig(<<>>, IntT)
      [] m = "truncate"                            -> Sig(<<IntT>>, TextT)
      [] m = "is_empty"                            -> Sig(<<>>, BoolT)
      [] m \in {"contains", "starts_with"}         -> Sig(<<TextT>>, BoolT)
      [] m = "to_int"                              -> Sig(<<>>, Opt(IntT))
      [] m = "to_uuid"                             -> Sig(<<>>, Opt(UuidT))
      [] OTHER                                     -> NoMethod

Accessed(m) ==      \* what an accessor of a document answers an optional of
    CASE m \in {"string", "number"} -> TextT
      [] m = "int"   -> IntT
      [] m = "bool"  -> BoolT
      [] m = "json"  -> JsonT
      [] m = "array" -> List(JsonT)
      [] OTHER       -> Anything

JsonSig(m) == IF Accessed(m) = Anything THEN NoMethod ELSE Sig(<<TextT>>, Opt(Accessed(m)))

OptSig(inner, m) ==
    CASE m = "unwrap_or"              -> Sig(<<inner>>, inner)
      [] m \in {"is_some", "is_none"} -> Sig(<<>>, BoolT)
      [] m \in {"max", "min"} /\ Comparable(">", inner, inner) -> Sig(<<inner>>, inner)
      [] OTHER                        -> NoMethod

ListSig(list, m) ==
    LET inner == list.of[1]
    IN  CASE m = "first"               -> Sig(<<>>, Opt(inner))
          [] m \in {"push", "remove"}  -> Sig(<<inner>>, list)
          [] m = "contains"            -> Sig(<<inner>>, BoolT)
          [] m = "len"                 -> Sig(<<>>, IntT)
          [] m = "is_empty"            -> Sig(<<>>, BoolT)
          [] m = "sum" /\ ArithType("+", inner, inner) = inner -> Sig(<<>>, inner)
          [] m = "concat"              -> Sig(<<list>>, list)
          [] m = "distinct"            -> Sig(<<>>, list)
          [] OTHER                     -> NoMethod

MapSig(map, m) ==
    CASE m = "get"      -> Sig(<<map.of[1]>>, Opt(map.of[2]))
      [] m = "set"      -> Sig(<<map.of[1], map.of[2]>>, map)
      [] m = "remove"   -> Sig(<<map.of[1]>>, map)
      [] m = "contains" -> Sig(<<map.of[1]>>, BoolT)
      [] m = "keys"     -> Sig(<<>>, List(map.of[1]))
      [] m = "values"   -> Sig(<<>>, List(map.of[2]))
      [] m = "len"      -> Sig(<<>>, IntT)
      [] m = "is_empty" -> Sig(<<>>, BoolT)
      [] OTHER          -> NoMethod

MoneySig(money, m) ==
    CASE m = "mul" -> Sig(<<Anything, Kind("Rounding")>>, money)
      [] m = "div" -> Sig(<<IntT, Kind("Rounding")>>, money)
      [] OTHER     -> NoMethod

TimestampSig(m) ==
    CASE m \in {"year", "second"}    -> Sig(<<>>, IntT)
      [] m = "add_days"              -> Sig(<<IntT>>, MomentT)
      [] OTHER                       -> NoMethod

OutcomeSig(m) ==
    CASE m = "ok"                    -> Sig(<<>>, BoolT)
      [] m \in {"code", "message"}   -> Sig(<<>>, Opt(TextT))
      [] m = "refused"               -> Sig(<<TextT>>, BoolT)
      [] OTHER                       -> NoMethod

OwnSig(t, m) ==
    CASE t.is = "String"    -> StringSig(m)
      [] t.is = "Json"      -> JsonSig(m)
      [] t.is = "Opt"       -> OptSig(t.of[1], m)
      [] t.is = "List"      -> ListSig(t, m)
      [] t.is = "Map"       -> MapSig(t, m)
      [] t.is = "Money"     -> MoneySig(t, m)
      [] t.is = "Timestamp" -> TimestampSig(m)
      [] t.is = "Int" /\ m = "pad" -> Sig(<<IntT>>, TextT)
      [] t.is = "Outcome"   -> OutcomeSig(m)
      [] OTHER              -> NoMethod

(* The selection a comparison licenses, on any receiver that has no method *)
(* of the name already.                                                    *)
SelectSig(t, m) ==
    IF m \in {"max", "min"} /\ Comparable(">", t, t) THEN Sig(<<t>>, t) ELSE NoMethod

MethodSig(t, m) == IF OwnSig(t, m) # NoMethod THEN OwnSig(t, m) ELSE SelectSig(t, m)

---------------------------------------------------------------------------
(* Calling one, on the values that arrived.                                *)

Each(values) == {Good(v) : v \in values}
Only(v)   == {Good(v)}
Texts     == {Scalar(TextT, n) : n \in {0, 1}}
Truths    == {Truth(TRUE), Truth(FALSE)}
Counts    == {Scalar(IntT, n) : n \in {0, 1}}
Optional(t, values) == {NoneOf(t)} \cup {SomeOf(v) : v \in values}

(* A method that takes arguments of plain types, whatever they are.        *)
Taking(args, params, answers) ==
    IF Len(args) # Len(params) THEN {Failing("arity")}
    ELSE IF \E i \in DOMAIN args : args[i].type # params[i] THEN {Failing("mismatch")}
    ELSE answers

OnString(m, args) ==
    CASE m \in {"trim", "lower", "upper"} -> Taking(args, <<>>, Each(Texts))
      [] m = "len"                        -> Taking(args, <<>>, Each(Counts))
      [] m = "is_empty"                   -> Taking(args, <<>>, Each(Truths))
      [] m \in {"starts_with", "contains"} -> Taking(args, <<TextT>>, Each(Truths))
      [] m \in {"strip_prefix", "after_last"} -> Taking(args, <<TextT>>, Each(Texts))
      [] m = "truncate"                   -> Taking(args, <<IntT>>, Each(Texts))
      [] m = "to_int"  -> Taking(args, <<>>, Each(Optional(IntT, Counts)))
      [] m = "to_uuid" -> Taking(args, <<>>, Each(Optional(UuidT, {Scalar(UuidT, 0)})))
      [] OTHER         -> {Failing("method")}

OnMoney(held, m, args) ==
    LET takes == CASE m = "mul" -> "Decimal" [] m = "div" -> "Int" [] OTHER -> "none"
    IN  IF takes = "none" THEN {Failing("method")}
        ELSE IF Len(args) # 2 THEN {Failing("arity")}
        ELSE IF args[1].type.is # takes \/ args[2].type.is # "Rounding" THEN {Failing("argument")}
        ELSE {FromAmount(IF m = "mul" THEN MoneyMul(AmountOf(held), AmountOf(args[1]), "HalfUp")
                         ELSE MoneyDiv(AmountOf(held), AmountOf(args[1]), "HalfUp"))}

Pushed(list, v) ==
    LET fit == Fitted(v, list.type.of[1])
    IN  IF fit.raises # "no" THEN fit
        ELSE Good(Holding(list.type, Append(list.items, fit.value)))

Summed(list) ==
    LET inner == list.type.of[1]
    IN  IF inner.is \notin {"Int", "Decimal", "Money"} \/ \E i \in DOMAIN list.items : list.items[i].type # inner
        THEN Failing("malformed")
        ELSE FromAmount(Sum(Bare(inner.is, inner.scale),
                            [i \in DOMAIN list.items |-> AmountOf(list.items[i])]))

Joined(list, tail) ==
    IF tail.type.is # "List" THEN Failing("malformed")
    ELSE LET push(list1, v) == IF list1.raises # "no" THEN list1 ELSE Pushed(list1.value, v)
         IN  FoldLeft(push, Good(list), tail.items)

Distinct(list) ==
    LET keep(kept, v) == IF Contains(kept, v) THEN kept ELSE Append(kept, v)
    IN  Holding(list.type, FoldLeft(keep, <<>>, list.items))

ListArity(m) == IF m \in {"contains", "push", "concat", "remove"} THEN 1 ELSE 0

OnList(list, m, args) ==
    IF m \notin {"len", "is_empty", "contains", "first", "push", "sum", "concat", "distinct", "remove"}
    THEN {Failing("method")}
    ELSE IF Len(args) # ListArity(m) THEN {Failing("arity")}
    ELSE CASE m = "len"      -> Only(Scalar(IntT, Len(list.items)))
           [] m = "is_empty" -> Only(Truth(list.items = <<>>))
           [] m = "contains" -> Only(Truth(Contains(list.items, args[1])))
           [] m = "first"    -> Only(IF list.items = <<>> THEN NoneOf(list.type.of[1])
                                     ELSE SomeOf(list.items[1]))
           [] m = "push"     -> {Pushed(list, args[1])}
           [] m = "sum"      -> {Summed(list)}
           [] m = "concat"   -> {Joined(list, args[1])}
           [] m = "distinct" -> Only(Distinct(list))
           [] m = "remove"   -> LET others(v) == v # args[1]
                                IN  Only(Holding(list.type, SelectSeq(list.items, others)))

Keyable == {"Int", "String", "Uuid", "Timestamp", "Enum"}

(* A map without a key, and with it set; keys stay in their order.         *)
Unset(map, key) ==
    LET kept == SelectSeq([i \in DOMAIN map.keys |-> i], LAMBDA i : map.keys[i] # key)
    IN  Mapping(map.type, [i \in DOMAIN kept |-> map.keys[kept[i]]],
                          [i \in DOMAIN kept |-> map.items[kept[i]]])

Set(map, key, v) ==
    LET rest   == Unset(map, key)
        before == Cardinality({i \in DOMAIN rest.keys : rest.keys[i].units < key.units})
    IN  Mapping(map.type, InsertAt(rest.keys, before + 1, key), InsertAt(rest.items, before + 1, v))

Found(map, key) == {i \in DOMAIN map.keys : map.keys[i] = key}

MapArity(m) == CASE m \in {"contains", "get", "remove"} -> 1 [] m = "set" -> 2 [] OTHER -> 0

OnMap(map, m, args) ==
    IF m \notin {"len", "is_empty", "contains", "get", "set", "remove", "keys", "values"}
    THEN {Failing("method")}
    ELSE IF Len(args) # MapArity(m) THEN {Failing("arity")}
    ELSE IF MapArity(m) > 0 /\ args[1].type.is \notin Keyable THEN {Failing("key")}
    ELSE CASE m = "len"      -> Only(Scalar(IntT, Len(map.items)))
           [] m = "is_empty" -> Only(Truth(map.items = <<>>))
           [] m = "contains" -> Only(Truth(Found(map, args[1]) # {}))
           [] m = "get"      -> IF Found(map, args[1]) = {} THEN Only(NoneOf(map.type.of[2]))
                                ELSE {Good(SomeOf(map.items[i])) : i \in Found(map, args[1])}
           [] m = "set"      -> LET fit == Fitted(args[2], map.type.of[2])
                                IN  IF fit.raises # "no" THEN {fit}
                                    ELSE Only(Set(map, args[1], fit.value))
           [] m = "remove"   -> Only(Unset(map, args[1]))
           [] m = "keys"     -> Only(Holding(List(map.type.of[1]), map.keys))
           [] m = "values"   -> Only(Holding(List(map.type.of[2]), map.items))

OnOpt(opt, m, args) ==
    LET inner == opt.type.of[1]
    IN  CASE m = "is_some" -> Taking(args, <<>>, Only(Truth(opt.items # <<>>)))
          [] m = "is_none" -> Taking(args, <<>>, Only(Truth(opt.items = <<>>)))
          [] m \in {"unwrap_or", "max", "min"} ->
                IF Len(args) # 1 THEN {Failing("arity")}
                ELSE IF ~HasType(args[1], inner) THEN {Failing("mismatch")}
                ELSE IF m = "unwrap_or" THEN Only(IF opt.items = <<>> THEN args[1] ELSE opt.items[1])
                ELSE IF opt.items # <<>> THEN {Selected(m, opt.items[1], args[1])}
                ELSE IF Orders(args[1], args[1]) THEN Only(args[1])
                ELSE {Failing("method")}
          [] OTHER -> {Failing("method")}

OnJson(m, args) ==
    IF Accessed(m) = Anything THEN {Failing("method")}
    ELSE Taking(args, <<TextT>>,
                Each(Optional(Accessed(m),
                                 {IF Accessed(m).is = "List"
                                  THEN Holding(Accessed(m), <<Scalar(JsonT, 0)>>)
                                  ELSE Scalar(Accessed(m), 1)})))

OnTimestamp(held, m, args) ==
    CASE m \in {"year", "second"} -> Taking(args, <<>>, Each(Counts))
      [] m = "add_days" ->
            Taking(args, <<IntT>>,
                   {LET moved == Fit(held.units + args[1].units)
                    IN  IF moved.raises = "no" THEN Good(Scalar(MomentT, moved.units))
                        ELSE Failing("overflow")})
      [] OTHER -> {Failing("method")}

OnOutcome(m, args) ==
    CASE m = "ok"                  -> Taking(args, <<>>, Each(Truths))
      [] m \in {"code", "message"} -> Taking(args, <<>>, Each(Optional(TextT, Texts)))
      [] m = "refused"             -> Taking(args, <<TextT>>, Each(Truths))
      [] OTHER                     -> {Failing("method")}

MaxPad == MaxUnits \div 2             \* MAX_PAD

OnInt(m, args) ==
    IF m # "pad" THEN {Failing("method")}
    ELSE Taking(args, <<IntT>>,
                IF args # <<>> /\ args[1].units > MaxPad THEN {Failing("pad")} ELSE Each(Texts))

CallMethod(held, m, args) ==
    LET is == held.type.is
    IN  IF m \in {"max", "min"} /\ is # "Opt"
        THEN IF Len(args) # 1 THEN {Failing("arity")} ELSE {Selected(m, held, args[1])}
        ELSE CASE is = "String"    -> OnString(m, args)
               [] is = "Money"     -> OnMoney(held, m, args)
               [] is = "List"      -> OnList(held, m, args)
               [] is = "Map"       -> OnMap(held, m, args)
               [] is = "Opt"       -> OnOpt(held, m, args)
               [] is = "Json"      -> OnJson(m, args)
               [] is = "Timestamp" -> OnTimestamp(held, m, args)
               [] is = "Int"       -> OnInt(m, args)
               [] is = "Outcome"   -> OnOutcome(m, args)
               [] OTHER            -> {Failing("method")}
=============================================================================
