----------------------------- MODULE MCRedeploy -----------------------------
(* Programs for Redeploy: a shop's commands and what they refuse through a  *)
(* `fn`, folds that key through folds, and what effects and read models do. *)
EXTENDS Redeploy

Leaf(is, of)       == Node(is, of, [arg |-> <<>>])
Makes(is, of, args)   == Node(is, of, [arg |-> args])
With(is, of, fields) == Node(is, of, [field |-> fields])
Slotted(is, of, s) == Node(is, of, [slot |-> <<[slot |-> s]>>])
In(s)      == [slot |-> s]
Value(f, e) == Makes("f", f, <<e>>)
Str(x)     == Leaf("str", x)
Num(x)     == Leaf("int", x)
Param(p, s, t) == Node("p", p, [slot |-> <<In(s)>>, type |-> <<Leaf("type", t)>>])
Program(declares) == Node("program", "", [declares |-> declares])

Declares(f) == Node("f", f, [arg |-> <<Leaf("type", "Int"), Leaf("max", "1")>>])

Shop == Program(<<
    Node("subject", "shop", [id |-> <<Leaf("type", "Int")>>, under |-> <<>>]),
    Node("subject", "buyer", [id |-> <<Leaf("type", "Int")>>, under |-> <<Leaf("name", "shop")>>]),
    Node("event", "placed", [f |-> <<Declares("total"), Declares("id")>>]),
    Node("record", "line", [f |-> <<Declares("total"), Declares("id")>>]),
    Node("enum", "mood", [variant |-> <<Leaf("name", "sour"), Leaf("name", "good")>>,
                          default |-> <<Leaf("name", "good")>>]),
    Node("function", "deep", [p |-> <<>>, returns |-> <<Leaf("type", "Outcome")>>,
        body |-> <<Makes("return", "", <<Makes("reject", "", <<Str("late"), Str("1")>>)>>)>>]),
    Node("function", "check", [p |-> <<Param("id", 0, "Int"), Param("total", 1, "Int")>>,
        returns |-> <<Leaf("type", "Outcome")>>,
        body |-> <<Node("if", "", [arg |-> <<Makes("<", "", <<In(1), In(0)>>)>>,
                           then |-> <<Makes("return", "", <<Makes("fn", "deep", <<>>)>>)>>,
                           else |-> <<>>])>>]) >>)

Tally(s) == Node("held", "", [slot |-> <<In(s)>>, arg |-> <<Num("1")>>])
Takes(s, e) == Node("acc", "", [slot |-> <<In(s)>>, arg |-> <<e>>])

Place == Program(<<
    Node("command", "place", [p |-> <<Param("id", 0, "Int"), Param("total", 1, "Int")>>,
        now |-> <<In(2)>>,
        stage |-> <<Node("stage", "", [
            pre  |-> <<Node("set", "", [slot |-> <<In(3)>>, arg |-> <<In(1)>>])>>,
            held |-> <<Tally(4)>>,
            slice |-> <<Node("slice", "placed", [
                filter |-> <<Value("total", In(3)), Value("id", In(0))>>,
                bind   |-> <<Slotted("bind", "total", 5), Slotted("bind", "id", 6)>>,
                acc    |-> <<Takes(4, Makes("-", "", <<In(5), In(6)>>))>>])>>,
            post |-> <<
                Node("if", "", [arg |-> <<Makes("<", "", <<In(4), Num("1")>>)>>,
                    then |-> <<Makes("return", "", <<Makes("fn", "check", <<In(2)>>)>>)>>,
                    else |-> <<>>]),
                With("emit", "placed", <<Value("total", In(4)), Value("id", In(0))>>)>>])>>]),
    Node("function", "check", [p |-> <<Param("now", 0, "Int")>>,
        returns |-> <<Leaf("type", "Outcome")>>,
        body |-> <<Makes("return", "", <<Makes("reject", "", <<Str("late"), Str("1")>>)>>)>>]) >>)

Keyed(fold, p, arms) == Node("fold", fold, [p |-> <<Param("id", 0, "Int"), Param(p, 1, "Int")>>,
    returns |-> <<Leaf("type", "Int")>>,
    index |-> <<Makes("index", "", <<Leaf("name", p), Leaf("name", "id")>>)>>,
    env   |-> <<Slotted("env", "position", 9), Slotted("env", "at", 8)>>,
    stage |-> <<Node("stage", "", [held |-> <<Tally(2)>>, slice |-> arms])>>])

Seeks(fold, clause, s, e) == Node("lookup", fold,
    [slot |-> <<In(s)>>, a |-> <<Value("id", e)>>,
     part |-> IF clause = "" THEN <<>> ELSE <<Leaf("part", clause)>>])

Computes(p, e) == Node("computed", p, [arg |-> <<e>>, skip |-> <<Leaf("skip", "")>>])

Sales == Program(<<
    Keyed("units", "total", <<Node("slice", "placed", [
        lookup   |-> <<Seeks("genre", "total", 3, In(6)), Seeks("stock", "id", 4, In(7)),
                       Seeks("genre", "", 5, In(8))>>,
        computed |-> <<Computes("total", In(3)), Computes("id", In(4))>>,
        bind     |-> <<Slotted("bind", "total", 7), Slotted("bind", "id", 6)>>,
        acc      |-> <<Takes(2, In(5))>>])>>),
    Keyed("genre", "total", <<Node("slice", "placed", [
        lookup   |-> <<Seeks("state", "", 3, Num("1"))>>,
        acc      |-> <<Takes(2, In(3))>>])>>),
    Keyed("stock", "total", <<Node("slice", "placed", [acc |-> <<Takes(2, Num("1"))>>])>>),
    Keyed("state", "id", <<Node("slice", "placed", [acc |-> <<Takes(2, Num("1"))>>])>>) >>)

(* A fold keyed by a `fn` of what it folds, through another `fn`.          *)
Monthly == Program(<<
    Keyed("units", "total", <<Node("slice", "placed", [
        computed |-> <<Computes("id", Makes("fn", "check", <<In(6)>>))>>,
        bind     |-> <<Slotted("bind", "id", 6)>>,
        acc      |-> <<Takes(2, In(6))>>])>>),
    Keyed("genre", "total", <<Node("slice", "placed", [
        lookup   |-> <<Seeks("units", "", 3, In(6))>>,
        bind     |-> <<Slotted("bind", "id", 6)>>,
        acc      |-> <<Takes(2, In(3))>>])>>),
    Node("function", "check", [p |-> <<Param("id", 0, "Int")>>, returns |-> <<Leaf("type", "Int")>>,
        body |-> <<Makes("return", "", <<Makes("fn", "deep", <<In(0)>>)>>)>>]),
    Node("function", "deep", [p |-> <<Param("id", 0, "Int")>>, returns |-> <<Leaf("type", "Int")>>,
        body |-> <<Makes("return", "", <<Makes("-", "", <<In(0), Num("1")>>)>>)>>]) >>)

Http(x) == Makes("http", "post", <<Str(x)>>)

Mail == Program(<<
    Node("effect", "mail", [
        function |-> <<
            Node("function", "tell", [p |-> <<Param("id", 0, "Int")>>, returns |-> <<>>,
                body |-> <<Makes("discard", "", <<Http("late")>>)>>]),
            Node("function", "ask", [p |-> <<>>, returns |-> <<>>,
                body |-> <<Makes("discard", "", <<Http("good")>>)>>])>>,
        arm |-> <<
            Node("arm", "", [event |-> <<Leaf("name", "placed"), Leaf("name", "noted")>>,
                delivery |-> <<Leaf("name", "on")>>,
                key  |-> <<Leaf("name", "total"), Leaf("name", "id")>>,
                bind |-> <<Slotted("bind", "total", 1), Slotted("bind", "id", 0)>>,
                stage |-> <<Node("stage", "", [post |-> <<
                    Node("set", "", [slot |-> <<In(2)>>, arg |-> <<
                        With("invoke", "place", <<Value("total", In(1)), Value("id", In(0))>>)>>]),
                    Node("set", "", [slot |-> <<In(3)>>, arg |-> <<
                        With("obj", "", <<Value("total", Http("1")), Value("id", Makes("helper", "tell", <<In(2)>>))>>)>>])>>])>>]),
            Node("arm", "", [event |-> <<Leaf("name", "left")>>,
                delivery |-> <<Leaf("name", "latest")>>, key |-> <<Leaf("name", "id")>>,
                stage |-> <<Node("stage", "", [pre |-> <<Makes("erase", "buyer", <<Num("1")>>)>>])>>])>>]) >>)

Rows == Program(<<
    Node("projector", "rows", [
        enum   |-> <<>>,
        entity |-> <<Node("entity", "order", [
            col   |-> <<Declares("total"), Declares("id")>>,
            key   |-> <<Leaf("name", "total"), Leaf("name", "id")>>,
            index |-> <<Makes("index", "", <<Leaf("name", "total")>>),
                        Makes("index", "", <<Leaf("name", "total"), Leaf("name", "id")>>)>>])>>,
        handler |-> <<
            Node("handler", "placed", [
                bind |-> <<Slotted("bind", "total", 1), Slotted("bind", "id", 0)>>,
                body |-> <<
                    With("put", "order", <<Value("total", In(1)), Value("id", In(0))>>),
                    Node("for", "", [over |-> <<In(1)>>, index |-> <<In(2)>>, item |-> <<In(3)>>,
                        do |-> <<Node("patch", "order", [key |-> <<In(3), In(2)>>,
                            load  |-> <<Slotted("load", "total", 4), Slotted("load", "id", 5)>>,
                            field |-> <<Value("total", In(5)), Value("id", In(4))>>])>>])>>]),
            Node("handler", "left", [bind |-> <<Slotted("bind", "id", 0)>>,
                body |-> <<Node("delete", "order", [key |-> <<In(0), Num("1")>>])>>])>>]),
    Node("test", "late", [
        given  |-> <<With("given", "placed", <<Value("total", Num("1")), Value("id", Num("2"))>>)>>,
        setup  |-> <<Makes("secret", "token", <<Str("1")>>)>>,
        action |-> <<With("run", "place", <<Value("total", Num("1")), Value("id", Num("1"))>>)>>,
        expect |-> <<Node("row", "order", [key |-> <<Num("1")>>,
                                           field |-> <<Value("total", Num("1")), Value("id", Num("1"))>>]),
                     With("event-expected", "placed", <<Value("total", Num("2")), Value("id", Num("1"))>>)>>])>>)

MCDeployables == {Shop, Place, Sales, Monthly, Mail, Rows}
MonthlyOnly   == {Monthly}

MCTwin == ("1" :> "2") @@ ("late" :> "good") 

MCAlphabet == <<"1", "2", "ask", "at", "buyer", "check", "deep", "genre", "good", "id", "late", "left",
                "line", "mail", "mood", "noted", "order", "place", "placed", "position",
                "post", "rows", "shop", "sour", "state", "stock", "tell", "token", "total", "units">>

=============================================================================
