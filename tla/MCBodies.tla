------------------------------ MODULE MCBodies ------------------------------
(***************************************************************************)
(* The bodies `Bodies` is checked over.                                    *)
(***************************************************************************)
EXTENDS Bodies

Plainly == [uses |-> {}, does |-> {}]
Uses(x) == [uses |-> {x}, does |-> {}]
Does(word) == [uses |-> {}, does |-> {word}]

Do(what, e)       == [do |-> what, with |-> e]
Let(x, type, e)   == [do |-> "let", name |-> x, type |-> type, with |-> e]
IfElse(c, t, f)   == [do |-> "if", cond |-> c, then |-> t, otherwise |-> f]
Loop(x, body)     == [do |-> "for", name |-> x, with |-> Plainly, body |-> body]
Give(value, e)    == [do |-> "return", value |-> value, with |-> e]
Fold(x, seed, of) == [do |-> "fold", kind |-> "", name |-> x, type |-> "plain",
                      with |-> seed, filter |-> of]
Read(x, type, e)  == [do |-> "read", kind |-> "", name |-> x, type |-> type, with |-> e]
Guard(e)          == [do |-> "guard", kind |-> "", with |-> e]

Maybe      == [is |-> "maybe"]
Some(x)    == [is |-> "some", of |-> x]
None(x)    == [is |-> "none", of |-> x]
Not(c)     == [is |-> "not", cond |-> c]
And(l, r)  == [is |-> "and", left |-> l, right |-> r]
Or(l, r)   == [is |-> "or", left |-> l, right |-> r]

UpTo(S, n) == UNION {[1 .. k -> S] : k \in 0 .. n}
Of(kind, bodies) == {[kind |-> kind, body |-> b] : b \in bodies}

(* An arm that erases, reveals and fails, in every order branches, loops   *)
(* and stages allow.                                                       *)
Erases  == Do("erase", Plainly)
Tells   == Do("log", Does("reveal"))
Fails   == Do("fail", Plainly)

Branches == {<<>>, <<Erases>>, <<Tells>>, <<Fails>>, <<Erases, Fails>>}
Ends(b)  == b # <<>> /\ Last(b).do = "fail"
Ifs      == {IfElse(Maybe, t, f) : t, f \in Branches}
OpenIfs  == {s \in Ifs : ~(Ends(s.then) /\ Ends(s.otherwise))}
Loops(ifs) == {Loop("i", b) : b \in (Branches \ {<<>>}) \cup {<<Tells, Erases>>}
                                    \cup {<<s>> : s \in ifs}}
Reads(does) == {Read("s", "plain", [uses |-> {}, does |-> d]) : d \in does}

Arms(ifs, reads) ==
    LET atoms == {Erases, Tells} \cup reads
        any   == atoms \cup Ifs \cup Loops(ifs)
    IN  [1 .. 2 -> any] \cup {<<a, s, z>> : a \in atoms, s \in any, z \in atoms}

(* A local that may be empty, one that never is, and what uses them: tests *)
(* of every shape, early returns, folds, filters and guards.               *)
Tests == {Some("y"), None("y"), Not(Some("y")), Or(None("y"), Maybe),
          And(Some("y"), Maybe), Not(And(Some("y"), Maybe)), Or(Some("y"), Maybe)}
UseY  == Do("log", Uses("y"))
Slots == {UseY, Let("z", "plain", Uses("x")), Let("z", "plain", Uses("y")),
          Loop("z", <<UseY>>), Do("log", Uses("z")),
          Fold("z", Uses("x"), Plainly), Fold("z", Plainly, Uses("z")),
          Fold("w", Uses("z"), Plainly), Read("z", "opt", Uses("x")),
          Fold("w", Plainly, Uses("z")), Read("w", "plain", Uses("z"))}
            \cup {IfElse(t, <<UseY>>, <<>>) : t \in Tests}
            \cup {IfElse(t, <<>>, <<UseY>>) : t \in Tests}
            \cup {IfElse(t, <<Fails>>, <<>>) : t \in Tests}
            \cup {IfElse(Maybe, <<Let("z", "plain", Plainly)>>, <<>>)}

Locals == {<<Let("x", "plain", Plainly), Let("y", "opt", Plainly)>> \o b : b \in [1 .. 2 -> Slots]}
            \cup {<<Let("x", "plain", Plainly), s, t, Do("log", Uses("z"))>> : s, t \in Slots}

(* Every kind of declaration, and everything a statement may try in it.    *)
Kinds == {"command", "guard", "projector", "effect", "fn", "decides", "local", "void"}
Words == {{}} \cup {{w} : w \in {"reveal", "http", "secret", "invoke", "now", "helper"}}

Says(d) ==
    LET e == [uses |-> {}, does |-> d]
    IN  {Do(w, e) : w \in {"emit", "put", "log", "erase", "reject", "fail"}}
          \cup {Give(v, e) : v \in BOOLEAN} \cup {Let("x", "plain", e), Guard(e)}

Anywhere(s) == {<<s>>, <<s, Give(TRUE, Plainly)>>, <<Loop("i", <<s>>)>>,
                <<IfElse(Maybe, <<s>>, <<Fails>>)>>, <<IfElse(Maybe, <<s>>, <<Give(TRUE, Plainly)>>)>>}

Said == UNION {Of(k, UNION {Anywhere(s) : s \in UNION {Says(d) : d \in Words}}) : k \in Kinds}

AllPrograms ==
    Loaded(Said \cup Of("effect", Locals) \cup Of("effect", Arms(Ifs, Reads({{}, {"reveal"}}))))

(* Of these, arms where a fold's argument reveals, and arms with a loop    *)
(* between an erase and a reveal whose every turn ends the arm.            *)
RevealingReads == Loaded(Of("effect", Arms(OpenIfs, Reads({{}, {"reveal"}}))))
EndingLoops    ==
    Loaded(Of("effect", {<<Erases, Loop("i", <<s>>), Tells>> : s \in Ifs \ OpenIfs}))
=============================================================================
