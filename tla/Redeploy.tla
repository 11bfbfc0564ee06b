------------------------------ MODULE Redeploy ------------------------------
(***************************************************************************)
(* A program deployed again after its author moved things about in it or   *)
(* changed it, and what its digest says of the two. What a declaration     *)
(* does is reckoned here without the digest: every path through a body,    *)
(* as what it calls, emits, writes and answers in order, every slot seen   *)
(* through to what was put in it.                                          *)
(***************************************************************************)
EXTENDS Digest

CONSTANTS
    Deployables,   \* the programs deployed at first
    Twin,          \* name :> the name an edit puts for it
    MaxSteps       \* the most changes between two deployments

VARIABLES
    was,           \* the program deployed
    now,           \* the program as the author has it
    packed,        \* its entries, and its tests
    steps,
    respelled      \* nothing but respelled, so far

deployVars == <<was, now, packed, steps, respelled>>

---------------------------------------------------------------------------
(* What is done. A value is what it is made of, named fields told by their *)
(* names; what a call answers is known by how many were made before it.    *)

(* A binding is known by how many are about it.                            *)
SlotsAmong(nodes) == {x.slot : x \in Range(nodes)}
Iterating(n, env) ==
    [s \in SlotsAmong(Listing(n, "item")) |-> [item |-> Cardinality(DOMAIN env)]]
        @@ [s \in SlotsAmong(Listing(n, "index")) |-> [index |-> Cardinality(DOMAIN env)]] @@ env

LoadedFrom(nodes, env, as) ==
    [s \in {n.lists.slot[1].slot : n \in Range(nodes)} |->
        [from |-> as, of |-> (CHOOSE n \in Range(nodes) : n.lists.slot[1].slot = s).of]] @@ env

ByPlace(n) == Listing(n, "key") \o Listing(n, "over") \o Listing(n, "when") \o Listing(n, "arg")
Fields(n)  == Listing(n, "field") \o Listing(n, "a")

ValueMade(n, got) ==
    LET made == [is |-> n.is, of |-> n.of, args |-> SubSeq(got.all, 1, Len(ByPlace(n))),
                 with |-> [name \in {f.of : f \in Range(Fields(n))} |->
                    got.all[Len(ByPlace(n)) + (CHOOSE i \in DOMAIN Fields(n) : Fields(n)[i].of = name)]]]
    IN  IF n.is \in CallsOut THEN [v |-> [answer |-> Len(got.log)], log |-> Append(got.log, made)]
        ELSE [v |-> made, log |-> got.log]

RECURSIVE Valued(_, _, _)
ValuedAll(nodes, env, log) ==
    FoldLeft(LAMBDA got, n : LET one == Valued(n, env, got.log)
                             IN  [all |-> Append(got.all, one.v), log |-> one.log],
             [all |-> <<>>, log |-> log], nodes)
Valued(n, env, log) ==
    IF IsSlot(n)
    THEN [v |-> IF n.slot \in DOMAIN env THEN env[n.slot] ELSE [unset |-> "slot"], log |-> log]
    ELSE ValueMade(n, ValuedAll(ByPlace(n) \o Fields(n), Iterating(n, env), log))

(* A path of a body so far: the slots, what was done, whether it answered. *)
Walk(env, log) == [env |-> env, log |-> log, ended |-> FALSE]

(* The reading between the halves of a stage: every accumulator, and every *)
(* arm of them. A looked-up column is that fold's, under that key.         *)
Kept(n) == [i \in DOMAIN Listing(n, "held") |-> Listing(n, "held")[i].lists.slot[1].slot]
HeldFrom(n, env) ==
    [s \in Range(Kept(n)) |-> [held |-> CHOOSE i \in DOMAIN Kept(n) : Kept(n)[i] = s]] @@ env

Filling(env, l) == (l.lists.slot[1].slot :> Valued(l, env, <<>>).v) @@ env

Armed(n, env) ==
    LET parts == Listing(n, "filter") \o Listing(n, "keyed") \o Listing(n, "computed")
    IN  [on |-> n.of,
         where |-> {<<p.is, p.of, Listing(p, "skip"), Valued(p, env, <<>>).v>> : p \in Range(parts)},
         gives |-> [i \in DOMAIN Listing(n, "acc") |->
            ValuedAll(Listing(Listing(n, "acc")[i], "slot") \o Listing(Listing(n, "acc")[i], "arg"),
                      env, <<>>).all]]

SliceMeans(n, env) ==
    Armed(n, FoldLeft(Filling, LoadedFrom(Listing(n, "bind"), env, "event"), Listing(n, "lookup")))

Staging(n, w) ==
    {[w EXCEPT !.env = env,
               !.log = Append(@, [inits |-> ValuedAll(Listing(n, "held"), w.env, <<>>).all,
                                  arms  |-> [i \in DOMAIN Listing(n, "slice") |->
                                                SliceMeans(Listing(n, "slice")[i], env)]])] :
        env \in {HeldFrom(n, w.env)}}

RECURSIVE Traces(_, _)
Taken(n, w, did) ==
    LET said(as) == [w EXCEPT !.log = Append(did.log, [did |-> did.v, as |-> as])]
    IN  CASE n.is = "stage" -> Staging(n, w)
          [] n.is = "set"   -> {[w EXCEPT !.env = (n.lists.slot[1].slot :> did.v.args[1]) @@ @,
                                          !.log = did.log]}
          [] n.is = "if"    -> Traces(Listing(n, "then"), {said("true")})
                                  \cup Traces(Listing(n, "else"), {said("false")})
          [] n.is = "for"   -> Traces(Listing(n, "do"),
                                      {[said("each") EXCEPT !.env = Iterating(n, @)]})
          [] OTHER -> {[said("done") EXCEPT !.ended = n.is = "return"]}

Step(n, w) ==
    IF w.ended THEN {w}
    ELSE UNION {Taken(n, w, did) :
                did \in {Valued(n, LoadedFrom(Listing(n, "load"), w.env, "column"), w.log)}}

Traces(body, walks) == FoldLeft(LAMBDA ws, n : UNION {Step(n, w) : w \in ws}, walks, body)

---------------------------------------------------------------------------
(* What each declaration does.                                             *)

(* What a frame begins with: parameters, what its event is, the time. A    *)
(* `fn` is asked by place, and everything else by name.                    *)
Asks(n) ==
    [i \in DOMAIN Listing(n, "p") |->
        <<IF n.is = "function" THEN "" ELSE Listing(n, "p")[i].of, Listing(n, "p")[i].lists.type>>]

Begins(n) ==
    [s \in Range(ParamSlots(n)) |->
        LET i == CHOOSE j \in DOMAIN ParamSlots(n) : ParamSlots(n)[j] = s
        IN  [param |-> i, of |-> Asks(n)[i][1]]]
    @@ [s \in SlotsAmong(Listing(n, "now")) |-> [clock |-> "now"]]
    @@ LoadedFrom(Listing(n, "bind"), LoadedFrom(Listing(n, "env"), <<>>, "envelope"), "event")

(* The stages one after the other, with the reading between the halves of  *)
(* each, and the body. A test is what it gives, runs and expects.          *)
Halves(stage) == Listing(stage, "pre") \o <<stage>> \o Listing(stage, "post")
Sequel(n) ==
    FlattenSeq([i \in DOMAIN Listing(n, "stage") |-> Halves(Listing(n, "stage")[i])])
        \o Listing(n, "body") \o Listing(n, "given") \o Listing(n, "action") \o Listing(n, "expect")
Performs(n) == {w.log : w \in Traces(Sequel(n), {Walk(Begins(n), <<>>)})}

ReadModel(n) ==
    {<<Range(Listing(e, "col")), Listing(e, "key"), Range(Listing(e, "index"))>> :
        e \in Range(Listing(n, "entity"))}
Lane(arm) == <<Range(Listing(arm, "event")), Listing(arm, "delivery"), Listing(arm, "key")>>

(* Every fold a fold's column follows from: whatever set of them holds     *)
(* what it looks up, and what those do, has it.                            *)
FollowsFrom(program, n) ==
    LET folds == {f \in Range(Listing(program, "declares")) : f.is = "fold"}
        holds(S) == {f.of : f \in S}
    IN  {f \in folds : \A S \in SUBSET folds :
            LooksUp(n) \subseteq holds(S) /\ (\A g \in S : LooksUp(g) \subseteq holds(S)) => f \in S}

Framed(program, n) ==
    CASE n.is = "fold" -> {n} \cup FollowsFrom(program, n)
      [] n.is \in {"function", "command", "test"} -> {n}
      [] OTHER -> Range(Listing(n, "handler") \o Listing(n, "function") \o Listing(n, "arm"))

Itself(program, n) ==
    [body |-> {<<m.of, Lane(m), Asks(m), Listing(m, "returns"), Listing(m, "index"), Performs(m)>> :
                m \in Framed(program, n)},
     says |-> Range(Listing(n, "f") \o Listing(n, "variant")),
     beside |-> <<Listing(n, "default"), Listing(n, "under"), Listing(n, "id")>>,
     rows |-> ReadModel(n)]

(* The places of a tree: lists of <<role, index>>, from the top.           *)
RECURSIVE Places(_)
Places(n) ==
    {<<>>} \cup
        (IF IsSlot(n) THEN {}
         ELSE UNION {UNION {{<<<<role, i>>>> \o p : p \in Places(n.lists[role][i])} :
                            i \in DOMAIN n.lists[role]} : role \in DOMAIN n.lists})

RECURSIVE At(_, _)
At(n, place) ==
    IF place = <<>> THEN n ELSE At(n.lists[place[1][1]][place[1][2]], Tail(place))

(* The `fn`s a declaration calls, and those that they do: whatever set of  *)
(* them holds what it calls, and what its own do, has it.                  *)
CallsMade(n) == {At(n, p).of : p \in {q \in Places(n) : ~IsSlot(At(n, q)) /\ At(n, q).is = "fn"}}
CallsThrough(program, n) ==
    LET fns == {f \in Range(Listing(program, "declares")) : f.is = "function"}
        names(S) == {f.of : f \in S}
        direct(S) == UNION {CallsMade(m) : m \in S} \cap names(fns)
    IN  {f \in fns : \A S \in SUBSET fns :
            direct(Framed(program, n)) \subseteq names(S) /\ direct(S) \subseteq names(S) => f \in S}

(* What a declaration comes to: what it does, and what the `fn`s it calls  *)
(* do.                                                                     *)
Meaning(program, n) ==
    [itself |-> Itself(program, n),
     called |-> {<<f.of, Itself(program, f)>> : f \in CallsThrough(program, n)}]

---------------------------------------------------------------------------
(* What an author does.                                                    *)

RECURSIVE Putting(_, _, _)
Putting(n, place, new) ==
    IF place = <<>> THEN new
    ELSE [n EXCEPT !.lists[place[1][1]][place[1][2]] = Putting(@, Tail(place), new)]

Swapped(list, i) == [list EXCEPT ![i] = list[i + 1], ![i + 1] = list[i]]

(* The lists whose order says nothing, where nothing in them calls out.    *)
Unordered(n) ==
    CASE n.is = "program" -> {"declares"}
      [] n.is \in {"event", "record"} -> {"f"}
      [] n.is = "enum" -> {"variant"}
      [] n.is = "projector" -> {"enum", "entity", "handler"}
      [] n.is = "entity" -> {"col", "index"}
      [] n.is = "effect" -> {"function", "arm"}
      [] n.is \in {"handler", "arm", "fold"} -> {"bind", "env", "event"}
      [] n.is = "slice" -> {"filter", "keyed", "computed", "bind"}
      [] n.is \in {"patch", "update"} -> {"load", "field"}
      [] OTHER -> {"field"}

Silent(nodes) ==
    \A i \in DOMAIN nodes : \A p \in Places(nodes[i]) :
        IsSlot(At(nodes[i], p)) \/ At(nodes[i], p).is \notin CallsOut

(* Lookups of two clauses may trade places; those of one are a chain.      *)
Trade(n, role, i) ==
    \/ role \in Unordered(n) /\ (role # "field" \/ Silent(n.lists[role]))
    \/ /\ n.is = "slice" /\ role = "lookup"
       /\ \A j \in {i, i + 1} : Clause(n.lists[role][j]) # ""
       /\ Clause(n.lists[role][i]) # Clause(n.lists[role][i + 1])

Swaps(n) ==
    UNION {UNION {{<<p, role, i>> : i \in 1 .. Len(At(n, p).lists[role]) - 1} :
                  role \in DOMAIN At(n, p).lists} :
           p \in {q \in Places(n) : ~IsSlot(At(n, q))}}

SwapAt(n, swap) ==
    Putting(n, swap[1], [At(n, swap[1]) EXCEPT !.lists[swap[2]] = Swapped(@, swap[3])])

(* A frame laid out anew: two of its slots for one another.                *)
RECURSIVE Laid(_, _, _)
Laid(n, a, b) ==
    IF IsSlot(n) THEN [slot |-> CASE n.slot = a -> b [] n.slot = b -> a [] OTHER -> n.slot]
    ELSE [n EXCEPT !.lists = [role \in DOMAIN @ |->
                                [i \in DOMAIN @[role] |-> Laid(@[role][i], a, b)]]]

Respelling(n) ==
    {SwapAt(n, s) : s \in {t \in Swaps(n) : Trade(At(n, t[1]), t[2], t[3])}}
        \cup UNION {{Putting(n, p, Laid(At(n, p), 0, b)) : b \in 1 .. 3} :
                    p \in {q \in Places(n) : ~IsSlot(At(n, q)) /\ At(n, q).is \in Frames}}

Edited(n) ==
    {SwapAt(n, s) : s \in {t \in Swaps(n) : ~Trade(At(n, t[1]), t[2], t[3])}}
        \cup {Putting(n, p, [At(n, p) EXCEPT !.of = Twin[@]]) :
                p \in {q \in Places(n) : ~IsSlot(At(n, q)) /\ At(n, q).of \in DOMAIN Twin}}

DeployInit ==
    /\ was \in Deployables
    /\ now = was
    /\ packed = DigestWithTests(was)
    /\ steps = 0
    /\ respelled = TRUE

Respell ==
    /\ steps < MaxSteps
    /\ now' \in Respelling(now)
    /\ packed' = DigestWithTests(now')
    /\ steps' = steps + 1
    /\ UNCHANGED <<was, respelled>>

Edit ==
    /\ steps < MaxSteps
    /\ now' \in Edited(now)
    /\ packed' = DigestWithTests(now')
    /\ steps' = steps + 1
    /\ respelled' = FALSE
    /\ UNCHANGED was

DeployNext == Respell \/ Edit

DeploySpec == DeployInit /\ [][DeployNext]_deployVars

---------------------------------------------------------------------------
(* Properties.                                                             *)

(* What was deployed, as it was packed and by what it does.                *)
PackedAtFirst == [program \in Deployables |-> DigestWithTests(program)]
DoneAtFirst ==
    [program \in Deployables |->
        [n \in Range(Listing(program, "declares")) |-> Meaning(program, n)]]

Entry(entries, n) == CHOOSE e \in Range(entries) : e.head = n.is /\ e.of = n.of

(* Both deployments' declarations of one kind and name, but for those that *)
(* are as they were and say nothing of another.                            *)
Lasting ==
    {<<old, new>> \in Range(Listing(was, "declares")) \X Range(Listing(now, "declares")) :
        /\ old.is = new.is /\ old.of = new.of
        /\ old # new \/ old.is \in {"fold", "command"} \/ CallsMade(old) # {}}

(* Moving about what has no order, and laying a frame out anew, moves no   *)
(* hash: not of an entry, of the program, or of its tests.                 *)
RespellingsPackAlike == now # was /\ respelled => packed = PackedAtFirst[was]

Holds(both) == Entry(packed, both[2]) = Entry(PackedAtFirst[was], both[1])

(* A declaration that does something else has another hash, the fold that  *)
(* keys through a changed fold included; and one that keeps its hash and   *)
(* comes to something else calls a `fn` whose own hash is another.         *)
NoChangeIsMissed ==
    now # was =>
        \A both \in {pair \in Lasting : Holds(pair)} :
            LET first == DoneAtFirst[was][both[1]]
                means == Meaning(now, both[2])
            IN  /\ means.itself = first.itself
                /\ means # first =>
                      \E f \in CallsThrough(now, both[2]) :
                          Entry(packed, f) \notin Range(PackedAtFirst[was])

(* "Editing a looked-up fold's arms changes the dependent's values and a   *)
(* catalog that said `UpToDate` would serve a column that is silently      *)
(* wrong" (src/digest.rs): a declaration that keeps its hash comes to what *)
(* it came to.                                                             *)
UpToDateIsSo ==
    now # was =>
        \A both \in {pair \in Lasting : Holds(pair)} :
            Meaning(now, both[2]) = DoneAtFirst[was][both[1]]

(* The refusals that may come of a node: its own, and those of each `fn`   *)
(* it calls for a value.                                                   *)
RECURSIVE Refuses(_, _, _)
Refuses(program, n, seen) ==
    IF IsSlot(n) THEN {}
    ELSE (IF n.is = "reject" THEN {n.lists.arg[1].of} ELSE {})
        \cup (IF n.is = "fn" /\ n.of \notin seen
              THEN Refuses(program, DeclarationOf(program, "function", n.of), seen \cup {n.of})
              ELSE {})
        \cup UNION {UNION {Refuses(program, n.lists[role][i], seen) :
                           i \in DOMAIN n.lists[role]} : role \in DOMAIN n.lists}

(* What is seen of a declaration from outside its program.                 *)
Seen(program, n) ==
    CASE n.is \in {"subject", "event", "enum", "record"} -> Itself(program, n)
      [] n.is = "fold" -> <<Asks(n), Listing(n, "returns")>>
      [] n.is = "command" -> <<Asks(n), Refuses(program, n, {})>>
      [] n.is = "projector" -> ReadModel(n)
      [] n.is = "effect" -> {Lane(a) : a \in Range(Listing(n, "arm"))}
      [] OTHER -> <<>>

SeenAtFirst ==
    [program \in Deployables |->
        [n \in Range(Listing(program, "declares")) |-> Seen(program, n)]]

(* A signature moves exactly when something is seen otherwise: a refusal   *)
(* gained through a `fn`, a lane, a column, whatever the bodies do.        *)
SignaturesTellTheOutside ==
    now # was =>
        \A both \in Lasting :
            LET first == PackedAtFirst[was]
                then  == SignatureOf(Entry(first, both[1]), Helpers(first))
            IN  (SignatureOf(Entry(packed, both[2]), Helpers(packed)) = then)
                    <=> (Seen(now, both[2]) = SeenAtFirst[was][both[1]])
=============================================================================
