----------------------------- MODULE Statements -----------------------------
(***************************************************************************)
(* The statements of a declaration: what the parser accepts of them (the   *)
(* checks of src/parse.rs and the builder's scopes and stages), and the    *)
(* code it makes of them.                                                  *)
(*                                                                         *)
(* A name is bound to a value that is there, `plain`, or to one that may   *)
(* not be, `opt`. An expression is kept as the names whose values it needs *)
(* and the builtins it reaches:                                            *)
(*                                                                         *)
(*   [uses |-> {name, ...}, does |-> {"reveal", "http", ...}]              *)
(*                                                                         *)
(* and a statement as [do |-> what, with |-> expression, ...].             *)
(***************************************************************************)
EXTENDS Integers, Sequences, FiniteSets, SequencesExt, TLC

---------------------------------------------------------------------------
(* Who may say what. `gate`, and the narrower rules beside it.             *)

Calling == {"effect", "local", "void"}     \* an arm, and its effect's own `fn`s

Answers(kind) ==       \* statements that are the answer
    CASE kind \in {"command", "guard"} -> {"reject"}
      [] kind = "decides"              -> {"reject", "return"}
      [] kind \in Calling              -> {"fail", "return"}
      [] OTHER                         -> {"return"}

StatementAllowed(kind, stmt) ==
    CASE stmt.do = "emit"   -> kind = "command"
      [] stmt.do = "put"    -> kind = "projector"
      [] stmt.do = "log"    -> kind \in Calling
      [] stmt.do = "erase"  -> kind = "effect"
      [] stmt.do = "return" ->
            /\ kind # "guard"
            /\ kind \in {"fn", "decides", "local"} => stmt.value
            /\ stmt.value => kind \in {"fn", "decides", "local", "command"}
      [] stmt.do \in {"reject", "fail"} -> stmt.do \in Answers(kind)
      [] OTHER -> TRUE

(* A fold's seed, filter or arm reads the log and nothing else.            *)
BuiltinAllowed(kind, folding, word) ==
    CASE word \in {"http", "invoke", "secret"} -> kind \in Calling /\ ~folding
      [] word = "reveal" -> kind = "effect" /\ ~folding
      [] word = "now"    -> kind \in {"command", "effect"} /\ ~folding
      [] word = "helper" -> kind \in Calling /\ ~folding

---------------------------------------------------------------------------
(* The builder: scopes of names, the types of slots, and the stages.       *)

EmptyStage == [pre |-> <<>>, binds |-> <<>>, seeds |-> <<>>, filters |-> <<>>,
               folds |-> <<>>, post |-> <<>>]

Fresh == [scopes |-> <<<<>>>>, types |-> <<>>, narrowed |-> {}, pending |-> {},
          stages |-> <<>>, open |-> EmptyStage, ok |-> TRUE]

Named(b) == UNION {DOMAIN b.scopes[i] : i \in DOMAIN b.scopes}

SlotOf(b, name) ==         \* 0 for a name nothing in reach has
    IF name \notin Named(b) THEN 0 ELSE
    LET i == CHOOSE j \in DOMAIN b.scopes :
                /\ name \in DOMAIN b.scopes[j]
                /\ \A k \in DOMAIN b.scopes : name \in DOMAIN b.scopes[k] => k <= j
    IN  b.scopes[i][name]

Plain(b, slot) == b.types[slot] = "plain" \/ slot \in b.narrowed

Alloc(b, name, type) ==
    [b EXCEPT !.types = Append(@, type),
              !.scopes[Len(b.scopes)] = (name :> Len(b.types) + 1) @@ @]

PushScope(b) == [b EXCEPT !.scopes = Append(@, <<>>)]

Require(b, holds) == [b EXCEPT !.ok = @ /\ holds]

(* Shutting a block forgets its names and what its statements proved.      *)
LeaveBlock(b, inner) ==
    [inner EXCEPT !.scopes = b.scopes, !.narrowed = b.narrowed]

Hides(b, name) ==
    \E i \in 1 .. Len(b.scopes) - 1 : name \in DOMAIN b.scopes[i]

(* An expression, and what it lowers to: a load, or an unwrap of one where *)
(* the branch proved the value present.                                    *)
ExprOk(b, kind, folding, e) ==
    /\ \A x \in e.uses : x \in Named(b) /\ Plain(b, SlotOf(b, x))
    /\ \A word \in e.does : BuiltinAllowed(kind, folding, word)

LowerExpr(b, e) == [loads |-> {SlotOf(b, x) : x \in e.uses \cap Named(b)}, does |-> e.does]

ReadsPending(b, e) == \E x \in e.uses \cap Named(b) : SlotOf(b, x) \in b.pending

---------------------------------------------------------------------------
(* Conditions: `x.is_some()`, `x.is_none()`, `!c`, `c && d`, `c || d` and  *)
(* anything else; and what one proves, as <<slot, side>>: when it is       *)
(* `side`, the slot holds a value.                                         *)

RECURSIVE CondOk(_, _), Proves(_, _, _), Sides(_, _)

CondOk(b, c) ==
    CASE c.is \in {"some", "none"} ->
            c.of \in Named(b) /\ ~Plain(b, SlotOf(b, c.of))
      [] c.is = "not" -> CondOk(b, c.cond)
      [] c.is \in {"and", "or"} -> CondOk(b, c.left) /\ CondOk(b, c.right)
      [] OTHER -> TRUE

ProvesEither(b, c, sense) ==
    CASE c.is \in {"some", "none"} ->
            {<<SlotOf(b, c.of), IF c.is = "some" THEN sense ELSE ~sense>>}
      [] c.is = "not" -> Proves(b, c.cond, ~sense)
      [] c.is \in {"and", "or"} -> Proves(b, c.left, sense) \cup Proves(b, c.right, sense)
      [] OTHER -> {}
Proves(b, c, sense) ==
    CASE c.is \in {"some", "none"} ->
            {<<SlotOf(b, c.of), IF c.is = "some" THEN sense ELSE ~sense>>}
      [] c.is = "not" -> Proves(b, c.cond, ~sense)
      [] c.is \in {"and", "or"} ->
            LET speaksFor == IF c.is = "and" THEN sense ELSE ~sense
            IN  {p \in Proves(b, c.left, sense) \cup Proves(b, c.right, sense) :
                    p[2] = speaksFor}
      [] OTHER -> {}

Hold(b, c, side) ==
    [b EXCEPT !.narrowed = @ \cup {p[1] : p \in {q \in Proves(b, c, TRUE) : q[2] = side}}]

(* A condition over slots, and the values it may have.                     *)
RECURSIVE LowerCond(_, _)
LowerCond(b, c) ==
    CASE c.is \in {"some", "none"} -> [c EXCEPT !.of = SlotOf(b, @)]
      [] c.is = "not" -> [c EXCEPT !.cond = LowerCond(b, @)]
      [] c.is \in {"and", "or"} ->
            [c EXCEPT !.left = LowerCond(b, @), !.right = LowerCond(b, @)]
      [] OTHER -> c

Sides(c, held) ==
    CASE c.is = "some" -> {held[c.of] = "some"}
      [] c.is = "none" -> {held[c.of] = "none"}
      [] c.is = "not"  -> {~s : s \in Sides(c.cond, held)}
      [] c.is = "and"  -> {l /\ r : l \in Sides(c.left, held), r \in Sides(c.right, held)}
      [] c.is = "or"   -> {l \/ r : l \in Sides(c.left, held), r \in Sides(c.right, held)}
      [] OTHER -> BOOLEAN

---------------------------------------------------------------------------
(* Statements.                                                             *)

Terminates(stmt) == stmt.do \in {"return", "reject", "fail"}

RECURSIVE AlwaysReturns(_)
AlwaysReturns(stmts) ==
    \E i \in DOMAIN stmts :
        \/ Terminates(stmts[i])
        \/ /\ stmts[i].do = "if"
           /\ AlwaysReturns(stmts[i].then) /\ AlwaysReturns(stmts[i].otherwise)

(* The builder after one statement, and what the statement lowers to.      *)
RECURSIVE Statement(_, _, _), Statements(_, _, _)

Block(b, kind, stmts) == Statements(PushScope(b), kind, stmts)

IfStatement(b, kind, stmt) ==
    LET then == Block(Hold(Require(b, CondOk(b, stmt.cond)), stmt.cond, TRUE),
                      kind, stmt.then)
        back == [LeaveBlock(b, then.b) EXCEPT !.narrowed = b.narrowed]
        otherwise == Block(Hold(back, stmt.cond, FALSE), kind, stmt.otherwise)
        shut == LeaveBlock(back, otherwise.b)
    IN  [b |-> IF AlwaysReturns(stmt.then) THEN Hold(shut, stmt.cond, FALSE) ELSE shut,
         code |-> [do |-> "if", cond |-> LowerCond(b, stmt.cond),
                   then |-> then.code, otherwise |-> otherwise.code]]

ForStatement(b, kind, stmt) ==
    LET bound == Alloc(PushScope(Require(b, ExprOk(b, kind, FALSE, stmt.with))),
                       stmt.name, "plain")
        body  == Statements(bound, kind, stmt.body)
    IN  [b |-> LeaveBlock(b, body.b),
         code |-> [do |-> "for", with |-> LowerExpr(b, stmt.with),
                   slot |-> SlotOf(bound, stmt.name), body |-> body.code]]

LetStatement(b, kind, stmt) ==
    LET fine == ExprOk(b, kind, FALSE, stmt.with) /\ ~Hides(b, stmt.name)
        with == Alloc(Require(b, fine), stmt.name, stmt.type)
    IN  [b |-> with,
         code |-> [do |-> "let", with |-> LowerExpr(b, stmt.with), type |-> stmt.type,
                   slot |-> SlotOf(with, stmt.name)]]

Statement(b, kind, stmt) ==
    CASE stmt.do = "if"  -> IfStatement(b, kind, stmt)
      [] stmt.do = "for" -> ForStatement(b, kind, stmt)
      [] stmt.do = "let" -> LetStatement(b, kind, stmt)
      [] stmt.do \in {"fold", "read", "guard"} ->       \* not below a statement
            [b |-> Require(b, FALSE), code |-> [do |-> "log", with |-> LowerExpr(b, stmt.with)]]
      [] OTHER ->
            [b |-> Require(b, /\ StatementAllowed(kind, stmt)
                              /\ ExprOk(b, kind, FALSE, stmt.with)
                              /\ stmt.do = "erase" => "reveal" \notin stmt.with.does),
             code |-> [stmt EXCEPT !.with = LowerExpr(b, @)]]

Statements(b, kind, stmts) ==
    LET next(done, stmt) ==
            LET one == Statement(done.b, kind, stmt)
                dead == done.code # <<>> /\ Terminates(Last(done.code))
            IN  [b |-> Require(one.b, ~dead), code |-> Append(done.code, one.code)]
    IN  FoldLeft(next, [b |-> b, code |-> <<>>], stmts)

---------------------------------------------------------------------------
(* Declarations: a run of `fold` and `guard` is a stage, and a statement   *)
(* below one ends it.                                                      *)

DeclaresNothing(b) == b.open.seeds = <<>> /\ b.open.filters = <<>> /\ b.open.binds = <<>>

WouldStage(b) == b.open.post # <<>>

FilterPastFold(b) == \E i \in DOMAIN b.open.filters : b.open.filters[i].loads \cap b.pending # {}

StageBreak(b) ==
    IF WouldStage(b)
    THEN [Require(b, ~FilterPastFold(b))
            EXCEPT !.stages = Append(@, b.open), !.open = EmptyStage, !.pending = {}]
    ELSE b

(* `fold x: T = seed` and its arms' filters.                               *)
FoldDecl(b, item) ==
    LET kind  == item.kind
        fine  == ExprOk(b, kind, TRUE, item.with) /\ ~ReadsPending(b, item.with)
        with  == Alloc(Require(b, fine), item.name, item.type)
        slot  == SlotOf(with, item.name)
        there == [with EXCEPT !.pending = @ \cup {slot}]
    IN  [Require(there, ExprOk(there, kind, TRUE, item.filter)) EXCEPT
            !.open.seeds   = Append(@, [do |-> "seed", slot |-> slot,
                                        with |-> LowerExpr(b, item.with)]),
            !.open.filters = Append(@, LowerExpr(there, item.filter)),
            !.open.folds   = Append(@, [do |-> "folded", slot |-> slot, type |-> item.type])]

(* `fold x = Name { arg }`: the argument is assigned where the statements  *)
(* above it end, and the name takes what the fold came to.                 *)
FoldUse(b, item) ==
    LET fine == /\ ExprOk(b, item.kind, FALSE, item.with)
                /\ ~ReadsPending(b, item.with)
        with == Alloc(Require(b, fine), item.name, item.type)
        slot == SlotOf(with, item.name)
    IN  [with EXCEPT
            !.pending = @ \cup {slot},
            !.open.binds = Append(@, [do |-> "bind", with |-> LowerExpr(b, item.with)]),
            !.open.folds = Append(@, [do |-> "folded", slot |-> slot, type |-> item.type])]

RawGuard(b, item) ==
    [Require(b, ExprOk(b, item.kind, TRUE, item.with)) EXCEPT
        !.open.filters = Append(@, LowerExpr(b, item.with))]

Declaration(b, kind, item) ==
    LET allowed == /\ item.do = "guard" => kind # "effect"
                   /\ kind = "guard" => ~WouldStage(b)
        staged  == StageBreak(Require(b, allowed))
        of      == [item EXCEPT !.kind = kind]
    IN  CASE item.do = "fold"  -> FoldDecl(staged, of)
          [] item.do = "read"  -> FoldUse(staged, of)
          [] item.do = "guard" -> RawGuard(staged, of)

Placed(one) ==
    IF DeclaresNothing(one.b) THEN [one.b EXCEPT !.open.pre = Append(@, one.code)]
    ELSE [one.b EXCEPT !.open.post = Append(@, one.code)]

Body(kind, items) ==
    LET next(done, item) ==
            [answered |-> Terminates(item),
             b |-> IF item.do \in {"fold", "read", "guard"}
                   THEN Declaration(Require(done.b, ~done.answered), kind, item)
                   ELSE Placed(Statement(Require(done.b, ~done.answered), kind, item))]
        end == FoldLeft(next, [b |-> Fresh, answered |-> FALSE], items).b
    IN  [Require(end, ~FilterPastFold(end)) EXCEPT !.stages = Append(@, end.open)]

Declaring == {"command", "guard", "effect"}

Whole(block, returns) ==
    [Require(block.b, returns) EXCEPT !.stages = <<[EmptyStage EXCEPT !.pre = block.code]>>]

Parsed(source) ==
    IF source.kind \in Declaring
    THEN Body(source.kind, source.body)
    ELSE Whole(Statements(Fresh, source.kind, source.body),
               source.kind \in {"fn", "decides", "local"} => AlwaysReturns(source.body))

---------------------------------------------------------------------------
(* Rule 9 of docs/effects.md: no reveal is reachable from an erase.        *)

Roots(stmt) == IF stmt.do = "if" THEN {} ELSE stmt.with.does

RECURSIVE Scan(_, _)
ScanOnce(stmt, at) == Scan(stmt.body, at.erased)
ScanLoop(stmt, at) ==
    LET once == Scan(stmt.body, at.erased)
        twice == Scan(stmt.body, once.erased)
    IN  [twice EXCEPT !.bad = once.bad \/ twice.bad]

ScanIf(stmt, at) ==
    LET taken == Scan(stmt.then, at.erased)
        skipped == Scan(stmt.otherwise, at.erased)
    IN  [erased |-> \/ taken.falls /\ taken.erased
                    \/ skipped.falls /\ skipped.erased,
         falls |-> taken.falls \/ skipped.falls,
         bad |-> taken.bad \/ skipped.bad]

Scan(stmts, incoming) ==
    LET next(at, stmt) ==
            IF ~at.falls \/ at.bad THEN at
            ELSE IF at.erased /\ "reveal" \in Roots(stmt) THEN [at EXCEPT !.bad = TRUE]
            ELSE CASE stmt.do = "erase"  -> [at EXCEPT !.erased = TRUE]
                   [] Terminates(stmt)   -> [at EXCEPT !.falls = FALSE]
                   [] stmt.do = "for"    -> [ScanLoop(stmt, at) EXCEPT !.falls = TRUE]
                   [] stmt.do = "if"     -> ScanIf(stmt, at)
                   [] OTHER              -> at
    IN  FoldLeft(next, [erased |-> incoming, falls |-> TRUE, bad |-> FALSE], stmts)

EraseLastIn(stages) ==
    LET halves == FlattenSeq([i \in DOMAIN stages |-> stages[i].pre \o stages[i].post])
    IN  ~Scan(halves, FALSE).bad

Accepted(kind, b) == b.ok /\ (kind = "effect" => EraseLastIn(b.stages))

(* What runs: a stage's statements, what its declarations need, its read   *)
(* of the log, and the statements below it.                                *)
Spliced(stage) ==
    stage.pre \o stage.binds \o stage.seeds
        \o [i \in DOMAIN stage.filters |-> [do |-> "filter", with |-> stage.filters[i]]]
        \o stage.folds \o stage.post

Code(stages) == FlattenSeq([i \in DOMAIN stages |-> Spliced(stages[i])])

(* What the loader hands on.                                               *)
Loaded(sources) ==
    {[kind |-> l.kind, code |-> Code(l.b.stages), slots |-> Len(l.b.types)] :
        l \in {read \in {[kind |-> s.kind, b |-> Parsed(s)] : s \in sources} :
                   Accepted(read.kind, read.b)}}
=============================================================================
