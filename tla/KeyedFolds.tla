----------------------------- MODULE KeyedFolds -----------------------------
(***************************************************************************)
(* Named folds: what a declaration says, the layout of columns it implies  *)
(* (src/tables.rs), and the read of one key that folds the log (`fold` in  *)
(* src/interp.rs).                                                         *)
(*                                                                         *)
(* A program is a function from the names of its folds to declarations     *)
(*                                                                         *)
(*   [table |-> the key signature it is kept under, arms |-> <<arm, ...>>] *)
(*                                                                         *)
(* and an arm, in the source `on @event(field: param, param == value) key  *)
(* param = expr => value`, is                                              *)
(*                                                                         *)
(*   [on      |-> event type,                                              *)
(*    where   |-> <<[field, is], ...>>            a field against a value, *)
(*    gates   |-> key part :> value               `param == value`,        *)
(*    keys    |-> key part :> [is, skip]          `key param = expr`,      *)
(*    lookups |-> <<[fold, args], ...>>           `Name { args }`,         *)
(*    gives   |-> expression]                     what the arm leaves      *)
(*                                                                         *)
(* A parameter is named by its part of the key. Which records an           *)
(* accumulator took is kept beside its value as a trace, so that two folds *)
(* with one trace are one fold, whatever their expressions compute.        *)
(***************************************************************************)
EXTENDS Integers, Sequences, FiniteSets, Functions, SequencesExt

CONSTANTS
    NoValue,     \* `none`, and the seed of every fold
    KeysOf(_)    \* the keys under one signature: tuples of values

---------------------------------------------------------------------------
(* Expressions: a parameter, a literal, a bound field, a filled lookup.    *)

Part(p)    == [src |-> "part", of |-> p]
Const(v)   == [src |-> "const", of |-> v]
Field(f)   == [src |-> "field", of |-> f]
Read(n)    == [src |-> "read", of |-> n]

ValueOf(expr, key, event, read) ==
    CASE expr.src = "part"  -> key[expr.of]
      [] expr.src = "const" -> expr.of
      [] expr.src = "field" -> event.with[expr.of]
      [] expr.src = "read"  -> read[expr.of]

---------------------------------------------------------------------------
(* The layout.                                                             *)

PartsOf(program, f) == DOMAIN (CHOOSE key \in KeysOf(program[f].table) : TRUE)

(* How an arm fills a part of the key: the value it fixes, or one it       *)
(* computes, or the field that is filtered by the parameter alone.         *)
Match(arm, p) ==
    LET pins == {n \in DOMAIN arm.where : arm.where[n].is = Part(p)}
    IN  CASE p \in DOMAIN arm.gates -> [how |-> "fixed", by |-> arm.gates[p]]
          [] p \notin DOMAIN arm.gates /\ p \in DOMAIN arm.keys ->
                [how |-> "computed", by |-> arm.keys[p]]
          [] p \notin DOMAIN arm.gates \cup DOMAIN arm.keys /\ pins # {} ->
                [how |-> "field", by |-> arm.where[Min(pins)].field]
          [] OTHER -> [how |-> "open"]

Pinned(program, f, n) ==
    \A p \in PartsOf(program, f) : Match(program[f].arms[n], p).how # "open"

Ranges(program, f) ==
    \E n \in DOMAIN program[f].arms : ~Pinned(program, f, n)

Mints(program, f) ==
    \E n \in DOMAIN program[f].arms : Pinned(program, f, n)

(* Kept as a column, if every part is filled by some arm.                  *)
Stored(program, f) ==
    \A p \in PartsOf(program, f) :
        \E n \in DOMAIN program[f].arms :
            Match(program[f].arms[n], p).how # "open"

DirectReads(program, f) ==
    UNION {{program[f].arms[n].lookups[i].fold :
                i \in DOMAIN program[f].arms[n].lookups} :
           n \in DOMAIN program[f].arms}

(* Everything some folds lead to: what every set that has them, and has    *)
(* with each fold what is next to it, has in common.                       *)
Reached(next, folds) ==
    {g \in DOMAIN next :
        \A S \in SUBSET DOMAIN next :
            folds \subseteq S /\ (\A f \in S : next[f] \subseteq S) => g \in S}

Reads(program, f) ==
    Reached([g \in DOMAIN program |-> DirectReads(program, g)],
            DirectReads(program, f))

RangedThrough(program, f) ==
    \E g \in {f} \cup Reads(program, f) : Ranges(program, g)

(* What is replayed for a set of columns to come out right: what they read *)
(* through and, for a range, whatever mints keys of its table.             *)
NeedsTheLookedUp(program, f) == Reads(program, f)
Needs(program, f) ==
    Reads(program, f)
        \cup {g \in DOMAIN program :
                /\ Ranges(program, f)
                /\ program[g].table = program[f].table
                /\ Mints(program, g)}

Closure(program, folds) ==
    Reached([f \in DOMAIN program |-> Needs(program, f)],
            {f \in folds : Stored(program, f)})

---------------------------------------------------------------------------
(* What the parser accepts. An arm that computes a part or looks one up    *)
(* filters by pinned parameters only, and no part is both; a looked-up     *)
(* fold is stored; no fold reads through itself.                           *)

Params(arm) == {w.is.of : w \in {x \in Range(arm.where) : x.is.src = "part"}}

ArmAccepted(program, f, n) ==
    LET arm == program[f].arms[n]
    IN  /\ DOMAIN arm.keys \cap DOMAIN arm.gates = {}
        /\ DOMAIN arm.keys # {} \/ arm.lookups # <<>> =>
              \A p \in Params(arm) : Match(arm, p).how \in {"fixed", "field"}

Accepted(program) ==
    \A f \in DOMAIN program :
        /\ \A n \in DOMAIN program[f].arms : ArmAccepted(program, f, n)
        /\ DirectReads(program, f) \subseteq DOMAIN program
        /\ f \notin Reads(program, f)
        /\ \A g \in DirectReads(program, f) : Stored(program, g)

(* The shape a declaration has once it is parsed: an arm fixes, computes   *)
(* and filters by parts of the key. The parts here are of plain types: the *)
(* keys under a signature have all of them, and none of them is `none`.    *)
Shaped(program) ==
    \A f \in DOMAIN program :
        /\ \A key \in KeysOf(program[f].table) :
              /\ key = [p \in PartsOf(program, f) |-> key[p]]
              /\ \A p \in PartsOf(program, f) : key[p] # NoValue
        /\ program[f].arms \in Seq(Range(program[f].arms))
        /\ \A n \in DOMAIN program[f].arms :
              LET arm == program[f].arms[n]
              IN  /\ arm.where \in Seq(Range(arm.where))
                  /\ DOMAIN arm.gates \cup DOMAIN arm.keys \cup Params(arm)
                        \subseteq PartsOf(program, f)
                  /\ \A p \in DOMAIN arm.gates : arm.gates[p] # NoValue
                  /\ \A w \in Range(arm.where) : w.is.src \in {"part", "const"}

---------------------------------------------------------------------------
(* One record against one arm.                                             *)

Filtered(arm, key, event) ==
    /\ arm.on = event.type
    /\ \A n \in DOMAIN arm.where :
          event.with[arm.where[n].field]
              = ValueOf(arm.where[n].is, key, event, <<>>)

(* The gates of an arm, against the key it is read for.                    *)
Live(arm, key) == \A p \in DOMAIN arm.gates : key[p] = arm.gates[p]

(* The lookups of an arm in their order, an argument that is none filling  *)
(* its slot with none. `held[f][key]` is a fold's value before the record. *)
LookedUp(arm, event, held) ==
    LET fill(read, lookup) ==
            LET args == [i \in DOMAIN lookup.args |->
                            ValueOf(lookup.args[i], <<>>, event, read)]
            IN  Append(read, IF NoValue \in Range(args) THEN NoValue
                             ELSE held[lookup.fold][args])
    IN  FoldLeft(fill, <<>>, arm.lookups)

Skips(arm, event, read) ==
    \E p \in DOMAIN arm.keys :
        arm.keys[p].skip /\ ValueOf(arm.keys[p].is, <<>>, event, read) = NoValue

(* What an accumulator becomes when arm `n` folds the record at `at`.      *)
Entry(arm, n, at, key, event, read) ==
    [at |-> at, arm |-> n, read |-> read,
     gives |-> ValueOf(arm.gives, key, event, read)]

Value(trace) == IF trace = <<>> THEN NoValue ELSE Last(trace).gives

---------------------------------------------------------------------------
(* A read of one key folds the log from its first record. The arguments    *)
(* are in their slots, so a computed part is compared with them; a lookup  *)
(* of a record is the fold of the records before it.                       *)

Mine(arm, key, event, read) ==
    /\ ~Skips(arm, event, read)
    /\ \A p \in DOMAIN arm.keys :
          ValueOf(arm.keys[p].is, <<>>, event, read) = key[p]

Takes(arm, key, event, read) ==
    Live(arm, key) /\ Filtered(arm, key, event) /\ Mine(arm, key, event, read)

(* Some arms of a fold in the order they are written.                      *)
InOrder(arms) ==
    [i \in 1 .. Cardinality(arms) |->
        CHOOSE n \in arms : Cardinality({m \in arms : m < n}) = i - 1]

FoldRecord(arms, key, trace, at, event, held) ==
    LET read(n) == LookedUp(arms[n], event, held)
        order   == InOrder({n \in DOMAIN arms : Takes(arms[n], key, event, read(n))})
    IN  trace \o [i \in DOMAIN order |->
                    Entry(arms[order[i]], order[i], at, key, event, read(order[i]))]

(* The values of the folds one fold looks up.                              *)
Values(program, f, traces) ==
    [g \in DirectReads(program, f) |->
        [key \in KeysOf(program[g].table) |-> Value(traces[g][key])]]

Seeds(program) ==
    [f \in DOMAIN program |-> [key \in KeysOf(program[f].table) |-> <<>>]]

(* Every fold at every key over one record more.                           *)
Refold(program, before, at, event) ==
    LET held == [f \in DOMAIN program |-> Values(program, f, before)]
    IN  [f \in DOMAIN program |->
            [key \in KeysOf(program[f].table) |->
                FoldRecord(program[f].arms, key, before[f][key], at, event, held[f])]]
=============================================================================
