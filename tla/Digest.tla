------------------------------- MODULE Digest -------------------------------
(***************************************************************************)
(* The digest form of a program (src/digest.rs): one packed form for each  *)
(* declaration, in which what an author may write in any order is sorted,  *)
(* what is a sequence stays as written, and a slot is named by where it    *)
(* first appears. A hash is kept as the form it covers.                    *)
(*                                                                         *)
(* The program is a tree. A node is                                        *)
(*                                                                         *)
(*   [is |-> what it is, of |-> its name, lists |-> role :> <<nodes>>]     *)
(*                                                                         *)
(* with a name of "" where it has none, and a slot of a frame is the leaf  *)
(* [slot |-> n]. Types, literals and flags are nodes too; a type that      *)
(* names a declaration is packed as that name.                             *)
(***************************************************************************)
EXTENDS Naturals, Sequences, FiniteSets, Functions, SequencesExt

CONSTANTS
    Alphabet     \* every name, in the order names are sorted into

Node(is, of, lists) == [is |-> is, of |-> of, lists |-> lists]

IsSlot(n) == "slot" \in DOMAIN n

Listing(n, role) == IF role \in DOMAIN n.lists THEN n.lists[role] ELSE <<>>

(* A part of its own, which an empty list leaves out, or does not.         *)
Whenever(head, nodes) == IF nodes = <<>> THEN <<>> ELSE <<Node(head, "", [arg |-> nodes])>>
Headed(head, nodes)   == <<Node(head, "", [arg |-> nodes])>>

---------------------------------------------------------------------------
(* Order.                                                                  *)

Rank == [name \in Range(Alphabet) |-> CHOOSE i \in DOMAIN Alphabet : Alphabet[i] = name]

ByName(nodes) == SortSeq(nodes, LAMBDA x, y : Rank[x.of] < Rank[y.of])

(* What lands in the journal, in the order it ran.                         *)
CallsOut == {"http", "invoke", "helper"}

RECURSIVE Pure(_)
Pure(n) ==
    \/ IsSlot(n)
    \/ /\ n.is \notin CallsOut
       /\ \A role \in DOMAIN n.lists : \A i \in DOMAIN n.lists[role] : Pure(n.lists[role][i])

(* A list of named values, unless one of them calls out.                   *)
SortedIfPure(nodes) == IF \A i \in DOMAIN nodes : Pure(nodes[i]) THEN ByName(nodes) ELSE nodes

---------------------------------------------------------------------------
(* What each node is made of, in the order it is packed.                   *)

(* What is iterated over is outside the loop, and comes first.             *)
IterParts(n) ==
    Headed("in", Listing(n, "over")) \o Whenever("index", Listing(n, "index"))
        \o Headed("item", Listing(n, "item"))

ExprParts(n) ==
    CASE n.is \in {"obj", "new", "make", "invoke"} -> SortedIfPure(Listing(n, "field"))
      [] n.is = "comp" -> IterParts(n) \o Whenever("when", Listing(n, "when"))
                              \o Headed("yield", Listing(n, "arg"))
      [] OTHER -> Listing(n, "arg")

(* The columns a patch loads first follow from what its fields read.       *)
StmtParts(n) ==
    CASE n.is = "if" -> Listing(n, "arg") \o Headed("then", Listing(n, "then"))
                            \o Whenever("else", Listing(n, "else"))
      [] n.is \in {"emit", "put"} -> SortedIfPure(Listing(n, "field"))
      [] n.is \in {"patch", "update"} ->
            Headed("key", Listing(n, "key")) \o ByName(Listing(n, "load"))
                \o SortedIfPure(Listing(n, "field"))
      [] n.is = "delete" -> Headed("key", Listing(n, "key"))
      [] n.is = "for" -> IterParts(n) \o Headed("do", Listing(n, "do"))

TriggerParts(n) == ByName(Listing(n, "bind")) \o ByName(Listing(n, "env"))

(* A lookup goes with its clause, and one of the arm's value goes last.    *)
Clause(n) == IF Listing(n, "part") = <<>> THEN "" ELSE Listing(n, "part")[1].of

LookupsAsWritten(nodes) == nodes
LookupsByClause(nodes) ==
    LET within(clause) == SelectSeq(nodes, LAMBDA n : Clause(n) = clause)
    IN  FlattenSeq([i \in DOMAIN Alphabet |-> within(Alphabet[i])]) \o within("")

SliceParts(n) ==
    SortedIfPure(Listing(n, "filter")) \o SortedIfPure(Listing(n, "keyed"))
        \o LookupsByClause(Listing(n, "lookup"))
        \o SortedIfPure(Listing(n, "computed"))
        \o ByName(Listing(n, "bind")) \o Listing(n, "acc")

StageParts(n) ==
    Whenever("pre", Listing(n, "pre")) \o Listing(n, "held")
        \o Listing(n, "slice") \o Whenever("post", Listing(n, "post"))

EventParts(n) == ByName(Listing(n, "f"))
SubjectParts(n) == Headed("id", Listing(n, "id")) \o Whenever("under", Listing(n, "under"))
EnumParts(n) == Headed("variants", ByName(Listing(n, "variant")))
                    \o Whenever("default", Listing(n, "default"))
RecordParts(n) == ByName(Listing(n, "f"))

(* The parameters of a `fn` are known by their place.                      *)
FunctionParts(n) ==
    Headed("params", [i \in DOMAIN Listing(n, "p") |-> Listing(n, "p")[i].lists.type[1]])
        \o Whenever("returns", Listing(n, "returns")) \o Headed("body", Listing(n, "body"))

FoldParts(n) ==
    Headed("params", Listing(n, "p")) \o Headed("returns", Listing(n, "returns"))
        \o Listing(n, "index") \o TriggerParts(n) \o Listing(n, "stage")

CommandParts(n) ==
    Headed("params", Listing(n, "p")) \o Whenever("now", Listing(n, "now"))
        \o Listing(n, "stage")

ProjectorParts(n) ==
    ByName(Listing(n, "enum")) \o ByName(Listing(n, "entity")) \o ByName(Listing(n, "handler"))
HandlerParts(n) == TriggerParts(n) \o Headed("body", Listing(n, "body"))

(* Indexes by how they pack, each with its columns as written.             *)
Columns(n) == [i \in DOMAIN Listing(n, "arg") |-> Rank[Listing(n, "arg")[i].of]]
PacksBefore(one, two) ==
    \/ \E i \in DOMAIN one \cap DOMAIN two :
          /\ one[i] < two[i]
          /\ \A j \in 1 .. i - 1 : one[j] = two[j]
    \/ Len(one) > Len(two) /\ \A i \in DOMAIN two : one[i] = two[i]

EntityParts(n) ==
    ByName(Listing(n, "col")) \o Headed("key", Listing(n, "key"))
        \o SortSeq(Listing(n, "index"), LAMBDA x, y : PacksBefore(Columns(x), Columns(y)))

(* No two arms of an effect answer one event.                              *)
EventPaths(n) == ByName(Listing(n, "event"))
EffectParts(n) ==
    ByName(Listing(n, "function")) \o SortSeq(Listing(n, "arm"), LAMBDA x, y : Rank[EventPaths(x)[1].of] < Rank[EventPaths(y)[1].of])
ArmParts(n) ==
    Headed("events", EventPaths(n)) \o Headed("delivery", Listing(n, "delivery"))
        \o Headed("key", Listing(n, "key")) \o TriggerParts(n)
        \o Whenever("now", Listing(n, "now")) \o Listing(n, "stage")

TestParts(n) ==
    Listing(n, "given") \o Listing(n, "setup") \o Listing(n, "action") \o Listing(n, "expect")

(* What a test names of the world, and what it expects of it. Whether a    *)
(* secret is set, never what it is.                                        *)
SetupParts(n) ==
    CASE n.is = "given" -> Whenever("from", Listing(n, "from")) \o SortedIfPure(Listing(n, "field"))
      [] n.is = "secret" -> <<Node(IF Listing(n, "arg")[1].is = "none" THEN "unset" ELSE "set", "", [arg |-> <<>>])>>
      [] n.is = "run" -> SortedIfPure(Listing(n, "field"))

ExpectParts(n) ==
    CASE n.is = "event-expected" ->
            Whenever("from", Listing(n, "from")) \o SortedIfPure(Listing(n, "field"))
      [] n.is = "row" -> Headed("key", Listing(n, "key")) \o SortedIfPure(Listing(n, "field"))

(* Everything else is its slot, if it has one, and what it holds.          *)
Plainer(n) == Listing(n, "slot") \o ExprParts(n)

Parts(n) ==
    CASE n.is = "event" -> EventParts(n)         [] n.is = "subject" -> SubjectParts(n)
      [] n.is = "enum" -> EnumParts(n)           [] n.is = "record" -> RecordParts(n)
      [] n.is = "function" -> FunctionParts(n)   [] n.is = "fold" -> FoldParts(n)
      [] n.is = "command" -> CommandParts(n)     [] n.is = "projector" -> ProjectorParts(n)
      [] n.is = "handler" -> HandlerParts(n)     [] n.is = "entity" -> EntityParts(n)
      [] n.is = "effect" -> EffectParts(n)       [] n.is = "arm" -> ArmParts(n)
      [] n.is = "test" -> TestParts(n)           [] n.is = "stage" -> StageParts(n)
      [] n.is = "slice" -> SliceParts(n)
      [] n.is = "computed" -> Listing(n, "arg") \o Listing(n, "skip")
      [] n.is = "p" -> Listing(n, "type")
      [] n.is = "lookup" -> Listing(n, "slot") \o Listing(n, "a")
      [] n.is \in {"given", "secret", "run"} -> SetupParts(n)
      [] n.is \in {"event-expected", "row"} -> ExpectParts(n)
      [] n.is \in {"if", "emit", "put", "patch", "update", "delete", "for"} -> StmtParts(n)
      [] OTHER -> Plainer(n)

---------------------------------------------------------------------------
(* The form, and the numbers of its slots.                                 *)

Formed(head, of, rest) == [head |-> head, of |-> of, rest |-> rest]

(* The slots of a form, as they come.                                      *)
RECURSIVE SlotsOf(_)
SlotsOf(form) ==
    IF IsSlot(form) THEN <<form.slot>>
    ELSE FlattenSeq([i \in DOMAIN form.rest |-> SlotsOf(form.rest[i])])

RECURSIVE Renamed(_, _)
Renamed(form, number) ==
    IF IsSlot(form) THEN [slot |-> number[form.slot]]
    ELSE [form EXCEPT !.rest = [i \in DOMAIN form.rest |-> Renamed(form.rest[i], number)]]

(* A frame numbers its slots as they first appear, its parameters, in      *)
(* their places, ahead of them all.                                        *)
NumberFrom(slots, form) ==
    LET firsts == FoldLeft(LAMBDA got, s : IF s \in Range(got) THEN got ELSE Append(got, s),
                           <<>>, slots)
    IN  Renamed(form, [s \in Range(slots) |-> CHOOSE i \in DOMAIN firsts : firsts[i] = s])
NumberedSlots(params, form) == NumberFrom(params \o SlotsOf(form), form)

Frames == {"function", "fold", "command", "handler", "arm", "test"}
ParamSlots(n) == [i \in DOMAIN Listing(n, "p") |-> Listing(n, "p")[i].lists.slot[1].slot]

(* A node that is no frame is numbered with the frame it is in.            *)
Framing(n, form) == IF n.is \in Frames THEN NumberedSlots(ParamSlots(n), form) ELSE form

RECURSIVE Packed(_)
Packed(n) ==
    IF IsSlot(n) THEN n
    ELSE Framing(n, Formed(n.is, n.of,
            FoldLeft(LAMBDA packed, part : Append(packed, Packed(part)), <<>>, Parts(n))))

---------------------------------------------------------------------------
(* A program: its declarations, as written.                                *)

DeclarationsOf(program, kind) == SelectSeq(Listing(program, "declares"), LAMBDA n : n.is = kind)
DeclarationOf(program, kind, name) ==
    CHOOSE n \in Range(DeclarationsOf(program, kind)) : n.of = name

LooksUp(fold) ==
    {l.of : l \in UNION {UNION {Range(Listing(slice, "lookup")) :
                            slice \in Range(Listing(stage, "slice"))} :
                         stage \in Range(Listing(fold, "stage"))}}

(* The folds a fold keys through, by a chain of any length.                *)
ReadsOneAway(program, name) == LooksUp(DeclarationOf(program, "fold", name))
RECURSIVE ReachedFrom(_, _)
ReachedFrom(program, names) ==
    LET next == names \cup UNION {ReadsOneAway(program, f) : f \in names}
    IN  IF next = names THEN names ELSE ReachedFrom(program, next)
ReadsThrough(program, name) == ReachedFrom(program, ReadsOneAway(program, name))

(* A fold's entry carries the own form of each fold it keys through.       *)
ReadFolds(program, n) ==
    IF n.is # "fold" THEN <<>>
    ELSE SelectSeq(Alphabet, LAMBDA a : a \in ReadsThrough(program, n.of))
EntryForm(program, n) ==
    LET reads == FoldLeft(LAMBDA forms, name :
                    Append(forms, Packed(DeclarationOf(program, "fold", name))),
                    <<>>, ReadFolds(program, n))
    IN  [Packed(n) EXCEPT !.rest = @ \o (IF ReadFolds(program, n) = <<>> THEN <<>>
                                         ELSE <<Formed("reads", "", reads)>>)]

EntryKinds == <<"subject", "event", "enum", "record", "function", "fold",
           "command", "projector", "effect">>

(* The entries by kind and name. A test is none of them, and goes after.   *)
EntriesOf(program, kinds) ==
    LET declared == FlattenSeq([k \in DOMAIN kinds |-> ByName(DeclarationsOf(program, kinds[k]))])
    IN  FoldLeft(LAMBDA entries, n : Append(entries, EntryForm(program, n)), <<>>, declared)
DigestWithTests(program) == EntriesOf(program, Append(EntryKinds, "test"))

---------------------------------------------------------------------------
(* Signatures, from the forms alone.                                       *)

PartsHeaded(form, head) == SelectSeq(form.rest, LAMBDA f : ~IsSlot(f) /\ f.head = head)

RECURSIVE Inside(_)
Inside(form) ==
    IF IsSlot(form) THEN {}
    ELSE {form} \cup UNION {Inside(form.rest[i]) : i \in DOMAIN form.rest}

(* The `fn`s a command may call. An effect's own are filed with them in    *)
(* the code, but no command reaches one.                                   *)
Helpers(digest) == {f \in Range(digest) : f.head = "function"}

CodesIn(form) ==
    {f.rest[1].of : f \in {g \in Inside(form) : g.head = "reject" /\ g.rest[1].head = "str"}}
CallsIn(form) == {g.of : g \in {h \in Inside(form) : h.head = "fn"}}

(* The refusals of a form and of every `fn` it calls, each looked at once. *)
RECURSIVE RejectsPast(_, _, _)
RejectsPast(forms, helpers, seen) ==
    LET calls == UNION {CallsIn(f) : f \in forms} \ seen
        next  == {h \in helpers : h.of \in calls}
    IN  UNION {CodesIn(f) : f \in forms}
            \cup (IF calls = {} THEN {} ELSE RejectsPast(next, helpers, seen \cup calls))
RejectsOfItsOwn(form, helpers) == CodesIn(form)
Rejects(form, helpers) == RejectsPast({form}, helpers, {})

SignatureOf(form, helpers) ==
    LET sig(rest) == <<form.head, form.of, rest>>
    IN  CASE form.head \in {"subject", "event", "enum", "record"} -> sig(form.rest)
          [] form.head = "fold" ->
                sig(PartsHeaded(form, "params") \o PartsHeaded(form, "returns"))
          [] form.head = "command" ->
                sig(<<PartsHeaded(form, "params"), Rejects(form, helpers)>>)
          [] form.head = "projector" -> sig(PartsHeaded(form, "entity"))
          [] form.head = "effect" ->
                sig([i \in DOMAIN PartsHeaded(form, "arm") |->
                        LET arm == PartsHeaded(form, "arm")[i]
                        IN  PartsHeaded(arm, "events") \o PartsHeaded(arm, "delivery")
                                \o PartsHeaded(arm, "key")])
          [] form.head \in {"function", "test"} -> <<form.head, form.of, "none">>
=============================================================================
