------------------------------- MODULE Bounds -------------------------------
(***************************************************************************)
(* How long a text may be, where it is written and where it is moved: the  *)
(* loader's check that no `@max` is tighter than that of a field written   *)
(* into it (`check_max` of src/parse.rs), beside the writes themselves     *)
(* (`check_field` of src/interp.rs), which measure a plain text and cannot *)
(* measure a sealed one.                                                   *)
(*                                                                         *)
(* A program is one content field an event, a command that folds some of   *)
(* them and emits into the event `copied`, and a projector that writes one *)
(* column. A text is its length and whether it is sealed; a bound of 0 is  *)
(* none.                                                                   *)
(*                                                                         *)
(*   [max, sealed : by event, arms : {[on, how]}, emits : as,              *)
(*    column : bound, handlers : {[on, how]}]                              *)
(*                                                                         *)
(* `how` an arm or a handler comes by its text: "plain", a read of the     *)
(* field; "narrowed", one proved present; "handed", the same text through  *)
(* a `let` or a branch; "trims" or "computed", a text of its own. `emits`  *)
(* is "fold" where the emitted value is the stage's fold, and "name" where *)
(* it is a fold of the module, or a `let` of one, under its name.          *)
(***************************************************************************)
EXTENDS Integers, Sequences, FiniteSets

CONSTANTS
    Schemas,     \* the programs an author may have written
    Lengths,     \* of a text from outside
    MostTexts    \* the most records of the log

(* Every event a fold or a handler names is declared.                      *)
ASSUME BoundsAssumption ==
    /\ Lengths \subseteq Nat
    /\ \A s \in Schemas :
          /\ s.max \in [DOMAIN s.max -> Nat]
          /\ s.sealed \in [DOMAIN s.max -> BOOLEAN]
          /\ "copied" \in DOMAIN s.max
          /\ s.column \in Nat

VARIABLES
    schema,      \* the program
    texts,       \* the log: [event, holds : text]
    column,      \* the text the projector last wrote
    halted       \* the projector met a text it may not write: "no", "read" as
                 \* a field's, or "made" by the handler

boundVars == <<schema, texts, column, halted>>

(* A text's `slipped` is history: under its seal, it came through a write  *)
(* the loader knew no source of.                                           *)
NewText(length) == [length |-> length, sealed |-> FALSE, slipped |-> FALSE]

MovedOn(text, traced) == [text EXCEPT !.slipped = @ \/ (text.sealed /\ ~traced)]

---------------------------------------------------------------------------
(* The loader. A source is known only when it is plainly read.             *)

WithinTheBounded(declared, bound) == bound = 0 \/ declared <= bound
Within(declared, bound) == bound = 0 \/ (declared # 0 /\ declared <= bound)

(* Whether the emitted value is known to come from the log's fields: it is *)
(* its command's own fold, and all of its arms plainly read.               *)
Traced(s) == s.emits = "fold" /\ \A arm \in s.arms : arm.how = "plain"

FoldedFrom(s) == IF Traced(s) THEN {arm.on : arm \in s.arms} ELSE {}

EmitsFit(s) ==
    \A event \in FoldedFrom(s) : Within(s.max[event], s.max["copied"])

(* Proving a value present says nothing about where it came from; a name   *)
(* for it hides that.                                                      *)
LoadedField(handler) == handler.how \in {"plain", "narrowed"}

WritesFit(s) ==
    \A handler \in s.handlers :
        LoadedField(handler) => Within(s.max[handler.on], s.column)

CheckMax(s) == WritesFit(s) /\ EmitsFit(s)

---------------------------------------------------------------------------
(* The run. A text moved under its seal is measured by nobody.             *)

TooLong(text, bound) == ~text.sealed /\ bound # 0 /\ text.length > bound

BoundsInit ==
    /\ schema \in Schemas
    /\ CheckMax(schema)
    /\ texts = <<>> /\ column = NewText(0) /\ halted = "no"

(* An event is measured, and then sealed on its way into the log.          *)
IntoLog(event, text) ==
    /\ ~TooLong(text, schema.max[event])
    /\ texts' = Append(texts,
          [event |-> event,
           holds |-> [text EXCEPT !.sealed = @ \/ schema.sealed[event]]])

(* Any other command, with a text from its caller.                         *)
Publish ==
    /\ Len(texts) < MostTexts
    /\ \E event \in DOMAIN schema.max, length \in Lengths :
          IntoLog(event, NewText(length))
    /\ UNCHANGED <<schema, column, halted>>

(* What an arm makes of the text it folds: that text, or one it shortened. *)
ArmTakes(arm, text) ==
    IF arm.how = "trims" THEN {NewText(n) : n \in 0 .. text.length} ELSE {text}

(* What the fold comes to: what an arm makes of the last text any reads.   *)
ReadingArms(i) == {arm \in schema.arms : arm.on = texts[i].event}
LastRead ==
    {i \in DOMAIN texts :
        ReadingArms(i) # {} /\ \A j \in DOMAIN texts : ReadingArms(j) # {} => j <= i}

FoldedTexts ==
    UNION {UNION {ArmTakes(arm, texts[i].holds) : arm \in ReadingArms(i)} : i \in LastRead}

(* The command: an over-length text is invalid and appends nothing.        *)
Copy ==
    /\ Len(texts) < MostTexts
    /\ \E text \in FoldedTexts : IntoLog("copied", MovedOn(text, Traced(schema)))
    /\ UNCHANGED <<schema, column, halted>>

(* What a handler writes of the field it is handed.                        *)
HandedOn(handler, text) ==
    IF handler.how = "computed" THEN {NewText(n) : n \in Lengths}
                                ELSE {MovedOn(text, LoadedField(handler))}

(* The projector, at any record: it has no answer to give but to stop.     *)
Project ==
    /\ halted = "no"
    /\ \E i \in DOMAIN texts, handler \in schema.handlers :
          /\ handler.on = texts[i].event
          /\ \E text \in HandedOn(handler, texts[i].holds) :
                IF TooLong(text, schema.column)
                THEN /\ halted' = IF LoadedField(handler) THEN "read" ELSE "made"
                     /\ UNCHANGED column
                ELSE column' = text /\ UNCHANGED halted
    /\ UNCHANGED <<schema, texts>>

BoundsNext == Publish \/ Copy \/ Project

BoundsSpec == BoundsInit /\ [][BoundsNext]_boundVars

---------------------------------------------------------------------------
Outgrows(text, bound) == bound # 0 /\ text.length > bound

(* "A bounded position's `@max` must be no tighter than the `@max` of      *)
(* every field written into it" (docs/projectors.md). Whatever a program   *)
(* that loads moves, a text that is longer than the field or the column    *)
(* that holds it declares came, under its seal, through a name or a branch *)
(* the loader knows no source of, or copies one that did; and a projector  *)
(* meets no field it may not write.                                        *)
OnlyTheUntracedOutgrow ==
    /\ \A i \in DOMAIN texts :
          Outgrows(texts[i].holds, schema.max[texts[i].event]) => texts[i].holds.slipped
    /\ Outgrows(column, schema.column) => column.slipped
    /\ halted # "read"

(* Content that is moved "is checked here or nowhere" (docs/projectors.md):*)
(* no field of a record, written by whatever command of a program that     *)
(* loads, holds a text longer than it declares,                            *)
FieldsKeepTheirMax ==
    \A i \in DOMAIN texts : ~Outgrows(texts[i].holds, schema.max[texts[i].event])

(* and no column, whatever handler wrote it.                               *)
ColumnsKeepTheirMax == ~Outgrows(column, schema.column)
=============================================================================
