------------------------------ MODULE Projection ------------------------------
(***************************************************************************)
(* A projector's rows, and the keys its sealed columns are read with:      *)
(* `Projection` and `Shredding` of src/interp.rs, `Keyring` of             *)
(* src/harness.rs and what the test runner tells it of a log (`Minted` of  *)
(* src/testing.rs).                                                        *)
(*                                                                         *)
(* A key is <<subject, id>>. An event is                                   *)
(*                                                                         *)
(*   [type    |-> path,                                                    *)
(*    with    |-> field :> value,                                          *)
(*    seals   |-> the subject whose field seals the content, or NoSubject, *)
(*    carries |-> subject :> the ids in the event's fields of that type]   *)
(*                                                                         *)
(* and a column holds <<value>>, nothing, <<>>, or content sealed under a  *)
(* key, which is written as the key. A projector is a sequence of handlers *)
(* [on |-> type, body |-> <<statement, ...>>].                             *)
(***************************************************************************)
EXTENDS Integers, Sequences, FiniteSets, FiniteSetsExt, SequencesExt

CONSTANTS
    Projectors,    \* the projectors a deployment may have
    Landing,       \* the events that may land
    Entities,      \* entity :> [key, columns |-> column :> [opt, zero]]
    Ancestors,     \* subject :> its ancestors, nearest first
    NoSubject,     \* an event that seals nothing
    MaxCount,      \* bound on a counted column
    MaxWrapDepth,  \* the backstop on wrapping
    MaxRecords,    \* bound on the log
    MaxErased      \* bound on the keys erased

ASSUME BackstopAssumption ==
    /\ MaxWrapDepth \in Nat
    /\ \A s \in DOMAIN Ancestors :
          /\ Ancestors[s] \in Seq(DOMAIN Ancestors)
          /\ Len(Ancestors[s]) <= MaxWrapDepth

VARIABLES
    projector,   \* the projector
    records,     \* the log
    erased,      \* the keys erased
    rows,        \* the rows that follow the log: <<entity, key>> :> row
    given,       \* how many records they were given
    stuck        \* a record raised: the projector is not given another

projectionVars == <<projector, records, erased, rows, given, stuck>>

---------------------------------------------------------------------------
(* The key store.                                                          *)

KeysOfEvent(event) ==
    IF event.seals = NoSubject THEN {} ELSE {<<event.seals, event.carries[event.seals][1]>>}

(* The ids above a key on the event that mints it, as far as the event     *)
(* says one for each.                                                      *)
Chain(event) ==
    LET above == Ancestors[event.seals]
        told  == {n \in 0 .. Len(above) : \A i \in 1 .. n : Len(event.carries[above[i]]) = 1}
    IN  [i \in 1 .. Max(told) |-> <<above[i], event.carries[above[i]][1]>>]

KeysOfLog(log) == UNION {KeysOfEvent(log[i]) : i \in DOMAIN log}

(* The wrapping the runner reads off a log: what the first event says that *)
(* seals under the key and says what is above it.                          *)
Sealing(log, key) == {i \in DOMAIN log : key \in KeysOfEvent(log[i])}
ToldLast(log) == [key \in KeysOfLog(log) |-> Chain(log[Max(Sealing(log, key))])]
Told(log) ==
    [key \in KeysOfLog(log) |->
        LET telling == {i \in Sealing(log, key) : Chain(log[i]) # <<>>}
        IN  IF telling = {} THEN <<>> ELSE Chain(log[Min(telling)])]

(* The keys some steps up from a key, and the key.                         *)
Climb(above, key, most) ==
    LET up[n \in 0 .. most] ==
            IF n = 0 THEN {key}
            ELSE up[n - 1] \cup UNION {above[k] : k \in up[n - 1] \cap DOMAIN above}
    IN  up[most]

(* Unreadable: erased, or wrapped in a key that is.                        *)
GoneItself(key, under) == key \in erased
Gone(key, under) ==
    Climb([k \in DOMAIN under |-> Range(under[k])], key, MaxWrapDepth) \cap erased # {}

Unreadable(under) == {key \in DOMAIN under \cup erased : Gone(key, under)}

---------------------------------------------------------------------------
(* Writing a row. A write is [rows |-> ..., fine |-> whether nothing       *)
(* raised].                                                                *)

None == <<>>
Sealed(value) == Len(value) = 2

(* `gone` is the keys that are unreadable where the row is written.        *)
ShredNothing(row, gone) == row
Shredded(row, gone) ==
    [c \in DOMAIN row |-> IF Sealed(row[c]) /\ row[c] \in gone THEN None ELSE row[c]]

(* A column that has no absent value cannot hold what is gone.             *)
Unshreddable(entity, row, gone) ==
    \E c \in DOMAIN row :
        /\ Sealed(row[c]) /\ row[c] \in gone
        /\ ~Entities[entity].columns[c].opt

Over(new, old) ==
    [x \in DOMAIN new \cup DOMAIN old |-> IF x \in DOMAIN new THEN new[x] ELSE old[x]]

PutRow(store, entity, key, row, gone) ==
    IF Unshreddable(entity, row, gone)
    THEN [rows |-> store, fine |-> FALSE]
    ELSE [rows |-> Over([cell \in {<<entity, key>>} |-> Shredded(row, gone)], store),
          fine |-> TRUE]

Evaluate(expr, event, stored) ==
    CASE expr.src = "field"  -> event.with[expr.of]
      [] expr.src = "const"  -> expr.of
      [] expr.src = "stored" -> stored[expr.of]
      [] expr.src = "count"  -> <<Min({stored[expr.of][1] + 1, MaxCount})>>

(* The row a `patch` starts from where there is none.                      *)
Materialize(entity, key) ==
    [c \in DOMAIN Entities[entity].columns |->
        IF c = Entities[entity].key THEN key ELSE Entities[entity].columns[c].zero]

PutStatement(store, stmt, event, gone) ==
    LET row == [c \in DOMAIN stmt.fields |-> Evaluate(stmt.fields[c], event, <<>>)]
    IN  PutRow(store, stmt.entity, row[Entities[stmt.entity].key], row, gone)

PatchStatement(store, stmt, event, gone) ==
    LET key    == Evaluate(stmt.key, event, <<>>)
        cell   == <<stmt.entity, key>>
        stored == IF cell \in DOMAIN store THEN store[cell] ELSE Materialize(stmt.entity, key)
        fields == [c \in DOMAIN stmt.fields |-> Evaluate(stmt.fields[c], event, stored)]
    IN  IF cell \notin DOMAIN store /\ stmt.do = "update"
        THEN [rows |-> store, fine |-> TRUE]
        ELSE PutRow(store, stmt.entity, key, Over(fields, stored), gone)

DeleteStatement(store, stmt, event) ==
    LET cell == <<stmt.entity, Evaluate(stmt.key, event, <<>>)>>
    IN  [rows |-> [other \in DOMAIN store \ {cell} |-> store[other]], fine |-> TRUE]

Execute(store, stmt, event, gone) ==
    CASE stmt.do = "put"                   -> PutStatement(store, stmt, event, gone)
      [] stmt.do \in {"patch", "update"}   -> PatchStatement(store, stmt, event, gone)
      [] stmt.do = "delete"                -> DeleteStatement(store, stmt, event)

(* What a record sets going: every handler it selects, in order.           *)
Body(handlers, event) ==
    LET Selects(handler) == handler.on = event.type
        selected == SelectSeq(handlers, Selects)
    IN  FlattenSeq([i \in DOMAIN selected |-> selected[i].body])

(* Every statement of them; what was written before one that raises stays  *)
(* written.                                                                *)
ApplyRecord(handlers, store, event, gone) ==
    LET stmts == Body(handlers, event)
        at[n \in 0 .. Len(stmts)] ==
            IF n = 0 THEN [rows |-> store, fine |-> TRUE]
            ELSE IF at[n - 1].fine THEN Execute(at[n - 1].rows, stmts[n], event, gone)
            ELSE at[n - 1]
    IN  at[Len(stmts)]

(* A whole projection of a log's first records: heklang's own read model.  *)
Project(handlers, log, length, gone) ==
    LET at[n \in 0 .. length] ==
            IF n = 0 THEN [rows |-> <<>>, fine |-> TRUE]
            ELSE IF at[n - 1].fine THEN ApplyRecord(handlers, at[n - 1].rows, log[n], gone)
            ELSE at[n - 1]
    IN  at[length]

---------------------------------------------------------------------------
(* What the parser makes sure of. Content comes from a field that is       *)
(* sealed, under the key the event names; a statement fills columns of its *)
(* entity, a `put` all of them, and its key is nothing sealed; a column    *)
(* whose type is plain is given nothing that is not, and only a plain one  *)
(* is counted from.                                                        *)

ColumnsOf(entity) == {<<entity, c>> : c \in DOMAIN Entities[entity].columns}

FieldFits(expr, event, column, plain) ==
    /\ expr.src = "field"
    /\ expr.of \in DOMAIN event.with
    /\ Sealed(event.with[expr.of]) => column \notin plain

ConstFits(expr) == expr.src = "const" /\ ~Sealed(expr.of)

StoredFits(expr, column, plain) ==
    LET of == <<column[1], expr.of>>
    IN  /\ of \in ColumnsOf(column[1])
        /\ \/ expr.src = "stored" /\ (column \in plain => of \in plain)
           \/ expr.src = "count" /\ of \in plain

StatementFits(stmt, event, plain) ==
    /\ stmt.entity \in DOMAIN Entities
    /\ \A c \in DOMAIN stmt.fields :
          LET expr == stmt.fields[c]
              column == <<stmt.entity, c>>
          IN  /\ column \in ColumnsOf(stmt.entity)
              /\ \/ FieldFits(expr, event, column, plain)
                 \/ ConstFits(expr)
                 \/ stmt.do # "put" /\ StoredFits(expr, column, plain)
    /\ \/ /\ stmt.do = "put"
          /\ DOMAIN stmt.fields = DOMAIN Entities[stmt.entity].columns
       \/ /\ stmt.do \in {"patch", "update", "delete"}
          /\ \/ FieldFits(stmt.key, event, <<>>, {<<>>})
             \/ ConstFits(stmt.key)

ASSUME ProjectorsAssumption ==
    \A p \in Projectors :
        \E plain \in SUBSET UNION {ColumnsOf(entity) : entity \in DOMAIN Entities} :
            \A event \in Landing :
                /\ Body(p, event) \in Seq(Range(Body(p, event)))
                /\ \A stmt \in Range(Body(p, event)) : StatementFits(stmt, event, plain)

ASSUME EntitiesAssumption ==
    \A entity \in DOMAIN Entities : \A c \in DOMAIN Entities[entity].columns :
        ~Sealed(Entities[entity].columns[c].zero)

ASSUME EventsAssumption ==
    \A event \in Landing :
        /\ event.seals \in DOMAIN Ancestors \cup {NoSubject}
        /\ \A f \in DOMAIN event.with :
              Sealed(event.with[f]) => event.with[f] \in KeysOfEvent(event)

---------------------------------------------------------------------------

ProjectionInit ==
    /\ projector \in Projectors
    /\ records = <<>>
    /\ erased = {}
    /\ rows = <<>>
    /\ given = 0
    /\ stuck = FALSE

LandRecord(event) ==
    /\ Len(records) < MaxRecords
    /\ records' = Append(records, event)
    /\ UNCHANGED <<projector, erased, rows, given, stuck>>

EraseKey(key) ==
    /\ Cardinality(erased) < MaxErased
    /\ erased' = erased \cup {key}
    /\ UNCHANGED <<projector, records, rows, given, stuck>>

(* `Projection::apply`, into rows that are shredded on the way through.    *)
ApplyNext ==
    /\ ~stuck
    /\ given < Len(records)
    /\ LET wrote == ApplyRecord(projector, rows, records[given + 1],
                                Unreadable(Told(records)))
       IN  /\ rows' = wrote.rows
           /\ stuck' = ~wrote.fine
           /\ given' = IF wrote.fine THEN given + 1 ELSE given
    /\ UNCHANGED <<projector, records, erased>>

(* The rows are built again, in a store apart.                             *)
ProjectAgain ==
    LET built == Project(projector, records, given, Unreadable(Told(records)))
    IN  /\ built.fine
        /\ rows' = built.rows
        /\ UNCHANGED <<projector, records, erased, given, stuck>>

AnyKey == UNION {{<<s, id>> : id \in UNION {Range(e.carries[s]) : e \in Landing}} : s \in DOMAIN Ancestors}

ProjectionNext ==
    \/ \E event \in Landing : LandRecord(event)
    \/ \E key \in AnyKey : EraseKey(key)
    \/ ApplyNext
    \/ ProjectAgain

ProjectionSpec == ProjectionInit /\ [][ProjectionNext]_projectionVars

---------------------------------------------------------------------------
(* The key store of docs/effects.md rule 12: the first event that seals    *)
(* under a key, or under one below it, mints it, wrapped in the nearest    *)
(* key above, where the event says which that is.                          *)

KeysMinted(event) ==
    IF event.seals = NoSubject THEN <<>>
    ELSE <<CHOOSE key \in KeysOfEvent(event) : TRUE>> \o Chain(event)

StoredUnder(log) ==
    [key \in UNION {Range(KeysMinted(log[i])) : i \in DOMAIN log} |->
        LET first == Min({i \in DOMAIN log : key \in Range(KeysMinted(log[i]))})
            line  == KeysMinted(log[first])
        IN  {line[n + 1] : n \in {m \in 1 .. Len(line) - 1 : line[m] = key}}]

(* Everything a key hangs from: no hierarchy is deeper than the backstop.  *)
HangsFrom(log, key) == Climb(StoredUnder(log), key, MaxWrapDepth)

Lost(key) == HangsFrom(records, key) \cap erased # {}

(* Events that do not say two things of one key: each names one ancestor   *)
(* of a sort, and where a key is named above another, any event that names *)
(* it says the same is above it. A key nothing hangs from may be said to   *)
(* hang from one thing and later from another.                             *)
OneOfEach ==
    \A event \in Landing : event.seals # NoSubject =>
        \A i \in DOMAIN Ancestors[event.seals] :
            Len(event.carries[Ancestors[event.seals][i]]) = 1

HangsAlike(line, other) ==
    \A i \in DOMAIN line, j \in DOMAIN other :
        i > 1 /\ line[i] = other[j] =>
            /\ Len(line) - i = Len(other) - j
            /\ \A d \in 1 .. Len(line) - i : line[i + d] = other[j + d]

HangAlike ==
    \A event, other \in Landing : HangsAlike(KeysMinted(event), KeysMinted(other))

WrapsAlike == OneOfEach /\ HangAlike

(* What a runner tells a world of a log's keys is what a key store that    *)
(* recorded them one by one would say: an erasure reaches exactly the      *)
(* content that hangs from it (src/testing.rs:151).                        *)
MintedAsStored ==
    \A key \in UNION {KeysOfEvent(records[i]) : i \in DOMAIN records} :
        Gone(key, Told(records)) <=> Lost(key)

(* A record that is applied, or a read model that is built again, writes   *)
(* no content whose key, or a key above it, is gone (docs/projectors.md    *)
(* rule 9): what an erase leaves in a row is gone from it at the row's     *)
(* next write.                                                             *)
WritesNothingGone ==
    [][\A cell \in DOMAIN rows' :
          cell \notin DOMAIN rows \/ rows'[cell] # rows[cell] =>
             \A c \in DOMAIN rows'[cell] :
                Sealed(rows'[cell][c]) => ~Lost(rows'[cell][c])]_projectionVars

(* Building the read model again changes nothing but what was erased: the  *)
(* order of writes and erasures leaves no other mark on it.                *)
RebuildsTheSame ==
    LET built == Project(projector, records, given, Unreadable(Told(records)))
    IN  built.fine /\ ~stuck =>
            built.rows = [cell \in DOMAIN rows |->
                [c \in DOMAIN rows[cell] |->
                    IF Sealed(rows[cell][c]) /\ Lost(rows[cell][c]) THEN None
                    ELSE rows[cell][c]]]
===============================================================================
