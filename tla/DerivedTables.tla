---------------------------- MODULE DerivedTables ----------------------------
(***************************************************************************)
(* The read model a program's folds imply, kept record by record: `Tables` *)
(* and `Rebuild` of src/interp.rs writing through a host's `Columns`.      *)
(*                                                                         *)
(* A store is a function from cells, <<fold, key>>, to the trace of the    *)
(* accumulator. A table has the rows some cell of its folds stands in.     *)
(* The host follows the log with `apply` and, beside that, rebuilds some   *)
(* columns by a replay through `only`, which it swaps in at the end.       *)
(***************************************************************************)
EXTENDS KeyedFolds

CONSTANTS
    Programs,      \* the programs a deployment may have
    Events(_),     \* the events that may land, by program
    MaxLog,        \* bound on the log
    MaxRebuilds,   \* bound on rebuilds
    Ways(_, _)     \* how a host prepares a rebuild of some folds of a program:
                   \* "shadow" or "keys"

ASSUME ProgramsAssumption == \A p \in Programs : Accepted(p) /\ Shaped(p)
ASSUME BoundsAssumption   == MaxLog \in Nat /\ MaxRebuilds \in Nat

ASSUME WaysAssumption ==
    \A p \in Programs : \A asked \in SUBSET DOMAIN p : Ways(p, asked) \subseteq {"shadow", "keys"}

VARIABLES
    program,   \* the program deployed
    log,       \* the records
    live,      \* the store that follows the log
    applied,   \* how many records the live store has been given
    job,       \* the rebuild under way, or Idle
    rebuilds,  \* how many were begun
    dead,      \* a key reached an arm whose gate it fails: `MalformedIr`
    blind,     \* history: a rebuild swapped in had looked up what it did not keep
    refolds,   \* history: by log length, every fold read at every key
    answers    \* history: by log length, what the columns are defined to hold

vars == <<program, log, live, applied, job, rebuilds, dead, blind, refolds, answers>>

history == <<refolds, answers>>

Idle == [way |-> "none"]

Empty == <<>>

Columns(store, folds) == {cell \in DOMAIN store : cell[1] \in folds}

Rows(store, table) ==
    {cell[2] : cell \in {c \in DOMAIN store : program[c[1]].table = table}}

Trace(store, f, key) == IF <<f, key>> \in DOMAIN store THEN store[<<f, key>>] ELSE <<>>

---------------------------------------------------------------------------
(* `Tables::applying`: what a record writes is worked out before any of it *)
(* is written, the arms that pin the whole key before the ones that range. *)

CoversAny(pins, key) == TRUE
Covers(pins, key) == \A p \in DOMAIN pins : key[p] = pins[p]

(* The parts an arm pins, from the record and its lookups.                 *)
PinsOf(f, n, event, read) ==
    LET arm == program[f].arms[n]
        match(p) == Match(arm, p)
        pinned == {p \in PartsOf(program, f) : match(p).how # "open"}
    IN  [p \in pinned |->
            CASE match(p).how = "field"    -> event.with[match(p).by]
              [] match(p).how = "fixed"    -> match(p).by
              [] match(p).how = "computed" ->
                    ValueOf(match(p).by.is, <<>>, event, read)]

(* Checked ahead of lookups and computed parts, on the parts that need     *)
(* neither.                                                                *)
Narrowed(f, n, event) ==
    LET arm   == program[f].arms[n]
        early == {p \in PartsOf(program, f) : Match(arm, p).how \in {"field", "fixed"}}
        key   == [p \in early |-> IF Match(arm, p).how = "fixed" THEN Match(arm, p).by
                                  ELSE event.with[Match(arm, p).by]]
    IN  (DOMAIN arm.keys # {} \/ arm.lookups # <<>>) =>
            /\ NoValue \notin Range(key)
            /\ Filtered(arm, key, event)

(* What the host hands back for a range: its rows under the pins, or more. *)
Offered(store, f, pins, lax) ==
    {key \in Rows(store, program[f].table) : lax \/ Covers(pins, key)}

(* The keys an arm considers and, of those, the ones it writes.            *)
Candidates(store, f, n, event, read, minted, lax) ==
    LET pins == PinsOf(f, n, event, read)
        arm  == program[f].arms[n]
    IN  IF ~Narrowed(f, n, event) \/ Skips(arm, event, read)
            \/ \E p \in DOMAIN pins : Match(arm, p).how = "field" /\ pins[p] = NoValue
        THEN {}
        ELSE IF Pinned(program, f, n) THEN {pins}
        ELSE {key \in Offered(store, f, pins, lax) \cup minted : Covers(pins, key)}

ArmKeys(store, f, n, event, read, minted, lax) ==
    {key \in Candidates(store, f, n, event, read, minted, lax) :
        Filtered(program[f].arms[n], key, event)}

ArmsOn(folds, event) ==
    UNION {{<<f, n>> : n \in {m \in DOMAIN program[f].arms :
                                program[f].arms[m].on = event.type}} :
           f \in folds}

(* A lookup is answered from the store as it stands before the record.     *)
ReadBefore(store, f, n, event) ==
    LET held == [g \in DirectReads(program, f) |->
                    [key \in KeysOf(program[g].table) |-> Value(Trace(store, g, key))]]
    IN  LookedUp(program[f].arms[n], event, held)

Minted(store, folds, event, table, lax) ==
    UNION {ArmKeys(store, a[1], a[2], event, ReadBefore(store, a[1], a[2], event), {}, lax) :
           a \in {b \in ArmsOn(folds, event) :
                    program[b[1]].table = table /\ Pinned(program, b[1], b[2])}}

(* Arm by arm, the keys this record writes.                                *)
Written(store, folds, event, lax) ==
    [a \in ArmsOn(folds, event) |->
        ArmKeys(store, a[1], a[2], event, ReadBefore(store, a[1], a[2], event),
                Minted(store, folds, event, program[a[1]].table, lax), lax)]

(* One row's arms, in the order they were written.                         *)
OrderOfPasses(f, arms) ==
    InOrder({n \in arms : Pinned(program, f, n)})
        \o InOrder({n \in arms : ~Pinned(program, f, n)})
Order(f, arms) == InOrder(arms)

FoldInto(store, f, key, at, event, arms, keep) ==
    LET order == Order(f, arms)
        fold(n) == Entry(program[f].arms[n], n, at, key, event,
                         ReadBefore(store, f, n, event))
    IN  IF keep
        THEN Trace(store, f, key) \o [i \in DOMAIN order |-> fold(order[i])]
        ELSE <<>>

(* The writes of one record, all of them worked out from `store`. Of the   *)
(* folds not kept, only the key is.                                        *)
WriteAll(store, at, folds, kept, lax) ==
    LET event   == log[at + 1]
        written == Written(store, folds, event, lax)
        arms(f, key) == {a[2] : a \in {b \in DOMAIN written : b[1] = f /\ key \in written[b]}}
        cells == UNION {{<<a[1], key>> : key \in written[a]} : a \in DOMAIN written}
    IN  [cell \in cells \cup DOMAIN store |->
            IF cell \in cells
            THEN FoldInto(store, cell[1], cell[2], at, event,
                          arms(cell[1], cell[2]), cell[1] \in kept)
            ELSE store[cell]]

ApplyingByTable(store, at, folds, kept, lax) ==
    LET plain == {f \in folds : Reads(program, f) = {}}
    IN  WriteAll(WriteAll(store, at, plain, kept, lax), at, folds \ plain, kept, lax)
Applying(store, at, folds, kept, lax) == WriteAll(store, at, folds, kept, lax)

(* A key that the arm's own gate refuses, so late, is a broken layout.     *)
DeadGates(store, at, folds, lax) ==
    \E a \in ArmsOn(folds, log[at + 1]) :
        LET event == log[at + 1]
            read  == ReadBefore(store, a[1], a[2], event)
        IN  \E key \in Candidates(store, a[1], a[2], event, read,
                            Minted(store, folds, event, program[a[1]].table, lax), lax) :
                ~Live(program[a[1]].arms[a[2]], key)

---------------------------------------------------------------------------
(* What a stored column is: its fold over the records that pinned its key  *)
(* and, of those that range, the ones that found the key's row there, or   *)
(* made it.                                                                *)

(* Arm `n` takes the record at a key, were the columns what they are       *)
(* defined to be before it.                                                *)
ReadAt(before, event, f, n) ==
    LookedUp(program[f].arms[n], event, Values(program, f, before.trace))

TakenAt(before, event, f, n, key) ==
    Takes(program[f].arms[n], key, event, ReadAt(before, event, f, n))

Born(before, event) ==
    UNION {{<<program[f].table, key>> : key \in {k \in KeysOf(program[f].table) :
                \E n \in DOMAIN program[f].arms :
                    Pinned(program, f, n) /\ TakenAt(before, event, f, n, k)}} :
           f \in {g \in DOMAIN program : Stored(program, g)}}

TakesIn(before, event, f, key) ==
    {n \in DOMAIN program[f].arms :
        /\ TakenAt(before, event, f, n, key)
        /\ \/ Pinned(program, f, n)
           \/ <<program[f].table, key>> \in before.rows \cup Born(before, event)}

Defined(before, at, event) ==
    [rows  |-> before.rows \cup Born(before, event),
     trace |-> [f \in DOMAIN program |->
        [key \in KeysOf(program[f].table) |->
            LET order == InOrder(TakesIn(before, event, f, key))
            IN  before.trace[f][key]
                    \o [i \in DOMAIN order |->
                            Entry(program[f].arms[order[i]], order[i], at, key, event,
                                  ReadAt(before, event, f, order[i]))]]]]

---------------------------------------------------------------------------

Kept(folds) == {f \in folds : Stored(program, f)}

AllFolds == Kept(DOMAIN program)

(* `Tables::query`: every event some column folds.                         *)
Subscribed(event) ==
    \E f \in AllFolds : \E n \in DOMAIN program[f].arms : program[f].arms[n].on = event.type

Init ==
    /\ program \in Programs
    /\ log = <<>>
    /\ live = Empty
    /\ applied = 0
    /\ job = Idle
    /\ rebuilds = 0
    /\ dead = FALSE
    /\ blind = FALSE
    /\ refolds = <<Seeds(program)>>
    /\ answers = <<[rows |-> {}, trace |-> Seeds(program)]>>

Land(event) ==
    /\ Len(log) < MaxLog
    /\ log' = Append(log, event)
    /\ refolds' = Append(refolds, Refold(program, Last(refolds), Len(log), event))
    /\ answers' = Append(answers, Defined(Last(answers), Len(log), event))
    /\ UNCHANGED <<program, live, applied, job, rebuilds, dead, blind>>

(* `Tables::apply`, given each record of the subscription.                 *)
Follow(lax) ==
    /\ applied < Len(log)
    /\ applied' = applied + 1
    /\ IF Subscribed(log[applied + 1])
       THEN /\ live' = Applying(live, applied, AllFolds, AllFolds, lax)
            /\ dead' = (dead \/ DeadGates(live, applied, AllFolds, lax))
       ELSE UNCHANGED <<live, dead>>
    /\ UNCHANGED <<program, log, job, rebuilds, blind, history>>

(* `Tables::only`. A host replays the closure into a store apart and, of   *)
(* the columns it did not ask for, keeps their values or but their keys.   *)
Begin(asked, way) ==
    LET folds == Closure(program, asked)
    IN  /\ job = Idle
        /\ rebuilds < MaxRebuilds
        /\ rebuilds' = rebuilds + 1
        /\ job' = [way |-> way, asked |-> asked, folds |-> folds, at |-> 0,
                   kept |-> IF way = "keys" THEN asked ELSE folds,
                   store |-> Empty]
        /\ UNCHANGED <<program, log, live, applied, dead, blind, history>>

(* `Rebuild::apply`.                                                       *)
Replay(lax) ==
    /\ job # Idle
    /\ job.at < applied
    /\ job' = [job EXCEPT !.at = @ + 1,
                          !.store = IF Subscribed(log[job.at + 1])
                                    THEN Applying(@, job.at, job.folds, job.kept, lax)
                                    ELSE @]
    /\ dead' = (dead \/ DeadGates(job.store, job.at, job.folds, lax))
    /\ UNCHANGED <<program, log, live, applied, rebuilds, blind, history>>

(* What the rebuild looks up it has kept the values of.                    *)
Sighted == \A f \in job.folds : DirectReads(program, f) \subseteq job.kept

(* The columns asked for, swapped in once the replay has caught up.        *)
Swap ==
    /\ job # Idle
    /\ job.at = applied
    /\ live' = LET stay == DOMAIN live \ Columns(live, job.asked)
               IN  [c \in Columns(job.store, job.asked) \cup stay |->
                        IF c \in stay THEN live[c] ELSE job.store[c]]
    /\ job' = Idle
    /\ blind' = (blind \/ ~Sighted)
    /\ UNCHANGED <<program, log, applied, rebuilds, dead, history>>

Next ==
    \/ \E event \in Events(program) : Land(event)
    \/ \E lax \in BOOLEAN : Follow(lax) \/ Replay(lax)
    \/ \E asked \in SUBSET DOMAIN program \ {{}} : \E way \in Ways(program, asked) :
          Begin(asked, way)
    \/ Swap

Spec == Init /\ [][Next]_vars

---------------------------------------------------------------------------

Holds(store, folds, traces) ==
    \A f \in folds : \A key \in KeysOf(program[f].table) :
        Trace(store, f, key) = traces[f][key]

(* However the arms of a record are spread over columns, tables and keys,  *)
(* and whatever columns were rebuilt meanwhile, the store holds what the   *)
(* columns are defined to hold (docs/folds.md section 11), unless a        *)
(* rebuild was swapped in that kept but the keys of what it looks up.      *)
ColumnsAreDefined == ~blind => Holds(live, AllFolds, answers[applied + 1].trace)

(* A column that neither ranges nor reads through one that does answers    *)
(* exactly what `Interpreter::fold` does, for every key and at every       *)
(* length of the log, under the same condition: it has a history           *)
(* (`fold_steps`).                                                         *)
PinnedColumnsRefold ==
    ~blind => Holds(live, {f \in AllFolds : ~RangedThrough(program, f)}, refolds[applied + 1])

(* A rebuild of some columns answers what the whole sink does, at every    *)
(* record of its replay, if it keeps the values of what it looks up.       *)
RebuildsAnswer ==
    job # Idle /\ Sighted => Holds(job.store, Kept(job.asked), answers[job.at + 1].trace)

(* "Recording each key and discarding the value is enough, since `keys` is *)
(* all a ranged arm reads" (docs/host.md): so does one that keeps of the   *)
(* columns it did not ask for only the keys, whichever those are.          *)
KeysAreEnough ==
    job # Idle => Holds(job.store, Kept(job.asked), answers[job.at + 1].trace)

(* No key the sink hands an arm fails the arm's gate, whatever a host      *)
(* hands back for a range: no record aborts as malformed.                  *)
GatesStayLive == ~dead
=============================================================================
