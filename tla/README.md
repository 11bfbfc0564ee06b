# Verification of heklang

heklang is a small language for event-sourced programs and the interpreter that
runs them: commands that decide against an event log and append to it, effects
that react to what was appended, projections and derived tables that fold it
into rows. This directory holds TLA+ modules of the parts whose correctness
depends on the order in which things happen, the configurations TLC checks
them in, and the theorems TLAPS proves of them.

Paths below are relative to the repository (`src/interp.rs`, `docs/host.md`).

## 1. The system

| part | where | state | operations |
| --- | --- | --- | --- |
| command execution | `src/interp.rs` `execute`, `run_retrying` | per run: pinned clock, frame, stage, pinned head, resolved slices, fold, read set, emitted events, carry, attempt | one run: prepare, per attempt and stage run / resolve / fold / run, append, retry |
| host seam | `src/host.rs` traits; `src/harness.rs` the in-memory host | the log; the key store; credentials; the network | `head`, `record`, `read`, `append`; `decrypt`, `erase`; `send`; `secret`; `now` |
| effect delivery | `src/interp.rs` `deliver`, `invoke_arm`, `Effects` | per delivery: the frame, how often each call was made; per position: the journal | look up, pin the clock, run the arm, per call replay or perform and record, reveal, answer |
| dispatcher | `src/interp.rs` `drive`, `collapsed` | cursor, collapse set, cascade depth per position, counts | walk the log, follow its growth, stop at a wedge |
| key store | `src/harness.rs` `Keyring` | destroyed keys, what each key is wrapped in | erase, is erased |
| projections | `src/interp.rs` `Projection`, `Store`, `Shredding` | rows per entity | apply a record, put / upsert / patch / delete, shred |
| derived tables | `src/interp.rs` `Tables`, `Rebuild`, `src/tables.rs` `Layout` | a value per table, key and column | apply a record, rebuild some columns |
| by-key folds | `src/interp.rs` `folding`, `fold`, `lookups` | an accumulator | fold a prefix of the log for one key |
| static checks | `src/parse.rs` (`scan`, `find_cycle`, ...), `src/inline.rs` | none after load | erase-last, command/effect cycles, guard and `fn` cycles |
| parser, builder | `src/parse.rs`, `src/lex.rs`, `src/build.rs` | the program being built | stages are closed where a declaration follows a statement |
| values | `src/value.rs`, `src/types.rs`, `src/scaled.rs` | none | typed values, decimals with a declared scale |
| digest | `src/digest.rs` | none | one packed form and hash per declaration, what a deploy changed |
| diagnostics, test runner | `src/diagnostic.rs`, `src/testing.rs` | none | messages, one test on a fresh harness |
| command line, editor grammar | `cli/`, `tree-sitter-hek/` | none | I/O and formatting |

How they interact. A *run* of a command reads the log through the seam and ends
in one guarded `append`; the log is what all runs, all effects and all hosts
share, and the seam calls are the only points at which a run can notice another
one. An *effect* is handed one position of the log by its host, reads the log up
to that position, and acts on the world through journaled calls, one of which,
`invoke`, is a run of a command and so lengthens the log. The key store is
shared by every effect that erases, every one that reveals, and the read models.
Projections and tables only read records. The journal belongs to one position of
one effect and outlives the process.

What is hard in it: other writers landing between a decision and its append; a
retry that resumes a fold rather than repeating it; decisions made in stages,
where a later stage's slices depend on an earlier stage's fold; a delivery that
dies anywhere and is started from the top again; calls made twice on purpose
beside calls made twice by accident; a clock, a credential, a key or a log that
changed between two deliveries; records that both create and range over keys.

What makes each part correct:

* commands: what commits was decided from the log it extends; what refuses was
  decided from a log there was; a conflict names a record that mattered; a retry
  changes nothing but the cost;
* deliveries: a second delivery retraces the first and asks the world for
  nothing it has recorded; every position is answered at last, and answered once
  as far as the world can tell;
* dispatcher: every position answered, collapsed or the one it stopped at, in
  order; only the newest of a lane in the backlog is delivered;
* projections and tables: the rows equal the fold of the log, whatever the
  rebuild and whatever was erased;
* folds: what is stored is keyed by ids of the log and sealed as its type says;
* static checks: what they accept cannot do at run time what they exclude;
* values: an amount is exact or refused, an accepted expression evaluates;
* digest: two programs have one hash exactly when they do the same.

## 2. Modules and code

| module | what it is |
| --- | --- |
| `CommandRun` | command execution over the log seam, several runs and foreign writers |
| `SerialCommands` | what commands promise: decisions taken one at a time |
| `SerialRuns` | how `CommandRun` implements `SerialCommands` |
| `MCCommandRun` | a shop of three commands on `SerialRuns` |
| `CommandRunProofs` | the inductive invariant of `CommandRun` and seven theorems |
| `SerialRunsProofs` | the refinement, step by step |
| `EffectDelivery` | delivering positions, the journal, the calls, crashes |
| `DurableEffects` | what effects promise: each body runs once |
| `DurableDeliveries` | how `EffectDelivery` implements `DurableEffects` |
| `MCEffectDelivery` | four effects on `DurableDeliveries` |
| `EffectDeliveryProofs` | the inductive invariant of `EffectDelivery`, seven theorems, the refinement among them |
| `Drive` | one effect walking a log that grows under it |
| `MCDrive` | an effect of an `on latest` and a plain arm on `Drive` |
| `DriveProofs` | the inductive invariants of `Drive` and four theorems |
| `KeyedFolds` | named folds: the layout of columns, and the fold of the log for one key |
| `DerivedTables`, `MCDerivedTables` | the tables those folds imply, followed and rebuilt; four programs |
| `DerivedTablesProofs` | the inductive invariant of `DerivedTables` and four theorems |
| `Projection`, `MCProjection` | a projector's rows, the keys its sealed columns are read with |
| `ProjectionProofs` | the inductive invariant of `Projection` and four theorems |
| `FoldValues`, `MCFoldValues` | what a fold may store: seals, subjects, and the fold applied |
| `MCReadModels` | the three above, one at a time |
| `Statements`, `Bodies`, `MCBodies` | what the loader accepts of a body; the body run |
| `CycleWalk` | the search for cycles of declarations |
| `SelfTrigger`, `MCSelfTrigger` | effects that set each other off, as reckoned and as it happens |
| `Bounds`, `MCBounds` | `@max` where a text is written and where it is moved |
| `LoaderProofs` | the five theorems of the last three rows |
| `Numerals`, `Decimals`, `MCDecimals` | whole numbers, decimals and money |
| `DecimalsProofs` | that they are exact, for every width |
| `Types`, `Methods`, `Expressions`, `MCExpressions` | the types of expressions beside their values |
| `Digest`, `Redeploy`, `MCRedeploy` | the digest form; a program deployed again after an edit |
| `MCStatic` | the questions of the static checks and values above, one at a time |
| `MCPromises` | what the documentation says of every program that loads, one promise after another |

`DerivedTables` and `FoldValues` share the log and the by-key fold of the code
with `CommandRun`, but not the module: a command's folds are traces there, and a
table is about which keys an arm reaches.

### CommandRun

A step of the model is a touch of something shared plus the local code up to
the next: `Begin` (the clock, the arguments), `RunPre` and `RunPost` (the two
halves of a stage), `OpenFold` (resolve, resume or seed, pin the head), `Visit`
(one record handed to the fold), `CloseFold` (read set, carry), `Settle` (carry
kept, condition built, a refusal answered), then `AppendEvents`, `Retry` or
`GiveUp`; `Fails` is any of the fallible calls failing. Other runs and
`External` interleave between any two of them, *inside* a read too.

The variables of a run are the locals of `execute` under their own names
(`prepared`, `after`, `read`, `emitted`, `ret`, `leading`, `folded`, `carried`,
`attempt`); `stage`, `cursor`, `resolved` and `acc` are its loop and fold
positions. `trail` is a history of the folds of the attempt and is read by no
action.

What a program computes is a parameter (`Pre`, `Slices`, `Post`, `Accepts`,
`Stages`, `Reads`), so what is checked and proved is about the interpreter and
every program. A fold is represented by its *trace*: the frame its seed was
evaluated in and, per record, which arms matched and the frame their expressions
read. The value of any fold is a function of that trace. Two folds with one
trace are one fold, and a carry taken from the wrong place has a wrong trace.
The statements of a stage receive the traces and may overwrite them, as
statements may assign into a fold.

Abstractions: a filter that does not evaluate, an argument that does not fit or
an emit that does not validate is an `error` or a refusal of the half that holds
it; key gates are the `live` bit of a slice, as `Resolved::live` is; computed
keys and lookups of named folds are not in this module. Every stage but the
last reads, because a stage is closed by a declaration below a statement and the
parser refuses a fold without an arm. The harness's `read` skips records of
other event types; the model visits every record of the range and re-matches,
which is what the fold does with a host that narrows less.

### SerialCommands

The log, when each request arrived and how it ended. `Commit` decides from the
whole log and appends in one step; `Refuse` decides from the log as it stood at
some moment of the call; `Beaten` needs a record a decision would have folded,
landed after the moment it was decided at. `Decide` is `execute` without
interleaving: `DecideStage` is one stage, each fold one expression, and
`DecideTo` the stages up to one, a recursive function of how many. It is the
reference the detailed module is compared with, so it shares no operator with
it. The mapping is in `SerialRuns`: a run asks when its clock is pinned, and
what an attempt keeps for itself is hidden.

### EffectDelivery

A delivery is `Deliver` (look the record up, select an arm, read its lane),
`PinClock`, then per call of the body `Replay`, or `Call` followed by what
performs it (`Answered` and `Absorbed` for a request, `Invoked` and `Beaten` for
a command, `Erases`) and `Record`; `Reveal` or `Skip`; and at last `Return`,
`Raise` (a wedge) or `Crash`. `Advance` is the host taking the answer and moving
its cursor; a crash before it means an answered position is delivered again.
Performing and recording are separate steps, as they are separate statements,
so a crash falls between them.

A body is a parameter, `Turn`: the next thing it does as a function of the log
prefix its folds read and of what its calls came to so far. That is the whole of
what a body can depend on: its trigger is in the prefix, `now()` is the first
call, folds stop at the trigger (`Some(position)`), and `secret` is only ever
put into a request, where it shows as its name (`Shown`) and goes out as its
value (`Wire`). `seen` is the body's progress, and with it the ordinals.
`best`, `performed`, `returned` and `lost` are histories.

Abstractions: an invoked command is one step, its decision `Decide` on the log
as it stands, or it is beaten or raises (`Beaten`). That is what
`SerialCommands` says of runs and `command_safety` checks. A request that
fails in transport may still have reached its server; the code and the model
count it as not performed. Several deliveries of one position at one time are
not in the model: the journal is handed to one. `log` statements are left out.
The presence of a credential is fixed; its value is rotated.

### DurableEffects

Per position, what the one run of its body came to (`made`), whether the world
was asked for its next call, and its outcome. The mapping takes `made` to the
furthest any delivery got (`best`) and the outcome to the answer of the delivery
the cursor moved on; it is in `DurableDeliveries`. `Skip` is allowed at any reveal the run has come to, since
a delivery from the top meets them again.

### Drive

The loop of `drive`, a position a step: `PassOver` (it is in the collapse set),
`Deliver` (what the delivery came to and what it appended) or `Finish`. The
variables are the locals of `drive`: `start`, `collapsed`, `steps`, `position`;
`came` says per position what `Counts` tallies, and `cause`, a history read by
no action, which delivery appended a record. `ended` is the way out of the loop:
the head was reached, a wedge, or the error of a cascade.

The collapse set is what `collapsed` computes: the scan stops at the first
`on latest` record whose key cannot be built, and a position is in the set when
a later one of its arm and key was scanned. The code keeps the newest position
per lane and inserts the one it replaces; a position is replaced exactly when a
later one of its lane is scanned, which is the definition.

What arms an effect has, what lanes its events are in and what a delivery
appends are parameters. A delivery is one step: a walk is the only writer
between its own reads of the head. The depths follow the code, every record a
delivery appended getting one more than the record delivered.

Abstractions: one walk of one effect, on a host of its own, as a test runs it
(`docs/host.md` keeps `drive` to the harness); a failing `head` or `record`, an
undeclared effect and the events the cascade error lists are left out. `on live`
is driven as `on`, so it is not a case of its own.

### KeyedFolds and DerivedTables

A program is its fold declarations: per arm the event, the filters, the gates,
the computed keys, the lookups and what it leaves. `KeyedFolds` has what
`src/tables.rs` derives of them (which folds are stored, which arms range, which
columns share a table) and the by-key fold of `Interpreter::fold`, key by key
and record by record. `DerivedTables` is the sink: `Land` lengthens the log,
`Follow` is `Tables::apply` for the next record, `Begin`, `Replay` and `Swap`
are a rebuild of some columns through `Tables::only`, beside the live store,
while records keep landing. One record's arms read the store from before it,
mint the keys they pin, and then write the keys they range over, the minted
ones included: the order of the passes is `Written`'s.

A value is kept beside the trace of the records that made it, so two columns
agree only if they took the same records in one order. A host may hand back
more rows than a range asked for (`lax`), which the gates have to absorb.
`dead` is the `MalformedIr` a gate raises when it meets a key it is not meant
for. `Defined` is the reference: what `docs/folds.md` section 11 says a column
holds, computed from the column before the record, without passes or candidates.

Three assumptions say what a program is. `Accepted` is what the parser checks:
lookups of stored folds, none of a fold through itself (`Reads` and `Closure`
are the least sets closed under their step, which is what the code's work lists
compute), and filters an arm with a computed part may have. `Shaped` is what a
declaration has by its grammar: parts of the key are what an arm fixes, computes
and filters by. `WaysAssumption` is about the host, which prepares each rebuild as
it likes: `Ways` lets it replay into an empty store ("shadow") or keep but the
keys of what it did not ask for ("keys"). A replay into an empty store is always
safe; to keep the keys is safe only where nothing replayed for its keys alone is
looked up (section 3, disagreements). `Sighted` says that of the rebuild under
way, and `blind`, a history, that one which was not was swapped in.

Abstractions: an arm's value is a part, a literal, a field or a lookup; a key's
parts are values of one type, and not optional (`docs/folds.md` allows an
optional part; a value of it is never `none` here); sealing is in `Projection`.

### Projection

`LandRecord`, `EraseKey`, `ApplyNext` (one record through `Projection::apply`:
every handler, every statement in order, and a row emptied of what is gone each
time it is taken up) and `ProjectAgain` (`Interpreter::project` over the whole
log). A column holds a value, nothing, or content under a key; `Shredded` is
what the interpreter makes of a row on its way through. A record that raises
leaves the rows as they were and the projector stuck on it.

The wrapping: `Told` is what `Minted` of the test runner tells its world of a
log's keys, the first event that seals under a key and says what is above it;
`Unreadable` is `Keyring::is_erased` for every key at once, a `Climb` of at most
`MaxWrapDepth` steps. `StoredUnder` is a key store that recorded the mints one
by one, which is what `Told` is compared with.

What is assumed is what the parser makes sure of. `ProjectorsAssumption`: some
columns are plain, a plain column is given nothing sealed and only a plain one
is counted from (`check_seal` and the types), a `put` fills every column, and the
key of a row is nothing sealed (`key_of`). `EventsAssumption`: what a field holds
sealed is under the key its event names. `EntitiesAssumption`: a column's zero
is plain. `BackstopAssumption`: no chain of ancestors is longer than the code's
backstop, as `src/harness.rs` says of `MAX_WRAP_DEPTH` ("longer than any declared
hierarchy").

Abstractions: the statements of a handler are in sequence here (branches and
loops of bodies are in `Bodies`); expressions are a field, a literal, a stored
column, a count. Whether a column is plain is one fact of the program here. The
parser learns it handler by handler (`src/parse.rs:6332`), so it accepts a
handler that computes with a column which only a later handler seals; evaluation
would raise there, and such projectors are left out.

### FoldValues

`Seed` picks a declaration and starts an arm's value; each action after it puts
one form about the value (a list, a record, a field read, a call, a method, an
`if`, a comprehension), with leaves for its other parts; `Accept` is the
checks of `fold_body` on the result: the arms' seals agree, the declaration
says so, and rule 17, `Invents`, which looks through each value for an id no
event claimed. `FoldNextRecord` evaluates the accepted arm on a record. `row` is
what is stored, `claimed` the ids the records carried. What a `fn` does is a
parameter, as what it returns.

Abstractions: elements of a list are held to the list's one type, the shape a
form takes is one of each kind of selector, and the runtime representation of a
subject's id is its integer, as in the code.

### Statements and Bodies

`Statements` is the loader on a tree of statements: who may say what (`gate`
and the narrower rules beside it), the builder's scopes, slots and stages, the
narrowing of an optional by a condition and by a branch that ends, the checks of
returns, and the erase-last scan with its fixed point over loops. It yields code
with slots. `Bodies` runs that code, a statement a step, over a frame where a
slot is unset, a seed, absent or there. What a loader accepts and an interpreter
then finds malformed shows as `broken`; a reveal after an erase as `late`, which
tells apart those the loader's scan comes across. An
expression is the names it uses and the builtins it reaches.

### CycleWalk

The depth-first search with the path for a stack that the loader has three
times (`fn`s, guards, lookups). A frame of the recursion is the names its loop
has still to visit; `Close`, `PassBy`, `Enter` and `Leave` are the turns of the
loop. The order of declarations, and of what each reaches, is arbitrary.

### SelfTrigger

A program is effects with arms and their own `fn`s, and commands with the events
they emit. `Loads` is `check_cycles` and `latest_never_invokes`: the walk over a
body's `fn` calls (`Walked`, the least set that holds what is queued), the edges
from event to event, the search over them. The code's search remembers only the
path it is on and takes the edges in the order they were collected; `Descents`
are the paths of it by length, over every order, each with its nodes and its
edges, and `FindCycles` the cycles one of them closes. `Handle` is what happens:
an arm on the last event of the chain, a command it may invoke by any path of
calls (`MayCall`, `MayInvoke`), an event of that command. An arm has its
statements and the arguments of the folds it reads by name, which run too but
which the loader's walk does not see; the chain keeps which of the two brought
each event about (`FollowsBy`).

### Bounds

The loader's `check_max` (`CheckMax`) beside the three places a text is written:
`Publish` (a caller's text, measured before it is sealed), `Copy` (a folded text
emitted into another event) and `Project` (a column). A text is its length; a
sealed one cannot be measured. What is written may be plainly read, narrowed,
handed on by a name (a fold of the module, a `let`, a branch) or a text of the
program's own; the loader knows the source of the first two only, and of a fold
only where it is the command's own. `slipped`, a history, marks a sealed text
that came through a write whose source is not known.

### Numerals and Decimals

`Numerals` has the operators of `src/types.rs` and `src/scaled.rs` with the
code's two widths as parameters: `Units` for `i64` and `Wide` for `i128`, under
`WidthsAssumption`, which says of the small widths what holds of the large ones
(`i128` holds the product of two `i64`s, and one at 18 places more). Powers of ten
and sums are recursive functions, so that something can be proved of them.
Each checked operation either stays inside its width or raises. `Decimals` asks
one question of amounts a step: an operator, a rounding, a negation, a sum,
an amount written out and read back. Both halves of
a product, a ratio and a half are compared with exact integer arithmetic.

### Types, Methods, Expressions

`Types` is which type fills which and how a value meets a declared position;
`Methods` is the checker's table of signatures beside what calling a method
does to the value it finds, which are two tables in the code too. `Expressions`
grows an expression one form a step (each action is a production of the parser:
operators, comparison, text interpolation, `if`, lists and comprehensions,
documents, fields, methods, `parse`, `reveal`, a declared position) and keeps, of the expression so far,
the type the parser works out and the value the interpreter comes to. What a
text or a document answers is any value of its type. `Unforeseeable` are the
errors no type could have told of; `LetThrough` the three the checker leaves to
evaluation.

### Digest and Redeploy

A program is a tree of named nodes. `Digest` is the packing: which parts of a
declaration its form takes and in which order, what is sorted, how slots are
numbered by first appearance, which folds a fold's form takes in, the entries,
signatures and the lists of what changed. A hash is kept as the form it covers,
which is to take SHA-256 for injective. `Redeploy` moves things about
(`Respell`: swaps of what has no order, renumbered slots) or changes them
(`Edit`), up to `MaxSteps` times, and compares two deployments with `Meaning`:
every path through a body as what it calls, emits and answers in order, computed
without the digest. A meaning is what the declaration does itself and what the
`fn`s do that it calls, through others too.

## 3. What is checked

TLC with two workers; no configuration needs more than four minutes. Runs with
`[v]` are meant to be violated and are the subject of the next section.

| run | question | bounds |
| --- | --- | --- |
| `command_safety` | carry, prefix, retry, commit and conflict properties; `SerialCommands` is implemented | 2 runs, foreign writers while the log is shorter than 2, at most 2 retries per run, cap 1; six requests: a strict and a loose two-stage one, one from the request alone, one read-only, one that raises at its emit, one whose arguments do not bind |
| `effect_deliveries` | replay, repetition and agreement properties; cursors advance | 2 effects, 2 crashes, 1 rotation, log of 3, 3 attempts per request; fairness below |
| `effect_refines` | `DurableEffects` is implemented | 4 effects (two of them odd: an ignored event, an unreadable lane, an arm that raises after a request), 1 crash, 3 attempts, log of 4 |
| `effect_local_erase` `[v]` | a statement of `docs/effects.md` | 1 effect, 1 crash |
| `drive` | the walk, its collapse set and its depth | every backlog of at most 3 of 6 events in 2 lanes, cascade of 2 |
| `read_models` | tables, projections, and what folds store | tables: 4 programs, log of 3, 1 rebuild; rows: log of 4, 1 erasure, wrapping 2 deep; folds: values of 2 forms, 2 records |
| `minted` `[v]` | a comment of the test runner | log of 4, 1 erasure |
| `static` | what the loader lets through | below |
| `bodies_reads` `[v]` | rule 9 of `docs/effects.md` where a fold argument reveals | loops of 2 turns |
| `sealed_folds` `[v]` | rules 7 and 12 of `docs/folds.md` where an arm calls a `fn` | values of 2 forms, 2 records |
| `loader_promises` `[v]` | what the documentation says of every program that loads | a few programs for each; expressions of 2 forms |
| `rebuild_keys` `[v]` | `docs/host.md` of keeping keys only | 2 programs that look up, log of 3, 1 rebuild |

`static` and `read_models` put several small questions side by side; whichever
moves first is the one a behaviour is about, so nothing interleaves that does
not in the code. The bounds of `static`: bodies of up to four statements with
nested `if`s and loops of 2 turns, in all eight kinds of declaration; every
graph of 3 declarations that reach up to 2 names, one of which may be
undeclared; two effects, two commands and chains of 5 events; 2 texts of length
at most 3 under bounds of 0 (none), 1 and 2; amounts at 8 and 16 bits with 2
places, about zero, about every half, and at the edges; expressions of 2 forms
over a slot of each kind of type; programs two changes apart.

Deadlock is not checked: a system whose requests are all answered and whose log
has reached its bound rightly stops, and so does a walk or a body that ended.

Properties of commands:

* `CarrySound`: what a retry resumes from is the exact fold of those slices
  below the carry's mark, seeded as the run seeds it.
* `OnePrefix`: every stage of an attempt folded exactly the prefix the attempt
  pinned, each record once and in order.
* `RetryReadsTheDelta`, `RetriesArePaidFor`: a retry folds nothing again, and no
  attempt is lost but to a record that landed since.
* `CommitsAreCurrent`, `ConflictsAreHonest`: what commits was decided on the
  whole log; what is beaten was beaten by a record it would have folded.
* `SerializesCommands`: all of it at once, for every interleaving.

No run is promised an answer of its own: against a writer that never stops, a host
that always asks again is answered never, which `execute` (`src/interp.rs:2384`)
leaves to the host. What can be said is what `RetriesArePaidFor` says of every
attempt, however many there are: each is lost to a record of its own.

Properties of deliveries:

* `ReplayFollows`: a delivery retraces the one that got furthest.
* `NothingIsRepeated`: a call is made again only if it landed and was lost
  before it was recorded.
* `RepeatsAreMade`: a call the program makes twice is made twice.
* `AnsweredIsSilent`, `AnswersAgree`: a position delivered after it was answered
  asks nothing of the world and answers alike, unless a key went.
* `DeliveriesAreDurable`: however delivered, a body runs once.
* `CursorsAdvance`: no wedge for ever, and an erased key does not wedge.

Properties of the walk:

* `CollapsedHaveStandIns`: a position is passed over only for a later one of its
  lane in the backlog that the walk delivers if it gets there, with no
  unreadable key before it to stop the walk.
* `DeliversWhatItOwes`: a walk that reaches the head passed over nothing else,
  and nothing that landed during the walk.
* `StopsRunawaysOnly`: the error of a cascade is for a chain of triggered events
  longer than the bound, and for every such chain, however much was appended.
* `WalkEnds`: there is no walk for ever, though an order sets off orders.

Properties of what is kept of a log:

* `ColumnsAreDefined`: whatever passes a record takes through tables, keys and
  candidates, and whatever was rebuilt meanwhile, a column holds its definition.
* `PinnedColumnsRefold`: a column that neither ranges nor reads through one that
  does is the by-key fold, at every length of the log.
* `RebuildsAnswer`: a rebuild holds the same at every record of its replay.
  These three are of hosts that keep the values of what a rebuild looks up; the
  runs have both kinds, and `rebuild_keys` shows what becomes of the other.
* `GatesStayLive`: no record aborts as malformed, however much a host hands back.
* `MintedAsStored`: what a runner says wraps a key is what a store would.
* `WritesNothingGone`: a write leaves no content whose key, or a key above it,
  is gone; `RebuildsTheSame`: a rebuild differs only by what was erased.
* `IdsComeFromTheLog`: a stored id where the type says subject came from a
  record, so an erasure reaches the row (rule 17).
* `ContentIsUnderItsSubject`: sealed content is stored under a type that says so.

Properties of what is loaded:

* `AcceptedBodiesRun`: no slot is read unset, no absent value unwrapped, no
  builtin reached without its host, no `fn` falls off its end.
* `OnlyTheOverlookedIsLate`: rule 9, over branches, loops, early ends and stages,
  but for a reveal in a fold's argument and for an erase above a loop whose body
  ends on both branches of an `if`.
* `VerdictsHold`: what the search reports is a cycle; what it clears has none.
* `LoopsAreRefused`: no loaded effect brings about its own event but by a step
  invoked in a fold's argument, no `on latest` arm invokes by its statements, and
  a refused effect has each step of the cycle it is refused for.
* `OnlyTheUntracedOutgrow`: a field or column holds more than its `@max` only
  where a sealed text came there through a name or a branch, and a projector
  never stops on a field it is handed.
* `AmountsHold`: an amount is the exact one, rounded as asked, or raised for a
  reason that is so; written out it reads back.
* `AcceptedExpressionsRun`: an accepted expression evaluates to its type or
  raises what no type could foresee, or one of the three errors that are let
  through; `SealsAreKnown`: seals are in the types, and nothing unsealed passes
  for a credential.
* `RespellingsPackAlike`, `NoChangeIsMissed`, `SignaturesTellTheOutside`: a hash
  moves for a change of what a declaration does itself and for nothing else, and
  what a declaration does through a `fn` never changes without some hash that
  moves; a signature moves exactly when something is seen otherwise.

Each of the weaker ones (`OnlyTheOverlookedIsLate`, `LoopsAreRefused`,
`OnlyTheUntracedOutgrow`, `AcceptedExpressionsRun`, `NoChangeIsMissed`, and the
three of rebuilds) says of what it gives up exactly which program or host loses
it, and is checked over those programs too. The strict property that the
documentation states stands beside it, in a run that is violated:
`NothingIsRevealedLate` in `bodies_reads`, `KeysAreEnough` in `rebuild_keys`, and
the rest in `loader_promises`.

`loader_promises` asks its questions one after the other. Each has an example to
the contrary among its programs, the next is asked when it was met, and what is
violated, `SomePromiseIsKept`, is their disjunction: the state that TLC ends in
breaks every one of them.

Why the bounds are enough to mean something. Two runs are needed for a conflict
and the foreign writer makes it possible to beat a run twice; with two retries
the carry of a carry is resumed. Two stages separate the leading stage from a
later one, the second filter depends on the first fold, and the shop's first
stage overwrites its fold so that a carry taken late would show. Among the
effects, `notify` has every kind of call in one body, a clock that decides
whether a call is repeated, a fold that a longer log would change, a command,
and an erase above a last call; two crashes reach a replay of a replay, and a
loss during it. A backlog of three holds a lane replaced twice, two lanes
interleaved, and an unreadable key between a position and its stand-in; a
cascade of two lets a chain end by itself, end at the bound and outrun it. Three
records reach a key minted, ranged over and minted again, and a record that does
two of these; a rebuild overlaps a landing on either side. Four records reach a
write, an overwrite, a delete and a write once more with an erasure anywhere
among them. Two forms put a slot under a call under a branch, which is where an
inference hands a type across. Fold values were also run once with three forms,
with the same answers. The widths keep the code's one inequality (a product of
two amounts, and an amount at every scale, fit the wide type), so no overflow
appears that the code does not have, and none is lost. Each property has a
mutant of the code's own definitions that it rejects under the same bounds
(`PROJECT.json`).

Fairness. `effect_deliveries` assumes that a host delivers a wedged position
again, which is what "a wedge does not advance" means in `docs/effects.md`; that
the network, if asked for ever, answers at last; and that a command, if run for
ever, is at last not beaten. The two last are strong, because each is enabled
only while a delivery is at such a call. Nothing is assumed of crashes but that
there are finitely many, and nothing of rotations. `drive` assumes that a walk,
which is one call, goes on to its end.

### Disagreements

Six runs are violated, five by one statement of the repository that the code does
not keep and `loader_promises` by several.

`effect_local_erase`. `docs/effects.md` rule 12 says under "Failing is
terminal": "Rule 9 makes a local erase-then-reveal impossible, so by
construction every terminal `reveal` an operator sees is caused by something
else". Rule 9 excludes a reveal *reachable after* an erase in one pass over the
arm. A reveal is not journaled, and a delivery lost after its erase starts again
above the reveal: reveal, request, command, erase, crash (or the last request
spends its attempts and wedges), deliver again, and the reveal meets the key
this very delivery destroyed. It is skipped, so the request below the erase is
never made. `DeliveriesAreDurable` holds of it: the skip is a skip.

`bodies_reads`. `docs/effects.md:457` says a program is rejected if and only if
a reveal is reachable from an erase. The scan (`src/parse.rs:12693`) looks at
the statements of an arm before fold arguments are spliced into its halves, so
`erase(e.id)` above `fold s = F { n: reveal(e.email) }` is accepted and the
reveal runs after the erase.

`minted`. `src/testing.rs:151` says "First mint wins, which is the one place
this could disagree with a store and does not". A key whose first event carries
two ids of its ancestor's type is minted with nothing above it, but an empty
chain does not count as minted (`src/testing.rs:184`), so a later event that
carries one id wraps it. The same happens where the first event names the
grandparent but not the parent.

`sealed_folds`. `docs/folds.md:489-492` says `-> String?` over an arm that folds
a `@subject` field is refused. The seal check stands down while a fold is parsed
(`src/parse.rs:9933`), which is where a sealed argument of a `fn` would be
refused, and the arm then has the `fn`'s declared plain type. A fold that hands
the field through such a `fn` stores sealed content under a type that declares
no seal. The passing run has every helper but that one.

`loader_promises`, of reveals. A `for` whose body ends on both branches of an
`if` resets the erased state, so an erase *above* the loop is forgotten below
it, where a loop that takes no turn arrives (`src/parse.rs` 13157-13161):
`docs/effects.md:457` again. In the other direction the scan ignores whether a
loop's body falls through, and refuses some arms it need not.

`loader_promises`, of expressions. The checker accepts, and evaluation refuses:
a minus before something not a number (`src/parse.rs` 8247-8251), `Money.mul` by
something that is no decimal (`src/types.rs:277`), equality of optionals or
lists of a subject with those of its id (`src/interp.rs:4250`).
`docs/types.md:20-22` is the claim these fall short of.

`loader_promises`, of bounds. `@max` is checked before guards and named folds
are spliced, and what a named fold was folded from is not followed
(`folded_from`, `src/parse.rs` 12740-12780, knows the folds of a stage only);
nor is a `let` of a field (`loaded_field`, 12809-12824). A sealed text emitted
or written under such a name loads, which `docs/commands.md:228` says is
`max-tightening`; nothing measures it at run time either, and the event or the
column holds a text longer than its bound (`docs/projectors.md:647`, 661-669). A
plain text is measured as it is written, so there it is invalid, or stops the
projector.

`loader_promises`, of triggers. A command invoked in a fold's argument escapes
`check_cycles` and `latest_never_invokes`: both ask `invoked_by`
(`src/parse.rs:12648`), which walks statements, and the argument is spliced into
them afterwards (1024, 1029). `docs/effects.md:1530` says no effect may trigger
itself, and 1692 that `on latest` never invokes.

`loader_promises`, of hashes. A fold's hash does not take in the `fn`s its arms
call, so editing `month_of` of `docs/folds.md` 14 leaves the hash of the fold it
keys as it was. `src/digest.rs:254-258` gives the obligation, and keeps it for
the folds looked up only. A host that also compares the hashes of the `fn`s
would notice; no part of the entry tells it which those are.

`rebuild_keys`. `docs/host.md:455-460` and `src/interp.rs:1533-1537` let a host
record but the keys of the columns a rebuild did not ask for, "since `keys` is
all a ranged arm reads". A lookup reads the value: a fold asked for that keys or
folds through such a column finds nothing there.

Met while modelling, by reading, with no run of their own:

* Rule 17 does not see an id behind `[id, 3].remove(id).first()`, `-3`, or an
  `if` of literals as a later element of a list of no declared type.
* `[1, "a"]` is accepted where no type is declared, and evaluation refuses it. An
  `if` expression's arms do not get the narrowing of its condition
  (`src/parse.rs` 8498-8544), so a correct one is refused.
* A fold's hash does not take in an event's `@absent`, an enum's entries or a
  subject's id type; a table's id moves with a subject's id type, and its hash
  does not.
* Two parts of one key can come to one name: of `(shop: Region, b: Region, q:
  Shop)` the first falls back to its parameter and the third is named for its
  subject (`src/tables.rs` 508-556), and no check refuses it (`src/parse.rs`
  1536-1551).

## 4. What is proved

`CommandRunProofs` proves, for every program, every number of runs, every host
answer and every length of the log, under `StagesAssumption` (a command has a
stage, all but its last read) and `BoundsAssumption` alone:

| theorem | of |
| --- | --- |
| `TypeCorrect` | `TypeOK` |
| `CarryIsSound` | `CarrySound` |
| `StagesReadOnePrefix` | `OnePrefix` |
| `RetriesPaid` | `RetriesArePaidFor` |
| `RetriesResume` | `RetryReadsTheDelta` |
| `CommitsDecideCurrently` | `CommitsAreCurrent` |
| `ConflictsAreEarned` | `ConflictsAreHonest` |

None of these is inductive alone. `Inv` is `TypeOK`, the domains of the untyped
variables, and `RunInv` for each run, which says

* where a run is, its log positions are ordered: the carry's mark, the clock,
  the pinned head, the cursor and the log's length;
* the fold under way is exactly the fold of its slices below the cursor, seeded
  and with its entries made in the frame of the attempt; in the leading stage
  that frame is the one `Pre` makes of `prepared`, which is why a carry of the
  same slices is a fold the leading stage may continue;
* each entry of the trail is exactly the fold below the pinned head, and the
  read set is the union of what its slices narrow to;
* the condition at the append is the pinned head and that read set;
* the carry and what will become it satisfy `CarrySound`.

The central lemma is that `IsFold` depends on the records below its mark only,
and is extended by a record a live slice holds and by one none does; the log
only grows, so what was a fold stays one. The commit theorem then reads: no
record in a narrowed slice at or past the head, so each fold below the head is
the fold of the whole log.

`SerialRunsProofs` proves the refinement from the same assumptions:

| theorem | of |
| --- | --- |
| `RunsAreSerial` | `SerializesCommands` |

What has to be shown is that an answer is `Decide` of *some* log, while the run
read another and longer one piece by piece. So the invariant speaks of every
log: `RunSerial` says that on any `records` which agree with the run so far
(the folds of its trail are the folds of `records`) each stage already taken is
the stage `DecideTo` takes, frame for frame, emit for emit and slice for slice.
At an append the whole log agrees, as nothing landed past the head in a slice
that was read; at a refusal or a conflict the log below the pinned head does (the
log as it stands, if nothing was read), which is a moment of the call, since a
head is pinned after the clock. A run that is beaten has the record in one of
the slices that decision narrowed to. Two facts carry the data: a log and its
slices have one trace that `IsFold`, and the fold `DecideStage` takes is it; and
a decision that stopped stays stopped through the stages after. `Kept` adds that
what an attempt starts from is what its request and its clock prepare.

`EffectDeliveryProofs` proves, for every set of effects, every body, every
number of crashes and rotations and every length of the log, under
`DeliveryAssumption` alone:

| theorem | of |
| --- | --- |
| `TypeCorrect` | `TypeOK` |
| `DeliveriesRetrace` | `ReplayFollows` |
| `OnlyLossesRepeat` | `NothingIsRepeated` |
| `EveryCallIsMade` | `RepeatsAreMade` |
| `AnswersAlike` | `AnswersAgree` |
| `AnswersSettle` | `AnsweredIsSilent` |

The invariant relates a delivery to the furthest there was. `Traced`: `best` is
one run of the body, each call the turn after those before it. `Journaling`: the
journal holds exactly that run's calls with their ordinals and answers, a reveal
excepted; so a key and an ordinal name one entry, and what a replay is handed is
what the run came to (`IsPrefix(seen, best)`). `AtTheFront`: only the furthest
delivery performs. `Performing` and `Losing`: the world was asked for the calls
of the run, at most its next one besides, and oftener only as often as something
was lost between landing and the record. `Answering`: an answer says that the
run ended so, or that a reveal on the way met a key that is gone; keys stay
gone and the run at its end stays there, so a second answer agrees. A body reads
the log below its trigger only, so a longer log is the same body.

From that invariant the same module proves the refinement:

| theorem | of |
| --- | --- |
| `DeliveriesRunOnce` | `DeliveriesAreDurable` |

Each action is a step of the run or goes unnoticed: what takes `best` further is
the run learning an answer, what lands is the run asking, `Advance` its end, and
a replay, wedge or crash changes neither.

`DriveProofs` proves, for every effect, every backlog, whatever deliveries
append and every cascade bound, under `DriveAssumption` (backlogs and what is
appended are lists of events, the bound is a number):

| theorem | of |
| --- | --- |
| `TypeCorrect` | `TypeOK` |
| `WalksDeliver` | `DeliversWhatItOwes` |
| `StandInsAreFound` | `CollapsedHaveStandIns` |
| `OnlyRunawaysStop` | `StopsRunawaysOnly` |

Its invariant says that `collapsed` is what the scan comes to on the log *as it
stands*, cut at `start`; that the positions behind the cursor are the ones with
an answer, and among them those in the set the ones passed over; and that no
position behind the cursor holds an unreadable key. So a walk that reached the
head had a scan that reached it. The stand-in is the last position of a lane
the scan came to, which exists by well-foundedness. For the last, `Chained` says
that a triggered record's count is one more than that of its cause, which comes
before it, and that the walk was stopped exactly when some count is past the
bound; the length of the chain solves the same equation, so there is no first
record where the two differ.

`LoaderProofs` proves three things. Of the search for cycles of declarations, for
every set of names, every set of declarations and every order of them, with no
assumption:

| theorem | of |
| --- | --- |
| `FoundHolds` | `FoundIsACycle`, the first half of `VerdictsHold` |
| `ClearedHolds` | `ClearedIsAcyclic`, the second half |
| `VerdictsAreRight` | `VerdictsHold` |

`WalkInv` says that the path follows calls, holds no name twice and none the
walk came back from; that what the walk came back from is closed, but for names
nothing declares, and acyclic; and that every name a frame set out to visit is
still pending, is the next on the path, or is behind. So when a declaration is
left, all it reaches is behind it, and as that was closed without it, no cycle
can pass through it (`Joining`). At the end all of `Declared` is behind. Acyclic
is stated of sets (in any company of declarations, one reaches none of it),
which needs no recursion and no path. The `Seq` lemmas are stated of the stack
operations as used.

Of `@max`, for every schema, every text and every log, under `BoundsAssumption`
(events that are folded or handled are declared):

| theorem | of |
| --- | --- |
| `TextsKeepTheirBounds` | `OnlyTheUntracedOutgrow` |

It is of every program that loads, named folds and `let`s among them. A plain
text is measured where it is written; a sealed one that is plainly read stays
within its bound because the loader compared the bound it is moved under with the
one it was read from; and one that is moved by a name is marked from there on,
however often it is moved again. That such a text may outgrow its bound is the
code's: section 3, disagreements.

Of effects, for every program whose edges are finitely many and whose `fn`s in
scope are the effect's own or the module's (`ApplicationsAssumption`):

| theorem | of |
| --- | --- |
| `NoEffectTriggersItself` | `LoopsAreRefused` |

What the loader walks from a body and what a run of it may come to be in are two
least sets, over names and over pairs of an effect and a name; each contains the
other, as the calls of an effect's bodies are calls of its own `fn`s. So the edges
are exactly what may follow what by statements. In a program that loads no edge
closes a descent, so whatever statements trigger lengthens one: the invariant
(`TriggerInv`) is that the events of every stretch of the chain in which no step
came of an argument are the nodes of a descent, which holds no event twice. So a
program without such arguments triggers itself never, and one with them only
through them. The
search stops at descents as long as there are edges; by pigeonhole none is
longer, so it misses nothing. And a cycle that is reported has every step of it,
from where its event was first met.

`DerivedTablesProofs` proves, for every set of programs, every domain of keys,
every length of the log and every number of rebuilds, prepared either way, under
`ProgramsAssumption`, `BoundsAssumption` and `WaysAssumption`, the last of which
only names the two ways:

| theorem | of |
| --- | --- |
| `NoGateIsRefused` | `GatesStayLive` |
| `ColumnsHoldTheirDefinition` | `ColumnsAreDefined` |
| `RebuildsAnswerAsTheSink` | `RebuildsAnswer` |
| `PinnedColumnsAreReads` | `PinnedColumnsRefold` |

What must be shown is that applying a record by passes, over candidate keys a
host hands back, is one step of a definition that has neither. `Sound` relates a
store to the definition at its record: for the folds written a cell is there
exactly when the trace of its key is not empty, and the folds *kept* hold that
trace; of the others, in a rebuild that keeps keys alone, only the keys count.
`Closed` says what a record needs to leave a store sound: what is looked up is
kept, and what mints the keys a range goes over is written. The live store is
sound for all columns until a rebuild is swapped in that is not `Sighted`, the
store of one that is for its closure, which is closed because it is a least set.
Of any other only `RowsAgree` is kept, enough for the gates. `ArmKeysAre` is the heart of it: the keys a pass
gives an arm are the keys that take the record by definition, pinned ones by
their pins (a gate cannot fail there, which is `NoGateIsRefused`) and ranged
ones among the rows, the ones just minted included (`RowsAgree`). The passes
write disjoint keys in the order of the arms, so the trace grows by the same
entries. `Chronicle` keeps the definitions by length of the log, and `FoldsAgree`
says of the columns that neither range nor read through a range that these are
the folds of single keys. `TablesInv` and `FoldsAgree` were invariants of a TLC
run (67,621 states) before they were proved.

`ProjectionProofs` proves, for every set of projectors, entities and events,
every hierarchy of subjects, every length of the log and every order of records,
erasures and rebuilds, under the four assumptions of `Projection`:

| theorem | of |
| --- | --- |
| `RowsInvariant` | the inductive invariant |
| `WhatIsToldIsStored` | `MintedAsStored` |
| `RebuildIsTheSame` | `RebuildsTheSame` |
| `NothingGoneIsWritten` | `WritesNothingGone` |

Their hypothesis is `WrapsAlike`: an event that seals names one id of each
ancestor (`OneOfEach`), and wherever a key is named *above* another, every event
that names it says the same is above it (`HangAlike`). Two events may still say
different things of the key they seal under, as two notes of one customer with
different shops do. Without the first part `MintedAsStored` is false, and that is
the code's (run `minted`; section 3, disagreements): there the store has a key at
the top whose runner wraps it later. `MCReadModels` assumes the hypothesis of the
events of `read_models`, so TLC evaluates it and the theorems are about a system
the run has.

Of the keys: by `WrapsAlike` the line an event says is above a key goes all the
way up, and what the store holds above the keys on it is that line's own rest.
So the climb from a key, in what is told and in what is stored, is exactly the
line of the first event that seals under it; the backstop is never short. What
hangs from what does not change when a record lands under a key already told,
and a key not told yet is in no row.

Of the rows: an erasure strikes at any moment between the writes, so the rows are
never the projection of the log at any one set of lost keys, and `RebuildsTheSame`
is not inductive. `RowsInv` compares both sides with a third, `Whole`, the
projection that takes nothing out: the rows and `Whole` are the same *as seen
with what is lost now* (`Alike`), their content is under keys of the log, and
none of it in a plain column. That keeps, because keys stay lost: to take out
more, later or earlier is the same once all of it is taken out. A statement on
alike stores leaves alike stores (a copied column is alike, a count reads a plain
one, keys are plain), and so does a record, hence a log; a statement that raises
over one store but not over the other is one whose row cannot do without what is
gone, and then the projector is stuck, or the rebuild not fine, and nothing is
claimed. A rebuild is therefore alike to `Whole` too, and as it was written with
everything lost taken out, it is what is to be seen of the rows. `RowsInv`, over
a `Whole` that does not raise, was an invariant of a TLC run (510,160 states,
with two erasures) before it was proved.

`DecimalsProofs` proves, for every width, every scale and all amounts that are as
`WidthsAssumption` and `AmountsAssumption` say:

| theorem | of |
| --- | --- |
| `AmountsAreExact` | `AmountsHold` |

TLC takes some amounts of eight bits; `i64` and `i128` satisfy the assumptions, so the theorem
is of the code's own widths. `OneStands`: of each rounding exactly one whole number
stands for a fraction, and it is the quotient toward zero and its adjustment. It
goes by the sign of the fraction to `RoundedOnce`, where both sides are natural
numbers and a candidate is so many times the divisor away. What stands for a
fraction stands for it however it is extended (`SameFraction`), and the exact value
of each operation is, by `PowersMultiply`, an extension of the fraction the code
divides. `Settles` says what a result may then be; `TheTables` goes through the
pairs of types, once for the parser's table and the interpreter's. A rounded value
that leaves the wide width leaves the narrow one, so the check in between changes
no answer. No invariant is needed beyond the property: a state is one calculation.

Model-checked only:

* Liveness (`CursorsAdvance`, `WalkEnds`): fairness and
  `ENABLED` are out of the prover's reach.
* What is computed over trees, in modules that declare recursive operators:
  `AcceptedBodiesRun` and `OnlyTheOverlookedIsLate` (statements),
  `AcceptedExpressionsRun` and `SealsAreKnown` (expressions),
  `IdsComeFromTheLog` and `ContentIsUnderItsSubject` (values of folds),
  and the digest's three. Each is an induction over data.

## 5. Plan

Done: `CommandRun`, `EffectDelivery`, `Drive`, `DerivedTables` and `Projection`
with their proofs, the two refinements among them; `CycleWalk`, `SelfTrigger`,
`Bounds` and `Decimals` with theirs; `FoldValues`; the static checks; values and
expressions; the digest.

To prove next: `FoldValues`, if its two walks over a value are written as
recursive functions: that rule 17 keeps ids the program invents out of a row.

To model next: arms over several paths and envelope bindings in folds, keys of
several types, indexes, `on live`, a delivery under a program deployed since.

### Not modelled

The lexer, text to tree, recovery after a diagnostic, the wording of
diagnostics, the command line, the formatter and the editor grammar, whose
tables are generated: sequential text processing, where a property would be
about layout. Documents of `Json`, the calendar of timestamps and identifiers:
pure conversions with tests of their own. The hashing and packing of the digest
to text. The test runner but for its wrapping of keys: it runs one test on a
fresh harness and compares. The memory, key store and network of a real host:
`src/host.rs` declares them as traits, and what the interpreter relies on is
modelled where it is used.
