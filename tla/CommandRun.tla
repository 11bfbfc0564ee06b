----------------------------- MODULE CommandRun -----------------------------
(***************************************************************************)
(* Commands deciding against a shared event log: `execute` and             *)
(* `run_retrying` in src/interp.rs over the `Log` seam of src/host.rs.     *)
(*                                                                         *)
(* A command is a sequence of stages.  A stage runs the statements above   *)
(* its declarations, resolves its slices, folds the log prefix the attempt *)
(* pinned itself to, then runs the statements below.  An attempt ends in   *)
(* an append guarded by a condition: the slices it read and the head it    *)
(* read them to.  A record of another writer in one of those slices at or  *)
(* past that head is a conflict, and the host may ask for another attempt, *)
(* which resumes the first stage's fold where the last attempt left it.    *)
(*                                                                         *)
(* Several runs, and writers that are no run of this model, share the log. *)
(*                                                                         *)
(* What a command computes is a parameter: Pre, Slices and Post.  What it  *)
(* folds is kept as the trace of the fold, not its value: the frame the    *)
(* seed was evaluated in, then one entry per record folded with the arms   *)
(* it matched and the frame their expressions read.  Every fold a program  *)
(* can write is a function of that trace, so two folds that have one trace *)
(* have one value, whatever the seed and the arms compute.                 *)
(***************************************************************************)
EXTENDS Integers, Sequences

CONSTANTS
  Run,             \* command runs, each the run of one request
  Request,         \* a command and the arguments of one call of it
  Event,           \* [path, fields]: the events the program declares
  Foreign,         \* the events writers outside this model append
  Accepts(_),      \* Accepts(q): the arguments of q satisfy its parameters
  Stages(_),       \* Stages(q): how many stages the command of q has
  Reads(_, _),     \* Reads(q, s): stage s declares a slice
  Pre(_, _, _),    \* Pre(q, s, f): the statements above, run in frame f
  Slices(_, _, _), \* Slices(q, s, f): the slices of stage s resolved in f
  Post(_, _, _),   \* Post(q, s, f): the statements below, run in frame f
  Answers(_),      \* Answers(n): what `again` may answer attempt n's conflict
  MaxLog           \* bound: no foreign writer appends to a log this long

\* A command has a stage, and every stage but the last reads: the builder
\* closes a stage only where a declaration follows a statement, and a
\* declaration has an arm.
ASSUME StagesAssumption ==
  \A q \in Request :
    /\ Stages(q) \in Nat \ {0}
    /\ \A s \in 1 .. Stages(q) - 1 : Reads(q, s)

ASSUME BoundsAssumption ==
  /\ MaxLog \in Nat
  /\ Foreign \subseteq Event

VARIABLES
  log,       \* the records, position p at log[p + 1]
  pc,        \* where each run is
  request,   \* what each run was asked
  outcome,   \* how each run ended
  attempt,   \* the zero-based number of the attempt under way
  prepared,  \* the frame every attempt starts from
  frame,     \* the frame of this attempt
  stage,     \* the stage under way
  after,     \* the head this attempt pinned, or Unpinned
  resolved,  \* the slices of the stage under way
  cursor,    \* the next position the fold visits
  acc,       \* the fold under way
  read,      \* the predicates this attempt read
  emitted,   \* the events this attempt emitted
  ret,       \* what the attempt returned
  leading,   \* no stage of this attempt has read yet
  folded,    \* what this attempt has for the next one
  carried,   \* what the last attempt that read left
  condition, \* what the run read, as the append is given it
  trail      \* history: the folds of this attempt, stage by stage

vars == <<log, pc, request, outcome, attempt, prepared, frame, stage, after,
          resolved, cursor, acc, read, emitted, ret, leading, folded,
          carried, condition, trail>>

-----------------------------------------------------------------------------
(* The vocabulary of the seam.                                             *)

Unpinned == -1
NoFold   == [seed |-> <<>>, seen |-> <<>>]
NoCarry  == [some |-> FALSE, through |-> 0, slices |-> <<>>, fold |-> NoFold]
NoRead   == [after |-> 0, slices |-> {}]
Flows    == {"next", "ok", "invalid", "reject", "error"}
Outcomes == {"none", "ok", "invalid", "reject", "conflict", "error"}

\* `Predicate::holds`: a field the event does not carry answers no.
Holds(p, e) ==
  /\ p.path = e.path
  /\ \A name \in DOMAIN p.filters :
       name \in DOMAIN e.fields /\ e.fields[name] = p.filters[name]

\* The arms of a stage that fold e: live, and e in the slice.
ArmsAt(slices, e) ==
  {i \in DOMAIN slices : slices[i].live /\ Holds(slices[i].predicate, e)}

\* Mutant of Narrowing: the key gate is forgotten.
NarrowingUngated(slices) ==
  {slices[i].predicate : i \in DOMAIN slices}

\* `narrowing`: the predicates of the live slices.
Narrowing(slices) ==
  {slices[i].predicate : i \in {j \in DOMAIN slices : slices[j].live}}

\* Mutants of Conflicts: the record at the head read is missed, and the head
\* is not looked at.
ConflictsPastTheHead(cond, records) ==
  \E i \in DOMAIN records :
    /\ i - 1 > cond.after
    /\ \E p \in cond.slices : Holds(p, records[i])

ConflictsWithThePast(cond, records) ==
  \E i \in DOMAIN records : \E p \in cond.slices : Holds(p, records[i])

\* `AppendCondition::conflicts`.
Conflicts(cond, records) ==
  \E i \in DOMAIN records :
    /\ i - 1 >= cond.after
    /\ \E p \in cond.slices : Holds(p, records[i])

\* The frame `execute` prepares once: the arguments and the pinned clock.
Prepared(q, now) == [req |-> q, now |-> now, lets |-> <<>>, folds |-> <<>>]

\* A stage's folds land in the frame's slots.
Bound(f, fold) == [f EXCEPT !.folds = Append(@, fold)]

\* An arm's entry for the record at position p.
Entry(slices, p, e, f) ==
  [at |-> p, event |-> e, arms |-> ArmsAt(slices, e), env |-> f]

\* What the emit site lets through: declared events with their fields.
WellFormed(half) == half.flow \in Flows /\ half.emits \in Seq(Event)

-----------------------------------------------------------------------------
Init ==
  /\ log = <<>>
  /\ pc = [r \in Run |-> "idle"]
  /\ request \in [Run -> Request]
  /\ outcome = [r \in Run |-> "none"]
  /\ attempt = [r \in Run |-> 0]
  /\ prepared = [r \in Run |-> <<>>]
  /\ frame = [r \in Run |-> <<>>]
  /\ stage = [r \in Run |-> 1]
  /\ after = [r \in Run |-> Unpinned]
  /\ resolved = [r \in Run |-> <<>>]
  /\ cursor = [r \in Run |-> 0]
  /\ acc = [r \in Run |-> NoFold]
  /\ read = [r \in Run |-> {}]
  /\ emitted = [r \in Run |-> <<>>]
  /\ ret = [r \in Run |-> "ok"]
  /\ leading = [r \in Run |-> TRUE]
  /\ folded = [r \in Run |-> NoCarry]
  /\ carried = [r \in Run |-> NoCarry]
  /\ condition = [r \in Run |-> NoRead]
  /\ trail = [r \in Run |-> <<>>]

-----------------------------------------------------------------------------
(* One action per step that touches what runs share, and the local code up *)
(* to the next one.                                                        *)

\* The variables one attempt owns and every attempt starts afresh.
FreshAttempt(r, base) ==
  /\ frame' = [frame EXCEPT ![r] = base]
  /\ stage' = [stage EXCEPT ![r] = 1]
  /\ after' = [after EXCEPT ![r] = Unpinned]
  /\ read' = [read EXCEPT ![r] = {}]
  /\ emitted' = [emitted EXCEPT ![r] = <<>>]
  /\ ret' = [ret EXCEPT ![r] = "ok"]
  /\ leading' = [leading EXCEPT ![r] = TRUE]
  /\ folded' = [folded EXCEPT ![r] = NoCarry]
  /\ trail' = [trail EXCEPT ![r] = <<>>]

End(r, how) ==
  /\ pc' = [pc EXCEPT ![r] = "done"]
  /\ outcome' = [outcome EXCEPT ![r] = how]

\* The request arrives: the clock is pinned, then the arguments are bound.
Begin(r) ==
  /\ pc[r] = "idle"
  /\ prepared' = [prepared EXCEPT ![r] = Prepared(request[r], Len(log))]
  /\ FreshAttempt(r, Prepared(request[r], Len(log)))
  /\ \/ /\ Accepts(request[r])
        /\ pc' = [pc EXCEPT ![r] = "pre"]
        /\ UNCHANGED outcome
     \/ /\ ~Accepts(request[r])
        /\ End(r, "error")
  /\ UNCHANGED <<log, request, attempt, resolved, cursor, acc, carried,
                 condition>>

\* Half a stage: falls through to `onward` in stage `next`, returns, or
\* raises.
RunHalf(r, half, onward, next) ==
  \/ /\ WellFormed(half) /\ half.flow = "next"
     /\ frame' = [frame EXCEPT ![r] = half.frame]
     /\ emitted' = [emitted EXCEPT ![r] = @ \o half.emits]
     /\ pc' = [pc EXCEPT ![r] = onward]
     /\ stage' = [stage EXCEPT ![r] = next]
     /\ UNCHANGED <<ret, outcome>>
  \/ /\ WellFormed(half) /\ half.flow \in {"ok", "invalid", "reject"}
     /\ frame' = [frame EXCEPT ![r] = half.frame]
     /\ emitted' = [emitted EXCEPT ![r] = @ \o half.emits]
     /\ pc' = [pc EXCEPT ![r] = "settle"]
     /\ ret' = [ret EXCEPT ![r] = half.flow]
     /\ UNCHANGED <<stage, outcome>>
  \/ /\ ~WellFormed(half) \/ half.flow = "error"
     /\ End(r, "error")
     /\ UNCHANGED <<frame, emitted, stage, ret>>

RunPre(r) ==
  /\ pc[r] = "pre"
  /\ RunHalf(r, Pre(request[r], stage[r], frame[r]),
             IF Reads(request[r], stage[r]) THEN "open" ELSE "post",
             stage[r])
  /\ UNCHANGED <<log, request, attempt, prepared, after, resolved, cursor,
                 acc, read, leading, folded, carried, condition, trail>>

\* Mutant of LastStage: one stage too many.
LastStageLate(r) == stage[r] > Stages(request[r])

\* No stage is left.
LastStage(r) == stage[r] >= Stages(request[r])

RunPost(r) ==
  /\ pc[r] = "post"
  /\ RunHalf(r, Post(request[r], stage[r], frame[r]),
             IF LastStage(r) THEN "settle" ELSE "pre",
             IF LastStage(r) THEN stage[r] ELSE stage[r] + 1)
  /\ UNCHANGED <<log, request, attempt, prepared, after, resolved, cursor,
                 acc, read, leading, folded, carried, condition, trail>>

\* Whether the first reading stage takes up the carry.
Resumes(r, slices) ==
  leading[r] /\ carried[r].some /\ carried[r].slices = slices

\* The head this attempt reads to: pinned at the first stage that reads.
Pinned(r) == IF after[r] = Unpinned THEN Len(log) ELSE after[r]

\* Where the fold under way starts, and what it starts from.
ResumeAt(r, slices) == IF Resumes(r, slices) THEN carried[r].through ELSE 0

ResumeFrom(r, slices) ==
  IF Resumes(r, slices) THEN carried[r].fold
                        ELSE [seed |-> frame[r], seen |-> <<>>]

\* Slices are resolved, the fold resumed or seeded, the head pinned.  A
\* stage with no live slice asks the log for nothing.
OpenFold(r) ==
  /\ pc[r] = "open"
  /\ LET slices == Slices(request[r], stage[r], frame[r]) IN
       /\ resolved' = [resolved EXCEPT ![r] = slices]
       /\ acc' = [acc EXCEPT ![r] = ResumeFrom(r, slices)]
       /\ cursor' = [cursor EXCEPT ![r] =
            IF Narrowing(slices) = {} THEN Pinned(r) ELSE ResumeAt(r, slices)]
  /\ after' = [after EXCEPT ![r] = Pinned(r)]
  /\ pc' = [pc EXCEPT ![r] = "fold"]
  /\ UNCHANGED <<log, request, outcome, attempt, prepared, frame, stage,
                 read, emitted, ret, leading, folded, carried, condition,
                 trail>>

\* Mutant of ReadsTo: the head as it is by the time the read gets there.
ReadsToTheHead(r) == Len(log)

\* The last position of a read, exclusive.
ReadsTo(r) == after[r]

\* The position visited next.
Onto(r) == cursor[r] + 1

\* The log hands the fold its next record; one in no live slice moves
\* nothing.
Visit(r) ==
  /\ pc[r] = "fold"
  /\ cursor[r] < ReadsTo(r)
  /\ LET entry == Entry(resolved[r], cursor[r], log[cursor[r] + 1], frame[r])
     IN \/ /\ entry.arms # {}
           /\ acc' = [acc EXCEPT ![r] =
                [seed |-> @.seed, seen |-> Append(@.seen, entry)]]
        \/ /\ entry.arms = {}
           /\ UNCHANGED acc
  /\ cursor' = [cursor EXCEPT ![r] = Onto(r)]
  /\ UNCHANGED <<log, pc, request, outcome, attempt, prepared, frame, stage,
                 after, resolved, read, emitted, ret, leading, folded,
                 carried, condition, trail>>

\* Mutant of Leaving: a later stage's fold is left in its place.
LeavingAnyStage(r) ==
  [some |-> TRUE, through |-> after[r], slices |-> resolved[r],
   fold |-> acc[r]]

\* What the leading stage leaves for the next attempt, taken before the
\* statements below can assign into a fold.
Leaving(r) ==
  IF leading[r]
  THEN [some |-> TRUE, through |-> after[r], slices |-> resolved[r],
        fold |-> acc[r]]
  ELSE folded[r]

\* The predicates a stage adds to what the attempt read.
Reading(r) == Narrowing(resolved[r])

\* The fold reached the head: its slices join the condition.
CloseFold(r) ==
  /\ pc[r] = "fold"
  /\ cursor[r] >= ReadsTo(r)
  /\ read' = [read EXCEPT ![r] = @ \cup Reading(r)]
  /\ folded' = [folded EXCEPT ![r] = Leaving(r)]
  /\ leading' = [leading EXCEPT ![r] = FALSE]
  /\ frame' = [frame EXCEPT ![r] = Bound(@, acc[r])]
  /\ trail' = [trail EXCEPT ![r] = Append(@,
       [slices |-> resolved[r], env |-> frame[r], fold |-> acc[r]])]
  /\ pc' = [pc EXCEPT ![r] = "post"]
  /\ UNCHANGED <<log, request, outcome, attempt, prepared, stage, after,
                 resolved, cursor, acc, emitted, ret, carried, condition>>

\* Mutant of Carries: the fold as the statements below left it.
CarriesTheFrame(r) ==
  IF folded[r].some THEN [folded[r] EXCEPT !.fold = frame[r].folds[1]]
                    ELSE carried[r]

\* What the next attempt may resume: this attempt's fold where it reached
\* one, else what it was itself handed.
Carries(r) == IF folded[r].some THEN folded[r] ELSE carried[r]

\* The stages are over: the carry is kept and the condition built, and a
\* refusal is the answer as it stands.
Settle(r) ==
  /\ pc[r] = "settle"
  /\ carried' = [carried EXCEPT ![r] = Carries(r)]
  /\ condition' = [condition EXCEPT ![r] =
       [after |-> IF after[r] = Unpinned THEN 0 ELSE after[r],
        slices |-> read[r]]]
  /\ \/ /\ ret[r] = "ok"
        /\ pc' = [pc EXCEPT ![r] = "append"]
        /\ UNCHANGED outcome
     \/ /\ ret[r] # "ok"
        /\ End(r, ret[r])
  /\ UNCHANGED <<log, request, attempt, prepared, frame, stage, after,
                 resolved, cursor, acc, read, emitted, ret, leading, folded,
                 trail>>

\* The append, whole or not at all, and checked even when it is empty.
AppendEvents(r) ==
  /\ pc[r] = "append"
  /\ ~Conflicts(condition[r], log)
  /\ log' = log \o emitted[r]
  /\ End(r, "ok")
  /\ UNCHANGED <<request, attempt, prepared, frame, stage, after, resolved,
                 cursor, acc, read, emitted, ret, leading, folded, carried,
                 condition, trail>>

\* Mutant of Restart: the frame the lost attempt left.
RestartWhereLeft(r) == frame[r]

\* What an attempt after a conflict starts from.
Restart(r) == prepared[r]

\* Beaten, and the host answers the conflict with another attempt.
Retry(r) ==
  /\ pc[r] = "append"
  /\ Conflicts(condition[r], log)
  /\ TRUE \in Answers(attempt[r])
  /\ attempt' = [attempt EXCEPT ![r] = @ + 1]
  /\ FreshAttempt(r, Restart(r))
  /\ pc' = [pc EXCEPT ![r] = "pre"]
  /\ UNCHANGED <<log, request, outcome, prepared, resolved, cursor, acc,
                 carried, condition>>

\* Beaten, and the conflict is the answer.
GiveUp(r) ==
  /\ pc[r] = "append"
  /\ Conflicts(condition[r], log)
  /\ FALSE \in Answers(attempt[r])
  /\ End(r, "conflict")
  /\ UNCHANGED <<log, request, attempt, prepared, frame, stage, after,
                 resolved, cursor, acc, read, emitted, ret, leading, folded,
                 carried, condition, trail>>

\* A call across the seam fails, or a filter, a seed or an arm raises, and
\* the run with it.
Fails(r) ==
  /\ \/ pc[r] = "open"
     \/ pc[r] = "fold" /\ cursor[r] < ReadsTo(r)
     \/ pc[r] = "append"
  /\ End(r, "error")
  /\ UNCHANGED <<log, request, attempt, prepared, frame, stage, after,
                 resolved, cursor, acc, read, emitted, ret, leading, folded,
                 carried, condition, trail>>

\* A writer that is no run of this model.
External ==
  /\ Len(log) < MaxLog
  /\ \E e \in Foreign : log' = Append(log, e)
  /\ UNCHANGED <<pc, request, outcome, attempt, prepared, frame, stage,
                 after, resolved, cursor, acc, read, emitted, ret, leading,
                 folded, carried, condition, trail>>

\* The steps a run begun goes on to take.
Step(r) ==
  \/ RunPre(r) \/ OpenFold(r) \/ Visit(r) \/ CloseFold(r) \/ RunPost(r)
  \/ Settle(r) \/ AppendEvents(r) \/ Retry(r) \/ GiveUp(r)

Next ==
  \/ \E r \in Run : Begin(r) \/ Step(r) \/ Fails(r)
  \/ External

Spec == Init /\ [][Next]_vars

-----------------------------------------------------------------------------
(* What the runs are checked for.                                          *)

\* What a fold of the first n records is: seeded in env, then every record
\* a live slice holds, each once and in log order.
IsFold(fold, slices, env, records, n) ==
  /\ fold.seed = env
  /\ \A i \in DOMAIN fold.seen :
       LET p == fold.seen[i].at IN
         /\ p \in 0 .. n - 1
         /\ ArmsAt(slices, records[p + 1]) # {}
         /\ fold.seen[i] = Entry(slices, p, records[p + 1], env)
  /\ \A i, j \in DOMAIN fold.seen :
       i < j => fold.seen[i].at < fold.seen[j].at
  /\ \A p \in 0 .. n - 1 :
       ArmsAt(slices, records[p + 1]) # {} =>
         \E i \in DOMAIN fold.seen : fold.seen[i].at = p

\* Variables hold what they are declared to hold; a run is within its
\* command's stages and its positions within the log.
TypeOK ==
  /\ log \in Seq(Event)
  /\ pc \in [Run -> {"idle", "pre", "open", "fold", "post", "settle",
                     "append", "done"}]
  /\ request \in [Run -> Request]
  /\ outcome \in [Run -> Outcomes]
  /\ attempt \in [Run -> Nat]
  /\ stage \in [Run -> Nat]
  /\ \A r \in Run : stage[r] \in 1 .. Stages(request[r])
  /\ after \in [Run -> {Unpinned} \cup 0 .. Len(log)]
  /\ cursor \in [Run -> 0 .. Len(log)]
  /\ emitted \in [Run -> Seq(Event)]
  /\ ret \in [Run -> {"ok", "invalid", "reject"}]
  /\ leading \in [Run -> BOOLEAN]

\* The state a retry starts its first fold from is the fold of that stage's
\* slices over the records below the carry's mark, seeded as this run seeds
\* it: nothing a later statement assigned, and no later stage's fold.
CarrySound ==
  \A r \in Run : carried[r].some =>
    /\ carried[r].through <= Len(log)
    /\ IsFold(carried[r].fold, carried[r].slices,
              Pre(request[r], 1, prepared[r]).frame, log,
              carried[r].through)

\* Every stage of an attempt folded one prefix of the log, exactly.
OnePrefix ==
  \A r \in Run : \A i \in DOMAIN trail[r] :
    IsFold(trail[r][i].fold, trail[r][i].slices, trail[r][i].env, log,
           after[r])

\* An attempt is lost only to records that landed since the run began, one
\* at least for each: a retry that nothing beats is the last.
RetriesArePaidFor ==
  \A r \in Run : pc[r] # "idle" => attempt[r] <= Len(log) - prepared[r].now

\* A retry reads the records that beat it and none it has folded before.
RetryReadsTheDelta ==
  \A r \in Run : pc[r] = "fold" /\ attempt[r] > 0 /\ leading[r] =>
    /\ carried[r].some
    /\ cursor[r] >= carried[r].through

\* A commit decided on the log it appends to: between the head its stages
\* read and the append, nothing landed that any of its folds would see.
DecidedOnTheWholeLog(r) ==
  outcome[r] = "none" /\ outcome'[r] = "ok" =>
    /\ \A i \in DOMAIN trail[r] :
         IsFold(trail[r][i].fold, trail[r][i].slices, trail[r][i].env,
                log, Len(log))
    /\ log' = log \o emitted[r]

CommitsAreCurrent == [][\A r \in Run : DecidedOnTheWholeLog(r)]_vars

\* A run is beaten only by a record one of its folds would have folded: a
\* slice whose key gate failed, and a stage it never reached, cost nothing.
BeatenByWhatItFolds(r) ==
  attempt'[r] # attempt[r] \/ (outcome[r] = "none" /\ outcome'[r] = "conflict")
    => \E i \in DOMAIN trail[r] : \E p \in after[r] .. Len(log) - 1 :
         ArmsAt(trail[r][i].slices, log[p + 1]) # {}

ConflictsAreHonest == [][\A r \in Run : BeatenByWhatItFolds(r)]_vars
=============================================================================
