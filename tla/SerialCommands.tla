--------------------------- MODULE SerialCommands ---------------------------
(***************************************************************************)
(* What running commands against a shared log promises, with nothing of    *)
(* how: a command that commits decides, in one step, from the whole log it *)
(* appends to and at the time its request arrived; one that refuses        *)
(* decided from the log as it stood at some moment of the call; and one    *)
(* that is beaten was beaten by a record the decision would have read.     *)
(* docs/commands.md and docs/host.md section 5 state it; Decide is         *)
(* `execute` in src/interp.rs with the concurrency taken out.              *)
(***************************************************************************)
EXTENDS Integers, Sequences

CONSTANTS Run, Request, Foreign, Accepts(_), Stages(_), Reads(_, _),
          Pre(_, _, _), Slices(_, _, _), Post(_, _, _), MaxLog

VARIABLES log, request, began, outcome

vars == <<log, request, began, outcome>>

NotBegun == -1

Holds(p, e) ==
  /\ p.path = e.path
  /\ \A name \in DOMAIN p.filters :
       name \in DOMAIN e.fields /\ e.fields[name] = p.filters[name]

ArmsAt(slices, e) ==
  {i \in DOMAIN slices : slices[i].live /\ Holds(slices[i].predicate, e)}

\* The fold of `records`: seeded in env, then an entry for each record that
\* an arm takes, in order.
FoldOf(slices, env, records) ==
  LET seen[n \in 0 .. Len(records)] ==
        LET arms == ArmsAt(slices, records[n]) IN
          IF n = 0 THEN <<>>
          ELSE IF arms = {} THEN seen[n - 1]
          ELSE Append(seen[n - 1], [at |-> n - 1, event |-> records[n],
                                    arms |-> arms, env |-> env])
  IN [seed |-> env, seen |-> seen[Len(records)]]

\* A decision under way: where it left off, what it emits, and the slices it
\* has read.
Undecided(q, now) ==
  [flow |-> "next", emits |-> <<>>, slices |-> {},
   frame |-> [req |-> q, now |-> now, lets |-> <<>>, folds |-> <<>>]]

\* Stage s of it, over one log.
DecideStage(q, s, d, records) ==
  LET pre    == Pre(q, s, d.frame)
      narrow == Slices(q, s, pre.frame)
      post   == Post(q, s,
                  IF Reads(q, s)
                  THEN [pre.frame EXCEPT !.folds =
                          Append(@, FoldOf(narrow, pre.frame, records))]
                  ELSE pre.frame)
  IN IF pre.flow # "next"
     THEN [flow |-> pre.flow, emits |-> d.emits \o pre.emits,
           slices |-> d.slices, frame |-> pre.frame]
     ELSE [flow |-> post.flow, emits |-> d.emits \o pre.emits \o post.emits,
           slices |-> IF Reads(q, s)
                      THEN d.slices \cup {narrow[i] : i \in DOMAIN narrow}
                      ELSE d.slices,
           frame |-> post.frame]

\* The stages one after the other, as long as none returns.
DecideTo(q, now, records, stages) ==
  LET decided[s \in 0 .. stages] ==
        IF s = 0 THEN Undecided(q, now)
        ELSE IF decided[s - 1].flow # "next" THEN decided[s - 1]
        ELSE DecideStage(q, s, decided[s - 1], records)
  IN decided[stages]

Decide(q, now, records) == DecideTo(q, now, records, Stages(q))

\* A body that falls through its last stage is done.
Verdict(decision) ==
  IF decision.flow = "next" THEN "ok" ELSE decision.flow

-----------------------------------------------------------------------------
Init ==
  /\ log = <<>>
  /\ request \in [Run -> Request]
  /\ began = [r \in Run |-> NotBegun]
  /\ outcome = [r \in Run |-> "none"]

Ask(r) ==
  /\ began[r] = NotBegun
  /\ began' = [began EXCEPT ![r] = Len(log)]
  /\ outcome' = [outcome EXCEPT ![r] =
                   IF Accepts(request[r]) THEN "none" ELSE "error"]
  /\ UNCHANGED <<log, request>>

Waiting(r) == began[r] # NotBegun /\ outcome[r] = "none"

Answer(r, how) ==
  /\ outcome' = [outcome EXCEPT ![r] = how]
  /\ UNCHANGED <<request, began>>

\* A moment of the call: the log was this long after the request arrived.
Moments(r) == began[r] .. Len(log)

At(r, n) == Decide(request[r], began[r], SubSeq(log, 1, n))

Commit(r) ==
  /\ Waiting(r)
  /\ LET decision == At(r, Len(log)) IN
       /\ Verdict(decision) = "ok"
       /\ log' = log \o decision.emits
  /\ Answer(r, "ok")

Refuse(r) ==
  /\ Waiting(r)
  /\ \E n \in Moments(r) :
       LET decision == At(r, n) IN
         /\ Verdict(decision) \in {"invalid", "reject"}
         /\ Answer(r, Verdict(decision))
  /\ UNCHANGED log

Beaten(r) ==
  /\ Waiting(r)
  /\ \E n \in Moments(r) : \E i \in n + 1 .. Len(log) :
       \E slice \in At(r, n).slices :
         slice.live /\ Holds(slice.predicate, log[i])
  /\ Answer(r, "conflict")
  /\ UNCHANGED log

\* The body raised, or a call across the seam failed: nothing landed.
Fail(r) == Waiting(r) /\ Answer(r, "error") /\ UNCHANGED log

External ==
  /\ Len(log) < MaxLog
  /\ \E e \in Foreign : log' = Append(log, e)
  /\ UNCHANGED <<request, began, outcome>>

Next ==
  \/ \E r \in Run : Ask(r) \/ Commit(r) \/ Refuse(r) \/ Beaten(r) \/ Fail(r)
  \/ External

Spec == Init /\ [][Next]_vars
=============================================================================
