--------------------------- MODULE EffectDelivery ---------------------------
(***************************************************************************)
(* Delivering a position of the log to an effect: `deliver` and            *)
(* `invoke_arm` in src/interp.rs, the calls an arm makes through           *)
(* `Effects`, and the journal that makes a second delivery a replay.       *)
(*                                                                         *)
(* An arm's body runs from the top on every delivery.  What it does to the *)
(* world, a request, a command, an erase, it does through a journal: a     *)
(* call already recorded answers as it did, and one that is not is         *)
(* performed and then recorded.  A delivery ends in an outcome, or it      *)
(* wedges and is delivered again; a crash is a wedge nobody chose, and     *)
(* may fall between performing a call and recording it.  A `reveal` is     *)
(* asked of the key store each time.                                       *)
(*                                                                         *)
(* A body is a parameter, Turn: what it does next, given the log prefix    *)
(* its folds read and what its calls came to so far.                       *)
(***************************************************************************)
EXTENDS Integers, Sequences, FiniteSets

CONSTANTS
  Delivery,     \* what is delivered: an effect and a position of the log
  Subject,      \* the subjects whose keys seal content
  Event,        \* the events of the log
  History,      \* the log as the first delivery finds it
  Foreign,      \* the events writers outside this model append
  At(_),        \* At(d): the position d delivers
  Begins(_, _), \* Begins(d, e): how d begins on event e
  Turn(_, _, _),\* Turn(d, prefix, seen): what the body of d does next
  Decide(_, _), \* Decide(c, records): what the command call c invokes decides
  Wraps(_),     \* Wraps(s): the keys without which s's content is unreadable
  Replies,      \* what the network may answer that no retry would change
  Attempts,     \* `ATTEMPTS`: how often one request is sent
  MaxLog,       \* bound: no foreign writer appends to a log this long
  MaxCrashes,   \* bound: on the crashes of one behaviour
  MaxRotations  \* bound: on the rotations of the deployment's credential

\* No arm, a lane nobody can read, an arm that reads the clock, or one that
\* does not.
Beginnings == {"ignored", "wedge", "clock", "body"}

Journaled == {"http", "invoke", "erase"}
Answers   == {"none", "done", "failed", "skipped", "ignored"}

ASSUME DeliveryAssumption ==
  /\ History \in Seq(Event)
  /\ Foreign \subseteq Event
  /\ \A d \in Delivery : At(d) \in Nat
  /\ \A d \in Delivery : \A e \in Event : Begins(d, e) \in Beginnings
  /\ \A s \in Subject : s \in Wraps(s) /\ Wraps(s) \subseteq Subject
  /\ Attempts \in Nat \ {0}
  /\ MaxLog \in Nat /\ MaxCrashes \in Nat /\ MaxRotations \in Nat

VARIABLES
  log,        \* the records
  erased,     \* the subjects whose own key was destroyed
  credential, \* which value the deployment's secret has now
  crashes,    \* how often a delivery was lost
  pc,         \* where each delivery is
  seen,       \* what the body's calls came to, in this delivery
  tries,      \* how often the request under way was sent
  landed,     \* what the call under way came to
  journal,    \* what was recorded
  answer,     \* what the last delivery that returned answered
  best,       \* history: the longest `seen` of any delivery
  performed,  \* history: the calls performed on the world
  returned,   \* history: what each delivery that returned answered
  lost        \* history: how often a call performed was not recorded

world   == <<log, erased, credential, crashes>>
history == <<best, performed, returned, lost>>
vars    == <<log, erased, credential, crashes, pc, seen, tries, landed,
             journal, answer, best, performed, returned, lost>>

-----------------------------------------------------------------------------
(* What a delivery goes by.                                                *)

\* Mutant of Prefix: the fold reads to the head.
PrefixToTheHead(d) == log

\* The records an arm's folds read: up to its trigger's own position.
Prefix(d) == SubSeq(log, 1, At(d) + 1)

\* What the body of d does next.
Move(d) == Turn(d, Prefix(d), seen[d])

\* A credential may ride in a request, and is named rather than spelled in
\* what is shown of it.
Shown(call) == call
Wire(call) ==
  [does |-> call.does, on |-> call.on, credential |-> credential]

\* Mutant of KeyOf: the request as it goes on the wire.
KeyOnTheWire(call) == Wire(call)

\* What a call is recorded under.
KeyOf(call) == Shown(call)

\* Mutant of Ordinal: one that is not counted.
OrdinalUncounted(made, key) == 0

\* How many times this delivery made the call before.
Ordinal(made, key) == Cardinality({i \in DOMAIN made : made[i].key = key})

\* What is recorded of a call.
Recorded(d, key, ordinal) ==
  {entry \in journal[d] : entry.key = key /\ entry.ordinal = ordinal}

\* What is recorded of the call the body makes next.
RecordedNext(d) ==
  Recorded(d, KeyOf(Move(d)), Ordinal(seen[d], KeyOf(Move(d))))

\* Mutant of Insert: the entry is dropped where the call was made before.
InsertFirst(entries, entry) ==
  IF \E e \in entries : e.key = entry.key THEN entries ELSE entries \cup {entry}

\* An entry takes the place of one under its key.
Insert(entries, entry) ==
  {e \in entries : e.key # entry.key \/ e.ordinal # entry.ordinal}
    \cup {entry}

\* Mutant of Gone: a key wrapped in a destroyed one still reads.
GoneItself(s) == s \in erased

\* `is_erased`: its own key is gone, or one it is wrapped inside.
Gone(s) == Wraps(s) \cap erased # {}

\* Mutant of Outlived: an erased subject wedges.
OutlivedWedges(kind) == kind = "failed"

\* The errors of a body that are outcomes, and not a wedge.
Outlived(kind) == kind \in {"failed", "erased"}

\* What a call may come to.
Response(reply) == [status |-> reply]
Outcome(flow)   == [outcome |-> flow]
Now             == [now |-> Len(log)]
Done            == [done |-> TRUE]
Plaintext       == [text |-> "plaintext"]

-----------------------------------------------------------------------------
Init ==
  /\ log = History
  /\ erased = {}
  /\ credential = 0
  /\ crashes = 0
  /\ pc = [d \in Delivery |-> "waiting"]
  /\ seen = [d \in Delivery |-> <<>>]
  /\ tries = [d \in Delivery |-> 0]
  /\ landed = [d \in Delivery |-> Done]
  /\ journal = [d \in Delivery |-> {}]
  /\ answer = [d \in Delivery |-> "none"]
  /\ best = [d \in Delivery |-> <<>>]
  /\ performed = [d \in Delivery |-> <<>>]
  /\ returned = [d \in Delivery |-> {}]
  /\ lost = [d \in Delivery |-> 0]

Goto(d, where) == pc' = [pc EXCEPT ![d] = where]

\* The body learns what its call came to, and goes on.
Learn(d, key, what) ==
  LET made == Append(seen[d], [key |-> key, answer |-> what]) IN
    /\ seen' = [seen EXCEPT ![d] = made]
    /\ best' = [best EXCEPT ![d] = IF Len(made) > Len(@) THEN made ELSE @]

\* The delivery ends, and the host is told how.
Answer(d, how) ==
  /\ Goto(d, "returned")
  /\ answer' = [answer EXCEPT ![d] = how]
  /\ returned' = [returned EXCEPT ![d] = @ \cup {how}]

-----------------------------------------------------------------------------
(* One delivery.                                                           *)

\* The record is looked up, an arm selected, its lane read and its bindings
\* bound.
Deliver(d) ==
  /\ pc[d] = "waiting"
  /\ At(d) < Len(log)
  /\ seen' = [seen EXCEPT ![d] = <<>>]
  /\ LET begins == Begins(d, log[At(d) + 1]) IN
       \/ /\ begins \in {"clock", "body"}
          /\ Goto(d, begins)
          /\ UNCHANGED <<answer, returned>>
       \/ /\ begins = "ignored"
          /\ Answer(d, "ignored")
       \/ /\ begins = "wedge"
          /\ UNCHANGED <<pc, answer, returned>>
  /\ UNCHANGED <<world, tries, landed, journal, best, performed, lost>>

NowKey == [does |-> "now", on |-> "now"]

\* Mutant of Pinned: the clock is read again.
PinnedAfresh(d) == {}

\* The reading of the clock a delivery before this one recorded.
Pinned(d) == Recorded(d, NowKey, 0)

\* The clock is pinned before anything of the arm runs, and recorded.
PinClock(d) ==
  /\ pc[d] = "clock"
  /\ \/ /\ Pinned(d) # {}
        /\ \E entry \in Pinned(d) : Learn(d, NowKey, entry.answer)
        /\ UNCHANGED journal
     \/ /\ Pinned(d) = {}
        /\ Learn(d, NowKey, Now)
        /\ journal' = [journal EXCEPT ![d] =
             Insert(@, [key |-> NowKey, ordinal |-> 0, answer |-> Now])]
  /\ Goto(d, "body")
  /\ UNCHANGED <<world, tries, landed, answer, performed, returned, lost>>

\* A call already recorded answers as it did.
Replay(d) ==
  /\ pc[d] = "body"
  /\ Move(d).does \in Journaled
  /\ \E entry \in RecordedNext(d) : Learn(d, entry.key, entry.answer)
  /\ UNCHANGED <<world, pc, tries, landed, journal, answer, performed,
                 returned, lost>>

\* A call that is not recorded is performed.
Call(d) ==
  /\ pc[d] = "body"
  /\ Move(d).does \in Journaled
  /\ RecordedNext(d) = {}
  /\ Goto(d, "call")
  /\ tries' = [tries EXCEPT ![d] = 0]
  /\ UNCHANGED <<world, seen, landed, journal, answer, history>>

\* The world did what the call asks for.
Perform(d, what) ==
  /\ Goto(d, "landed")
  /\ landed' = [landed EXCEPT ![d] = what]
  /\ performed' = [performed EXCEPT ![d] = Append(@,
       [key |-> Shown(Move(d)),
        ordinal |-> Ordinal(seen[d], KeyOf(Move(d)))])]
  /\ UNCHANGED <<credential, crashes, seen, tries, journal, answer, best,
                 returned, lost>>

\* The network answers, and no retry would change the answer.
Answered(d) ==
  /\ pc[d] = "call" /\ Move(d).does = "http"
  /\ \E reply \in Replies : Perform(d, Response(reply))
  /\ UNCHANGED <<log, erased>>

\* This attempt was the last.
SentOut(d) == tries[d] + 1 >= Attempts

\* A retryable status or a failed transport is absorbed and the request sent
\* again; with every attempt spent the delivery wedges.
Absorbed(d) ==
  /\ pc[d] = "call" /\ Move(d).does = "http"
  /\ tries' = [tries EXCEPT ![d] = @ + 1]
  /\ Goto(d, IF SentOut(d) THEN "waiting" ELSE "call")
  /\ UNCHANGED <<world, seen, landed, journal, answer, history>>

\* The command runs, one attempt: it commits or refuses, on the log as it
\* stands (SerialCommands is why that is one step).
Invoked(d) ==
  /\ pc[d] = "call" /\ Move(d).does = "invoke"
  /\ LET decision == Decide(Move(d), log) IN
       /\ decision.flow \in {"ok", "invalid", "reject"}
       /\ decision.emits \in Seq(Event)
       /\ log' = log \o decision.emits
       /\ Perform(d, Outcome(decision.flow))
  /\ UNCHANGED erased

\* A subject's key is destroyed.
Erases(d) ==
  /\ pc[d] = "call" /\ Move(d).does = "erase"
  /\ Move(d).on \in Subject
  /\ erased' = erased \cup {Move(d).on}
  /\ Perform(d, Done)
  /\ UNCHANGED log

\* What the call came to is recorded, and only then learned.
Record(d) ==
  /\ pc[d] = "landed"
  /\ LET key == KeyOf(Move(d)) IN
       /\ journal' = [journal EXCEPT ![d] = Insert(@,
            [key |-> key, ordinal |-> Ordinal(seen[d], key),
             answer |-> landed[d]])]
       /\ Learn(d, key, landed[d])
  /\ Goto(d, "body")
  /\ UNCHANGED <<world, tries, landed, answer, performed, returned, lost>>

\* Sealed content is read while its key is there.
Reveal(d) ==
  /\ pc[d] = "body" /\ Move(d).does = "reveal"
  /\ ~Gone(Move(d).on)
  /\ Learn(d, Move(d), Plaintext)
  /\ UNCHANGED <<world, pc, tries, landed, journal, answer, performed,
                 returned, lost>>

\* The key is gone, which no retry recovers.
Skip(d) ==
  /\ pc[d] = "body" /\ Move(d).does = "reveal"
  /\ Gone(Move(d).on)
  /\ Outlived("erased")
  /\ Answer(d, "skipped")
  /\ UNCHANGED <<world, seen, tries, landed, journal, best, performed, lost>>

\* The body came to its end, or the author gave the event up.
Return(d) ==
  /\ pc[d] = "body"
  /\ \/ Move(d).does = "done" /\ Answer(d, "done")
     \/ Move(d).does = "fail" /\ Outlived("failed") /\ Answer(d, "failed")
  /\ UNCHANGED <<world, seen, tries, landed, journal, best, performed, lost>>

\* Anything else the body raises wedges, and will again.
Raise(d) ==
  /\ pc[d] = "body" /\ Move(d).does = "raise"
  /\ Goto(d, "waiting")
  /\ UNCHANGED <<world, seen, tries, landed, journal, answer, history>>

\* The command was beaten to its append, or raised: it gets one attempt, and
\* the delivery wedges.
Beaten(d) ==
  /\ pc[d] = "call" /\ Move(d).does = "invoke"
  /\ Goto(d, "waiting")
  /\ UNCHANGED <<world, seen, tries, landed, journal, answer, history>>

\* The host takes the answer and moves its cursor past the position.
Advance(d) ==
  /\ pc[d] = "returned"
  /\ Goto(d, "over")
  /\ UNCHANGED <<world, seen, tries, landed, journal, answer, history>>

\* The process dies, or the log, the key store or the journal does not
\* answer: the delivery is lost, and with it a call landed and not recorded.
Crash(d) ==
  /\ pc[d] \notin {"waiting", "over"}
  /\ crashes < MaxCrashes
  /\ crashes' = crashes + 1
  /\ Goto(d, "waiting")
  /\ lost' = [lost EXCEPT ![d] = IF pc[d] = "landed" THEN @ + 1 ELSE @]
  /\ UNCHANGED <<log, erased, credential, seen, tries, landed, journal,
                 answer, best, performed, returned>>

-----------------------------------------------------------------------------
(* The world around the deliveries.                                        *)

Elsewhere ==
  /\ \/ /\ Len(log) < MaxLog
        /\ \E e \in Foreign : log' = Append(log, e)
        /\ UNCHANGED <<erased, credential>>
     \/ /\ \E s \in Subject : erased' = erased \cup {s}
        /\ UNCHANGED <<log, credential>>
     \/ /\ credential < MaxRotations
        /\ credential' = credential + 1
        /\ UNCHANGED <<log, erased>>
  /\ UNCHANGED <<crashes, pc, seen, tries, landed, journal, answer, history>>

\* The steps of a delivery that nothing outside it decides.
Local(d) ==
  \/ Deliver(d) \/ PinClock(d) \/ Replay(d) \/ Call(d) \/ Erases(d)
  \/ Record(d) \/ Reveal(d) \/ Skip(d) \/ Return(d) \/ Advance(d)

Next ==
  \/ \E d \in Delivery :
       Local(d) \/ Answered(d) \/ Absorbed(d) \/ Invoked(d) \/ Beaten(d)
         \/ Raise(d) \/ Crash(d)
  \/ Elsewhere

Spec == Init /\ [][Next]_vars

\* A host delivers a wedged position again; a network that is asked for ever
\* answers at last, and a command that is run for ever is at last not beaten.
FairSpec ==
  Spec /\ \A d \in Delivery :
    /\ WF_vars(Local(d))
    /\ SF_vars(Answered(d))
    /\ SF_vars(Invoked(d))

-----------------------------------------------------------------------------
(* What deliveries are checked for.                                        *)

IsPrefix(short, long) ==
  /\ Len(short) <= Len(long)
  /\ \A i \in 1 .. Len(short) : short[i] = long[i]

Count(made, key) == Cardinality({i \in DOMAIN made : made[i].key = key})

\* Variables hold what they are declared to hold, and a request is sent no
\* more often than `ATTEMPTS`.
TypeOK ==
  /\ log \in Seq(Event)
  /\ erased \subseteq Subject
  /\ credential \in 0 .. MaxRotations
  /\ crashes \in 0 .. MaxCrashes
  /\ pc \in [Delivery -> {"waiting", "clock", "body", "call", "landed",
                           "returned", "over"}]
  /\ tries \in [Delivery -> 0 .. Attempts]
  /\ \A d \in Delivery : pc[d] = "call" => tries[d] < Attempts
  /\ answer \in [Delivery -> Answers]
  /\ returned \in [Delivery -> SUBSET Answers]
  /\ lost \in [Delivery -> Nat]

\* A delivery retraces the one that got furthest, call for call and answer
\* for answer, and goes on from where that one stopped: neither the clock,
\* nor a longer log, nor a rotated credential leads it elsewhere.
ReplayFollows ==
  \A d \in Delivery : IsPrefix(seen[d], best[d])

\* The world is asked again only for a call that landed and was lost before
\* it was recorded, once for each loss: wedging, crashing elsewhere,
\* rotating the credential and replaying repeat nothing.
NothingIsRepeated ==
  \A d \in Delivery :
    Len(performed[d]) - Cardinality({performed[d][i] : i \in DOMAIN performed[d]})
      <= lost[d]

\* A call the program makes twice is made twice: the second is not answered
\* with what the first came to.
RepeatsAreMade ==
  \A d \in Delivery : \A i \in DOMAIN seen[d] :
    seen[d][i].key.does \in Journaled =>
      Cardinality({j \in DOMAIN performed[d] :
                     performed[d][j].key = seen[d][i].key})
        >= Count(seen[d], seen[d][i].key)

\* A position answered once is done with: delivered again before the cursor
\* moved, it asks nothing more of the world.
AnsweredIsSilent ==
  [][\A d \in Delivery :
       returned[d] # {} => performed'[d] = performed[d]]_vars

\* ... and it answers as it did, unless a key it needs was destroyed since.
AnswersAgree ==
  \A d \in Delivery : \A one, other \in returned[d] :
    one # other => "skipped" \in {one, other}

\* Every position delivered is at last answered, and the cursor moves on.
CursorsAdvance == \A d \in Delivery : pc[d] = "waiting" ~> pc[d] = "over"

\* "Rule 9 makes a local erase-then-reveal impossible, so by construction
\* every terminal reveal an operator sees is caused by something else":
\* a delivery skips only over a key that its own erases left alone.
SkipsAreNotLocal ==
  \A d \in Delivery :
    pc[d] = "returned" /\ answer[d] = "skipped" =>
      \E s \in Wraps(Move(d).on) \cap erased :
        \A i \in DOMAIN performed[d] :
          performed[d][i].key # [does |-> "erase", on |-> s]
=============================================================================
