-------------------------------- MODULE Drive --------------------------------
(***************************************************************************)
(* Walking the log with one effect: `drive` and `collapsed` in             *)
(* src/interp.rs, the harness's dispatcher.                                *)
(*                                                                         *)
(* The walk delivers position after position and follows the log as the    *)
(* commands its deliveries invoke lengthen it.  Over the backlog it starts *)
(* with, an `on latest` arm is delivered once per lane, at the newest      *)
(* position of the lane.  A wedge stops the walk where it is, and a chain  *)
(* of triggered events too long stops it with an error.                    *)
(*                                                                         *)
(* One delivery is a step here: EffectDelivery is what happens inside.     *)
(***************************************************************************)
EXTENDS Integers, Sequences

CONSTANTS
  Event,         \* the events of the log
  Arms,          \* the arms of the effect
  NoArm,         \* what stands for no arm
  ArmOf(_),      \* ArmOf(e): the arm e selects, or NoArm
  Latest(_),     \* Latest(a): a is declared `on latest`
  Readable(_),   \* Readable(e): e holds the key its arm declares
  Lane(_),       \* Lane(e): that key
  Appends(_),    \* Appends(e): what delivering e may append, by its invokes
  Backlogs,      \* the logs a walk may start with
  Cascade        \* `CASCADE`: how deep a chain of triggered events may run

\* An `on latest` arm may not invoke, so it appends nothing.
ASSUME DriveAssumption ==
  /\ NoArm \notin Arms
  /\ Cascade \in Nat
  /\ Backlogs \subseteq Seq(Event)
  /\ \A e \in Event :
       /\ ArmOf(e) \in Arms \cup {NoArm}
       /\ Appends(e) \subseteq Seq(Event)
       /\ ArmOf(e) # NoArm /\ Latest(ArmOf(e)) => Appends(e) \subseteq {<<>>}

VARIABLES
  log,        \* the records, position p at log[p + 1]
  start,      \* the head the walk started at
  collapsed,  \* the positions of the backlog that are passed over
  steps,      \* how far each record is from the backlog
  position,   \* the walk's cursor
  ended,      \* how the walk ended
  came,       \* what each position came to; `Counts` is its tally
  cause       \* history: the position whose delivery appended the record

vars == <<log, start, collapsed, steps, position, ended, came, cause>>

Kinds == {"done", "ignored", "failed", "skipped", "collapsed"}

\* The backlog has no cause.
Backlog == -1

-----------------------------------------------------------------------------
(* The collapse set.                                                       *)

InLane(records, p) ==
  LET e == records[p + 1] IN ArmOf(e) # NoArm /\ Latest(ArmOf(e))

\* One arm, and one key.
SameLane(records, p, q) ==
  /\ InLane(records, p) /\ InLane(records, q)
  /\ ArmOf(records[p + 1]) = ArmOf(records[q + 1])
  /\ Lane(records[p + 1]) = Lane(records[q + 1])

\* Mutant of Scanned: an unreadable key is stepped over.
ScannedPastTheUnreadable(records) ==
  {p \in 0 .. Len(records) - 1 :
     InLane(records, p) => Readable(records[p + 1])}

\* The positions the scan comes to: it ends at the first `latest` record
\* whose key it cannot build.
Scanned(records) ==
  {p \in 0 .. Len(records) - 1 :
     \A q \in 0 .. p : InLane(records, q) => Readable(records[q + 1])}

\* Every position a later one of its lane replaced.
Collapsed(records) ==
  {p \in Scanned(records) :
     \E q \in Scanned(records) : p < q /\ SameLane(records, p, q)}

-----------------------------------------------------------------------------
Each(n, what) == [i \in 1 .. n |-> what]

Init ==
  /\ log \in Backlogs
  /\ start = Len(log)
  /\ collapsed = Collapsed(log)
  /\ steps = Each(Len(log), 0)
  /\ position = 0
  /\ ended = "no"
  /\ came = Each(Len(log), "pending")
  /\ cause = Each(Len(log), Backlog)

Walking == ended = "no" /\ position < Len(log)

\* Mutant of PassedOver: the lanes as the walk's own deliveries lengthen them.
PassedOverNow == position \in Collapsed(log)

\* The position was folded into a later one of the backlog.
PassedOver == position \in collapsed

PassOver ==
  /\ Walking
  /\ PassedOver
  /\ came' = [came EXCEPT ![position + 1] = "collapsed"]
  /\ position' = position + 1
  /\ UNCHANGED <<log, start, collapsed, steps, ended, cause>>

\* Mutant of StepOf: volume, and not depth.
StepOfVolume == Len(log) - start + 1

\* How far from the backlog what this delivery appends is.
StepOf == steps[position + 1] + 1

\* An entry for every record the delivery appended.
Entries(events) == Each(Len(events), StepOf)

TooDeep(events) == events # <<>> /\ StepOf > Cascade

\* Mutant of AfterWedge: the position is tried again.
AfterWedgeAgain == "no"

\* A wedge does not advance, and the walk stops.
AfterWedge == "wedged"

\* The delivery came to `kind`, having appended `events`: a chain that ran
\* too deep is an error whatever it came to.
Came(kind, events) ==
  /\ log' = log \o events
  /\ steps' = steps \o Entries(events)
  /\ cause' = cause \o Each(Len(events), position)
  /\ LET grown == came \o Each(Len(events), "pending") IN
       \/ /\ TooDeep(events)
          /\ ended' = "cascade"
          /\ came' = grown
          /\ UNCHANGED position
       \/ /\ ~TooDeep(events) /\ kind = "wedge"
          /\ ended' = AfterWedge
          /\ came' = grown
          /\ UNCHANGED position
       \/ /\ ~TooDeep(events) /\ kind # "wedge"
          /\ came' = [grown EXCEPT ![position + 1] = kind]
          /\ position' = position + 1
          /\ UNCHANGED ended
  /\ UNCHANGED <<start, collapsed>>

\* One position is delivered, on a journal of its own.
Deliver ==
  /\ Walking
  /\ ~PassedOver
  /\ LET e == log[position + 1] IN
       \/ ArmOf(e) = NoArm /\ Came("ignored", <<>>)
       \/ ArmOf(e) # NoArm /\ ~Readable(e) /\ Came("wedge", <<>>)
       \/ /\ ArmOf(e) # NoArm /\ Readable(e)
          /\ \E kind \in {"done", "failed", "skipped", "wedge"} :
               \E events \in Appends(e) : Came(kind, events)

\* The cursor reached the head.
Finish ==
  /\ ended = "no" /\ position >= Len(log)
  /\ ended' = "walked"
  /\ UNCHANGED <<log, start, collapsed, steps, position, came, cause>>

Next == PassOver \/ Deliver \/ Finish

Spec == Init /\ [][Next]_vars

\* A walk is one call.
FairSpec == Spec /\ WF_vars(Next)

-----------------------------------------------------------------------------
\* Variables hold what they are declared to hold; the walk keeps an entry
\* for each record it may come to.
TypeOK ==
  /\ log \in Seq(Event)
  /\ start \in 0 .. Len(log)
  /\ collapsed \subseteq 0 .. start - 1
  /\ steps \in Seq(Nat) /\ Len(steps) = Len(log)
  /\ position \in 0 .. Len(log)
  /\ ended \in {"no", "walked", "wedged", "cascade"}
  /\ came \in Seq(Kinds \cup {"pending"}) /\ Len(came) = Len(log)
  /\ cause \in Seq(Int) /\ Len(cause) = Len(log)

\* A position is passed over only for a stand-in: a later position of the
\* backlog with the same arm and key that is delivered if the walk gets
\* there, with no unreadable key in a lane before it to stop the walk.
StandsIn(p, q) ==
  /\ q \in p + 1 .. start - 1
  /\ SameLane(log, p, q)
  /\ came[q + 1] # "collapsed" /\ (ended = "walked" => came[q + 1] # "pending")
  /\ \A r \in 0 .. q : InLane(log, r) => Readable(log[r + 1])

CollapsedHaveStandIns ==
  \A p \in 0 .. Len(log) - 1 :
    came[p + 1] = "collapsed" => \E q \in 0 .. start - 1 : StandsIn(p, q)

\* A walk that ends at the head delivered every position a plain arm
\* selected, every one that landed during the walk, and of each lane of the
\* backlog the newest alone.
DeliversWhatItOwes ==
  ended = "walked" =>
    \A p \in 0 .. Len(log) - 1 :
      came[p + 1] = "collapsed" <=>
        p < start /\ \E q \in p + 1 .. start - 1 : SameLane(log, p, q)

\* The length of the chain of deliveries that leads to a record.
Depth(p) ==
  LET chain[q \in 0 .. p] ==
        IF cause[q + 1] = Backlog THEN 0 ELSE chain[cause[q + 1]] + 1
  IN chain[p]

\* A walk is stopped for its depth exactly when a chain of triggered events
\* outran the bound, however much was appended.
StopsRunawaysOnly ==
  ended = "cascade" <=> \E p \in 0 .. Len(log) - 1 : Depth(p) > Cascade

\* Whatever the effect triggers, the walk ends.
WalkEnds == <>(ended # "no")
=============================================================================
