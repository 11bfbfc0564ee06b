--------------------------- MODULE DurableEffects ---------------------------
(***************************************************************************)
(* What delivering effects promises, with nothing of how: each position's  *)
(* body runs once, from its beginning to its end, and does not notice that *)
(* it was delivered many times.  It learns what a call came to once, and   *)
(* for good, after the world was asked for it at least once; the world is  *)
(* asked for a call only when it is the next one; and a run may be given   *)
(* up at any `reveal` it has come to, once that content's key is gone.     *)
(* docs/effects.md rules 3 to 5, 10 and 12 state it.                       *)
(***************************************************************************)
EXTENDS Integers, Sequences

CONSTANTS Delivery, Subject, History, Foreign, At(_), Begins(_, _),
          Turn(_, _, _), Decide(_, _), Wraps(_), Replies, MaxLog

VARIABLES
  log,     \* the records
  erased,  \* the subjects whose own key was destroyed
  made,    \* what each run's calls came to
  asked,   \* the world was asked for the run's next call
  outcome  \* how each run ended

vars == <<log, erased, made, asked, outcome>>

\* A run is a function of its trigger, the prefix up to it and its calls.
Onward(d, calls) == Turn(d, SubSeq(log, 1, At(d) + 1), calls)

Due(d) == Onward(d, made[d])

Trigger(d) == log[At(d) + 1]

Unreadable(s) == \E k \in Wraps(s) : k \in erased

Running(d) ==
  outcome[d] = "none" /\ At(d) < Len(log)
    /\ Begins(d, Trigger(d)) \in {"clock", "body"}

\* How many calls come before the body's first: the clock's, if it is read.
First(d) == IF Begins(d, Trigger(d)) = "clock" THEN 1 ELSE 0

Started(d) == Len(made[d]) >= First(d)

-----------------------------------------------------------------------------
Init ==
  /\ log = History
  /\ erased = {}
  /\ made = [d \in Delivery |-> <<>>]
  /\ asked = [d \in Delivery |-> FALSE]
  /\ outcome = [d \in Delivery |-> "none"]

\* The world is asked for the next call, the first time or again.
Ask(d) ==
  /\ Running(d) /\ Started(d)
  /\ asked' = [asked EXCEPT ![d] = TRUE]
  /\ \/ Due(d).does = "http" /\ UNCHANGED <<log, erased>>
     \/ /\ Due(d).does = "invoke"
        /\ log' = log \o Decide(Due(d), log).emits
        /\ UNCHANGED erased
     \/ /\ Due(d).does = "erase"
        /\ erased' = erased \cup {Due(d).on}
        /\ UNCHANGED log
  /\ UNCHANGED <<made, outcome>>

\* What a call may come to.
MayCome(d) ==
  CASE Due(d).does = "http"   -> {[status |-> reply] : reply \in Replies}
    [] Due(d).does = "invoke" ->
         {[outcome |-> flow] : flow \in {"ok", "invalid", "reject"}}
    [] Due(d).does = "erase"  -> {[done |-> TRUE]}
    [] Due(d).does = "reveal" ->
         IF Unreadable(Due(d).on) THEN {} ELSE {[text |-> "plaintext"]}
    [] OTHER                  -> {}

Learn(d) ==
  /\ Running(d) /\ Started(d)
  /\ Due(d).does \in {"http", "invoke", "erase"} => asked[d]
  /\ \E what \in MayCome(d) :
       made' = [made EXCEPT ![d] = Append(@, [key |-> Due(d), answer |-> what])]
  /\ asked' = [asked EXCEPT ![d] = FALSE]
  /\ UNCHANGED <<log, erased, outcome>>

\* The clock is read once, before anything else.
ReadClock(d) ==
  /\ Running(d) /\ ~Started(d)
  /\ made' = [made EXCEPT ![d] =
       <<[key |-> [does |-> "now", on |-> "now"],
          answer |-> [now |-> Len(log)]]>>]
  /\ UNCHANGED <<log, erased, asked, outcome>>

End(d, how) ==
  /\ outcome' = [outcome EXCEPT ![d] = how]
  /\ UNCHANGED <<log, erased, made, asked>>

Finish(d) ==
  \/ Running(d) /\ Started(d) /\ Due(d).does = "done" /\ End(d, "done")
  \/ Running(d) /\ Started(d) /\ Due(d).does = "fail" /\ End(d, "failed")

\* Some content the run came to reveal, then or now, cannot be read.
Skip(d) ==
  /\ Running(d) /\ Started(d)
  /\ \E n \in First(d) .. Len(made[d]) :
       LET call == Onward(d, SubSeq(made[d], 1, n)) IN
         call.does = "reveal" /\ Unreadable(call.on)
  /\ End(d, "skipped")

Ignore(d) ==
  /\ outcome[d] = "none" /\ At(d) < Len(log)
  /\ Begins(d, Trigger(d)) = "ignored"
  /\ End(d, "ignored")

Elsewhere ==
  /\ \/ /\ Len(log) < MaxLog
        /\ \E e \in Foreign : log' = Append(log, e)
        /\ UNCHANGED erased
     \/ /\ \E s \in Subject : erased' = erased \cup {s}
        /\ UNCHANGED log
  /\ UNCHANGED <<made, asked, outcome>>

Next ==
  \/ \E d \in Delivery :
       Ask(d) \/ Learn(d) \/ ReadClock(d) \/ Finish(d) \/ Skip(d) \/ Ignore(d)
  \/ Elsewhere

Spec == Init /\ [][Next]_vars
=============================================================================
