------------------------------- MODULE Bodies -------------------------------
(***************************************************************************)
(* How the statements of a declaration run (`exec_block` of src/interp.rs),*)
(* one statement a step, over a frame of slots.                            *)
(***************************************************************************)
EXTENDS Statements

CONSTANTS
    Runnable,   \* the bodies that were loaded: [kind, code, slots]
    MaxTurns    \* the most turns a loop takes

VARIABLES
    sink,      \* what the body may write to: "emit", "write", "effect", "pure"
    owes,      \* what its caller needs of it: "value", "none" or "any"
    rest,      \* the statements still to run
    frame,     \* by slot: "unset", "seed", "none" or "some"
    erased,    \* history: whether an erase has run: "no", "yes", or "forgotten"
               \* where the loader no longer knows of it
    late,      \* history: whether a reveal ran after it: "no", "seen" or "unseen",
               \* as the loader knows of both or not
    broken     \* the run came to malformed IR: "no", or why

vars == <<sink, owes, rest, frame, erased, late, broken>>

---------------------------------------------------------------------------
(* Running it.                                                             *)

SinksOf(kind) ==
    CASE kind \in {"command", "guard"} -> {"emit"}
      [] kind = "projector"            -> {"write"}
      [] kind \in {"fn", "decides"}    -> {"pure", "effect"}
      [] kind \in Calling              -> {"effect"}

Owes(kind) ==
    CASE kind \in {"fn", "decides", "local"} -> "value"
      [] kind = "void"                       -> "none"
      [] OTHER                               -> "any"

Init ==
    \E program \in Runnable :
        /\ sink \in SinksOf(program.kind)
        /\ owes = Owes(program.kind)
        /\ rest = program.code
        /\ frame = [i \in 1 .. program.slots |-> "unset"]
        /\ erased = "no"
        /\ late = "no"
        /\ broken = "no"

(* What evaluating an expression runs into.                                *)
NeedsEffects == {"reveal", "http", "invoke", "secret", "helper"}

Fault(e, context) ==
    IF \E s \in e.loads : frame[s] = "unset" THEN "unset slot"
    ELSE IF \E s \in e.loads : frame[s] = "seed" THEN "not folded yet"
    ELSE IF \E s \in e.loads : frame[s] = "none" THEN "unwrapped none"
    ELSE IF e.does \cap NeedsEffects # {} /\ context # "effect" THEN "no host"
    ELSE "no"

(* Commands, projections and folds evaluate without a host; so do an       *)
(* emitted field and a refusal's message.                                  *)
ContextOf(stmt) ==
    IF stmt.do \in {"emit", "put", "reject", "seed", "filter"} THEN "pure" ELSE sink

SinkFault(stmt) ==
    LET needs == CASE stmt.do = "emit" -> {"emit"}
                   [] stmt.do = "put"  -> {"write"}
                   [] stmt.do \in {"fail", "log", "erase"} -> {"effect"}
                   [] OTHER -> {"emit", "write", "effect", "pure"}
    IN  IF sink \in needs THEN Fault(stmt.with, ContextOf(stmt)) ELSE "wrong sink"

Now == Head(rest)

(* A reveal the loader's scan comes across below an erase it knows of: the *)
(* argument of a fold that is read is in no statement it scans.            *)
Scanned(stmt) == stmt.do # "bind" /\ erased = "yes"

Reveals(stmt) ==
    late' = IF erased = "no" \/ "reveal" \notin stmt.with.does \/ late = "seen" THEN late
            ELSE IF Scanned(stmt) THEN "seen" ELSE "unseen"

Evaluates(stmt) == broken' = SinkFault(stmt) /\ Reveals(stmt)

Running == rest # <<>> /\ broken = "no"

SetSlot(value) == frame' = [frame EXCEPT ![Now.slot] = value]

Assign ==
    /\ Running /\ Now.do \in {"let", "seed"}
    /\ Evaluates(Now)
    /\ IF Now.do = "seed" THEN SetSlot("seed")
       ELSE \E value \in {"some"} \cup (IF Now.type = "opt" THEN {"none"} ELSE {}) :
                SetSlot(value)
    /\ rest' = Tail(rest)
    /\ UNCHANGED <<sink, owes, erased>>

Folded ==
    /\ Running /\ Now.do = "folded"
    /\ \E value \in {"some"} \cup (IF Now.type = "opt" THEN {"none"} ELSE {}) : SetSlot(value)
    /\ rest' = Tail(rest)
    /\ UNCHANGED <<sink, owes, erased, late, broken>>

If ==
    /\ Running /\ Now.do = "if"
    /\ \E side \in Sides(Now.cond, frame) :
          rest' = (IF side THEN Now.then ELSE Now.otherwise) \o Tail(rest)
    /\ UNCHANGED <<sink, owes, frame, erased, late, broken>>

(* The scan goes on below a loop as its body leaves it: with no erase, when *)
(* that ends on both branches of an `if`.                                  *)
Forgets(stmt) == ~ScanLoop(stmt, [erased |-> TRUE]).erased

For ==
    /\ Running /\ Now.do = "for"
    /\ Evaluates(Now)
    /\ \E turns \in 0 .. MaxTurns :
          rest' = FlattenSeq([i \in 1 .. turns |->
                      <<[do |-> "folded", slot |-> Now.slot, type |-> "plain"]>> \o Now.body])
                        \o Tail(rest)
    /\ erased' = IF erased = "yes" /\ Forgets(Now) THEN "forgotten" ELSE erased
    /\ UNCHANGED <<sink, owes, frame>>

Erase ==
    /\ Running /\ Now.do = "erase"
    /\ Evaluates(Now)
    /\ erased' = "yes"
    /\ rest' = Tail(rest)
    /\ UNCHANGED <<sink, owes, frame>>

Writes ==
    /\ Running /\ Now.do \in {"emit", "put", "log", "filter", "bind"}
    /\ Evaluates(Now)
    /\ rest' = Tail(rest)
    /\ UNCHANGED <<sink, owes, frame, erased>>

(* A function must answer with a value, and one declared to return nothing *)
(* must not.                                                               *)
Misreturned(stmt) ==
    \/ owes = "value" /\ stmt.do = "return" /\ ~stmt.value
    \/ owes = "none" /\ stmt.do = "reject"
    \/ owes = "none" /\ stmt.do = "return" /\ stmt.value

Return ==
    /\ Running /\ Terminates(Now)
    /\ Reveals(Now)
    /\ broken' = IF SinkFault(Now) # "no" THEN SinkFault(Now)
                 ELSE IF Misreturned(Now) THEN "wrong answer" ELSE "no"
    /\ rest' = <<>>
    /\ owes' = "any"
    /\ UNCHANGED <<sink, frame, erased>>

Next == Assign \/ Folded \/ If \/ For \/ Erase \/ Writes \/ Return

Spec == Init /\ [][Next]_vars

---------------------------------------------------------------------------

(* What was accepted runs: no slot is read before it was set or folded,    *)
(* whatever branches, loops and stages led there; no branch unwraps a      *)
(* value it only might have; no statement finds itself without the sink or *)
(* the host it needs; and a `fn` that returns a value does.                *)
AcceptedBodiesRun ==
    /\ broken = "no"
    /\ rest = <<>> => owes # "value"

(* "A program is rejected if [...] a reveal is reachable from an erase"    *)
(* (docs/effects.md rule 9): on no path of an accepted arm does a reveal   *)
(* run after an erase, a second turn of a loop and a later stage included, *)
(* but where it is in the argument of a fold, or the erase is above a loop *)
(* whose body ends on both branches of an `if`.                            *)
OnlyTheOverlookedIsLate == late # "seen"

(* The same as the documentation has it, wherever either is written.       *)
NothingIsRevealedLate == late = "no"
=============================================================================
