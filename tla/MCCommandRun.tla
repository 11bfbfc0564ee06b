---------------------------- MODULE MCCommandRun ----------------------------
(***************************************************************************)
(* A shop on CommandRun.  `reserve` asks which warehouse serves it, then   *)
(* reads the reservations of that warehouse and takes one if the cap       *)
(* allows: its second stage's filter names the first stage's fold.  Asked  *)
(* strictly it is also refused while the shop is closed; asked loosely the *)
(* `closed` slice's key gate fails.  `assign` appends from the request     *)
(* alone, and `audit` reads and appends nothing.                           *)
(***************************************************************************)
EXTENDS SerialRuns, FiniteSets, TLC

CONSTANTS r1, r2, Cap

Warehouses == {"east", "west"}

Assigned(w) == [path |-> "assigned", fields |-> [to |-> w]]
Reserved(w) == [path |-> "reserved", fields |-> [of |-> w]]
Closed      == [path |-> "closed", fields |-> [by |-> "owner"]]

MCEvent == {Assigned(w) : w \in Warehouses}
             \cup {Reserved(w) : w \in Warehouses} \cup {Closed}

\* Foreign writers move the shop and close it; reservations are commands'.
MCForeign == {Assigned("west"), Closed}

Ask(command, mode) == [command |-> command, mode |-> mode]

StrictReserve == Ask("reserve", "strict")
LooseReserve  == Ask("reserve", "loose")
Assign        == Ask("assign", "west")
Audit         == Ask("audit", "loose")
Misspelt      == Ask("assign", "nowhere")
Unbound       == Ask("reserve", "unbound")

AllRequests     == {StrictReserve, LooseReserve, Assign, Audit, Misspelt,
                    Unbound}

MCAccepts(q) == q.mode # "unbound"
MCStages(q) == IF q.command = "reserve" THEN 2 ELSE 1
MCReads(q, s) == q.command \in {"reserve", "audit"}

Whole(path) == [path |-> path, filters |-> <<>>]
Of(path, name, value) ==
  [path |-> path, filters |-> [n \in {name} |-> value]]
Slice(predicate, live) == [predicate |-> predicate, live |-> live]

\* The warehouse of the last `assigned` folded, "east" before any.
Warehouse(fold) ==
  LET moves == {i \in DOMAIN fold.seen : 1 \in fold.seen[i].arms} IN
    IF moves = {} THEN "east"
    ELSE fold.seen[CHOOSE i \in moves : \A j \in moves : j <= i]
           .event.fields.to

SawClosed(fold) == \E i \in DOMAIN fold.seen : 2 \in fold.seen[i].arms

MCSlices(q, s, f) ==
  IF s = 1
  THEN <<Slice(Whole("assigned"), TRUE),
         Slice(Whole("closed"), q.mode = "strict")>>
  ELSE <<Slice(Of("reserved", "of", f.lets[1]), TRUE)>>

FallThrough(f)    == [flow |-> "next", emits |-> <<>>, frame |-> f]
Emit(f, e)        == [flow |-> "next", emits |-> <<e>>, frame |-> f]
Return(f, answer) == [flow |-> answer, emits |-> <<>>, frame |-> f]

MCPre(q, s, f) ==
  CASE q.command # "assign" -> FallThrough(f)
    [] q.mode = "west"      -> Emit(f, Assigned("west"))
    [] OTHER                -> Emit(f, [Closed EXCEPT !.path = q.mode])

\* Below the first stage the warehouse is kept aside and its fold is
\* assigned back to the seed.
KeepAside(f) ==
  [f EXCEPT !.lets = <<Warehouse(f.folds[1])>>, !.folds[1].seen = <<>>]

MCPost(q, s, f) ==
  CASE q.command = "assign" -> Return(f, "ok")
    [] q.command = "audit"  -> FallThrough(f)
    [] OTHER ->
       IF s = 1
       THEN IF SawClosed(f.folds[1]) THEN Return(f, "reject")
            ELSE FallThrough(KeepAside(f))
       ELSE IF Len(f.folds[2].seen) >= Cap THEN Return(f, "invalid")
            ELSE Emit(f, Reserved(f.lets[1]))

\* A host that may stop asking at any conflict, and asks for two attempts
\* after the first at most.
Fickle(n) == IF n < 2 THEN BOOLEAN ELSE {FALSE}

=============================================================================
