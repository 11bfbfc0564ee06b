----------------------------- MODULE CycleWalk -----------------------------
(***************************************************************************)
(* The search for a cycle of declarations, depth first with the path for a *)
(* stack, which the loader makes three times: of the `fn`s that call each  *)
(* other (`fn_cycle`, `reaches_itself` of src/parse.rs), of the guards     *)
(* that name each other (`cycle`, `walk` of src/inline.rs) and of the      *)
(* folds that look each other up (`lookup_cycle`, `looping` of src/ir.rs). *)
(*                                                                         *)
(* A call of the recursion is a frame of `pending`: the names its loop has *)
(* still to visit. The bottom frame is the outer loop over declarations.   *)
(***************************************************************************)
EXTENDS Integers, Sequences, Functions

CONSTANT Name      \* of declarations, and of what nothing declares

VARIABLES
    calls,      \* by declaration: what it reaches, in the order it says so
    path,       \* the declarations the walk is inside of
    pending,    \* by frame: the names still to visit
    done,       \* the declarations the walk came back from
    found       \* the path that closes on itself, or <<>>

walkVars == <<calls, path, pending, done, found>>

---------------------------------------------------------------------------

Declared == DOMAIN calls

Cleared == pending = <<<<>>>>       \* every declaration visited, none found

Frame    == pending[Len(pending)]
Visiting == found = <<>> /\ Frame # <<>>
Visited  == Head(Frame)

PassedWhole(frames) == [frames EXCEPT ![Len(frames)] = <<>>]
Passed(frames) == [frames EXCEPT ![Len(frames)] = Tail(@)]

WalkInit ==
    /\ calls \in UNION {[D -> Seq(Name)] : D \in SUBSET Name}
    /\ path = <<>>
    /\ \E order \in Seq(Name) : Range(order) = Declared /\ pending = <<order>>
    /\ done = {}
    /\ found = <<>>

(* The name is on the path: the path from there, closed by the name.       *)
Close ==
    /\ Visiting /\ Visited \in Range(path)
    /\ found' = LET at == CHOOSE i \in DOMAIN path : path[i] = Visited
                IN  Append(SubSeq(path, at, Len(path)), Visited)
    /\ UNCHANGED <<calls, path, pending, done>>

(* The walk was there already, or nothing is declared there.               *)
PassBy ==
    /\ Visiting /\ Visited \notin Range(path)
    /\ Visited \in done \/ Visited \notin Declared
    /\ pending' = Passed(pending)
    /\ UNCHANGED <<calls, path, done, found>>

Enter ==
    /\ Visiting /\ Visited \notin Range(path) \cup done
    /\ Visited \in Declared
    /\ path' = Append(path, Visited)
    /\ pending' = Append(Passed(pending), calls[Visited])
    /\ UNCHANGED <<calls, done, found>>

Without(stack) == SubSeq(stack, 1, Len(stack) - 1)

LeaveOnThePath ==
    /\ found = <<>> /\ Frame = <<>> /\ path # <<>>
    /\ done' = done \cup {path[Len(path)]}
    /\ pending' = Without(pending)
    /\ UNCHANGED <<calls, path, found>>
Leave ==
    /\ found = <<>> /\ Frame = <<>> /\ path # <<>>
    /\ done' = done \cup {path[Len(path)]}
    /\ path' = Without(path)
    /\ pending' = Without(pending)
    /\ UNCHANGED <<calls, found>>

WalkNext == Close \/ PassBy \/ Enter \/ Leave

WalkSpec == WalkInit /\ [][WalkNext]_walkVars

---------------------------------------------------------------------------

(* A path that is reported is one the declarations have, and it comes back *)
(* to where it began: nothing is refused for merely being reached twice.   *)
FoundIsACycle ==
    found # <<>> =>
        /\ Len(found) > 1 /\ found[1] = found[Len(found)]
        /\ \A i \in 1 .. Len(found) - 1 :
              found[i] \in Declared /\ found[i + 1] \in Range(calls[found[i]])

(* In any company of declarations, one reaches no other of it, nor itself. *)
Acyclic(S) ==
    \A T \in SUBSET S : T # {} => \E d \in T : Range(calls[d]) \cap T = {}

(* A program the walk clears has no cycle, however its declarations are    *)
(* ordered: a call chain ends, a splice ends, a lookup is answered.        *)
ClearedIsAcyclic == Cleared => Acyclic(Declared)

(* So the walk refuses a program for a cycle exactly when it has one:      *)
(* `fn_cycle` and `looping` answer for the loader either way.              *)
VerdictsHold == FoundIsACycle /\ ClearedIsAcyclic
=============================================================================
