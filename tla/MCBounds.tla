------------------------------ MODULE MCBounds ------------------------------
(* Two events folded into a third and projected, with every bound of two   *)
(* and none, plain and sealed.                                             *)
EXTENDS Bounds

Bound == {0, 1, 2}
Contents == {"placed", "noted", "copied"}

ArmSets ==
    {{[on |-> "placed", how |-> how]} : how \in {"plain", "handed", "trims"}}
      \cup {{[on |-> "placed", how |-> "plain"], [on |-> "noted", how |-> how]} :
              how \in {"plain", "trims"}}

HandlerSets ==
    {{[on |-> event, how |-> how]} :
        event \in {"placed", "copied"}, how \in {"plain", "handed", "computed"}}
      \cup {{[on |-> "placed", how |-> "narrowed"], [on |-> "copied", how |-> "plain"]}}

(* Sealed content is only ever moved, into what is sealed as well.         *)
Typed(s) ==
    /\ \A arm \in s.arms : s.sealed[arm.on] = s.sealed["placed"]
    /\ s.sealed["placed"] => s.sealed["copied"] /\ \A arm \in s.arms : arm.how # "trims"
    /\ \A handler \in s.handlers :
          s.sealed[handler.on] => handler.how # "computed"
    /\ Cardinality({s.sealed[handler.on] : handler \in s.handlers}) = 1

MCSchemas ==
    {s \in [max : [Contents -> Bound],
            sealed : {[c \in Contents |-> x] : x \in BOOLEAN}
                       \cup {[c \in Contents |-> c = "copied"]},
            arms : ArmSets, emits : {"fold", "name"}, column : Bound,
            handlers : HandlerSets] : Typed(s)}

(* One that moves a field through a name in two places: a fold of the      *)
(* module, and a `let` of a handler.                                       *)
NamedSchemas ==
    {s \in MCSchemas :
        /\ s.max = [c \in Contents |-> IF c = "placed" THEN 2 ELSE 1] /\ s.column = 1
        /\ \A c \in Contents : s.sealed[c]
        /\ s.emits = "name" /\ s.arms = {[on |-> "placed", how |-> "plain"]}
        /\ s.handlers = {[on |-> "placed", how |-> "handed"]}}
=============================================================================
