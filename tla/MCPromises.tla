----------------------------- MODULE MCPromises -----------------------------
(* What the documentation says of every program that loads, asked of a few  *)
(* programs at a time: a question is asked once the ones before it have met *)
(* an example to the contrary, which is then left as it stands.             *)
EXTENDS MCBodies, MCSelfTrigger, MCBounds, MCExpressions, MCRedeploy

VARIABLE raised    \* what accepted expressions were met to raise, of LetThrough

promiseVars == <<vars, triggerVars, boundVars, termVars, deployVars, raised>>

Raises == {"unary", "argument", "operands"}

(* An expression that raises one of them is put aside for another.         *)
PutAside ==
    /\ Evaluated /\ term.says.raises \in Raises
    /\ raised' = raised \cup {term.says.raises}
    /\ term' = NoTerm /\ maybe' = NoneOf(IntT)

(* "A checker whose green light does not mean 'this can run' is not doing  *)
(* its job" (docs/types.md): of the errors the checker lets through, that  *)
(* no accepted minus meets a value it cannot negate, no accepted call an   *)
(* argument its method does not take, or no accepted operator operands it  *)
(* does not compare.                                                       *)
GreenLightRuns == raised # Raises

PromisesInit ==
    Init /\ TriggerInit /\ BoundsInit /\ TermInit /\ DeployInit /\ raised = {}

Broken == [
    expressions |-> ~GreenLightRuns,
    reveals     |-> ~NothingIsRevealedLate,
    triggers    |-> ~NothingTriggersItself /\ ~LatestAppendsNothing,
    bounds      |-> ~FieldsKeepTheirMax /\ ~ColumnsKeepTheirMax,
    deploys     |-> ~UpToDateIsSo]

Order == <<"expressions", "reveals", "triggers", "bounds", "deploys">>

Asked(question) ==
    \E n \in DOMAIN Order :
        /\ Order[n] = question /\ ~Broken[question]
        /\ \A m \in 1 .. n - 1 : Broken[Order[m]]

PromisesNext ==
    \/ /\ Asked("expressions")
       /\ IF Evaluated /\ term.says.raises \in Raises THEN PutAside
          ELSE TermNext /\ UNCHANGED raised
       /\ UNCHANGED <<vars, triggerVars, boundVars, deployVars>>
    \/ /\ Asked("reveals") /\ Next
       /\ UNCHANGED <<triggerVars, boundVars, termVars, deployVars, raised>>
    \/ /\ Asked("triggers") /\ Handle
       /\ UNCHANGED <<vars, boundVars, termVars, deployVars, raised>>
    \/ /\ Asked("bounds") /\ BoundsNext
       /\ UNCHANGED <<vars, triggerVars, termVars, deployVars, raised>>
    \/ /\ Asked("deploys") /\ DeployNext
       /\ UNCHANGED <<vars, triggerVars, boundVars, termVars, raised>>

PromisesSpec == PromisesInit /\ [][PromisesNext]_promiseVars

(* One of the things the documentation says of every program that loads is *)
(* so: an accepted expression runs (docs/types.md), no reveal follows an   *)
(* erase, no effect triggers itself and what is collapsed appends nothing  *)
(* (docs/effects.md), no field and no column outgrows its bound            *)
(* (docs/projectors.md), or a declaration that keeps its hash does what it *)
(* did (src/digest.rs). A state that breaks this breaks each of them.      *)
SomePromiseIsKept ==
    \/ GreenLightRuns
    \/ NothingIsRevealedLate
    \/ NothingTriggersItself \/ LatestAppendsNothing
    \/ FieldsKeepTheirMax \/ ColumnsKeepTheirMax
    \/ UpToDateIsSo
=============================================================================
