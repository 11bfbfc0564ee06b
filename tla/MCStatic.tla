------------------------------ MODULE MCStatic ------------------------------
(* What the loader checks and what its values compute, one question at a   *)
(* time: whichever moves first is the one that is asked, and the others    *)
(* stay where they begin.                                                  *)
EXTENDS MCBodies, CycleWalk, MCSelfTrigger, MCBounds, MCDecimals, MCExpressions, MCRedeploy

(* Every graph of three declarations that reach at most two names each, in *)
(* every order: loops, diamonds, a name said twice, one nothing declares.  *)
CONSTANT Three

Saying == {<<>>} \cup [1 .. 1 -> Name] \cup [1 .. 2 -> Name]

Order == CHOOSE s \in [1 .. Cardinality(Three) -> Three] : Range(s) = Three

Walking ==
    /\ calls \in [Three -> Saying]
    /\ path = <<>> /\ pending = <<Order>> /\ done = {} /\ found = <<>>

NoSchema == [max |-> <<>>, sealed |-> <<>>, arms |-> {}, emits |-> "fold",
             column |-> 0, handlers |-> {}]

NoBody     == sink = "pure" /\ owes = "none" /\ rest = <<>> /\ frame = <<>>
                /\ erased = "no" /\ late = "no" /\ broken = "no"
NoWalk     == calls = <<>> /\ path = <<>> /\ pending = <<<<>>>> /\ done = {} /\ found = <<>>
NoTrigger  == loaded = [effects |-> <<>>, commands |-> <<>>] /\ chain = <<>>
NoBounds   == schema = NoSchema /\ texts = <<>> /\ column = NewText(0) /\ halted = "no"
NoDecimals == DecimalInit
NoTerms    == TermInit
NoDeploy   == was = Program(<<>>) /\ now = was /\ packed = <<>> /\ steps = 0 /\ respelled = TRUE

StaticInit ==
    /\ NoTerms
    /\ \/ Init /\ NoWalk /\ NoTrigger /\ NoBounds /\ NoDecimals /\ NoDeploy
       \/ NoBody /\ Walking /\ NoTrigger /\ NoBounds /\ NoDecimals /\ NoDeploy
       \/ NoBody /\ NoWalk /\ TriggerInit /\ NoBounds /\ NoDecimals /\ NoDeploy
       \/ NoBody /\ NoWalk /\ NoTrigger /\ BoundsInit /\ NoDecimals /\ NoDeploy
       \/ NoBody /\ NoWalk /\ NoTrigger /\ NoBounds /\ NoDecimals /\ NoDeploy
       \/ NoBody /\ NoWalk /\ NoTrigger /\ NoBounds /\ NoDecimals /\ DeployInit

StaticNext ==
    \/ /\ Next
       /\ UNCHANGED <<walkVars, triggerVars, boundVars, decimalVars, termVars, deployVars>>
    \/ /\ WalkNext
       /\ UNCHANGED <<vars, triggerVars, boundVars, decimalVars, termVars, deployVars>>
    \/ /\ Handle
       /\ UNCHANGED <<vars, walkVars, boundVars, decimalVars, termVars, deployVars>>
    \/ /\ BoundsNext
       /\ UNCHANGED <<vars, walkVars, triggerVars, decimalVars, termVars, deployVars>>
    \/ /\ NoBody /\ NoWalk /\ NoTrigger /\ NoBounds /\ NoTerms /\ NoDeploy
       /\ DecimalNext
       /\ UNCHANGED <<vars, walkVars, triggerVars, boundVars, termVars, deployVars>>
    \/ /\ NoBody /\ NoWalk /\ NoTrigger /\ NoBounds /\ NoDecimals /\ NoDeploy
       /\ TermNext
       /\ UNCHANGED <<vars, walkVars, triggerVars, boundVars, decimalVars, deployVars>>
    \/ /\ was \in Deployables
       /\ DeployNext
       /\ UNCHANGED <<vars, walkVars, triggerVars, boundVars, decimalVars, termVars>>

StaticSpec ==
    StaticInit /\ [][StaticNext]_<<vars, walkVars, triggerVars, boundVars, decimalVars,
                                   termVars, deployVars>>
=============================================================================
