---------------------------- MODULE MCReadModels ----------------------------
(* What is kept of a log: the derived tables or a projector's rows, or the  *)
(* value of one fold written an expression at a time. Whichever moves first *)
(* is the one it keeps.                                                     *)
EXTENDS MCDerivedTables, MCProjection, MCFoldValues

\* The projectors' events do not say two things of one key: what the theorems
\* about a projector's rows ask of them.
ASSUME EventsWrapAlike == WrapsAlike

NoTables == program = OrderTables /\ log = <<>> /\ rebuilds = 0
NoRows   == projector = (CHOOSE p \in Projectors : TRUE) /\ records = <<>> /\ erased = {}

ReadModelsInit ==
    /\ Init
    /\ ProjectionInit
    /\ FoldInit
    /\ NoTables \/ NoRows

ReadModelsNext ==
    \/ NoRows /\ FoldInit /\ Next /\ UNCHANGED <<projectionVars, foldVars>>
    \/ NoTables /\ FoldInit /\ ProjectionNext /\ UNCHANGED <<vars, foldVars>>
    \/ NoTables /\ NoRows /\ FoldNext /\ UNCHANGED <<vars, projectionVars>>

ReadModelsSpec == ReadModelsInit /\ [][ReadModelsNext]_<<vars, projectionVars, foldVars>>
=============================================================================
