---------------------------- MODULE SelfTrigger ----------------------------
(***************************************************************************)
(* Which events an effect may bring about, as the loader reckons it and as *)
(* it happens: the checks that no effect triggers itself and that no `on   *)
(* latest` arm invokes (`check_cycles`, `latest_never_invokes` of          *)
(* src/parse.rs), beside the chain of records a program may go on to.      *)
(*                                                                         *)
(* A program is [effects, commands]: by effect its arms and the `fn`s of   *)
(* its own, by command the events it emits. An arm has its statements,     *)
(* arm.body, and the arguments of the folds it reads by name, arm.args.    *)
(* Each, like the body of a `fn`, is what it invokes and what it calls, a  *)
(* call a <<scope, name>> with "" for a module `fn`:                       *)
(*                                                                         *)
(*   [invokes |-> {command, ...}, calls |-> {<<scope, name>>, ...}]        *)
(***************************************************************************)
EXTENDS Integers, Sequences, FiniteSets, SequencesExt

CONSTANTS
    Applications,    \* the programs an author may have written
    Longest      \* the most records of a chain

VARIABLES
    loaded,      \* the program
    chain        \* [event, by] each: an event brought about by the one before
                 \* it, and by which part of an arm, "body" or "args"

triggerVars == <<loaded, chain>>

---------------------------------------------------------------------------
(* The loader.                                                             *)

(* The effect's own `fn`s a body calls.                                    *)
Queued(effect, name, body) == {f \in DOMAIN effect.fns : <<name, f>> \in body.calls}

(* What is ever queued: the `fn`s the body calls, and those that one of    *)
(* these calls.                                                            *)
Walked(effect, name, body) ==
    {f \in DOMAIN effect.fns :
        \A done \in SUBSET DOMAIN effect.fns :
            /\ Queued(effect, name, body) \subseteq done
            /\ \A g \in done : Queued(effect, name, effect.fns[g]) \subseteq done
            => f \in done}

ThroughDirectly(effect, name, body) ==
    UNION {effect.fns[f].invokes : f \in Queued(effect, name, body)}
Through(effect, name, body) ==
    UNION {effect.fns[f].invokes : f \in Walked(effect, name, body)}

InvokedBy(effect, name, arm) ==
    arm.body.invokes \cup Through(effect, name, arm.body)

(* From what sets an arm off to what a command it invokes emits.           *)
Edges(program) ==
    UNION {UNION {UNION {
        {[from |-> on, to |-> event, effect |-> name, command |-> c] :
            on \in arm.events, event \in program.commands[c]}
        : c \in InvokedBy(program.effects[name], name, arm) \cap DOMAIN program.commands}
        : arm \in program.effects[name].arms} : name \in DOMAIN program.effects}

(* The descents that have closed no cycle: the events a descent has been   *)
(* at, and the edges it took. It has no memory but that path, and it may   *)
(* take the edges of an event in any order.                                *)
Begun(edges) == {[nodes |-> <<edge.from>>, path |-> <<>>] : edge \in edges}

Onwards(edges, descent) == {edge \in edges : edge.from = Last(descent.nodes)}
Closes(descent, edge)   == edge.to \in Range(descent.nodes)

Descend(edges, descents) ==
    UNION {{[nodes |-> Append(descent.nodes, edge.to), path |-> Append(descent.path, edge)]
            : edge \in {e \in Onwards(edges, descent) : ~Closes(descent, e)}}
        : descent \in descents}

Descents(edges) ==
    LET deep[n \in 0 .. Cardinality(edges)] ==
            IF n = 0 THEN Begun(edges) ELSE Descend(edges, deep[n - 1])
    IN  deep

(* The cycle an edge closes: the path from where its event was met.        *)
CycleAt(descent, edge) ==
    LET start == CHOOSE i \in DOMAIN descent.nodes : descent.nodes[i] = edge.to
    IN  Append(SubSeq(descent.path, start, Len(descent.path)), edge)

(* The cycles the search may come to, whichever order the edges are in.    *)
FindCycles(edges) ==
    UNION {UNION {{CycleAt(descent, edge) :
                edge \in {e \in Onwards(edges, descent) : Closes(descent, e)}}
            : descent \in Descents(edges)[n]}
        : n \in 0 .. Cardinality(edges)}

LatestInvokes(program) ==
    \E name \in DOMAIN program.effects :
        \E arm \in program.effects[name].arms :
            arm.latest /\ InvokedBy(program.effects[name], name, arm) # {}

Loads(program) == ~LatestInvokes(program) /\ FindCycles(Edges(program)) = {}

---------------------------------------------------------------------------
(* What happens. A body calls the `fn` its scope resolves to, and a module *)
(* `fn` invokes nothing.                                                   *)

Fns(program) ==
    UNION {{<<name, f>> : f \in DOMAIN program.effects[name].fns}
        : name \in DOMAIN program.effects}

BodyOf(program, fn) == program.effects[fn[1]].fns[fn[2]]

(* The `fn`s a run of a body may come to be in.                            *)
MayCall(program, body) ==
    {fn \in Fns(program) :
        \A within \in SUBSET Fns(program) :
            /\ body.calls \cap Fns(program) \subseteq within
            /\ \A g \in within : BodyOf(program, g).calls \cap Fns(program) \subseteq within
            => fn \in within}

MayInvoke(program, body) ==
    body.invokes \cup UNION {BodyOf(program, fn).invokes : fn \in MayCall(program, body)}

(* The events that part of the arms on an event may bring about. An arm's  *)
(* arguments are evaluated where the stage reads its folds, before any of  *)
(* its statements.                                                         *)
FollowsBy(part, program, event) ==
    UNION {UNION {UNION {program.commands[c] :
            c \in MayInvoke(program, arm[part]) \cap DOMAIN program.commands}
        : arm \in {a \in program.effects[name].arms : event \in a.events}}
        : name \in DOMAIN program.effects}

(* A program is finite, and the `fn`s in scope of an effect's bodies are   *)
(* its own and the module's.                                               *)
ASSUME ApplicationsAssumption ==
    \A program \in Applications :
        /\ IsFiniteSet(Edges(program))
        /\ \A name \in DOMAIN program.effects :
              LET effect == program.effects[name]
                  bodies == {arm.body : arm \in effect.arms} \cup Range(effect.fns)
              IN  \A body \in bodies : \A call \in body.calls \cap Fns(program) :
                      call[1] = name

TriggerInit == loaded \in Applications /\ \E e \in UNION {arm.events :
                   arm \in UNION {loaded.effects[n].arms : n \in DOMAIN loaded.effects}} :
                       chain = <<[event |-> e, by |-> "world"]>>

(* An arm handles the last record of the chain and its commands append.    *)
Handle ==
    /\ Loads(loaded) /\ Len(chain) < Longest
    /\ \E part \in {"args", "body"} :
          \E event \in FollowsBy(part, loaded, Last(chain).event) :
              chain' = Append(chain, [event |-> event, by |-> part])
    /\ UNCHANGED loaded

TriggerSpec == TriggerInit /\ [][Handle]_triggerVars

---------------------------------------------------------------------------

(* "No effect may trigger itself" (docs/effects.md), directly or through a *)
(* chain of invokes: in a program that loads an event brings about another *)
(* of its kind, through whatever arms, `fn`s and commands, only where some *)
(* step of the way is an `invoke` in a fold's argument, which the loader's *)
(* search does not see; the statements of what the dispatcher collapses    *)
(* append nothing; and a program that is refused for a cycle has every     *)
(* step of it.                                                             *)
LoopsAreRefused ==
    /\ \A i, j \in DOMAIN chain :
          i < j /\ chain[i].event = chain[j].event
              => \E k \in i + 1 .. j : chain[k].by = "args"
    /\ Len(chain) = 1 =>
        /\ Loads(loaded) =>
              \A n \in DOMAIN loaded.effects : \A arm \in loaded.effects[n].arms :
                  arm.latest => MayInvoke(loaded, arm.body) = {}
        /\ \A cycle \in FindCycles(Edges(loaded)) :
              /\ cycle[1].from = Last(cycle).to
              /\ \A i \in DOMAIN cycle :
                    cycle[i].to \in FollowsBy("body", loaded, cycle[i].from)
              /\ \A i \in 2 .. Len(cycle) : cycle[i].from = cycle[i - 1].to

(* The same as the documentation has it, wherever an `invoke` is written:  *)
(* no event of a program that loads brings about another of its kind.      *)
NothingTriggersItself ==
    \A i, j \in DOMAIN chain : chain[i].event = chain[j].event => i = j

(* And what an `on latest` arm collapses has nothing to append: such an    *)
(* arm of a program that loads invokes nothing.                            *)
LatestAppendsNothing ==
    Loads(loaded) =>
        \A n \in DOMAIN loaded.effects : \A arm \in loaded.effects[n].arms :
            arm.latest => MayInvoke(loaded, arm.args) \cup MayInvoke(loaded, arm.body) = {}
=============================================================================
