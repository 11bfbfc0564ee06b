--------------------------- MODULE MCSelfTrigger ---------------------------
(* Two effects that hand events to each other or to themselves, directly   *)
(* or through one or two `fn`s, in their statements or in the arguments of *)
(* a fold they read; a module `fn` has a local one's name.                 *)
EXTENDS SelfTrigger

Doing(invokes, called) == [invokes |-> invokes, calls |-> called]
Quiet == Doing({}, {})
Arm(events, latest, args, body) ==
    [events |-> events, latest |-> latest, args |-> args, body |-> body]

CallsH == {{}, {<<"A", "h">>}, {<<"", "h">>}}

FirstEffects ==
    {[arms |-> {Arm(events, latest, args, Doing(invokes, called))},
      fns |-> [f \in {"h", "g"} |->
                  IF f = "h" THEN Doing(own, onwards) ELSE Doing({"second"}, {})]]
        : events \in {{"a"}, {"b"}, {"a", "b"}}, latest \in BOOLEAN,
          args \in {Quiet, Doing({"first"}, {}), Doing({}, {<<"A", "h">>})},
          invokes \in {{}, {"first"}}, called \in CallsH,
          own \in {{}, {"first"}}, onwards \in {{}, {<<"A", "g">>}}}

SecondEffects ==
    {[arms |-> arms, fns |-> [f \in {"h"} |-> Doing({"first", "gone"}, {})]]
        : arms \in {{}, {Arm({"b"}, FALSE, Quiet, Doing({"second"}, {}))},
                    {Arm({"c"}, FALSE, Quiet, Doing({}, {<<"B", "h">>})),
                     Arm({"a"}, FALSE, Doing({}, {<<"", "h">>}), Doing({"second"}, {}))}}}

Emitted == {{}, {"a"}, {"b"}, {"b", "c"}}

TriggerPrograms ==
    {[effects |-> [n \in {"A", "B"} |-> IF n = "A" THEN first ELSE second],
      commands |-> [c \in {"first", "second"} |-> IF c = "first" THEN one ELSE two]]
        : first \in FirstEffects, second \in SecondEffects, one, two \in Emitted}

(* Those whose only `invoke` is in an argument of a fold an arm reads that *)
(* handles the latest of its events.                                       *)
CollapsingPrograms ==
    {program \in TriggerPrograms :
        /\ program.effects["B"].arms = {}
        /\ \A arm \in program.effects["A"].arms :
              /\ arm.events = {"a"} /\ arm.latest
              /\ arm.args # Quiet /\ arm.body = Quiet
        /\ program.effects["A"].fns["h"] = Doing({"first"}, {})
        /\ program.commands["first"] = {"a"} /\ program.commands["second"] = {}}
=============================================================================
