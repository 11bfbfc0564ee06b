---------------------------- MODULE MCFoldValues ----------------------------
(* A log of buyers' and developers' records, with one helper of each kind. *)
EXTENDS FoldValues

Developer == Subject(IntT)
SealedFor(subject) == Made("Sealed", <<TextT, Kind(subject)>>)

MCBinds == [developer |-> Developer, team |-> List(Developer), n |-> IntT,
            email |-> SealedFor("Buyer"), nick |-> SealedFor("Shop")]

MCShapes == [Pick |-> <<Developer, IntT>>]

Helper(params, ret, gives) == [params |-> params, ret |-> ret, gives |-> gives]

PlainFns == [house |-> Helper(<<>>, Developer, Scalar(IntT, 0)),
                 label |-> Helper(<<Developer>>, TextT, Scalar(TextT, 1))]

(* One that hands on what it is given.                                     *)
AllFns == [same |-> Helper(<<TextT>>, TextT, Nothing)] @@ PlainFns

OfFold(named, type) == [named |-> named, type |-> type]

MCFoldTypes ==
    {OfFold(TRUE, type) : type \in {Opt(Developer), List(Developer), Opt(Kind("Pick")), IntT,
                                      Opt(TextT), Opt(SealedFor("Buyer"))}}
    \cup {OfFold(FALSE, Opt(TextT))}

MCPositions == {Anything, Developer, TextT} \cup {decl.type : decl \in MCFoldTypes}

LogEntry(developer, team, n, mark) ==
    [developer |-> Scalar(IntT, developer),
     team  |-> Holding(List(Developer), [i \in DOMAIN team |-> Scalar(IntT, team[i])]),
     n     |-> Scalar(IntT, n),
     email |-> Scalar(SealedFor("Buyer"), mark),
     nick  |-> Scalar(SealedFor("Shop"), mark)]

MCCarried == {LogEntry(1, <<>>, 0, 1), LogEntry(2, <<1, 3>>, 5, 2)}

MCFoldSpec == FoldInit /\ [][FoldNext]_foldVars
=============================================================================
