------------------------------- MODULE Packages -------------------------------
(***************************************************************************)
(* The packages of the repository that keep nothing between two calls: a   *)
(* call and what it answers, each package in a module of its own.  The     *)
(* drawing of a code, which takes many steps, runs beside them.            *)
(***************************************************************************)
EXTENDS QrCode, GrpcHelper, NodePackages

CONSTANT Calls      \* <<package, arguments>>, beside those of GrpcHelper and NodePackages

vars == <<drawing, step, canvas, call, result>>

Expression == INSTANCE InputExpression
Nico == INSTANCE NicoApp
App == INSTANCE NicoMiddlewares WITH
          NoConfig <- Nico!Object(<<>>), MergeConfigs <- Nico!MergeConfigs,
          Mounted <- Nico!Mounted, Fails <- Nico!Fails

NoCall == <<"none">>

Init ==
    /\ result = Pending
    /\ \/ QrInit /\ call = NoCall
       \/ call \in Calls \cup HelperCalls \cup NodeCalls /\ drawing = NoCall /\ step = 0 /\ canvas = Blank

DrawStep == call = NoCall /\ QrNext /\ UNCHANGED <<call, result>>

ParseExpression ==
    Answer("expression", Expression!Parse(call[2], call[3], call[4]))

BuildApp == Answer("nico", App!AppAfter(call[2]))

Next ==
    \/ DrawStep
    \/ /\ ParseExpression \/ BuildApp \/ HelperNext \/ NodeNext
       /\ UNCHANGED qrvars

Spec == Init /\ [][Next]_vars

-----------------------------------------------------------------------------
(***************************************************************************)
(* Where a node's value comes in does not matter: an expression over the   *)
(* nodes' data is the expression with the values in place of the nodes,    *)
(* over no data.  So every part is parsed with the data of the whole, and  *)
(* no value is taken for an expression.                                    *)
(***************************************************************************)
NodesAreTheirValues ==
    Answered("expression") =>
        Got = Expression!Parse(Expression!Closed(call[2], call[3], call[4]),
                                  <<>>, Expression!NoData)

(***************************************************************************)
(* However an application is put together: its middlewares are in place    *)
(* (InPlace of NicoMiddlewares), and the routes and the configuration that *)
(* a successful first init leaves are those of all it was given.           *)
(***************************************************************************)
AppIsConfigured ==
    Answered("nico") =>
        LET calls == call[2]
            inits == {k \in DOMAIN calls : calls[k][1] = "init"}
            configs == calls[Min(inits)][2]
        IN /\ App!InPlace(calls, Got)
           /\ Got.initialed /\ Cardinality(inits) = 1 =>
                /\ \A c \in ToSet(configs) : \A key \in DOMAIN Nico!Field(c, "routes")[2] :
                      key[1] \in Nico!Methods =>
                        \E m \in Got.mounted : m.method = key[1] /\ m.path = <<key[2]>>
                /\ Nico!MergeConfigs(configs \o <<Last(configs)>>) = Got.config

=============================================================================
