----------------------------- MODULE NicoMiddlewares -----------------------------
(***************************************************************************)
(* How a nico application is put together before it listens: the lists of  *)
(* middlewares that useAppMiddleware and useRouteMiddleware extend, and    *)
(* the stack that init leaves to koa.  What the middlewares do with a      *)
(* configuration is left to the constants; NicoApp says it.                *)
(***************************************************************************)
EXTENDS Integers, FiniteSets, SequencesExt

CONSTANTS
    NoConfig,           \* the configuration before init
    MergeConfigs(_),    \* one configuration of several
    Mounted(_),         \* the routes of an application
    Fails(_, _)         \* whether the factory of a middleware throws

(* A middleware of the application goes behind the one it names, or first; *)
(* the first of a name stays the one of that name.                         *)
InsertedInPlace(list, name, after) ==
    LET places == {k \in DOMAIN list : list[k] = after}
    IN IF places = {} THEN <<name>> \o list
       ELSE ReplaceAt(list, Min(places), name)

Inserted(list, name, after) ==
    LET places == {k \in DOMAIN list : list[k] = after}
    IN IF places = {} THEN <<name>> \o list ELSE InsertAt(list, Min(places) + 1, name)

AppMiddlewares == <<"error-handler", "trace", "not-found-handler", "global-cors",
                    "responses", "serve", "routes">>
RouteMiddlewares == <<"controller-cors", "csp", "xframes", "policies",
                      "body-parser", "validate", "controller">>

NewApp == [initialed |-> FALSE, failed |-> FALSE, config |-> NoConfig,
           app |-> AppMiddlewares, route |-> RouteMiddlewares, custom |-> {},
           stack |-> <<>>, mounted |-> {}]

UseMiddleware(a, list, name, after) ==
    IF a.initialed THEN a
    ELSE IF list = "app"
    THEN [a EXCEPT !.custom = @ \cup {name}, !.app = Inserted(@, name, after)]
    ELSE [a EXCEPT !.custom = @ \cup {name}, !.route = Inserted(@, name, after)]

-----------------------------------------------------------------------------
(***************************************************************************)
(* init: the middlewares are used one by one, and the application counts   *)
(* as initialised when all are.  What a factory throws leaves those before *)
(* it in use.                                                              *)
(***************************************************************************)
UseOne(a, name) ==
    IF a.failed \/ name \notin ToSet(AppMiddlewares) \cup a.custom THEN a
    ELSE IF Fails(a, name) THEN [a EXCEPT !.failed = TRUE]
    ELSE [a EXCEPT !.stack = Append(@, name),
                   !.mounted = IF name = "routes" THEN Mounted(a) ELSE @]

Used(a) ==
    LET U[k \in 0..Len(a.app)] == IF k = 0 THEN a ELSE UseOne(U[k-1], a.app[k])
    IN U

InitApp(a, configs) ==
    IF a.initialed THEN a
    ELSE LET begun == [a EXCEPT !.failed = FALSE, !.stack = Append(@, "helper"),
                                !.config = MergeConfigs(<<a.config>> \o configs)]
             used == Used(begun)[Len(a.app)]
         IN [used EXCEPT !.initialed = ~used.failed]

(* An application's calls, <<"init", configs>> and <<list, name, after>>. *)
Apps(calls) ==
    LET A[k \in 0..Len(calls)] ==
            IF k = 0 THEN NewApp
            ELSE LET c == calls[k]
                 IN IF c[1] = "init" THEN InitApp(A[k-1], c[2])
                    ELSE UseMiddleware(A[k-1], c[1], c[2], c[3])
    IN A

AppAfter(calls) == Apps(calls)[Len(calls)]

-----------------------------------------------------------------------------
(* Each of nico's own is there once, and they are in their order. *)
InOrder(list, own) ==
    /\ \A k \in DOMAIN own : \E i \in DOMAIN list : list[i] = own[k]
    /\ \A k, l \in DOMAIN own : \A i, j \in DOMAIN list :
          list[i] = own[k] /\ list[j] = own[l] => (k < l <=> i < j)

StandsBehind(list, name, after) ==
    \E i, j \in DOMAIN list : i < j /\ list[i] = after /\ list[j] = name

(***************************************************************************)
(* However an application adds its middlewares: nico's own stay once each  *)
(* and in their order, every one that was added before init stands behind  *)
(* the one it named, if that was there, and a successful first init leaves *)
(* exactly the list to koa.                                                *)
(***************************************************************************)
InPlace(calls, a) ==
    LET inits == {k \in DOMAIN calls : calls[k][1] = "init"}
        Own(c) == IF c[1] = "app" THEN AppMiddlewares ELSE RouteMiddlewares
        List(c) == IF c[1] = "app" THEN a.app ELSE a.route
        IsThere(name, k) ==
            \/ name \in ToSet(Own(calls[k]))
            \/ \E j \in 1..(k-1) : calls[j][1] = calls[k][1] /\ calls[j][2] = name
    IN /\ InOrder(a.app, AppMiddlewares) /\ InOrder(a.route, RouteMiddlewares)
       /\ \A k \in DOMAIN calls : (\A i \in inits : k < i) =>
             LET c == calls[k]
             IN /\ c[2] \in ToSet(List(c))
                /\ IsThere(c[3], k) => StandsBehind(List(c), c[2], c[3])
       /\ a.initialed /\ (\A i, j \in inits : i = j) => a.stack = <<"helper">> \o a.app

=============================================================================
