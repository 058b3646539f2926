------------------------------- MODULE NicoApp --------------------------------
(***************************************************************************)
(* What nico's init makes of its configurations: one of all, by deepmerge, *)
(* and the routes with the middlewares each of them runs.                  *)
(*                                                                         *)
(* A configuration is made of <<"object", fields>>, <<"array", items>> and *)
(* <<"value", name>>; what a value is, a function or a string, is left out.*)
(***************************************************************************)
EXTENDS Integers, FiniteSets, SequencesExt, TLC

Nothing == <<"undefined">>
False == <<"value", "false">>
True == <<"value", "true">>
Is(v) == v \notin {Nothing, False}
Object(fields) == <<"object", fields>>
Field(v, key) == IF v[1] = "object" /\ key \in DOMAIN v[2] THEN v[2][key] ELSE Nothing
Mergeable(v) == v[1] \in {"object", "array"}

-----------------------------------------------------------------------------
(***************************************************************************)
(* deepmerge.  Arrays are merged by position: an object with what is in    *)
(* its place, any other item is added unless the target has it.            *)
(***************************************************************************)
RECURSIVE DeepMerge(_, _)
ArrayMerge(target, source) ==
    FoldLeft(LAMBDA to, k :
                 LET e == source[k]
                     was == IF k \in DOMAIN target THEN target[k] ELSE Nothing
                 IN IF k \notin DOMAIN to THEN Append(to, e)
                    ELSE IF Mergeable(e) THEN [to EXCEPT ![k] = DeepMerge(was, e)]
                    ELSE IF e \notin ToSet(target) THEN Append(to, e) ELSE to,
             target, [k \in DOMAIN source |-> k])

MergeObject(target, source) ==
    LET old == IF target[1] = "object" THEN target[2] ELSE <<>>
    IN Object([key \in DOMAIN old \cup DOMAIN source[2] |->
                  IF key \notin DOMAIN source[2] THEN old[key]
                  ELSE IF Mergeable(source[2][key]) /\ Is(Field(target, key))
                  THEN DeepMerge(old[key], source[2][key])
                  ELSE source[2][key]])

DeepMerge(target, source) ==
    IF source[1] = "array"
    THEN IF target[1] = "array" THEN <<"array", ArrayMerge(target[2], source[2])>> ELSE source
    ELSE MergeObject(target, source)

(* What is not an object is passed over. *)
MergeConfigs(configs) ==
    FoldLeft(LAMBDA to, c : IF c[1] = "object" THEN DeepMerge(to, c) ELSE to,
             Object(<<>>), configs)

-----------------------------------------------------------------------------
(***************************************************************************)
(* getMiddlewares: what a route runs, by the route's options and the       *)
(* application's security options.                                         *)
(***************************************************************************)
Throws == <<"throws">>

CorsOf(route) ==
    CASE Field(route, "cors") = False -> <<"remove-cors">>
      [] Is(Field(route, "cors")) -> <<"controller-cors">>
      [] OTHER -> <<>>

CspOf(route, security) ==
    LET own == IF Field(route, "csp") = True THEN Field(security, "csp")
               ELSE Field(route, "csp")
    IN IF ~Is(Field(route, "csp")) THEN <<>>
       ELSE IF Is(own) /\ Field(own, "policy")[1] # "object" THEN Throws ELSE <<"csp">>

PoliciesOf(route) ==
    LET policies == Field(route, "policies")
    IN CASE policies = False -> <<"forbidden">>
         [] policies[1] = "array" -> [k \in DOMAIN policies[2] |-> "policy"]
         [] OTHER -> <<>>

ControllersOf(route) ==
    LET c == Field(route, "controller")
    IN IF c[1] = "array" THEN [k \in DOMAIN c[2] |-> "controller"] ELSE <<"controller">>

MiddlewaresFor(name, route, security, custom) ==
    CASE name = "controller-cors" -> CorsOf(route)
      [] name = "csp" -> CspOf(route, security)
      [] name = "xframes" -> IF Is(Field(route, "xframes")) THEN <<"xframes">> ELSE <<>>
      [] name = "policies" -> PoliciesOf(route)
      [] name = "body-parser" ->
           IF Is(Field(route, "bodyParser")) THEN <<"body-parser">> ELSE <<>>
      [] name = "validate" -> <<"validate">>
      [] name = "controller" -> ControllersOf(route)
      [] OTHER -> IF name \in custom THEN <<name>> ELSE <<>>

GetMiddlewares(a, route, security) ==
    FoldLeft(LAMBDA all, name :
                 LET one == MiddlewaresFor(name, route, security, a.custom)
                 IN IF Throws \in {all, one} THEN Throws ELSE all \o one,
             <<>>, a.route)

(* Routes are nested under prefixes; what names no method is passed over. *)
Methods == {"get", "post", "delete", "put", "patch", "options", "all"}

RECURSIVE MountRoutes(_, _, _, _)
MountRoutes(a, routes, security, prefix) ==
    UNION {IF key[1] = "/" THEN MountRoutes(a, routes[2][key], security, Append(prefix, key[2]))
           ELSE IF key[1] \notin Methods THEN {}
           ELSE {[method |-> key[1], path |-> Append(prefix, key[2]),
                  runs |-> GetMiddlewares(a, routes[2][key], security)]} :
           key \in DOMAIN routes[2]}

(* A route of static files is served once. *)
ServeFails(serve) ==
    LET all == IF serve[1] = "array" THEN serve[2] ELSE <<serve>>
        RouteOf(o) == IF Is(Field(o, "route")) THEN Field(o, "route") ELSE <<"value", "/assets">>
    IN \E i, j \in DOMAIN all :
          i < j /\ RouteOf(all[i]) = RouteOf(all[j]) /\ Is(Field(all[i], "root"))

(***************************************************************************)
(* What the middlewares of init make of the configuration: the routes, and *)
(* whether a factory throws.                                               *)
(***************************************************************************)
Mounted(a) ==
    LET routes == Field(a.config, "routes")
    IN IF Is(routes) THEN MountRoutes(a, routes, Field(a.config, "security"), <<>>) ELSE {}

Fails(a, name) ==
    \/ name = "serve" /\ ServeFails(Field(a.config, "serve"))
    \/ name = "routes" /\ \E m \in Mounted(a) : m.runs = Throws

=============================================================================
