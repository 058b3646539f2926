------------------------------ MODULE MCPackages ------------------------------
(* Drawings of a real code, and calls of the other packages. *)
EXTENDS Packages

(* The code of "nico", version 1, level H, mask 2: its rows as numbers. *)
Rows == <<2088319, 1069633, 1531485, 1525853, 1527133, 1072449, 2086271, 6656,
          479463, 2003105, 1473822, 364861, 1041939, 4421, 2082282, 1067916,
          1531554, 1530280, 1528408, 1065460, 2081046>>
MCMatrix == {m \in Side \X Side : (Rows[m[2] + 1] \div 2 ^ (20 - m[1])) % 2 = 1}

NoRadius == [kind |-> "none"]
PlainDrawing ==
    [dots |-> "square", corners |-> "square", radius |-> NoRadius, level |-> "unset",
     length |-> 4, logo |-> "none", w |-> 1, h |-> 1, border |-> 10, logoRadius |-> 0]
DotTypes == {"square", "tile", "dot", "dot-small", "rounded", "diamond", "star",
             "fluid", "fluid-line", "stripe", "stripe-column"}
CornerTypes == {"square", "rounded", "circle", "rounded-circle",
                "circle-rounded", "circle-diamond", "circle-star"}
Radii == {[kind |-> "number", value |-> 0], [kind |-> "number", value |-> 400],
          [kind |-> "parts", inner |-> 0, outer |-> 400]}
MCDrawings ==
    {[PlainDrawing EXCEPT !.dots = t] : t \in DotTypes}
    \cup {[PlainDrawing EXCEPT !.corners = t] : t \in CornerTypes}
    \cup {[PlainDrawing EXCEPT !.corners = "rounded", !.radius = r] : r \in Radii}
    \cup {[PlainDrawing EXCEPT !.logo = "picture", !.dots = t, !.w = s[1], !.h = s[2],
                               !.border = 4, !.logoRadius = r] :
             t \in {"square", "fluid"}, s \in {<<1, 1>>, <<2, 1>>, <<2, 3>>}, r \in {0, 6}}

LogoCalls ==
    {<<"logo", count, level, width, rate, border>> :
        count \in {21, 25, 33, 41}, level \in {"L", "M", "Q", "H"}, width \in {200, 380},
        rate \in {<<1, 1>>, <<2, 1>>, <<1, 3>>, <<16, 9>>}, border \in {0, 2, 10}}

-----------------------------------------------------------------------------
TheText(words) == Expression!Text(words)
Name == TheText(<<"name">>)
Known ==
    [n1 |-> <<"object", (<<"name">> :> TheText(<<"a", " ", "b">>)) @@
                        (<<"b">> :> Expression!Null)>>,
     n2 |-> TheText(<<" ", "A">>),
     n3 |-> <<"array", <<Name, <<"number", 1>>, Expression!Null>>>>]
Node(id) == <<"NodeIdentifier", "trigger", id>>
Literal(v) == <<"Literal", v>>
Leaves == {Node("n1"), Node("n2"), Node("n3"), Node("n4"),
           <<"NodeIdentifier", "other", "n1">>,
           Literal(Name), Literal(<<"number", 1>>), Literal(Expression!Null)}
Functions == {"trim", "lowercase", "uppercase", "length", "capitalize", "unknown"}
Small ==
    {<<kind, <<x, y>>>> : kind \in {"Template", "Array"}, x \in Leaves, y \in Leaves}
    \cup {<<"Object", <<<<x, y>>, <<Literal(Name), x>>>>>> : x \in Leaves, y \in Leaves}
    \cup {<<"ObjectPropertyLookup", x, y>> : x \in Leaves, y \in Leaves}
    \cup {<<"ObjectPropertyLookup", x, <<"Array", <<y>>>>>> : x \in Leaves, y \in Leaves}
    \cup {<<"FunctionCall", f, <<x>>>> : f \in Functions, x \in Leaves}
Around1(e) ==
    {e, <<"Template", <<e, Node("n2")>>>>, <<"FunctionCall", "capitalize", <<e>>>>,
     <<"ObjectPropertyLookup", e, <<"Array", <<Literal(Name)>>>>>>}
Registrations ==
    {<<<<"trigger", "data">>>>,
     <<<<"trigger", "own", Name>>, <<"other", "own", Expression!Null>>, <<"trigger", "data">>>>}
ExpressionCalls ==
    {<<"expression", e, r, Known>> : e \in UNION {Around1(x) : x \in Small}, r \in Registrations}

-----------------------------------------------------------------------------
Cookies ==
    {<<<<"session", "x">>>> \o attributes :
        attributes \in {<<>>, <<<<"path", "/a">>, <<"domain", "me">>, <<"flag", "httponly">>>>,
                        <<<<"domain", "our">>, <<"path", "/a">>>>,
                        <<<<"domain", "me">>, <<"flag", "secure">>>>}}
RawHeaders(cookies, again) ==
    [k \in DOMAIN cookies |->
        <<"set-cookie", IF k = 1 THEN "Set-Cookie" ELSE again, cookies[k]>>]
    \o <<<<"connection", "Connection", "close">>, <<"x", "X", "1">>>>
TableOf(raw) ==
    [n \in {h[1] : h \in ToSet(raw)} |->
        LET sent == SelectSeq(raw, LAMBDA h : h[1] = n)
        IN IF n = "set-cookie" THEN [k \in DOMAIN sent |-> sent[k][3]] ELSE Last(sent)[3]]
ResponseOf(raw) == [kind |-> "response", headers |-> TableOf(raw), rawHeaders |-> raw]
Configs == {<<"unset">>, <<"string", "you">>,
            <<"table", [old \in {"our"} |-> "other"]>>,
            <<"table", [old \in {"*", "our"} |-> IF old = "*" THEN "you" ELSE "other"]>>}
Target == [protocol |-> "http:", port |-> 0]
ProxyCalls ==
    {<<"proxy", request,
       [target |-> Target, preserveHeaderKeyCase |-> raw, domain |-> d, path |-> p],
       ResponseOf(RawHeaders(cookies, again))>> :
        again \in {"Set-Cookie", "set-cookie"},
        request \in {[version |-> "1.1", connection |-> ""],
                     [version |-> "1.0", connection |-> "keep-alive"]},
        raw \in BOOLEAN, d \in Configs, p \in {<<"unset">>, <<"string", "/">>},
        cookies \in Cookies \X Cookies \cup {<<c>> : c \in Cookies}}
    \cup {<<"proxy", [version |-> "1.1", connection |-> ""],
            [target |-> [protocol |-> protocol, port |-> 0], preserveHeaderKeyCase |-> FALSE,
             domain |-> <<"unset">>, path |-> <<"unset">>],
            [ResponseOf(<<>>) EXCEPT !.kind = kind]>> :
            protocol \in {"", "https:"}, kind \in {"error", "response"}}

-----------------------------------------------------------------------------
Some == [tag |-> "", body |-> "some"]
Others == {<<"object", Some>>, <<"array", <<>>>>, <<"array", <<Some, Some>>>>}
S(s) == Reply!String(s)
Outcomes ==
    {<<"returns", v>> : v \in Others \cup {Reply!Absent}}
    \cup {<<"returns", <<"wrapped", v, S("page")>>>> : v \in Others}
    \cup {<<"GrpcException", S("E1"), m, d>> : m \in {S("no"), Reply!Absent}, d \in Others}
    \cup {<<"StandardException", S("E2"), S("no")>>, <<"Error", S("500"), S("broken")>>,
          <<"HttpException", S("404"), S("gone"), Reply!Absent, 404>>,
          <<"StandardPayload", [Reply!NoBody EXCEPT !.error = <<"null">>]>>,
          <<"StandardPayload", [Reply!NoBody EXCEPT !.code = <<"number", 7>>,
                                                    !.data = <<"object", Some>>]>>,
          <<"BadRequest", <<"array", <<"first", "second">>>>>>,
          <<"RpcException", S("down")>>, <<"RpcException", <<"object">>>>,
          <<"RpcException", <<"exception", Reply!Plain(S("broken"))>>>>}
ReplyCalls ==
    {<<"reply", [filter |-> f, details |-> details], o, t>> :
        f \in {"grpc", "standard"}, details \in BOOLEAN, o \in Outcomes,
        t \in {"Reply", "ArrayReply"}}

-----------------------------------------------------------------------------
Package(name, health) ==
    [package |-> <<name>>, healthCheck |-> health, common |-> "common", health |-> "health",
     dependent |-> <<"shared">>, main |-> name]
Service(key, methods) == [key |-> key, format |-> FALSE, methods |-> methods]
Message(key) == [key |-> key, format |-> TRUE, methods |-> {}]
Files ==
    {[common |-> {Message(<<"google", "Any">>)}, shared |-> {Message(<<"a", "User">>)},
      health |-> {Service(<<"grpc", "health", "v1", "Health">>, {"check"})},
      a |-> {Service(<<"a", "Users">>, {"find", "save"}), Service(<<"a">> \o inner, {"check"})},
      b |-> {Service(<<"b", other>>, {"find"}), Service(<<"b", "Log">>, {"add"})}] :
        inner \in {<<"Health">>, <<"b", "Log">>}, other \in {"Users", "Orders"}}
ClientCalls ==
    UNION {{<<"clients", options, order, files>> : order \in {options, Reverse(options)},
                                                   files \in Files} :
           options \in {<<Package("a", x), Package("b", y)>> : x \in BOOLEAN, y \in BOOLEAN}}

-----------------------------------------------------------------------------
Value(name) == <<"value", name>>
Route(fields) == Nico!Object(fields)
Users == <<"get", "users">>
AppConfigs ==
    {Nico!Object([routes |-> Nico!Object(
         (Users :> Route([controller |-> <<"array", <<Value("find"), Value("send")>>>>,
                          cors |-> Value("true"), policies |-> <<"array", <<Value("p")>>>>])) @@
         (<<"/", "api">> :> Nico!Object(<<"post", "users">> :> Route([csp |-> Value("true")]))) @@
         (<<"take", "users">> :> Route([controller |-> Value("find")])))]),
     Nico!Object([routes |-> Nico!Object(
         Users :> Route([controller |-> Value("other"), bodyParser |-> Value("true"),
                         policies |-> Value("false"), xframes |-> Value("true"),
                         cors |-> Value("false")])),
                  serve |-> <<"array", <<Nico!Object([root |-> Value("public")])>>>>]),
     Nico!Object([routes |-> Nico!Object(<<>>),
                  serve |-> <<"array", <<Nico!Object([root |-> Value("one")]),
                                         Nico!Object([root |-> Value("two")])>>>>]),
     Nico!Object([routes |-> Nico!Object(
         Users :> Route([csp |-> Nico!Object([policy |-> Value("self")])]))])}
AppCalls ==
    {<<"init", <<c>>>> : c \in AppConfigs}
    \cup {<<"init", <<c, d>>>> : c \in AppConfigs, d \in AppConfigs}
    \cup {<<"app", name, after>> : name \in {"mine", "yours"},
                                   after \in {"global-cors", "mine", "nowhere"}}
    \cup {<<"route", "mine", after>> : after \in {"policies", "controller"}}
NicoCalls ==
    {<<"nico", <<x, y, z>>>> :
        x \in AppCalls, y \in AppCalls, z \in {c \in AppCalls : c[1] = "init"}}

MCCalls == ExpressionCalls \cup NicoCalls
MCNodeCalls == LogoCalls \cup ProxyCalls
MCHelperCalls == ReplyCalls \cup ClientCalls
=============================================================================
