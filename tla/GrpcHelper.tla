------------------------------ MODULE GrpcHelper -------------------------------
(***************************************************************************)
(* nest-grpc-helper as an application meets it: a call of a handler and    *)
(* what its caller is given, and the clients that forRoot makes.  Both are *)
(* one step, from a call to its answer.                                    *)
(***************************************************************************)
EXTENDS OneCall, Integers, SequencesExt, TLC

CONSTANT HelperCalls    \* <<"reply" or "clients", arguments>>

Reply == INSTANCE GrpcReply
Clients == INSTANCE GrpcClients

(***************************************************************************)
(* What the properties ask of a handler: its data has no "@type" of its    *)
(* own, which would be taken off as one of the replies', an exception has  *)
(* a code and a message, and nest's own one has its status for the code.   *)
(***************************************************************************)
Objects == [tag : {Reply!Untyped}, body : STRING]
Payloads == ({"object"} \X Objects) \cup ({"array"} \X Seq(Objects))
Texts == {"string"} \X STRING

PlainOutcome(o) ==
    /\ o[1] = "returns" =>
         o[2] \in {Reply!Absent} \cup Payloads \/ (o[2][1] = "wrapped" /\ o[2][2] \in Payloads)
    /\ o[1] = "GrpcException" =>
         o[2] \in Texts /\ o[3] \in Texts \cup {Reply!Absent} /\ o[4] \in Payloads
    /\ o[1] = "StandardException" => {o[2], o[3]} \subseteq Texts \ {Reply!EmptyText}
    /\ o[1] = "HttpException" => o[2] = Reply!String(ToString(o[5])) /\ o[3] \in Texts
    /\ o[1] = "Error" => o[2] = Reply!String("500") /\ o[3] \in Texts

(***************************************************************************)
(* And of the packages: each is named once, no name is the key of another  *)
(* one's health client, all are loaded, in some order, and a loaded file   *)
(* defines a name once.                                                    *)
(***************************************************************************)
Options == [package : Seq(STRING), healthCheck : BOOLEAN, common : STRING, health : STRING,
            dependent : Seq(STRING), main : STRING]

NamedOnce(list) ==
    \A i, j \in DOMAIN list : list[i].package = list[j].package => i = j

Loadable(options, order, files) ==
    /\ options \in Seq(Options) /\ NamedOnce(options)
    /\ order \in Seq(Options) /\ NamedOnce(order) /\ ToSet(order) = ToSet(options)
    /\ \A o, p \in ToSet(options) : Clients!HealthClientKey(o.package) # p.package
    /\ \A o \in ToSet(options) : \A d, e \in Clients!Loaded(o, files) :
          d.key \in Seq(STRING) /\ (d.key = e.key => d = e)

ASSUME HelperAssumption ==
    \A c \in HelperCalls :
        \/ /\ c[1] = "reply" /\ c[2].filter \in {"grpc", "standard"} /\ PlainOutcome(c[3])
           /\ c[4] \in {"Reply", "ArrayReply"}
        \/ c[1] = "clients" /\ Loadable(c[2], c[3], c[4])

-----------------------------------------------------------------------------
(* A handler's result, or the exception of a class and its arguments. *)
OutcomeOf(o) ==
    CASE o[1] = "returns" -> o
      [] o[1] = "GrpcException" -> <<"throws", Reply!GrpcException(o[2], o[3], o[4])>>
      [] o[1] = "StandardException" -> <<"throws", Reply!StandardException(o[2], o[3])>>
      [] o[1] = "StandardPayload" -> <<"throws", Reply!StandardExceptionOf(o[2])>>
      [] o[1] = "HttpException" -> <<"throws", Reply!Http(o[1], o[3], o[5])>>
      [] o[1] = "BadRequest" -> <<"throws", Reply!BadRequest(o[2])>>
      [] o[1] = "RpcException" -> <<"throws", Reply!Rpc(o[2])>>
      [] OTHER -> <<"throws", Reply!Plain(o[3])>>

ReplyTo(server, o, type) ==
    Reply!Received(Reply!Wire(Reply!HelperMethod(server, OutcomeOf(o), type), type))

CallHandler == Answer("reply", ReplyTo(call[2], call[3], call[4]))

WireClients == Answer("clients", Clients!Proxies(call[2], call[3], call[4]))

HelperInit == call \in HelperCalls /\ result = Pending
HelperNext == CallHandler \/ WireClients
HelperSpec == HelperInit /\ [][HelperNext]_<<call, result>>

-----------------------------------------------------------------------------
(* Outcomes of which something is promised, and the data of the reply to   *)
(* them: nothing is known of the data of the filters but whether it is a   *)
(* list, which GrpcExceptionsFilter alone asks the type for.               *)
IsPromised(o) ==
    \/ o[1] = "returns" /\ o[2] # Reply!Absent
    \/ o[1] \in {"GrpcException", "StandardException", "HttpException", "Error"}

IsList(server, o, type) ==
    CASE o[1] = "returns" ->
           IF o[2][1] = "wrapped" THEN o[2][2][1] = "array" ELSE o[2][1] = "array"
      [] o[1] = "GrpcException" -> o[4][1] = "array"
      [] OTHER -> server.filter = "grpc" /\ type = "ArrayReply"

ToldOf(server, o, reply, fits) ==
    LET told == [code |-> o[2], message |-> Reply!OrElse(o[3], Reply!Unknown)]
        v == o[2]
    IN CASE o[1] = "returns" ->
              /\ reply.error = Reply!NoError
              /\ reply.meta = IF v[1] = "wrapped" THEN v[3] ELSE Reply!Absent
              /\ fits => reply.data = IF v[1] = "wrapped" THEN v[2] ELSE v
         [] o[1] = "GrpcException" -> reply.error = told /\ (fits => reply.data = o[4])
         [] o[1] \in {"StandardException", "HttpException"} -> reply.error = told
         [] o[1] = "Error" ->
              reply.error = IF server.filter = "grpc" THEN told
                            ELSE [told EXCEPT !.message = Reply!Unknown]

IsTold(server, o, type, reply) ==
    LET list == IsList(server, o, type)
    IN IF type = "ArrayReply" /\ ~list THEN reply = Reply!Fails
       ELSE ToldOf(server, o, reply, type = "ArrayReply" <=> list)

(***************************************************************************)
(* What the handler of a method does is what its caller is told: data as   *)
(* it was returned, without the types it travels with, and no error; or    *)
(* the code and message of the exception, whichever filter the server has, *)
(* and the data a GrpcException was given.  An Error has its message told  *)
(* by GrpcExceptionsFilter alone.  Data that is no list fails the request  *)
(* where the response is an ArrayReply, so that of a GrpcException without *)
(* a list, or of any exception that StandardExceptionFilter answers,       *)
(* nothing is told; and a list is lost where the response is a Reply       *)
(* (grpc-helper-method.decorator.ts:50-77, common.proto:23-33).            *)
(***************************************************************************)
ReplyIsFaithful ==
    Answered("reply") /\ IsPromised(call[3]) => IsTold(call[2], call[3], call[4], Got)

-----------------------------------------------------------------------------
NamesOf(o, files) == {Clients!ServiceName(o, d) : d \in Clients!ServicesOf(o, files)}

Paths(o, files, name) ==
    UNION {{d.key \o <<m>> : m \in d.methods} :
           d \in {x \in Clients!ServicesOf(o, files) : Clients!ServiceName(o, x) = name}}

Alone(o, options, files, name) == \A p \in ToSet(options) \ {o} : name \notin NamesOf(p, files)

(* A proxy of the service that a package has under a name. *)
WiredTo(p, o, options, files, name) ==
    /\ p.o = o /\ p.name = name
    /\ IF "error" \in DOMAIN p THEN name = Clients!Health /\ ~o.healthCheck
       ELSE /\ p.service = [client |-> Clients!ClientOf(o, name), service |-> name]
            /\ p.options = o
            /\ Alone(o, options, files, name) => Range(p.definition) = Paths(o, files, name)

(***************************************************************************)
(* Whatever the order in which the definitions of several packages are     *)
(* loaded, every service of a package has a proxy on its own package's     *)
(* client with its own package's options, and with the definition of its   *)
(* own methods unless another package has a service of that name.  Only a  *)
(* service called Health of a package without health check has none.       *)
(***************************************************************************)
ProxiesAreWired ==
    Answered("clients") =>
        \A o \in ToSet(call[2]) : \A name \in NamesOf(o, call[4]) :
            \E p \in Got : WiredTo(p, o, call[2], call[4], name)

=============================================================================
