------------------------------ MODULE GrpcReply -------------------------------
(***************************************************************************)
(* From what a gRPC handler returns or throws to what the caller of a      *)
(* ServiceProxy is given: GrpcHelperMethod, the reply classes, the two     *)
(* exception filters a server may use, the wire, and ServiceProxy.send.    *)
(*                                                                         *)
(* A field of a response is <<its type, its value>>.  An object of a reply *)
(* is its "@type", or "", and a body nothing here looks into.              *)
(***************************************************************************)
EXTENDS Integers, SequencesExt, TLC

Absent == <<"undefined">>
String(s) == <<"string", s>>
EmptyText == String("")
Truthy(v) == v \notin {Absent, <<"null">>, EmptyText, <<"number", 0>>}
OrElse(v, default) == IF v[1] \in {"undefined", "null"} THEN default ELSE v
ToText(v) == String(IF v[1] = "number" THEN ToString(v[2]) ELSE v[2])
Joined(v, by) ==
    String(FoldLeft(LAMBDA all, s : IF all = "" THEN s ELSE all \o by \o s, "", v[2]))

Unknown == String("Internal server error")
BadRequestText == String("Bad request")
NothingReturned == String("Cannot read properties of undefined")
Untyped == ""
EmptyObject == [tag |-> Untyped, body |-> "{}"]

-----------------------------------------------------------------------------
(***************************************************************************)
(* Exceptions.  A response is a string or an object of these fields; error *)
(* is again a string or an object, with a code and a message.              *)
(***************************************************************************)
NoBody == [code |-> Absent, message |-> Absent, error |-> Absent,
           statusCode |-> Absent, data |-> Absent, meta |-> Absent]

Http(class, response, status) ==
    [class |-> class, response |-> response, status |-> status,
     message |-> IF response[1] = "string" THEN response ELSE String(class)]

ErrorOf(code, message) == <<"object", [code |-> code, message |-> message]>>

GrpcException(code, message, data) ==
    Http("GrpcException",
         <<"object", [NoBody EXCEPT !.code = code, !.message = OrElse(message, Unknown),
                                    !.data = OrElse(data, <<"object", EmptyObject>>)]>>,
         500)

StandardException(code, message) ==
    Http("StandardException",
         <<"object", [NoBody EXCEPT !.error =
             IF message = Absent THEN ErrorOf(String("400"), code)
             ELSE ErrorOf(code, message)]>>, 400)

StandardExceptionOf(payload) == Http("StandardException", <<"object", payload>>, 400)

(* The body nest gives its own exceptions, here by the validation pipe. *)
BadRequest(messages) ==
    Http("BadRequestException",
         <<"object", [NoBody EXCEPT !.message = messages, !.error = String("Bad Request"),
                                    !.statusCode = <<"number", 400>>]>>, 400)

Plain(message) == [class |-> "Error", message |-> message]
Rpc(error) == [class |-> "RpcException", error |-> error, message |-> String("rpc")]

IsHttp(e) == e.class \notin {"Error", "RpcException"}

-----------------------------------------------------------------------------
(* GrpcExceptionsFilter.  A null is an object to typeof: looking into one  *)
(* throws out of the filter.                                               *)
Fails == [fails |-> TRUE]

GetCodeOfStatus(response, status) ==
    LET b == response[2]
    IN IF response[1] = "object" /\ Truthy(b.statusCode) THEN ToText(b.statusCode)
       ELSE String(ToString(status))

GetCode(response, status) ==
    LET b == response[2]
        own == response[1] = "object"
    IN IF own /\ b.code[1] \in {"string", "number"} THEN ToText(b.code)
       ELSE IF own /\ b.error[1] = "object" /\ b.error[2].code[1] \in {"string", "number"}
       THEN ToText(b.error[2].code)
       ELSE IF own /\ Truthy(b.statusCode) THEN ToText(b.statusCode)
       ELSE String(ToString(status))

GetMessage(response, message) ==
    LET b == response[2]
        own == response[1] = "object"
    IN IF response[1] = "string" THEN response
       ELSE IF own /\ b.message[1] = "string" THEN b.message
       ELSE IF own /\ b.message[1] = "array" /\ b.message[2] # <<>> THEN Joined(b.message, "\n")
       ELSE IF own /\ b.error[1] = "string" THEN b.error
       ELSE IF own /\ b.error[1] = "object" /\ b.error[2].message[1] = "string"
       THEN b.error[2].message
       ELSE message

GetData(response, default) ==
    IF response[1] = "object" /\ response[2].error[1] \in {"object", "null"}
       /\ Truthy(response[2].data)
    THEN response[2].data ELSE default

ConvertToError(thrown) ==
    IF thrown[1] = "exception" THEN thrown[2]
    ELSE Plain(IF thrown[1] = "object" THEN String("[object Object]") ELSE thrown)

LooksIntoNull(b) ==
    /\ b.error = <<"null">>
    /\ ~(b.code[1] \in {"string", "number"} /\ b.message[1] \in {"string", "array"})

GetPayload(e, responseType) ==
    LET none == IF responseType = "ArrayReply" THEN <<"array", <<>>>>
                ELSE <<"object", EmptyObject>>
        inner == IF e.class = "RpcException" THEN ConvertToError(e.error) ELSE e
    IN IF ~IsHttp(inner)
       THEN [data |-> none, meta |-> Absent,
             error |-> [code |-> String("500"), message |-> inner.message]]
       ELSE IF inner.response[1] = "object" /\ LooksIntoNull(inner.response[2]) THEN Fails
       ELSE [data |-> GetData(inner.response, none), meta |-> Absent,
             error |-> [code |-> GetCode(inner.response, inner.status),
                        message |-> GetMessage(inner.response, inner.message)]]

-----------------------------------------------------------------------------
(* StandardExceptionFilter, which tells a caller less of what it does not  *)
(* know, and of a bad request only if it is asked to.                      *)
StandardReply(data, code, message, meta) ==
    [data |-> OrElse(data, <<"object", EmptyObject>>), meta |-> meta,
     error |-> [code |-> code, message |-> message]]

OrIfFalsy(v, default) == IF Truthy(v) THEN v ELSE default

StandardPayload(e, details) ==
    LET code == String(IF IsHttp(e) THEN ToString(e.status) ELSE "500")
        b == e.response[2]
        error == IF b.error[1] = "object" THEN b.error[2]
                 ELSE [code |-> Absent, message |-> Absent]
    IN IF ~IsHttp(e) THEN StandardReply(Absent, String("500"), Unknown, Absent)
       ELSE IF e.class = "StandardException"
       THEN StandardReply(b.data, OrIfFalsy(error.code, String("500")),
                          OrIfFalsy(error.message, Unknown), b.meta)
       ELSE IF e.class = "BadRequestException" /\ ~details
       THEN StandardReply(Absent, String("400"), BadRequestText, Absent)
       ELSE IF e.response[1] = "string" THEN StandardReply(Absent, code, e.response, Absent)
       ELSE StandardReply(b.data, OrElse(b.code, code), OrElse(b.message, Unknown), b.meta)

-----------------------------------------------------------------------------
(* The reply classes put a type on what they carry, unless it has one. *)
Tag(type, o) == IF o.tag = Untyped THEN [o EXCEPT !.tag = type] ELSE o
Typed(type, v) ==
    CASE v[1] = "object" -> <<"object", Tag(type, v[2])>>
      [] v[1] = "array" -> <<"array", [k \in DOMAIN v[2] |-> Tag(type, v[2][k])]>>
      [] OTHER -> <<"object", Tag(type, EmptyObject)>>

NoError == [code |-> Absent, message |-> Absent]
ReplyOf(type, data, meta) == [data |-> Typed(type, data), meta |-> meta, error |-> NoError]

Filtered(server, e, responseType) ==
    IF server.filter = "standard" THEN StandardPayload(e, server.details)
    ELSE GetPayload(e, responseType)

(* GrpcHelperMethod: an exception of its own is a reply, others are for    *)
(* the filter; a result with meta and data is taken apart; a handler that  *)
(* returns nothing fails when its result is looked at.                     *)
ExceptionReply(server, e, responseType) ==
    LET b == e.response[2]
    IN IF e.class = "GrpcException"
       THEN [data |-> Typed("ReplyErrorData", b.data), meta |-> Absent,
             error |-> [code |-> b.code, message |-> b.message]]
       ELSE Filtered(server, e, responseType)

ResultReply(server, v, responseType) ==
    IF v = Absent THEN Filtered(server, Plain(NothingReturned), responseType)
    ELSE IF v[1] = "wrapped" THEN ReplyOf("ReplyData", v[2], v[3])
    ELSE ReplyOf("ReplyData", v, Absent)

HelperMethod(server, outcome, responseType) ==
    IF outcome[1] = "throws" THEN ExceptionReply(server, outcome[2], responseType)
    ELSE ResultReply(server, outcome[2], responseType)

-----------------------------------------------------------------------------
(***************************************************************************)
(* The wire of protobuf.  A response is a Reply, whose data is one Any, or *)
(* an ArrayReply, whose data is a list of them: what is no list cannot be  *)
(* written, and the caller's request fails.  An Any carries what has a     *)
(* declared type, and nothing of the rest; a list put into one has none.   *)
(* The code and the message of an error are made strings.                  *)
(***************************************************************************)
InAny(o) == IF o.tag = Untyped THEN EmptyObject ELSE o
InField(v) ==
    CASE v[1] \in {"undefined", "null"} -> Absent
      [] v[1] = "array" -> Joined(v, ",")
      [] OTHER -> ToText(v)

ErrorField(error) == [code |-> InField(error.code), message |-> InField(error.message)]

DataField(v, responseType) ==
    IF responseType = "ArrayReply" THEN <<"array", [k \in DOMAIN v[2] |-> InAny(v[2][k])]>>
    ELSE <<"object", IF v[1] = "object" THEN InAny(v[2]) ELSE EmptyObject>>

IsWritable(v, responseType) ==
    v[1] \in (IF responseType = "ArrayReply" THEN {"array"} ELSE {"object", "array"})

Wire(reply, responseType) ==
    IF "fails" \in DOMAIN reply \/ ~IsWritable(reply.data, responseType) THEN Fails
    ELSE [data |-> DataField(reply.data, responseType), meta |-> reply.meta,
          error |-> ErrorField(reply.error)]

(* send: the types come off again, of an array if its first item has one. *)
Untag(o) == [o EXCEPT !.tag = Untyped]
Received(reply) ==
    IF "fails" \in DOMAIN reply THEN reply
    ELSE LET v == reply.data
         IN [reply EXCEPT !.data =
                CASE v[1] = "object" -> <<"object", Untag(v[2])>>
                  [] v[1] = "array" /\ v[2] # <<>> /\ Head(v[2]).tag # Untyped ->
                       <<"array", [k \in DOMAIN v[2] |-> Untag(v[2][k])]>>
                  [] OTHER -> v]

=============================================================================
