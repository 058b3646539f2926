----------------------------- MODULE NestRequest -----------------------------
(***************************************************************************)
(* Requests of Nest applications that use nest-common-helper.  A request   *)
(* passes TraceInterceptor and PropagationInterceptor, its handler calls   *)
(* other applications through ServiceProxy or RabbitMQ, perhaps in a       *)
(* method cached by nest-async-cache-dedupe, and what it throws is turned  *)
(* into an answer by StandardExceptionFilter.  Two things are shared by    *)
(* requests: exceptions, which the interceptor writes the id of the        *)
(* request into, and the calls of a cached method that are under way.      *)
(*                                                                         *)
(* <<e, 0>> is request e from outside, <<e, d + 1>> the call <<e, d>> made. *)
(***************************************************************************)
EXTENDS Naturals, Sequences, FiniteSets, Functions

CONSTANTS
    Entries,      \* the requests from outside
    Depth,        \* Depth[e], the calls behind an entry: the bound on chains
    Arrivals,     \* Arrivals[e], the ways in which it may arrive, of Arrival
    Constants     \* exceptions created once and thrown by many requests

ASSUME DepthAssumption == Depth \in [Entries -> Nat]

VARIABLES
    traceFirst,   \* is TraceInterceptor registered before the other?
    ownMeta,      \* the constants whose response has a meta of its own
    req,          \* the requests
    meta,         \* exception.meta.requestId of every exception
    kept,         \* the requestId in such a meta
    leader        \* the request whose cached call is under way

vars == <<traceFirst, ownMeta, req, meta, kept, leader>>

options == <<traceFirst, ownMeta>>
metas == <<meta, kept>>

None == <<>>
Node == UNION {{e} \X (0..Depth[e]) : e \in Entries}

(***************************************************************************)
(* An id is named by the request that generated it, or by the entry whose  *)
(* client sent it, in the message or in the handshake of its socket.       *)
(***************************************************************************)
Fresh(n) == <<"uuid", n>>
Given(e) == <<"client", <<e, 0>>>>
Shaken(e) == <<"socket", <<e, 0>>>>

Arrival == [kind: {"http", "ws", "rpc"}, data: BOOLEAN, given: BOOLEAN,
            shaken: BOOLEAN]

(***************************************************************************)
(* Exceptions: those thrown again and again (one made for its request is a *)
(* special case), those calls reject with, the TypeErrors that writing to a *)
(* thrown value throws which is no object, and the EmptyErrors of handlers  *)
(* that give no value.                                                      *)
(***************************************************************************)
Primitive == <<"primitive", None>>
Exceptions == ({"constant"} \X Constants) \cup ({"call", "type", "empty"} \X Node)
HasOwnMeta(x) == x[1] = "constant" /\ x[2] \in ownMeta

Absent == [phase |-> "absent", kind |-> "rpc", data |-> TRUE, carrier |-> None,
           handshake |-> None, traced |-> None, headers |-> None,
           error |-> None, sharers |-> {}, awaits |-> None, shown |-> None,
           outcome |-> "pending"]

Sent(kind, id) == [Absent EXCEPT !.phase = "sent", !.kind = kind, !.carrier = id]

EntryOf(e, a) ==
    [Sent(a.kind, IF a.given THEN Given(e) ELSE None) EXCEPT
       !.data = a.data, !.handshake = IF a.shaken THEN Shaken(e) ELSE None]

Init ==
    /\ traceFirst \in BOOLEAN /\ ownMeta \in SUBSET Constants
    /\ \E a \in {f \in [Entries -> Arrival] : \A e \in Entries : f[e] \in Arrivals[e]} :
          req = [n \in Node |-> IF n[2] = 0 THEN EntryOf(n[1], a[n[1]]) ELSE Absent]
    /\ meta = [x \in Exceptions |-> None]
    /\ kept = [c \in Constants |-> None]
    /\ leader = None

-----------------------------------------------------------------------------
(***************************************************************************)
(* The interceptors.  An id that is generated is written into the headers  *)
(* of an HTTP request and into the data of a message of a socket, and not  *)
(* into the metadata of gRPC or the headers of RabbitMQ.                   *)
(***************************************************************************)
RequestId(n) == IF req[n].carrier # None THEN req[n].carrier ELSE Fresh(n)

WritesBackData(r) == r.kind = "ws" /\ r.data

WritesBack(r) == r.kind = "http" \/ (r.kind = "ws" /\ r.data)

Traced(n) ==
    [req[n] EXCEPT !.traced = RequestId(n),
                   !.carrier = IF WritesBack(req[n]) THEN RequestId(n) ELSE @]

(***************************************************************************)
(* The headers to propagate are those of an HTTP request themselves, a     *)
(* copy of those of the data and the handshake of a socket at this moment, *)
(* and the metadata or headers as they came.                               *)
(***************************************************************************)
HeadersOf(r) == IF r.kind = "ws" /\ r.carrier = None THEN r.handshake ELSE r.carrier

Intercepted(n) ==
    LET r == Traced(n)
        seen == IF traceFirst \/ r.kind = "http" THEN r ELSE req[n]
    IN [r EXCEPT !.headers = HeadersOf(seen), !.phase = "handling"]

Intercept(n) ==
    /\ req[n].phase = "sent"
    /\ req' = [req EXCEPT ![n] = Intercepted(n)]
    /\ UNCHANGED <<options, metas, leader>>

InFlight(x) == {n \in Node : req[n].error = x /\ req[n].phase \in {"thrown", "marked"}}

(***************************************************************************)
(* x is thrown in n.  "sharers" remembers the requests that were about to  *)
(* be answered for the same exception at the same time.                    *)
(***************************************************************************)
ThrowAt(n, x, phase) ==
    req' = [m \in Node |->
              IF m = n THEN [req[n] EXCEPT !.phase = phase, !.error = x,
                                           !.sharers = InFlight(x)]
              ELSE IF m \in InFlight(x) THEN [req[m] EXCEPT !.sharers = @ \cup {n}]
              ELSE req[m]]

(* A guard runs before the interceptors: what it throws is not marked. *)
GuardThrows(n) ==
    /\ req[n].phase = "sent"
    /\ req[n].kind # "mq"
    /\ \E c \in Constants : ThrowAt(n, <<"constant", c>>, "marked")
    /\ UNCHANGED <<options, metas, leader>>

-----------------------------------------------------------------------------
(***************************************************************************)
(* The handler.                                                            *)
(***************************************************************************)
Return(n) ==
    /\ req[n].phase = "handling"
    /\ req' = [req EXCEPT ![n].phase = "answered"]
    /\ UNCHANGED <<options, metas, leader>>

HandlerThrows(n) ==
    /\ req[n].phase = "handling"
    /\ \E x \in {Primitive} \cup ({"constant"} \X Constants) :
          ThrowAt(n, x, "thrown")
    /\ UNCHANGED <<options, metas, leader>>

(* An Observable without a value: the inner interceptor's lastValueFrom     *)
(* rejects, which TraceInterceptor's catchError sees only as the outer one. *)
EndsEmpty(n) ==
    /\ req[n].phase = "handling" /\ req[n].kind # "mq"
    /\ ThrowAt(n, <<"empty", n>>, IF traceFirst THEN "thrown" ELSE "marked")
    /\ UNCHANGED <<options, metas, leader>>

Callee(n) == <<n[1], n[2] + 1>>
MayCall(n) == /\ req[n].phase = "handling"
              /\ n[2] < Depth[n[1]]
              /\ req[Callee(n)].phase = "absent"

(* The metadata of a call: the id in the headers of the request at hand. *)
CallWith(n, kind) == Sent(kind, req[n].headers)

Call(n) ==
    /\ MayCall(n)
    /\ req' = [req EXCEPT ![n].phase = "waiting", ![n].awaits = Callee(n),
                          ![Callee(n)] = CallWith(n, "rpc")]
    /\ UNCHANGED <<options, metas, leader>>

Publish(n) ==
    /\ MayCall(n)
    /\ req' = [req EXCEPT ![Callee(n)] = CallWith(n, "mq")]
    /\ UNCHANGED <<options, metas, leader>>

(***************************************************************************)
(* A cached method: the first caller makes the call, and whoever comes     *)
(* while it is under way gets the same promise.                            *)
(***************************************************************************)
CallCached(n) ==
    /\ n[2] = 0
    /\ \/ /\ leader # None
          /\ req[n].phase = "handling"
          /\ req' = [req EXCEPT ![n].phase = "waiting", ![n].awaits = Callee(leader)]
          /\ UNCHANGED leader
       \/ /\ leader = None
          /\ MayCall(n)
          /\ req' = [req EXCEPT ![n].phase = "waiting", ![n].awaits = Callee(n),
                                ![Callee(n)] = CallWith(n, "rpc")]
          /\ leader' = n
    /\ UNCHANGED <<options, metas>>

(***************************************************************************)
(* The promise of a call gives the reply, which may be about an error, or  *)
(* rejects when there is none in time.  A cached call is then forgotten.   *)
(***************************************************************************)
CallSettles(n) ==
    LET c == Callee(n)
    IN /\ n[2] < Depth[n[1]]
       /\ req[c].kind = "rpc" /\ req[c].phase # "absent" /\ req[c].outcome = "pending"
       /\ \E outcome \in {"rejected"} \cup
                          (IF req[c].phase \in {"answered", "failed"} THEN {"reply"} ELSE {}) :
             req' = [req EXCEPT ![c].outcome = outcome]
       /\ leader' = IF leader = n THEN None ELSE leader
       /\ UNCHANGED <<options, metas>>

(* Everyone who waits for a call gets its reply, or the same exception. *)
Resume(n) ==
    /\ req[n].phase = "waiting"
    /\ \/ /\ req[req[n].awaits].outcome = "reply"
          /\ req' = [req EXCEPT ![n].phase = "handling"]
       \/ /\ req[req[n].awaits].outcome = "rejected"
          /\ ThrowAt(n, <<"call", req[n].awaits>>, "thrown")
    /\ UNCHANGED <<options, metas, leader>>

-----------------------------------------------------------------------------
(***************************************************************************)
(* catchError of TraceInterceptor marks what was thrown.  Marking what is  *)
(* no object throws a TypeError, which takes its place.                    *)
(***************************************************************************)
Mark(n) ==
    /\ req[n].phase = "thrown"
    /\ req[n].kind # "mq"
    /\ IF req[n].error = Primitive
       THEN /\ req' = [req EXCEPT ![n].phase = "marked", ![n].error = <<"type", n>>,
                                  ![n].sharers = {}]
            /\ UNCHANGED meta
       ELSE /\ meta' = [meta EXCEPT ![req[n].error] = req[n].traced]
            /\ req' = [req EXCEPT ![n].phase = "marked"]
    /\ UNCHANGED <<options, kept, leader>>

MarkLeftBehind(x) == meta[x]

(* The mark an exception keeps for the next one to catch it. *)
MarkLeft(x) == None

(***************************************************************************)
(* StandardExceptionFilter takes the mark off and shows it in the payload. *)
(* Where the response of the exception has a meta of its own, the payload  *)
(* is given that object: the id is written into it, and shown again to     *)
(* whoever comes without a mark.                                           *)
(***************************************************************************)
Kept(x) == IF HasOwnMeta(x) THEN kept[x[2]] ELSE None

Catch(n) ==
    /\ req[n].phase = "marked"
    /\ LET x == req[n].error
           id == IF meta[x] # None THEN meta[x] ELSE Kept(x)
       IN /\ req' = [req EXCEPT ![n].phase = "failed", ![n].shown = id]
          /\ meta' = [meta EXCEPT ![x] = MarkLeft(x)]
          /\ kept' = IF HasOwnMeta(x) THEN [kept EXCEPT ![x[2]] = id] ELSE kept
    /\ UNCHANGED <<options, leader>>

(* What a consumer of RabbitMQ throws goes to onError. *)
ConsumerFails(n) ==
    /\ req[n].phase = "thrown"
    /\ req[n].kind = "mq"
    /\ req' = [req EXCEPT ![n].phase = "failed"]
    /\ UNCHANGED <<options, metas, leader>>

Next ==
    \E n \in Node :
       \/ Intercept(n) \/ GuardThrows(n)
       \/ Return(n) \/ HandlerThrows(n) \/ EndsEmpty(n)
       \/ Call(n) \/ Publish(n) \/ CallCached(n) \/ CallSettles(n) \/ Resume(n)
       \/ Mark(n) \/ Catch(n) \/ ConsumerFails(n)

Spec == Init /\ [][Next]_vars

-----------------------------------------------------------------------------
(***************************************************************************)
(* The id in an error's payload is the one its request is traced under, or *)
(* that of a request which was being answered for the same exception at    *)
(* that moment.  What comes without a mark, because a guard threw it, the  *)
(* thrown value had no room for one, or the inner TraceInterceptor did not *)
(* see it, has no id, unless the exception keeps that of an earlier        *)
(* request in a meta of its own (standard-exception.filter.ts:41, 117-137  *)
(* against trace.interceptor.ts:166-188).                                  *)
(***************************************************************************)
IsMarked(n) ==
    /\ req[n].traced # None
    /\ req[n].error[1] = "empty" => traceFirst
    /\ req[n].error[1] # "type"

Keeps(n) == ~IsMarked(n) /\ HasOwnMeta(req[n].error)

ErrorNamesRequest ==
    \A n \in Node :
       LET r == req[n]
           others == IF Keeps(n) THEN {m \in Node : req[m].error = r.error} ELSE r.sharers
       IN r.phase = "failed" /\ r.kind # "mq" =>
             /\ r.sharers = {} /\ ~Keeps(n) =>
                   r.shown = IF IsMarked(n) THEN r.traced ELSE None
             /\ r.shown \in {None} \cup {req[m].traced : m \in others \cup {n}}

(***************************************************************************)
(* One id is on every application a request reaches, over any mixture of   *)
(* calls and messages, provided that it came with an id or that the        *)
(* interceptors could write the new one where the headers to propagate are *)
(* taken from (trace.interceptor.ts:88-145, propagation.interceptor.ts).   *)
(***************************************************************************)
KeepsId(n) ==
    \/ req[n].kind = "http"
    \/ req[n].traced # Fresh(n)
    \/ req[n].kind = "ws" /\ req[n].data /\ traceFirst

ChainKeepsId ==
    \A n \in Node :
       req[n].traced # None /\ KeepsId(<<n[1], 0>>)
          => req[n].traced = req[<<n[1], 0>>].traced

=============================================================================
