------------------------- MODULE NestRequestProofs -------------------------
(***************************************************************************)
(* What NestRequest keeps for every set of requests, ways to arrive, chain *)
(* of calls and shared exceptions.                                         *)
(***************************************************************************)
EXTENDS NestRequest, TLAPS

USE DEF options, metas

Id == {None} \cup ({"uuid", "client", "socket"} \X Node)
Phases == {"absent", "sent", "handling", "waiting", "thrown", "marked", "answered", "failed"}
Request ==
  [phase : Phases, kind : {"http", "ws", "rpc", "mq"}, data : BOOLEAN,
   carrier : Id, handshake : Id, traced : Id, headers : Id,
   error : {None, Primitive} \cup Exceptions, sharers : SUBSET Node,
   awaits : {None} \cup Node, shown : Id, outcome : {"pending", "reply", "rejected"}]

(* A request that waits, waits for one; what is thrown and what is marked  *)
(* is an exception.                                                        *)
Pointed(r) ==
  /\ r.phase = "waiting" => r.awaits \in Node
  /\ r.phase = "thrown" => r.error \in {Primitive} \cup Exceptions
  /\ r.phase = "marked" => r.error \in Exceptions

TypeOK ==
  /\ traceFirst \in BOOLEAN /\ ownMeta \in SUBSET Constants
  /\ req \in [Node -> Request]
  /\ meta \in [Exceptions -> Id]
  /\ kept \in [Constants -> Id]
  /\ leader \in {None} \cup {n \in Node : Callee(n) \in Node}
  /\ \A n \in Node : Pointed(req[n])

-----------------------------------------------------------------------------
(* Nodes, and the request with which a chain begins.                       *)

First(n) == <<n[1], 0>>

LEMMA Nodes ==
  ASSUME NEW n \in Node
  PROVE  /\ n = <<n[1], n[2]>> /\ n[1] \in Entries /\ n[2] \in Nat
         /\ First(n) \in Node
         /\ n[2] < Depth[n[1]] =>
              Callee(n) \in Node /\ First(Callee(n)) = First(n) /\ Callee(n)[2] # 0
<1>1. PICK e \in Entries : n \in {e} \X (0..Depth[e])
  BY DEF Node
<1>2. n = <<e, n[2]>> /\ n[1] = e /\ n[2] \in 0..Depth[e] /\ Depth[e] \in Nat
  BY <1>1, DepthAssumption
<1>3. \A d \in 0..Depth[e] : <<e, d>> \in Node
  BY DEF Node
<1>4. 0 \in 0..Depth[e] /\ n[2] \in Nat
  BY <1>2
<1>5. ASSUME n[2] < Depth[e] PROVE n[2] + 1 \in 0..Depth[e] /\ n[2] + 1 # 0
  BY <1>2, <1>5
<1> QED BY <1>1, <1>2, <1>3, <1>4, <1>5 DEF First, Callee

LEMMA Ids ==
  /\ None \in Id
  /\ \A n \in Node : Fresh(n) \in Id /\ Fresh(n) # None
  /\ \A e \in Entries : Given(e) \in Id /\ Shaken(e) \in Id
<1>1. \A e \in Entries : <<e, 0>> \in Node
  <2> TAKE e \in Entries
  <2>1. 0 \in 0..Depth[e]
    BY DepthAssumption
  <2> QED BY <2>1 DEF Node
<1> QED BY <1>1 DEF Id, Fresh, Given, Shaken, None

-----------------------------------------------------------------------------
(* Type correctness.                                                       *)

LEMMA AbsentType == Absent \in Request /\ Pointed(Absent)
<1>1. None \in Id
  BY Ids
<1> QED BY <1>1 DEF Absent, Request, Pointed, Phases

LEMMA SentType ==
  ASSUME NEW kind \in {"http", "ws", "rpc", "mq"}, NEW id \in Id
  PROVE  Sent(kind, id) \in Request /\ Pointed(Sent(kind, id))
BY AbsentType DEF Sent, Request, Pointed, Phases

LEMMA TypeInit == Init => TypeOK
<1> SUFFICES ASSUME Init PROVE TypeOK
  OBVIOUS
<1>1. PICK a \in [Entries -> Arrival] :
        req = [n \in Node |-> IF n[2] = 0 THEN EntryOf(n[1], a[n[1]]) ELSE Absent]
  BY DEF Init
<1>2. ASSUME NEW e \in Entries
      PROVE  EntryOf(e, a[e]) \in Request /\ Pointed(EntryOf(e, a[e]))
  <2>1. a[e].kind \in {"http", "ws", "rpc", "mq"} /\ a[e].data \in BOOLEAN
    BY DEF Arrival
  <2>2. PICK id \in Id, shaken \in Id :
          EntryOf(e, a[e]) = [Sent(a[e].kind, id) EXCEPT !.data = a[e].data, !.handshake = shaken]
    BY Ids DEF EntryOf
  <2>3. Sent(a[e].kind, id) \in Request /\ Pointed(Sent(a[e].kind, id))
    BY <2>1, SentType
  <2> QED BY <2>1, <2>2, <2>3 DEF Request, Pointed
<1>3. \A n \in Node : req[n] \in Request /\ Pointed(req[n])
  BY <1>1, <1>2, AbsentType, Nodes
<1>4. req \in [Node -> Request]
  BY <1>1, <1>3
<1> QED BY <1>3, <1>4, Ids DEF Init, TypeOK

(* What a step of the handler, or the promise of a call, leaves alone.     *)
Same(r, s) ==
  /\ r.kind = s.kind /\ r.data = s.data /\ r.carrier = s.carrier
  /\ r.traced = s.traced /\ r.headers = s.headers
  /\ r.error = s.error /\ r.sharers = s.sharers /\ r.shown = s.shown
  /\ \/ r.phase = s.phase
     \/ s.phase \in {"handling", "waiting"} /\ r.phase \in {"handling", "waiting", "answered"}

Moves(n, r) ==
  /\ r \in Request /\ Pointed(r) /\ Same(r, req[n])
  /\ req' = [req EXCEPT ![n] = r]
  /\ leader' \in {leader, None}
  /\ UNCHANGED <<options, metas>>

Calls(n, r, kind) ==
  /\ r \in Request /\ Pointed(r) /\ Same(r, req[n])
  /\ MayCall(n)
  /\ req' = [req EXCEPT ![n] = r, ![Callee(n)] = CallWith(n, kind)]
  /\ leader' \in {leader, n}
  /\ UNCHANGED <<options, metas>>

Throws(n, x, phase) ==
  /\ x \in {Primitive} \cup ({"constant"} \X Constants) \cup ({"call", "empty"} \X Node)
  /\ \/ phase = "marked" /\ x # Primitive /\ x[1] # "empty" /\ req[n].phase = "sent"
     \/ phase = "marked" /\ x[1] = "empty" /\ ~traceFirst /\ req[n].phase = "handling"
     \/ /\ phase = "thrown" /\ (x[1] = "empty" => traceFirst)
        /\ req[n].phase \in {"handling", "waiting"}
  /\ ThrowAt(n, x, phase)
  /\ UNCHANGED <<options, metas, leader>>

LEMMA ReturnMoves ==
  ASSUME TypeOK, NEW n \in Node, Return(n)
  PROVE  \E r : Moves(n, r)
<1>1. Moves(n, [req[n] EXCEPT !.phase = "answered"])
  BY DEF Return, Moves, Same, TypeOK, Request, Pointed, Phases
<1> QED BY <1>1

LEMMA ResumeMoves ==
  ASSUME TypeOK, NEW n \in Node, Resume(n)
  PROVE  (\E r : Moves(n, r)) \/ \E x : Throws(n, x, "thrown")
<1>1. req[n].awaits \in Node /\ req[n] \in Request
  BY DEF Resume, TypeOK, Pointed
<1>2. CASE req' = [req EXCEPT ![n].phase = "handling"]
  <2>1. Moves(n, [req[n] EXCEPT !.phase = "handling"])
    BY <1>1, <1>2 DEF Resume, Moves, Same, TypeOK, Request, Pointed, Phases
  <2> QED BY <2>1
<1>3. CASE ThrowAt(n, <<"call", req[n].awaits>>, "thrown")
  <2>1. Throws(n, <<"call", req[n].awaits>>, "thrown")
    <3>1. <<"call", req[n].awaits>>[1] # "empty"
      OBVIOUS
    <3> QED BY <1>1, <1>3, <3>1 DEF Resume, Throws
  <2> QED BY <2>1
<1> QED BY <1>2, <1>3 DEF Resume

LEMMA SettlesMoves ==
  ASSUME TypeOK, NEW n \in Node, CallSettles(n)
  PROVE  \E m \in Node : \E r : Moves(m, r)
<1>1. Callee(n) \in Node
  BY Nodes DEF CallSettles
<1>2. PICK outcome \in {"rejected", "reply"} :
        req' = [req EXCEPT ![Callee(n)].outcome = outcome]
  BY DEF CallSettles
<1>3. Moves(Callee(n), [req[Callee(n)] EXCEPT !.outcome = outcome])
  <2> DEFINE r == [req[Callee(n)] EXCEPT !.outcome = outcome]
  <2>1. req[Callee(n)] \in Request /\ Pointed(req[Callee(n)])
    BY <1>1 DEF TypeOK
  <2>2. r \in Request /\ Pointed(r) /\ Same(r, req[Callee(n)])
    BY <2>1 DEF Request, Pointed, Same
  <2>3. req' = [req EXCEPT ![Callee(n)] = r]
    BY <1>2
  <2>4. leader' \in {leader, None} /\ UNCHANGED <<options, metas>>
    BY DEF CallSettles
  <2> QED BY <2>2, <2>3, <2>4 DEF Moves
<1> QED BY <1>1, <1>3

LEMMA CallCalls ==
  ASSUME TypeOK, NEW n \in Node, Call(n) \/ Publish(n)
  PROVE  \E r : \E kind \in {"rpc", "mq"} : Calls(n, r, kind)
<1>1. Callee(n) \in Node /\ Callee(n) # n
  BY Nodes DEF Call, Publish, MayCall, Callee
<1>2. CASE Call(n)
  <2>1. Calls(n, [req[n] EXCEPT !.phase = "waiting", !.awaits = Callee(n)], "rpc")
    BY <1>1, <1>2 DEF Call, MayCall, Calls, Same, TypeOK, Request, Pointed, Phases
  <2> QED BY <2>1
<1>3. CASE Publish(n)
  <2>1. Calls(n, req[n], "mq")
    BY <1>1, <1>3 DEF Publish, MayCall, Calls, Same, TypeOK
  <2> QED BY <2>1
<1> QED BY <1>2, <1>3

LEMMA CachedMovesOrCalls ==
  ASSUME TypeOK, NEW n \in Node, CallCached(n)
  PROVE  (\E r : Moves(n, r)) \/ \E r : Calls(n, r, "rpc")
<1>1. CASE leader # None
  <2>1. Callee(leader) \in Node
    BY <1>1 DEF TypeOK
  <2>2. Moves(n, [req[n] EXCEPT !.phase = "waiting", !.awaits = Callee(leader)])
    <3> DEFINE r == [req[n] EXCEPT !.phase = "waiting", !.awaits = Callee(leader)]
    <3>1. req[n] \in Request /\ req[n].phase = "handling"
      BY <1>1 DEF TypeOK, CallCached
    <3>2. r \in Request /\ Pointed(r) /\ Same(r, req[n])
      BY <2>1, <3>1 DEF Request, Pointed, Same, Phases
    <3>3. req' = [req EXCEPT ![n] = r] /\ UNCHANGED <<options, metas, leader>>
      BY <1>1 DEF CallCached
    <3> QED BY <3>2, <3>3 DEF Moves
  <2> QED BY <2>2
<1>2. CASE leader = None
  <2>1. Callee(n) \in Node /\ Callee(n) # n
    BY <1>2, Nodes DEF CallCached, MayCall, Callee
  <2>2. Calls(n, [req[n] EXCEPT !.phase = "waiting", !.awaits = Callee(n)], "rpc")
    <3> DEFINE r == [req[n] EXCEPT !.phase = "waiting", !.awaits = Callee(n)]
    <3>1. req[n] \in Request /\ req[n].phase = "handling" /\ MayCall(n)
      BY <1>2 DEF TypeOK, CallCached, MayCall
    <3>2. r \in Request /\ Pointed(r) /\ Same(r, req[n])
      BY <2>1, <3>1 DEF Request, Pointed, Same, Phases
    <3>3. req' = [req EXCEPT ![n] = r, ![Callee(n)] = CallWith(n, "rpc")]
      BY <1>2, <2>1 DEF CallCached, TypeOK
    <3>4. leader' = n /\ UNCHANGED <<options, metas>>
      BY <1>2 DEF CallCached
    <3> QED BY <3>1, <3>2, <3>3, <3>4 DEF Calls
  <2> QED BY <2>2
<1> QED BY <1>1, <1>2

LEMMA Steps ==
  ASSUME TypeOK, [Next]_vars
  PROVE  \/ UNCHANGED vars
         \/ \E n \in Node :
              \/ Intercept(n) \/ Mark(n) \/ Catch(n) \/ ConsumerFails(n)
              \/ \E r : Moves(n, r)
              \/ \E r : \E kind \in {"rpc", "mq"} : Calls(n, r, kind)
              \/ \E x : \E phase \in {"thrown", "marked"} : Throws(n, x, phase)
<1>1. CASE UNCHANGED vars
  BY <1>1
<1>2. ASSUME NEW n \in Node, GuardThrows(n)
      PROVE  \E x : \E phase \in {"thrown", "marked"} : Throws(n, x, phase)
  <2>1. PICK c \in Constants : ThrowAt(n, <<"constant", c>>, "marked")
    BY <1>2 DEF GuardThrows
  <2>2. Throws(n, <<"constant", c>>, "marked")
    <3>1. <<"constant", c>>[1] # "empty" /\ <<"constant", c>> # Primitive
      BY DEF Primitive
    <3> QED BY <1>2, <2>1, <3>1 DEF GuardThrows, Throws
  <2> QED BY <2>2
<1>3. ASSUME NEW n \in Node, HandlerThrows(n)
      PROVE  \E x : \E phase \in {"thrown", "marked"} : Throws(n, x, phase)
  <2>1. PICK x \in {Primitive} \cup ({"constant"} \X Constants) : ThrowAt(n, x, "thrown")
    BY <1>3 DEF HandlerThrows
  <2>2. Throws(n, x, "thrown")
    <3>1. x[1] # "empty"
      BY <2>1 DEF Primitive
    <3> QED BY <1>3, <2>1, <3>1 DEF HandlerThrows, Throws
  <2> QED BY <2>2
<1>4. ASSUME NEW n \in Node, EndsEmpty(n)
      PROVE  \E x : \E phase \in {"thrown", "marked"} : Throws(n, x, phase)
  <2>1. <<"empty", n>>[1] = "empty" /\ <<"empty", n>> \in {"call", "empty"} \X Node
    OBVIOUS
  <2>2. CASE traceFirst
    <3>1. Throws(n, <<"empty", n>>, "thrown")
      BY <1>4, <2>1, <2>2 DEF EndsEmpty, Throws
    <3> QED BY <3>1
  <2>3. CASE ~traceFirst
    <3>1. Throws(n, <<"empty", n>>, "marked")
      <4>1. <<"empty", n>> # Primitive
        BY DEF Primitive
      <4> QED BY <1>4, <2>1, <2>3, <4>1 DEF EndsEmpty, Throws
    <3> QED BY <3>1
  <2> QED BY <2>2, <2>3
<1> QED BY <1>1, <1>2, <1>3, <1>4, ReturnMoves, ResumeMoves, SettlesMoves, CallCalls,
           CachedMovesOrCalls DEF Next

-----------------------------------------------------------------------------
(* What each step makes of a request.                                      *)

LEMMA UpdateType ==
  ASSUME NEW r \in Request, NEW phase \in Phases, NEW x \in {None, Primitive} \cup Exceptions,
         NEW sharers \in SUBSET Node
  PROVE  [r EXCEPT !.phase = phase, !.error = x, !.sharers = sharers] \in Request
BY DEF Request

LEMMA InterceptMakes ==
  ASSUME TypeOK, NEW n \in Node
  PROVE  /\ RequestId(n) \in Id /\ RequestId(n) # None
         /\ Intercepted(n) \in Request /\ Pointed(Intercepted(n))
<1>1. req[n] \in Request
  BY DEF TypeOK
<1>2. RequestId(n) \in Id /\ RequestId(n) # None
  BY <1>1, Ids DEF RequestId, Request
<1>3. Traced(n) \in Request
  BY <1>1, <1>2 DEF Traced, Request
<1>4. \A r \in Request : HeadersOf(r) \in Id
  BY DEF HeadersOf, Request
<1>5. PICK headers \in Id : Intercepted(n) = [Traced(n) EXCEPT !.headers = headers, !.phase = "handling"]
  BY <1>1, <1>3, <1>4 DEF Intercepted
<1> QED BY <1>2, <1>3, <1>5 DEF Request, Pointed, Phases

LEMMA CallMakes ==
  ASSUME TypeOK, NEW n \in Node, NEW r, NEW kind \in {"rpc", "mq"}, Calls(n, r, kind)
  PROVE  /\ Callee(n) \in Node /\ Callee(n) # n /\ req[Callee(n)].phase = "absent"
         /\ First(Callee(n)) = First(n) /\ Callee(n)[2] # 0
         /\ req' \in [Node -> Request] /\ req'[n] = r
         /\ req'[Callee(n)] = Sent(kind, req[n].headers)
         /\ \A m \in Node : m # n /\ m # Callee(n) => req'[m] = req[m]
<1>1. Callee(n) \in Node /\ Callee(n) # n /\ First(Callee(n)) = First(n) /\ Callee(n)[2] # 0
  BY Nodes DEF Calls, MayCall, Callee
<1>2. Sent(kind, req[n].headers) \in Request
  BY SentType DEF TypeOK, Request
<1> QED BY <1>1, <1>2 DEF Calls, MayCall, CallWith, TypeOK

Thrown(n, x, phase) ==
  /\ req' \in [Node -> Request]
  /\ n \notin InFlight(x)
  /\ req'[n] = [req[n] EXCEPT !.phase = phase, !.error = x, !.sharers = InFlight(x)]
  /\ \A m \in InFlight(x) : req'[m] = [req[m] EXCEPT !.sharers = @ \cup {n}]
  /\ \A m \in Node : m # n /\ m \notin InFlight(x) => req'[m] = req[m]

LEMMA ThrowMakes ==
  ASSUME TypeOK, NEW n \in Node, NEW x, NEW phase \in {"thrown", "marked"}, Throws(n, x, phase)
  PROVE  Thrown(n, x, phase)
<1>1. x \in {Primitive} \cup Exceptions
  BY DEF Throws, Exceptions
<1>2. \A m \in Node : req[m] \in Request
  BY DEF TypeOK
<1>3. n \notin InFlight(x)
  BY DEF Throws, InFlight
<1>4. \A m \in Node :
        req'[m] = IF m = n THEN [req[n] EXCEPT !.phase = phase, !.error = x, !.sharers = InFlight(x)]
                  ELSE IF m \in InFlight(x) THEN [req[m] EXCEPT !.sharers = @ \cup {n}]
                  ELSE req[m]
  BY DEF Throws, ThrowAt
<1>5. InFlight(x) \subseteq Node
  BY DEF InFlight
<1>6. [req[n] EXCEPT !.phase = phase, !.error = x, !.sharers = InFlight(x)] \in Request
  <2>1. phase \in Phases /\ x \in {None, Primitive} \cup Exceptions /\ InFlight(x) \in SUBSET Node
    BY <1>1, <1>5 DEF Phases
  <2> QED BY <1>2, <2>1, UpdateType
<1>7. \A m \in InFlight(x) : [req[m] EXCEPT !.sharers = @ \cup {n}] \in Request
  BY <1>2, <1>5 DEF Request
<1>8. req' \in [Node -> Request]
  BY <1>2, <1>4, <1>6, <1>7 DEF Throws, ThrowAt
<1> QED BY <1>3, <1>4, <1>5, <1>8 DEF Thrown

(* The id that the filter shows for an exception.                          *)
Told(x) == IF meta[x] # None THEN meta[x] ELSE Kept(x)

LEMMA ToldType ==
  ASSUME TypeOK, NEW x \in Exceptions
  PROVE  /\ Told(x) \in Id
         /\ HasOwnMeta(x) => x = <<"constant", x[2]>> /\ x[2] \in Constants
<1>1. meta[x] \in Id
  BY DEF TypeOK
<1>2. ASSUME HasOwnMeta(x) PROVE x = <<"constant", x[2]>> /\ x[2] \in Constants
  <2>1. x[2] \in Constants
    BY <1>2 DEF HasOwnMeta, TypeOK
  <2> QED BY <1>2, <2>1 DEF HasOwnMeta, Exceptions
<1>3. Kept(x) \in Id
  BY <1>2, Ids DEF Kept, TypeOK
<1> QED BY <1>1, <1>2, <1>3 DEF Told

LEMMA CatchMakes ==
  ASSUME TypeOK, NEW n \in Node, Catch(n), NEW x \in Exceptions, x = req[n].error
  PROVE  /\ req' = [req EXCEPT ![n] = [req[n] EXCEPT !.phase = "failed", !.shown = Told(x)]]
         /\ meta' = [meta EXCEPT ![x] = None]
         /\ kept' \in [Constants -> Id]
         /\ \A c \in Constants :
              kept'[c] = IF HasOwnMeta(x) /\ x = <<"constant", c>> THEN Told(x) ELSE kept[c]
         /\ UNCHANGED <<options, leader>>
<1>1. /\ req' = [req EXCEPT ![n] = [req[n] EXCEPT !.phase = "failed", !.shown = Told(x)]]
      /\ meta' = [meta EXCEPT ![x] = None]
      /\ kept' = IF HasOwnMeta(x) THEN [kept EXCEPT ![x[2]] = Told(x)] ELSE kept
      /\ UNCHANGED <<options, leader>>
  BY DEF Catch, MarkLeft, Told
<1>2. Told(x) \in Id /\ (HasOwnMeta(x) => x = <<"constant", x[2]>> /\ x[2] \in Constants)
  BY ToldType
<1>3. CASE HasOwnMeta(x)
  <2>1. kept' = [kept EXCEPT ![x[2]] = Told(x)] /\ kept \in [Constants -> Id]
    BY <1>1, <1>3 DEF TypeOK
  <2>2. kept' \in [Constants -> Id]
    BY <1>2, <2>1
  <2>3. \A c \in Constants : c = x[2] <=> x = <<"constant", c>>
    BY <1>2, <1>3
  <2>4. \A c \in Constants : kept'[c] = IF x = <<"constant", c>> THEN Told(x) ELSE kept[c]
    BY <2>1, <2>3
  <2> QED BY <1>1, <1>3, <2>2, <2>4
<1>4. CASE ~HasOwnMeta(x)
  BY <1>1, <1>4 DEF TypeOK
<1> QED BY <1>3, <1>4

LEMMA TypeNext == TypeOK /\ [Next]_vars => TypeOK'
<1> SUFFICES ASSUME TypeOK, [Next]_vars PROVE TypeOK'
  OBVIOUS
<1>0. \A n \in Node : req[n] \in Request /\ Pointed(req[n])
  BY DEF TypeOK
<1>1. CASE UNCHANGED vars
  BY <1>1 DEF vars, TypeOK
<1>2. ASSUME NEW n \in Node, Intercept(n) PROVE TypeOK'
  BY <1>2, InterceptMakes DEF Intercept, TypeOK
<1>3. ASSUME NEW n \in Node, Mark(n) PROVE TypeOK'
  <2>1. CASE req[n].error = Primitive
    <3> DEFINE r == [req[n] EXCEPT !.phase = "marked", !.error = <<"type", n>>, !.sharers = {}]
    <3>1. <<"type", n>> \in Exceptions
      BY DEF Exceptions
    <3>2. r \in Request
      <4>1. "marked" \in Phases /\ {} \in SUBSET Node /\ req[n] \in Request
        BY <1>0 DEF Phases
      <4> QED BY <3>1, <4>1, UpdateType
    <3>3. req' = [req EXCEPT ![n] = r] /\ UNCHANGED <<options, metas, leader>>
      BY <1>3, <2>1 DEF Mark
    <3>4. Pointed(r)
      <4>1. req[n] \in Request
        BY <1>0
      <4>2. r.phase = "marked" /\ r.error = <<"type", n>>
        BY <4>1 DEF Request
      <4> QED BY <3>1, <4>2 DEF Pointed
    <3> HIDE DEF r
    <3> QED BY <3>2, <3>3, <3>4 DEF TypeOK
  <2>2. CASE req[n].error # Primitive
    <3> DEFINE r == [req[n] EXCEPT !.phase = "marked"]
    <3>1. req[n].error \in Exceptions
      BY <1>0, <1>3, <2>2 DEF Mark, Pointed
    <3>2. r \in Request /\ Pointed(r)
      BY <1>0, <3>1 DEF Request, Pointed, Phases
    <3>3. req' = [req EXCEPT ![n] = r] /\ UNCHANGED <<options, kept, leader>>
          /\ meta' = [meta EXCEPT ![req[n].error] = req[n].traced]
      BY <1>3, <2>2 DEF Mark
    <3>4. req[n].traced \in Id
      BY <1>0 DEF Request
    <3> HIDE DEF r
    <3> QED BY <3>2, <3>3, <3>4 DEF TypeOK
  <2> QED BY <2>1, <2>2
<1>4. ASSUME NEW n \in Node, Catch(n) PROVE TypeOK'
  <2> DEFINE r == [req[n] EXCEPT !.phase = "failed", !.shown = Told(req[n].error)]
  <2>1. req[n].error \in Exceptions
    BY <1>0, <1>4 DEF Catch, Pointed
  <2>2. Told(req[n].error) \in Id
    BY <2>1, ToldType
  <2>3. r \in Request /\ Pointed(r)
    <3>1. req[n] \in Request
      BY <1>0
    <3>2. r \in Request /\ r.phase = "failed"
      BY <2>2, <3>1 DEF Request, Phases
    <3> QED BY <3>2 DEF Pointed
  <2>4. /\ req' = [req EXCEPT ![n] = r] /\ UNCHANGED <<options, leader>>
        /\ meta' = [meta EXCEPT ![req[n].error] = None]
        /\ kept' \in [Constants -> Id]
    BY <1>4, <2>1, CatchMakes
  <2> HIDE DEF r
  <2> QED BY <2>3, <2>4, Ids DEF TypeOK
<1>5. ASSUME NEW n \in Node, ConsumerFails(n) PROVE TypeOK'
  <2> DEFINE r == [req[n] EXCEPT !.phase = "failed"]
  <2>1. r \in Request /\ Pointed(r)
    BY <1>0 DEF Request, Pointed, Phases
  <2>2. req' = [req EXCEPT ![n] = r] /\ UNCHANGED <<options, metas, leader>>
    BY <1>5 DEF ConsumerFails
  <2> HIDE DEF r
  <2> QED BY <2>1, <2>2 DEF TypeOK
<1>6. ASSUME NEW n \in Node, NEW r, Moves(n, r) PROVE TypeOK'
  BY <1>6 DEF Moves, TypeOK
<1>7. ASSUME NEW n \in Node, NEW r, NEW kind \in {"rpc", "mq"}, Calls(n, r, kind) PROVE TypeOK'
  <2>1. /\ req' \in [Node -> Request] /\ Callee(n) \in Node /\ req'[n] = r
        /\ req'[Callee(n)] = Sent(kind, req[n].headers)
        /\ \A m \in Node : m # n /\ m # Callee(n) => req'[m] = req[m]
    BY <1>7, CallMakes
  <2>2. Pointed(r) /\ Pointed(Sent(kind, req[n].headers))
    BY <1>0, <1>7, SentType DEF Calls, Request
  <2>3. \A m \in Node : Pointed(req'[m])
    BY <1>0, <2>1, <2>2
  <2>4. leader' \in {None} \cup {m \in Node : Callee(m) \in Node}
    BY <1>7, <2>1 DEF Calls, TypeOK
  <2> QED BY <1>7, <2>1, <2>3, <2>4 DEF Calls, TypeOK
<1>8. ASSUME NEW n \in Node, NEW x, NEW phase \in {"thrown", "marked"}, Throws(n, x, phase)
      PROVE  TypeOK'
  <2>1. Thrown(n, x, phase)
    BY <1>8, ThrowMakes
  <2>2. Pointed(req'[n])
    <3>1. x \in {Primitive} \cup Exceptions /\ (phase = "marked" => x \in Exceptions)
      BY <1>8 DEF Throws, Exceptions, Primitive
    <3>2. req'[n].phase = phase /\ req'[n].error = x
      BY <1>0, <2>1 DEF Request, Thrown
    <3> QED BY <3>1, <3>2 DEF Pointed
  <2>3. ASSUME NEW m \in InFlight(x) PROVE Pointed(req'[m])
    <3>1. m \in Node /\ req[m] \in Request /\ Pointed(req[m])
      BY <1>0 DEF InFlight
    <3>2. /\ req'[m].phase = req[m].phase /\ req'[m].error = req[m].error
          /\ req'[m].awaits = req[m].awaits
      BY <2>1, <3>1 DEF Request, Thrown
    <3> QED BY <3>1, <3>2 DEF Pointed
  <2> QED BY <1>0, <1>8, <2>1, <2>2, <2>3 DEF Throws, Thrown, TypeOK
<1> QED BY <1>1, <1>2, <1>3, <1>4, <1>5, <1>6, <1>7, <1>8, Steps

(* Requests, exceptions' marks and the cached call keep their types: what   *)
(* is marked and caught is an exception, and every caller waits for a call. *)
THEOREM TypeCorrect == Spec => []TypeOK
<1> QED BY TypeInit, TypeNext, PTL DEF Spec

-----------------------------------------------------------------------------
(* The id of a chain.                                                      *)

(* A request is traced once it is intercepted, a handler runs only then,   *)
(* and what lies behind the first request came to be by such a handler.    *)
Traceable(n) ==
  /\ req[n].phase \in {"absent", "sent"} => req[n].traced = None
  /\ req[n].phase \in {"handling", "waiting", "thrown"} => req[n].traced # None
  /\ n[2] # 0 /\ req[n].phase # "absent" =>
       req[n].kind \in {"rpc", "mq"} /\ req[First(n)].traced # None

(* The id travels with every call, and is what the call propagates.        *)
Carries(n) ==
  KeepsId(First(n)) /\ req[First(n)].traced # None =>
    /\ n[2] # 0 /\ req[n].phase # "absent" => req[n].carrier = req[First(n)].traced
    /\ req[n].traced # None => /\ req[n].traced = req[First(n)].traced
                               /\ req[n].headers = req[First(n)].traced

Chained == \A n \in Node : Traceable(n) /\ Carries(n)

(* Steps that leave the ids of a request.                                  *)
Quiet(n) ==
  /\ req'[n].kind = req[n].kind /\ req'[n].data = req[n].data
  /\ req'[n].carrier = req[n].carrier
  /\ req'[n].traced = req[n].traced /\ req'[n].headers = req[n].headers
  /\ \/ req'[n].phase = req[n].phase
     \/ /\ req[n].phase \in {"handling", "waiting"}
        /\ req'[n].phase \in {"handling", "waiting", "thrown", "answered"}
     \/ req[n].phase # "absent" /\ req'[n].phase \in {"marked", "failed"}

LEMMA QuietChained ==
  ASSUME Chained, UNCHANGED traceFirst, \A n \in Node : Quiet(n)
  PROVE  Chained'
<1> SUFFICES ASSUME NEW n \in Node PROVE Traceable(n)' /\ Carries(n)'
  BY DEF Chained
<1>1. First(n) \in Node /\ Quiet(n) /\ Quiet(First(n)) /\ Traceable(n) /\ Carries(n)
  BY Nodes DEF Chained
<1>2. Traceable(n)'
  BY <1>1 DEF Traceable, Quiet
<1>3. KeepsId(First(n))' = KeepsId(First(n))
  BY <1>1 DEF KeepsId, Quiet, Fresh
<1>4. Carries(n)'
  BY <1>1, <1>3 DEF Carries, Quiet
<1> QED BY <1>2, <1>4

LEMMA QuietSteps ==
  ASSUME TypeOK, NEW n \in Node, NEW m \in Node,
         \/ Mark(n) \/ Catch(n) \/ ConsumerFails(n)
         \/ \E r : Moves(n, r)
         \/ \E x : \E phase \in {"thrown", "marked"} : Throws(n, x, phase)
  PROVE  Quiet(m) /\ UNCHANGED traceFirst
<1>1. req[m] \in Request /\ req[n] \in Request
  BY DEF TypeOK
<1>2. CASE Mark(n)
  <2>1. CASE m = n
    BY <1>1, <1>2, <2>1 DEF Mark, Quiet, Request, TypeOK
  <2>2. CASE m # n
    BY <1>2, <2>2 DEF Mark, Quiet, TypeOK
  <2> QED BY <1>2, <2>1, <2>2 DEF Mark
<1>3. CASE Catch(n)
  <2>1. CASE m = n
    BY <1>1, <1>3, <2>1 DEF Catch, Quiet, Request, TypeOK
  <2>2. CASE m # n
    BY <1>3, <2>2 DEF Catch, Quiet, TypeOK
  <2> QED BY <1>3, <2>1, <2>2 DEF Catch
<1>4. CASE ConsumerFails(n)
  BY <1>1, <1>4 DEF ConsumerFails, Quiet, Request, TypeOK
<1>5. ASSUME NEW r, Moves(n, r) PROVE Quiet(m) /\ UNCHANGED traceFirst
  BY <1>5 DEF Moves, Same, Quiet, TypeOK
<1>6. ASSUME NEW x, NEW phase \in {"thrown", "marked"}, Throws(n, x, phase)
      PROVE  Quiet(m) /\ UNCHANGED traceFirst
  <2>1. /\ Thrown(n, x, phase) /\ req[n].phase # "absent" /\ UNCHANGED traceFirst
        /\ phase = "thrown" => req[n].phase \in {"handling", "waiting"}
    BY <1>6, ThrowMakes DEF Throws
  <2>2. CASE m = n
    BY <1>1, <2>1, <2>2 DEF Thrown, Quiet, Request
  <2>3. CASE m \in InFlight(x)
    <3>1. req'[m] = [req[m] EXCEPT !.sharers = @ \cup {n}]
      BY <2>1, <2>3 DEF Thrown
    <3>2. /\ req'[m].kind = req[m].kind /\ req'[m].data = req[m].data
          /\ req'[m].carrier = req[m].carrier /\ req'[m].traced = req[m].traced
          /\ req'[m].headers = req[m].headers /\ req'[m].phase = req[m].phase
      BY <1>1, <3>1 DEF Request
    <3> QED BY <2>1, <3>2 DEF Quiet
  <2>4. CASE m # n /\ m \notin InFlight(x)
    BY <2>1, <2>4 DEF Thrown, Quiet
  <2> QED BY <2>1, <2>2, <2>3, <2>4
<1> QED BY <1>2, <1>3, <1>4, <1>5, <1>6

(* What an intercepted request is traced under and propagates.             *)
LEMMA InterceptedIds ==
  ASSUME TypeOK, NEW n \in Node
  PROVE  LET r == Intercepted(n)
         IN /\ r.kind = req[n].kind /\ r.data = req[n].data /\ r.phase = "handling"
            /\ r.traced = RequestId(n)
            /\ ~WritesBack(req[n]) => r.carrier = req[n].carrier
            /\ \/ req[n].carrier # None
               \/ WritesBack(req[n]) /\ (traceFirst \/ req[n].kind = "http")
               => r.headers = RequestId(n)
<1>1. req[n] \in Request /\ RequestId(n) # None
  BY InterceptMakes DEF TypeOK
<1>2. /\ Traced(n).kind = req[n].kind /\ Traced(n).data = req[n].data
      /\ Traced(n).traced = RequestId(n)
      /\ WritesBack(req[n]) => Traced(n).carrier = RequestId(n)
      /\ ~WritesBack(req[n]) => Traced(n).carrier = req[n].carrier
      /\ DOMAIN Traced(n) = DOMAIN req[n]
  <2> DEFINE carrier == IF WritesBack(req[n]) THEN RequestId(n) ELSE req[n].carrier
  <2>1. Traced(n) = [req[n] EXCEPT !.traced = RequestId(n), !.carrier = carrier]
    BY DEF Traced
  <2> HIDE DEF carrier
  <2>2. /\ Traced(n).kind = req[n].kind /\ Traced(n).data = req[n].data
        /\ Traced(n).traced = RequestId(n) /\ Traced(n).carrier = carrier
        /\ DOMAIN Traced(n) = DOMAIN req[n]
    BY <1>1, <2>1 DEF Request
  <2>3. WritesBack(req[n]) => carrier = RequestId(n)
    BY DEF carrier
  <2>4. ~WritesBack(req[n]) => carrier = req[n].carrier
    BY DEF carrier
  <2> HIDE DEF carrier
  <2> QED BY <2>2, <2>3, <2>4
<1>3. DOMAIN req[n] = {"phase", "kind", "data", "carrier", "handshake", "traced", "headers",
                       "error", "sharers", "awaits", "shown", "outcome"}
  BY <1>1 DEF Request
<1> DEFINE seen == IF traceFirst \/ Traced(n).kind = "http" THEN Traced(n) ELSE req[n]
<1>4. Intercepted(n) = [Traced(n) EXCEPT !.headers = HeadersOf(seen), !.phase = "handling"]
  BY DEF Intercepted
<1>5. /\ Intercepted(n).kind = req[n].kind /\ Intercepted(n).data = req[n].data
      /\ Intercepted(n).phase = "handling" /\ Intercepted(n).traced = RequestId(n)
      /\ Intercepted(n).carrier = Traced(n).carrier
      /\ Intercepted(n).headers = HeadersOf(seen)
  BY <1>2, <1>3, <1>4
<1>6. ASSUME \/ req[n].carrier # None
             \/ WritesBack(req[n]) /\ (traceFirst \/ req[n].kind = "http")
      PROVE  HeadersOf(seen) = RequestId(n)
  <2>1. CASE req[n].carrier # None
    <3>1. req[n].carrier = RequestId(n) /\ Traced(n).carrier = RequestId(n)
      <4>1. req[n].carrier = RequestId(n)
        BY <2>1 DEF RequestId
      <4>2. CASE WritesBack(req[n])
        BY <1>2, <4>1, <4>2
      <4>3. CASE ~WritesBack(req[n])
        BY <1>2, <4>1, <4>3
      <4> QED BY <4>1, <4>2, <4>3
    <3>2. seen.carrier = RequestId(n)
      BY <3>1
    <3> QED BY <1>1, <3>2 DEF HeadersOf
  <2>2. CASE WritesBack(req[n]) /\ (traceFirst \/ req[n].kind = "http")
    <3>1. seen.carrier = RequestId(n)
      BY <1>2, <2>2
    <3> QED BY <1>1, <3>1 DEF HeadersOf
  <2> QED BY <1>6, <2>1, <2>2
<1>7. ~WritesBack(req[n]) => Intercepted(n).carrier = req[n].carrier
  BY <1>2, <1>5
<1> HIDE DEF seen
<1> QED BY <1>5, <1>6, <1>7, Zenon

LEMMA FirstIsFirst ==
  ASSUME NEW n \in Node
  PROVE  First(First(n)) = First(n) /\ First(n)[2] = 0 /\ (n[2] = 0 => n = First(n))
BY Nodes DEF First

LEMMA InterceptChained ==
  ASSUME TypeOK, Chained, NEW n \in Node, Intercept(n)
  PROVE  Chained'
<1> DEFINE r == Intercepted(n)
<1>1. /\ req'[n] = r /\ \A m \in Node : m # n => req'[m] = req[m]
      /\ UNCHANGED traceFirst
  BY DEF Intercept, TypeOK
<1>2. /\ r.kind = req[n].kind /\ r.data = req[n].data /\ r.phase = "handling"
      /\ r.traced = RequestId(n) /\ RequestId(n) # None
      /\ ~WritesBack(req[n]) => r.carrier = req[n].carrier
      /\ \/ req[n].carrier # None
         \/ WritesBack(req[n]) /\ (traceFirst \/ req[n].kind = "http")
         => r.headers = RequestId(n)
  BY InterceptedIds, InterceptMakes
<1> HIDE DEF r
<1>3. req[n].phase = "sent" /\ req[n].traced = None
  BY DEF Intercept, Chained, Traceable
<1>4. \A m \in Node : Traceable(m)'
  <2> TAKE m \in Node
  <2>1. Traceable(m) /\ Traceable(n) /\ First(m) \in Node
    BY Nodes DEF Chained
  <2>2. req[First(m)].traced # None => req'[First(m)].traced # None
    BY <1>1, <1>2, <2>1
  <2>3. CASE m = n
    BY <1>1, <1>2, <1>3, <2>1, <2>2, <2>3 DEF Traceable
  <2>4. CASE m # n
    BY <1>1, <2>1, <2>2, <2>4 DEF Traceable
  <2> QED BY <2>3, <2>4
<1>5. CASE n[2] = 0
  <2>1. n = First(n)
    BY <1>5, FirstIsFirst
  <2>2. ASSUME NEW m \in Node, First(m) = n, m # n PROVE Carries(m)'
    <3>1. m[2] # 0
      BY <2>2, FirstIsFirst
    <3>2. Traceable(m)
      BY DEF Chained
    <3>3. req[m].phase = "absent" /\ req[m].traced = None
      BY <1>3, <2>2, <3>1, <3>2 DEF Traceable
    <3> QED BY <1>1, <2>2, <3>3 DEF Carries
  <2>3. ASSUME KeepsId(n)' PROVE r.headers = r.traced
    <3>1. \/ req[n].kind = "http"
          \/ RequestId(n) # Fresh(n)
          \/ req[n].kind = "ws" /\ req[n].data /\ traceFirst
      BY <1>1, <1>2, <2>3 DEF KeepsId
    <3>2. RequestId(n) # Fresh(n) => req[n].carrier # None
      BY DEF RequestId
    <3> QED BY <1>2, <3>1, <3>2 DEF WritesBack
  <2>4. Carries(n)'
    BY <1>1, <1>5, <2>1, <2>3 DEF Carries
  <2>5. ASSUME NEW m \in Node, First(m) # n PROVE Carries(m)'
    <3>1. m # n /\ First(m) \in Node /\ Carries(m)
      BY <2>1, <2>5, Nodes DEF Chained
    <3>2. req'[m] = req[m] /\ req'[First(m)] = req[First(m)]
      BY <1>1, <2>5, <3>1
    <3> QED BY <1>1, <3>1, <3>2 DEF Carries, KeepsId
  <2> QED BY <1>4, <2>2, <2>4, <2>5 DEF Chained
<1>6. CASE n[2] # 0
  <2>1. First(n) # n /\ First(n) \in Node
    BY <1>6, FirstIsFirst, Nodes
  <2>2. Traceable(n) /\ Carries(n)
    BY DEF Chained
  <2>3. ASSUME KeepsId(First(n)), req[First(n)].traced # None
        PROVE  /\ r.carrier = req[First(n)].traced /\ r.traced = req[First(n)].traced
               /\ r.headers = req[First(n)].traced
    <3>1. req[n].carrier = req[First(n)].traced /\ req[n].kind \in {"rpc", "mq"}
      BY <1>3, <1>6, <2>2, <2>3 DEF Carries, Traceable
    <3>2. RequestId(n) = req[n].carrier
      BY <2>3, <3>1 DEF RequestId
    <3> QED BY <1>2, <2>3, <3>1, <3>2 DEF WritesBack
  <2>4. \A m \in Node : req'[First(m)] = req[First(m)]
    <3> TAKE m \in Node
    <3>1. First(m) \in Node /\ First(m) # n
      BY <1>6, FirstIsFirst, Nodes
    <3> QED BY <1>1, <3>1
  <2>5. \A m \in Node : KeepsId(First(m))' = KeepsId(First(m))
    BY <1>1, <2>4 DEF KeepsId
  <2>6. Carries(n)'
    BY <1>1, <2>3, <2>4, <2>5 DEF Carries
  <2>7. ASSUME NEW m \in Node, m # n PROVE Carries(m)'
    <3>1. Carries(m) /\ req'[m] = req[m]
      BY <1>1, <2>7 DEF Chained
    <3> QED BY <2>4, <2>5, <3>1 DEF Carries
  <2> QED BY <1>4, <2>6, <2>7 DEF Chained
<1> QED BY <1>5, <1>6

LEMMA CallChained ==
  ASSUME TypeOK, Chained, NEW n \in Node, NEW r, NEW kind \in {"rpc", "mq"}, Calls(n, r, kind)
  PROVE  Chained'
<1> DEFINE c == Callee(n)
<1>1. /\ c \in Node /\ c # n /\ req[c].phase = "absent"
      /\ First(c) = First(n) /\ c[2] # 0
      /\ req'[n] = r /\ req'[c] = Sent(kind, req[n].headers)
      /\ \A m \in Node : m # n /\ m # c => req'[m] = req[m]
  BY CallMakes
<1>2. Same(r, req[n]) /\ req[n].phase = "handling" /\ UNCHANGED traceFirst
  BY DEF Calls, MayCall
<1>3. /\ req'[c].phase = "sent" /\ req'[c].kind = kind /\ req'[c].traced = None
      /\ req'[c].carrier = req[n].headers
  BY <1>1 DEF Sent, Absent
<1> HIDE DEF c
<1>4. \A m \in Node : First(m) # c /\ First(m) \in Node
  BY <1>1, FirstIsFirst, Nodes
<1>5. \A m \in Node : /\ req'[First(m)].traced = req[First(m)].traced
                      /\ KeepsId(First(m))' = KeepsId(First(m))
  <2> TAKE m \in Node
  <2>1. /\ req'[First(m)].traced = req[First(m)].traced
        /\ req'[First(m)].kind = req[First(m)].kind
        /\ req'[First(m)].data = req[First(m)].data
    BY <1>1, <1>2, <1>4 DEF Same
  <2> QED BY <1>2, <2>1 DEF KeepsId
<1>6. Traceable(n) /\ Carries(n)
  BY DEF Chained
<1>7. req[n].traced # None /\ req[First(n)].traced # None
  BY <1>2, <1>6, FirstIsFirst DEF Traceable
<1>8. Traceable(c)' /\ Carries(c)'
  <2>1. Traceable(c)'
    BY <1>1, <1>3, <1>5, <1>7 DEF Traceable
  <2>2. Carries(c)'
    BY <1>1, <1>3, <1>5, <1>6, <1>7 DEF Carries
  <2> QED BY <2>1, <2>2
<1>9. Traceable(n)' /\ Carries(n)'
  <2>1. Traceable(n)'
    BY <1>1, <1>2, <1>5, <1>6 DEF Traceable, Same
  <2>2. Carries(n)'
    BY <1>1, <1>2, <1>5, <1>6 DEF Carries, Same
  <2> QED BY <2>1, <2>2
<1>10. ASSUME NEW m \in Node, m # n, m # c PROVE Traceable(m)' /\ Carries(m)'
  <2>1. Traceable(m) /\ Carries(m) /\ req'[m] = req[m]
    BY <1>1, <1>10 DEF Chained
  <2> QED BY <1>5, <2>1 DEF Traceable, Carries
<1> QED BY <1>8, <1>9, <1>10 DEF Chained

LEMMA ChainedInit == Init => Chained
<1> SUFFICES ASSUME Init, NEW n \in Node PROVE Traceable(n) /\ Carries(n)
  BY DEF Chained
<1>1. PICK a \in [Entries -> Arrival] :
        req = [m \in Node |-> IF m[2] = 0 THEN EntryOf(m[1], a[m[1]]) ELSE Absent]
  BY DEF Init
<1>2. Absent.traced = None /\ Absent.phase = "absent"
  BY DEF Absent
<1>3. ASSUME NEW e \in Entries
      PROVE  EntryOf(e, a[e]).traced = None /\ EntryOf(e, a[e]).phase = "sent"
  <2>1. PICK id \in Id, shaken \in Id :
          EntryOf(e, a[e]) = [Sent(a[e].kind, id) EXCEPT !.data = a[e].data, !.handshake = shaken]
    BY Ids DEF EntryOf
  <2>2. Sent(a[e].kind, id).traced = None /\ Sent(a[e].kind, id).phase = "sent"
    BY <1>2, AbsentType DEF Sent, Request
  <2>3. Sent(a[e].kind, id) \in Request
    BY SentType DEF Arrival
  <2> QED BY <2>1, <2>2, <2>3 DEF Request
<1>4. \A m \in Node : /\ req[m].traced = None
                      /\ req[m].phase \in {"absent", "sent"}
                      /\ m[2] # 0 => req[m].phase = "absent"
  <2> TAKE m \in Node
  <2>1. m[1] \in Entries
    BY Nodes
  <2>2. CASE m[2] = 0
    BY <1>1, <1>3, <2>1, <2>2
  <2>3. CASE m[2] # 0
    BY <1>1, <1>2, <2>3
  <2> QED BY <2>2, <2>3
<1>5. req[First(n)].traced = None
  <2>1. First(n) \in Node
    BY Nodes
  <2> QED BY <1>4, <2>1
<1>6. /\ req[n].traced = None
      /\ req[n].phase \in {"absent", "sent"}
      /\ n[2] # 0 => req[n].phase = "absent"
  BY <1>4
<1>7. Traceable(n)
  BY <1>6 DEF Traceable
<1>8. Carries(n)
  BY <1>5 DEF Carries
<1> QED BY <1>7, <1>8

LEMMA ChainedNext == TypeOK /\ Chained /\ [Next]_vars => Chained'
<1> SUFFICES ASSUME TypeOK, Chained, [Next]_vars PROVE Chained'
  OBVIOUS
<1>1. CASE UNCHANGED vars
  BY <1>1 DEF vars, Chained, Traceable, Carries, KeepsId
<1>2. ASSUME NEW n \in Node, Intercept(n) PROVE Chained'
  BY <1>2, InterceptChained
<1>3. ASSUME NEW n \in Node, NEW r, NEW kind \in {"rpc", "mq"}, Calls(n, r, kind) PROVE Chained'
  BY <1>3, CallChained
<1>4. ASSUME NEW n \in Node,
             \/ Mark(n) \/ Catch(n) \/ ConsumerFails(n)
             \/ \E r : Moves(n, r)
             \/ \E x : \E phase \in {"thrown", "marked"} : Throws(n, x, phase)
      PROVE  Chained'
  <2>1. (\A m \in Node : Quiet(m)) /\ UNCHANGED traceFirst
    BY <1>4, QuietSteps
  <2> QED BY <2>1, QuietChained
<1> QED BY <1>1, <1>2, <1>3, <1>4, Steps

LEMMA ChainedAlways == Spec => [](TypeOK /\ Chained)
<1>1. Spec => []Chained
  BY ChainedInit, ChainedNext, TypeCorrect, PTL DEF Spec
<1> QED BY <1>1, TypeCorrect, PTL

(* However long a chain of calls and messages is, one id is on all of it,   *)
(* provided that it came with one or could be written back where it is      *)
(* propagated from (TraceInterceptor, PropagationInterceptor).              *)
THEOREM ChainsKeepTheirId == Spec => []ChainKeepsId
<1>1. Chained => ChainKeepsId
  <2> SUFFICES ASSUME Chained, NEW n \in Node, req[n].traced # None, KeepsId(First(n))
               PROVE  req[n].traced = req[First(n)].traced
    BY DEF ChainKeepsId, First
  <2>1. Traceable(n) /\ Carries(n) /\ (n[2] = 0 => n = First(n))
    BY FirstIsFirst DEF Chained
  <2>2. CASE n[2] = 0
    BY <2>1, <2>2
  <2>3. CASE n[2] # 0
    <3>1. req[First(n)].traced # None
      BY <2>1, <2>3 DEF Traceable
    <3> QED BY <2>1, <3>1 DEF Carries
  <2> QED BY <2>2, <2>3
<1> QED BY <1>1, ChainedAlways, PTL

-----------------------------------------------------------------------------
(* The id in an error's payload.                                           *)

Flying(n) == req[n].phase \in {"thrown", "marked"}

(* Requests being answered for one exception know of each other, and those *)
(* a request shared its exception with are past their interceptors.        *)
Acquainted(n) ==
  /\ \A m \in Node : m # n /\ Flying(n) /\ Flying(m) /\ req[m].error = req[n].error
                       => m \in req[n].sharers
  /\ \A m \in req[n].sharers : m \in Node /\ req[m].phase \notin {"absent", "sent"}

(* A TypeError is the request's own, and thrown by the interceptor only,   *)
(* which sees an EmptyError only as the outer one.                         *)
OwnType(n) ==
  /\ req[n].phase = "thrown" =>
       req[n].error[1] # "type" /\ (req[n].error[1] = "empty" => traceFirst)
  /\ req[n].phase = "marked" /\ req[n].error[1] = "type" => req[n].error = <<"type", n>>

(* The mark of an exception no one shares is the request's; once it was    *)
(* taken off, a meta of its own keeps it, or that of one it was shared with.*)
Marked(n) ==
  req[n].phase = "marked" /\ IsMarked(n) =>
    /\ req[n].sharers = {} => meta[req[n].error] = req[n].traced
    /\ HasOwnMeta(req[n].error) /\ meta[req[n].error] = None =>
         kept[req[n].error[2]] \in {req[m].traced : m \in req[n].sharers \cup {n}}

(* Where the id that a request is shown may come from.                     *)
Sources(n) ==
  IF Keeps(n) THEN {m \in Node : /\ req[m].phase \in {"marked", "failed"}
                                 /\ req[m].error = req[n].error}
              ELSE req[n].sharers \cup {n}

Named(n) ==
  req[n].phase = "failed" /\ req[n].kind # "mq" =>
    /\ req[n].sharers = {} /\ ~Keeps(n) =>
         req[n].shown = IF IsMarked(n) THEN req[n].traced ELSE None
    /\ req[n].shown \in {None} \cup {req[m].traced : m \in Sources(n)}

(* An exception has a mark only while a request it marks is in flight.     *)
Worn(x) ==
  meta[x] # None =>
    /\ x[1] # "type" /\ (x[1] = "empty" => traceFirst)
    /\ \E m \in Node : req[m].phase = "marked" /\ req[m].error = x /\ req[m].traced = meta[x]

(* A meta of its own keeps the id of a request it was thrown in.           *)
Remembers(c) ==
  kept[c] # None =>
    \E m \in Node : /\ req[m].phase \in {"marked", "failed"} /\ req[m].traced = kept[c]
                    /\ req[m].error = <<"constant", c>>

Signed ==
  /\ \A n \in Node : Acquainted(n) /\ OwnType(n) /\ Marked(n) /\ Named(n)
  /\ \A x \in Exceptions : Worn(x)
  /\ \A c \in Constants : Remembers(c)

(* What a step leaves of a request it neither throws in nor answers for.   *)
Calm(n) ==
  \/ req[n].phase = "absent" /\ req'[n].phase = "sent" /\ req'[n].sharers = {}
  \/ /\ req'[n].kind = req[n].kind /\ req'[n].error = req[n].error
     /\ req'[n].sharers = req[n].sharers /\ req'[n].shown = req[n].shown
     /\ req[n].phase # "sent" => req'[n].traced = req[n].traced
     /\ \/ req'[n].phase = req[n].phase
        \/ /\ req[n].phase \in {"sent", "handling", "waiting"}
           /\ req'[n].phase \in {"handling", "waiting", "answered"}

(* What every step leaves: the id a request is traced under, and the error *)
(* of one that is being answered.                                          *)
Steady ==
  /\ UNCHANGED options
  /\ \A m \in Node :
       req[m].phase \notin {"absent", "sent"} =>
         /\ req'[m].traced = req[m].traced
         /\ req[m].phase \in {"marked", "failed"} =>
              req'[m].phase \in {"marked", "failed"} /\ req'[m].error = req[m].error

LEMMA NamedSteady ==
  ASSUME Steady, NEW n \in Node, Acquainted(n), Named(n), req[n].phase = "failed",
         req'[n].kind = req[n].kind, req'[n].sharers = req[n].sharers,
         req'[n].shown = req[n].shown
  PROVE  Named(n)'
<1>1. req'[n].traced = req[n].traced /\ req'[n].error = req[n].error
  BY DEF Steady
<1>2. (IsMarked(n)' <=> IsMarked(n)) /\ (Keeps(n)' <=> Keeps(n))
  BY <1>1 DEF Steady, IsMarked, Keeps, HasOwnMeta
<1>3. \A m \in Sources(n) : m \in Sources(n)' /\ req'[m].traced = req[m].traced
  <2> TAKE m \in Sources(n)
  <2>1. CASE Keeps(n)
    BY <1>1, <1>2, <2>1 DEF Sources, Steady
  <2>2. CASE ~Keeps(n)
    BY <1>2, <2>2 DEF Sources, Steady, Acquainted
  <2> QED BY <2>1, <2>2
<1>4. {req[m].traced : m \in Sources(n)} \subseteq {req'[m].traced : m \in Sources(n)'}
  BY <1>3
<1> HIDE DEF Keeps, IsMarked
<1> QED BY <1>1, <1>2, <1>4 DEF Named

LEMMA RemembersSteady ==
  ASSUME Steady, NEW c \in Constants, Remembers(c), kept'[c] = kept[c]
  PROVE  Remembers(c)'
BY DEF Steady, Remembers

(* A mark that n has or kept is still its own, or that of one it shares    *)
(* its exception with.                                                     *)
LEMMA MarkedSteady ==
  ASSUME Steady, NEW n \in Node, Acquainted(n), Marked(n), req[n].phase = "marked",
         req[n].sharers \subseteq req'[n].sharers,
         meta'[req[n].error] = meta[req[n].error],
         HasOwnMeta(req[n].error) => kept'[req[n].error[2]] = kept[req[n].error[2]]
  PROVE  Marked(n)'
<1>1. req'[n].traced = req[n].traced /\ req'[n].error = req[n].error
  BY DEF Steady
<1>2. (IsMarked(n)' <=> IsMarked(n)) /\ (HasOwnMeta(req[n].error)' <=> HasOwnMeta(req[n].error))
  BY <1>1 DEF Steady, IsMarked, HasOwnMeta
<1>3. \A m \in req[n].sharers \cup {n} :
        m \in req'[n].sharers \cup {n} /\ req'[m].traced = req[m].traced
  BY DEF Steady, Acquainted
<1>4. {req[m].traced : m \in req[n].sharers \cup {n}}
        \subseteq {req'[m].traced : m \in req'[n].sharers \cup {n}}
  BY <1>3
<1> QED BY <1>1, <1>2, <1>4 DEF Marked

LEMMA CalmSigned ==
  ASSUME TypeOK, Signed, UNCHANGED <<options, metas>>, \A n \in Node : Calm(n)
  PROVE  Signed'
<1>0. Steady
  BY DEF Calm, Steady
<1>1. ASSUME NEW n \in Node
      PROVE  Acquainted(n)' /\ OwnType(n)' /\ Marked(n)' /\ Named(n)'
  <2>1. Calm(n) /\ Acquainted(n) /\ OwnType(n) /\ Marked(n) /\ Named(n)
    BY DEF Signed
  <2>2. \A m \in Node : /\ Flying(m)' => Flying(m) /\ req'[m].error = req[m].error
                        /\ req[m].phase \notin {"absent", "sent"} =>
                             /\ req'[m].phase \notin {"absent", "sent"}
                             /\ req'[m].traced = req[m].traced
    BY DEF Calm, Flying
  <2>3. Acquainted(n)'
    <3>1. CASE req'[n].phase = "sent" /\ req'[n].sharers = {}
      BY <3>1 DEF Acquainted, Flying
    <3>2. CASE req'[n].error = req[n].error /\ req'[n].sharers = req[n].sharers
      BY <2>1, <2>2, <3>2 DEF Acquainted
    <3> QED BY <2>1, <3>1, <3>2 DEF Calm
  <2>4. OwnType(n)'
    BY <2>1 DEF OwnType, Calm
  <2>5. Marked(n)'
    <3> SUFFICES ASSUME req'[n].phase = "marked" PROVE Marked(n)'
      BY DEF Marked
    <3>1. req[n].phase = "marked" /\ req'[n].sharers = req[n].sharers
      BY <2>1 DEF Calm
    <3> QED BY <1>0, <2>1, <3>1, MarkedSteady
  <2>6. Named(n)'
    <3> SUFFICES ASSUME req'[n].phase = "failed" PROVE Named(n)'
      BY DEF Named
    <3>1. /\ req[n].phase = "failed" /\ req'[n].kind = req[n].kind
          /\ req'[n].sharers = req[n].sharers /\ req'[n].shown = req[n].shown
      BY <2>1 DEF Calm
    <3> QED BY <1>0, <2>1, <3>1, NamedSteady
  <2> QED BY <2>3, <2>4, <2>5, <2>6
<1>2. ASSUME NEW x \in Exceptions PROVE Worn(x)'
  <2>1. Worn(x)
    BY DEF Signed
  <2>2. \A m \in Node : req[m].phase = "marked" =>
          /\ req'[m].phase = "marked" /\ req'[m].error = req[m].error
          /\ req'[m].traced = req[m].traced
    BY DEF Calm
  <2> QED BY <2>1, <2>2 DEF Worn
<1>3. \A c \in Constants : Remembers(c)'
  BY <1>0, RemembersSteady DEF Signed
<1> QED BY <1>1, <1>2, <1>3 DEF Signed

LEMMA CalmSteps ==
  ASSUME TypeOK, NEW n \in Node, NEW m \in Node,
         \/ Intercept(n)
         \/ \E r : Moves(n, r)
         \/ \E r : \E kind \in {"rpc", "mq"} : Calls(n, r, kind)
  PROVE  Calm(m) /\ UNCHANGED <<options, metas>>
<1>1. CASE Intercept(n)
  <2>1. /\ Intercepted(n).kind = req[n].kind /\ Intercepted(n).phase = "handling"
        /\ Intercepted(n).error = req[n].error /\ Intercepted(n).sharers = req[n].sharers
        /\ Intercepted(n).shown = req[n].shown
    <3>1. req[n] \in Request
      BY DEF TypeOK
    <3>2. PICK traced, carrier :
            Traced(n) = [req[n] EXCEPT !.traced = traced, !.carrier = carrier]
      BY DEF Traced
    <3>3. PICK headers :
            Intercepted(n) = [Traced(n) EXCEPT !.headers = headers, !.phase = "handling"]
      BY DEF Intercepted
    <3>4. /\ Traced(n).kind = req[n].kind /\ Traced(n).error = req[n].error
          /\ Traced(n).sharers = req[n].sharers /\ Traced(n).shown = req[n].shown
          /\ DOMAIN Traced(n) = DOMAIN req[n] /\ "phase" \in DOMAIN req[n]
      BY <3>1, <3>2 DEF Request
    <3> QED BY <3>3, <3>4
  <2> QED BY <1>1, <2>1 DEF Intercept, Calm, TypeOK
<1>2. ASSUME NEW r, Moves(n, r) PROVE Calm(m) /\ UNCHANGED <<options, metas>>
  BY <1>2 DEF Moves, Same, Calm, TypeOK
<1>3. ASSUME NEW r, NEW kind \in {"rpc", "mq"}, Calls(n, r, kind)
      PROVE  Calm(m) /\ UNCHANGED <<options, metas>>
  <2>1. /\ req[Callee(n)].phase = "absent" /\ req'[n] = r
        /\ req'[Callee(n)] = Sent(kind, req[n].headers)
        /\ \A k \in Node : k # n /\ k # Callee(n) => req'[k] = req[k]
    BY <1>3, CallMakes
  <2>2. Sent(kind, req[n].headers).phase = "sent" /\ Sent(kind, req[n].headers).sharers = {}
    BY DEF Sent, Absent
  <2>3. Same(r, req[n]) /\ UNCHANGED <<options, metas>>
    BY <1>3 DEF Calls
  <2> QED BY <2>1, <2>2, <2>3 DEF Same, Calm
<1> QED BY <1>1, <1>2, <1>3

LEMMA ThrowSigned ==
  ASSUME TypeOK, Chained, Signed, NEW n \in Node, NEW x, NEW phase \in {"thrown", "marked"},
         Throws(n, x, phase)
  PROVE  Signed'
<1>1. Thrown(n, x, phase) /\ UNCHANGED <<options, metas>>
  BY ThrowMakes DEF Throws
<1>2. \A m \in Node : req[m] \in Request
  BY DEF TypeOK
<1>3. x[1] # "type" /\ x \in {Primitive} \cup Exceptions /\ (phase = "marked" => x # Primitive)
  BY DEF Throws, Primitive, Exceptions
<1>4. /\ req'[n].phase = phase /\ req'[n].error = x /\ req'[n].sharers = InFlight(x)
      /\ req'[n].traced = req[n].traced
  BY <1>1, <1>2 DEF Thrown, Request
<1>5. ASSUME NEW m \in InFlight(x)
      PROVE  /\ m \in Node /\ m # n
             /\ req'[m].phase = req[m].phase /\ req'[m].error = req[m].error
             /\ req'[m].traced = req[m].traced /\ req'[m].kind = req[m].kind
             /\ req'[m].shown = req[m].shown
             /\ req'[m].sharers = req[m].sharers \cup {n}
  <2>1. m \in Node /\ m # n
    BY <1>1 DEF InFlight, Thrown
  <2>2. req'[m] = [req[m] EXCEPT !.sharers = @ \cup {n}] /\ req[m] \in Request
    BY <1>1, <1>2, <2>1 DEF Thrown
  <2> QED BY <2>1, <2>2 DEF Request
<1>6. \A m \in Node : m # n /\ m \notin InFlight(x) => req'[m] = req[m]
  BY <1>1 DEF Thrown
<1>7. \A m \in Node : /\ req'[m].traced = req[m].traced
                      /\ m # n => req'[m].phase = req[m].phase /\ req'[m].error = req[m].error
  BY <1>4, <1>5, <1>6
<1>8. /\ req[n].phase \notin {"thrown", "marked", "failed", "absent"}
      /\ phase = "thrown" /\ x[1] = "empty" => traceFirst
      /\ phase = "marked" => req[n].phase = "sent" \/ (x[1] = "empty" /\ ~traceFirst)
  BY DEF Throws
<1>0. Steady
  BY <1>1, <1>7, <1>8 DEF Steady
<1>9. ASSUME NEW m \in Node
      PROVE  Acquainted(m)' /\ OwnType(m)' /\ Marked(m)' /\ Named(m)'
  <2>1. Acquainted(m) /\ OwnType(m) /\ Marked(m) /\ Named(m)
    BY DEF Signed
  <2>2. CASE m = n
    <3>1. Acquainted(n)'
      <4>1. \A k \in Node : k # n /\ Flying(k)' /\ req'[k].error = x => k \in InFlight(x)
        BY <1>7 DEF Flying, InFlight
      <4>2. \A k \in InFlight(x) : k \in Node /\ req'[k].phase \notin {"absent", "sent"}
        BY <1>5 DEF InFlight
      <4> QED BY <1>4, <4>1, <4>2 DEF Acquainted
    <3>2. OwnType(n)'
      BY <1>1, <1>3, <1>4, <1>8 DEF OwnType
    <3>3. Marked(n)'
      <4> SUFFICES ASSUME phase = "marked", IsMarked(n)' PROVE FALSE
        BY <1>4 DEF Marked
      <4>1. req[n].phase = "sent" => req[n].traced = None
        BY DEF Chained, Traceable
      <4> QED BY <1>1, <1>4, <1>8, <4>1 DEF IsMarked
    <3>4. Named(n)'
      BY <1>4 DEF Named
    <3> QED BY <2>2, <3>1, <3>2, <3>3, <3>4
  <2>3. CASE m # n /\ m \in InFlight(x)
    <3>1. /\ req'[m].phase = req[m].phase /\ req'[m].error = x /\ req[m].error = x
          /\ req'[m].sharers = req[m].sharers \cup {n} /\ req[m].phase \in {"thrown", "marked"}
      BY <1>5, <2>3 DEF InFlight
    <3>2. Acquainted(m)'
      <4>1. \A k \in Node : k # m /\ k # n /\ Flying(k)' /\ req'[k].error = x
                            => k \in req[m].sharers
        BY <1>7, <2>1, <3>1 DEF Acquainted, Flying
      <4>2. \A k \in req[m].sharers \cup {n} : k \in Node /\ req'[k].phase \notin {"absent", "sent"}
        BY <1>4, <1>7, <2>1 DEF Acquainted
      <4> QED BY <3>1, <4>1, <4>2 DEF Acquainted
    <3>3. OwnType(m)' /\ Named(m)'
      BY <1>1, <1>3, <2>1, <3>1 DEF OwnType, Named
    <3>4. Marked(m)'
      <4>1. CASE req[m].phase = "marked"
        BY <1>0, <1>1, <2>1, <3>1, <4>1, MarkedSteady
      <4>2. CASE req[m].phase # "marked"
        BY <3>1, <4>2 DEF Marked
      <4> QED BY <4>1, <4>2
    <3> QED BY <3>2, <3>3, <3>4
  <2>4. CASE m # n /\ m \notin InFlight(x)
    <3>1. req'[m] = req[m]
      BY <1>6, <2>4
    <3>2. Acquainted(m)'
      <4>1. \A k \in Node : k # m /\ Flying(m) /\ Flying(k)' /\ req'[k].error = req[m].error
                            => k \in req[m].sharers
        <5> SUFFICES ASSUME NEW k \in Node, k # m, Flying(m), Flying(k)',
                            req'[k].error = req[m].error
                     PROVE  k \in req[m].sharers
          OBVIOUS
        <5>1. k # n
          BY <1>4, <2>4 DEF Flying, InFlight
        <5>2. Flying(k) /\ req[k].error = req[m].error
          BY <1>7, <5>1 DEF Flying
        <5> QED BY <2>1, <5>2 DEF Acquainted
      <4>2. \A k \in req[m].sharers : k \in Node /\ req'[k].phase \notin {"absent", "sent"}
        BY <1>4, <1>7, <2>1 DEF Acquainted
      <4> QED BY <3>1, <4>1, <4>2 DEF Acquainted, Flying
    <3>3. OwnType(m)'
      BY <1>1, <2>1, <3>1 DEF OwnType
    <3>4. Marked(m)'
      <4>1. CASE req[m].phase = "marked"
        BY <1>0, <1>1, <2>1, <3>1, <4>1, MarkedSteady
      <4>2. CASE req[m].phase # "marked"
        BY <3>1, <4>2 DEF Marked
      <4> QED BY <4>1, <4>2
    <3>5. Named(m)'
      <4>1. CASE req[m].phase = "failed"
        BY <1>0, <2>1, <3>1, <4>1, NamedSteady
      <4>2. CASE req[m].phase # "failed"
        BY <3>1, <4>2 DEF Named
      <4> QED BY <4>1, <4>2
    <3> QED BY <3>2, <3>3, <3>4, <3>5
  <2> QED BY <2>2, <2>3, <2>4
<1>10. ASSUME NEW y \in Exceptions PROVE Worn(y)'
  <2>1. Worn(y)
    BY DEF Signed
  <2> QED BY <1>1, <1>7, <1>8, <2>1 DEF Worn
<1>11. \A c \in Constants : Remembers(c)'
  BY <1>0, <1>1, RemembersSteady DEF Signed
<1> QED BY <1>9, <1>10, <1>11 DEF Signed

(* Only n changes, and it does not leave the answered for the unanswered.  *)
Alone(n) ==
  /\ \A m \in Node : m # n => req'[m] = req[m]
  /\ req[n].phase \in {"thrown", "marked"} /\ req'[n].phase \in {"marked", "failed"}
  /\ req'[n].traced = req[n].traced /\ req'[n].kind = req[n].kind
  /\ req[n].phase = "marked" => req'[n].error = req[n].error
  /\ UNCHANGED options

LEMMA AloneOthers ==
  ASSUME Signed, NEW n \in Node, Alone(n), NEW m \in Node, m # n,
         \/ req'[n].phase = "failed"
         \/ req'[n].error = req[n].error
         \/ req'[n].error = <<"type", n>>
  PROVE  Steady /\ Acquainted(m)' /\ OwnType(m)' /\ Named(m)'
<1>0. Steady
  BY DEF Alone, Steady
<1>1. Acquainted(m) /\ OwnType(m) /\ Named(m) /\ req'[m] = req[m]
  BY DEF Signed, Alone
<1>2. \A k \in req[m].sharers : /\ k \in Node /\ req'[k].phase \notin {"absent", "sent"}
                                /\ req'[k].traced = req[k].traced
  BY <1>1 DEF Acquainted, Alone
<1>3. ASSUME NEW k \in Node, k # m, Flying(m), Flying(k)', req'[k].error = req[m].error
      PROVE  k \in req[m].sharers
  <2>1. Flying(k) /\ req[k].error = req[m].error
    <3>1. CASE k # n
      BY <1>3, <3>1 DEF Alone, Flying
    <3>2. CASE k = n
      <4>1. req'[n].error # <<"type", n>>
        <5> SUFFICES ASSUME req[m].error = <<"type", n>> PROVE FALSE
          BY <1>3, <3>2
        <5>1. <<"type", n>>[1] = "type" /\ <<"type", n>> # <<"type", m>>
          OBVIOUS
        <5> QED BY <1>1, <1>3, <5>1 DEF OwnType, Flying
      <4> QED BY <1>3, <3>2, <4>1 DEF Alone, Flying
    <3> QED BY <3>1, <3>2
  <2> QED BY <1>1, <1>3, <2>1 DEF Acquainted
<1>4. Acquainted(m)'
  BY <1>1, <1>2, <1>3 DEF Acquainted, Flying
<1>5. OwnType(m)'
  BY <1>1 DEF OwnType, Alone
<1>6. Named(m)'
  <2>1. CASE req[m].phase = "failed"
    BY <1>0, <1>1, <2>1, NamedSteady
  <2>2. CASE req[m].phase # "failed"
    BY <1>1, <2>2 DEF Named
  <2> QED BY <2>1, <2>2
<1> QED BY <1>0, <1>4, <1>5, <1>6

(* Marks and metas of other exceptions than the one at hand stay.          *)
LEMMA AloneMarked ==
  ASSUME TypeOK, Signed, Steady, NEW n \in Node, Alone(n), NEW m \in Node, m # n, NEW x,
         req[m].error # x,
         \A y \in Exceptions : y # x => meta'[y] = meta[y],
         \A c \in Constants : x # <<"constant", c>> => kept'[c] = kept[c]
  PROVE  Marked(m)'
<1>1. Acquainted(m) /\ Marked(m) /\ req'[m] = req[m]
  BY DEF Signed, Alone
<1>2. CASE req[m].phase = "marked"
  <2>1. req[m].error \in Exceptions
    BY <1>2 DEF TypeOK, Pointed
  <2>2. HasOwnMeta(req[m].error) => kept'[req[m].error[2]] = kept[req[m].error[2]]
    BY <2>1, ToldType
  <2> QED BY <1>1, <1>2, <2>1, <2>2, MarkedSteady
<1>3. CASE req[m].phase # "marked"
  BY <1>1, <1>3 DEF Marked
<1> QED BY <1>2, <1>3

LEMMA MarkSigned ==
  ASSUME TypeOK, Chained, Signed, NEW n \in Node, Mark(n)
  PROVE  Signed'
<1>1. req[n] \in Request /\ req[n].phase = "thrown" /\ Pointed(req[n])
  BY DEF TypeOK, Mark
<1>2. Acquainted(n) /\ OwnType(n)
  BY DEF Signed
<1>3. CASE req[n].error = Primitive
  <2>1. /\ req'[n].phase = "marked" /\ req'[n].error = <<"type", n>> /\ req'[n].sharers = {}
        /\ req'[n].traced = req[n].traced /\ req'[n].kind = req[n].kind
        /\ \A m \in Node : m # n => req'[m] = req[m]
        /\ UNCHANGED <<options, metas>>
    <3> DEFINE r == [req[n] EXCEPT !.phase = "marked", !.error = <<"type", n>>, !.sharers = {}]
    <3>1. req' = [req EXCEPT ![n] = r] /\ UNCHANGED <<options, metas>>
      BY <1>3 DEF Mark
    <3>2. /\ r.phase = "marked" /\ r.error = <<"type", n>> /\ r.sharers = {}
          /\ r.traced = req[n].traced /\ r.kind = req[n].kind
      BY <1>1 DEF Request
    <3> HIDE DEF r
    <3> QED BY <3>1, <3>2 DEF TypeOK
  <2>2. Alone(n) /\ Steady
    BY <1>1, <2>1 DEF Alone, Steady
  <2>3. Acquainted(n)'
    <3> SUFFICES ASSUME NEW m \in Node, m # n, Flying(m)', req'[m].error = <<"type", n>>
                 PROVE  FALSE
      BY <2>1 DEF Acquainted
    <3>1. OwnType(m) /\ Flying(m) /\ req[m].error = <<"type", n>>
      BY <2>1 DEF Signed, Flying
    <3>2. <<"type", n>>[1] = "type" /\ <<"type", n>> # <<"type", m>>
      OBVIOUS
    <3> QED BY <3>1, <3>2 DEF OwnType, Flying
  <2>4. OwnType(n)' /\ Marked(n)' /\ Named(n)'
    <3>1. <<"type", n>>[1] = "type"
      OBVIOUS
    <3> QED BY <2>1, <3>1 DEF OwnType, Marked, IsMarked, Named
  <2>5. ASSUME NEW m \in Node, m # n
        PROVE  Acquainted(m)' /\ OwnType(m)' /\ Marked(m)' /\ Named(m)'
    <3>1. Marked(m)'
      <4>1. CASE req[m].phase = "marked"
        BY <2>1, <2>2, <2>5, <4>1, MarkedSteady DEF Signed
      <4>2. CASE req[m].phase # "marked"
        BY <2>1, <2>5, <4>2 DEF Marked
      <4> QED BY <4>1, <4>2
    <3> QED BY <2>1, <2>2, <2>5, <3>1, AloneOthers
  <2>6. ASSUME NEW x \in Exceptions PROVE Worn(x)'
    BY <1>1, <2>1 DEF Signed, Worn
  <2>7. \A c \in Constants : Remembers(c)'
    BY <2>1, <2>2, RemembersSteady DEF Signed
  <2> QED BY <2>3, <2>4, <2>5, <2>6, <2>7 DEF Signed
<1>4. CASE req[n].error # Primitive
  <2> DEFINE x == req[n].error
  <2>1. /\ req'[n].phase = "marked" /\ req'[n].error = x
        /\ req'[n].sharers = req[n].sharers
        /\ req'[n].traced = req[n].traced /\ req'[n].kind = req[n].kind
        /\ \A m \in Node : m # n => req'[m] = req[m]
        /\ UNCHANGED <<options, kept>>
    <3> DEFINE r == [req[n] EXCEPT !.phase = "marked"]
    <3>1. req' = [req EXCEPT ![n] = r] /\ UNCHANGED <<options, kept>>
      BY <1>4 DEF Mark
    <3>2. /\ r.phase = "marked" /\ r.error = x /\ r.sharers = req[n].sharers
          /\ r.traced = req[n].traced /\ r.kind = req[n].kind
      BY <1>1 DEF Request
    <3> HIDE DEF r
    <3> QED BY <3>1, <3>2 DEF TypeOK
  <2>2. x \in Exceptions /\ x[1] # "type" /\ (x[1] = "empty" => traceFirst)
    BY <1>1, <1>2, <1>4 DEF Pointed, OwnType
  <2>3. meta'[x] = req[n].traced /\ \A y \in Exceptions : y # x => meta'[y] = meta[y]
    BY <1>4, <2>2 DEF Mark, TypeOK
  <2>4. Alone(n) /\ Steady
    BY <1>1, <2>1 DEF Alone, Steady
  <2> HIDE DEF x
  <2>5. Acquainted(n)'
    <3>1. \A m \in Node : m # n /\ Flying(m)' => Flying(m) /\ req'[m].error = req[m].error
      BY <2>1 DEF Flying
    <3>2. Flying(n) /\ req'[n].error = req[n].error
      BY <1>1, <2>1 DEF Flying, x
    <3>3. \A m \in req[n].sharers : m \in Node /\ req'[m].phase \notin {"absent", "sent"}
      BY <1>2, <2>1 DEF Acquainted
    <3> QED BY <1>2, <2>1, <3>1, <3>2, <3>3 DEF Acquainted
  <2>6. OwnType(n)' /\ Marked(n)' /\ Named(n)'
    BY <2>1, <2>2, <2>3 DEF OwnType, Marked, IsMarked, Named
  <2>7. ASSUME NEW m \in Node, m # n
        PROVE  Acquainted(m)' /\ OwnType(m)' /\ Marked(m)' /\ Named(m)'
    <3>1. Acquainted(m)' /\ OwnType(m)' /\ Named(m)'
      BY <2>1, <2>4, <2>7, AloneOthers DEF x
    <3>2. Marked(m)'
      <4>1. CASE req[m].error # x
        BY <2>1, <2>3, <2>4, <2>7, <4>1, AloneMarked
      <4>2. CASE req[m].error = x /\ req[m].phase = "marked"
        <5>1. n \in req[m].sharers
          BY <1>1, <2>7, <4>2 DEF Signed, Acquainted, Flying, x
        <5>2. meta'[req'[m].error] # None
          BY <1>1, <2>1, <2>3, <2>7, <4>2 DEF Chained, Traceable
        <5> QED BY <2>1, <2>7, <5>1, <5>2 DEF Marked
      <4>3. CASE req[m].phase # "marked"
        BY <2>1, <2>7, <4>3 DEF Marked
      <4> QED BY <4>1, <4>2, <4>3
    <3> QED BY <3>1, <3>2
  <2>8. ASSUME NEW y \in Exceptions PROVE Worn(y)'
    <3>1. CASE y = x
      BY <2>1, <2>2, <2>3, <3>1 DEF Worn
    <3>2. CASE y # x
      <4>1. \A m \in Node : req[m].phase = "marked" => req'[m] = req[m]
        BY <1>1, <2>1
      <4> QED BY <2>1, <2>3, <3>2, <4>1 DEF Signed, Worn
    <3> QED BY <3>1, <3>2
  <2>9. \A c \in Constants : Remembers(c)'
    BY <2>1, <2>4, RemembersSteady DEF Signed
  <2> QED BY <2>5, <2>6, <2>7, <2>8, <2>9 DEF Signed
<1> QED BY <1>3, <1>4

(* What the filter shows is the request's own id, or that of one which     *)
(* could be taken for it.                                                  *)
LEMMA ToldNames ==
  ASSUME TypeOK, Signed, NEW n \in Node, req[n].phase = "marked", NEW x, x = req[n].error
  PROVE  /\ req[n].sharers = {} /\ ~Keeps(n) =>
              Told(x) = IF IsMarked(n) THEN req[n].traced ELSE None
         /\ Told(x) \in {None} \cup {req[m].traced : m \in Sources(n)}
<1>1. x \in Exceptions /\ Worn(x) /\ Acquainted(n) /\ Marked(n)
  BY DEF TypeOK, Pointed, Signed
<1>2. ASSUME meta[x] # None
      PROVE  \E m \in Sources(n) : req[m].traced = meta[x]
  <2>1. PICK m \in Node : req[m].phase = "marked" /\ req[m].error = x /\ req[m].traced = meta[x]
    BY <1>1, <1>2 DEF Worn
  <2>2. m \in req[n].sharers \cup {n}
    BY <1>1, <2>1 DEF Acquainted, Flying
  <2> QED BY <2>1, <2>2 DEF Sources
<1>3. ASSUME ~IsMarked(n), req[n].sharers = {} PROVE meta[x] = None
  <2> SUFFICES ASSUME meta[x] # None PROVE FALSE
    OBVIOUS
  <2>1. PICK m \in Node : req[m].phase = "marked" /\ req[m].error = x /\ req[m].traced = meta[x]
    BY <1>1 DEF Worn
  <2>2. m = n
    BY <1>1, <1>3, <2>1 DEF Acquainted, Flying
  <2> QED BY <1>1, <1>3, <2>1, <2>2 DEF Worn, IsMarked
<1>4. ~HasOwnMeta(x) => Kept(x) = None
  BY DEF Kept
<1>5. ASSUME req[n].sharers = {}, ~Keeps(n)
      PROVE  Told(x) = IF IsMarked(n) THEN req[n].traced ELSE None
  <2>1. CASE IsMarked(n)
    BY <1>1, <1>5, <2>1 DEF Marked, Told, IsMarked
  <2>2. CASE ~IsMarked(n)
    BY <1>3, <1>4, <1>5, <2>2 DEF Keeps, Told
  <2> QED BY <2>1, <2>2
<1>6. Told(x) \in {None} \cup {req[m].traced : m \in Sources(n)}
  <2>1. CASE meta[x] # None
    BY <1>2, <2>1 DEF Told
  <2>2. CASE meta[x] = None /\ ~HasOwnMeta(x)
    BY <1>4, <2>2 DEF Told
  <2>3. CASE meta[x] = None /\ HasOwnMeta(x) /\ IsMarked(n)
    BY <1>1, <2>3 DEF Told, Kept, Marked, Sources, Keeps
  <2>4. CASE meta[x] = None /\ HasOwnMeta(x) /\ ~IsMarked(n)
    <3>1. x = <<"constant", x[2]>> /\ x[2] \in Constants /\ Told(x) = kept[x[2]]
      BY <1>1, <2>4, ToldType DEF Told, Kept
    <3>2. Remembers(x[2]) /\ Keeps(n)
      BY <2>4, <3>1 DEF Signed, Keeps
    <3>3. CASE kept[x[2]] # None
      <4>1. PICK m \in Node : /\ req[m].phase \in {"marked", "failed"} /\ req[m].traced = kept[x[2]]
                              /\ req[m].error = x
        BY <3>1, <3>2, <3>3 DEF Remembers
      <4>2. m \in Sources(n)
        BY <3>2, <4>1 DEF Sources
      <4> QED BY <3>1, <4>1, <4>2
    <3> QED BY <3>1, <3>3
  <2> QED BY <2>1, <2>2, <2>3, <2>4
<1> QED BY <1>5, <1>6

LEMMA FailureSigned ==
  ASSUME TypeOK, Signed, NEW n \in Node, Catch(n) \/ ConsumerFails(n)
  PROVE  Signed'
<1> DEFINE x == req[n].error
<1>1. req[n] \in Request /\ Pointed(req[n]) /\ req[n].phase \in {"thrown", "marked"}
  BY DEF TypeOK, Catch, ConsumerFails
<1>2. /\ req'[n].phase = "failed" /\ req'[n].error = x
      /\ req'[n].sharers = req[n].sharers
      /\ req'[n].traced = req[n].traced /\ req'[n].kind = req[n].kind
      /\ Catch(n) => req'[n].shown = Told(x)
      /\ \A m \in Node : m # n => req'[m] = req[m]
      /\ UNCHANGED options
  <2>1. CASE Catch(n)
    <3> DEFINE r == [req[n] EXCEPT !.phase = "failed", !.shown = Told(req[n].error)]
    <3>1. req' = [req EXCEPT ![n] = r] /\ UNCHANGED options
      BY <2>1 DEF Catch, Told
    <3>2. /\ r.phase = "failed" /\ r.error = x /\ r.sharers = req[n].sharers
          /\ r.traced = req[n].traced /\ r.kind = req[n].kind /\ r.shown = Told(x)
      BY <1>1 DEF Request
    <3> HIDE DEF r
    <3> QED BY <3>1, <3>2 DEF TypeOK
  <2>2. CASE ConsumerFails(n) /\ ~Catch(n)
    <3> DEFINE r == [req[n] EXCEPT !.phase = "failed"]
    <3>1. req' = [req EXCEPT ![n] = r] /\ UNCHANGED options
      BY <2>2 DEF ConsumerFails
    <3>2. /\ r.phase = "failed" /\ r.error = x /\ r.sharers = req[n].sharers
          /\ r.traced = req[n].traced /\ r.kind = req[n].kind
      BY <1>1 DEF Request
    <3> HIDE DEF r
    <3> QED BY <2>2, <3>1, <3>2 DEF TypeOK
  <2> QED BY <2>1, <2>2
<1>3. /\ Catch(n) => x \in Exceptions /\ req[n].phase = "marked"
      /\ Catch(n) => /\ meta' = [meta EXCEPT ![x] = None]
                     /\ \A c \in Constants :
                          kept'[c] = IF HasOwnMeta(x) /\ x = <<"constant", c>> THEN Told(x) ELSE kept[c]
      /\ ConsumerFails(n) => UNCHANGED metas
  <2>1. Catch(n) => x \in Exceptions /\ req[n].phase = "marked"
    BY <1>1 DEF Catch, Pointed
  <2> QED BY <2>1, CatchMakes DEF ConsumerFails
<1>4. Alone(n) /\ Steady
  BY <1>1, <1>2 DEF Alone, Steady
<1>5. Acquainted(n)
  BY DEF Signed
<1>6. Acquainted(n)' /\ OwnType(n)' /\ Marked(n)'
  <2>1. Acquainted(n)'
    BY <1>2, <1>5 DEF Acquainted, Flying
  <2> QED BY <1>2, <2>1 DEF OwnType, Marked
<1>7. Named(n)'
  <2>1. CASE Catch(n)
    <3>1. /\ req[n].sharers = {} /\ ~Keeps(n) =>
               Told(x) = IF IsMarked(n) THEN req[n].traced ELSE None
          /\ Told(x) \in {None} \cup {req[m].traced : m \in Sources(n)}
      BY <1>3, <2>1, ToldNames
    <3>2. (IsMarked(n)' <=> IsMarked(n)) /\ (Keeps(n)' <=> Keeps(n))
      BY <1>2 DEF IsMarked, Keeps, HasOwnMeta
    <3>3. \A m \in Sources(n) : m \in Sources(n)' /\ req'[m].traced = req[m].traced
      BY <1>2, <1>4, <1>5, <3>2 DEF Sources, Steady, Acquainted
    <3>4. {req[m].traced : m \in Sources(n)} \subseteq {req'[m].traced : m \in Sources(n)'}
      BY <3>3
    <3> HIDE DEF x
    <3> QED BY <1>2, <2>1, <3>1, <3>2, <3>4 DEF Named
  <2>2. CASE ConsumerFails(n)
    BY <1>2, <2>2 DEF Named, ConsumerFails
  <2> QED BY <2>1, <2>2
<1>8. ASSUME NEW m \in Node, m # n
      PROVE  Acquainted(m)' /\ OwnType(m)' /\ Marked(m)' /\ Named(m)'
  <2>1. Acquainted(m)' /\ OwnType(m)' /\ Named(m)'
    BY <1>2, <1>4, <1>8, AloneOthers
  <2>2. Marked(m)'
    <3>1. CASE req[m].error # x
      <4>1. \A y \in Exceptions : y # x => meta'[y] = meta[y]
        BY <1>3 DEF TypeOK
      <4>2. \A c \in Constants : x # <<"constant", c>> => kept'[c] = kept[c]
        BY <1>3
      <4> HIDE DEF x
      <4> QED BY <1>4, <1>8, <3>1, <4>1, <4>2, AloneMarked
    <3>2. CASE req[m].phase # "marked"
      BY <1>2, <1>8, <3>2 DEF Marked
    <3>3. CASE req[m].error = x /\ req[m].phase = "marked" /\ ConsumerFails(n)
      BY <1>2, <1>3, <1>4, <1>8, <3>3, MarkedSteady DEF Signed
    <3>4. CASE req[m].error = x /\ req[m].phase = "marked" /\ Catch(n)
      <4>1. req'[m] = req[m] /\ Acquainted(m) /\ Marked(m) /\ n \in req[m].sharers
        BY <1>1, <1>2, <1>8, <3>4 DEF Signed, Acquainted, Flying
      <4> SUFFICES ASSUME IsMarked(m)', HasOwnMeta(x)
                   PROVE  kept'[x[2]] \in {req'[k].traced : k \in req[m].sharers \cup {m}}
        BY <1>2, <3>4, <4>1 DEF Marked, HasOwnMeta
      <4>2. IsMarked(m)
        BY <1>2, <4>1 DEF IsMarked
      <4>3. kept'[x[2]] = Told(x) /\ x[2] \in Constants
        BY <1>3, <3>4, ToldType
      <4>4. Told(x) \in {req[k].traced : k \in req[m].sharers \cup {m}}
        <5>1. CASE meta[x] # None
          <6>1. PICK k \in Node : /\ req[k].phase = "marked" /\ req[k].error = x
                                  /\ req[k].traced = meta[x]
            BY <1>3, <3>4, <5>1 DEF Signed, Worn
          <6>2. k \in req[m].sharers \cup {m}
            BY <3>4, <4>1, <6>1 DEF Acquainted, Flying
          <6> QED BY <5>1, <6>1, <6>2 DEF Told
        <5>2. CASE meta[x] = None
          BY <3>4, <4>1, <4>2, <5>2 DEF Told, Kept, Marked
        <5> QED BY <5>1, <5>2
      <4>5. \A k \in req[m].sharers \cup {m} : req'[k].traced = req[k].traced
        BY <1>4, <3>4, <4>1 DEF Steady, Acquainted
      <4> QED BY <4>3, <4>4, <4>5
    <3> QED BY <3>1, <3>2, <3>3, <3>4
  <2> QED BY <2>1, <2>2
<1>9. ASSUME NEW y \in Exceptions PROVE Worn(y)'
  <2>1. Worn(y)
    BY DEF Signed
  <2>2. CASE Catch(n)
    <3>1. CASE y = x
      BY <1>3, <2>2, <3>1 DEF Worn, TypeOK
    <3>2. CASE y # x
      BY <1>2, <1>3, <2>1, <2>2, <3>2 DEF Worn, TypeOK
    <3> QED BY <3>1, <3>2
  <2>3. CASE ConsumerFails(n)
    <3>1. \A m \in Node : req[m].phase = "marked" => req'[m] = req[m]
      BY <1>2, <2>3 DEF ConsumerFails
    <3> QED BY <1>2, <1>3, <2>1, <2>3, <3>1 DEF Worn
  <2> QED BY <2>2, <2>3
<1>10. ASSUME NEW c \in Constants PROVE Remembers(c)'
  <2>1. CASE kept'[c] = kept[c]
    BY <1>4, <2>1, RemembersSteady DEF Signed
  <2>2. CASE Catch(n) /\ x = <<"constant", c>> /\ HasOwnMeta(x) /\ kept'[c] = Told(x)
    <3>1. CASE meta[x] # None
      <4>1. PICK m \in Node : req[m].phase = "marked" /\ req[m].error = x /\ req[m].traced = meta[x]
        BY <1>3, <2>2, <3>1 DEF Signed, Worn
      <4> QED BY <1>4, <2>2, <3>1, <4>1 DEF Told, Steady, Remembers
    <3>2. CASE meta[x] = None
      <4>1. kept'[c] = kept[c]
        BY <2>2, <3>2 DEF Told, Kept
      <4> QED BY <2>1, <4>1
    <3> QED BY <3>1, <3>2
  <2> QED BY <1>3, <2>1, <2>2
<1> QED BY <1>6, <1>7, <1>8, <1>9, <1>10 DEF Signed

LEMMA SignedInit == Init => Signed
<1> SUFFICES ASSUME Init PROVE Signed
  OBVIOUS
<1>1. PICK a \in [Entries -> Arrival] :
        req = [m \in Node |-> IF m[2] = 0 THEN EntryOf(m[1], a[m[1]]) ELSE Absent]
  BY DEF Init
<1>2. ASSUME NEW e \in Entries
      PROVE  EntryOf(e, a[e]).phase = "sent" /\ EntryOf(e, a[e]).sharers = {}
  <2>1. PICK id \in Id, shaken \in Id :
          EntryOf(e, a[e]) = [Sent(a[e].kind, id) EXCEPT !.data = a[e].data, !.handshake = shaken]
    BY Ids DEF EntryOf
  <2>2. Sent(a[e].kind, id).sharers = {} /\ Sent(a[e].kind, id).phase = "sent"
    BY DEF Sent, Absent
  <2>3. Sent(a[e].kind, id) \in Request
    BY SentType DEF Arrival
  <2> QED BY <2>1, <2>2, <2>3 DEF Request
<1>3. \A m \in Node : req[m].phase \in {"absent", "sent"} /\ req[m].sharers = {}
  <2> TAKE m \in Node
  <2>1. m[1] \in Entries
    BY Nodes
  <2>2. Absent.phase = "absent" /\ Absent.sharers = {}
    BY DEF Absent
  <2> QED BY <1>1, <1>2, <2>1, <2>2
<1>4. \A n \in Node : Acquainted(n) /\ OwnType(n) /\ Marked(n) /\ Named(n)
  BY <1>3 DEF Acquainted, OwnType, Marked, Named, Flying
<1>5. \A x \in Exceptions : Worn(x)
  BY DEF Worn, Init
<1>6. \A c \in Constants : Remembers(c)
  BY DEF Remembers, Init
<1> QED BY <1>4, <1>5, <1>6 DEF Signed

LEMMA SignedNext == TypeOK /\ Chained /\ Signed /\ [Next]_vars => Signed'
<1> SUFFICES ASSUME TypeOK, Chained, Signed, [Next]_vars PROVE Signed'
  OBVIOUS
<1>1. CASE UNCHANGED vars
  <2>1. UNCHANGED <<options, metas>> /\ \A m \in Node : Calm(m)
    BY <1>1 DEF vars, Calm
  <2> QED BY <2>1, CalmSigned
<1>2. ASSUME NEW n \in Node,
             \/ Intercept(n)
             \/ \E r : Moves(n, r)
             \/ \E r : \E kind \in {"rpc", "mq"} : Calls(n, r, kind)
      PROVE  Signed'
  <2>1. (\A m \in Node : Calm(m)) /\ UNCHANGED <<options, metas>>
    BY <1>2, CalmSteps
  <2> QED BY <2>1, CalmSigned
<1>3. ASSUME NEW n \in Node, NEW x, NEW phase \in {"thrown", "marked"}, Throws(n, x, phase)
      PROVE  Signed'
  BY <1>3, ThrowSigned
<1>4. ASSUME NEW n \in Node, Mark(n) \/ Catch(n) \/ ConsumerFails(n) PROVE Signed'
  BY <1>4, MarkSigned, FailureSigned
<1> QED BY <1>1, <1>2, <1>3, <1>4, Steps

(* An error's payload names the request it answers, or one that was answered *)
(* for the same exception at that moment, or, where nothing marked what was  *)
(* thrown and it has a meta of its own, an earlier one; however many requests *)
(* throw however many shared exceptions (TraceInterceptor,                   *)
(* StandardExceptionFilter).                                                 *)
THEOREM ErrorsNameTheirRequest == Spec => []ErrorNamesRequest
<1>1. Spec => []Signed
  BY SignedInit, SignedNext, ChainedAlways, PTL DEF Spec
<1>2. Signed => ErrorNamesRequest
  <2> SUFFICES ASSUME Signed, NEW n \in Node, req[n].phase = "failed", req[n].kind # "mq"
               PROVE  LET others == IF Keeps(n) THEN {m \in Node : req[m].error = req[n].error}
                                                ELSE req[n].sharers
                      IN /\ req[n].sharers = {} /\ ~Keeps(n) =>
                              req[n].shown = IF IsMarked(n) THEN req[n].traced ELSE None
                         /\ req[n].shown \in {None} \cup {req[m].traced : m \in others \cup {n}}
    BY DEF ErrorNamesRequest
  <2> DEFINE others == IF Keeps(n) THEN {m \in Node : req[m].error = req[n].error}
                                   ELSE req[n].sharers
  <2>1. Sources(n) \subseteq others \cup {n}
    BY DEF Sources
  <2>2. Named(n)
    BY DEF Signed
  <2> HIDE DEF others
  <2>3. {req[m].traced : m \in Sources(n)} \subseteq {req[m].traced : m \in others \cup {n}}
    BY <2>1
  <2>4. /\ req[n].sharers = {} /\ ~Keeps(n) =>
             req[n].shown = IF IsMarked(n) THEN req[n].traced ELSE None
        /\ req[n].shown \in {None} \cup {req[m].traced : m \in others \cup {n}}
    BY <2>2, <2>3 DEF Named
  <2> QED BY <2>4 DEF others
<1> QED BY <1>1, <1>2, PTL
=============================================================================
