--------------------------- MODULE RabbitMQProofs ---------------------------
(***************************************************************************)
(* What RabbitMQ keeps for every set of pods, messages and setups, every   *)
(* chain of messages, and any number of lost connections and of processes    *)
(* that end.                                                               *)
(***************************************************************************)
EXTENDS RabbitMQ, FiniteSetTheorems, TLAPS

Stages == {"delivered", "unpacking", "handling", "failed", "threw"}
Run == [msg : Messages, pod : Pods, live : BOOLEAN, stage : Stages, layers : Nat,
        body : {"deflated", "plain"}]

TypeOK ==
  /\ strategy \in {"requeue", "canaryQueue"} /\ onError \in BOOLEAN
  /\ wraps \in [Pods -> 0..Setups]
  /\ consumers \in [Pods -> [1..Setups -> 0..Setups]]
  /\ publish \in [Messages -> {"idle", "packing", "rejected", "sent"}]
  /\ publisher \in [Messages -> Pods \cup {None}]
  /\ headers \in [Messages -> Headers]
  /\ place \in [Messages -> {"none", "queued", "unacked", "acked"}]
  /\ runs \subseteq Run
  /\ \A run \in runs : run.stage \in {"delivered", "unpacking"} => HasLayer(run)
  /\ handled \subseteq Messages \X Pods
  /\ events \in 0..MaxEvents

-----------------------------------------------------------------------------
(* The kinds of steps: what they do to messages, and to callbacks.         *)

Channels ==
  UNCHANGED <<options, publish, publisher, headers, place, runs, handled>>

(* m comes further on its way to the queue, and no other message does.     *)
Publishes(m) ==
  /\ \A n \in Messages : n # m => /\ publish'[n] = publish[n] /\ publisher'[n] = publisher[n]
                                  /\ headers'[n] = headers[n] /\ place'[n] = place[n]
  /\ UNCHANGED <<options, runs, handled>>
  /\ \/ /\ publish[m] = "idle" /\ publish'[m] = "packing" /\ place'[m] = place[m]
        /\ \/ Follows[m] = None
           \/ \E run \in runs : /\ Follows[m] = run.msg /\ run.stage = "handling"
                                /\ publisher'[m] = run.pod
     \/ /\ publish[m] = "idle" /\ publish'[m] = "sent" /\ place'[m] = "queued"
        /\ Follows[m] = None
     \/ /\ publish[m] = "packing" /\ publish'[m] = "sent" /\ place'[m] = "queued"
        /\ publisher'[m] = publisher[m]
        /\ Follows[m] # None => headers'[m] = headers[Follows[m]]
     \/ publish[m] = "packing" /\ publish'[m] = "rejected" /\ place'[m] = place[m]

(* A callback goes on: what it may become.                                 *)
Goes(run, next) ==
  /\ next.msg = run.msg /\ next.pod = run.pod /\ next.live = run.live
  /\ next.layers \in Nat /\ next.body \in {"deflated", "plain"}
  /\ \/ /\ run.stage = "delivered" /\ next.stage = "unpacking"
        /\ HasHeaders(run.msg) /\ ~ForSomeoneElse(run)
        /\ next.layers = run.layers /\ next.body = run.body
     \/ run.stage = "delivered" /\ next.stage = "failed" /\ ~HasHeaders(run.msg)
     \/ run.stage = "unpacking" /\ next = Passed(Inflate(run))
     \/ run.stage = "handling" /\ next.stage = "threw"

Advances(run, next) ==
  /\ Goes(run, next) /\ next \in Run
  /\ runs' = (runs \ {run}) \cup {next}
  /\ handled' = handled \cup IF next.stage = "handling" THEN {<<run.msg, run.pod>>} ELSE {}
  /\ UNCHANGED <<options, publish, publisher, headers, place>>

(* A callback is done with: its message goes back, or is acknowledged.     *)
Settles(run) ==
  /\ runs' = runs \ {run}
  /\ \/ run.stage = "delivered" /\ place' = [place EXCEPT ![run.msg] = "queued"]
     \/ run.stage = "handling" /\ run.live /\ place' = [place EXCEPT ![run.msg] = "acked"]
     \/ ~run.live /\ place' = place
  /\ UNCHANGED <<options, publish, publisher, headers, handled>>

LEMMA InflateType ==
  ASSUME NEW run \in Run, run.stage = "unpacking", HasLayer(run)
  PROVE  /\ Inflate(run) \in Run /\ Inflate(run).msg = run.msg /\ Inflate(run).pod = run.pod
         /\ Inflate(run).live = run.live /\ Inflate(run).stage \in {"unpacking", "failed"}
<1>1. run.layers - 1 \in Nat
  BY DEF Run, HasLayer
<1> DEFINE lower == run.layers - 1
<1> HIDE DEF lower
<1>2. CASE ~Compressed(run.msg)
  <2>1. Inflate(run) = [run EXCEPT !.layers = run.layers - 1]
    BY <1>2 DEF Inflate
  <2> QED BY <1>1, <2>1 DEF Run
<1>3. CASE Compressed(run.msg) /\ run.body = "deflated"
  <2>1. Inflate(run) = [run EXCEPT !.layers = run.layers - 1, !.body = "plain"]
    BY <1>3 DEF Inflate
  <2> QED BY <1>1, <2>1 DEF Run
<1>4. CASE Compressed(run.msg) /\ run.body # "deflated"
  <2>1. Inflate(run) = [run EXCEPT !.stage = "failed"]
    BY <1>4 DEF Inflate
  <2> QED BY <2>1 DEF Run, Stages
<1> QED BY <1>2, <1>3, <1>4

(* What is unpacked goes to the next layer, to the handler, or fails.      *)
LEMMA PassedType ==
  ASSUME NEW run \in Run, run.stage = "unpacking", HasLayer(run),
         NEW next, next = Passed(Inflate(run))
  PROVE  /\ next \in Run /\ next.msg = run.msg /\ next.pod = run.pod /\ next.live = run.live
         /\ next.body = Inflate(run).body
         /\ \/ next.stage = "unpacking" /\ HasLayer(next)
            \/ next.stage = "handling" /\ Inflate(run).stage = "unpacking"
                                       /\ ~HasLayer(Inflate(run))
            \/ next.stage = "failed" /\ Inflate(run).stage = "failed"
<1> DEFINE inner == Inflate(run)
<1>1. /\ inner \in Run /\ inner.msg = run.msg /\ inner.pod = run.pod
      /\ inner.live = run.live /\ inner.stage \in {"unpacking", "failed"}
  BY InflateType
<1>2. next = Passed(inner)
  OBVIOUS
<1> HIDE DEF inner
<1>3. CASE inner.stage = "unpacking" /\ ~HasLayer(inner)
  <2>1. next = [inner EXCEPT !.stage = "handling"]
    BY <1>2, <1>3 DEF Passed
  <2>2. /\ next \in Run /\ next.stage = "handling" /\ next.msg = inner.msg
        /\ next.pod = inner.pod /\ next.live = inner.live /\ next.body = inner.body
    BY <1>1, <2>1 DEF Run, Stages
  <2> QED BY <1>1, <1>3, <2>2 DEF inner
<1>4. CASE ~(inner.stage = "unpacking" /\ ~HasLayer(inner))
  <2>1. next = inner
    BY <1>2, <1>4 DEF Passed
  <2> QED BY <1>1, <1>4, <2>1 DEF inner
<1> QED BY <1>3, <1>4

LEMMA InspectGoes ==
  ASSUME TypeOK, NEW run \in runs, Inspect(run)
  PROVE  \E next : Advances(run, next)
<1> DEFINE stage == IF HasHeaders(run.msg) THEN "unpacking" ELSE "failed"
           next == [run EXCEPT !.stage = stage]
<1>1. run \in Run /\ run.stage = "delivered"
  BY DEF TypeOK, Inspect
<1>2. stage \in {"unpacking", "failed"} /\ (stage = "unpacking" <=> HasHeaders(run.msg))
  OBVIOUS
<1>3. runs' = (runs \ {run}) \cup {next}
  BY DEF Inspect, Replace
<1> HIDE DEF stage
<1>4. /\ next \in Run /\ next.stage = stage /\ next.msg = run.msg /\ next.pod = run.pod
      /\ next.live = run.live /\ next.layers = run.layers /\ next.body = run.body
      /\ next.layers \in Nat /\ next.body \in {"deflated", "plain"}
  BY <1>1, <1>2 DEF Run, Stages
<1> HIDE DEF next
<1>5. Goes(run, next)
  BY <1>1, <1>2, <1>4 DEF Goes, Inspect
<1>6. handled' = handled \cup IF next.stage = "handling" THEN {<<run.msg, run.pod>>} ELSE {}
  BY <1>2, <1>4 DEF Inspect
<1>7. UNCHANGED <<options, publish, publisher, headers, place>>
  BY DEF Inspect, sending
<1> QED BY <1>3, <1>4, <1>5, <1>6, <1>7 DEF Advances

LEMMA UnpackGoes ==
  ASSUME TypeOK, NEW run \in runs, Unpack(run)
  PROVE  \E next : Advances(run, next)
<1> DEFINE next == Passed(Inflate(run))
<1>1. run \in Run /\ run.stage = "unpacking" /\ HasLayer(run)
  BY DEF TypeOK, Unpack
<1>2. next \in Run /\ next.msg = run.msg /\ next.pod = run.pod /\ next.live = run.live
  BY <1>1, PassedType
<1>3. next.layers \in Nat /\ next.body \in {"deflated", "plain"}
  BY <1>2 DEF Run
<1>4. Goes(run, next)
  BY <1>1, <1>2, <1>3 DEF Goes
<1>5. /\ runs' = (runs \ {run}) \cup {next}
      /\ handled' = IF next.stage = "handling" THEN handled \cup {<<run.msg, run.pod>>} ELSE handled
      /\ UNCHANGED <<options, publish, publisher, headers, place>>
  BY DEF Unpack, Replace, sending
<1> HIDE DEF next
<1> QED BY <1>2, <1>4, <1>5 DEF Advances

LEMMA EndGoes ==
  ASSUME TypeOK, NEW run \in runs, HandlerEnds(run)
  PROVE  Settles(run) \/ \E next : Advances(run, next)
<1>1. run \in Run /\ run.stage = "handling"
  BY DEF TypeOK, HandlerEnds
<1> DEFINE next == [run EXCEPT !.stage = "threw"]
<1>2. CASE Replace(run, next) /\ UNCHANGED place
  <2>1. /\ next \in Run /\ next.msg = run.msg /\ next.pod = run.pod /\ next.live = run.live
        /\ next.stage = "threw" /\ next.layers \in Nat /\ next.body \in {"deflated", "plain"}
    BY <1>1 DEF Run, Stages
  <2>2. Goes(run, next)
    BY <1>1, <2>1 DEF Goes
  <2>3. /\ runs' = (runs \ {run}) \cup {next}
        /\ UNCHANGED <<options, publish, publisher, headers, place, handled>>
    BY <1>2 DEF HandlerEnds, Replace, sending
  <2> HIDE DEF next
  <2>4. Advances(run, next)
    BY <2>1, <2>2, <2>3 DEF Advances
  <2> QED BY <2>4
<1>3. CASE /\ runs' = runs \ {run}
           /\ place' = IF run.live THEN [place EXCEPT ![run.msg] = "acked"] ELSE place
  <2>1. run.live \in BOOLEAN
    BY <1>1 DEF Run
  <2>2. Settles(run)
    BY <1>1, <1>3, <2>1 DEF HandlerEnds, Settles, sending
  <2> QED BY <2>2
<1> QED BY <1>2, <1>3 DEF HandlerEnds

LEMMA PublishGoes ==
  ASSUME TypeOK, NEW m \in Messages
  PROVE  /\ PublishFromOutside(m) \/ PackingFails(m) \/ Packed(m) => Publishes(m)
         /\ \A p \in Pods : PublishFromRequest(m, p) => Publishes(m)
         /\ \A run \in runs : StartPublish(m, run) => Publishes(m)
<1>1. ASSUME PublishFromOutside(m) PROVE Publishes(m)
  BY <1>1 DEF PublishFromOutside, Publishes, TypeOK
<1>2. ASSUME NEW p \in Pods, PublishFromRequest(m, p) PROVE Publishes(m)
  BY <1>2 DEF PublishFromRequest, Publishes, TypeOK
<1>3. ASSUME NEW run \in runs, StartPublish(m, run) PROVE Publishes(m)
  BY <1>3 DEF StartPublish, Publishes, TypeOK
<1>4. ASSUME PackingFails(m) PROVE Publishes(m)
  BY <1>4 DEF PackingFails, Publishes, TypeOK
<1>5. ASSUME Packed(m) PROVE Publishes(m)
  <2>1. PICK h \in PackedHeaders(m) : headers' = [headers EXCEPT ![m] = h]
    BY <1>5 DEF Packed
  <2>2. Follows[m] # None => h = headers[Follows[m]]
    BY DEF PackedHeaders, Propagated
  <2> QED BY <1>5, <2>1, <2>2 DEF Packed, Publishes, TypeOK
<1> QED BY <1>1, <1>2, <1>3, <1>4, <1>5

LEMMA Steps ==
  ASSUME TypeOK, [Next]_vars
  PROVE  \/ Channels
         \/ \E m \in Messages : \/ PublishFromOutside(m) \/ PackingFails(m) \/ Packed(m)
                                \/ \E p \in Pods : PublishFromRequest(m, p)
                                \/ \E run \in runs : StartPublish(m, run)
         \/ \E run \in runs : Settles(run) \/ \E next : Advances(run, next)
         \/ \E p \in Pods : Drop(p) \/ ProcessEnds(p)
         \/ \E m \in Messages, p \in Pods, s \in 1..Setups : Deliver(m, p, s)
<1>1. CASE UNCHANGED vars
  BY <1>1 DEF vars, Channels, options
<1>2. ASSUME NEW p \in Pods, Starts(p) PROVE Channels
  BY <1>2 DEF Starts, Connect, ConsumeLate, Channels, sending
<1>3. ASSUME NEW run \in runs, GiveBack(run) PROVE Settles(run)
  BY <1>3 DEF GiveBack, Settles, PlaceAfterNack, sending
<1>4. ASSUME NEW run \in runs, Callback(run)
      PROVE  \/ Settles(run) \/ \E next : Advances(run, next)
             \/ \E m \in Messages : StartPublish(m, run)
  BY <1>3, <1>4, InspectGoes, UnpackGoes, EndGoes DEF Callback
<1> QED BY <1>1, <1>2, <1>4 DEF Next

-----------------------------------------------------------------------------
(* Type correctness.                                                       *)

LEMMA TypeInit == Init => TypeOK
BY RabbitAssumption DEF Init, TypeOK, Headers

ChannelsType ==
  /\ wraps \in [Pods -> 0..Setups]
  /\ consumers \in [Pods -> [1..Setups -> 0..Setups]]
  /\ events \in 0..MaxEvents

LEMMA ChannelsKept == TypeOK /\ [Next]_vars => ChannelsType'
<1> SUFFICES ASSUME TypeOK, [Next]_vars PROVE ChannelsType'
  OBVIOUS
<1>1. CASE UNCHANGED channels /\ (UNCHANGED events \/ Event)
  <2>1. events' \in 0..MaxEvents
    BY <1>1, RabbitAssumption DEF Event, TypeOK
  <2> QED BY <1>1, <2>1 DEF TypeOK, ChannelsType, channels
<1>2. ASSUME NEW p \in Pods, Connect(p) PROVE ChannelsType'
  <2>1. Setups \in 0..Setups /\ \A s \in 1..Setups : s \in 0..Setups /\ 0 \in 0..Setups
    BY RabbitAssumption
  <2>2. [s \in 1..Setups |-> IF s \in Late THEN 0 ELSE s] \in [1..Setups -> 0..Setups]
    BY <2>1
  <2> QED BY <1>2, <2>1, <2>2 DEF Connect, TypeOK, ChannelsType
<1>3. ASSUME NEW p \in Pods, NEW s \in 1..Setups, ConsumeLate(p, s) PROVE ChannelsType'
  <2>1. consumers[p] \in [1..Setups -> 0..Setups] /\ wraps[p] \in 0..Setups
    BY DEF TypeOK
  <2>2. consumers' = [consumers EXCEPT ![p] = [consumers[p] EXCEPT ![s] = wraps[p]]]
    BY <1>3 DEF ConsumeLate
  <2>3. [consumers[p] EXCEPT ![s] = wraps[p]] \in [1..Setups -> 0..Setups]
    BY <2>1
  <2> QED BY <1>3, <2>2, <2>3 DEF ConsumeLate, TypeOK, ChannelsType
<1>4. ASSUME NEW p \in Pods, Drop(p) \/ ProcessEnds(p) PROVE ChannelsType'
  <2>1. 0 \in 0..Setups /\ [s \in 1..Setups |-> 0] \in [1..Setups -> 0..Setups]
    BY RabbitAssumption
  <2>2. events' \in 0..MaxEvents
    BY <1>4, RabbitAssumption DEF Drop, ProcessEnds, Event, TypeOK
  <2>3. Disconnect(p)
    BY <1>4 DEF Drop, ProcessEnds
  <2> QED BY <2>1, <2>2, <2>3 DEF Disconnect, TypeOK, ChannelsType
<1>5. ASSUME NEW m \in Messages, PublishFromOutside(m) \/ PackingFails(m) \/ Packed(m)
      PROVE  UNCHANGED channels /\ (UNCHANGED events \/ Event)
  BY <1>5 DEF PublishFromOutside, PackingFails, Packed
<1>6. ASSUME NEW m \in Messages, NEW p \in Pods, PublishFromRequest(m, p)
      PROVE  UNCHANGED channels /\ Event
  BY <1>6 DEF PublishFromRequest
<1>7. ASSUME NEW m \in Messages, NEW p \in Pods, NEW s \in 1..Setups, Deliver(m, p, s)
      PROVE  UNCHANGED <<channels, events>>
  BY <1>7 DEF Deliver
<1>8. ASSUME NEW run \in runs, Callback(run) PROVE UNCHANGED <<channels, events>>
  BY <1>8 DEF Callback, GiveBack, Inspect, Unpack, HandlerEnds, StartPublish
<1>9. CASE UNCHANGED vars
  BY <1>9 DEF vars, channels, TypeOK, ChannelsType
<1> QED BY <1>1, <1>2, <1>3, <1>4, <1>5, <1>6, <1>7, <1>8, <1>9 DEF Next, Starts

(* The callback of a delivery.                                             *)
Delivered(m, p, s) ==
  [msg |-> m, pod |-> p, live |-> TRUE, stage |-> "delivered", layers |-> consumers[p][s],
   body |-> IF Compressed(m) THEN "deflated" ELSE "plain"]

LEMMA DeliverMakes ==
  ASSUME TypeOK, NEW m \in Messages, NEW p \in Pods, NEW s \in 1..Setups, Deliver(m, p, s)
  PROVE  /\ Delivered(m, p, s) \in Run /\ HasLayer(Delivered(m, p, s))
         /\ runs' = runs \cup {Delivered(m, p, s)}
         /\ place[m] = "queued" /\ place' = [place EXCEPT ![m] = "unacked"]
         /\ UNCHANGED <<options, publish, publisher, headers, handled>>
<1>1. consumers[p][s] \in Nat /\ consumers[p][s] > 0
  <2>1. consumers[p] \in [1..Setups -> 0..Setups]
    BY DEF TypeOK
  <2>2. consumers[p][s] \in 0..Setups
    BY <2>1
  <2> QED BY <2>2, RabbitAssumption DEF Deliver
<1>2. Delivered(m, p, s) \in Run
  BY <1>1 DEF Delivered, Run, Stages
<1>3. HasLayer(Delivered(m, p, s))
  BY <1>1 DEF Delivered, HasLayer
<1> QED BY <1>2, <1>3 DEF Deliver, Delivered, sending

(* What is left of the callbacks of a pod that lost its channel, with its  *)
(* process or without.                                                     *)
Orphaned(run) == [run EXCEPT !.live = FALSE]

SameButLive(run, r) ==
  /\ run.msg = r.msg /\ run.pod = r.pod /\ run.stage = r.stage
  /\ run.layers = r.layers /\ run.body = r.body

Disconnects(p) ==
  /\ UNCHANGED <<options, headers, handled>>
  /\ \A m \in Messages : \/ publish'[m] = publish[m] /\ publisher'[m] = publisher[m]
                         \/ publish[m] = "packing" /\ publish'[m] = "idle"
  /\ place' = [m \in Messages |->
                 IF \E run \in runs : run.msg = m /\ run.pod = p /\ run.live
                 THEN "queued" ELSE place[m]]
  /\ \A run \in runs' :
       /\ run \in Run
       /\ \/ run \in runs /\ run.pod # p
          \/ \E r \in runs : r.stage # "delivered" /\ ~run.live /\ SameButLive(run, r)
  /\ \A run \in runs : run.pod # p => run \in runs'

LEMMA DropMakes ==
  ASSUME TypeOK, NEW p \in Pods, Drop(p)
  PROVE  Disconnects(p)
<1> DEFINE left == {r \in runs : r.pod = p /\ GoesOn(r)}
<1>1. runs' = {run \in runs : run.pod # p} \cup {Orphaned(run) : run \in left}
  BY DEF Drop, Orphaned
<1>2. \A r \in runs : Orphaned(r) \in Run /\ ~Orphaned(r).live /\ SameButLive(Orphaned(r), r)
  BY DEF TypeOK, Run, Orphaned, SameButLive
<1>3. \A r \in left : r \in runs /\ r.stage # "delivered"
  BY DEF GoesOn, Rejects, Ended
<1> HIDE DEF left
<1>4. ASSUME NEW run \in runs'
      PROVE  /\ run \in Run
             /\ \/ run \in runs /\ run.pod # p
                \/ \E r \in runs : r.stage # "delivered" /\ ~run.live /\ SameButLive(run, r)
  <2>1. CASE run \in runs /\ run.pod # p
    BY <2>1 DEF TypeOK
  <2>2. ASSUME NEW r \in left, run = Orphaned(r)
        PROVE  /\ run \in Run /\ r \in runs /\ r.stage # "delivered" /\ ~run.live
               /\ SameButLive(run, r)
    BY <1>2, <1>3, <2>2
  <2> HIDE DEF Orphaned, SameButLive
  <2> QED BY <1>1, <2>1, <2>2
<1>5. \A run \in runs : run.pod # p => run \in runs'
  BY <1>1
<1>6. UNCHANGED <<options, publish, publisher, headers, handled>>
  BY DEF Drop, sending
<1>7. place' = [m \in Messages |->
                  IF \E run \in runs : run.msg = m /\ run.pod = p /\ run.live
                  THEN "queued" ELSE place[m]]
  BY DEF Drop, Disconnect
<1> QED BY <1>4, <1>5, <1>6, <1>7 DEF Disconnects

LEMMA EndMakes ==
  ASSUME TypeOK, NEW p \in Pods, ProcessEnds(p)
  PROVE  /\ Disconnects(p)
         /\ publish' \in [Messages -> {"idle", "packing", "rejected", "sent"}]
         /\ publisher' \in [Messages -> Pods \cup {None}]
<1> DEFINE unsent == {m \in Messages : publish[m] = "packing" /\ publisher[m] = p}
<1>1. /\ publish' = [m \in Messages |-> IF m \in unsent THEN "idle" ELSE publish[m]]
      /\ publisher' = [m \in Messages |-> IF m \in unsent THEN None ELSE publisher[m]]
  BY DEF ProcessEnds
<1>2. /\ publish' \in [Messages -> {"idle", "packing", "rejected", "sent"}]
      /\ publisher' \in [Messages -> Pods \cup {None}]
  BY <1>1 DEF TypeOK
<1>3. \A m \in Messages : \/ publish'[m] = publish[m] /\ publisher'[m] = publisher[m]
                          \/ publish[m] = "packing" /\ publish'[m] = "idle"
  BY <1>1
<1>4. /\ UNCHANGED <<options, headers, handled>>
      /\ place' = [m \in Messages |->
                     IF \E run \in runs : run.msg = m /\ run.pod = p /\ run.live
                     THEN "queued" ELSE place[m]]
      /\ runs' = {run \in runs : run.pod # p}
  BY DEF ProcessEnds, Disconnect
<1>5. \A run \in runs' : run \in Run /\ run \in runs /\ run.pod # p
  BY <1>4 DEF TypeOK
<1>6. \A run \in runs : run.pod # p => run \in runs'
  BY <1>4
<1>7. Disconnects(p)
  BY <1>3, <1>4, <1>5, <1>6 DEF Disconnects
<1> QED BY <1>2, <1>7

LEMMA TypeNext == TypeOK /\ [Next]_vars => TypeOK'
<1> SUFFICES ASSUME TypeOK, [Next]_vars PROVE TypeOK'
  OBVIOUS
<1>0. ChannelsType'
  BY ChannelsKept
<1> DEFINE Layered == \A run \in runs : run.stage \in {"delivered", "unpacking"} => HasLayer(run)
           Others ==
      /\ strategy \in {"requeue", "canaryQueue"} /\ onError \in BOOLEAN
      /\ publish \in [Messages -> {"idle", "packing", "rejected", "sent"}]
      /\ publisher \in [Messages -> Pods \cup {None}]
      /\ headers \in [Messages -> Headers]
      /\ place \in [Messages -> {"none", "queued", "unacked", "acked"}]
      /\ runs \subseteq Run
      /\ Layered
      /\ handled \subseteq Messages \X Pods
<1> SUFFICES Others'
  BY <1>0 DEF ChannelsType, TypeOK
<1>1. CASE Channels
  BY <1>1 DEF Channels, TypeOK, HasLayer, options
<1>2. ASSUME NEW run \in runs, Settles(run) PROVE Others'
  BY <1>2 DEF Settles, TypeOK, Run, HasLayer, options
<1>3. ASSUME NEW run \in runs, NEW next, Advances(run, next) PROVE Others'
  <2>1. <<run.msg, run.pod>> \in Messages \X Pods /\ run \in Run
    BY DEF TypeOK, Run
  <2>2. next.stage \in {"delivered", "unpacking"} => HasLayer(next)
    <3>1. CASE run.stage = "unpacking" /\ next = Passed(Inflate(run))
      BY <2>1, <3>1, PassedType DEF TypeOK
    <3>2. CASE next.stage = "unpacking" /\ next.layers = run.layers /\ run.stage = "delivered"
      BY <3>2 DEF TypeOK, HasLayer
    <3> QED BY <1>3, <3>1, <3>2 DEF Advances, Goes
  <2>3. Layered'
    BY <1>3, <2>2 DEF Advances, TypeOK, HasLayer
  <2> HIDE DEF Layered
  <2> QED BY <1>3, <2>1, <2>3 DEF Advances, TypeOK, options
<1>4. ASSUME NEW p \in Pods, Drop(p) \/ ProcessEnds(p) PROVE Others'
  <2>1. /\ publish' \in [Messages -> {"idle", "packing", "rejected", "sent"}]
        /\ publisher' \in [Messages -> Pods \cup {None}]
    BY <1>4, EndMakes DEF Drop, sending, TypeOK
  <2>2. Disconnects(p)
    BY <1>4, DropMakes, EndMakes
  <2>3. Layered'
    BY <2>2 DEF Disconnects, SameButLive, TypeOK, HasLayer
  <2> HIDE DEF Layered
  <2> QED BY <2>1, <2>2, <2>3 DEF Disconnects, TypeOK, options
<1>5. ASSUME NEW m \in Messages, NEW p \in Pods, NEW s \in 1..Setups, Deliver(m, p, s)
      PROVE  Others'
  <2>1. Layered'
    BY <1>5, DeliverMakes DEF TypeOK, HasLayer
  <2> HIDE DEF Layered
  <2> QED BY <1>5, <2>1, DeliverMakes DEF TypeOK, options
<1> DEFINE Sends(m) ==
             \/ PublishFromOutside(m) \/ PackingFails(m) \/ Packed(m)
             \/ \E p \in Pods : PublishFromRequest(m, p)
             \/ \E run \in runs : StartPublish(m, run)
<1>6. ASSUME NEW m \in Messages, Sends(m) PROVE Others'
  <2>0. UNCHANGED <<options, runs, handled>>
    BY <1>6, PublishGoes DEF Publishes
  <2>1. Layered'
    BY <2>0 DEF TypeOK, HasLayer
  <2> HIDE DEF Layered
  <2>2. ASSUME NEW h \in Headers, headers' = [headers EXCEPT ![m] = h]
        PROVE  headers' \in [Messages -> Headers]
    BY <2>2 DEF TypeOK
  <2>3. headers' \in [Messages -> Headers]
    <3>1. Packed(m) => PackedHeaders(m) \subseteq Headers
      BY RabbitAssumption DEF Packed, PackedHeaders, Propagated, TypeOK, Headers
    <3> QED BY <1>6, <2>2, <3>1
          DEF PublishFromOutside, PackingFails, Packed, PublishFromRequest, StartPublish, TypeOK
  <2>4. /\ publish' \in [Messages -> {"idle", "packing", "rejected", "sent"}]
        /\ publisher' \in [Messages -> Pods \cup {None}]
        /\ place' \in [Messages -> {"none", "queued", "unacked", "acked"}]
    BY <1>6 DEF PublishFromOutside, PackingFails, Packed, PublishFromRequest, StartPublish,
                TypeOK, Run
  <2> QED BY <2>0, <2>1, <2>3, <2>4 DEF TypeOK, options
<1>7. \/ Channels
      \/ \E m \in Messages : Sends(m)
      \/ \E run \in runs : Settles(run) \/ \E next : Advances(run, next)
      \/ \E p \in Pods : Drop(p) \/ ProcessEnds(p)
      \/ \E m \in Messages, p \in Pods, s \in 1..Setups : Deliver(m, p, s)
  BY Steps
<1> HIDE DEF Sends, Others
<1> QED BY <1>1, <1>2, <1>3, <1>4, <1>5, <1>6, <1>7

(* Channels, messages and callbacks keep their types: no callback has fewer *)
(* than no layers to unpack, and no pod consumes at a depth beyond its      *)
(* setups (packConsume).                                                    *)
THEOREM TypeCorrect == Spec => []TypeOK
BY TypeInit, TypeNext, PTL DEF Spec

LEMMA Kinds ==
  ASSUME TypeOK, [Next]_vars
  PROVE  \/ Channels
         \/ \E m \in Messages : Publishes(m)
         \/ \E run \in runs : Settles(run) \/ \E next : Advances(run, next)
         \/ \E p \in Pods : Disconnects(p)
         \/ \E m \in Messages, p \in Pods, s \in 1..Setups : Deliver(m, p, s)
BY Steps, PublishGoes, DropMakes, EndMakes

-----------------------------------------------------------------------------
(* Where messages are.                                                     *)

(* A message is out if and only if it was sent; one that is unacknowledged *)
(* has one live callback, and no other has any; what a handler works on    *)
(* has been counted.                                                       *)
Traced(run) ==
  /\ place[run.msg] # "none"
  /\ run.live => place[run.msg] = "unacked"
  /\ run.stage = "delivered" => run.live
  /\ run.stage = "handling" => <<run.msg, run.pod>> \in handled

Alone == \A r1, r2 \in runs : r1.live /\ r2.live /\ r1.msg = r2.msg => r1 = r2

Found(m) ==
  /\ publish[m] = "sent" <=> place[m] # "none"
  /\ place[m] = "unacked" => \E run \in runs : run.msg = m /\ run.live
  /\ place[m] = "acked" => \E p \in Pods : <<m, p>> \in handled

Tracked == (\A run \in runs : Traced(run)) /\ Alone /\ (\A m \in Messages : Found(m))

LEMMA TrackedInit == Init => Tracked
BY DEF Init, Tracked, Traced, Alone, Found

LEMMA PublishTracked ==
  ASSUME TypeOK, Tracked, NEW m \in Messages, Publishes(m)
  PROVE  Tracked'
<1>1. /\ publish[m] # "sent" /\ place[m] = "none"
      /\ publish'[m] = "sent" <=> place'[m] # "none"
      /\ place'[m] \in {"none", "queued"}
      /\ \A n \in Messages : n # m => publish'[n] = publish[n] /\ place'[n] = place[n]
      /\ UNCHANGED <<runs, handled>>
  <2>1. publish[m] # "sent" /\ place[m] = "none"
    BY DEF Publishes, Tracked, Found, TypeOK
  <2> QED BY <2>1 DEF Publishes
<1>2. \A run \in runs : run.msg \in Messages /\ run.msg # m
  BY <1>1 DEF TypeOK, Run, Tracked, Traced
<1>3. \A run \in runs' : Traced(run)'
  BY <1>1, <1>2 DEF Tracked, Traced
<1>4. \A n \in Messages : Found(n)'
  BY <1>1 DEF Tracked, Found
<1> QED BY <1>1, <1>3, <1>4 DEF Tracked, Alone

LEMMA AdvanceTracked ==
  ASSUME TypeOK, Tracked, NEW run \in runs, NEW next, Advances(run, next)
  PROVE  Tracked'
<1>1. /\ runs' = (runs \ {run}) \cup {next} /\ UNCHANGED <<publish, place>>
      /\ next.msg = run.msg /\ next.pod = run.pod /\ next.live = run.live
      /\ next.stage # "delivered"
      /\ next.stage = "handling" => <<run.msg, run.pod>> \in handled'
      /\ handled \subseteq handled'
  <2>1. run \in Run
    BY DEF TypeOK
  <2>2. run.stage = "unpacking" => HasLayer(run)
    BY DEF TypeOK
  <2>3. run.stage = "unpacking" /\ next = Passed(Inflate(run)) => next.stage # "delivered"
    BY <2>1, <2>2, PassedType
  <2> QED BY <2>3 DEF Advances, Goes
<1>2. Traced(run)
  BY DEF Tracked
<1>3. \A r \in runs' : Traced(r)'
  BY <1>1, <1>2 DEF Tracked, Traced
<1>4. Alone'
  BY <1>1 DEF Tracked, Alone
<1>5. \A m \in Messages : Found(m)'
  BY <1>1 DEF Tracked, Found
<1> QED BY <1>3, <1>4, <1>5 DEF Tracked

LEMMA SettleTracked ==
  ASSUME TypeOK, Tracked, NEW run \in runs, Settles(run)
  PROVE  Tracked'
<1>1. run.msg \in Messages /\ run.pod \in Pods /\ Traced(run)
  BY DEF TypeOK, Run, Tracked
<1>2. runs' = runs \ {run} /\ UNCHANGED <<publish, handled>>
  BY DEF Settles
<1>3. \A m \in Messages : m # run.msg => place'[m] = place[m]
  BY DEF Settles, TypeOK
<1>4. \/ run.live /\ place'[run.msg] = "queued"
      \/ run.live /\ place'[run.msg] = "acked" /\ <<run.msg, run.pod>> \in handled
      \/ ~run.live /\ place'[run.msg] = place[run.msg]
  BY <1>1 DEF Settles, Traced, TypeOK
<1>5. \A r \in runs' : Traced(r)'
  <2> TAKE r \in runs'
  <2>1. r \in runs /\ r # run /\ r.msg \in Messages /\ Traced(r)
    BY <1>2 DEF TypeOK, Run, Tracked
  <2>2. r.live /\ run.live => r.msg # run.msg
    BY <2>1 DEF Tracked, Alone
  <2>3. place'[r.msg] # "none" /\ (r.live => place'[r.msg] = "unacked")
    BY <1>3, <1>4, <2>1, <2>2 DEF Traced
  <2> QED BY <1>2, <2>1, <2>3 DEF Traced
<1>6. Alone'
  BY <1>2 DEF Tracked, Alone
<1>7. \A m \in Messages : Found(m)'
  <2> TAKE m \in Messages
  <2>1. Found(m)
    BY DEF Tracked
  <2>2. CASE m = run.msg
    BY <1>1, <1>2, <1>4, <2>1, <2>2 DEF Found, Traced
  <2>3. CASE m # run.msg
    BY <1>2, <1>3, <2>1, <2>3 DEF Found
  <2> QED BY <2>2, <2>3
<1> QED BY <1>5, <1>6, <1>7 DEF Tracked

LEMMA DeliverTracked ==
  ASSUME TypeOK, Tracked, NEW m \in Messages, NEW p \in Pods, NEW s \in 1..Setups,
         Deliver(m, p, s)
  PROVE  Tracked'
<1> DEFINE new == Delivered(m, p, s)
<1>1. /\ runs' = runs \cup {new} /\ place[m] = "queued" /\ place' = [place EXCEPT ![m] = "unacked"]
      /\ UNCHANGED <<publish, handled>>
  BY DeliverMakes
<1>2. new.msg = m /\ new.live /\ new.stage = "delivered"
  BY DEF Delivered
<1> HIDE DEF new
<1>3. place'[m] = "unacked" /\ \A n \in Messages : n # m => place'[n] = place[n]
  BY <1>1 DEF TypeOK
<1>4. \A r \in runs : r.msg \in Messages /\ (r.live => r.msg # m)
  BY <1>1 DEF TypeOK, Run, Tracked, Traced
<1>5. \A r \in runs' : Traced(r)'
  BY <1>1, <1>2, <1>3, <1>4 DEF Tracked, Traced
<1>6. Alone'
  BY <1>1, <1>2, <1>4 DEF Tracked, Alone
<1>7. \A n \in Messages : Found(n)'
  <2> TAKE n \in Messages
  <2>1. Found(n)
    BY DEF Tracked
  <2>2. \E run \in runs' : run.msg = m /\ run.live
    BY <1>1, <1>2
  <2>3. CASE n = m
    BY <1>1, <1>3, <2>1, <2>2, <2>3 DEF Found
  <2>4. CASE n # m
    BY <1>1, <1>3, <2>1, <2>4 DEF Found
  <2> QED BY <2>3, <2>4
<1> QED BY <1>5, <1>6, <1>7 DEF Tracked

LEMMA DisconnectTracked ==
  ASSUME TypeOK, Tracked, NEW p \in Pods, Disconnects(p)
  PROVE  Tracked'
<1>1. /\ UNCHANGED handled
      /\ \A m \in Messages : publish'[m] = "sent" <=> publish[m] = "sent"
      /\ place' = [m \in Messages |->
                     IF \E run \in runs : run.msg = m /\ run.pod = p /\ run.live
                     THEN "queued" ELSE place[m]]
      /\ \A run \in runs' :
           \/ run \in runs /\ run.pod # p
           \/ \E r \in runs : /\ r.stage # "delivered" /\ ~run.live
                              /\ run.msg = r.msg /\ run.pod = r.pod /\ run.stage = r.stage
      /\ \A run \in runs : run.pod # p => run \in runs'
  BY DEF Disconnects, SameButLive
<1>2. \A m \in Messages : place'[m] # place[m] => place[m] = "unacked" /\ place'[m] = "queued"
  <2> TAKE m \in Messages
  <2>1. place'[m] = IF \E run \in runs : run.msg = m /\ run.pod = p /\ run.live
                    THEN "queued" ELSE place[m]
    BY <1>1
  <2>2. \A run \in runs : run.msg = m /\ run.live => place[m] = "unacked"
    BY DEF Tracked, Traced
  <2> QED BY <2>1, <2>2
<1>3. \A r \in runs : r.msg \in Messages /\ Traced(r)
  BY DEF TypeOK, Run, Tracked
<1>4. \A run \in runs' : Traced(run)'
  <2> TAKE run \in runs'
  <2>1. CASE run \in runs /\ run.pod # p
    <3>1. run.msg \in Messages /\ Traced(run)
      BY <1>3, <2>1
    <3>2. run.live => place'[run.msg] = place[run.msg]
      BY <1>1, <2>1, <3>1 DEF Tracked, Alone
    <3> QED BY <1>1, <1>2, <3>1, <3>2 DEF Traced
  <2>2. ASSUME NEW r \in runs, r.stage # "delivered", ~run.live,
               run.msg = r.msg, run.pod = r.pod, run.stage = r.stage
        PROVE  Traced(run)'
    BY <1>1, <1>2, <1>3, <2>2 DEF Traced
  <2> QED BY <1>1, <2>1, <2>2
<1>5. Alone'
  BY <1>1 DEF Tracked, Alone
<1>6. \A m \in Messages : Found(m)'
  <2> TAKE m \in Messages
  <2>1. Found(m)
    BY DEF Tracked
  <2>2. place'[m] = "unacked" => \E run \in runs' : run.msg = m /\ run.live
    BY <1>1, <1>2, <2>1 DEF Found
  <2> QED BY <1>1, <1>2, <2>1, <2>2 DEF Found
<1> QED BY <1>4, <1>5, <1>6 DEF Tracked

LEMMA TrackedNext == TypeOK /\ Tracked /\ [Next]_vars => Tracked'
<1> SUFFICES ASSUME TypeOK, Tracked, [Next]_vars PROVE Tracked'
  OBVIOUS
<1>1. CASE Channels
  BY <1>1 DEF Channels, Tracked, Traced, Alone, Found
<1> QED BY <1>1, Kinds, PublishTracked, AdvanceTracked, SettleTracked, DisconnectTracked, DeliverTracked

LEMMA TrackedAlways == Spec => [](TypeOK /\ Tracked)
<1>1. Spec => []Tracked
  BY TrackedInit, TrackedNext, TypeCorrect, PTL DEF Spec
<1> QED BY <1>1, TypeCorrect, PTL

(* A message that was sent is in the queue, with exactly one live callback, *)
(* or acknowledged after a handler had it, for any number of pods, setups   *)
(* and lost connections (packConsume, nack).                                *)
THEOREM NothingIsLost == Spec => []NothingLost
<1>1. ASSUME TypeOK, Tracked, NEW m \in Messages
      PROVE  Cardinality({run \in runs : run.msg = m /\ run.live})
               = IF place[m] = "unacked" THEN 1 ELSE 0
  <2>1. CASE place[m] = "unacked"
    <3>1. PICK run \in runs : run.msg = m /\ run.live
      BY <1>1, <2>1 DEF Tracked, Found
    <3>2. {r \in runs : r.msg = m /\ r.live} = {run}
      BY <1>1, <3>1 DEF Tracked, Alone
    <3>3. Cardinality({run}) = 1
      BY FS_Singleton
    <3> QED BY <2>1, <3>2, <3>3
  <2>2. CASE place[m] # "unacked"
    <3>1. {r \in runs : r.msg = m /\ r.live} = {}
      BY <1>1, <2>2 DEF Tracked, Traced
    <3> QED BY <2>2, <3>1, FS_EmptySet
  <2> QED BY <2>1, <2>2
<1>2. TypeOK /\ Tracked => NothingLost
  BY <1>1 DEF NothingLost, Tracked, Found
<1> QED BY <1>2, TrackedAlways, PTL

-----------------------------------------------------------------------------
(* Sides.                                                                  *)

(* The side a message belongs to is told by its header when messages are   *)
(* given back, and by its publisher when canary pods have a queue of their *)
(* own.                                                                    *)
Side(m) == IF strategy = "requeue" THEN headers[m] = "marked" ELSE publisher[m] \in CanaryPods

Belongs(m, p) == p \in CanaryPods <=> Side(m)

(* Only the first look at a message of the other side, which strategy      *)
(* requeue takes, is a callback of the wrong pod; and a message is not     *)
(* begun before the one it follows was sent; it is of the same side once it *)
(* is sent, and before, if its publisher tells the side.                   *)
Owned(run) ==
  strategy = "canaryQueue" \/ run.stage \in {"unpacking", "handling"} => Belongs(run.msg, run.pod)

Counted(m, p) == Belongs(m, p) /\ publish[m] = "sent"

Continued(n) ==
  publish[n] \in {"packing", "sent"} /\ Follows[n] # None =>
    /\ publish[Follows[n]] = "sent"
    /\ publish[n] = "sent" \/ strategy = "canaryQueue" => (Side(n) <=> Side(Follows[n]))

Sided ==
  /\ \A run \in runs : Owned(run)
  /\ \A mp \in handled : Counted(mp[1], mp[2])
  /\ \A n \in Messages : Continued(n)

LEMMA SidedInit == Init => Sided
BY DEF Init, Sided, Continued

(* What is not begun to be published keeps its side.                       *)
LEMMA SidedKept ==
  ASSUME TypeOK, Sided, UNCHANGED <<options, publish, publisher, headers>>,
         \A run \in runs' : Owned(run), \A mp \in handled' : Counted(mp[1], mp[2])
  PROVE  Sided'
BY DEF Sided, Owned, Counted, Belongs, Continued, Side, options

LEMMA PublishSided ==
  ASSUME TypeOK, Tracked, Sided, NEW m \in Messages, Publishes(m)
  PROVE  Sided'
<1>1. /\ publish[m] # "sent" /\ UNCHANGED <<strategy, runs, handled>>
      /\ \A n \in Messages : n # m => publish'[n] = publish[n] /\ (Side(n)' <=> Side(n))
  BY DEF Publishes, Side, options
<1>2. \A run \in runs : run.msg \in Messages /\ publish[run.msg] = "sent" /\ run.msg # m
  BY <1>1 DEF TypeOK, Run, Tracked, Traced, Found
<1>3. \A run \in runs' : Owned(run)'
  BY <1>1, <1>2 DEF Sided, Owned, Belongs
<1>4. \A mp \in handled' : Counted(mp[1], mp[2])'
  <2>1. \A mp \in handled : mp[1] \in Messages /\ mp[1] # m
    BY <1>1 DEF TypeOK, Sided, Counted
  <2> QED BY <1>1, <2>1 DEF Sided, Counted, Belongs
<1>5. \A n \in Messages : Continued(n)'
  <2> TAKE n \in Messages
  <2> SUFFICES ASSUME publish'[n] \in {"packing", "sent"}, Follows[n] # None
               PROVE  /\ publish'[Follows[n]] = "sent"
                      /\ publish'[n] = "sent" \/ strategy' = "canaryQueue" =>
                           (Side(n)' <=> Side(Follows[n])')
    BY DEF Continued
  <2>1. Follows[n] \in Messages
    BY RabbitAssumption
  <2>2. publish[Follows[n]] = "sent" => /\ Follows[n] # m /\ publish'[Follows[n]] = "sent"
                                        /\ (Side(Follows[n])' <=> Side(Follows[n]))
    BY <1>1, <2>1
  <2>3. CASE n # m
    <3>1. /\ publish[Follows[n]] = "sent"
          /\ publish[n] = "sent" \/ strategy = "canaryQueue" => (Side(n) <=> Side(Follows[n]))
      BY <1>1, <2>3 DEF Sided, Continued
    <3> QED BY <1>1, <2>2, <2>3, <3>1
  <2>4. CASE n = m /\ publish[m] = "idle"
    <3>1. publish'[m] = "packing"
      BY <2>4 DEF Publishes
    <3>2. PICK run \in runs : /\ Follows[m] = run.msg /\ run.stage = "handling"
                              /\ publisher'[m] = run.pod
      BY <2>4, <3>1 DEF Publishes
    <3>3. run.pod \in CanaryPods <=> Side(run.msg)
      BY <3>2 DEF Sided, Owned, Belongs
    <3>4. strategy' = "canaryQueue" => (Side(m)' <=> Side(run.msg))
      BY <1>1, <3>2, <3>3 DEF Side
    <3> QED BY <1>2, <2>2, <2>4, <3>1, <3>2, <3>4
  <2>5. CASE n = m /\ publish[m] = "packing"
    <3>1. /\ publish[Follows[m]] = "sent"
          /\ strategy = "canaryQueue" => (Side(m) <=> Side(Follows[m]))
      BY <2>5 DEF Sided, Continued
    <3>2. publisher'[m] = publisher[m] /\ headers'[m] = headers[Follows[m]]
      BY <2>5 DEF Publishes
    <3>3. strategy = "canaryQueue" => (Side(m)' <=> Side(m))
      BY <1>1, <3>2 DEF Side
    <3>4. strategy # "canaryQueue" => (Side(m)' <=> Side(Follows[m]))
      BY <1>1, <3>2 DEF Side, TypeOK
    <3> QED BY <1>1, <2>2, <2>5, <3>1, <3>3, <3>4
  <2> QED BY <2>3, <2>4, <2>5 DEF Publishes
<1> QED BY <1>3, <1>4, <1>5 DEF Sided

LEMMA AdvanceSided ==
  ASSUME TypeOK, Tracked, Sided, NEW run \in runs, NEW next, Advances(run, next)
  PROVE  Sided'
<1>1. /\ runs' = (runs \ {run}) \cup {next}
      /\ UNCHANGED <<options, publish, publisher, headers>>
      /\ next.msg = run.msg /\ next.pod = run.pod
      /\ handled' = handled \cup IF next.stage = "handling" THEN {<<run.msg, run.pod>>} ELSE {}
  BY DEF Advances, Goes
<1>2. run \in Run /\ Owned(run) /\ publish[run.msg] = "sent"
  BY DEF TypeOK, Run, Sided, Tracked, Traced, Found
<1>3. \/ run.stage \in {"unpacking", "handling"}
      \/ next.stage = "unpacking" /\ ~ForSomeoneElse(run)
      \/ next.stage = "failed"
  BY DEF Advances, Goes
<1>4. Owned(next)
  <2>1. CASE strategy = "canaryQueue" \/ run.stage \in {"unpacking", "handling"}
    BY <1>1, <1>2, <2>1 DEF Owned
  <2>2. CASE strategy # "canaryQueue" /\ next.stage = "unpacking" /\ ~ForSomeoneElse(run)
    <3>1. strategy = "requeue"
      BY <2>2 DEF TypeOK
    <3> QED BY <1>1, <2>2, <3>1 DEF Owned, Belongs, Side, ForSomeoneElse
  <2>3. CASE strategy # "canaryQueue" /\ next.stage = "failed"
    BY <2>3 DEF Owned
  <2> QED BY <1>3, <2>1, <2>2, <2>3
<1>5. \A r \in runs' : Owned(r)
  BY <1>1, <1>4 DEF Sided
<1>6. next.stage = "handling" => Counted(run.msg, run.pod)
  BY <1>1, <1>2, <1>4 DEF Owned, Counted
<1>7. \A mp \in handled' : Counted(mp[1], mp[2])
  <2>1. CASE next.stage = "handling"
    BY <1>1, <1>6, <2>1 DEF Sided
  <2>2. CASE next.stage # "handling"
    BY <1>1, <2>2 DEF Sided
  <2> QED BY <2>1, <2>2
<1> QED BY <1>1, <1>5, <1>7, SidedKept

(* A queue is consumed by the side that publishes to it.                   *)
LEMMA QueuesApart ==
  ASSUME TypeOK, NEW m \in Messages, NEW p \in Pods, NEW s \in 1..Setups, Deliver(m, p, s),
         strategy = "canaryQueue"
  PROVE  Belongs(m, p)
<1> DEFINE depth == consumers[p][s]
<1>1. depth # 0
  <2>1. consumers[p] \in [1..Setups -> 0..Setups]
    BY DEF TypeOK
  <2>2. depth \in 0..Setups /\ depth > 0
    BY <2>1 DEF Deliver
  <2> QED BY <2>2, RabbitAssumption
<1>2. QueueOf(m) = QueueName(p, depth)
  BY DEF Deliver
<1> HIDE DEF depth
<1>3. None \notin CanaryPods
  BY RabbitAssumption
<1>4. CASE publisher[m] = None
  BY <1>1, <1>2, <1>3, <1>4 DEF QueueOf, QueueName, IsCanaryQueue, Belongs, Side
<1>5. CASE publisher[m] # None
  BY <1>1, <1>2, <1>5 DEF QueueOf, QueueName, IsCanaryQueue, Belongs, Side
<1> QED BY <1>4, <1>5

LEMMA DeliverSided ==
  ASSUME TypeOK, Sided, NEW m \in Messages, NEW p \in Pods, NEW s \in 1..Setups,
         Deliver(m, p, s)
  PROVE  Sided'
<1> DEFINE new == Delivered(m, p, s)
<1>1. runs' = runs \cup {new} /\ UNCHANGED <<options, publish, publisher, headers, handled>>
  BY DeliverMakes
<1>2. new.msg = m /\ new.pod = p /\ new.stage = "delivered"
  BY DEF Delivered
<1> HIDE DEF new
<1>3. Owned(new)
  BY <1>2, QueuesApart DEF Owned
<1> QED BY <1>1, <1>3, SidedKept DEF Sided

LEMMA DisconnectSided ==
  ASSUME TypeOK, Tracked, Sided, NEW p \in Pods, Disconnects(p)
  PROVE  Sided'
<1>1. /\ UNCHANGED <<strategy, headers, handled>>
      /\ \A m \in Messages : \/ publish'[m] = publish[m] /\ publisher'[m] = publisher[m]
                             \/ publish[m] = "packing" /\ publish'[m] = "idle"
      /\ \A run \in runs' :
           \/ run \in runs
           \/ \E r \in runs : run.msg = r.msg /\ run.pod = r.pod /\ run.stage = r.stage
  BY DEF Disconnects, SameButLive, options
<1>2. \A m \in Messages :
        /\ publish[m] = "sent" => publish'[m] = "sent"
        /\ publish'[m] # "idle" => publish'[m] = publish[m] /\ (Side(m)' <=> Side(m))
  BY <1>1 DEF Side, TypeOK
<1>3. \A run \in runs : run.msg \in Messages /\ publish[run.msg] = "sent"
  BY DEF TypeOK, Run, Tracked, Traced, Found
<1>4. \A run \in runs' : Owned(run)'
  BY <1>1, <1>2, <1>3 DEF Sided, Owned, Belongs
<1>5. \A mp \in handled' : Counted(mp[1], mp[2])'
  BY <1>1, <1>2 DEF Sided, Counted, Belongs, TypeOK
<1>6. \A n \in Messages : Continued(n)'
  <2> TAKE n \in Messages
  <2>1. Follows[n] # None => Follows[n] \in Messages
    BY RabbitAssumption
  <2> QED BY <1>1, <1>2, <2>1 DEF Sided, Continued
<1> QED BY <1>4, <1>5, <1>6 DEF Sided

LEMMA SidedNext == TypeOK /\ Tracked /\ Sided /\ [Next]_vars => Sided'
<1> SUFFICES ASSUME TypeOK, Tracked, Sided, [Next]_vars PROVE Sided'
  OBVIOUS
<1>1. CASE Channels
  BY <1>1, SidedKept DEF Channels, Sided
<1>2. ASSUME NEW run \in runs, Settles(run) PROVE Sided'
  BY <1>2, SidedKept DEF Settles, Sided
<1> QED BY <1>1, <1>2, Kinds, PublishSided, AdvanceSided, DisconnectSided, DeliverSided

(* The handlers of a chain of messages all run on canary pods, or all on   *)
(* others, under either strategy and however many setups wrap a channel    *)
(* (packConsume, packOptions).                                             *)
THEOREM ChainsStayOnOneSide == Spec => []ChainStaysOnOneSide
<1>1. Spec => []Sided
  BY SidedInit, SidedNext, TrackedAlways, PTL DEF Spec
<1>2. TypeOK /\ Sided => ChainStaysOnOneSide
  <2> SUFFICES ASSUME TypeOK, Sided, NEW mp \in handled, NEW nq \in handled,
                      Follows[nq[1]] = mp[1]
               PROVE  mp[2] \in CanaryPods <=> nq[2] \in CanaryPods
    BY DEF ChainStaysOnOneSide
  <2>1. mp[1] \in Messages /\ nq[1] \in Messages /\ Follows[nq[1]] # None
    BY RabbitAssumption DEF TypeOK
  <2>2. Counted(mp[1], mp[2]) /\ Counted(nq[1], nq[2]) /\ Continued(nq[1])
    BY <2>1 DEF Sided
  <2> QED BY <2>1, <2>2 DEF Counted, Continued, Belongs
<1> QED BY <1>1, <1>2, TypeCorrect, PTL

-----------------------------------------------------------------------------
(* Contents, on channels that are wrapped once.                            *)

(* As long as there is a layer to unpack, the body is as its header says.  *)
Intact(run) ==
  /\ run.stage = "delivered" => run.layers = 1
  /\ run.stage \in {"delivered", "unpacking"} =>
       \/ run.layers = 1 /\ (run.body = "deflated" <=> Compressed(run.msg))
       \/ run.layers = 0 /\ run.body = "plain"
  /\ run.stage = "handling" => run.body = "plain"
  /\ run.stage = "failed" => ~HasHeaders(run.msg)

AllIntact == \A run \in runs : Intact(run)

LEMMA IntactKept ==
  ASSUME TypeOK, AllIntact, UNCHANGED <<publisher, headers>>, \A run \in runs' : Intact(run)
  PROVE  AllIntact'
BY DEF AllIntact, Intact, Compressed, HasHeaders

LEMMA PublishIntact ==
  ASSUME TypeOK, Tracked, AllIntact, NEW m \in Messages, Publishes(m)
  PROVE  AllIntact'
<1>1. /\ publish[m] # "sent" /\ runs' = runs
      /\ \A n \in Messages : n # m => publisher'[n] = publisher[n] /\ headers'[n] = headers[n]
  BY DEF Publishes
<1>2. \A run \in runs : run.msg \in Messages /\ run.msg # m
  BY <1>1 DEF TypeOK, Run, Tracked, Traced, Found
<1> QED BY <1>1, <1>2 DEF AllIntact, Intact, Compressed, HasHeaders

LEMMA AdvanceIntact ==
  ASSUME TypeOK, AllIntact, NEW run \in runs, NEW next, Advances(run, next)
  PROVE  AllIntact'
<1>1. /\ runs' = (runs \ {run}) \cup {next} /\ UNCHANGED <<publisher, headers>>
      /\ next.msg = run.msg /\ Goes(run, next)
  BY DEF Advances, Goes
<1>2. run \in Run /\ Intact(run)
  BY DEF TypeOK, AllIntact
<1>3. Intact(next)
  <2>1. CASE next.stage = "unpacking" /\ next.layers = run.layers /\ next.body = run.body
             /\ run.stage = "delivered"
    BY <1>1, <1>2, <2>1 DEF Intact
  <2>2. CASE next.stage = "failed" /\ ~HasHeaders(run.msg)
    BY <1>1, <2>2 DEF Intact
  <2>3. CASE next.stage = "threw"
    BY <2>3 DEF Intact
  <2>4. CASE run.stage = "unpacking" /\ next = Passed(Inflate(run))
    <3>1. run.layers = 1 /\ (run.body = "deflated" <=> Compressed(run.msg))
      BY <1>2, <2>4 DEF TypeOK, Intact, HasLayer
    <3>2. Inflate(run).body = "plain" /\ Inflate(run).stage = "unpacking"
          /\ ~HasLayer(Inflate(run))
      <4>1. CASE Compressed(run.msg)
        <5>1. Inflate(run) = [run EXCEPT !.layers = run.layers - 1, !.body = "plain"]
          BY <3>1, <4>1 DEF Inflate
        <5> QED BY <1>2, <2>4, <3>1, <5>1 DEF Run, HasLayer
      <4>2. CASE ~Compressed(run.msg)
        <5>1. Inflate(run) = [run EXCEPT !.layers = run.layers - 1]
          BY <4>2 DEF Inflate
        <5>2. run.body = "plain"
          BY <1>2, <3>1, <4>2 DEF Run
        <5> QED BY <1>2, <2>4, <3>1, <5>1, <5>2 DEF Run, HasLayer
      <4> QED BY <4>1, <4>2
    <3>3. HasLayer(run)
      BY <2>4 DEF TypeOK
    <3>4. next.stage = "handling" /\ next.body = "plain"
      <4>1. next.body = Inflate(run).body /\ next.stage # "failed"
        BY <1>2, <2>4, <3>2, <3>3, PassedType
      <4>2. next.stage # "unpacking"
        BY <1>2, <2>4, <3>2 DEF Passed, Run
      <4> QED BY <3>2, <4>1, <4>2, <1>2, <2>4, <3>3, PassedType
    <3> QED BY <3>4 DEF Intact
  <2> QED BY <1>1, <2>1, <2>2, <2>3, <2>4 DEF Goes
<1>4. \A r \in runs' : Intact(r)
  BY <1>1, <1>3 DEF AllIntact
<1> QED BY <1>1, <1>4, IntactKept

LEMMA DeliverIntact ==
  ASSUME Setups = 1, TypeOK, AllIntact, NEW m \in Messages, NEW p \in Pods,
         NEW s \in 1..Setups, Deliver(m, p, s)
  PROVE  AllIntact'
<1> DEFINE new == Delivered(m, p, s)
<1>1. runs' = runs \cup {new} /\ UNCHANGED <<publisher, headers>>
  BY DeliverMakes
<1>2. consumers[p][s] = 1
  <2>1. consumers[p] \in [1..Setups -> 0..Setups]
    BY DEF TypeOK
  <2>2. consumers[p][s] \in 0..Setups /\ consumers[p][s] > 0
    BY <2>1 DEF Deliver
  <2> QED BY <2>2
<1>3. /\ new.msg = m /\ new.stage = "delivered" /\ new.layers = 1
      /\ new.body = IF Compressed(m) THEN "deflated" ELSE "plain"
  BY <1>2 DEF Delivered
<1> HIDE DEF new
<1>4. Intact(new)
  BY <1>3 DEF Intact
<1>5. \A run \in runs' : Intact(run)
  BY <1>1, <1>4 DEF AllIntact
<1> QED BY <1>1, <1>5, IntactKept

LEMMA IntactNext ==
  ASSUME Setups = 1
  PROVE  TypeOK /\ Tracked /\ AllIntact /\ [Next]_vars => AllIntact'
<1> SUFFICES ASSUME TypeOK, Tracked, AllIntact, [Next]_vars PROVE AllIntact'
  OBVIOUS
<1>1. CASE Channels
  BY <1>1, IntactKept DEF Channels, AllIntact
<1>2. ASSUME NEW run \in runs, Settles(run) PROVE AllIntact'
  BY <1>2, IntactKept DEF Settles, AllIntact
<1>3. ASSUME NEW p \in Pods, Disconnects(p) PROVE AllIntact'
  <2>1. /\ UNCHANGED headers
        /\ \A run \in runs' :
             \/ run \in runs
             \/ \E r \in runs : /\ run.msg = r.msg /\ run.stage = r.stage
                                /\ run.layers = r.layers /\ run.body = r.body
    BY <1>3 DEF Disconnects, SameButLive
  <2>2. \A run \in runs : run.msg \in Messages /\ publish[run.msg] = "sent"
    BY DEF TypeOK, Run, Tracked, Traced, Found
  <2>3. \A run \in runs : publisher'[run.msg] = publisher[run.msg]
    BY <1>3, <2>2 DEF Disconnects
  <2>4. \A run \in runs' : Intact(run)'
    BY <2>1, <2>3 DEF AllIntact, Intact, Compressed, HasHeaders
  <2> QED BY <2>4 DEF AllIntact
<1> QED BY <1>1, <1>2, <1>3, Kinds, PublishIntact, AdvanceIntact, DeliverIntact

(* Handlers get the content that was published, if the application adds    *)
(* one setup to its channel; with two it does not hold (packConsume).      *)
THEOREM OneSetupHandlesAsSent ==
  ASSUME Setups = 1 PROVE Spec => []HandledAsSent
<1>1. Init => AllIntact
  BY DEF Init, AllIntact
<1>2. TypeOK /\ Tracked /\ AllIntact /\ [Next]_vars => AllIntact'
  BY IntactNext
<1>3. AllIntact => HandledAsSent
  BY DEF AllIntact, Intact, HandledAsSent
<1> QED BY <1>1, <1>2, <1>3, TrackedAlways, PTL DEF Spec
=============================================================================
