------------------------------ MODULE RabbitMQ ------------------------------
(***************************************************************************)
(* RabbitMQService of nest-rabbitmq: pods of one application that publish  *)
(* to and consume from one queue, some of them canary pods, around a       *)
(* broker.  The service renames queues (strategy canaryQueue) or gives     *)
(* messages of the other side back (strategy requeue), deflates and        *)
(* inflates contents, and does so by wrapping the methods of the channel   *)
(* in every setup that runs on it, so that a channel with several setups   *)
(* is wrapped several times.                                               *)
(*                                                                         *)
(* A queue is the number of `canary-` prefixes before the application's    *)
(* name.  The broker and amqp-connection-manager are external: a channel   *)
(* that drops gives its unacknowledged messages back to their queue, and a  *)
(* new one reruns the setups.  A callback that rejects is an unhandled      *)
(* rejection: it ends the process of its pod, which is then started again. *)
(***************************************************************************)
EXTENDS Integers, FiniteSets

CONSTANTS
  Pods, CanaryPods,
  Messages, None,
  Follows,      \* the message whose handler publishes this one, or None
  Throwing,     \* the handler throws before it acknowledges them
  Size, DeflatedSize, MinLength, LengthLimit,
  Setups,       \* how many setups the application adds to its channel
  Late,         \* those that call consume after an await
  Prefetch,
  MaxEvents     \* bound: messages from outside, requests and lost connections

ASSUME RabbitAssumption ==
  /\ CanaryPods \subseteq Pods
  /\ None \notin Messages \cup Pods
  /\ Follows \in [Messages -> Messages \cup {None}]
  /\ Throwing \subseteq Messages
  /\ Size \in [Messages -> Nat] /\ DeflatedSize \in [Messages -> Nat]
  /\ MinLength \in Nat /\ LengthLimit \in Nat
  /\ Setups \in Nat \ {0} /\ Late \subseteq 1..Setups
  /\ Prefetch \in Nat \ {0} /\ MaxEvents \in Nat

VARIABLES
  strategy,   \* options.canary.strategy
  onError,    \* whether options.onError is given
  wraps,      \* how often each pod's channel is wrapped, 0 without a channel
  consumers,  \* of each pod: the depth of wrapping each setup consumed at, or 0
  publish,    \* of each message: idle, packing, rejected, sent
  publisher,  \* the pod that publishes it, None for the outside
  headers,    \* a canary header among them: marked; else plain; none at all: absent
  place,      \* none, queued, unacked, acked
  runs,       \* callbacks under way
  handled,    \* <<message, pod>> for each call of a handler (history)
  events      \* messages from outside, requests and lost connections so far

vars == <<strategy, onError, wraps, consumers, publish, publisher, headers, place, runs, handled, events>>
Headers == {"marked", "plain", "absent"}
HasHeaders(m) == headers[m] # "absent"

options == <<strategy, onError>>
channels == <<wraps, consumers>>
sending == <<publish, publisher, headers>>

Init ==
  /\ strategy \in {"requeue", "canaryQueue"} /\ onError \in BOOLEAN
  /\ wraps = [p \in Pods |-> 0]
  /\ consumers = [p \in Pods |-> [s \in 1..Setups |-> 0]]
  /\ publish = [m \in Messages |-> "idle"]
  /\ publisher = [m \in Messages |-> None]
  /\ headers = [m \in Messages |-> "plain"]
  /\ place = [m \in Messages |-> "none"]
  /\ runs = {}
  /\ handled = {}
  /\ events = 0

(* getQueueName, applied depth times. *)
IsCanaryQueue(p) == strategy = "canaryQueue" /\ p \in CanaryPods
QueueName(p, depth) == IF IsCanaryQueue(p) THEN depth ELSE 0

(***************************************************************************)
(* The channel.  On a new channel every setup is started in turn, wrapping *)
(* once more; one that awaits something first consumes when all have       *)
(* wrapped.                                                                *)
(***************************************************************************)
Connect(p) ==
  /\ wraps[p] = 0
  /\ wraps' = [wraps EXCEPT ![p] = Setups]
  /\ consumers' = [consumers EXCEPT ![p] = [s \in 1..Setups |-> IF s \in Late THEN 0 ELSE s]]
  /\ UNCHANGED <<options, sending, place, runs, handled, events>>

ConsumeLate(p, s) ==
  /\ wraps[p] > 0 /\ s \in Late /\ consumers[p][s] = 0
  /\ consumers' = [consumers EXCEPT ![p][s] = wraps[p]]
  /\ UNCHANGED <<options, wraps, sending, place, runs, handled, events>>

(* onError hears of what a callback threw once the outermost layer had        *)
(* looked at the headers; otherwise the callback rejects.                     *)
Ended(run) == run.stage \in {"failed", "threw"}
Told(run) == onError /\ Ended(run) /\ HasHeaders(run.msg)
Rejects(run) == Ended(run) /\ ~Told(run)

(* The broker takes back what the pod has not acknowledged. *)
Disconnect(p) ==
  /\ wraps' = [wraps EXCEPT ![p] = 0]
  /\ consumers' = [consumers EXCEPT ![p] = [s \in 1..Setups |-> 0]]
  /\ place' = [m \in Messages |->
                 IF \E run \in runs : run.msg = m /\ run.pod = p /\ run.live
                 THEN "queued" ELSE place[m]]

GoesOn(run) == run.stage \in {"unpacking", "handling"} \/ Rejects(run)

Event == events < MaxEvents /\ events' = events + 1

(* What was on its way is gone; callbacks that await something go on. *)
Drop(p) ==
  /\ wraps[p] > 0 /\ Event
  /\ Disconnect(p)
  /\ runs' = {run \in runs : run.pod # p}
               \cup {[run EXCEPT !.live = FALSE] : run \in {r \in runs : r.pod = p /\ GoesOn(r)}}
  /\ UNCHANGED <<options, sending, handled>>

(* An unhandled rejection: the process ends with all its callbacks, and what  *)
(* they were about to publish is not; it is as it was before they began to.   *)
ProcessEnds(p) ==
  /\ \E run \in runs : run.pod = p /\ Rejects(run)
  /\ Disconnect(p)
  /\ runs' = {run \in runs : run.pod # p}
  /\ LET unsent == {m \in Messages : publish[m] = "packing" /\ publisher[m] = p}
     IN  /\ publish' = [m \in Messages |-> IF m \in unsent THEN "idle" ELSE publish[m]]
         /\ publisher' = [m \in Messages |-> IF m \in unsent THEN None ELSE publisher[m]]
  /\ UNCHANGED <<options, headers, handled, events>>

(***************************************************************************)
(* Publishing.  packMessage awaits the compression; a message that is too  *)
(* long even so rejects the caller's promise.  What is packed waits in the *)
(* process until there is a channel.  What a handler publishes carries the *)
(* propagated headers of the message it handles.                           *)
(***************************************************************************)
Compressed(m) == publisher[m] # None /\ Size[m] > MinLength
Length(m) == IF Compressed(m) THEN DeflatedSize[m] ELSE Size[m]
TooLong(m) == Length(m) > LengthLimit

PublishFromOutside(m) ==
  /\ Follows[m] = None /\ publish[m] = "idle" /\ Event
  /\ publish' = [publish EXCEPT ![m] = "sent"]
  /\ \E h \in Headers : headers' = [headers EXCEPT ![m] = h]
  /\ place' = [place EXCEPT ![m] = "queued"]
  /\ UNCHANGED <<options, channels, publisher, runs, handled>>

(* sendToQueue, called while a pod serves a request that may be a canary's. *)
PublishFromRequest(m, p) ==
  /\ Follows[m] = None /\ publish[m] = "idle" /\ Event
  /\ publish' = [publish EXCEPT ![m] = "packing"]
  /\ publisher' = [publisher EXCEPT ![m] = p]
  /\ UNCHANGED <<options, channels, headers, place, runs, handled>>

(* The same, called by the handler of the message it follows. *)
StartPublish(m, run) ==
  /\ publish[m] = "idle" /\ Follows[m] = run.msg /\ run.stage = "handling"
  /\ publish' = [publish EXCEPT ![m] = "packing"]
  /\ publisher' = [publisher EXCEPT ![m] = run.pod]
  /\ UNCHANGED <<options, channels, headers, place, runs, handled, events>>

Unpropagated(m) == "plain"
Propagated(m) == headers[m]

(* packOptions, once the content is encoded; a request has headers of its own. *)
PackedHeaders(m) ==
  IF Follows[m] = None THEN Headers \ {"absent"} ELSE {Propagated(Follows[m])}

PackingFails(m) ==
  /\ publish[m] = "packing" /\ TooLong(m)
  /\ publish' = [publish EXCEPT ![m] = "rejected"]
  /\ publisher' = [publisher EXCEPT ![m] = None]
  /\ UNCHANGED <<options, channels, headers, place, runs, handled, events>>

Packed(m) ==
  /\ publish[m] = "packing" /\ ~TooLong(m) /\ wraps[publisher[m]] > 0
  /\ \E h \in PackedHeaders(m) : headers' = [headers EXCEPT ![m] = h]
  /\ publish' = [publish EXCEPT ![m] = "sent"]
  /\ place' = [place EXCEPT ![m] = "queued"]
  /\ UNCHANGED <<options, channels, publisher, runs, handled, events>>

(* The wrapper is wrapped once, by createChannel. *)
QueueOfWrappedTwice(m) == IF publisher[m] = None THEN 0 ELSE QueueName(publisher[m], 2)
QueueOf(m) == IF publisher[m] = None THEN 0 ELSE QueueName(publisher[m], 1)

(***************************************************************************)
(* Consuming: the callback packConsume installs, once for each wrapping,   *)
(* and around each other.                                                  *)
(***************************************************************************)
Unacked(p) == {run \in runs : run.pod = p /\ run.live}

Deliver(m, p, s) ==
  /\ place[m] = "queued" /\ consumers[p][s] > 0
  /\ QueueOf(m) = QueueName(p, consumers[p][s])
  /\ Cardinality(Unacked(p)) < Prefetch
  /\ place' = [place EXCEPT ![m] = "unacked"]
  /\ runs' = runs \cup {[msg |-> m, pod |-> p, live |-> TRUE, stage |-> "delivered",
                         layers |-> consumers[p][s],
                         body |-> IF Compressed(m) THEN "deflated" ELSE "plain"]}
  /\ UNCHANGED <<options, channels, sending, handled, events>>

Replace(run, next) == runs' = (runs \ {run}) \cup {next}

ForSomeoneElse(run) ==
  strategy = "requeue" /\ ~(run.pod \in CanaryPods <=> headers[run.msg] = "marked")

PlaceAfterDiscard == "none"
PlaceAfterNack == "queued"

(* nack(msg, false, true), before anything is awaited. *)
GiveBack(run) ==
  /\ run.stage = "delivered"
  /\ HasHeaders(run.msg) /\ ForSomeoneElse(run)
  /\ place' = [place EXCEPT ![run.msg] = PlaceAfterNack]
  /\ runs' = runs \ {run}
  /\ UNCHANGED <<options, channels, sending, handled, events>>

(* Without headers the strategy's check throws, or the trace context does. *)
Inspect(run) ==
  /\ run.stage = "delivered"
  /\ HasHeaders(run.msg) => ~ForSomeoneElse(run)
  /\ Replace(run, [run EXCEPT !.stage = IF HasHeaders(run.msg) THEN "unpacking" ELSE "failed"])
  /\ UNCHANGED <<options, channels, sending, place, handled, events>>

(* unpackMessage goes by the header, which says deflate for ever; inflating *)
(* what is inflated already throws.                                         *)
Inflate(run) ==
  CASE ~Compressed(run.msg) -> [run EXCEPT !.layers = @ - 1]
    [] Compressed(run.msg) /\ run.body = "deflated" ->
         [run EXCEPT !.layers = @ - 1, !.body = "plain"]
    [] OTHER -> [run EXCEPT !.stage = "failed"]

HasLayerOneMore(run) == run.layers >= 0
HasLayer(run) == run.layers > 0

(* What was unpacked goes straight to the callback below: that of the next    *)
(* layer, or the handler.                                                     *)
Passed(run) ==
  IF run.stage = "unpacking" /\ ~HasLayer(run) THEN [run EXCEPT !.stage = "handling"] ELSE run

Unpack(run) ==
  /\ run.stage = "unpacking"
  /\ LET next == Passed(Inflate(run))
     IN  /\ Replace(run, next)
         /\ handled' = IF next.stage = "handling" THEN handled \cup {<<run.msg, run.pod>>} ELSE handled
  /\ UNCHANGED <<options, channels, sending, place, events>>

(* The handler publishes what it has to and acknowledges, or throws; on a     *)
(* channel that is gone the acknowledgement may throw too.  A message whose   *)
(* callback onError hears of stays as it is, and keeps its slot.              *)
HandlerEnds(run) ==
  /\ run.stage = "handling"
  /\ \A m \in Messages : Follows[m] = run.msg => publish[m] # "idle"
  /\ \/ /\ run.msg \in Throwing \/ ~run.live
        /\ Replace(run, [run EXCEPT !.stage = "threw"]) /\ UNCHANGED place
     \/ /\ run.msg \notin Throwing
        /\ runs' = runs \ {run}
        /\ place' = IF run.live THEN [place EXCEPT ![run.msg] = "acked"] ELSE place
  /\ UNCHANGED <<options, channels, sending, handled, events>>

Callback(run) ==
  \/ GiveBack(run) \/ Inspect(run) \/ Unpack(run) \/ HandlerEnds(run)
  \/ \E m \in Messages : StartPublish(m, run)

Callbacks(m, p) == \E run \in runs : run.msg = m /\ run.pod = p /\ Callback(run)

Starts(p) == Connect(p) \/ \E s \in 1..Setups : ConsumeLate(p, s)

Next ==
  \/ \E run \in runs : Callback(run)
  \/ \E m \in Messages : PublishFromOutside(m) \/ PackingFails(m) \/ Packed(m)
  \/ \E p \in Pods : Starts(p) \/ Drop(p) \/ ProcessEnds(p)
  \/ \E m \in Messages, p \in Pods : PublishFromRequest(m, p)
  \/ \E m \in Messages, p \in Pods, s \in 1..Setups : Deliver(m, p, s)

Spec == Init /\ [][Next]_vars

(* Promises resolve, handlers end, processes with an unhandled rejection end  *)
(* and are started again, connections come back; the broker takes             *)
(* its consumers in turn, so a message that is offered again and again is    *)
(* offered to each of them.                                                  *)
Fairness ==
  /\ \A m \in Messages, p \in Pods : WF_vars(Callbacks(m, p))
  /\ \A m \in Messages : WF_vars(Packed(m) \/ PackingFails(m))
  /\ \A p \in Pods : WF_vars(Starts(p)) /\ WF_vars(ProcessEnds(p))
  /\ \A m \in Messages, p \in Pods, s \in 1..Setups : SF_vars(Deliver(m, p, s))

FairSpec == Spec /\ Fairness

-----------------------------------------------------------------------------
(* Whoever handles a message and whoever handles what that handler published *)
(* are both canary pods or both not, under either strategy, so a canary       *)
(* release sees whole chains of messages (packConsume, packOptions).          *)
ChainStaysOnOneSide ==
  \A mp, nq \in handled :
    Follows[nq[1]] = mp[1] => (mp[2] \in CanaryPods <=> nq[2] \in CanaryPods)

(* A message that was sent is in the queue, with exactly one live callback,   *)
(* or acknowledged; and it is acknowledged only after a handler had it,       *)
(* whatever is given back, dropped and delivered again in between.            *)
NothingLost ==
  \A m \in Messages :
    /\ publish[m] = "sent" <=> place[m] # "none"
    /\ Cardinality({run \in runs : run.msg = m /\ run.live})
         = IF place[m] = "unacked" THEN 1 ELSE 0
    /\ place[m] = "acked" => \E p \in Pods : <<m, p>> \in handled

(* Handlers get the content that was published: a callback fails before its   *)
(* handler only on a message without headers.                                 *)
HandledAsSent ==
  \A run \in runs :
    /\ run.stage = "failed" => ~HasHeaders(run.msg)
    /\ run.stage = "handling" => run.body = "plain"

(* Every message gets to a handler, however often it is delivered to the      *)
(* wrong side first, and although messages that onError heard of keep their   *)
(* slots: as long as a pod of its side has one that is not kept for ever.     *)
(* Nothing is said when callbacks reject again and again, as they do for a    *)
(* message without headers, which is offered to pod after pod for ever.       *)
Suits(p, m) ==
  p \in CanaryPods <=> IF strategy = "requeue" THEN headers[m] = "marked"
                                              ELSE publisher[m] \in CanaryPods
Clogged(p) == Cardinality({run \in Unacked(p) : Told(run)}) >= Prefetch

EveryMessageHandled ==
  \/ []<>(\E run \in runs : Rejects(run))
  \/ \A m \in Messages :
       (publish[m] = "sent" /\ HasHeaders(m)) ~>
         \/ \E p \in Pods : <<m, p>> \in handled
         \/ \A p \in Pods : Suits(p, m) => Clogged(p)
=============================================================================
