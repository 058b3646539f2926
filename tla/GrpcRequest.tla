---------------------------- MODULE GrpcRequest ----------------------------
(***************************************************************************)
(* ServiceProxy.send of nest-grpc-helper against a server whose handlers   *)
(* are wrapped by GrpcHelperMethod: the rxjs pipeline timeout, retry,      *)
(* catchError on one side, handlers that run late, in parallel with their  *)
(* own retries, or after the caller gave up on the other.                  *)
(*                                                                         *)
(* An attempt is one subscription to the gRPC client observable, numbered  *)
(* from 1.  wire holds the attempts whose request is still on its way to   *)
(* the server, ran those whose handler has run, threw those of them that   *)
(* answered with an RPC error.                                             *)
(***************************************************************************)
EXTENDS Integers, Sequences, FiniteSets

CONSTANTS
  Calls,        \* calls of ServiceProxy.send
  RetryCount,   \* options?.retryCount ?? this.options.retryCount ?? 3
  FirstTimeout, \* options?.timeout ?? this.options.timeout ?? 3000
  RetryDelay,   \* options?.retryDelay ?? this.options.retryDelay ?? 600
  StreamLength  \* values the method answers with; 1 for a unary method

ASSUME GrpcAssumption ==
  /\ RetryCount \in [Calls -> Nat]
  /\ FirstTimeout \in Nat /\ RetryDelay \in Nat
  /\ StreamLength \in [Calls -> Nat \ {0}]

VARIABLES
  pc,       \* the observable: idle, subscribed, waiting, completed, failed, cancelled
  attempt,  \* subscriptions made
  left,     \* what is left of the first-value timer or of the retry delay
  got,      \* values the current attempt has emitted
  seen,     \* values the subscriber has been given, as <<attempt, index>>
  wire, ran, threw

vars == <<pc, attempt, left, got, seen, wire, ran, threw>>

Ended == {"completed", "failed", "cancelled"}

Init ==
  /\ pc = [c \in Calls |-> "idle"]
  /\ attempt = [c \in Calls |-> 0]
  /\ left = [c \in Calls |-> 0]
  /\ got = [c \in Calls |-> 0]
  /\ seen = [c \in Calls |-> <<>>]
  /\ wire = [c \in Calls |-> {}]
  /\ ran = [c \in Calls |-> {}]
  /\ threw = [c \in Calls |-> {}]

(***************************************************************************)
(* The pipeline.                                                           *)
(***************************************************************************)
Subscribe(c) ==
  /\ pc' = [pc EXCEPT ![c] = "subscribed"]
  /\ attempt' = [attempt EXCEPT ![c] = @ + 1]
  /\ wire' = [wire EXCEPT ![c] = @ \cup {attempt[c] + 1}]
  /\ left' = [left EXCEPT ![c] = FirstTimeout]
  /\ got' = [got EXCEPT ![c] = 0]
  /\ UNCHANGED <<seen, ran, threw>>

Send(c) == pc[c] = "idle" /\ Subscribe(c)

(* retry({ count, delay }): the error of the attempt is swallowed while the *)
(* count lasts, and catchError wraps it afterwards.                         *)
MayRetryOneMore(c) == attempt[c] <= RetryCount[c] + 1
MayRetryOneLess(c) == attempt[c] < RetryCount[c]
MayRetry(c) == attempt[c] <= RetryCount[c]

AttemptFails(c) ==
  /\ IF MayRetry(c)
     THEN /\ pc' = [pc EXCEPT ![c] = "waiting"]
          /\ left' = [left EXCEPT ![c] = RetryDelay]
     ELSE pc' = [pc EXCEPT ![c] = "failed"] /\ UNCHANGED left
  /\ UNCHANGED <<attempt, got, seen, wire, ran, threw>>

(* timeout({ first }): once a value has come no timer is left.              *)
TimerArmedNever(c) == FALSE
TimerArmed(c) == got[c] = 0

FirstValueTimesOut(c) ==
  /\ pc[c] = "subscribed" /\ TimerArmed(c) /\ left[c] = 0
  /\ AttemptFails(c)

Resubscribe(c) == pc[c] = "waiting" /\ left[c] = 0 /\ Subscribe(c)

(***************************************************************************)
(* What reaches the current subscription.  Unsubscribing from an attempt   *)
(* detaches its listeners, so replies of earlier attempts go nowhere.      *)
(***************************************************************************)
AnyAnswered(c) == ran[c] \ threw[c]
CurrentAnswered(c) == {attempt[c]} \cap (ran[c] \ threw[c])

(* A unary call ends with its value; a server stream goes on. *)
AfterValue(c) == IF StreamLength[c] = 1 THEN "completed" ELSE "subscribed"

Emit(c) ==
  /\ pc[c] = "subscribed"
  /\ got[c] < StreamLength[c]
  /\ \E a \in CurrentAnswered(c) : seen' = [seen EXCEPT ![c] = Append(@, <<a, got[c] + 1>>)]
  /\ got' = [got EXCEPT ![c] = @ + 1]
  /\ pc' = [pc EXCEPT ![c] = AfterValue(c)]
  /\ UNCHANGED <<attempt, left, wire, ran, threw>>

(* A server stream ends after its last value.                              *)
Complete(c) ==
  /\ pc[c] = "subscribed"
  /\ got[c] = StreamLength[c]
  /\ pc' = [pc EXCEPT ![c] = "completed"]
  /\ UNCHANGED <<attempt, left, got, seen, wire, ran, threw>>

(* The handler's RPC error, or a connection that breaks at any moment.     *)
ErrorArrives(c) ==
  /\ pc[c] = "subscribed"
  /\ AttemptFails(c)

(* The subscriber leaves: the timers go with the subscription.             *)
Unsubscribe(c) ==
  /\ pc[c] \in {"subscribed", "waiting"}
  /\ pc' = [pc EXCEPT ![c] = "cancelled"]
  /\ UNCHANGED <<attempt, left, got, seen, wire, ran, threw>>

(***************************************************************************)
(* The server.  GrpcHelperMethod answers a value, an array and a           *)
(* GrpcException with a reply; any other exception, and a handler that     *)
(* returns null or undefined, becomes an RPC error.                        *)
(***************************************************************************)
HandlerResults == {"value", "array", "nothing", "grpcException", "otherException"}

IsReply(res) == res \in {"value", "array", "grpcException"}

Execute(c) ==
  \E a \in wire[c], res \in HandlerResults :
    /\ wire' = [wire EXCEPT ![c] = @ \ {a}]
    /\ ran' = [ran EXCEPT ![c] = @ \cup {a}]
    /\ threw' = IF IsReply(res) THEN threw ELSE [threw EXCEPT ![c] = @ \cup {a}]
    /\ UNCHANGED <<pc, attempt, left, got, seen>>

(* A request is lost, or cancelled before its handler starts.              *)
LoseRequest(c) ==
  \E a \in wire[c] :
    /\ wire' = [wire EXCEPT ![c] = @ \ {a}]
    /\ UNCHANGED <<pc, attempt, left, got, seen, ran, threw>>

Less(n) == IF n > 0 THEN n - 1 ELSE 0

Tick ==
  /\ \E c \in Calls : left[c] > 0
  /\ left' = [c \in Calls |-> Less(left[c])]
  /\ UNCHANGED <<pc, attempt, got, seen, wire, ran, threw>>

Client(c) == FirstValueTimesOut(c) \/ Resubscribe(c)
Environment(c) ==
  \/ Send(c) \/ Emit(c) \/ Complete(c) \/ ErrorArrives(c) \/ Unsubscribe(c)
  \/ Execute(c) \/ LoseRequest(c)

Next == Tick \/ \E c \in Calls : Client(c) \/ Environment(c)

Spec == Init /\ [][Next]_vars

(* Timers run; the server and the caller owe nothing.                      *)
Fairness == WF_vars(Tick) /\ \A c \in Calls : WF_vars(Client(c))

FairSpec == Spec /\ Fairness

-----------------------------------------------------------------------------
TypeOK ==
  /\ pc \in [Calls -> {"idle", "subscribed", "waiting"} \cup Ended]
  /\ attempt \in [Calls -> Nat]
  /\ left \in [Calls -> Nat]
  /\ got \in [Calls -> Nat]
  /\ seen \in [Calls -> Seq(Nat \X Nat)]
  /\ wire \in [Calls -> SUBSET Nat]
  /\ ran \in [Calls -> SUBSET Nat]
  /\ threw \in [Calls -> SUBSET Nat]

(* Timeouts, retries and stragglers together run the handler of a call at    *)
(* most RetryCount + 1 times (retry's count is a total, not per error).       *)
ExecutionsBounded ==
  \A c \in Calls : Cardinality(ran[c]) <= RetryCount[c] + 1

(* The subscriber is never given a value of an attempt that was abandoned:    *)
(* what it has of the current attempt is that attempt's values from the       *)
(* first on, and earlier values belong to earlier attempts.                   *)
ValuesOfCurrentAttempt ==
  \A c \in Calls :
    /\ got[c] <= Len(seen[c])
    /\ \A i \in 1..Len(seen[c]) :
         IF i > Len(seen[c]) - got[c]
         THEN seen[c][i] = <<attempt[c], i - (Len(seen[c]) - got[c])>>
         ELSE seen[c][i][1] < attempt[c]

(* A call fails only when every attempt was made, and a unary call that fails *)
(* never gave a value.                                                        *)
FailureIsFinal ==
  \A c \in Calls :
    pc[c] = "failed" =>
      /\ attempt[c] = RetryCount[c] + 1
      /\ StreamLength[c] = 1 => seen[c] = <<>>

(* Whatever the server does a call ends, or is in the middle of a stream.     *)
CallEnds ==
  \A c \in Calls : pc[c] = "subscribed" ~> (pc[c] \in Ended \/ got[c] > 0)

-----------------------------------------------------------------------------
(* The call seen from outside: an answer is complete, everything else pends.  *)
StateOf(c) ==
  CASE pc[c] = "completed" -> "answered"
    [] pc[c] \in {"subscribed", "waiting"} -> "pending"
    [] OTHER -> pc[c]

Abstract == INSTANCE AtLeastOnceCall WITH
  Budget <- [c \in Calls |-> RetryCount[c] + 1],
  state <- [c \in Calls |-> StateOf(c)],
  effects <- [c \in Calls |-> Cardinality(ran[c])]

(* The pipeline implements the at-least-once call it is meant to be.          *)
ImplementsAtLeastOnce == Abstract!Spec
===========================================================================
