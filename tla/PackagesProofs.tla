----------------------------- MODULE PackagesProofs -----------------------------
(***************************************************************************)
(* What the packages around nico keep.  nest-grpc-helper: what GrpcRequest *)
(* keeps for every set of calls, budget, delay and length of stream, and   *)
(* that it implements AtLeastOnceCall (its fairness is not used); what     *)
(* GrpcHelper answers, for all data, exceptions and packages.  node-qrcode *)
(* and node-proxy, of NodePackages: every logo, and every cookie.  nico,   *)
(* of NicoMiddlewares: every order of adding middlewares and of init.      *)
(***************************************************************************)
EXTENDS GrpcRequest, GrpcHelper, NodePackages, NicoMiddlewares,
        SequenceTheorems, FiniteSetTheorems, WellFoundedInduction, TLAPS

-----------------------------------------------------------------------------
(* The steps that change an attempt, by what they change.                  *)

Retries(c) == FirstValueTimesOut(c) \/ ErrorArrives(c)
Starts(c) == Send(c) \/ Resubscribe(c)

(* Every step is one of these; an attempt ends in one way only.            *)
LEMMA Steps ==
  ASSUME [Next]_vars
  PROVE  \/ Tick \/ UNCHANGED vars
         \/ \E c \in Calls :
              \/ Starts(c) \/ Retries(c) \/ Emit(c) \/ Complete(c) \/ Unsubscribe(c)
              \/ Execute(c) \/ LoseRequest(c)
BY DEF Next, Client, Environment, Starts, Retries

-----------------------------------------------------------------------------
(* Type correctness.                                                       *)

LEMMA TypeInit == Init => TypeOK
BY DEF Init, TypeOK, Ended

LEMMA TypeNext == TypeOK /\ [Next]_vars => TypeOK'
<1> SUFFICES ASSUME TypeOK, [Next]_vars PROVE TypeOK'
  OBVIOUS
<1> USE DEF Ended
<1>1. ASSUME NEW c \in Calls, Starts(c) PROVE TypeOK'
  <2>1. Subscribe(c)
    BY <1>1 DEF Starts, Send, Resubscribe
  <2>2. attempt[c] + 1 \in Nat /\ wire[c] \cup {attempt[c] + 1} \in SUBSET Nat
    BY DEF TypeOK
  <2>3. /\ pc' \in [Calls -> {"idle", "subscribed", "waiting"} \cup Ended]
        /\ attempt' \in [Calls -> Nat] /\ left' \in [Calls -> Nat]
        /\ got' \in [Calls -> Nat]
    BY <2>1, <2>2, GrpcAssumption DEF Subscribe, TypeOK
  <2>4. wire' \in [Calls -> SUBSET Nat]
    BY <2>1, <2>2 DEF Subscribe, TypeOK
  <2> QED BY <2>1, <2>3, <2>4 DEF Subscribe, TypeOK
<1>2. ASSUME NEW c \in Calls, Retries(c) PROVE TypeOK'
  BY <1>2, GrpcAssumption
  DEF TypeOK, Retries, FirstValueTimesOut, ErrorArrives, AttemptFails
<1>3. ASSUME NEW c \in Calls, Emit(c) PROVE TypeOK'
  <2>1. PICK a \in CurrentAnswered(c) : seen' = [seen EXCEPT ![c] = Append(@, <<a, got[c] + 1>>)]
    BY <1>3 DEF Emit
  <2>2. a \in Nat
    BY <2>1 DEF CurrentAnswered, TypeOK
  <2>3. seen[c] \in Seq(Nat \X Nat) /\ <<a, got[c] + 1>> \in Nat \X Nat
    BY <2>2 DEF TypeOK
  <2>4. seen' \in [Calls -> Seq(Nat \X Nat)]
    BY <2>1, <2>3 DEF TypeOK
  <2> QED BY <1>3, <2>4 DEF Emit, TypeOK, AfterValue
<1>4. ASSUME NEW c \in Calls, Complete(c) \/ Unsubscribe(c) PROVE TypeOK'
  BY <1>4 DEF TypeOK, Complete, Unsubscribe
<1>5. ASSUME NEW c \in Calls, Execute(c) \/ LoseRequest(c) PROVE TypeOK'
  <2>1. PICK a \in wire[c] : wire' = [wire EXCEPT ![c] = @ \ {a}]
    BY <1>5 DEF Execute, LoseRequest
  <2>2. a \in Nat /\ wire' \in [Calls -> SUBSET Nat]
    BY <2>1 DEF TypeOK
  <2>3. CASE LoseRequest(c)
    BY <2>2, <2>3 DEF TypeOK, LoseRequest
  <2>4. CASE Execute(c)
    <3>1. PICK b \in wire[c] :
            /\ ran' = [ran EXCEPT ![c] = @ \cup {b}]
            /\ threw' = threw \/ threw' = [threw EXCEPT ![c] = @ \cup {b}]
      BY <2>4 DEF Execute
    <3>2. /\ ran[c] \cup {b} \in SUBSET Nat /\ threw[c] \cup {b} \in SUBSET Nat
          /\ ran \in [Calls -> SUBSET Nat] /\ threw \in [Calls -> SUBSET Nat]
      BY <3>1 DEF TypeOK
    <3>3. ran' \in [Calls -> SUBSET Nat]
      BY <3>1, <3>2
    <3>4. threw' \in [Calls -> SUBSET Nat]
      BY <3>1, <3>2
    <3> QED BY <2>2, <2>4, <3>3, <3>4 DEF TypeOK, Execute
  <2> QED BY <1>5, <2>3, <2>4
<1>6. CASE Tick
  BY <1>6 DEF TypeOK, Tick, Less
<1>7. CASE UNCHANGED vars
  BY <1>7 DEF TypeOK, vars
<1> QED BY Steps, <1>1, <1>2, <1>3, <1>4, <1>5, <1>6, <1>7

(* The state of the pipeline and of the server keeps its type.             *)
THEOREM TypeCorrect == Spec => []TypeOK
<1>1. Init => TypeOK
  BY TypeInit
<1>2. TypeOK /\ [Next]_vars => TypeOK'
  BY TypeNext
<1> QED BY <1>1, <1>2, PTL DEF Spec

-----------------------------------------------------------------------------
(* The attempts that reached the server are among those the budget allowed, *)
(* each of them once.                                                       *)

OnBudget(c) ==
  /\ attempt[c] <= RetryCount[c] + 1
  /\ pc[c] = "waiting" => attempt[c] <= RetryCount[c]
  /\ pc[c] = "failed" => attempt[c] = RetryCount[c] + 1
  /\ pc[c] = "idle" => attempt[c] = 0
  /\ wire[c] \subseteq 1..attempt[c]
  /\ ran[c] \subseteq 1..attempt[c]
  /\ wire[c] \cap ran[c] = {}

Attempts == \A c \in Calls : OnBudget(c)

LEMMA AttemptsInit == Init => Attempts
BY GrpcAssumption DEF Init, Attempts, OnBudget

LEMMA AttemptsNext == TypeOK /\ Attempts /\ [Next]_vars => Attempts'
<1> SUFFICES ASSUME TypeOK, Attempts, [Next]_vars, NEW d \in Calls PROVE OnBudget(d)'
  BY DEF Attempts
<1> USE GrpcAssumption DEF Ended
<1>0. OnBudget(d) /\ attempt[d] \in Nat /\ RetryCount[d] \in Nat
  BY DEF Attempts, TypeOK
<1>1. ASSUME NEW c \in Calls, Starts(c) PROVE OnBudget(d)'
  <2>1. attempt[c] + 1 <= RetryCount[c] + 1 /\ attempt[c] \in Nat
    BY <1>1 DEF Attempts, OnBudget, TypeOK, Starts, Send, Resubscribe
  <2>2. Subscribe(c)
    BY <1>1 DEF Starts, Send, Resubscribe
  <2>3. CASE c = d
    <3>1. /\ pc'[d] = "subscribed" /\ attempt'[d] = attempt[d] + 1
          /\ wire'[d] = wire[d] \cup {attempt[d] + 1} /\ ran'[d] = ran[d]
      BY <2>2, <2>3 DEF Subscribe, TypeOK
    <3> QED BY <1>0, <2>1, <2>3, <3>1 DEF OnBudget
  <2>4. CASE c # d
    BY <1>0, <2>2, <2>4 DEF OnBudget, Subscribe, TypeOK
  <2> QED BY <2>3, <2>4
<1>2. ASSUME NEW c \in Calls, Retries(c) PROVE OnBudget(d)'
  BY <1>0, <1>2
  DEF OnBudget, TypeOK, Retries, FirstValueTimesOut, ErrorArrives, AttemptFails, MayRetry
<1>3. ASSUME NEW c \in Calls, Emit(c) PROVE OnBudget(d)'
  BY <1>0, <1>3 DEF OnBudget, TypeOK, Emit, AfterValue
<1>4. ASSUME NEW c \in Calls, Complete(c) \/ Unsubscribe(c) PROVE OnBudget(d)'
  BY <1>0, <1>4 DEF OnBudget, TypeOK, Complete, Unsubscribe
<1>5. ASSUME NEW c \in Calls, Execute(c) \/ LoseRequest(c) PROVE OnBudget(d)'
  <2>1. UNCHANGED <<pc, attempt>>
    BY <1>5 DEF Execute, LoseRequest
  <2>2. PICK a \in wire[c] :
          /\ wire' = [wire EXCEPT ![c] = @ \ {a}]
          /\ ran' = ran \/ ran' = [ran EXCEPT ![c] = @ \cup {a}]
    BY <1>5 DEF Execute, LoseRequest
  <2>3. CASE c = d
    <3>1. /\ wire'[d] = wire[d] \ {a}
          /\ ran'[d] = ran[d] \/ ran'[d] = ran[d] \cup {a}
      BY <2>2, <2>3 DEF TypeOK
    <3> QED BY <1>0, <2>1, <2>2, <2>3, <3>1 DEF OnBudget
  <2>4. CASE c # d
    BY <1>0, <2>1, <2>2, <2>4 DEF OnBudget, TypeOK
  <2> QED BY <2>3, <2>4
<1>6. CASE Tick \/ UNCHANGED vars
  BY <1>0, <1>6 DEF OnBudget, Tick, vars
<1> QED BY Steps, <1>1, <1>2, <1>3, <1>4, <1>5, <1>6

(* A subset of the first n attempts has at most n members.                 *)
LEMMA FirstOnes ==
  ASSUME NEW n \in Nat, NEW S, S \subseteq 1..n
  PROVE  IsFiniteSet(S) /\ Cardinality(S) \in Nat /\ Cardinality(S) <= n
<1>1. IsFiniteSet(1..n) /\ Cardinality(1..n) = n
  BY FS_Interval
<1> QED BY <1>1, FS_Subset, FS_CardinalityType

LEMMA AttemptsAlways == Spec => [](TypeOK /\ Attempts)
<1>1. Init => TypeOK /\ Attempts
  BY TypeInit, AttemptsInit
<1>2. TypeOK /\ Attempts /\ [Next]_vars => (TypeOK /\ Attempts)'
  BY TypeNext, AttemptsNext
<1> QED BY <1>1, <1>2, PTL DEF Spec

(* Timeouts, retries and handlers that run late together never run the     *)
(* handler of a call more often than its budget says.                      *)
THEOREM ExecutionsAreBounded == Spec => []ExecutionsBounded
<1>1. TypeOK /\ Attempts => ExecutionsBounded
  <2> SUFFICES ASSUME TypeOK, Attempts, NEW c \in Calls
               PROVE  Cardinality(ran[c]) <= RetryCount[c] + 1
    BY DEF ExecutionsBounded
  <2>1. /\ attempt[c] \in Nat /\ RetryCount[c] \in Nat
        /\ ran[c] \subseteq 1..attempt[c] /\ attempt[c] <= RetryCount[c] + 1
    BY GrpcAssumption DEF TypeOK, Attempts, OnBudget
  <2> QED BY <2>1, FirstOnes
<1> QED BY <1>1, AttemptsAlways, PTL

-----------------------------------------------------------------------------
(* What the subscriber has been given.                                     *)

(* The newest values are those of the current attempt.                     *)
Newest(c) ==
  /\ got[c] <= Len(seen[c])
  /\ \A i \in 1..Len(seen[c]) :
       IF i > Len(seen[c]) - got[c]
       THEN seen[c][i] = <<attempt[c], i - (Len(seen[c]) - got[c])>>
       ELSE seen[c][i][1] < attempt[c]

(* A unary call completes with its first value.                            *)
OneValueEnds(c) ==
  StreamLength[c] = 1 /\ seen[c] # <<>> => pc[c] = "completed"

Values == \A c \in Calls : Newest(c) /\ OneValueEnds(c)

LEMMA ValuesInit == Init => Values
BY DEF Init, Values, Newest, OneValueEnds

LEMMA ValuesNext == TypeOK /\ Values /\ [Next]_vars => Values'
<1> SUFFICES ASSUME TypeOK, Values, [Next]_vars, NEW d \in Calls
             PROVE  Newest(d)' /\ OneValueEnds(d)'
  BY DEF Values
<1> DEFINE s == seen[d]
<1>0. /\ Newest(d) /\ OneValueEnds(d)
      /\ s \in Seq(Nat \X Nat) /\ Len(s) \in Nat
      /\ attempt[d] \in Nat /\ got[d] \in Nat
      /\ \A i \in 1..Len(s) : s[i] \in Nat \X Nat
  BY DEF Values, TypeOK
<1>1. ASSUME NEW c \in Calls, Starts(c) PROVE Newest(d)' /\ OneValueEnds(d)'
  <2>1. Subscribe(c) /\ pc[c] # "completed"
    BY <1>1 DEF Starts, Send, Resubscribe
  <2>2. CASE c = d
    <3>1. /\ got'[d] = 0 /\ attempt'[d] = attempt[d] + 1 /\ seen'[d] = s
      BY <2>1, <2>2 DEF Subscribe, TypeOK
    <3>2. ASSUME NEW i \in 1..Len(s) PROVE s[i][1] < attempt[d] + 1
      <4>1. s[i][1] = attempt[d] \/ s[i][1] < attempt[d]
        <5>1. s[i] = <<attempt[d], i - (Len(s) - got[d])>> \/ s[i][1] < attempt[d]
          BY <1>0 DEF Newest
        <5> QED BY <5>1
      <4>2. s[i][1] \in Nat
        BY <1>0
      <4> QED BY <1>0, <4>1, <4>2
    <3>3. Newest(d)'
      BY <1>0, <3>1, <3>2 DEF Newest
    <3>4. OneValueEnds(d)'
      BY <1>0, <2>1, <2>2, <3>1 DEF OneValueEnds
    <3> QED BY <3>3, <3>4
  <2>3. CASE c # d
    BY <1>0, <2>1, <2>3 DEF Newest, OneValueEnds, Subscribe, TypeOK
  <2> QED BY <2>2, <2>3
<1>2. ASSUME NEW c \in Calls, Retries(c) PROVE Newest(d)' /\ OneValueEnds(d)'
  <2>1. UNCHANGED <<attempt, got, seen>> /\ pc[c] # "completed"
    BY <1>2 DEF Retries, FirstValueTimesOut, ErrorArrives, AttemptFails
  <2>2. c # d => pc'[d] = pc[d]
    BY <1>2 DEF Retries, FirstValueTimesOut, ErrorArrives, AttemptFails, TypeOK
  <2> QED BY <1>0, <2>1, <2>2 DEF Newest, OneValueEnds
<1>3. ASSUME NEW c \in Calls, Emit(c) PROVE Newest(d)' /\ OneValueEnds(d)'
  <2>1. CASE c = d
    <3> DEFINE t == Append(s, <<attempt[d], got[d] + 1>>)
    <3>1. /\ seen'[d] = t /\ got'[d] = got[d] + 1 /\ attempt'[d] = attempt[d]
          /\ pc'[d] = AfterValue(d)
      BY <1>3, <2>1 DEF Emit, CurrentAnswered, TypeOK
    <3>2. /\ Len(t) = Len(s) + 1 /\ t[Len(s) + 1] = <<attempt[d], got[d] + 1>>
          /\ \A i \in 1..Len(s) : t[i] = s[i]
      BY <1>0
    <3> HIDE DEF t
    <3>3. \A i \in 1..Len(s) :
            IF i > Len(t) - (got[d] + 1)
            THEN t[i] = <<attempt[d], i - (Len(t) - (got[d] + 1))>>
            ELSE t[i][1] < attempt[d]
      <4>1. Len(t) - (got[d] + 1) = Len(s) - got[d]
        <5>1. Len(t) = Len(s) + 1 /\ Len(s) \in Nat /\ got[d] \in Nat
          BY <1>0, <3>2
        <5> HIDE DEF s
        <5> QED BY <5>1
      <4> QED BY <1>0, <3>2, <4>1 DEF Newest
    <3>4. /\ Len(t) > Len(t) - (got[d] + 1)
          /\ t[Len(t)] = <<attempt[d], Len(t) - (Len(t) - (got[d] + 1))>>
      BY <1>0, <3>2
    <3>5. \A i \in 1..Len(t) :
            IF i > Len(t) - (got[d] + 1)
            THEN t[i] = <<attempt[d], i - (Len(t) - (got[d] + 1))>>
            ELSE t[i][1] < attempt[d]
      <4>1. \A i \in 1..Len(t) : i \in 1..Len(s) \/ i = Len(t)
        BY <1>0, <3>2
      <4> QED BY <3>3, <3>4, <4>1
    <3>6. got[d] + 1 <= Len(t)
      BY <1>0, <3>2 DEF Newest
    <3>7. Newest(d)'
      <4> QED BY <3>1, <3>5, <3>6 DEF Newest
    <3> QED BY <3>1, <3>7 DEF OneValueEnds, AfterValue
  <2>2. CASE c # d
    <3>1. /\ seen'[d] = seen[d] /\ got'[d] = got[d] /\ attempt' = attempt
          /\ pc'[d] = pc[d]
      BY <1>3, <2>2 DEF Emit, TypeOK
    <3> QED BY <1>0, <3>1 DEF Newest, OneValueEnds
  <2> QED BY <2>1, <2>2
<1>4. ASSUME NEW c \in Calls, Complete(c) \/ Unsubscribe(c)
      PROVE  Newest(d)' /\ OneValueEnds(d)'
  <2>1. UNCHANGED <<attempt, got, seen>> /\ (pc[d] = "completed" => pc'[d] = "completed")
    BY <1>4 DEF Complete, Unsubscribe, TypeOK
  <2> QED BY <1>0, <2>1 DEF Newest, OneValueEnds, Complete, Unsubscribe
<1>5. CASE /\ UNCHANGED <<pc, attempt, got, seen>>
  BY <1>0, <1>5 DEF Newest, OneValueEnds
<1>6. ASSUME NEW c \in Calls, Execute(c) \/ LoseRequest(c)
      PROVE  UNCHANGED <<pc, attempt, got, seen>>
  BY <1>6 DEF Execute, LoseRequest
<1>7. Tick \/ UNCHANGED vars => UNCHANGED <<pc, attempt, got, seen>>
  BY DEF Tick, vars
<1> QED BY Steps, <1>1, <1>2, <1>3, <1>4, <1>5, <1>6, <1>7

LEMMA ValuesAlways == Spec => [](TypeOK /\ Attempts /\ Values)
<1>1. Init => Values
  BY ValuesInit
<1>2. TypeOK /\ Values /\ [Next]_vars => Values'
  BY ValuesNext
<1> QED BY <1>1, <1>2, AttemptsAlways, PTL DEF Spec

(* The subscriber is never given a value of an attempt that was abandoned. *)
THEOREM OnlyCurrentValues == Spec => []ValuesOfCurrentAttempt
<1>1. Values => ValuesOfCurrentAttempt
  BY DEF Values, Newest, ValuesOfCurrentAttempt
<1> QED BY <1>1, ValuesAlways, PTL

(* A call that fails has used every attempt, and a unary one gave nothing. *)
THEOREM FailuresAreFinal == Spec => []FailureIsFinal
<1>1. Attempts /\ Values => FailureIsFinal
  BY DEF Attempts, OnBudget, Values, OneValueEnds, FailureIsFinal
<1> QED BY <1>1, ValuesAlways, PTL

-----------------------------------------------------------------------------
(* The refinement.                                                         *)

(* A value of the current attempt means that its handler ran.              *)
GotFromRun(c) == got[c] > 0 => ran[c] # {}
Backed == \A c \in Calls : GotFromRun(c)

LEMMA BackedNext == TypeOK /\ Backed /\ [Next]_vars => Backed'
<1> SUFFICES ASSUME TypeOK, Backed, [Next]_vars, NEW d \in Calls PROVE GotFromRun(d)'
  BY DEF Backed
<1>0. GotFromRun(d) /\ got[d] \in Nat
  BY DEF Backed, TypeOK
<1>1. ASSUME NEW c \in Calls, Starts(c) PROVE GotFromRun(d)'
  <2>1. Subscribe(c)
    BY <1>1 DEF Starts, Send, Resubscribe
  <2> QED BY <1>0, <2>1 DEF GotFromRun, Subscribe, TypeOK
<1>2. ASSUME NEW c \in Calls, Retries(c) \/ Complete(c) \/ Unsubscribe(c) \/ LoseRequest(c)
      PROVE  GotFromRun(d)'
  <2>1. UNCHANGED <<got, ran>>
    BY <1>2 DEF Retries, FirstValueTimesOut, ErrorArrives, AttemptFails, Complete,
                Unsubscribe, LoseRequest
  <2> QED BY <1>0, <2>1 DEF GotFromRun
<1>3. ASSUME NEW c \in Calls, Emit(c) PROVE GotFromRun(d)'
  <2>1. CurrentAnswered(c) # {} /\ UNCHANGED ran
    BY <1>3 DEF Emit
  <2>2. ran[c] # {}
    BY <2>1 DEF CurrentAnswered
  <2>3. c # d => got'[d] = got[d]
    BY <1>3 DEF Emit, TypeOK
  <2> QED BY <1>0, <2>1, <2>2, <2>3 DEF GotFromRun
<1>4. ASSUME NEW c \in Calls, Execute(c) PROVE GotFromRun(d)'
  <2>1. UNCHANGED got /\ ran[d] \subseteq ran'[d]
    BY <1>4 DEF Execute, TypeOK
  <2> QED BY <1>0, <2>1 DEF GotFromRun
<1>5. CASE Tick \/ UNCHANGED vars
  BY <1>0, <1>5 DEF GotFromRun, Tick, vars
<1> QED BY Steps, <1>1, <1>2, <1>3, <1>4, <1>5

(* What the abstract call counts is a number, and only empty sets count 0. *)
LEMMA Effects ==
  ASSUME TypeOK, Attempts, NEW c \in Calls
  PROVE  /\ IsFiniteSet(ran[c]) /\ Cardinality(ran[c]) \in Nat
         /\ ran[c] # {} => Cardinality(ran[c]) > 0
<1>1. attempt[c] \in Nat /\ ran[c] \subseteq 1..attempt[c]
  BY DEF TypeOK, Attempts, OnBudget
<1>2. IsFiniteSet(ran[c]) /\ Cardinality(ran[c]) \in Nat
  BY <1>1, FirstOnes
<1> QED BY <1>2, FS_EmptySet

LEMMA InitImplements == Init => Abstract!Init
BY FS_EmptySet DEF Init, Abstract!Init, StateOf, Ended

(* A step that runs no handler moves the state of at most one call.        *)
LEMMA MovesState ==
  ASSUME NEW c \in Calls, TypeOK, UNCHANGED ran,
         NEW p, pc' = [pc EXCEPT ![c] = p]
  PROVE  /\ [x \in Calls |-> StateOf(x)]' = [[x \in Calls |-> StateOf(x)] EXCEPT ![c] = StateOf(c)']
         /\ UNCHANGED [x \in Calls |-> Cardinality(ran[x])]
BY DEF StateOf, TypeOK

LEMMA StepImplements ==
  TypeOK /\ Attempts /\ Attempts' /\ TypeOK' /\ Backed /\ [Next]_vars => [Abstract!Next]_(Abstract!vars)
<1> SUFFICES ASSUME TypeOK, Attempts, Attempts', TypeOK', Backed, [Next]_vars
             PROVE  [Abstract!Next]_(Abstract!vars)
  OBVIOUS
<1> DEFINE state == [x \in Calls |-> StateOf(x)]
           effects == [x \in Calls |-> Cardinality(ran[x])]
<1> USE DEF Ended
<1>1. ASSUME NEW c \in Calls, Starts(c) PROVE [Abstract!Next]_(Abstract!vars)
  <2>1. /\ pc' = [pc EXCEPT ![c] = "subscribed"] /\ UNCHANGED ran
        /\ pc[c] \in {"idle", "waiting"}
    BY <1>1 DEF Starts, Send, Resubscribe, Subscribe
  <2>2. StateOf(c)' = "pending" /\ state[c] \in {"idle", "pending"}
    BY <2>1 DEF StateOf, TypeOK
  <2>3. state' = [state EXCEPT ![c] = "pending"] /\ UNCHANGED effects
    BY <2>1, <2>2, MovesState
  <2>4. CASE state[c] = "idle"
    BY <2>3, <2>4 DEF Abstract!Next, Abstract!Start
  <2>5. CASE state[c] = "pending"
    BY <2>3, <2>5 DEF Abstract!vars
  <2> QED BY <2>2, <2>4, <2>5
<1>2. ASSUME NEW c \in Calls, Retries(c) \/ Unsubscribe(c)
      PROVE  [Abstract!Next]_(Abstract!vars)
  <2>1. PICK p \in {"waiting", "failed", "cancelled"} :
          pc' = [pc EXCEPT ![c] = p] /\ UNCHANGED ran
    BY <1>2 DEF Retries, FirstValueTimesOut, ErrorArrives, AttemptFails, Unsubscribe
  <2>2. pc[c] \in {"subscribed", "waiting"}
    BY <1>2 DEF Retries, FirstValueTimesOut, ErrorArrives, Unsubscribe
  <2>3. state[c] = "pending" /\ StateOf(c)' \in {"pending", "failed", "cancelled"}
    BY <2>1, <2>2 DEF StateOf, TypeOK
  <2>4. state' = [state EXCEPT ![c] = StateOf(c)'] /\ UNCHANGED effects
    BY <2>1, MovesState
  <2>5. CASE StateOf(c)' = "pending"
    BY <2>3, <2>4, <2>5 DEF Abstract!vars
  <2>6. CASE StateOf(c)' \in {"failed", "cancelled"}
    BY <2>3, <2>4, <2>6 DEF Abstract!Next, Abstract!GiveUp
  <2> QED BY <2>3, <2>5, <2>6
<1>3. ASSUME NEW c \in Calls, Emit(c) \/ Complete(c) PROVE [Abstract!Next]_(Abstract!vars)
  <2>1. /\ pc[c] = "subscribed" /\ UNCHANGED ran
        /\ pc' = [pc EXCEPT ![c] = "completed"] \/ pc' = [pc EXCEPT ![c] = "subscribed"]
    BY <1>3 DEF Emit, Complete, AfterValue
  <2>2. state[c] = "pending" /\ StateOf(c)' \in {"pending", "answered"}
    BY <2>1 DEF StateOf, TypeOK
  <2>3. state' = [state EXCEPT ![c] = StateOf(c)'] /\ UNCHANGED effects
    BY <2>1, MovesState
  <2>4. ran[c] # {}
    <3>1. CASE Emit(c)
      BY <3>1 DEF Emit, CurrentAnswered
    <3>2. CASE Complete(c)
      BY <3>2, GrpcAssumption DEF Complete, Backed, GotFromRun
    <3> QED BY <1>3, <3>1, <3>2
  <2>5. effects[c] > 0
    BY <2>4, Effects
  <2>6. CASE StateOf(c)' = "pending"
    BY <2>2, <2>3, <2>6 DEF Abstract!vars
  <2>7. CASE StateOf(c)' = "answered"
    BY <2>2, <2>3, <2>5, <2>7 DEF Abstract!Next, Abstract!Answer
  <2> QED BY <2>2, <2>6, <2>7
<1>4. ASSUME NEW c \in Calls, Execute(c) PROVE [Abstract!Next]_(Abstract!vars)
  <2>1. PICK a \in wire[c] : ran' = [ran EXCEPT ![c] = @ \cup {a}] /\ UNCHANGED <<pc, attempt>>
    BY <1>4 DEF Execute
  <2>2. /\ a \in 1..attempt[c] /\ a \notin ran[c]
        /\ attempt[c] \in Nat /\ ran[c] \cup {a} \subseteq 1..attempt[c]
        /\ attempt[c] <= RetryCount[c] + 1 /\ RetryCount[c] \in Nat
    BY <2>1, GrpcAssumption DEF Attempts, OnBudget, TypeOK
  <2>3. pc[c] # "idle"
    BY <2>2 DEF Attempts, OnBudget
  <2>4. state[c] # "idle" /\ UNCHANGED state
    BY <2>1, <2>3 DEF StateOf, TypeOK
  <2>5. Cardinality(ran[c] \cup {a}) = Cardinality(ran[c]) + 1
    BY <2>2, Effects, FS_AddElement
  <2>6. Cardinality(ran[c]) \in Nat /\ Cardinality(ran[c]) < RetryCount[c] + 1
    <3>1. Cardinality(ran[c] \cup {a}) <= attempt[c]
      BY <2>2, FirstOnes
    <3> QED BY <2>2, <2>5, <3>1, Effects
  <2>7. effects' = [effects EXCEPT ![c] = @ + 1]
    BY <2>1, <2>5 DEF TypeOK
  <2> QED BY <2>4, <2>6, <2>7 DEF Abstract!Next, Abstract!Effect
<1>5. CASE UNCHANGED <<pc, ran>>
  BY <1>5 DEF Abstract!vars, StateOf
<1>6. ASSUME NEW c \in Calls, LoseRequest(c) PROVE UNCHANGED <<pc, ran>>
  BY <1>6 DEF LoseRequest
<1>7. Tick \/ UNCHANGED vars => UNCHANGED <<pc, ran>>
  BY DEF Tick, vars
<1> QED BY Steps, <1>1, <1>2, <1>3, <1>4, <1>5, <1>6, <1>7

(* Every behaviour of the pipeline is one of the at-least-once call.       *)
THEOREM ImplementsCall == Spec => ImplementsAtLeastOnce
<1>1. Init => Backed
  BY DEF Init, Backed, GotFromRun
<1>2. Spec => [](TypeOK /\ Attempts /\ Backed)
  BY <1>1, BackedNext, AttemptsAlways, PTL DEF Spec
<1>3. Spec => Abstract!Spec
  BY <1>2, InitImplements, StepImplements, PTL DEF Spec, Abstract!Spec
<1> QED BY <1>3 DEF ImplementsAtLeastOnce

-----------------------------------------------------------------------------
(* What a reply puts on the data, send takes off; on the wire it is carried *)
(* where it fits the response.                                             *)

LEMMA TagComesOff ==
  ASSUME NEW o \in Objects, NEW type, type # Reply!Untyped
  PROVE  /\ Reply!Tag(type, o).tag = type
         /\ Reply!Untag(Reply!Tag(type, o)) = o
         /\ Reply!InAny(Reply!Tag(type, o)) = Reply!Tag(type, o)
BY DEF Objects, Reply!Tag, Reply!Untag, Reply!InAny

Fits(v, response) == v[1] = IF response = "ArrayReply" THEN "array" ELSE "object"

LEMMA DataIsCarried ==
  ASSUME NEW v \in Payloads, NEW type, type # Reply!Untyped, NEW response, Fits(v, response)
  PROVE  /\ Reply!IsWritable(Reply!Typed(type, v), response)
         /\ Reply!DataField(Reply!Typed(type, v), response) = Reply!Typed(type, v)
<1> DEFINE typed == Reply!Typed(type, v)
<1>1. CASE v \in {"object"} \X Objects
  <2>1. PICK o \in Objects : v = <<"object", o>>
    BY <1>1
  <2>2. typed = <<"object", Reply!Tag(type, o)>>
    BY <2>1 DEF Reply!Typed
  <2>3. response # "ArrayReply"
    BY <2>1 DEF Fits
  <2>4. Reply!InAny(Reply!Tag(type, o)) = Reply!Tag(type, o)
    BY TagComesOff
  <2> QED BY <2>2, <2>3, <2>4 DEF Reply!IsWritable, Reply!DataField
<1>2. CASE v \in {"array"} \X Seq(Objects)
  <2>1. PICK s \in Seq(Objects) : v = <<"array", s>>
    BY <1>2
  <2> DEFINE tags == [k \in DOMAIN s |-> Reply!Tag(type, s[k])]
  <2>2. typed = <<"array", tags>>
    BY <2>1 DEF Reply!Typed
  <2>3. response = "ArrayReply"
    BY <2>1 DEF Fits
  <2>4. [k \in DOMAIN tags |-> Reply!InAny(tags[k])] = tags
    BY TagComesOff
  <2> HIDE DEF tags
  <2>5. typed[1] = "array" /\ typed[2] = tags
    BY <2>2
  <2> HIDE DEF typed
  <2>6. Reply!DataField(typed, response) = typed
    BY <2>2, <2>3, <2>4, <2>5 DEF Reply!DataField
  <2> QED BY <2>3, <2>5, <2>6 DEF Reply!IsWritable, typed
<1> QED BY <1>1, <1>2 DEF Payloads

(* The texts of an error stay what they are.                               *)
IsText(v) == \E s : v = Reply!String(s)

LEMMA ErrorKept ==
  /\ \A code, message : IsText(code) /\ IsText(message) =>
       Reply!ErrorField([code |-> code, message |-> message])
         = [code |-> code, message |-> message]
  /\ Reply!ErrorField(Reply!NoError) = Reply!NoError
<1>1. \A s : Reply!InField(Reply!String(s)) = Reply!String(s)
  BY DEF Reply!InField, Reply!String, Reply!ToText
<1>2. Reply!InField(Reply!Absent) = Reply!Absent
  BY DEF Reply!InField, Reply!Absent
<1>3. ASSUME NEW code, NEW message, IsText(code), IsText(message)
      PROVE  Reply!ErrorField([code |-> code, message |-> message])
               = [code |-> code, message |-> message]
  <2>1. Reply!InField(code) = code /\ Reply!InField(message) = message
    BY <1>1, <1>3 DEF IsText
  <2> QED BY <2>1 DEF Reply!ErrorField
<1>4. Reply!ErrorField(Reply!NoError) = Reply!NoError
  BY <1>2 DEF Reply!ErrorField, Reply!NoError
<1> QED BY <1>3, <1>4

(* What arrives of a reply that is written, of which send looks at the data. *)
LEMMA Arrives ==
  ASSUME NEW d, NEW m, NEW e, NEW response
  PROVE  LET arrived == Reply!Received(Reply!Wire([data |-> d, meta |-> m, error |-> e], response))
         IN /\ Reply!IsWritable(d, response) =>
                 arrived.meta = m /\ arrived.error = Reply!ErrorField(e)
            /\ ~Reply!IsWritable(d, response) => arrived = Reply!Fails
<1> DEFINE reply == [data |-> d, meta |-> m, error |-> e]
           sent == [data |-> Reply!DataField(d, response), meta |-> m,
                    error |-> Reply!ErrorField(e)]
<1>1. /\ "fails" \notin DOMAIN reply /\ "fails" \notin DOMAIN sent
      /\ reply.data = d /\ reply.meta = m /\ reply.error = e
  OBVIOUS
<1>2. [data |-> Reply!DataField(reply.data, response), meta |-> reply.meta,
       error |-> Reply!ErrorField(reply.error)] = sent
  OBVIOUS
<1>3. \A x : [sent EXCEPT !.data = x].error = sent.error /\ [sent EXCEPT !.data = x].meta = sent.meta
  OBVIOUS
<1>4. sent.error = Reply!ErrorField(e) /\ sent.meta = m
  OBVIOUS
<1> HIDE DEF reply, sent
<1>5. Reply!IsWritable(d, response) => Reply!Wire(reply, response) = sent
  BY <1>1, <1>2 DEF Reply!Wire
<1>6. Reply!Received(sent).error = sent.error /\ Reply!Received(sent).meta = sent.meta
  BY <1>1, <1>3 DEF Reply!Received
<1>7. ~Reply!IsWritable(d, response) => Reply!Wire(reply, response) = Reply!Fails
  BY <1>1 DEF Reply!Wire
<1>8. Reply!Received(Reply!Fails) = Reply!Fails
  BY DEF Reply!Received, Reply!Fails
<1> QED BY <1>4, <1>5, <1>6, <1>7, <1>8 DEF reply

(* send takes the types off. *)
LEMMA TypesComeOff ==
  ASSUME NEW v \in Payloads, NEW type, type # Reply!Untyped, NEW m, NEW e
  PROVE  Reply!Received([data |-> Reply!Typed(type, v), meta |-> m, error |-> e])
           = [data |-> v, meta |-> m, error |-> e]
<1> DEFINE typed == Reply!Typed(type, v)
<1> DEFINE reply == [data |-> typed, meta |-> m, error |-> e]
<1>1. "fails" \notin DOMAIN reply
  OBVIOUS
<1>2. CASE v \in {"object"} \X Objects
  <2>1. PICK o \in Objects : v = <<"object", o>>
    BY <1>2
  <2>2. typed = <<"object", Reply!Tag(type, o)>>
    BY <2>1 DEF Reply!Typed
  <2>3. [reply EXCEPT !.data = <<"object", Reply!Untag(reply.data[2])>>]
          = [data |-> v, meta |-> m, error |-> e]
    BY <2>1, <2>2, TagComesOff
  <2> QED BY <1>1, <2>2, <2>3 DEF Reply!Received
<1>3. CASE v \in {"array"} \X Seq(Objects)
  <2>1. PICK s \in Seq(Objects) : v = <<"array", s>>
    BY <1>3
  <2> DEFINE tags == [k \in DOMAIN s |-> Reply!Tag(type, s[k])]
  <2>2. typed = <<"array", tags>>
    BY <2>1 DEF Reply!Typed
  <2>3. \A k \in DOMAIN s : s[k] \in Objects
    OBVIOUS
  <2>4. CASE s = <<>>
    <3>1. tags = <<>>
      BY <2>4
    <3>2. reply.data = <<"array", <<>>>> /\ v = <<"array", <<>>>>
      BY <2>1, <2>2, <2>4, <3>1
    <3>3. [reply EXCEPT !.data = reply.data] = [data |-> v, meta |-> m, error |-> e]
      BY <3>2
    <3> QED BY <1>1, <3>2, <3>3 DEF Reply!Received
  <2>5. CASE s # <<>>
    <3>1. 1 \in DOMAIN s /\ tags # <<>> /\ Head(tags) = Reply!Tag(type, s[1])
      BY <2>5
    <3>2. Head(tags).tag # Reply!Untyped
      BY <2>3, <3>1, TagComesOff
    <3>3. [k \in DOMAIN tags |-> Reply!Untag(tags[k])] = [k \in DOMAIN s |-> s[k]]
      BY <2>3, TagComesOff
    <3>4. [k \in DOMAIN s |-> s[k]] = s
      OBVIOUS
    <3>5. [reply EXCEPT !.data = <<"array", [k \in DOMAIN tags |-> Reply!Untag(tags[k])]>>]
            = [data |-> v, meta |-> m, error |-> e]
      BY <2>1, <3>3, <3>4
    <3>6. /\ reply.data[1] = "array" /\ reply.data[2] = tags
      BY <2>2
    <3> DEFINE received == [reply EXCEPT !.data =
                              <<"array", [k \in DOMAIN tags |-> Reply!Untag(tags[k])]>>]
    <3>7. Reply!Received(reply) = received
      <4> HIDE DEF reply, tags
      <4> QED BY <1>1, <3>1, <3>2, <3>6 DEF Reply!Received
    <3> QED BY <3>5, <3>7
  <2> QED BY <2>4, <2>5
<1> QED BY <1>2, <1>3 DEF Payloads

LEMMA DataSurvives ==
  ASSUME NEW v \in Payloads, NEW type, type # Reply!Untyped, NEW m, NEW e,
         NEW response, Fits(v, response)
  PROVE  Reply!Received(Reply!Wire([data |-> Reply!Typed(type, v), meta |-> m, error |-> e],
                                   response)).data = v
<1> DEFINE typed == Reply!Typed(type, v)
           field == Reply!ErrorField(e)
           reply == [data |-> typed, meta |-> m, error |-> e]
<1>1. "fails" \notin DOMAIN reply /\ reply.data = typed /\ reply.meta = m /\ reply.error = e
  OBVIOUS
<1>2. Reply!IsWritable(typed, response) /\ Reply!DataField(typed, response) = typed
  BY DataIsCarried
<1>3. \A f : Reply!Received([data |-> typed, meta |-> m, error |-> f])
              = [data |-> v, meta |-> m, error |-> f]
  BY TypesComeOff
<1> HIDE DEF reply, typed
<1>4. Reply!Wire(reply, response) = [data |-> typed, meta |-> m, error |-> field]
  BY <1>1, <1>2 DEF Reply!Wire
<1> HIDE DEF field
<1>5. Reply!Received(Reply!Wire(reply, response)) = [data |-> v, meta |-> m, error |-> field]
  BY <1>3, <1>4
<1> QED BY <1>5 DEF reply, typed

-----------------------------------------------------------------------------
(* What the caller of a handler is given, by what the handler does.        *)

LEMMA PayloadForm ==
  ASSUME NEW v \in Payloads
  PROVE  /\ v[1] \in {"object", "array"} /\ v # Reply!Absent
         /\ \A type : Reply!Typed(type, v)[1] = v[1]
<1>1. v[1] \in {"object", "array"}
  BY DEF Payloads
<1>2. \A type : Reply!Typed(type, v)[1] = v[1]
  BY <1>1 DEF Reply!Typed
<1> QED BY <1>1, <1>2 DEF Reply!Absent

LEMMA TextForm ==
  ASSUME NEW v \in Texts
  PROVE  /\ v[1] = "string" /\ v = <<"string", v[2]>> /\ IsText(v)
         /\ Reply!OrElse(v, Reply!Unknown) = v
         /\ Reply!ToText(v) = v
<1>1. v[1] = "string" /\ v = <<"string", v[2]>>
  BY DEF Texts
<1>2. v = Reply!String(v[2])
  BY <1>1 DEF Reply!String
<1> QED BY <1>1, <1>2 DEF Reply!OrElse, Reply!ToText, Reply!String, IsText

LEMMA UnknownIsText == IsText(Reply!Unknown)
BY Zenon DEF IsText, Reply!Unknown

(* Data of a type in a reply: it arrives, or fails, or is lost.             *)
LEMMA PayloadArrives ==
  ASSUME NEW v \in Payloads, NEW type, type # Reply!Untyped, NEW m, NEW e, NEW response
  PROVE  LET arrived == Reply!Received(Reply!Wire(
                          [data |-> Reply!Typed(type, v), meta |-> m, error |-> e], response))
         IN IF response = "ArrayReply" /\ v[1] # "array" THEN arrived = Reply!Fails
            ELSE /\ arrived.meta = m /\ arrived.error = Reply!ErrorField(e)
                 /\ (response = "ArrayReply" <=> v[1] = "array") => arrived.data = v
<1> DEFINE typed == Reply!Typed(type, v)
           arrived == Reply!Received(Reply!Wire([data |-> typed, meta |-> m, error |-> e], response))
<1>1. v[1] \in {"object", "array"} /\ typed[1] = v[1]
  BY PayloadForm
<1>2. /\ Reply!IsWritable(typed, response) =>
           arrived.meta = m /\ arrived.error = Reply!ErrorField(e)
      /\ ~Reply!IsWritable(typed, response) => arrived = Reply!Fails
  BY Arrives
<1>3. Fits(v, response) => arrived.data = v
  BY DataSurvives
<1> HIDE DEF typed, arrived
<1>4. Reply!IsWritable(typed, response) <=> ~(response = "ArrayReply" /\ v[1] # "array")
  BY <1>1 DEF Reply!IsWritable
<1>5. (response = "ArrayReply" <=> v[1] = "array") => Fits(v, response)
  BY <1>1 DEF Fits
<1> QED BY <1>2, <1>3, <1>4, <1>5 DEF arrived, typed

LEMMA Returned ==
  ASSUME NEW server, NEW o, NEW type, o[1] = "returns", o[2] # Reply!Absent, PlainOutcome(o)
  PROVE  IsTold(server, o, type, ReplyTo(server, o, type))
<1> DEFINE v == o[2]
<1>1. OutcomeOf(o) = o
  BY DEF OutcomeOf
<1>2. "ReplyData" # Reply!Untyped
  BY Zenon DEF Reply!Untyped
<1>3. CASE v[1] = "wrapped"
  <2>1. v[2] \in Payloads
    BY <1>3, PayloadForm DEF PlainOutcome
  <2>2. Reply!HelperMethod(server, o, type) = Reply!ReplyOf("ReplyData", v[2], v[3])
    BY <1>3 DEF Reply!HelperMethod, Reply!ResultReply, Reply!ExceptionReply
  <2>3. ReplyTo(server, o, type)
          = Reply!Received(Reply!Wire([data |-> Reply!Typed("ReplyData", v[2]), meta |-> v[3],
                                       error |-> Reply!NoError], type))
    BY <1>1, <2>2 DEF ReplyTo, Reply!ReplyOf
  <2>4. IsList(server, o, type) <=> v[2][1] = "array"
    BY <1>3 DEF IsList
  <2>5. IF type = "ArrayReply" /\ v[2][1] # "array" THEN ReplyTo(server, o, type) = Reply!Fails
        ELSE /\ ReplyTo(server, o, type).meta = v[3]
             /\ ReplyTo(server, o, type).error = Reply!NoError
             /\ (type = "ArrayReply" <=> v[2][1] = "array") => ReplyTo(server, o, type).data = v[2]
    BY <1>2, <2>1, <2>3, PayloadArrives, ErrorKept
  <2> HIDE DEF v
  <2> QED BY <1>3, <2>4, <2>5 DEF IsTold, ToldOf, v
<1>4. CASE v[1] # "wrapped"
  <2>1. v \in Payloads
    BY <1>4 DEF PlainOutcome
  <2>2. Reply!HelperMethod(server, o, type) = Reply!ReplyOf("ReplyData", v, Reply!Absent)
    BY <1>4 DEF Reply!HelperMethod, Reply!ResultReply, Reply!ExceptionReply
  <2>3. ReplyTo(server, o, type)
          = Reply!Received(Reply!Wire([data |-> Reply!Typed("ReplyData", v),
                                       meta |-> Reply!Absent, error |-> Reply!NoError], type))
    BY <1>1, <2>2 DEF ReplyTo, Reply!ReplyOf
  <2>4. IsList(server, o, type) <=> v[1] = "array"
    BY <1>4 DEF IsList
  <2>5. IF type = "ArrayReply" /\ v[1] # "array" THEN ReplyTo(server, o, type) = Reply!Fails
        ELSE /\ ReplyTo(server, o, type).meta = Reply!Absent
             /\ ReplyTo(server, o, type).error = Reply!NoError
             /\ (type = "ArrayReply" <=> v[1] = "array") => ReplyTo(server, o, type).data = v
    BY <1>2, <2>1, <2>3, PayloadArrives, ErrorKept
  <2> HIDE DEF v
  <2> QED BY <1>4, <2>4, <2>5 DEF IsTold, ToldOf, v
<1> QED BY <1>3, <1>4

(* GrpcHelperMethod makes a reply of a GrpcException itself.                *)
LEMMA GrpcExceptionTold ==
  ASSUME NEW server, NEW o, NEW type, o[1] = "GrpcException", PlainOutcome(o)
  PROVE  IsTold(server, o, type, ReplyTo(server, o, type))
<1> DEFINE e == Reply!GrpcException(o[2], o[3], o[4])
<1> DEFINE b == e.response[2]
<1>1. OutcomeOf(o) = <<"throws", e>> /\ e.class = "GrpcException"
  BY DEF OutcomeOf, Reply!GrpcException, Reply!Http
<1>2. o[2] \in Texts /\ o[3] \in Texts \cup {Reply!Absent} /\ o[4] \in Payloads
  BY DEF PlainOutcome
<1>3. Reply!OrElse(o[4], <<"object", Reply!EmptyObject>>) = o[4]
  BY <1>2, PayloadForm DEF Reply!OrElse
<1>4. /\ b.code = o[2] /\ b.message = Reply!OrElse(o[3], Reply!Unknown)
      /\ b.data = o[4]
  BY <1>3 DEF Reply!GrpcException, Reply!Http, Reply!NoBody
<1>5. "ReplyErrorData" # Reply!Untyped
  BY Zenon DEF Reply!Untyped
<1> HIDE DEF e
<1>6. Reply!HelperMethod(server, <<"throws", e>>, type)
        = [data |-> Reply!Typed("ReplyErrorData", b.data), meta |-> Reply!Absent,
           error |-> [code |-> b.code, message |-> b.message]]
  BY <1>1 DEF Reply!HelperMethod, Reply!ResultReply, Reply!ExceptionReply
<1> DEFINE told == [code |-> o[2], message |-> Reply!OrElse(o[3], Reply!Unknown)]
<1>7. ReplyTo(server, o, type)
        = Reply!Received(Reply!Wire([data |-> Reply!Typed("ReplyErrorData", o[4]),
                                     meta |-> Reply!Absent, error |-> told], type))
  BY <1>1, <1>4, <1>6 DEF ReplyTo
<1>8. Reply!ErrorField(told) = told
  <2>1. IsText(o[2]) /\ IsText(Reply!OrElse(o[3], Reply!Unknown))
    <3>1. Reply!OrElse(Reply!Absent, Reply!Unknown) = Reply!Unknown
      BY DEF Reply!OrElse, Reply!Absent
    <3>2. o[3] \in Texts => IsText(Reply!OrElse(o[3], Reply!Unknown))
      BY TextForm
    <3> QED BY <1>2, <3>1, <3>2, TextForm, UnknownIsText
  <2> QED BY <2>1, ErrorKept
<1>9. IF type = "ArrayReply" /\ o[4][1] # "array" THEN ReplyTo(server, o, type) = Reply!Fails
      ELSE /\ ReplyTo(server, o, type).error = told
           /\ (type = "ArrayReply" <=> o[4][1] = "array") => ReplyTo(server, o, type).data = o[4]
  <2> HIDE DEF told
  <2> QED BY <1>2, <1>5, <1>7, <1>8, PayloadArrives
<1>10. IsList(server, o, type) <=> o[4][1] = "array"
  BY DEF IsList
<1> QED BY <1>9, <1>10 DEF IsTold, ToldOf

(* A reply of a filter, whose data is a list if the filter knows of it,    *)
(* tells its caller of an error.                                           *)
FilterData(server, type) ==
  IF server.filter = "grpc" /\ type = "ArrayReply" THEN <<"array", <<>>>>
  ELSE <<"object", Reply!EmptyObject>>

Tells(server, reply, type, told) ==
  \E m : reply = [data |-> FilterData(server, type), meta |-> m, error |-> told]

(* Any other is for the filter, whose reply the wire and send leave its    *)
(* error.                                                                  *)
LEMMA ForTheFilter ==
  ASSUME NEW server, NEW o, NEW type, NEW e, NEW code, NEW message,
         IsText(code), IsText(message),
         OutcomeOf(o) = <<"throws", e>>, e.class # "GrpcException",
         Tells(server, Reply!Filtered(server, e, type), type, [code |-> code, message |-> message])
  PROVE  IF type = "ArrayReply" /\ server.filter # "grpc"
         THEN ReplyTo(server, o, type) = Reply!Fails
         ELSE ReplyTo(server, o, type).error = [code |-> code, message |-> message]
<1> DEFINE told == [code |-> code, message |-> message]
           d == FilterData(server, type)
<1>1. Reply!HelperMethod(server, <<"throws", e>>, type) = Reply!Filtered(server, e, type)
  BY DEF Reply!HelperMethod, Reply!ResultReply, Reply!ExceptionReply
<1>2. Reply!ErrorField(told) = told
  BY ErrorKept
<1> HIDE DEF told
<1>3. PICK m : Reply!Filtered(server, e, type) = [data |-> d, meta |-> m, error |-> told]
  BY DEF Tells, told
<1>4. ReplyTo(server, o, type)
        = Reply!Received(Reply!Wire([data |-> d, meta |-> m, error |-> told], type))
  BY <1>1, <1>3 DEF ReplyTo
<1>5. Reply!IsWritable(d, type) <=> ~(type = "ArrayReply" /\ server.filter # "grpc")
  BY DEF Reply!IsWritable, FilterData
<1> HIDE DEF d
<1> QED BY <1>2, <1>4, <1>5, Arrives DEF told

(* What the filters put for the data they are not given.                   *)
LEMMA NoData ==
  /\ \A code, message, meta :
       Reply!StandardReply(Reply!Absent, code, message, meta) =
         [data |-> <<"object", Reply!EmptyObject>>, meta |-> meta,
          error |-> [code |-> code, message |-> message]]
  /\ \A server, type : /\ server.filter = "standard" =>
                           FilterData(server, type) = <<"object", Reply!EmptyObject>>
                      /\ server.filter = "grpc" =>
                           FilterData(server, type) =
                             IF type = "ArrayReply" THEN <<"array", <<>>>>
                             ELSE <<"object", Reply!EmptyObject>>
<1>1. Reply!OrElse(Reply!Absent, <<"object", Reply!EmptyObject>>) = <<"object", Reply!EmptyObject>>
  BY DEF Reply!OrElse, Reply!Absent
<1> QED BY <1>1 DEF Reply!StandardReply, FilterData

LEMMA StandardTells ==
  ASSUME NEW server, server.filter = "standard", NEW e, NEW code, NEW message, NEW meta, NEW type,
         Reply!StandardPayload(e, server.details)
           = Reply!StandardReply(Reply!Absent, code, message, meta)
  PROVE  Tells(server, Reply!Filtered(server, e, type), type, [code |-> code, message |-> message])
<1> DEFINE told == [code |-> code, message |-> message]
<1>1. Reply!Filtered(server, e, type) = Reply!StandardReply(Reply!Absent, code, message, meta)
  BY DEF Reply!Filtered
<1>2. Reply!StandardReply(Reply!Absent, code, message, meta)
        = [data |-> FilterData(server, type), meta |-> meta, error |-> told]
  <2>1. FilterData(server, type) = <<"object", Reply!EmptyObject>>
    BY DEF FilterData
  <2> QED BY <2>1, NoData
<1> HIDE DEF told
<1>3. Tells(server, Reply!Filtered(server, e, type), type, told)
  BY <1>1, <1>2 DEF Tells
<1> QED BY <1>3 DEF told

(* A string, or an object that holds an error, in an exception of Nest: the *)
(* two filters agree on it.                                                *)
LEMMA FilterTellsText ==
  ASSUME NEW server, NEW type, NEW status, NEW text \in Texts,
         server.filter \in {"grpc", "standard"}
  PROVE  Tells(server, Reply!Filtered(server, Reply!Http("HttpException", text, status), type), type,
               [code |-> Reply!String(ToString(status)), message |-> text])
<1> DEFINE e == Reply!Http("HttpException", text, status)
<1>1. /\ e.class = "HttpException" /\ e.response = text /\ e.status = status
      /\ Reply!IsHttp(e) /\ text[1] = "string"
  BY TextForm DEF Reply!Http, Reply!IsHttp
<1> HIDE DEF e
<1>2. CASE server.filter = "standard"
  <2>1. Reply!StandardPayload(e, server.details)
          = Reply!StandardReply(Reply!Absent, Reply!String(ToString(status)), text, Reply!Absent)
    BY <1>1 DEF Reply!StandardPayload
  <2> QED BY <1>2, <2>1, StandardTells DEF e
<1>3. CASE server.filter = "grpc"
  <2>1. Reply!GetCode(text, status) = Reply!String(ToString(status))
    BY <1>1 DEF Reply!GetCode
  <2>2. Reply!GetMessage(text, e.message) = text
    BY <1>1 DEF Reply!GetMessage
  <2>3. Reply!GetPayload(e, type)
                 = [data |-> FilterData(server, type), meta |-> Reply!Absent,
                    error |-> [code |-> Reply!GetCode(text, status),
                               message |-> Reply!GetMessage(text, e.message)]]
    <3>1. \A x : Reply!GetData(text, x) = x
      BY <1>1 DEF Reply!GetData
    <3> QED BY <1>1, <1>3, <3>1, NoData DEF Reply!GetPayload
  <2> QED BY <1>3, <2>1, <2>2, <2>3 DEF e, Tells, Reply!Filtered
<1> QED BY <1>2, <1>3

LEMMA HttpExceptionTold ==
  ASSUME NEW server, NEW o, NEW type, server.filter \in {"grpc", "standard"},
         o[1] = "HttpException", PlainOutcome(o)
  PROVE  IsTold(server, o, type, ReplyTo(server, o, type))
<1> DEFINE e == Reply!Http("HttpException", o[3], o[5])
<1>1. o[2] = Reply!String(ToString(o[5])) /\ o[3] \in Texts
  BY DEF PlainOutcome
<1>2. OutcomeOf(o) = <<"throws", e>> /\ e.class # "GrpcException"
  BY DEF OutcomeOf, Reply!Http
<1>3. Tells(server, Reply!Filtered(server, e, type), type, [code |-> o[2], message |-> o[3]])
  BY <1>1, FilterTellsText
<1> HIDE DEF e
<1>4. IF type = "ArrayReply" /\ server.filter # "grpc"
      THEN ReplyTo(server, o, type) = Reply!Fails
      ELSE ReplyTo(server, o, type).error = [code |-> o[2], message |-> o[3]]
  <2>1. IsText(o[2]) /\ IsText(o[3])
    BY <1>1, TextForm, UnknownIsText DEF IsText
  <2> HIDE DEF e
  <2> QED BY <1>2, <1>3, <2>1, ForTheFilter
<1>5. IsList(server, o, type) <=> server.filter = "grpc" /\ type = "ArrayReply"
  BY DEF IsList
<1> QED BY <1>1, <1>4, <1>5, TextForm DEF IsTold, ToldOf

(* An error in the response is an object with a code and a message.        *)
LEMMA FilterTellsError ==
  ASSUME NEW server, NEW type, server.filter \in {"grpc", "standard"},
         NEW code \in Texts \ {Reply!EmptyText}, NEW message \in Texts \ {Reply!EmptyText}
  PROVE  Tells(server, Reply!Filtered(server, Reply!StandardException(code, message), type), type,
               [code |-> code, message |-> message])
<1> DEFINE e == Reply!StandardException(code, message)
<1> DEFINE b == e.response[2]
<1>1. message # Reply!Absent /\ Reply!Truthy(code) /\ Reply!Truthy(message)
  BY TextForm DEF Reply!Truthy, Reply!Absent
<1>2. /\ e.class = "StandardException" /\ e.response[1] = "object"
      /\ b.error = <<"object", [code |-> code, message |-> message]>>
      /\ b.code = Reply!Absent /\ b.message = Reply!Absent /\ b.data = Reply!Absent
      /\ Reply!IsHttp(e)
  BY <1>1 DEF Reply!StandardException, Reply!Http, Reply!NoBody, Reply!ErrorOf, Reply!IsHttp
<1>3. /\ b.error[1] = "object" /\ b.error[2].code = code /\ b.error[2].message = message
      /\ b.error # <<"null">>
      /\ b.code[1] = "undefined" /\ b.message[1] = "undefined"
      /\ e.response[2] = b /\ b.data = Reply!Absent /\ ~Reply!Truthy(b.data)
  BY <1>2 DEF Reply!Absent, Reply!Truthy
<1>6. \A x : Reply!OrIfFalsy(code, x) = code /\ Reply!OrIfFalsy(message, x) = message
  BY <1>1 DEF Reply!OrIfFalsy
<1> HIDE DEF e, b
<1>4. CASE server.filter = "standard"
  <2>1. Reply!StandardPayload(e, server.details)
          = Reply!StandardReply(Reply!Absent, code, message, b.meta)
    BY <1>2, <1>3, <1>6 DEF Reply!StandardPayload
  <2> QED BY <1>4, <2>1, StandardTells DEF e
<1>5. CASE server.filter = "grpc"
  <2>1. Reply!GetCode(e.response, e.status) = code
    BY <1>2, <1>3, TextForm DEF Reply!GetCode
  <2>2. Reply!GetMessage(e.response, e.message) = message
    BY <1>2, <1>3, TextForm DEF Reply!GetMessage
  <2>3. ~Reply!LooksIntoNull(b)
    BY <1>3 DEF Reply!LooksIntoNull
  <2>4. Reply!GetPayload(e, type)
                 = [data |-> FilterData(server, type), meta |-> Reply!Absent,
                    error |-> [code |-> Reply!GetCode(e.response, e.status),
                               message |-> Reply!GetMessage(e.response, e.message)]]
    <3>1. \A x : Reply!GetData(e.response, x) = x
      BY <1>2, <1>3 DEF Reply!GetData
    <3> QED BY <1>2, <1>3, <1>5, <2>3, <3>1, NoData DEF Reply!GetPayload
  <2> QED BY <1>5, <2>1, <2>2, <2>4 DEF e, Tells, Reply!Filtered
<1> QED BY <1>4, <1>5

LEMMA StandardExceptionTold ==
  ASSUME NEW server, NEW o, NEW type, server.filter \in {"grpc", "standard"},
         o[1] = "StandardException", PlainOutcome(o)
  PROVE  IsTold(server, o, type, ReplyTo(server, o, type))
<1> DEFINE e == Reply!StandardException(o[2], o[3])
<1>1. o[2] \in Texts \ {Reply!EmptyText} /\ o[3] \in Texts \ {Reply!EmptyText}
  BY DEF PlainOutcome
<1>2. OutcomeOf(o) = <<"throws", e>> /\ e.class # "GrpcException"
  BY DEF OutcomeOf, Reply!StandardException, Reply!Http
<1>3. Tells(server, Reply!Filtered(server, e, type), type, [code |-> o[2], message |-> o[3]])
  BY <1>1, FilterTellsError
<1> HIDE DEF e
<1>4. IF type = "ArrayReply" /\ server.filter # "grpc"
      THEN ReplyTo(server, o, type) = Reply!Fails
      ELSE ReplyTo(server, o, type).error = [code |-> o[2], message |-> o[3]]
  <2>1. IsText(o[2]) /\ IsText(o[3])
    BY <1>1, TextForm, UnknownIsText DEF IsText
  <2> HIDE DEF e
  <2> QED BY <1>2, <1>3, <2>1, ForTheFilter
<1>5. IsList(server, o, type) <=> server.filter = "grpc" /\ type = "ArrayReply"
  BY DEF IsList
<1> QED BY <1>1, <1>4, <1>5, TextForm DEF IsTold, ToldOf

LEMMA ErrorTold ==
  ASSUME NEW server, NEW o, NEW type, server.filter \in {"grpc", "standard"},
         o[1] = "Error", PlainOutcome(o)
  PROVE  IsTold(server, o, type, ReplyTo(server, o, type))
<1> DEFINE e == Reply!Plain(o[3])
<1> DEFINE text == IF server.filter = "grpc" THEN o[3] ELSE Reply!Unknown
<1>1. o[2] = Reply!String("500") /\ o[3] \in Texts
  BY DEF PlainOutcome
<1>2. OutcomeOf(o) = <<"throws", e>> /\ e.class = "Error" /\ e.message = o[3]
  BY DEF OutcomeOf, Reply!Plain
<1> HIDE DEF e
<1>3. Tells(server, Reply!Filtered(server, e, type), type, [code |-> o[2], message |-> text])
  <2>1. CASE server.filter = "standard"
    <3>1. Reply!StandardPayload(e, server.details)
            = Reply!StandardReply(Reply!Absent, Reply!String("500"), Reply!Unknown, Reply!Absent)
      BY <1>2 DEF Reply!StandardPayload, Reply!IsHttp
    <3> QED BY <1>1, <2>1, <3>1, StandardTells
  <2>2. CASE server.filter = "grpc"
    <3>1. Reply!GetPayload(e, type)
                   = [data |-> FilterData(server, type), meta |-> Reply!Absent,
                      error |-> [code |-> Reply!String("500"), message |-> e.message]]
      BY <1>2, <2>2, NoData DEF Reply!GetPayload, Reply!IsHttp
    <3> QED BY <1>1, <1>2, <2>2, <3>1 DEF Tells, Reply!Filtered
  <2> QED BY <2>1, <2>2
<1>4. IF type = "ArrayReply" /\ server.filter # "grpc"
      THEN ReplyTo(server, o, type) = Reply!Fails
      ELSE ReplyTo(server, o, type).error = [code |-> o[2], message |-> text]
  <2>1. IsText(o[2]) /\ IsText(text)
    BY <1>1, TextForm, UnknownIsText DEF IsText
  <2> HIDE DEF e, text
  <2> QED BY <1>2, <1>3, <2>1, ForTheFilter
<1>5. IsList(server, o, type) <=> server.filter = "grpc" /\ type = "ArrayReply"
  BY DEF IsList
<1> QED BY <1>1, <1>4, <1>5, TextForm DEF IsTold, ToldOf

LEMMA EveryOutcomeTold ==
  ASSUME NEW server, NEW o, NEW type, server.filter \in {"grpc", "standard"}, PlainOutcome(o),
         IsPromised(o)
  PROVE  IsTold(server, o, type, ReplyTo(server, o, type))
<1>1. CASE o[1] = "returns"
  <2>1. CASE o[2] = Reply!Absent
    BY <1>1, <2>1 DEF IsPromised
  <2> QED BY <1>1, <2>1, Returned
<1>2. CASE o[1] \notin {"returns", "GrpcException", "StandardException", "HttpException", "Error"}
  BY <1>2 DEF IsPromised
<1> QED BY <1>1, <1>2, GrpcExceptionTold, StandardExceptionTold, HttpExceptionTold, ErrorTold

-----------------------------------------------------------------------------
(* The keys of clients and the names of services.                          *)

(* What is left of two keys behind a prefix of both tells them apart.      *)
LEMMA RestTellsApart ==
  ASSUME NEW S, NEW p \in Seq(S), NEW s \in Seq(S), NEW t \in Seq(S),
         IsStrictPrefix(p, s), IsStrictPrefix(p, t),
         SubSeq(s, Len(p) + 1, Len(s)) = SubSeq(t, Len(p) + 1, Len(t))
  PROVE  s = t
<1> DEFINE n == Len(p)
<1>1. /\ n \in Nat /\ Len(s) \in Nat /\ Len(t) \in Nat
      /\ n <= Len(s) /\ n <= Len(t)
      /\ SubSeq(s, 1, n) = SubSeq(t, 1, n)
  BY DEF IsStrictPrefix, IsPrefix
<1>2. ASSUME NEW u \in Seq(S), n <= Len(u)
      PROVE  /\ Len(SubSeq(u, n + 1, Len(u))) = Len(u) - n
             /\ \A i \in 1..(Len(u) - n) : SubSeq(u, n + 1, Len(u))[i] = u[n + i]
             /\ \A i \in 1..n : SubSeq(u, 1, n)[i] = u[i]
  BY <1>1, <1>2
<1>3. Len(s) = Len(t)
  BY <1>1, <1>2
<1>4. ASSUME NEW i \in 1..Len(s) PROVE s[i] = t[i]
  <2>1. CASE i <= n
    BY <1>1, <1>2, <2>1
  <2>2. CASE i > n
    <3>1. i - n \in 1..(Len(s) - n) /\ n + (i - n) = i
      BY <1>1, <2>2
    <3> QED BY <1>1, <1>2, <1>3, <3>1
  <2> QED BY <1>1, <2>1, <2>2
<1> QED BY <1>3, <1>4

LEMMA KeysTellApart ==
  ASSUME NEW options, NEW order, NEW files, Loadable(options, order, files),
         NEW o \in ToSet(options), NEW p \in ToSet(options),
         NEW key \in Clients!KeysOf(o) \cap Clients!KeysOf(p)
  PROVE  o = p
<1>1. Clients!HealthClientKey(o.package) # p.package /\ Clients!HealthClientKey(p.package) # o.package
  BY DEF Loadable
<1>2. Clients!HealthClientKey(o.package) = Clients!HealthClientKey(p.package)
        => o.package = p.package
  BY DEF Clients!HealthClientKey
<1>3. o.package = p.package
  BY <1>1, <1>2 DEF Clients!KeysOf
<1> QED BY <1>3 DEF Loadable, NamedOnce, ToSet

LEMMA OptionsAreOwn ==
  ASSUME NEW options, NEW order, NEW files, Loadable(options, order, files),
         NEW o \in ToSet(options), NEW key \in Clients!KeysOf(o)
  PROVE  Clients!OptionsUnder(options, key) = o
<1> DEFINE under == {k \in DOMAIN options : key \in Clients!KeysOf(options[k])}
<1>1. PICK k \in DOMAIN options : options[k] = o
  BY DEF ToSet
<1>2. under = {k}
  <2>1. ASSUME NEW j \in under PROVE j = k
    <3>1. options[j] \in ToSet(options)
      BY DEF ToSet
    <3>2. options[j] = o
      BY <3>1, KeysTellApart
    <3> QED BY <1>1, <3>2 DEF Loadable, NamedOnce
  <2> QED BY <1>1, <2>1
<1>3. k \in Nat
  BY <1>1 DEF Loadable
<1>4. Clients!Max(under) = k
  BY <1>2, <1>3 DEF Clients!Max
<1> QED BY <1>1, <1>4 DEF Clients!OptionsUnder

LEMMA KeyOfSome ==
  ASSUME NEW options
  PROVE  \A key : key \in Clients!ClientKeys(options)
                   <=> \E p \in ToSet(options) : key \in Clients!KeysOf(p)
BY DEF Clients!ClientKeys, Clients!ToSet, ToSet

LEMMA ClientIsOwn ==
  ASSUME NEW options, NEW order, NEW files, Loadable(options, order, files),
         NEW o \in ToSet(options), NEW name,
         Clients!ClientOf(o, name) \in Clients!ClientKeys(options)
  PROVE  Clients!ClientOf(o, name) \in Clients!KeysOf(o)
<1>1. CASE name # Clients!Health
  BY <1>1 DEF Clients!ClientOf, Clients!KeysOf
<1>2. CASE name = Clients!Health
  <2> DEFINE key == Clients!HealthClientKey(o.package)
  <2>0. key = Clients!ClientOf(o, name)
    BY <1>2 DEF Clients!ClientOf
  <2>1. PICK p \in ToSet(options) : key \in Clients!KeysOf(p)
    BY <2>0, KeyOfSome
  <2>2. /\ Clients!HealthClientKey(o.package) = Clients!HealthClientKey(p.package)
        /\ p.healthCheck
    BY <2>1 DEF Loadable, Clients!KeysOf
  <2>3. o.package = p.package
    BY <2>2 DEF Clients!HealthClientKey
  <2>4. o = p
    BY <2>3 DEF Loadable, NamedOnce, ToSet
  <2> QED BY <2>0, <2>1, <2>4
<1> QED BY <1>1, <1>2

LEMMA ProviderForm ==
  ASSUME NEW order, NEW files
  PROVE  \A p : p \in Clients!Providers(order, files) <=>
           \E k \in DOMAIN order : \E d \in Clients!ServicesOf(order[k], files) :
             p = [at |-> k, o |-> order[k],
                  name |-> Clients!ServiceName(order[k], d), d |-> d]
BY DEF Clients!Providers

(* What a provider of one of the packages is. *)
LEMMA ProviderOf ==
  ASSUME NEW options, NEW order, NEW files, Loadable(options, order, files),
         NEW p \in Clients!Providers(order, files)
  PROVE  /\ p.at \in DOMAIN order /\ p.at \in Nat /\ p.o = order[p.at]
         /\ p.o \in ToSet(options)
         /\ p.d \in Clients!ServicesOf(p.o, files)
         /\ p.name = Clients!ServiceName(p.o, p.d)
         /\ p = [at |-> p.at, o |-> p.o, name |-> p.name, d |-> p.d]
<1>0. PICK k \in DOMAIN order : \E d \in Clients!ServicesOf(order[k], files) :
         p = [at |-> k, o |-> order[k], name |-> Clients!ServiceName(order[k], d), d |-> d]
  BY ProviderForm
<1>1. PICK d \in Clients!ServicesOf(order[k], files) :
         p = [at |-> k, o |-> order[k], name |-> Clients!ServiceName(order[k], d), d |-> d]
  BY <1>0
<1>2. k \in Nat
  BY DEF Loadable
<1>3. order[k] \in ToSet(order)
  BY DEF ToSet
<1>4. order[k] \in ToSet(options)
  BY <1>3 DEF Loadable
<1> QED BY <1>1, <1>2, <1>4

(* Two providers of a package under a name are the same one. *)
LEMMA OneProvider ==
  ASSUME NEW options, NEW order, NEW files, Loadable(options, order, files),
         NEW p \in Clients!Providers(order, files), NEW q \in Clients!Providers(order, files),
         p.o = q.o, p.name = q.name
  PROVE  p = q
<1> DEFINE o == p.o
<1>1. /\ p.at \in DOMAIN order /\ o = order[p.at] /\ o \in ToSet(options)
      /\ p.d \in Clients!ServicesOf(o, files) /\ p.name = Clients!ServiceName(o, p.d)
      /\ p = [at |-> p.at, o |-> p.o, name |-> p.name, d |-> p.d]
  BY ProviderOf
<1>2. /\ q.at \in DOMAIN order /\ o = order[q.at]
      /\ q.d \in Clients!ServicesOf(o, files) /\ p.name = Clients!ServiceName(o, q.d)
      /\ q = [at |-> q.at, o |-> q.o, name |-> q.name, d |-> q.d]
  BY ProviderOf
<1> HIDE DEF o
<1>3. p.at = q.at
  BY <1>1, <1>2 DEF Loadable, NamedOnce
<1>4. p.d = q.d
  <2>1. /\ p.d \in Clients!Loaded(o, files) /\ IsStrictPrefix(o.package, p.d.key)
        /\ q.d \in Clients!Loaded(o, files) /\ IsStrictPrefix(o.package, q.d.key)
    BY <1>1, <1>2 DEF Clients!ServicesOf, Clients!IsStrictPrefix, Clients!IsPrefix,
                      IsStrictPrefix, IsPrefix
  <2>2. p.d.key \in Seq(STRING) /\ q.d.key \in Seq(STRING)
    BY <1>1, <2>1 DEF Loadable
  <2>3. o \in Options
    BY <1>1 DEF Loadable, ToSet
  <2>4. o.package \in Seq(STRING)
    BY <2>3 DEF Options
  <2>5. SubSeq(p.d.key, Len(o.package) + 1, Len(p.d.key))
          = SubSeq(q.d.key, Len(o.package) + 1, Len(q.d.key))
    BY <1>1, <1>2 DEF Clients!ServiceName
  <2>6. p.d.key = q.d.key
    BY <2>1, <2>2, <2>4, <2>5, RestTellsApart
  <2> QED BY <1>1, <2>1, <2>6 DEF Loadable
<1> QED BY <1>1, <1>2, <1>3, <1>4 DEF o

(* getService: who shares a service's key shares its client.               *)
LEMMA ServiceIsOwn ==
  ASSUME NEW options, NEW order, NEW files, Loadable(options, order, files),
         NEW p \in Clients!Providers(order, files),
         Clients!ClientOf(p.o, p.name) \in Clients!ClientKeys(options)
  PROVE  Clients!ServiceMade(Clients!Providers(order, files), options,
                             Clients!ClientOf(p.o, p.name), p.name)
           = [client |-> Clients!ClientOf(p.o, p.name), service |-> p.name]
<1> DEFINE providers == Clients!Providers(order, files)
<1> DEFINE client == Clients!ClientOf(p.o, p.name)
<1> DEFINE makers ==
      {q \in providers :
         LET c == Clients!ClientOf(q.o, q.name)
         IN /\ c \in Clients!ClientKeys(options)
            /\ Clients!ServiceKey(c, q.name) = Clients!ServiceKey(client, p.name)}
<1> DEFINE first == CHOOSE x \in makers : \A y \in makers : x.at <= y.at
<1>1. p \in makers
  OBVIOUS
<1>2. ASSUME NEW q \in makers PROVE q = p
  <2>1. Clients!ClientOf(q.o, q.name) = client /\ q.name = p.name
    BY <1>2 DEF Clients!ServiceKey
  <2>2. client \in Clients!KeysOf(q.o) /\ client \in Clients!KeysOf(p.o)
    BY <1>2, <2>1, ClientIsOwn, ProviderOf
  <2>3. q.o = p.o
    BY <1>2, <2>2, ProviderOf, KeysTellApart
  <2> QED BY <1>2, <2>1, <2>3, OneProvider
<1>3. makers = {p}
  BY <1>1, <1>2
<1>4. first = p
  <2>1. p.at <= p.at
    BY ProviderOf
  <2> HIDE DEF makers
  <2> QED BY <1>3, <2>1
<1>5. Clients!ServiceMade(providers, options, client, p.name)
        = [client |-> Clients!ClientOf(first.o, first.name), service |-> first.name]
  BY DEF Clients!ServiceMade
<1> HIDE DEF first
<1> QED BY <1>4, <1>5

(* The table of methods, as far as no other package has the name.          *)
LEMMA DefinitionIsOwn ==
  ASSUME NEW options, NEW order, NEW files, Loadable(options, order, files),
         NEW p \in Clients!Providers(order, files),
         Alone(p.o, options, files, p.name)
  PROVE  Range(Clients!Definition(Clients!Providers(order, files), p.name))
           = Paths(p.o, files, p.name)
<1> DEFINE providers == Clients!Providers(order, files)
<1> DEFINE all == {q \in providers : q.name = p.name}
<1> DEFINE methods == UNION {q.d.methods : q \in all}
<1> DEFINE Latest(m) == CHOOSE x \in all :
                           /\ m \in x.d.methods
                           /\ \A q \in all : m \in q.d.methods => q.at <= x.at
<1> DEFINE definition == [m \in methods |-> Latest(m).d.key \o <<m>>]
<1>1. /\ p.at \in Nat /\ p.o \in ToSet(options) /\ p.d \in Clients!ServicesOf(p.o, files)
      /\ p.name = Clients!ServiceName(p.o, p.d)
  BY ProviderOf
<1>2. all = {p}
  <2>1. ASSUME NEW q \in all PROVE q = p
    <3>1. /\ q.o \in ToSet(options) /\ q.d \in Clients!ServicesOf(q.o, files)
          /\ q.name = Clients!ServiceName(q.o, q.d)
      BY ProviderOf
    <3>2. q.name \in NamesOf(q.o, files)
      BY <3>1 DEF NamesOf
    <3>3. q.o = p.o
      BY <3>1, <3>2 DEF Alone
    <3> QED BY <3>3, OneProvider
  <2> QED BY <2>1
<1>3. Clients!Definition(providers, p.name) = definition
  BY DEF Clients!Definition
<1>4. methods = p.d.methods
  <2> HIDE DEF all
  <2> QED BY <1>2
<1>5. ASSUME NEW m \in methods PROVE Latest(m) = p
  <2>1. m \in p.d.methods /\ p.at <= p.at
    BY <1>1, <1>4
  <2> HIDE DEF all
  <2> QED BY <1>2, <2>1
<1>6. {x \in Clients!ServicesOf(p.o, files) : Clients!ServiceName(p.o, x) = p.name} = {p.d}
  <2>1. ASSUME NEW d \in Clients!ServicesOf(p.o, files), Clients!ServiceName(p.o, d) = p.name
        PROVE  d = p.d
    <3> DEFINE q == [at |-> p.at, o |-> order[p.at],
                     name |-> Clients!ServiceName(order[p.at], d), d |-> d]
    <3>1. p.at \in DOMAIN order /\ p.o = order[p.at]
      BY ProviderOf
    <3>2. q \in Clients!Providers(order, files)
      BY <3>1, ProviderForm
    <3>3. q.o = p.o /\ q.name = p.name /\ q.d = d
      BY <2>1, <3>1
    <3> HIDE DEF q
    <3> QED BY <3>2, <3>3, OneProvider
  <2> QED BY <1>1, <2>1
<1>7. Paths(p.o, files, p.name) = {p.d.key \o <<m>> : m \in p.d.methods}
  <2> DEFINE named == {x \in Clients!ServicesOf(p.o, files) : Clients!ServiceName(p.o, x) = p.name}
  <2>1. UNION {{d.key \o <<m>> : m \in d.methods} : d \in named}
          = {p.d.key \o <<m>> : m \in p.d.methods}
    <3>1. named = {p.d}
      BY <1>6
    <3> HIDE DEF named
    <3> QED BY <3>1
  <2> QED BY <2>1 DEF Paths
<1>8. Range(definition) = {p.d.key \o <<m>> : m \in p.d.methods}
  <2>1. \A m \in methods : definition[m] = p.d.key \o <<m>>
    BY <1>5
  <2>2. DOMAIN definition = methods
    OBVIOUS
  <2> HIDE DEF definition, methods
  <2> QED BY <1>4, <2>1, <2>2 DEF Range
<1> QED BY <1>3, <1>7, <1>8

LEMMA EveryServiceWired ==
  ASSUME NEW options, NEW order, NEW files, Loadable(options, order, files),
         NEW o \in ToSet(options), NEW name \in NamesOf(o, files)
  PROVE  \E p \in Clients!Proxies(options, order, files) : WiredTo(p, o, options, files, name)
<1> DEFINE providers == Clients!Providers(order, files)
<1> DEFINE client == Clients!ClientOf(o, name)
<1> DEFINE proxy == Clients!GetService(providers, options, o, name)
<1>1. PICK d \in Clients!ServicesOf(o, files) : name = Clients!ServiceName(o, d)
  BY DEF NamesOf
<1>0. o \in ToSet(order)
  BY DEF Loadable
<1>2. PICK k \in DOMAIN order : order[k] = o
  BY <1>0 DEF ToSet
<1> DEFINE p == [at |-> k, o |-> order[k], name |-> Clients!ServiceName(order[k], d), d |-> d]
<1>3. p \in providers /\ p.o = o /\ p.name = name
  BY <1>1, <1>2, ProviderForm
<1> HIDE DEF p
<1>4. proxy \in Clients!Proxies(options, order, files)
  BY <1>3 DEF Clients!Proxies
<1>5. CASE client \notin Clients!ClientKeys(options)
  <2>1. proxy = [o |-> o, name |-> name, error |-> "ERR_CLIENT_NOT_FOUND"]
    BY <1>5 DEF Clients!GetService
  <2>2. client \notin Clients!KeysOf(o)
    BY <1>5, KeyOfSome
  <2>3. name = Clients!Health /\ ~o.healthCheck
    BY <2>2 DEF Clients!ClientOf, Clients!KeysOf
  <2>4. proxy.o = o /\ proxy.name = name /\ "error" \in DOMAIN proxy
    BY <2>1
  <2> QED BY <1>4, <2>3, <2>4 DEF WiredTo
<1>6. CASE client \in Clients!ClientKeys(options)
  <2>1. proxy = [o |-> o, name |-> name,
                 service |-> Clients!ServiceMade(providers, options, client, name),
                 options |-> Clients!OptionsUnder(options, client),
                 definition |-> Clients!Definition(providers, name)]
    BY <1>6 DEF Clients!GetService
  <2>2. /\ proxy.o = o /\ proxy.name = name /\ "error" \notin DOMAIN proxy
        /\ proxy.service = Clients!ServiceMade(providers, options, client, name)
        /\ proxy.options = Clients!OptionsUnder(options, client)
        /\ proxy.definition = Clients!Definition(providers, name)
    BY <2>1
  <2>3. Clients!ServiceMade(providers, options, client, name)
          = [client |-> client, service |-> name]
    BY <1>3, <1>6, ServiceIsOwn
  <2>4. Clients!OptionsUnder(options, client) = o
    BY <1>6, ClientIsOwn, OptionsAreOwn
  <2>5. Alone(o, options, files, name)
          => Range(Clients!Definition(providers, name)) = Paths(o, files, name)
    BY <1>3, DefinitionIsOwn
  <2> HIDE DEF proxy
  <2> QED BY <1>4, <2>2, <2>3, <2>4, <2>5 DEF WiredTo
<1> QED BY <1>5, <1>6

-----------------------------------------------------------------------------
(* Every call is answered by what it is a call of.                         *)
Settled ==
  /\ call \in HelperCalls
  /\ \/ result = Pending
     \/ call[1] = "reply" /\ result = <<ReplyTo(call[2], call[3], call[4])>>
     \/ call[1] = "clients" /\ result = <<Clients!Proxies(call[2], call[3], call[4])>>

LEMMA SettledStays == HelperSpec => []Settled
<1>1. HelperInit => Settled
  BY DEF HelperInit, Settled
<1>2. Settled /\ [HelperNext]_<<call, result>> => Settled'
  BY DEF Settled, HelperNext, CallHandler, WireClients, Answer
<1> QED BY <1>1, <1>2, PTL DEF HelperSpec

(***************************************************************************)
(* Whatever a handler returns or throws, its caller is told of it, for any *)
(* data, codes and messages, and either filter, unless the data does not   *)
(* fit the response: then the request fails, or the data is lost           *)
(* (GrpcHelperMethod, the reply classes, the exception filters, the wire   *)
(* and ServiceProxy.send).                                                 *)
(***************************************************************************)
THEOREM HandlersAreHeard == HelperSpec => []ReplyIsFaithful
<1>1. Settled => ReplyIsFaithful
  <2> SUFFICES ASSUME Settled, Answered("reply"), IsPromised(call[3])
               PROVE  IsTold(call[2], call[3], call[4], Got)
    BY DEF ReplyIsFaithful
  <2>1. call \in HelperCalls /\ call[1] = "reply"
    BY DEF Settled, Answered
  <2>2. call[2].filter \in {"grpc", "standard"} /\ PlainOutcome(call[3])
    BY <2>1, HelperAssumption
  <2>3. Got = ReplyTo(call[2], call[3], call[4])
    BY <2>1 DEF Settled, Answered, Got
  <2> QED BY <2>2, <2>3, EveryOutcomeTold
<1> QED BY <1>1, SettledStays, PTL

(***************************************************************************)
(* However many packages there are, in whatever order they are loaded,     *)
(* each service is given a proxy of its own client, options and methods    *)
(* (GrpcClientsModule.forRoot and GrpcClientsService.getService).          *)
(***************************************************************************)
THEOREM ClientsAreOwn == HelperSpec => []ProxiesAreWired
<1>1. Settled => ProxiesAreWired
  <2> SUFFICES ASSUME Settled, Answered("clients"),
                      NEW o \in ToSet(call[2]), NEW name \in NamesOf(o, call[4])
               PROVE  \E p \in Got : WiredTo(p, o, call[2], call[4], name)
    BY DEF ProxiesAreWired
  <2>1. call \in HelperCalls /\ call[1] = "clients"
    BY DEF Settled, Answered
  <2>2. Loadable(call[2], call[3], call[4])
    BY <2>1, HelperAssumption
  <2>3. Got = Clients!Proxies(call[2], call[3], call[4])
    BY <2>1 DEF Settled, Answered, Got
  <2> QED BY <2>2, <2>3, EveryServiceWired
<1> QED BY <1>1, SettledStays, PTL

-----------------------------------------------------------------------------
(* Products of whole numbers.                                              *)

LEMMA Times == ASSUME NEW a \in Int, NEW b \in Int, NEW c \in Nat, a <= b PROVE a * c <= b * c
OBVIOUS

LEMMA Cancel ==
  ASSUME NEW a \in Int, NEW b \in Int, NEW c \in Nat \ {0}, a * c <= b * c
  PROVE  a <= b
OBVIOUS

LEMMA Quotient ==
  ASSUME NEW a \in Int, NEW c \in Nat \ {0}
  PROVE  a \div c \in Int /\ (a \div c) * c <= a /\ a < (a \div c) * c + c
OBVIOUS

LEMMA Least ==
  ASSUME NEW S \in SUBSET Nat, S # {}
  PROVE  \E x \in S : \A y \in S : x <= y
<1>1. PICK x \in S : \A y \in S : ~ (<<y, x>> \in OpToRel(<, Nat))
  BY NatLessThanWellFounded, WFMin
<1>2. \A y \in S : ~ (y < x)
  BY <1>1 DEF OpToRel
<1> QED BY <1>2

(* maxHeight exists, and its square fits.                                  *)
LEMMA FloorSqrtIs ==
  ASSUME NEW n \in Nat, NEW m \in Nat \ {0}
  PROVE  FloorSqrt(n, m) \in Nat /\ FloorSqrt(n, m) * FloorSqrt(n, m) * m <= n
<1> DEFINE S == {k \in Nat : k * k * m > n}
           Is(k) == k * k * m <= n /\ (k + 1) * (k + 1) * m > n
<1>1. n + 1 \in S
  <2>1. n + 1 <= (n + 1) * (n + 1)
    OBVIOUS
  <2>2. (n + 1) * (n + 1) <= (n + 1) * (n + 1) * m
    <3> DEFINE q == (n + 1) * (n + 1)
    <3>1. q \in Nat
      OBVIOUS
    <3> HIDE DEF q
    <3>2. q <= q * m
      BY <3>1
    <3> QED BY <3>2 DEF q
  <2> QED BY <2>1, <2>2
<1>2. PICK x \in S : \A y \in S : x <= y
  <2> HIDE DEF S
  <2>1. S \in SUBSET Nat
    BY DEF S
  <2> QED BY <1>1, <2>1, Least
<1>3. x # 0
  BY <1>2
<1>4. x - 1 \in 0..n /\ Is(x - 1)
  <2>1. x - 1 \in Nat /\ x - 1 \notin S /\ x <= n + 1 /\ (x - 1) + 1 = x
    BY <1>1, <1>2, <1>3
  <2> QED BY <1>2, <2>1
<1>5. \E k \in 0..n : Is(k)
  BY <1>4
<1>6. FloorSqrt(n, m) = CHOOSE k \in 0..n : Is(k)
  BY DEF FloorSqrt
<1>7. FloorSqrt(n, m) \in 0..n /\ Is(FloorSqrt(n, m))
  <2> HIDE DEF Is
  <2> QED BY <1>5, <1>6
<1> QED BY <1>7

(* The area of a logo is at most that of the modules it may hide.          *)
LEMMA AreaFits ==
  ASSUME NEW dot \in Nat, NEW hidden \in Nat, NEW w \in Nat \ {0}, NEW h \in Nat \ {0},
         NEW b \in Nat, NEW logo, logo = LogoSize(dot, hidden, w, h, b),
         logo.innerWidth > 0, logo.innerHeight > 0
  PROVE  /\ logo.width \in Nat \ {0} /\ logo.height \in Nat \ {0}
         /\ logo.width * logo.height <= dot * dot * hidden
<1> DEFINE D == dot * dot * hidden
           M == FloorSqrt(D * h, w)
           V == (M * w) \div h
           W == logo.width
           H == logo.height
           iW == logo.innerWidth
           iH == logo.innerHeight
<1>1. D \in Nat /\ D * h \in Nat
  OBVIOUS
<1>2. M \in Nat /\ M * M * w <= D * h
  <2> HIDE DEF D
  <2> QED BY <1>1, FloorSqrtIs
<1>3. M * w \in Nat
  <2> HIDE DEF M
  <2> QED BY <1>2
<1>4. V \in Int /\ V * h <= M * w
  <2> HIDE DEF M
  <2> QED BY <1>3, Quotient
<1>5. CASE w > h
  <2>1. iH = M - 2 * b /\ iW = (iH * w) \div h /\ W = iW + 2 * b /\ H = iH + 2 * b
    BY <1>5 DEF LogoSize
  <2> HIDE DEF D, M, V, W, H, iW, iH
  <2>2. iH \in Int /\ H = M /\ iH * w \in Int
    BY <1>2, <2>1
  <2>3. iW \in Int /\ iW * h <= iH * w
    BY <2>1, <2>2, Quotient
  <2>4. W \in Nat \ {0} /\ H \in Nat \ {0}
    BY <1>2, <2>1, <2>2, <2>3 DEF W, H, iW
  <2>5. W * h <= M * w
    <3>1. (2 * b) * h <= (2 * b) * w
      BY <1>5
    <3>2. W * h = iW * h + (2 * b) * h
      BY <2>1, <2>3
    <3>3. M * w = iH * w + (2 * b) * w
      BY <1>2, <2>1, <2>2
    <3> QED BY <2>2, <2>3, <3>1, <3>2, <3>3
  <2>6. (W * H) * h <= D * h
    <3>1. (W * h) * M <= (M * w) * M
      BY <1>2, <1>3, <2>4, <2>5, Times
    <3>2. (W * h) * M = (W * H) * h /\ (M * w) * M = M * M * w
      BY <1>2, <2>2, <2>4
    <3> QED BY <1>1, <1>2, <2>4, <3>1, <3>2
  <2>7. W * H <= D
    BY <1>1, <2>4, <2>6, Cancel
  <2> QED BY <2>4, <2>7 DEF W, H, D
<1>6. CASE ~(w > h)
  <2>1. iW = V - 2 * b /\ iH = (iW * h) \div w /\ W = iW + 2 * b /\ H = iH + 2 * b
    BY <1>6 DEF LogoSize
  <2> HIDE DEF D, M, V, W, H, iW, iH
  <2>2. iW \in Int /\ W = V /\ iW * h \in Int
    BY <1>4, <2>1
  <2>3. iH \in Int /\ iH * w <= iW * h
    BY <2>1, <2>2, Quotient
  <2>4. W \in Nat \ {0} /\ H \in Nat \ {0}
    BY <1>4, <2>1, <2>2, <2>3 DEF iW, iH
  <2>5. H <= M
    <3>1. (2 * b) * w <= (2 * b) * h
      BY <1>6
    <3>2. H * w = iH * w + (2 * b) * w
      BY <2>1, <2>3
    <3>3. V * h = iW * h + (2 * b) * h
      BY <1>4, <2>1, <2>2
    <3>4. H * w <= M * w
      BY <1>3, <1>4, <2>2, <2>3, <2>4, <3>1, <3>2, <3>3
    <3> QED BY <1>2, <2>4, <3>4, Cancel
  <2>6. (W * H) * h <= D * h
    <3>1. (V * h) * H <= (M * w) * H
      BY <1>3, <1>4, <2>4, Times
    <3>2. H * (M * w) <= M * (M * w)
      BY <1>2, <1>3, <2>4, <2>5, Times
    <3>3. (V * h) * H = (W * H) * h /\ (M * w) * H = H * (M * w) /\ M * (M * w) = M * M * w
      BY <1>2, <1>4, <2>2, <2>4
    <3> QED BY <1>1, <1>2, <1>3, <2>4, <3>1, <3>2, <3>3
  <2>7. W * H <= D
    BY <1>1, <2>4, <2>6, Cancel
  <2> QED BY <2>4, <2>7 DEF W, H, D
<1> QED BY <1>5, <1>6

-----------------------------------------------------------------------------
(* What a logo costs lies around the middle, Reach modules to each side.   *)
Reach(length, dot) == (length \div dot) \div 2
Span(middle, reach) == (middle - reach)..(middle + reach)

LEMMA RangeIsCovered ==
  ASSUME NEW dot \in Nat \ {0}, NEW length \in Nat, NEW count \in Nat, NEW k \in Int,
         2 * k >= count - Ceil(length, dot), 2 * k <= count + Ceil(length, dot) - 2
  PROVE  (2 * k + 1 - count) * dot \in (-length)..length
<1> DEFINE up == Ceil(length, dot)
           off == 2 * k + 1 - count
<1>1. up \in Int /\ up * dot <= length + dot - 1
  BY Quotient DEF Ceil
<1>2. off \in Int /\ off <= up - 1 /\ -off <= up - 1
  BY <1>1
<1> HIDE DEF up, off
<1>3. off * dot <= (up - 1) * dot /\ (-off) * dot <= (up - 1) * dot
  BY <1>1, <1>2, Times
<1>4. (up - 1) * dot = up * dot - dot /\ (-off) * dot = -(off * dot)
  BY <1>1, <1>2
<1> QED BY <1>1, <1>2, <1>3, <1>4 DEF off

LEMMA CoveredIsNear ==
  ASSUME NEW dot \in Nat \ {0}, NEW length \in Nat, NEW middle \in Nat, NEW k \in Int,
         (2 * k + 1 - (2 * middle + 1)) * dot \in (-length)..length
  PROVE  k \in Span(middle, Reach(length, dot))
<1> DEFINE a == length \div dot
           off == 2 * k + 1 - (2 * middle + 1)
<1>1. a \in Int /\ length < a * dot + dot
  BY Quotient
<1>2. off = 2 * (k - middle)
  OBVIOUS
<1>3. ASSUME NEW x \in Int, x * dot <= length PROVE x <= a
  <2> HIDE DEF a
  <2>1. CASE x >= a + 1
    <3>1. (a + 1) * dot <= x * dot
      BY <1>1, <2>1, Times
    <3>2. (a + 1) * dot = a * dot + dot
      BY <1>1
    <3> QED BY <1>1, <1>3, <3>1, <3>2
  <2> QED BY <1>1, <2>1
<1>4. off <= a /\ -off <= a
  <2>1. off \in Int /\ -off \in Int /\ (-off) * dot = -(off * dot)
    OBVIOUS
  <2>2. off * dot <= length /\ (-off) * dot <= length
    <3> HIDE DEF off
    <3>1. off * dot \in Int
      BY <2>1
    <3> QED BY <2>1, <3>1 DEF off
  <2> HIDE DEF off, a
  <2> QED BY <1>3, <2>1, <2>2
<1> HIDE DEF a, off
<1> QED BY <1>1, <1>2, <1>4 DEF Span, Reach, a

LEMMA LostIsNear ==
  ASSUME NEW dot \in Nat \ {0}, NEW middle \in Nat, NEW logo,
         logo.width \in Nat, logo.height \in Nat
  PROVE  \A m \in Lost(logo, dot, 2 * middle + 1) :
            /\ m \in (0..(2 * middle)) \X (0..(2 * middle))
            /\ m[1] \in Span(middle, Reach(logo.width, dot))
            /\ m[2] \in Span(middle, Reach(logo.height, dot))
<1> DEFINE count == 2 * middle + 1
<1> TAKE m \in Lost(logo, dot, count)
<1>1. m \in (0..(2 * middle)) \X (0..(2 * middle)) /\ m[1] \in Int /\ m[2] \in Int
  BY DEF Lost
<1>2. InLogoRange(logo, dot, count, m[1], m[2]) => UnderLogo(logo, dot, count, m[1], m[2])
  <2>1. count \in Nat
    OBVIOUS
  <2> HIDE DEF count
  <2> QED BY <1>1, <2>1, RangeIsCovered DEF InLogoRange, UnderLogo
<1>3. UnderLogo(logo, dot, count, m[1], m[2])
  BY <1>2 DEF Lost
<1> QED BY <1>1, <1>3, CoveredIsNear DEF UnderLogo

(* The two reaches span no more than the hidden modules.                   *)
LEMMA ReachesFit ==
  ASSUME NEW dot \in Nat \ {0}, NEW hidden \in Nat, NEW W \in Nat, NEW H \in Nat,
         W * H <= dot * dot * hidden
  PROVE  /\ Reach(W, dot) \in Nat /\ Reach(H, dot) \in Nat
         /\ 4 * (Reach(W, dot) * Reach(H, dot)) <= hidden
<1> DEFINE u == Reach(W, dot)
           v == Reach(H, dot)
<1>1. ASSUME NEW x \in Nat PROVE Reach(x, dot) \in Nat /\ (2 * Reach(x, dot)) * dot <= x
  <2> DEFINE a == x \div dot
  <2>1. a \in Int /\ a * dot <= x /\ x < a * dot + dot
    BY Quotient
  <2>2. a >= 0
    <3> HIDE DEF a
    <3>1. CASE a <= -1
      <4>1. a * dot <= (-1) * dot
        BY <2>1, <3>1, Times
      <4> QED BY <2>1, <4>1
    <3> QED BY <2>1, <3>1
  <2> HIDE DEF a
  <2>3. a \div 2 \in Nat /\ 2 * (a \div 2) <= a
    BY <2>1, <2>2
  <2>4. (2 * (a \div 2)) * dot <= a * dot
    <3> DEFINE q == 2 * (a \div 2)
    <3>1. q \in Int /\ q <= a
      BY <2>3
    <3> HIDE DEF q
    <3>2. q * dot <= a * dot
      BY <2>1, <3>1, Times
    <3> QED BY <3>2 DEF q
  <2>5. Reach(x, dot) = a \div 2
    BY DEF Reach, a
  <2> DEFINE r == a \div 2
  <2>6. r \in Nat /\ (2 * r) * dot <= a * dot /\ (2 * r) * dot \in Int /\ a * dot \in Int
    BY <2>1, <2>3, <2>4
  <2> HIDE DEF r
  <2> QED BY <2>1, <2>5, <2>6 DEF r
<1>2. u \in Nat /\ v \in Nat /\ (2 * u) * dot <= W /\ (2 * v) * dot <= H
  BY <1>1
<1> HIDE DEF u, v
<1>3. ((2 * u) * dot) * ((2 * v) * dot) <= W * H
  <2> DEFINE x == (2 * u) * dot
             y == (2 * v) * dot
  <2>1. x \in Nat /\ y \in Nat /\ x <= W /\ y <= H
    BY <1>2
  <2> HIDE DEF x, y
  <2>2. x * y <= W * y /\ y * W <= H * W
    BY <2>1, Times
  <2>3. x * y <= W * H
    BY <2>1, <2>2
  <2> QED BY <2>3 DEF x, y
<1>4. (4 * (u * v)) * (dot * dot) <= hidden * (dot * dot)
  <2>1. ((2 * u) * dot) * ((2 * v) * dot) = (4 * (u * v)) * (dot * dot)
    BY <1>2
  <2> QED BY <1>2, <1>3, <2>1
<1>5. 4 * (u * v) \in Int /\ dot * dot \in Nat \ {0}
  BY <1>2
<1>6. 4 * (u * v) <= hidden
  <2> DEFINE x == 4 * (u * v)
             y == dot * dot
  <2>1. x * y <= hidden * y /\ x \in Int /\ y \in Nat \ {0}
    BY <1>4, <1>5
  <2> HIDE DEF x, y
  <2>2. x <= hidden
    BY <2>1, Cancel
  <2> QED BY <2>2 DEF x
<1> QED BY <1>2, <1>6 DEF u, v

(* A box of that many modules.                                             *)
LEMMA BoxSize ==
  ASSUME NEW u \in Nat, NEW v \in Nat, NEW middle \in Nat,
         NEW S, \A m \in S : m \in Span(middle, u) \X Span(middle, v)
  PROVE  IsFiniteSet(S) /\ Cardinality(S) \in Nat /\ Cardinality(S) <= (2 * u + 1) * (2 * v + 1)
<1>1. ASSUME NEW r \in Nat
      PROVE  IsFiniteSet(Span(middle, r)) /\ Cardinality(Span(middle, r)) = 2 * r + 1
  BY FS_Interval DEF Span
<1>2. /\ IsFiniteSet(Span(middle, u) \X Span(middle, v))
      /\ Cardinality(Span(middle, u) \X Span(middle, v)) = (2 * u + 1) * (2 * v + 1)
  BY <1>1, FS_Product
<1>3. S \in SUBSET (Span(middle, u) \X Span(middle, v))
  OBVIOUS
<1> QED BY <1>2, <1>3, FS_Subset, FS_CardinalityType

(* A row or a column of the code.                                          *)
LEMMA LineSize ==
  ASSUME NEW middle \in Nat, NEW S,
         \/ \A m \in S : m \in {middle} \X (0..(2 * middle))
         \/ \A m \in S : m \in (0..(2 * middle)) \X {middle}
  PROVE  IsFiniteSet(S) /\ Cardinality(S) \in Nat /\ Cardinality(S) <= 2 * middle + 1
<1> DEFINE line == 0..(2 * middle)
<1>1. IsFiniteSet(line) /\ Cardinality(line) = 2 * middle + 1
  BY FS_Interval
<1>2. IsFiniteSet({middle}) /\ Cardinality({middle}) = 1
  BY FS_Singleton
<1>3. /\ IsFiniteSet({middle} \X line) /\ Cardinality({middle} \X line) = 2 * middle + 1
      /\ IsFiniteSet(line \X {middle}) /\ Cardinality(line \X {middle}) = 2 * middle + 1
  <2> HIDE DEF line
  <2>1. /\ IsFiniteSet({middle} \X line)
        /\ Cardinality({middle} \X line) = Cardinality({middle}) * Cardinality(line)
    BY <1>1, <1>2, FS_Product
  <2>2. /\ IsFiniteSet(line \X {middle})
        /\ Cardinality(line \X {middle}) = Cardinality(line) * Cardinality({middle})
    BY <1>1, <1>2, FS_Product
  <2> QED BY <1>1, <1>2, <2>1, <2>2
<1>4. S \in SUBSET ({middle} \X line) \/ S \in SUBSET (line \X {middle})
  OBVIOUS
<1> QED BY <1>3, <1>4, FS_Subset, FS_CardinalityType

(* The share is squared, so that there is room for the rounding.           *)
LEMMA SharesLeaveRoom ==
  ASSUME NEW P \in {7, 15, 25, 30}, NEW count \in Nat, count >= 21,
         NEW hidden \in Nat, 10000 * hidden <= P * P * count * count
  PROVE  /\ 100 * count <= P * count * count
         /\ 150 * hidden + 300 <= P * count * count
         /\ hidden < (count - 13) * (count - 13)
<1> DEFINE q == count * count
<1>1. q \in Nat /\ 21 * count <= q /\ 441 <= q
  BY Times
<1>2. P * P * count * count = (P * P) * q /\ P * count * count = P * q
  OBVIOUS
<1>3. 10000 * hidden <= (P * P) * q
  BY <1>2
<1>4. (count - 13) * (count - 13) = q - 26 * count + 169
  OBVIOUS
<1> HIDE DEF q
<1>5. CASE P = 7
  BY <1>1, <1>2, <1>3, <1>4, <1>5
<1>6. CASE P = 15
  BY <1>1, <1>2, <1>3, <1>4, <1>6
<1>7. CASE P = 25
  BY <1>1, <1>2, <1>3, <1>4, <1>7
<1>8. CASE P = 30
  <2>1. (P * P) * q = 900 * q /\ P * q = 30 * q
    BY <1>8
  <2>2. 100 * hidden <= 9 * q
    BY <1>1, <1>3, <2>1
  <2>3. 9 * q < 100 * (q - 26 * count + 169)
    <3>1. 91 * q = (91 * count) * count
      BY DEF q
    <3>2. 91 * q >= 2600 * count - 16900 + 1
      <4>1. CASE count >= 29
        <5>1. 29 * count <= q
          BY <4>1, Times DEF q
        <5> QED BY <1>1, <5>1
      <4>2. CASE ~(count >= 29)
        <5>1. count \in 21..28
          BY <4>2
        <5>2. \A k \in 21..28 : 91 * (k * k) >= 2600 * k - 16900 + 1
          OBVIOUS
        <5> QED BY <5>1, <5>2 DEF q
      <4> QED BY <4>1, <4>2
    <3> QED BY <1>1, <3>2
  <2> QED BY <1>1, <1>2, <1>4, <1>8, <2>1, <2>2, <2>3
<1> QED BY <1>5, <1>6, <1>7, <1>8

(* A logo with its border and picture costs no more than it may.           *)
LEMMA LogoFits ==
  ASSUME NEW count \in Counts, NEW level \in DOMAIN Percent, NEW dot \in Nat,
         NEW w \in Nat \ {0}, NEW h \in Nat \ {0}, NEW b \in Nat,
         NEW logo, logo = LogoSize(dot, MaxHidden(level, count), w, h, b),
         logo.innerWidth > 0, logo.innerHeight > 0
  PROVE  LeavesEnough(Lost(logo, dot, count), level, count)
<1> DEFINE P == Percent[level]
           hidden == MaxHidden(level, count)
           W == logo.width
           H == logo.height
           u == Reach(W, dot)
           v == Reach(H, dot)
           lost == Lost(logo, dot, count)
<1>1. PICK middle \in Nat : count = 2 * middle + 1 /\ middle >= 10
  <2>1. PICK version \in 1..40 : count = 4 * version + 17
    BY DEF Counts
  <2>2. count = 2 * (2 * version + 8) + 1 /\ 2 * version + 8 \in Nat /\ 2 * version + 8 >= 10
    BY <2>1
  <2> QED BY <2>2
<1>2. count \in Nat /\ count >= 21
  BY <1>1
<1>3. P \in {7, 15, 25, 30}
  BY DEF Percent
<1>4. hidden \in Nat /\ 10000 * hidden <= P * P * count * count
  <2> DEFINE n == P * P * count * count
  <2>1. n \in Nat
    BY <1>2, <1>3
  <2>2. hidden = n \div 10000
    BY DEF MaxHidden
  <2> HIDE DEF n, hidden
  <2>3. hidden \in Nat /\ 10000 * hidden <= n
    BY <2>1, <2>2
  <2> QED BY <2>3 DEF n
<1>5. W \in Nat \ {0} /\ H \in Nat \ {0} /\ W * H <= dot * dot * hidden
  <2>1. hidden \in Nat /\ logo = LogoSize(dot, hidden, w, h, b)
    BY <1>4
  <2> HIDE DEF hidden
  <2> QED BY <2>1, AreaFits, Zenon
<1>6. dot # 0
  <2>1. SUFFICES ASSUME dot = 0 PROVE FALSE
    OBVIOUS
  <2>2. W * H <= 0
    BY <1>4, <1>5, <2>1
  <2>3. W * H > 0
    BY <1>5
  <2> QED BY <1>5, <2>2, <2>3
<1>7. u \in Nat /\ v \in Nat /\ 4 * (u * v) <= hidden
  <2> HIDE DEF hidden, W, H
  <2>1. dot \in Nat \ {0} /\ hidden \in Nat /\ W \in Nat /\ H \in Nat
    BY <1>4, <1>5, <1>6
  <2>2. /\ Reach(W, dot) \in Nat /\ Reach(H, dot) \in Nat
        /\ 4 * (Reach(W, dot) * Reach(H, dot)) <= hidden
    BY <1>5, <2>1, ReachesFit
  <2> QED BY <2>2
<1>8. \A m \in lost : /\ m \in (0..(2 * middle)) \X (0..(2 * middle))
                      /\ m[1] \in Span(middle, u) /\ m[2] \in Span(middle, v)
  BY <1>1, <1>5, <1>6, LostIsNear
<1>9. /\ 100 * count <= P * count * count
      /\ 150 * hidden + 300 <= P * count * count
      /\ hidden < (count - 13) * (count - 13)
  <2> HIDE DEF hidden, P
  <2> QED BY <1>2, <1>3, <1>4, SharesLeaveRoom
<1> HIDE DEF P, hidden, W, H, u, v, lost
<1>10. 100 * Cardinality(lost) <= P * count * count
  <2> DEFINE cost == Cardinality(lost)
             room == P * count * count
  <2>1. room \in Nat
    BY <1>2, <1>3
  <2>2. CASE u = 0 \/ v = 0
    <3>1. \/ \A m \in lost : m \in {middle} \X (0..(2 * middle))
          \/ \A m \in lost : m \in (0..(2 * middle)) \X {middle}
      BY <1>7, <1>8, <2>2 DEF Span
    <3>2. cost \in Nat /\ cost <= count
      BY <1>1, <3>1, LineSize
    <3> HIDE DEF cost, room
    <3> QED BY <1>2, <1>9, <2>1, <3>2 DEF cost, room
  <2>3. CASE u >= 1 /\ v >= 1
    <3>1. cost \in Nat /\ cost <= (2 * u + 1) * (2 * v + 1)
      <4>1. \A m \in lost : m \in Span(middle, u) \X Span(middle, v)
        BY <1>8
      <4> QED BY <1>7, <4>1, BoxSize
    <3>2. (2 * u + 1) * (2 * v + 1) = 4 * (u * v) + 2 * (u + v) + 1
      BY <1>7
    <3>3. u + v <= u * v + 1
      <4>1. (u - 1) * (v - 1) \in Nat /\ (u - 1) * (v - 1) = u * v - u - v + 1
        BY <1>7, <2>3
      <4> QED BY <1>7, <4>1
    <3> DEFINE uv == u * v
    <3>4. uv \in Nat /\ cost <= 6 * uv + 3 /\ 4 * uv <= hidden
      BY <1>7, <3>1, <3>2, <3>3
    <3>5. 150 * hidden + 300 <= room
      BY <1>9
    <3> HIDE DEF cost, room, uv
    <3>6. 100 * cost <= room
      BY <1>4, <2>1, <3>1, <3>4, <3>5 DEF cost
    <3> QED BY <3>6 DEF cost, room
  <2> QED BY <1>7, <2>2, <2>3
<1>11. ASSUME NEW m \in lost, NEW edge, edge = (0..6) \cup ((count - 7)..(count - 1)),
              m[1] \in edge, m[2] \in edge
       PROVE  FALSE
  <2>1. u >= middle - 6 /\ v >= middle - 6
    BY <1>1, <1>7, <1>8, <1>11 DEF Span
  <2>2. (middle - 6) * (middle - 6) <= u * v
    <3>1. (middle - 6) * (middle - 6) <= u * (middle - 6)
      BY <1>1, <1>7, <2>1, Times
    <3>2. (middle - 6) * u <= v * u
      BY <1>1, <1>7, <2>1, Times
    <3> QED BY <1>1, <1>7, <3>1, <3>2
  <2>3. (count - 13) * (count - 13) = 4 * ((middle - 6) * (middle - 6))
    BY <1>1
  <2>4. (middle - 6) * (middle - 6) \in Nat /\ u * v \in Nat
    BY <1>1, <1>7
  <2> QED BY <1>4, <1>7, <1>9, <2>2, <2>3, <2>4
<1>12. 100 * Cardinality(lost) <= Percent[level] * count * count
  BY <1>10 DEF P
<1>13. LeavesEnough(lost, level, count)
  <2> DEFINE edge == (0..6) \cup ((count - 7)..(count - 1))
  <2>1. \A m \in lost : ~(m[1] \in edge /\ m[2] \in edge)
    <3> HIDE DEF edge
    <3> QED BY <1>11 DEF edge
  <2> QED BY <1>12, <2>1 DEF LeavesEnough
<1> QED BY <1>13 DEF lost

-----------------------------------------------------------------------------
(* A call has no answer yet, or that of its package.                       *)
NodeSettled ==
  /\ call \in NodeCalls
  /\ \/ result = Pending
     \/ call[1] = "proxy" /\ result = <<NodeProxy!Pass(call[2], call[3], call[4])>>
     \/ call[1] = "logo" /\ result = <<LogoSize(DotOf(call[2], call[4]),
                                                MaxHidden(call[3], call[2]),
                                                call[5][1], call[5][2], call[6])>>

THEOREM NodeAnswers == NodeSpec => []NodeSettled
<1>1. NodeInit => NodeSettled
  BY DEF NodeInit, NodeSettled
<1>2. NodeSettled /\ [NodeNext]_<<call, result>> => NodeSettled'
  <2> SUFFICES ASSUME NodeSettled, [NodeNext]_<<call, result>> PROVE NodeSettled'
    OBVIOUS
  <2>1. CASE PassRequest
    BY <2>1 DEF PassRequest, Answer, NodeSettled
  <2>2. CASE SizeLogo
    BY <2>2 DEF SizeLogo, Answer, NodeSettled
  <2>3. CASE UNCHANGED <<call, result>>
    BY <2>3 DEF NodeSettled
  <2> QED BY <2>1, <2>2, <2>3 DEF NodeNext
<1> QED BY <1>1, <1>2, PTL DEF NodeSpec

(***************************************************************************)
(* Of every code of QR, at every width, level, picture and border, the     *)
(* modules a logo costs stay within what the error correction restores.    *)
(***************************************************************************)
THEOREM LogosLeaveEnough == NodeSpec => []LogoLeavesEnough
<1>1. NodeSettled => LogoLeavesEnough
  <2> SUFFICES ASSUME NodeSettled, Answered("logo"), Got.innerWidth > 0, Got.innerHeight > 0
               PROVE  LeavesEnough(Lost(Got, DotOf(call[2], call[4]), call[2]), call[3], call[2])
    BY DEF LogoLeavesEnough
  <2> DEFINE dot == DotOf(call[2], call[4])
  <2>1. /\ call[1] = "logo"
        /\ Got = LogoSize(dot, MaxHidden(call[3], call[2]), call[5][1], call[5][2], call[6])
    BY DEF NodeSettled, Answered, Got
  <2>2. /\ call[2] \in Counts /\ call[3] \in DOMAIN Percent
        /\ call[4] \in Nat /\ call[4] >= 8
        /\ call[5][1] \in Nat \ {0} /\ call[5][2] \in Nat \ {0} /\ call[6] \in Nat
    BY <2>1, NodeAssumption DEF NodeSettled
  <2>3. dot \in Nat
    <3>1. call[2] \in Nat \ {0} /\ call[4] - 8 \in Nat
      BY <2>2 DEF Counts
    <3> QED BY <3>1 DEF DotOf
  <2> HIDE DEF dot
  <2>4. LeavesEnough(Lost(Got, dot, call[2]), call[3], call[2])
    BY <2>1, <2>2, <2>3, LogoFits
  <2> QED BY <2>4 DEF dot
<1> QED BY <1>1, NodeAnswers, PTL

-----------------------------------------------------------------------------
(* Induction and recursion on the naturals.                                *)
LEMMA Induct ==
  ASSUME NEW n \in Nat, NEW S, 0 \in S, \A i \in 0..(n-1) : i \in S => i + 1 \in S
  PROVE  \A i \in 0..n : i \in S
<1> DEFINE T == {i \in 0..n : i \notin S}
<1>1. SUFFICES ASSUME T # {} PROVE FALSE
  OBVIOUS
<1>2. PICK x \in T : \A y \in T : x <= y
  <2>1. T \in SUBSET Nat
    OBVIOUS
  <2> HIDE DEF T
  <2> QED BY <1>1, <2>1, Least
<1>3. x # 0 /\ x - 1 \in 0..(n-1) /\ x - 1 \in S
  BY <1>2
<1> QED BY <1>2, <1>3

(* What a recursion keeps at every step holds of all it returns.           *)
LEMMA Kept ==
  ASSUME NEW n \in Nat, NEW St, NEW f, f[0] \in St,
         \A i \in 1..n : f[i-1] \in St => f[i] \in St
  PROVE  \A i \in 0..n : f[i] \in St
<1> DEFINE S == {i \in 0..n : f[i] \in St}
<1>1. 0 \in S
  OBVIOUS
<1>2. ASSUME NEW i \in 0..(n-1), i \in S PROVE i + 1 \in S
  <2>1. i + 1 \in 1..n /\ (i + 1) - 1 = i
    OBVIOUS
  <2> QED BY <1>2, <2>1
<1> HIDE DEF S
<1>3. \A i \in 0..n : i \in S
  BY <1>1, <1>2, Induct
<1> QED BY <1>3 DEF S

Computes(f, base, step, n) == f[0] = base /\ \A i \in 1..n : f[i] = step[i][f[i-1]]

LEMMA Recursion ==
  ASSUME NEW St, NEW base \in St, NEW n \in Nat, NEW step \in [1..n -> [St -> St]]
  PROVE  \E f \in [0..n -> St] : Computes(f, base, step, n)
<1> DEFINE Has(m) == \E f \in [0..m -> St] : Computes(f, base, step, m)
           S == {m \in 0..n : Has(m)}
<1>1. 0 \in S
  <2> DEFINE g == [i \in 0..0 |-> base]
  <2>1. g \in [0..0 -> St] /\ g[0] = base
    OBVIOUS
  <2>2. Computes(g, base, step, 0)
    BY <2>1 DEF Computes
  <2> QED BY <2>1, <2>2
<1>2. ASSUME NEW m \in 0..(n-1), m \in S PROVE m + 1 \in S
  <2>1. SUFFICES Has(m + 1)
    OBVIOUS
  <2>2. PICK f \in [0..m -> St] : Computes(f, base, step, m)
    BY <1>2
  <2> DEFINE g == [i \in 0..(m+1) |-> IF i = m + 1 THEN step[m + 1][f[m]] ELSE f[i]]
  <2>3. m \in Nat /\ m \in 0..m /\ m + 1 \in 1..n /\ f[m] \in St
    OBVIOUS
  <2>4. step[m + 1][f[m]] \in St
    BY <2>3
  <2>5. ASSUME NEW i \in 0..(m+1), i # m + 1 PROVE i \in 0..m
    BY <2>3, <2>5
  <2>6. g \in [0..(m+1) -> St]
    BY <2>4, <2>5
  <2>7. 0 \in 0..(m+1) /\ 0 # m + 1 /\ m + 1 \in 0..(m+1)
    BY <2>3
  <2>8. g[0] = base
    BY <2>2, <2>7 DEF Computes
  <2>9. ASSUME NEW i \in 1..(m+1) PROVE g[i] = step[i][g[i-1]]
    <3>1. i - 1 \in 0..(m+1) /\ i - 1 # m + 1 /\ i \in 0..(m+1)
      BY <2>3
    <3>2. CASE i = m + 1
      <4>1. g[i] = step[m + 1][f[m]] /\ i - 1 = m
        BY <2>3, <2>7, <3>2
      <4> QED BY <3>1, <3>2, <4>1
    <3>3. CASE i # m + 1
      <4>1. i \in 1..m
        BY <2>3, <3>3
      <4> QED BY <2>2, <3>1, <3>3, <4>1 DEF Computes
    <3> QED BY <3>2, <3>3
  <2> HIDE DEF g
  <2> QED BY <2>6, <2>8, <2>9 DEF Computes
<1> HIDE DEF S
<1>3. \A m \in 0..n : m \in S
  BY <1>1, <1>2, Induct
<1>4. n \in S
  BY <1>3
<1> QED BY <1>4 DEF S


-----------------------------------------------------------------------------
(* The text of one cookie after another.                                   *)
Segments(Part) == Seq(Part) \ {<<>>}
TextsOf(Part) == Seq(Segments(Part)) \ {<<>>}

LEMMA TextsType ==
  ASSUME NEW Part, NEW cookie \in Segments(Part)
  PROVE  /\ NodeProxy!TextOf(cookie) \in TextsOf(Part)
         /\ \A text \in TextsOf(Part) : NodeProxy!AddCookie(text, cookie) \in TextsOf(Part)
<1>1. NodeProxy!TextOf(cookie) \in TextsOf(Part)
  <2> DEFINE text == [p \in 1..Len(cookie) |-> <<cookie[p]>>]
  <2>1. Len(cookie) \in Nat \ {0} /\ DOMAIN cookie = 1..Len(cookie)
        /\ \A p \in 1..Len(cookie) : cookie[p] \in Part
    BY DEF Segments
  <2>2. \A p \in 1..Len(cookie) : <<cookie[p]>> \in Segments(Part)
    BY <2>1 DEF Segments
  <2>3. text \in [1..Len(cookie) -> Segments(Part)]
    BY <2>2
  <2>4. NodeProxy!TextOf(cookie) = text
    BY <2>1, Zenon DEF NodeProxy!TextOf
  <2> HIDE DEF text
  <2>5. text \in Seq(Segments(Part)) /\ Len(text) = Len(cookie)
    BY <2>1, <2>3
  <2> QED BY <2>1, <2>4, <2>5 DEF TextsOf
<1>2. ASSUME NEW text \in TextsOf(Part) PROVE NodeProxy!AddCookie(text, cookie) \in TextsOf(Part)
  <2> DEFINE n == Len(text) + Len(cookie) - 1
             new == NodeProxy!AddCookie(text, cookie)
  <2>1. Len(text) \in Nat \ {0} /\ Len(cookie) \in Nat \ {0} /\ n \in Nat \ {0}
    BY DEF TextsOf, Segments
  <2>2. ASSUME NEW p \in 1..n
        PROVE  (IF p < Len(text) THEN text[p]
                ELSE IF p = Len(text) THEN Append(text[p], cookie[1])
                ELSE <<cookie[p - Len(text) + 1]>>) \in Segments(Part)
    <3>1. CASE p < Len(text)
      BY <2>1, <3>1 DEF TextsOf
    <3>2. CASE p = Len(text)
      <4>1. text[p] \in Segments(Part) /\ cookie[1] \in Part
        BY <2>1, <3>2 DEF TextsOf, Segments
      <4>2. Append(text[p], cookie[1]) \in Segments(Part)
        BY <4>1 DEF Segments
      <4> QED BY <3>2, <4>2
    <3>3. CASE p > Len(text)
      <4>1. p - Len(text) + 1 \in 1..Len(cookie)
        BY <2>1, <3>3
      <4>2. cookie[p - Len(text) + 1] \in Part
        BY <4>1 DEF Segments
      <4> QED BY <2>1, <3>3, <4>2 DEF Segments
    <3> QED BY <2>1, <3>1, <3>2, <3>3
  <2>3. new = [p \in 1..n |-> IF p < Len(text) THEN text[p]
                              ELSE IF p = Len(text) THEN Append(text[p], cookie[1])
                              ELSE <<cookie[p - Len(text) + 1]>>]
    BY DEF NodeProxy!AddCookie
  <2>4. new \in [1..n -> Segments(Part)]
    BY <2>2, <2>3
  <2> HIDE DEF n, new
  <2>5. new \in Seq(Segments(Part)) /\ Len(new) = n
    BY <2>1, <2>4
  <2>6. new # <<>>
    BY <2>1, <2>5
  <2> QED BY <2>5, <2>6 DEF TextsOf, new
<1> QED BY <1>1, <1>2

LEMMA TextsAre ==
  ASSUME NEW Part, NEW cookies \in TextsOf(Part)
  PROVE  /\ NodeProxy!Texts(cookies)[1] = NodeProxy!TextOf(cookies[1])
         /\ \A k \in 2..Len(cookies) :
              NodeProxy!Texts(cookies)[k] =
                NodeProxy!AddCookie(NodeProxy!Texts(cookies)[k-1], cookies[k])
         /\ \A k \in 1..Len(cookies) : NodeProxy!Texts(cookies)[k] \in TextsOf(Part)
<1> DEFINE n == Len(cookies)
           St == TextsOf(Part)
           base == NodeProxy!TextOf(cookies[1])
           After(k, x) == NodeProxy!AddCookie(x, cookies[k])
           step == [i \in 1..(n-1) |-> [x \in St |-> After(i + 1, x)]]
           T == NodeProxy!Texts(cookies)
<1>1. n \in Nat \ {0} /\ \A k \in 1..n : cookies[k] \in Segments(Part)
  BY DEF TextsOf
<1>2. base \in St /\ \A k \in 1..n, x \in St : After(k, x) \in St
  BY <1>1, TextsType
<1> HIDE DEF St, After, base, n
<1>3. step \in [1..(n-1) -> [St -> St]]
  <2>1. \A i \in 1..(n-1) : i + 1 \in 1..n
    BY <1>1
  <2> QED BY <1>2, <2>1
<1>4. ASSUME NEW i \in 1..(n-1), NEW x \in St PROVE step[i][x] = After(i + 1, x)
  OBVIOUS
<1> HIDE DEF step
<1>5. PICK f \in [0..(n-1) -> St] : Computes(f, base, step, n - 1)
  <2>1. n - 1 \in Nat
    BY <1>1
  <2> QED BY <1>2, <1>3, <2>1, Recursion
<1> DEFINE g == [k \in 1..n |-> f[k-1]]
<1>6. g[1] = base /\ \A k \in 2..n : g[k] = After(k, g[k-1])
  <2>1. 1 \in 1..n /\ g[1] = f[0] /\ f[0] = base
    BY <1>1, <1>5 DEF Computes
  <2>2. ASSUME NEW k \in 2..n PROVE g[k] = After(k, g[k-1])
    <3>1. k - 1 \in 1..(n-1) /\ k \in 1..n /\ k - 1 \in 1..n /\ (k - 1) - 1 \in 0..(n-1)
          /\ (k - 1) + 1 = k
      BY <1>1
    <3>2. f[k-1] = step[k-1][f[(k-1)-1]] /\ f[(k-1)-1] \in St
      BY <1>5, <3>1 DEF Computes
    <3>3. f[k-1] = After(k, f[(k-1)-1])
      BY <1>4, <3>1, <3>2
    <3> QED BY <3>1, <3>3
  <2> QED BY <2>1, <2>2
<1>7. \A k \in 1..n : g[k] \in St
  <2>1. \A k \in 1..n : k - 1 \in 0..(n-1)
    BY <1>1
  <2> QED BY <1>5, <2>1
<1>8. g = [k \in 1..n |-> IF k = 1 THEN base ELSE After(k, g[k-1])]
  <2>1. \A k \in 1..n : g[k] = IF k = 1 THEN base ELSE After(k, g[k-1])
    <3>1. \A k \in 1..n : k = 1 \/ k \in 2..n
      BY <1>1
    <3> HIDE DEF g
    <3> QED BY <1>6, <3>1
  <2>2. DOMAIN g = 1..n /\ g = [k \in 1..n |-> g[k]]
    OBVIOUS
  <2> HIDE DEF g
  <2> QED BY <2>1, <2>2
<1>9. T = [k \in 1..n |-> IF k = 1 THEN base ELSE After(k, T[k-1])]
  <2> HIDE DEF g
  <2> QED BY <1>8, Zenon DEF NodeProxy!Texts, n, base, After
<1>10. T[1] = base /\ \A k \in 2..n : T[k] = After(k, T[k-1])
  <2>1. 1 \in 1..n /\ \A k \in 2..n : k \in 1..n /\ k # 1
    BY <1>1
  <2> HIDE DEF T
  <2> QED BY <1>9, <2>1
<1>11. \A k \in 1..n : T[k] \in St
  <2> DEFINE h == [i \in 0..(n-1) |-> T[i+1]]
  <2>1. n - 1 \in Nat /\ 0 \in 0..(n-1) /\ h[0] = T[1]
    BY <1>1
  <2>2. ASSUME NEW i \in 1..(n-1), h[i-1] \in St PROVE h[i] \in St
    <3>1. i + 1 \in 2..n /\ i + 1 \in 1..n /\ i - 1 \in 0..(n-1) /\ i \in 0..(n-1)
          /\ (i + 1) - 1 = i /\ (i - 1) + 1 = i
      BY <1>1
    <3>2. h[i-1] = T[i] /\ h[i] = T[i+1] /\ T[i+1] = After(i + 1, T[i])
      BY <1>10, <3>1
    <3> QED BY <1>2, <2>2, <3>1, <3>2
  <2>3. h[0] \in St
    BY <1>2, <1>10, <2>1
  <2>4. ASSUME NEW k \in 1..n PROVE k - 1 \in 0..(n-1) /\ h[k-1] = T[k]
    BY <1>1
  <2> HIDE DEF h, T
  <2>5. \A i \in 0..(n-1) : h[i] \in St
    BY <2>1, <2>2, <2>3, Kept
  <2> QED BY <2>4, <2>5
<1> QED BY <1>10, <1>11 DEF n, St, After, base

-----------------------------------------------------------------------------
(* What becomes of one segment of a text.                                  *)
Attribute(segment, attribute, options) ==
    IF options[attribute][1] = "unset" THEN segment
    ELSE NodeProxy!Rewritten(segment, attribute, NodeProxy!RewriteCookieConfig(options[attribute]))
Segment(segment, options) == Attribute(Attribute(segment, "domain", options), "path", options)

LEMMA TextIsRewritten ==
  ASSUME NEW Part, NEW text \in TextsOf(Part), NEW options
  PROVE  NodeProxy!RewroteCookie(text, options) =
           [k \in DOMAIN text |-> IF k = 1 THEN text[k] ELSE Segment(text[k], options)]
<1> DEFINE Once(attribute, s) ==
             IF options[attribute][1] = "unset" THEN s
             ELSE NodeProxy!ParseCookie(attribute, s,
                                        NodeProxy!RewriteCookieConfig(options[attribute]))
           Each(attribute, s) ==
             [k \in DOMAIN s |-> IF k = 1 THEN s[k] ELSE Attribute(s[k], attribute, options)]
<1>1. NodeProxy!RewroteCookie(text, options) = Once("path", Once("domain", text))
  BY Zenon DEF NodeProxy!RewroteCookie
<1>2. ASSUME NEW attribute, NEW s, s = [k \in DOMAIN s |-> s[k]]
      PROVE  Once(attribute, s) = Each(attribute, s)
  <2>1. CASE options[attribute][1] = "unset"
    <3>1. \A k \in DOMAIN s : (IF k = 1 THEN s[k] ELSE Attribute(s[k], attribute, options)) = s[k]
      BY <2>1, Zenon DEF Attribute
    <3> QED BY <1>2, <2>1, <3>1, Zenon
  <2>2. CASE options[attribute][1] # "unset"
    BY <2>2, Zenon DEF NodeProxy!ParseCookie, Attribute
  <2> QED BY <2>1, <2>2
<1>3. text = [k \in DOMAIN text |-> text[k]]
  BY DEF TextsOf
<1> HIDE DEF Once
<1>4. Once("domain", text) = Each("domain", text)
  <2> HIDE DEF Each
  <2> QED BY <1>2, <1>3
<1>5. Once("path", Each("domain", text)) = Each("path", Each("domain", text))
  <2>1. Each("domain", text) = [k \in DOMAIN Each("domain", text) |-> Each("domain", text)[k]]
    OBVIOUS
  <2> HIDE DEF Each
  <2> QED BY <1>2, <2>1, Zenon
<1>6. Each("path", Each("domain", text)) =
        [k \in DOMAIN text |-> IF k = 1 THEN text[k] ELSE Segment(text[k], options)]
  BY DEF Segment
<1> QED BY <1>1, <1>4, <1>5, <1>6

(* What a comma adds to an attribute that is not configured changes nothing. *)
LEMMA OtherIsKept ==
  ASSUME NEW segment, NEW options, ~Configured(Head(segment)[1], options)
  PROVE  Segment(segment, options) = segment
<1>1. ASSUME NEW attribute \in {"domain", "path"}
      PROVE  Attribute(segment, attribute, options) = segment
  <2>1. CASE Head(segment)[1] = attribute
    BY <2>1, Zenon DEF Configured, Attribute
  <2>2. CASE Head(segment)[1] # attribute
    BY <2>2, Zenon DEF Attribute, NodeProxy!Rewritten
  <2> QED BY <2>1, <2>2
<1> QED BY <1>1 DEF Segment

LEMMA PartIsReplaced ==
  ASSUME NEW part, part = <<part[1], part[2]>>, NEW options
  PROVE  Segment(<<part>>, options) = <<Replaced(part, options)>>
<1>1. CASE ~Configured(part[1], options)
  <2>1. Head(<<part>>) = part
    OBVIOUS
  <2> QED BY <1>1, <2>1, OtherIsKept DEF Replaced
<1>2. CASE Configured(part[1], options)
  <2> DEFINE attribute == part[1]
             table == NodeProxy!RewriteCookieConfig(options[attribute])
  <2>1. attribute \in {"domain", "path"} /\ options[attribute][1] # "unset"
    BY <1>2, Zenon DEF Configured
  <2>2. Attribute(<<part>>, attribute, options) = <<Replaced(part, options)>>
    <3>1. Head(<<part>>) = part /\ Len(<<part>>) = 1
      OBVIOUS
    <3>2. CASE part[2] \in DOMAIN table
      BY <1>2, <2>1, <3>1, <3>2, Zenon DEF Attribute, NodeProxy!Rewritten, Replaced
    <3>3. CASE part[2] \notin DOMAIN table /\ "*" \in DOMAIN table
      BY <1>2, <2>1, <3>1, <3>3, Zenon DEF Attribute, NodeProxy!Rewritten, Replaced
    <3>4. CASE part[2] \notin DOMAIN table /\ "*" \notin DOMAIN table
      BY <1>2, <2>1, <3>1, <3>4, Zenon DEF Attribute, NodeProxy!Rewritten, Replaced
    <3> QED BY <3>2, <3>3, <3>4
  <2>3. ASSUME NEW other, other # attribute, NEW p, p[1] = attribute
        PROVE  Attribute(<<p>>, other, options) = <<p>>
    <3>1. Head(<<p>>) = p
      OBVIOUS
    <3> QED BY <2>3, <3>1, Zenon DEF Attribute, NodeProxy!Rewritten
  <2>4. Replaced(part, options)[1] = attribute
    <3>1. \A v : <<part[1], v>>[1] = part[1]
      OBVIOUS
    <3> QED BY <3>1, Zenon DEF Replaced
  <2>5. CASE attribute = "domain"
    BY <2>2, <2>3, <2>4, <2>5 DEF Segment
  <2>6. CASE attribute = "path"
    BY <2>2, <2>3, <2>4, <2>6 DEF Segment
  <2> QED BY <2>1, <2>5, <2>6
<1> QED BY <1>1, <1>2

-----------------------------------------------------------------------------
(* Rewriting a text is writing the rewritten cookies, cookie by cookie.    *)
Image(text, options) ==
    [k \in DOMAIN text |-> IF k = 1 THEN text[k] ELSE Segment(text[k], options)]
New(cookie, options) == [p \in DOMAIN cookie |-> Replaced(cookie[p], options)]
IsPart(part) == part = <<part[1], part[2]>>

LEMMA FirstIsRewritten ==
  ASSUME NEW Part, NEW cookie \in Segments(Part), NEW options,
         \A part \in Part : IsPart(part), ~Configured(cookie[1][1], options)
  PROVE  /\ NodeProxy!TextOf(New(cookie, options)) = Image(NodeProxy!TextOf(cookie), options)
         /\ Head(Last(NodeProxy!TextOf(cookie))) = Last(cookie)
<1> DEFINE n == Len(cookie)
           text == NodeProxy!TextOf(cookie)
           new == New(cookie, options)
<1>1. n \in Nat \ {0} /\ DOMAIN cookie = 1..n /\ \A p \in 1..n : cookie[p] \in Part
  BY DEF Segments
<1>2. text = [p \in 1..n |-> <<cookie[p]>>]
  BY <1>1, Zenon DEF NodeProxy!TextOf
<1>3. new = [p \in 1..n |-> Replaced(cookie[p], options)]
  BY <1>1, Zenon DEF New
<1>4. NodeProxy!TextOf(new) = [p \in 1..n |-> <<Replaced(cookie[p], options)>>]
  BY <1>3, Zenon DEF NodeProxy!TextOf
<1>5. Image(text, options) =
        [p \in 1..n |-> IF p = 1 THEN <<cookie[p]>> ELSE Segment(<<cookie[p]>>, options)]
  BY <1>2, Zenon DEF Image
<1>6. ASSUME NEW p \in 1..n
      PROVE  (IF p = 1 THEN <<cookie[p]>> ELSE Segment(<<cookie[p]>>, options))
               = <<Replaced(cookie[p], options)>>
  <2>1. CASE p = 1
    BY <2>1, Zenon DEF Replaced
  <2>2. CASE p # 1
    <3>1. Segment(<<cookie[p]>>, options) = <<Replaced(cookie[p], options)>>
      BY <1>1, PartIsReplaced, Zenon DEF IsPart
    <3> QED BY <2>2, <3>1
  <2> QED BY <2>1, <2>2
<1>7. Head(Last(text)) = Last(cookie)
  <2>1. Len(text) = n
    BY <1>1, <1>2
  <2>2. Last(text) = <<cookie[n]>> /\ Last(cookie) = cookie[n]
    BY <1>1, <1>2, <2>1 DEF Last
  <2> QED BY <2>2
<1> QED BY <1>4, <1>5, <1>6, <1>7, Zenon

LEMMA NextIsRewritten ==
  ASSUME NEW Part, NEW text \in TextsOf(Part), NEW cookie \in Segments(Part), NEW options,
         \A part \in Part : IsPart(part), ~Configured(cookie[1][1], options),
         ~Configured(Head(Last(text))[1], options)
  PROVE  NodeProxy!AddCookie(Image(text, options), New(cookie, options))
           = Image(NodeProxy!AddCookie(text, cookie), options)
<1> DEFINE l == Len(text)
           n == l + Len(cookie) - 1
           old == Image(text, options)
           new == New(cookie, options)
           From(p) == IF p < l THEN text[p]
                      ELSE IF p = l THEN Append(text[p], cookie[1])
                      ELSE <<cookie[p - l + 1]>>
           To(p) == IF p < l THEN old[p]
                    ELSE IF p = l THEN Append(old[p], new[1])
                    ELSE <<new[p - l + 1]>>
<1>1. /\ l \in Nat \ {0} /\ DOMAIN text = 1..l /\ \A p \in 1..l : text[p] \in Segments(Part)
      /\ Len(cookie) \in Nat \ {0} /\ DOMAIN cookie = 1..Len(cookie)
      /\ \A p \in 1..Len(cookie) : cookie[p] \in Part
  BY DEF TextsOf, Segments
<1>2. /\ old = [p \in 1..l |-> IF p = 1 THEN text[p] ELSE Segment(text[p], options)]
      /\ Len(old) = l
  <2>1. old = [p \in 1..l |-> IF p = 1 THEN text[p] ELSE Segment(text[p], options)]
    BY <1>1, Zenon DEF Image
  <2> QED BY <1>1, <2>1
<1>3. /\ new = [p \in 1..Len(cookie) |-> Replaced(cookie[p], options)]
      /\ Len(new) = Len(cookie)
  <2>1. new = [p \in 1..Len(cookie) |-> Replaced(cookie[p], options)]
    BY <1>1, Zenon DEF New
  <2> QED BY <1>1, <2>1
<1>4. NodeProxy!AddCookie(text, cookie) = [p \in 1..n |-> From(p)]
  BY DEF NodeProxy!AddCookie
<1>5. NodeProxy!AddCookie(old, new) = [p \in 1..n |-> To(p)]
  <2>1. Len(old) = l /\ Len(new) = Len(cookie)
    BY <1>2, <1>3
  <2> HIDE DEF old, new
  <2> QED BY <2>1 DEF NodeProxy!AddCookie
<1>6. ASSUME NEW p \in 1..n
      PROVE  To(p) = IF p = 1 THEN From(p) ELSE Segment(From(p), options)
  <2> HIDE DEF old, new
  <2>1. CASE p < l
    <3>1. p \in 1..l
      BY <1>1, <2>1
    <3> QED BY <1>2, <2>1, <3>1
  <2>2. CASE p = l
    <3>1. new[1] = cookie[1]
      BY <1>1, <1>3 DEF Replaced
    <3>2. Last(text) = text[l]
      BY <1>1 DEF Last
    <3>3. Segment(text[l], options) = text[l]
      BY <3>2, OtherIsKept
    <3>4. old[l] = text[l]
      BY <1>1, <1>2, <3>3
    <3>5. To(p) = Append(text[l], cookie[1]) /\ From(p) = Append(text[l], cookie[1])
      BY <1>1, <2>2, <3>1, <3>4
    <3>6. Head(Append(text[l], cookie[1])) = Head(text[l])
      <4>1. text[l] \in Seq(Part) /\ text[l] # <<>> /\ cookie[1] \in Part
        BY <1>1 DEF Segments
      <4> QED BY <4>1
    <3>7. Segment(From(p), options) = From(p)
      BY <3>2, <3>5, <3>6, OtherIsKept
    <3> QED BY <3>5, <3>7
  <2>3. CASE p > l
    <3>1. p - l + 1 \in 1..Len(cookie) /\ p # 1 /\ ~(p < l) /\ p # l
      BY <1>1, <2>3
    <3>2. Segment(<<cookie[p - l + 1]>>, options) = <<Replaced(cookie[p - l + 1], options)>>
      BY <1>1, <3>1, PartIsReplaced DEF IsPart
    <3>3. new[p - l + 1] = Replaced(cookie[p - l + 1], options)
      BY <1>3, <3>1
    <3> QED BY <3>1, <3>2, <3>3
  <2>4. p < l \/ p = l \/ p > l
    <3>1. l \in Int /\ p \in Int
      BY <1>1
    <3> HIDE DEF l, n
    <3> QED BY <3>1
  <2> HIDE DEF From, To
  <2> QED BY <2>1, <2>2, <2>3, <2>4
<1>7. Image([p \in 1..n |-> From(p)], options)
        = [p \in 1..n |-> IF p = 1 THEN From(p) ELSE Segment(From(p), options)]
  <2> HIDE DEF From
  <2> QED BY Zenon DEF Image
<1> HIDE DEF From, To, old, new
<1>8. NodeProxy!AddCookie(old, new) = Image(NodeProxy!AddCookie(text, cookie), options)
  BY <1>4, <1>5, <1>6, <1>7, Zenon
<1> QED BY <1>8 DEF old, new

LEMMA LastPart ==
  ASSUME NEW Part, NEW text \in TextsOf(Part), NEW cookie \in Segments(Part)
  PROVE  Head(Last(NodeProxy!AddCookie(text, cookie)))
           = IF Len(cookie) = 1 THEN Head(Last(text)) ELSE Last(cookie)
<1> DEFINE l == Len(text)
           n == l + Len(cookie) - 1
           From(p) == IF p < l THEN text[p]
                      ELSE IF p = l THEN Append(text[p], cookie[1])
                      ELSE <<cookie[p - l + 1]>>
           sum == NodeProxy!AddCookie(text, cookie)
<1>1. /\ l \in Nat \ {0} /\ text[l] \in Seq(Part) /\ text[l] # <<>>
      /\ Len(cookie) \in Nat \ {0} /\ cookie[1] \in Part /\ n \in 1..n /\ n \in Nat
  BY DEF TextsOf, Segments
<1>2. sum = [p \in 1..n |-> From(p)]
  BY DEF NodeProxy!AddCookie
<1>3. Last(sum) = From(n)
  <2> HIDE DEF sum, From, n
  <2>1. Len(sum) = n
    BY <1>1, <1>2
  <2> QED BY <1>1, <1>2, <2>1 DEF Last
<1>4. CASE Len(cookie) = 1
  <2>1. n = l /\ From(n) = Append(text[l], cookie[1])
    BY <1>1, <1>4
  <2>2. Head(Append(text[l], cookie[1])) = Head(text[l])
    BY <1>1
  <2> QED BY <1>3, <1>4, <2>1, <2>2 DEF Last
<1>5. CASE Len(cookie) # 1
  <2>1. n > l /\ n - l + 1 = Len(cookie)
    <3> DEFINE c == Len(cookie)
    <3>1. l \in Int /\ c \in Nat \ {0} /\ c # 1
      BY <1>1, <1>5
    <3> HIDE DEF l, c
    <3>2. l + c - 1 > l /\ (l + c - 1) - l + 1 = c
      BY <3>1
    <3> QED BY <3>2 DEF c
  <2>2. From(n) = <<cookie[Len(cookie)]>>
    BY <1>1, <2>1
  <2> QED BY <1>3, <1>5, <2>2 DEF Last
<1> QED BY <1>4, <1>5

LEMMA NewType ==
  ASSUME NEW Part, NEW cookies \in TextsOf(Part), NEW options
  PROVE  /\ AllReplaced(cookies, options) = [k \in 1..Len(cookies) |-> New(cookies[k], options)]
         /\ Len(AllReplaced(cookies, options)) = Len(cookies)
         /\ AllReplaced(cookies, options) \in TextsOf({Replaced(part, options) : part \in Part})
<1> DEFINE Result == {Replaced(part, options) : part \in Part}
           n == Len(cookies)
           all == AllReplaced(cookies, options)
<1>1. n \in Nat \ {0} /\ DOMAIN cookies = 1..n /\ \A k \in 1..n : cookies[k] \in Segments(Part)
  BY DEF TextsOf
<1>2. all = [k \in 1..n |-> New(cookies[k], options)]
  BY <1>1, Zenon DEF AllReplaced, New
<1>3. ASSUME NEW cookie \in Segments(Part) PROVE New(cookie, options) \in Segments(Result)
  <2> DEFINE new == New(cookie, options)
  <2>1. /\ Len(cookie) \in Nat \ {0} /\ DOMAIN cookie = 1..Len(cookie)
        /\ \A p \in 1..Len(cookie) : cookie[p] \in Part
    BY DEF Segments
  <2>2. new \in [1..Len(cookie) -> Result]
    BY <2>1 DEF New
  <2> HIDE DEF new, Result
  <2>3. new \in Seq(Result) /\ Len(new) = Len(cookie)
    BY <2>1, <2>2
  <2> QED BY <2>1, <2>3 DEF Segments, new
<1>4. all \in [1..n -> Segments(Result)]
  <2> HIDE DEF Result
  <2> QED BY <1>1, <1>2, <1>3
<1> HIDE DEF all, Result
<1>5. all \in Seq(Segments(Result)) /\ Len(all) = n
  BY <1>1, <1>4
<1> QED BY <1>1, <1>2, <1>5 DEF TextsOf, all, Result

(***************************************************************************)
(* Rewriting the text of cookies gives the text of the rewritten cookies,  *)
(* unless a comma is added to an attribute that is rewritten.              *)
(***************************************************************************)
LEMMA TextsAreRewritten ==
  ASSUME NEW Part, NEW cookies \in TextsOf(Part), NEW options,
         \A part \in Part : IsPart(part),
         \A k \in 1..Len(cookies) : ~Configured(cookies[k][1][1], options),
         Apart(cookies, options)
  PROVE  NodeProxy!RewroteCookie(NodeProxy!CookieText(cookies), options)
           = NodeProxy!CookieText(AllReplaced(cookies, options))
<1> DEFINE n == Len(cookies)
           new == AllReplaced(cookies, options)
           X == NodeProxy!Texts(cookies)
           E == NodeProxy!Texts(new)
           Ends(k) == k < n => ~Configured(Head(Last(X[k]))[1], options)
           S == {i \in 0..(n-1) : E[i+1] = Image(X[i+1], options) /\ Ends(i+1)}
<1>1. n \in Nat \ {0} /\ \A k \in 1..n : cookies[k] \in Segments(Part)
  BY DEF TextsOf
<1>2. /\ Len(new) = n /\ \A k \in 1..n : new[k] = New(cookies[k], options)
      /\ new \in TextsOf({Replaced(part, options) : part \in Part})
  BY NewType
<1>3. /\ X[1] = NodeProxy!TextOf(cookies[1])
      /\ \A k \in 2..n : X[k] = NodeProxy!AddCookie(X[k-1], cookies[k])
      /\ \A k \in 1..n : X[k] \in TextsOf(Part)
  BY TextsAre
<1>4. /\ E[1] = NodeProxy!TextOf(new[1])
      /\ \A k \in 2..n : E[k] = NodeProxy!AddCookie(E[k-1], new[k])
  <2> HIDE DEF n, new
  <2>1. /\ NodeProxy!Texts(new)[1] = NodeProxy!TextOf(new[1])
        /\ \A k \in 2..Len(new) :
             NodeProxy!Texts(new)[k] = NodeProxy!AddCookie(NodeProxy!Texts(new)[k-1], new[k])
    BY <1>2, TextsAre
  <2> QED BY <1>2, <2>1
<1>5. \A k \in 1..(n-1) : ~Configured(Last(cookies[k])[1], options)
  BY DEF Apart
<1>6. \A k \in 1..n : ~Configured(cookies[k][1][1], options)
  OBVIOUS
<1> HIDE DEF n, new, X, E
<1>7. 0 \in S
  <2>1. 1 \in 1..n /\ 0 \in 0..(n-1) /\ 0 + 1 = 1 /\ (1 < n => 1 \in 1..(n-1))
    BY <1>1
  <2>2. /\ NodeProxy!TextOf(New(cookies[1], options))
             = Image(NodeProxy!TextOf(cookies[1]), options)
        /\ Head(Last(NodeProxy!TextOf(cookies[1]))) = Last(cookies[1])
    BY <1>1, <1>6, <2>1, FirstIsRewritten
  <2>3. E[1] = Image(X[1], options)
    BY <1>2, <1>3, <1>4, <2>1, <2>2
  <2>4. Ends(1)
    BY <1>3, <1>5, <2>1, <2>2
  <2> QED BY <2>1, <2>3, <2>4
<1>8. ASSUME NEW i \in 0..((n-1)-1), i \in S PROVE i + 1 \in S
  <2> DEFINE k == i + 1
  <2>1. /\ k \in 1..n /\ k < n /\ k + 1 \in 2..n /\ k + 1 \in 1..n /\ (k + 1) - 1 = k
        /\ k \in 0..(n-1) /\ (k + 1 < n => k + 1 \in 1..(n-1) /\ k < n)
    BY <1>1
  <2>2. E[k] = Image(X[k], options) /\ ~Configured(Head(Last(X[k]))[1], options)
    BY <1>8, <2>1
  <2> HIDE DEF k
  <2>3. /\ X[k] \in TextsOf(Part) /\ cookies[k+1] \in Segments(Part)
        /\ ~Configured(cookies[k+1][1][1], options)
        /\ X[k+1] = NodeProxy!AddCookie(X[k], cookies[k+1])
        /\ E[k+1] = NodeProxy!AddCookie(E[k], New(cookies[k+1], options))
    BY <1>1, <1>2, <1>3, <1>4, <1>6, <2>1
  <2>4. NodeProxy!AddCookie(Image(X[k], options), New(cookies[k+1], options))
          = Image(NodeProxy!AddCookie(X[k], cookies[k+1]), options)
    BY <2>2, <2>3, NextIsRewritten
  <2>5. E[k+1] = Image(X[k+1], options)
    BY <2>2, <2>3, <2>4
  <2>6. Ends(k+1)
    <3>1. Head(Last(X[k+1]))
            = IF Len(cookies[k+1]) = 1 THEN Head(Last(X[k])) ELSE Last(cookies[k+1])
      BY <2>3, LastPart
    <3> QED BY <1>5, <2>1, <2>2, <3>1
  <2>7. k \in S
    BY <2>1, <2>5, <2>6
  <2> QED BY <2>7 DEF k
<1>9. E[n] = Image(X[n], options)
  <2> HIDE DEF S
  <2>1. n - 1 \in Nat /\ n - 1 \in 0..(n-1) /\ (n - 1) + 1 = n
    BY <1>1
  <2>2. \A i \in 0..(n-1) : i \in S
    BY <1>7, <1>8, <2>1, Induct
  <2>3. n - 1 \in S
    BY <2>1, <2>2
  <2> QED BY <2>1, <2>3 DEF S
<1>10. NodeProxy!RewroteCookie(X[n], options) = Image(X[n], options)
  <2>1. X[n] \in TextsOf(Part)
    BY <1>1, <1>3
  <2> QED BY <2>1, TextIsRewritten DEF Image
<1> QED BY <1>2, <1>9, <1>10 DEF NodeProxy!CookieText, X, E, n, new

LEMMA CookiesAreRewritten ==
  ASSUME NEW cookies \in Seq(CookieValues) \ {<<>>}, NEW options, Apart(cookies, options)
  PROVE  NodeProxy!RewroteCookie(NodeProxy!CookieText(cookies), options)
           = NodeProxy!CookieText(AllReplaced(cookies, options))
<1>1. \A part \in Parts : IsPart(part)
  BY DEF Parts, IsPart
<1>2. CookieValues \in SUBSET Segments(Parts)
  BY DEF CookieValues, Segments
<1>3. cookies \in TextsOf(Parts)
  BY <1>2 DEF TextsOf
<1>4. \A k \in 1..Len(cookies) : ~Configured(cookies[k][1][1], options)
  <2>1. \A k \in 1..Len(cookies) : cookies[k] \in CookieValues
    OBVIOUS
  <2> QED BY <2>1 DEF CookieValues, Configured
<1> QED BY <1>1, <1>3, <1>4, TextsAreRewritten

-----------------------------------------------------------------------------
(* Which headers a reply has.                                              *)
NoProtocol == ""

LEMMA Greatest ==
  ASSUME NEW n \in Nat, NEW S \in SUBSET (1..n), S # {}
  PROVE  NodeProxy!Max(S) \in S /\ \A j \in S : j <= NodeProxy!Max(S)
<1> DEFINE T == {n - k : k \in S}
<1>1. T \in SUBSET Nat /\ T # {}
  <2>1. \A k \in S : n - k \in Nat
    OBVIOUS
  <2>2. PICK k \in S : TRUE
    OBVIOUS
  <2>3. n - k \in T
    BY <2>2
  <2> QED BY <2>1, <2>3
<1>2. PICK x \in T : \A y \in T : x <= y
  <2> HIDE DEF T
  <2> QED BY <1>1, Least
<1>3. PICK k \in S : x = n - k
  BY <1>2
<1>4. \A j \in S : k >= j
  <2>1. ASSUME NEW j \in S PROVE k >= j
    <3>1. n - k <= n - j
      BY <1>2, <1>3
    <3> QED BY <3>1
  <2> QED BY <2>1
<1>5. NodeProxy!Max(S) \in S /\ \A j \in S : NodeProxy!Max(S) >= j
  BY <1>4 DEF NodeProxy!Max
<1> QED BY <1>5

(* Under a cookie's name there are cookies, one at least.                  *)
LEMMA SentAreCookies ==
  ASSUME NEW response, IsResponse(response), NEW raw,
         NEW name \in NodeProxy!CookieNames(response, raw)
  PROVE  Sent(response, name, raw) \in Seq(CookieValues) \ {<<>>}
<1>1. CASE raw
  <2> DEFINE sent == response.rawHeaders
             At == {k \in DOMAIN sent : sent[k][2] = name}
             Set == {sent[k] : k \in DOMAIN sent}
  <2>1. /\ sent \in Seq(Set)
        /\ \A h, g \in Set : h[2] = g[2] => h[1] = g[1]
        /\ \A h \in Set : h[1] = "set-cookie" => h[3] \in CookieValues
    BY DEF IsResponse, ToSet
  <2>2. PICK h \in Set : h[1] = "set-cookie" /\ h[2] = name
    BY <1>1 DEF NodeProxy!CookieNames, NodeProxy!ToSet
  <2>3. NodeProxy!Max(At) \in At
    <3>1. DOMAIN sent = 1..Len(sent) /\ Len(sent) \in Nat
      BY <2>1
    <3>2. At \in SUBSET (1..Len(sent)) /\ At # {}
      BY <2>2, <3>1
    <3> HIDE DEF sent, At
    <3> QED BY <3>1, <3>2, Greatest
  <2>4. NodeProxy!RawHeaders(response)[name] = sent[NodeProxy!Max(At)][3]
    <3>1. name \in {g[2] : g \in Set}
      BY <2>2
    <3> QED BY <3>1, Zenon DEF NodeProxy!RawHeaders, NodeProxy!ToSet
  <2> DEFINE last == sent[NodeProxy!Max(At)]
  <2>5. last \in Set /\ last[2] = name
    BY <2>3
  <2> HIDE DEF Set, At, sent, last
  <2>6. last[3] \in CookieValues
    BY <2>1, <2>2, <2>5
  <2>7. Sent(response, name, raw) = <<last[3]>>
    BY <1>1, <2>4 DEF Sent, last
  <2> QED BY <2>6, <2>7
<1>2. CASE ~raw
  <2>1. name = "set-cookie" /\ "set-cookie" \in DOMAIN response.headers
    BY <1>2 DEF NodeProxy!CookieNames
  <2> QED BY <1>2, <2>1 DEF IsResponse, Sent
<1> QED BY <1>1, <1>2

(* Where a name that was sent came first, and in which small letters.      *)
SentNames(response) == {h[2] : h \in NodeProxy!ToSet(response.rawHeaders)}

LEMMA CameFirst ==
  ASSUME NEW response, IsResponse(response), NEW name \in SentNames(response)
  PROVE  /\ NodeProxy!FirstAt(response, name) \in 1..Len(response.rawHeaders)
         /\ response.rawHeaders[NodeProxy!FirstAt(response, name)][2] = name
         /\ NodeProxy!SmallLetters(response, name) = "set-cookie"
              <=> name \in NodeProxy!CookieNames(response, TRUE)
<1> DEFINE sent == response.rawHeaders
           At == {k \in DOMAIN sent : sent[k][2] = name}
           Set == {sent[k] : k \in DOMAIN sent}
           first == NodeProxy!FirstAt(response, name)
<1>1. /\ sent \in Seq(Set)
      /\ \A h, g \in Set : h[2] = g[2] => h[1] = g[1]
  BY DEF IsResponse, ToSet
<1>2. \E h \in Set : h[2] = name
  BY DEF SentNames, NodeProxy!ToSet
<1>3. DOMAIN sent = 1..Len(sent) /\ Len(sent) \in Nat
  BY <1>1
<1>4. At \in SUBSET Nat /\ At # {}
  BY <1>2, <1>3
<1>5. NodeProxy!Min(At) \in At
  <2>1. \E x \in At : \A y \in At : x <= y
    <3> HIDE DEF At
    <3> QED BY <1>4, Least
  <2> HIDE DEF At
  <2> QED BY <2>1 DEF NodeProxy!Min
<1>6. first = NodeProxy!Min(At)
  BY Zenon DEF NodeProxy!FirstAt
<1>7. first \in DOMAIN sent /\ sent[first][2] = name
  <2> HIDE DEF sent, first
  <2> QED BY <1>5, <1>6
<1>8. NodeProxy!SmallLetters(response, name) = sent[first][1]
  BY Zenon DEF NodeProxy!SmallLetters
<1>9. name \in NodeProxy!CookieNames(response, TRUE)
        <=> \E h \in Set : h[1] = "set-cookie" /\ h[2] = name
  BY DEF NodeProxy!CookieNames, NodeProxy!ToSet
<1>10. sent[first] \in Set
  <2> HIDE DEF sent, first
  <2> QED BY <1>7
<1> HIDE DEF sent, first, Set
<1>11. sent[first][1] = "set-cookie" <=> \E h \in Set : h[1] = "set-cookie" /\ h[2] = name
  BY <1>1, <1>7, <1>10
<1> QED BY <1>3, <1>7, <1>8, <1>9, <1>11 DEF sent, first

(* Of the names for cookies, one came after the others.                    *)
LEMMA OneCameLast ==
  ASSUME NEW response, IsResponse(response), NodeProxy!CookieNames(response, TRUE) # {}
  PROVE  \E name \in NodeProxy!CookieNames(response, TRUE) :
           \A other \in NodeProxy!CookieNames(response, TRUE) :
             /\ NodeProxy!FirstAt(response, other) <= NodeProxy!FirstAt(response, name)
             /\ other # name =>
                  NodeProxy!FirstAt(response, name) > NodeProxy!FirstAt(response, other)
<1> DEFINE names == NodeProxy!CookieNames(response, TRUE)
           First(name) == NodeProxy!FirstAt(response, name)
           n == Len(response.rawHeaders)
           Firsts == {First(name) : name \in names}
<1>0. names \subseteq SentNames(response)
  BY DEF NodeProxy!CookieNames, SentNames
<1>1. \A name \in names : First(name) \in 1..n /\ response.rawHeaders[First(name)][2] = name
  BY <1>0, CameFirst
<1>2. n \in Nat
  BY DEF IsResponse
<1> HIDE DEF names, First, n
<1>3. Firsts \in SUBSET (1..n) /\ Firsts # {}
  BY <1>1 DEF names
<1>4. NodeProxy!Max(Firsts) \in Firsts /\ \A j \in Firsts : j <= NodeProxy!Max(Firsts)
  <2> HIDE DEF Firsts
  <2> QED BY <1>2, <1>3, Greatest
<1>5. PICK name \in names : First(name) = NodeProxy!Max(Firsts)
  BY <1>4
<1>6. \A other \in names : /\ First(other) <= First(name)
                           /\ other # name => First(name) > First(other)
  <2> TAKE other \in names
  <2>1. First(other) <= First(name)
    BY <1>4, <1>5
  <2>2. other # name => First(other) # First(name)
    BY <1>1
  <2> QED BY <1>1, <1>2, <2>1, <2>2
<1> QED BY <1>6 DEF names, First

(* All headers to be set, and the reply made of them.                      *)
HeadersOf(response, connection, raw) ==
  IF raw THEN NodeProxy!RawHeaders(response)
  ELSE [n \in DOMAIN response.headers \cup {"connection"} |->
          IF n = "connection" THEN connection ELSE response.headers[n]]

Nothing == ""
SetNames(response, connection, raw) ==
  {m \in DOMAIN HeadersOf(response, connection, raw) :
     \/ m \in NodeProxy!CookieNames(response, raw)
     \/ HeadersOf(response, connection, raw)[m] # Nothing}

LEMMA CookiesAreSet ==
  ASSUME NEW response, NEW connection, NEW raw \in BOOLEAN,
         NEW name \in NodeProxy!CookieNames(response, raw)
  PROVE  /\ name \in SetNames(response, connection, raw)
         /\ Sent(response, name, raw)
              = IF raw THEN <<HeadersOf(response, connection, raw)[name]>>
                ELSE HeadersOf(response, connection, raw)[name]
<1> DEFINE headers == HeadersOf(response, connection, raw)
<1>1. CASE raw
  <2>1. name \in {h[2] : h \in NodeProxy!ToSet(response.rawHeaders)}
    BY <1>1 DEF NodeProxy!CookieNames
  <2>2. name \in DOMAIN NodeProxy!RawHeaders(response)
    BY <2>1, Zenon DEF NodeProxy!RawHeaders
  <2>3. headers = NodeProxy!RawHeaders(response)
    BY <1>1 DEF HeadersOf
  <2> QED BY <1>1, <2>2, <2>3, Zenon DEF Sent, SetNames
<1>2. CASE ~raw
  <2>1. name = "set-cookie" /\ name \in DOMAIN response.headers /\ name # "connection"
    BY <1>2 DEF NodeProxy!CookieNames
  <2>2. name \in DOMAIN headers /\ headers[name] = response.headers[name]
    BY <1>2, <2>1 DEF HeadersOf
  <2> HIDE DEF headers
  <2> QED BY <1>2, <2>2, Zenon DEF Sent, SetNames, headers
<1> QED BY <1>1, <1>2

(* A cookie that is not replaced is written, and no other header is.       *)
LEMMA CookieIsWritten ==
  ASSUME NEW response, NEW connection, NEW options, NEW raw \in BOOLEAN,
         raw = options.preserveHeaderKeyCase
  PROVE  /\ \A m : m \in DOMAIN NodeProxy!WriteHeaders(response, connection, options) <=>
                   /\ m \in SetNames(response, connection, raw)
                   /\ raw => ~NodeProxy!IsReplaced(response, m,
                                                 SetNames(response, connection, raw))
         /\ \A name \in NodeProxy!CookieNames(response, raw) :
              name \in DOMAIN NodeProxy!WriteHeaders(response, connection, options) =>
                NodeProxy!WriteHeaders(response, connection, options)[name]
                  = NodeProxy!RewroteCookie(
                      NodeProxy!CookieText(Sent(response, name, raw)), options)
<1> DEFINE headers == HeadersOf(response, connection, raw)
           Cookies(value) == IF raw THEN <<value>> ELSE value
           ofCookie == NodeProxy!CookieNames(response, raw)
           names == SetNames(response, connection, raw)
           kept == {m \in names : ~(raw /\ NodeProxy!IsReplaced(response, m, names))}
<1>1. NodeProxy!WriteHeaders(response, connection, options) =
        [n \in kept |->
           IF n \in ofCookie
           THEN NodeProxy!RewroteCookie(NodeProxy!CookieText(Cookies(headers[n])), options)
           ELSE headers[n]]
  BY Zenon DEF NodeProxy!WriteHeaders, HeadersOf, SetNames, Nothing
<1>2. \A name \in ofCookie : Cookies(headers[name]) = Sent(response, name, raw)
  BY CookiesAreSet
<1> HIDE DEF kept, ofCookie, headers, Cookies
<1>3. /\ DOMAIN NodeProxy!WriteHeaders(response, connection, options) = kept
      /\ \A name \in ofCookie : name \in kept =>
           NodeProxy!WriteHeaders(response, connection, options)[name]
             = NodeProxy!RewroteCookie(NodeProxy!CookieText(Sent(response, name, raw)), options)
  BY <1>1, <1>2, Zenon
<1> QED BY <1>3, Zenon DEF kept, ofCookie

(* One name for cookies is left in the reply.                              *)
LEMMA OneNameIsLeft ==
  ASSUME NEW response, IsResponse(response), NEW connection, NEW options,
         NEW raw \in BOOLEAN, raw = options.preserveHeaderKeyCase,
         NodeProxy!CookieNames(response, raw) # {}
  PROVE  \E name \in NodeProxy!CookieNames(response, raw) :
           /\ DOMAIN NodeProxy!WriteHeaders(response, connection, options)
                \cap NodeProxy!CookieNames(response, raw) = {name}
           /\ raw => \A other \in NodeProxy!CookieNames(response, raw) :
                NodeProxy!FirstAt(response, other) <= NodeProxy!FirstAt(response, name)
<1> DEFINE names == NodeProxy!CookieNames(response, raw)
           set == SetNames(response, connection, raw)
           written == NodeProxy!WriteHeaders(response, connection, options)
<1>1. \A m : m \in DOMAIN written <=>
              m \in set /\ (raw => ~NodeProxy!IsReplaced(response, m, set))
  BY CookieIsWritten, Zenon
<1>2. names \subseteq set
  BY CookiesAreSet
<1>3. CASE ~raw
  <2>1. PICK name \in names : names = {name}
    BY <1>3 DEF NodeProxy!CookieNames
  <2> HIDE DEF names, set, written
  <2>2. DOMAIN written \cap names = {name}
    BY <1>1, <1>2, <1>3, <2>1
  <2> QED BY <1>3, <2>2 DEF names, written
<1>4. CASE raw
  <2>1. PICK name \in names : \A other \in names :
          /\ NodeProxy!FirstAt(response, other) <= NodeProxy!FirstAt(response, name)
          /\ other # name =>
               NodeProxy!FirstAt(response, name) > NodeProxy!FirstAt(response, other)
    BY <1>4, OneCameLast
  <2>2. \A other \in set : /\ other \in names <=>
                                NodeProxy!SmallLetters(response, other) = "set-cookie"
                           /\ NodeProxy!FirstAt(response, other) \in Int
    <3>1. set \subseteq SentNames(response)
      <4>1. HeadersOf(response, connection, raw) = NodeProxy!RawHeaders(response)
        BY <1>4 DEF HeadersOf
      <4>2. DOMAIN NodeProxy!RawHeaders(response) = SentNames(response)
        BY Zenon DEF NodeProxy!RawHeaders, SentNames
      <4> QED BY <4>1, <4>2, Zenon DEF SetNames
    <3>2. names = NodeProxy!CookieNames(response, TRUE)
      BY <1>4 DEF NodeProxy!CookieNames
    <3>3. \A other \in SentNames(response) :
             /\ NodeProxy!SmallLetters(response, other) = "set-cookie"
                  <=> other \in NodeProxy!CookieNames(response, TRUE)
             /\ NodeProxy!FirstAt(response, other) \in 1..Len(response.rawHeaders)
      BY CameFirst
    <3>4. \A k \in 1..Len(response.rawHeaders) : k \in Int
      BY DEF IsResponse
    <3> HIDE DEF set, names
    <3> QED BY <3>1, <3>2, <3>3, <3>4, Zenon
  <2>3. ASSUME NEW other \in names, other # name
        PROVE  NodeProxy!IsReplaced(response, other, set)
    <3> HIDE DEF names, set, written
    <3>1. name \in set /\ other \in set
      BY <1>2, <2>1
    <3> QED BY <2>1, <2>2, <2>3, <3>1 DEF NodeProxy!IsReplaced
  <2>4. ~NodeProxy!IsReplaced(response, name, set)
    <3> HIDE DEF names, set, written
    <3>1. SUFFICES ASSUME NEW other \in set,
                          NodeProxy!SmallLetters(response, other)
                            = NodeProxy!SmallLetters(response, name),
                          NodeProxy!FirstAt(response, other) > NodeProxy!FirstAt(response, name)
                   PROVE  FALSE
      BY Zenon DEF NodeProxy!IsReplaced
    <3>2. name \in set /\ NodeProxy!SmallLetters(response, name) = "set-cookie"
      BY <1>2, <2>1, <2>2
    <3>3. other \in names
      BY <2>2, <3>1, <3>2, Zenon
    <3> QED BY <2>1, <2>2, <3>1, <3>2, <3>3
  <2>5. DOMAIN written \cap names = {name}
    <3> HIDE DEF names, set, written
    <3> QED BY <1>1, <1>2, <1>4, <2>3, <2>4
  <2> QED BY <2>1, <2>5
<1> QED BY <1>3, <1>4

(***************************************************************************)
(* Of any number of cookies with any attributes, under any configuration,  *)
(* one name is left, the last where names keep their letters, and under it *)
(* each cookie has its domain and path as they are configured, unless a    *)
(* comma is added to an attribute that is rewritten.                       *)
(***************************************************************************)
THEOREM CookiesArrive == NodeSpec => []CookiesRewritten
<1>1. NodeSettled => CookiesRewritten
  <2> DEFINE options == call[3]
             response == call[4]
             raw == options.preserveHeaderKeyCase
             names == NodeProxy!CookieNames(response, raw)
             First(name) == NodeProxy!FirstAt(response, name)
             connection == NodeProxy!SetConnection(call[2].version, call[2].connection,
                                                   NodeProxy!Given(response.headers, "connection"))
  <2> SUFFICES ASSUME NodeSettled, Answered("proxy"), Got.outcome = "reply", names # {}
               PROVE  \E name \in names :
                        LET cookies == Sent(response, name, raw)
                        IN /\ DOMAIN Got.headers \cap names = {name}
                           /\ raw => \A other \in names : First(other) <= First(name)
                           /\ Apart(cookies, options) =>
                                Got.headers[name]
                                  = NodeProxy!CookieText(AllReplaced(cookies, options))
    BY Zenon DEF CookiesRewritten
  <2>1. call[1] = "proxy" /\ call \in NodeCalls /\ Got = NodeProxy!Pass(call[2], options, response)
    BY DEF NodeSettled, Answered, Got
  <2> DEFINE reply == [outcome |-> "reply", status |-> 200,
                       port |-> NodeProxy!Port(options.target),
                       headers |-> NodeProxy!WriteHeaders(response, connection, options)]
  <2>2. Got = reply /\ response.kind # "error"
    <3>1. [outcome |-> "throws"].outcome # "reply" /\ [outcome |-> "process ends"].outcome # "reply"
      OBVIOUS
    <3>2. options.target.protocol # NoProtocol
      BY <2>1, <3>1, Zenon DEF NodeProxy!Pass, NoProtocol
    <3>3. response.kind # "error"
      BY <2>1, <3>1, <3>2, Zenon DEF NodeProxy!Pass, NoProtocol
    <3> QED BY <2>1, <3>2, <3>3, Zenon DEF NodeProxy!Pass, NoProtocol
  <2>3. Got.headers = NodeProxy!WriteHeaders(response, connection, options)
    <3>1. reply.headers = NodeProxy!WriteHeaders(response, connection, options)
      OBVIOUS
    <3> HIDE DEF reply
    <3> QED BY <2>2, <3>1
  <2>4. IsResponse(response) /\ raw \in BOOLEAN
    BY <2>1, <2>2, NodeAssumption
  <2> HIDE DEF response, options, connection
  <2>5. PICK name \in names :
          /\ DOMAIN NodeProxy!WriteHeaders(response, connection, options) \cap names = {name}
          /\ raw => \A other \in names : First(other) <= First(name)
    BY <2>4, OneNameIsLeft
  <2> DEFINE cookies == Sent(response, name, raw)
  <2>6. cookies \in Seq(CookieValues) \ {<<>>}
    BY <2>4, SentAreCookies
  <2>7. Got.headers[name] = NodeProxy!RewroteCookie(NodeProxy!CookieText(cookies), options)
    <3>1. name \in DOMAIN NodeProxy!WriteHeaders(response, connection, options)
      BY <2>5
    <3>2. \A n \in names :
            n \in DOMAIN NodeProxy!WriteHeaders(response, connection, options) =>
              NodeProxy!WriteHeaders(response, connection, options)[n]
                = NodeProxy!RewroteCookie(
                    NodeProxy!CookieText(Sent(response, n, raw)), options)
      BY <2>4, CookieIsWritten, Zenon
    <3> HIDE DEF names, raw
    <3> QED BY <2>3, <2>5, <3>1, <3>2
  <2> HIDE DEF cookies
  <2>8. Apart(cookies, options) =>
          Got.headers[name] = NodeProxy!CookieText(AllReplaced(cookies, options))
    BY <2>6, <2>7, CookiesAreRewritten
  <2>9. DOMAIN Got.headers \cap names = {name}
    BY <2>3, <2>5
  <2> HIDE DEF names, First
  <2> QED BY <2>5, <2>8, <2>9, Zenon DEF cookies
<1> QED BY <1>1, NodeAnswers, PTL

-----------------------------------------------------------------------------
(* A list with one more name at a place.                                   *)
Grown(list, new, place, name) ==
  /\ Len(new) = Len(list) + 1 /\ place \in 1..Len(new) /\ new[place] = name
  /\ \A i \in 1..Len(list) : new[IF i < place THEN i ELSE i + 1] = list[i]

LEMMA InsertedIs ==
  ASSUME NEW Name, NEW list \in Seq(Name), NEW name \in Name, NEW after
  PROVE  /\ Inserted(list, name, after) \in Seq(Name)
         /\ \E place \in Nat :
              /\ Grown(list, Inserted(list, name, after), place, name)
              /\ after \in ToSet(list) => place > 1 /\ list[place - 1] = after
<1> DEFINE places == {k \in DOMAIN list : list[k] = after}
           n == Len(list)
<1>1. n \in Nat /\ DOMAIN list = 1..n
  OBVIOUS
<1>2. CASE places = {}
  <2>1. Inserted(list, name, after) = <<name>> \o list
    BY <1>2 DEF Inserted
  <2>2. Grown(list, <<name>> \o list, 1, name)
    BY <1>1 DEF Grown
  <2>3. after \notin ToSet(list)
    BY <1>2 DEF ToSet
  <2> QED BY <2>1, <2>2, <2>3
<1>3. CASE places # {}
  <2>1. Min(places) \in places
    <3>1. places \in SUBSET Nat
      BY <1>1
    <3> HIDE DEF places
    <3>2. PICK x \in places : \A y \in places : x <= y
      BY <1>3, <3>1, Least
    <3> QED BY <3>1, <3>2 DEF Min
  <2> DEFINE m == Min(places)
             new == SubSeq(list, 1, m) \o <<name>> \o SubSeq(list, m + 1, n)
  <2>2. m \in 1..n /\ list[m] = after
    BY <1>1, <2>1
  <2> HIDE DEF places, m
  <2>3. Inserted(list, name, after) = new
    <3>1. Inserted(list, name, after) = InsertAt(list, m + 1, name)
      BY <1>3 DEF Inserted, m, places
    <3>2. (m + 1) - 1 = m
      BY <2>2
    <3> QED BY <3>1, <3>2 DEF InsertAt
  <2>4. new \in Seq(Name) /\ Grown(list, new, m + 1, name)
    <3>1. /\ SubSeq(list, 1, m) \in Seq(Name) /\ Len(SubSeq(list, 1, m)) = m
          /\ \A i \in 1..m : SubSeq(list, 1, m)[i] = list[i]
      BY <1>1, <2>2
    <3>2. /\ SubSeq(list, m + 1, n) \in Seq(Name) /\ Len(SubSeq(list, m + 1, n)) = n - m
          /\ \A i \in 1..(n - m) : SubSeq(list, m + 1, n)[i] = list[m + i]
      <4>1. m + 1 \in Nat /\ \A i \in (m + 1)..n : i \in 1..n
        BY <1>1, <2>2
      <4>2. \A i \in 1..(n - m) : m + i = (m + 1) + i - 1 /\ i \in 1..(n - (m + 1) + 1)
        BY <1>1, <2>2
      <4>3. n - (m + 1) + 1 = n - m
        BY <1>1, <2>2
      <4>4. /\ SubSeq(list, m + 1, n) \in Seq(Name)
            /\ Len(SubSeq(list, m + 1, n)) = IF m + 1 <= n THEN n - (m + 1) + 1 ELSE 0
            /\ \A i \in 1..(n - (m + 1) + 1) : SubSeq(list, m + 1, n)[i] = list[(m + 1) + i - 1]
        <5>1. m + 1 \in Int /\ n \in Int /\ \A i \in (m + 1)..n : list[i] \in Name
          BY <1>1, <2>2, <4>1
        <5> HIDE DEF n
        <5> QED BY <5>1, SubSeqProperties
      <4> DEFINE behind == SubSeq(list, m + 1, n)
      <4> HIDE DEF behind, n
      <4>5. Len(behind) = n - m
        BY <1>1, <2>2, <4>4 DEF behind
      <4>6. \A i \in 1..(n - m) : behind[i] = list[m + i]
        BY <1>1, <2>2, <4>2, <4>4 DEF behind
      <4> QED BY <4>4, <4>5, <4>6 DEF behind
    <3> DEFINE before == SubSeq(list, 1, m)
               behind == SubSeq(list, m + 1, n)
    <3> HIDE DEF before, behind, n
    <3>3. new \in Seq(Name) /\ Len(new) = n + 1
      BY <1>1, <2>2, <3>1, <3>2 DEF before, behind
    <3>4. before \o <<name>> \in Seq(Name) /\ Len(before \o <<name>>) = m + 1
          /\ (before \o <<name>>)[m + 1] = name
          /\ \A i \in 1..m : (before \o <<name>>)[i] = before[i]
      BY <1>1, <2>2, <3>1 DEF before
    <3>5. behind \in Seq(Name) /\ Len(behind) = n - m
      BY <3>2 DEF behind
    <3> DEFINE front == before \o <<name>>
    <3>6. new = front \o behind
      BY DEF before, behind
    <3>7. /\ \A i \in 1..(m + 1) : new[i] = front[i]
          /\ \A i \in 1..(n - m) : new[(m + 1) + i] = behind[i]
      <4> HIDE DEF front, new
      <4>1. front \in Seq(Name) /\ Len(front) = m + 1
        BY <3>4 DEF front
      <4> QED BY <1>1, <2>2, <3>5, <3>6, <4>1
    <3> HIDE DEF front, new
    <3>8. new[m + 1] = name
      BY <2>2, <3>4, <3>7 DEF front
    <3>9. ASSUME NEW i \in 1..n PROVE new[IF i < m + 1 THEN i ELSE i + 1] = list[i]
      <4>1. CASE i < m + 1
        <5>1. i \in 1..m /\ i \in 1..(m + 1)
          BY <1>1, <2>2, <4>1
        <5> QED BY <3>1, <3>4, <3>7, <4>1, <5>1 DEF front, before
      <4>2. CASE ~(i < m + 1)
        <5>1. i - m \in 1..(n - m) /\ (m + 1) + (i - m) = i + 1 /\ m + (i - m) = i
          BY <1>1, <2>2, <4>2
        <5>2. new[i + 1] = behind[i - m] /\ behind[i - m] = list[i]
          BY <3>2, <3>7, <5>1 DEF behind
        <5> QED BY <4>2, <5>2
      <4> QED BY <4>1, <4>2
    <3>10. m + 1 \in 1..(n + 1)
      BY <1>1, <2>2
    <3> QED BY <3>3, <3>8, <3>9, <3>10 DEF Grown, n
  <2> HIDE DEF new
  <2>5. m + 1 \in Nat /\ m + 1 > 1 /\ (m + 1) - 1 = m
    BY <2>2
  <2> QED BY <2>2, <2>3, <2>4, <2>5
<1> QED BY <1>2, <1>3

LEMMA GrownHas ==
  ASSUME NEW Name, NEW list \in Seq(Name), NEW new \in Seq(Name), NEW place \in Nat, NEW name,
         Grown(list, new, place, name)
  PROVE  ToSet(new) = ToSet(list) \cup {name}
<1> DEFINE n == Len(list)
           At(i) == IF i < place THEN i ELSE i + 1
<1>1. n \in Nat /\ Len(new) = n + 1 /\ place \in 1..(n + 1) /\ new[place] = name
      /\ \A i \in 1..n : new[At(i)] = list[i] /\ At(i) \in 1..(n + 1)
  BY DEF Grown
<1>2. ASSUME NEW j \in 1..(n + 1) PROVE j = place \/ \E i \in 1..n : At(i) = j
  <2>1. CASE j < place
    <3>1. j \in 1..n /\ At(j) = j
      BY <1>1, <2>1
    <3> QED BY <3>1
  <2>2. CASE j > place
    <3>1. j - 1 \in 1..n /\ At(j - 1) = j
      BY <1>1, <2>2
    <3> QED BY <3>1
  <2> QED BY <1>1, <2>1, <2>2
<1> HIDE DEF At
<1>3. DOMAIN list = 1..n /\ DOMAIN new = 1..(n + 1)
  BY <1>1
<1> HIDE DEF n
<1>4. ASSUME NEW x \in ToSet(new) PROVE x \in ToSet(list) \cup {name}
  <2>1. PICK j \in 1..(n + 1) : new[j] = x
    BY <1>3 DEF ToSet
  <2>2. CASE j = place
    BY <1>1, <2>1, <2>2
  <2>3. CASE \E i \in 1..n : At(i) = j
    BY <1>1, <1>3, <2>1, <2>3 DEF ToSet
  <2> QED BY <1>2, <2>2, <2>3
<1>5. ToSet(list) \subseteq ToSet(new)
  BY <1>1, <1>3 DEF ToSet
<1>6. name \in ToSet(new)
  BY <1>1, <1>3 DEF ToSet
<1> QED BY <1>4, <1>5, <1>6

LEMMA GrownOrder ==
  ASSUME NEW Name, NEW list \in Seq(Name), NEW new \in Seq(Name), NEW place \in Nat, NEW name,
         Grown(list, new, place, name)
  PROVE  /\ \A own : InOrder(list, own) /\ (\A k \in DOMAIN own : own[k] # name)
                       => InOrder(new, own)
         /\ \A x, y : StandsBehind(list, x, y) => StandsBehind(new, x, y)
<1> DEFINE n == Len(list)
           At(i) == IF i < place THEN i ELSE i + 1
<1>1. n \in Nat /\ DOMAIN list = 1..n /\ DOMAIN new = 1..(n + 1)
      /\ \A i \in 1..n : new[At(i)] = list[i] /\ At(i) \in 1..(n + 1)
  BY DEF Grown
<1>2. \A i, j \in 1..n : i < j <=> At(i) < At(j)
  BY <1>1
<1>3. ASSUME NEW j \in 1..(n + 1) PROVE new[j] = name \/ \E i \in 1..n : At(i) = j
  <2>0. place \in 1..(n + 1) /\ new[place] = name
    BY DEF Grown
  <2>1. CASE j < place
    <3>1. j \in 1..n /\ At(j) = j
      BY <1>1, <2>0, <2>1
    <3> QED BY <3>1
  <2>2. CASE j > place
    <3>1. j - 1 \in 1..n /\ At(j - 1) = j
      BY <1>1, <2>0, <2>2
    <3> QED BY <3>1
  <2> QED BY <1>1, <2>0, <2>1, <2>2
<1> HIDE DEF At, n
<1>4. ASSUME NEW own, InOrder(list, own), \A k \in DOMAIN own : own[k] # name
      PROVE  InOrder(new, own)
  <2>1. ASSUME NEW k \in DOMAIN own PROVE \E i \in DOMAIN new : new[i] = own[k]
    <3>1. PICK i \in 1..n : list[i] = own[k]
      BY <1>1, <1>4 DEF InOrder
    <3> QED BY <1>1, <3>1
  <2>2. ASSUME NEW k \in DOMAIN own, NEW l \in DOMAIN own, NEW i \in DOMAIN new, NEW j \in DOMAIN new,
               new[i] = own[k], new[j] = own[l]
        PROVE  k < l <=> i < j
    <3>1. PICK r \in 1..n : At(r) = i
      BY <1>1, <1>3, <1>4, <2>2
    <3>2. PICK s \in 1..n : At(s) = j
      BY <1>1, <1>3, <1>4, <2>2
    <3>3. list[r] = own[k] /\ list[s] = own[l]
      BY <1>1, <2>2, <3>1, <3>2
    <3>4. k < l <=> r < s
      BY <1>1, <1>4, <3>3 DEF InOrder
    <3> QED BY <1>2, <3>1, <3>2, <3>4
  <2> QED BY <2>1, <2>2 DEF InOrder
<1>5. ASSUME NEW x, NEW y, StandsBehind(list, x, y) PROVE StandsBehind(new, x, y)
  <2>1. PICK i \in 1..n, j \in 1..n : i < j /\ list[i] = y /\ list[j] = x
    BY <1>1, <1>5 DEF StandsBehind
  <2>2. At(i) < At(j) /\ new[At(i)] = y /\ new[At(j)] = x
    BY <1>1, <1>2, <2>1
  <2> QED BY <1>1, <2>2 DEF StandsBehind
<1> QED BY <1>4, <1>5

LEMMA GrownBehind ==
  ASSUME NEW Name, NEW list \in Seq(Name), NEW new \in Seq(Name), NEW place \in Nat, NEW name,
         Grown(list, new, place, name), place > 1
  PROVE  StandsBehind(new, name, list[place - 1])
<1>1. place - 1 \in 1..Len(list) /\ place - 1 < place
      /\ place \in DOMAIN new /\ place - 1 \in DOMAIN new /\ new[place] = name
  BY DEF Grown
<1>2. new[place - 1] = list[place - 1]
  BY <1>1 DEF Grown
<1> QED BY <1>1, <1>2 DEF StandsBehind

LEMMA OwnIsInOrder ==
  /\ InOrder(AppMiddlewares, AppMiddlewares) /\ InOrder(RouteMiddlewares, RouteMiddlewares)
<1>1. ASSUME NEW own, \A k, l \in DOMAIN own : own[k] = own[l] => k = l
      PROVE  InOrder(own, own)
  BY <1>1 DEF InOrder
<1>2. \A k, l \in DOMAIN AppMiddlewares : AppMiddlewares[k] = AppMiddlewares[l] => k = l
  BY DEF AppMiddlewares
<1>3. \A k, l \in DOMAIN RouteMiddlewares : RouteMiddlewares[k] = RouteMiddlewares[l] => k = l
  BY DEF RouteMiddlewares
<1> QED BY <1>1, <1>2, <1>3

-----------------------------------------------------------------------------
(* The middlewares are used one by one, and the calls made one by one.     *)
LEMMA UsedIs ==
  ASSUME NEW Name, NEW a, a.app \in Seq(Name)
  PROVE  /\ Used(a)[0] = a
         /\ \A k \in 1..Len(a.app) : Used(a)[k] = UseOne(Used(a)[k-1], a.app[k])
<1> DEFINE n == Len(a.app)
           After(k, x) == UseOne(x, a.app[k])
           Is(f, m) == f = [k \in 0..m |-> IF k = 0 THEN a ELSE After(k, f[k-1])]
           S == {m \in 0..n : \E f : Is(f, m)}
           U == Used(a)
<1>1. n \in Nat
  OBVIOUS
<1> HIDE DEF n, After, U
<1>2. 0 \in S
  <2> DEFINE f == [k \in 0..0 |-> a]
  <2>1. Is(f, 0)
    <3>1. \A k \in 0..0 : k = 0
      OBVIOUS
    <3> QED BY <3>1, Zenon
  <2>2. 0 \in 0..n
    BY <1>1
  <2> HIDE DEF f, Is
  <2> QED BY <2>1, <2>2
<1>3. ASSUME NEW m \in 0..(n-1), m \in S PROVE m + 1 \in S
  <2>1. PICK f : Is(f, m)
    BY <1>3
  <2> DEFINE g == [k \in 0..(m+1) |-> IF k = m + 1 THEN After(m + 1, f[m]) ELSE f[k]]
  <2>2. ASSUME NEW k \in 0..(m+1)
        PROVE  g[k] = IF k = 0 THEN a ELSE After(k, g[k-1])
    <3>1. CASE k = m + 1
      <4>1. k # 0 /\ k - 1 = m /\ m \in 0..(m+1) /\ m # m + 1
        BY <1>1, <3>1
      <4> QED BY <3>1, <4>1
    <3>2. CASE k # m + 1
      <4>1. k \in 0..m /\ (k # 0 => k - 1 \in 0..(m+1) /\ k - 1 # m + 1)
        BY <1>1, <3>2
      <4>2. f[k] = IF k = 0 THEN a ELSE After(k, f[k-1])
        BY <2>1, <4>1
      <4> QED BY <3>2, <4>1, <4>2
    <3> QED BY <3>1, <3>2
  <2>3. Is(g, m + 1)
    <3>1. g = [k \in 0..(m+1) |-> g[k]]
      OBVIOUS
    <3> HIDE DEF g
    <3> QED BY <2>2, <3>1
  <2>4. m + 1 \in 0..n
    BY <1>1
  <2> HIDE DEF g, Is
  <2> QED BY <2>3, <2>4
<1> HIDE DEF S
<1>4. n \in S
  <2>1. \A m \in 0..n : m \in S
    BY <1>1, <1>2, <1>3, Induct
  <2> QED BY <1>1, <2>1
<1>5. PICK f : Is(f, n)
  BY <1>4 DEF S
<1>6. U = [k \in 0..n |-> IF k = 0 THEN a ELSE After(k, U[k-1])]
  BY <1>5, Zenon DEF Used, U, n, After
<1>7. U[0] = a /\ \A k \in 1..n : U[k] = After(k, U[k-1])
  <2>1. 0 \in 0..n /\ \A k \in 1..n : k \in 0..n /\ k # 0
    BY <1>1
  <2> QED BY <1>6, <2>1
<1> QED BY <1>7 DEF U, n, After

Called(a, c) ==
    IF c[1] = "init" THEN InitApp(a, c[2]) ELSE UseMiddleware(a, c[1], c[2], c[3])

LEMMA AppsAre ==
  ASSUME NEW Call, NEW calls \in Seq(Call)
  PROVE  /\ Apps(calls)[0] = NewApp
         /\ \A k \in 1..Len(calls) : Apps(calls)[k] = Called(Apps(calls)[k-1], calls[k])
<1> DEFINE n == Len(calls)
           After(k, x) == IF calls[k][1] = "init" THEN InitApp(x, calls[k][2])
                         ELSE UseMiddleware(x, calls[k][1], calls[k][2], calls[k][3])
           Is(f, m) == f = [k \in 0..m |-> IF k = 0 THEN NewApp ELSE After(k, f[k-1])]
           S == {m \in 0..n : \E f : Is(f, m)}
           A == Apps(calls)
<1>1. n \in Nat
  OBVIOUS
<1> HIDE DEF n, After, A
<1>2. 0 \in S
  <2> DEFINE f == [k \in 0..0 |-> NewApp]
  <2>1. Is(f, 0)
    <3>1. \A k \in 0..0 : k = 0
      OBVIOUS
    <3> QED BY <3>1, Zenon
  <2>2. 0 \in 0..n
    BY <1>1
  <2> HIDE DEF f, Is
  <2> QED BY <2>1, <2>2
<1>3. ASSUME NEW m \in 0..(n-1), m \in S PROVE m + 1 \in S
  <2>1. PICK f : Is(f, m)
    BY <1>3
  <2> DEFINE g == [k \in 0..(m+1) |-> IF k = m + 1 THEN After(m + 1, f[m]) ELSE f[k]]
  <2>2. ASSUME NEW k \in 0..(m+1)
        PROVE  g[k] = IF k = 0 THEN NewApp ELSE After(k, g[k-1])
    <3>1. CASE k = m + 1
      <4>1. k # 0 /\ k - 1 = m /\ m \in 0..(m+1) /\ m # m + 1
        BY <1>1, <3>1
      <4> QED BY <3>1, <4>1
    <3>2. CASE k # m + 1
      <4>1. k \in 0..m /\ (k # 0 => k - 1 \in 0..(m+1) /\ k - 1 # m + 1)
        BY <1>1, <3>2
      <4>2. f[k] = IF k = 0 THEN NewApp ELSE After(k, f[k-1])
        BY <2>1, <4>1
      <4> QED BY <3>2, <4>1, <4>2
    <3> QED BY <3>1, <3>2
  <2>3. Is(g, m + 1)
    <3>1. g = [k \in 0..(m+1) |-> g[k]]
      OBVIOUS
    <3> HIDE DEF g
    <3> QED BY <2>2, <3>1
  <2>4. m + 1 \in 0..n
    BY <1>1
  <2> HIDE DEF g, Is
  <2> QED BY <2>3, <2>4
<1> HIDE DEF S
<1>4. n \in S
  <2>1. \A m \in 0..n : m \in S
    BY <1>1, <1>2, <1>3, Induct
  <2> QED BY <1>1, <2>1
<1>5. PICK f : Is(f, n)
  BY <1>4 DEF S
<1>6. A = [k \in 0..n |-> IF k = 0 THEN NewApp ELSE After(k, A[k-1])]
  BY <1>5, Zenon DEF Apps, A, n, After
<1>7. A[0] = NewApp /\ \A k \in 1..n : A[k] = After(k, A[k-1])
  <2>1. 0 \in 0..n /\ \A k \in 1..n : k \in 0..n /\ k # 0
    BY <1>1
  <2> QED BY <1>6, <2>1
<1> QED BY <1>7 DEF A, n, After, Called

-----------------------------------------------------------------------------
(* What a call makes of an application.                                    *)
Fields == {"initialed", "failed", "config", "app", "route", "custom", "stack", "mounted"}
IsApp(a) == DOMAIN a = Fields /\ a.initialed \in BOOLEAN /\ a.failed \in BOOLEAN
SameLists(a, b) ==
    a.app = b.app /\ a.route = b.route /\ a.custom = b.custom /\ a.initialed = b.initialed

LEMMA OneIsUsed ==
  ASSUME NEW a, IsApp(a), NEW name, name \in ToSet(AppMiddlewares) \cup a.custom
  PROVE  LET u == UseOne(a, name) IN
         /\ IsApp(u) /\ SameLists(u, a)
         /\ ~u.failed => ~a.failed /\ u.stack = Append(a.stack, name)
         /\ u.stack \in {a.stack, Append(a.stack, name)}
<1>1. CASE a.failed
  <2>1. UseOne(a, name) = a
    BY <1>1 DEF UseOne
  <2> QED BY <1>1, <2>1 DEF SameLists
<1>2. CASE ~a.failed /\ Fails(a, name)
  <2>1. UseOne(a, name) = [a EXCEPT !.failed = TRUE]
    BY <1>2, Zenon DEF UseOne
  <2> QED BY <2>1 DEF SameLists, IsApp, Fields
<1>3. CASE ~a.failed /\ ~Fails(a, name)
  <2> DEFINE routes == IF name = "routes" THEN Mounted(a) ELSE a.mounted
  <2>1. UseOne(a, name) = [a EXCEPT !.stack = Append(a.stack, name), !.mounted = routes]
    BY <1>3, Zenon DEF UseOne
  <2> HIDE DEF routes
  <2> QED BY <1>3, <2>1 DEF SameLists, IsApp, Fields
<1> QED BY <1>1, <1>2, <1>3 DEF IsApp

LEMMA AppendLast ==
  ASSUME NEW Name, NEW s \in Seq(Name), NEW x \in Name
  PROVE  Append(s, x) \in Seq(Name) /\ \A t \in Seq(Name) : Append(t \o s, x) = t \o Append(s, x)
OBVIOUS

LEMMA AllAreUsed ==
  ASSUME NEW Name, NEW a, IsApp(a), a.app \in Seq(Name), a.stack \in Seq(Name),
         ToSet(a.app) \subseteq ToSet(AppMiddlewares) \cup a.custom
  PROVE  LET u == Used(a)[Len(a.app)] IN
         /\ IsApp(u) /\ SameLists(u, a) /\ u.stack \in Seq(Name)
         /\ ~u.failed => u.stack = a.stack \o a.app
<1> DEFINE n == Len(a.app)
           U == Used(a)
           Good(k) == /\ IsApp(U[k]) /\ SameLists(U[k], a) /\ U[k].stack \in Seq(Name)
                      /\ ~U[k].failed => U[k].stack = a.stack \o SubSeq(a.app, 1, k)
           S == {k \in 0..n : Good(k)}
<1>1. n \in Nat /\ U[0] = a /\ \A k \in 1..n : U[k] = UseOne(U[k-1], a.app[k])
  BY UsedIs
<1> HIDE DEF U
<1>2. 0 \in S
  <2>1. SubSeq(a.app, 1, 0) = <<>> /\ a.stack \o <<>> = a.stack
    OBVIOUS
  <2>2. Good(0)
    BY <1>1, <2>1 DEF SameLists
  <2> HIDE DEF Good
  <2> QED BY <1>1, <2>2
<1>3. ASSUME NEW k \in 0..(n-1), k \in S PROVE k + 1 \in S
  <2>1. k + 1 \in 1..n /\ (k + 1) - 1 = k /\ k \in Nat
    BY <1>1
  <2> DEFINE name == a.app[k + 1]
  <2>2. name \in Name /\ name \in ToSet(a.app)
    BY <2>1 DEF ToSet
  <2>3. U[k + 1] = UseOne(U[k], name)
    BY <1>1, <2>1
  <2>4. Good(k)
    BY <1>3
  <2>5. /\ IsApp(U[k + 1]) /\ SameLists(U[k + 1], U[k])
        /\ ~U[k + 1].failed => ~U[k].failed /\ U[k + 1].stack = Append(U[k].stack, name)
        /\ U[k + 1].stack \in {U[k].stack, Append(U[k].stack, name)}
    BY <2>2, <2>3, <2>4, OneIsUsed DEF SameLists
  <2>6. SubSeq(a.app, 1, k + 1) = Append(SubSeq(a.app, 1, k), name)
    BY <2>1
  <2>7. SubSeq(a.app, 1, k) \in Seq(Name)
    BY <2>1
  <2> HIDE DEF name
  <2>8. Append(a.stack \o SubSeq(a.app, 1, k), name) = a.stack \o Append(SubSeq(a.app, 1, k), name)
    BY <2>2, <2>7, AppendLast
  <2>9. U[k + 1].stack \in Seq(Name)
    <3>1. U[k].stack \in Seq(Name)
      BY <2>4
    <3>2. Append(U[k].stack, name) \in Seq(Name)
      BY <2>2, <3>1, AppendLast
    <3> QED BY <2>5, <3>1, <3>2, Zenon
  <2>10. Good(k + 1)
    BY <2>4, <2>5, <2>6, <2>8, <2>9 DEF SameLists
  <2> HIDE DEF Good
  <2> QED BY <2>1, <2>10
<1> HIDE DEF S
<1>4. n \in S
  <2>1. \A k \in 0..n : k \in S
    BY <1>1, <1>2, <1>3, Induct
  <2> QED BY <1>1, <2>1
<1>5. SubSeq(a.app, 1, n) = a.app
  OBVIOUS
<1> QED BY <1>4, <1>5 DEF S, U

LEMMA InitIs ==
  ASSUME NEW Name, "helper" \in Name, NEW a, IsApp(a), a.app \in Seq(Name), a.stack \in Seq(Name),
         ToSet(a.app) \subseteq ToSet(AppMiddlewares) \cup a.custom, NEW configs
  PROVE  LET i == InitApp(a, configs) IN
         /\ IsApp(i) /\ i.stack \in Seq(Name)
         /\ i.app = a.app /\ i.route = a.route /\ i.custom = a.custom
         /\ a.initialed => i = a
         /\ ~a.initialed /\ i.initialed => i.stack = Append(a.stack, "helper") \o a.app
<1>1. CASE a.initialed
  <2>1. InitApp(a, configs) = a
    BY <1>1 DEF InitApp
  <2> QED BY <1>1, <2>1
<1>2. CASE ~a.initialed
  <2> DEFINE config == MergeConfigs(<<a.config>> \o configs)
             begun == [a EXCEPT !.failed = FALSE, !.stack = Append(a.stack, "helper"),
                                !.config = config]
             used == Used(begun)[Len(a.app)]
  <2> HIDE DEF config
  <2>1. InitApp(a, configs) = [used EXCEPT !.initialed = ~used.failed]
    BY <1>2, Zenon DEF InitApp, config
  <2>2. /\ IsApp(begun) /\ SameLists(begun, a) /\ begun.stack = Append(a.stack, "helper")
    BY DEF IsApp, SameLists, Fields
  <2> HIDE DEF begun
  <2>3. /\ begun.app \in Seq(Name) /\ begun.stack \in Seq(Name)
        /\ ToSet(begun.app) \subseteq ToSet(AppMiddlewares) \cup begun.custom
    BY <2>2 DEF SameLists
  <2>4. /\ IsApp(used) /\ SameLists(used, begun) /\ used.stack \in Seq(Name)
        /\ ~used.failed => used.stack = begun.stack \o begun.app
    BY <2>2, <2>3, AllAreUsed DEF SameLists
  <2> HIDE DEF used
  <2> QED BY <1>2, <2>1, <2>2, <2>4 DEF SameLists, IsApp, Fields
<1> QED BY <1>1, <1>2 DEF IsApp

(* What holds of an application after k of its calls.                      *)
Inits(calls) == {k \in DOMAIN calls : calls[k][1] = "init"}
OwnOf(list) == IF list = "app" THEN AppMiddlewares ELSE RouteMiddlewares
ListOf(a, list) == IF list = "app" THEN a.app ELSE a.route
WasThere(calls, name, k) ==
    \/ name \in ToSet(OwnOf(calls[k][1]))
    \/ \E j \in 1..(k-1) : calls[j][1] = calls[k][1] /\ calls[j][2] = name

Listed(Name, a) ==
    /\ IsApp(a) /\ a.app \in Seq(Name) /\ a.route \in Seq(Name) /\ a.stack \in Seq(Name)
    /\ InOrder(a.app, AppMiddlewares) /\ InOrder(a.route, RouteMiddlewares)
    /\ ToSet(a.app) \subseteq ToSet(AppMiddlewares) \cup a.custom

PlacedOne(calls, a, k) ==
    (\A i \in Inits(calls) : k < i) =>
       /\ calls[k][2] \in ToSet(ListOf(a, calls[k][1]))
       /\ WasThere(calls, calls[k][3], k) =>
            StandsBehind(ListOf(a, calls[k][1]), calls[k][2], calls[k][3])
Placed(calls, a, k) == \A j \in 1..k : PlacedOne(calls, a, j)

Begun(calls, a, k) ==
    /\ (\A i \in Inits(calls) : k < i) => ~a.initialed /\ a.stack = <<>>
    /\ a.initialed /\ (\A i, j \in Inits(calls) : i = j) => a.stack = <<"helper">> \o a.app

LEMMA NewAppListed ==
  ASSUME NEW Name, ToSet(AppMiddlewares) \cup ToSet(RouteMiddlewares) \subseteq Name, NEW calls
  PROVE  Listed(Name, NewApp) /\ Placed(calls, NewApp, 0) /\ Begun(calls, NewApp, 0)
<1>1. AppMiddlewares \in Seq(Name) /\ RouteMiddlewares \in Seq(Name)
  <2>1. AppMiddlewares \in Seq(ToSet(AppMiddlewares)) /\ RouteMiddlewares \in Seq(ToSet(RouteMiddlewares))
    BY DEF AppMiddlewares, RouteMiddlewares, ToSet
  <2> HIDE DEF AppMiddlewares, RouteMiddlewares
  <2> QED BY <2>1
<1>2. /\ NewApp.app = AppMiddlewares /\ NewApp.route = RouteMiddlewares /\ NewApp.custom = {}
      /\ NewApp.stack = <<>> /\ NewApp.initialed = FALSE /\ IsApp(NewApp)
  BY DEF NewApp, IsApp, Fields
<1>3. Listed(Name, NewApp)
  BY <1>1, <1>2, OwnIsInOrder DEF Listed
<1>4. 1..0 = {}
  OBVIOUS
<1> QED BY <1>2, <1>3, <1>4 DEF Placed, Begun

LEMMA InitKeeps ==
  ASSUME NEW Name, "helper" \in Name, NEW calls, NEW k \in Nat, k + 1 \in Inits(calls),
         NEW a, Listed(Name, a), Placed(calls, a, k), Begun(calls, a, k)
  PROVE  LET i == InitApp(a, calls[k+1][2]) IN
         Listed(Name, i) /\ Placed(calls, i, k + 1) /\ Begun(calls, i, k + 1)
<1> DEFINE i == InitApp(a, calls[k+1][2])
<1>1. /\ IsApp(i) /\ i.stack \in Seq(Name)
      /\ i.app = a.app /\ i.route = a.route /\ i.custom = a.custom
      /\ a.initialed => i = a
      /\ ~a.initialed /\ i.initialed => i.stack = Append(a.stack, "helper") \o a.app
  BY InitIs DEF Listed
<1> HIDE DEF i
<1>2. Listed(Name, i)
  BY <1>1, Zenon DEF Listed
<1>3. ~(\A x \in Inits(calls) : k + 1 < x)
  BY DEF Inits
<1>4. Placed(calls, i, k + 1)
  <2>1. ASSUME NEW j \in 1..(k+1) PROVE PlacedOne(calls, i, j)
    <3>1. CASE j \in 1..k
      BY <1>1, <3>1, Zenon DEF Placed, PlacedOne, ListOf
    <3>2. CASE j \notin 1..k
      <4>1. j = k + 1
        BY <3>2
      <4> QED BY <1>3, <4>1, Zenon DEF PlacedOne
    <3> QED BY <3>1, <3>2
  <2> QED BY <2>1 DEF Placed
<1>5. ASSUME i.initialed, \A x, y \in Inits(calls) : x = y
      PROVE  i.stack = <<"helper">> \o i.app
  <2>1. CASE a.initialed
    BY <1>1, <1>5, <2>1, Zenon DEF Begun
  <2>2. CASE ~a.initialed
    <3>1. \A x \in Inits(calls) : k < x
      <4>1. \A x \in Inits(calls) : x = k + 1
        BY <1>5
      <4>2. k < k + 1
        OBVIOUS
      <4> QED BY <4>1, <4>2
    <3>2. a.stack = <<>>
      BY <3>1 DEF Begun
    <3>3. Append(<<>>, "helper") = <<"helper">>
      OBVIOUS
    <3> QED BY <1>1, <1>5, <2>2, <3>2, <3>3
  <2> QED BY <2>1, <2>2
<1>6. Begun(calls, i, k + 1)
  BY <1>3, <1>5, Zenon DEF Begun
<1> QED BY <1>2, <1>4, <1>6 DEF i

LEMMA InsertedStays ==
  ASSUME NEW Name, NEW list \in Seq(Name), NEW name \in Name, NEW after,
         NEW own, InOrder(list, own), name \notin ToSet(own)
  PROVE  LET new == Inserted(list, name, after) IN
         /\ new \in Seq(Name) /\ InOrder(new, own) /\ ToSet(new) = ToSet(list) \cup {name}
         /\ \A x, y : StandsBehind(list, x, y) => StandsBehind(new, x, y)
         /\ after \in ToSet(list) => StandsBehind(new, name, after)
<1> DEFINE new == Inserted(list, name, after)
<1>1. PICK place \in Nat :
        /\ new \in Seq(Name) /\ Grown(list, new, place, name)
        /\ after \in ToSet(list) => place > 1 /\ list[place - 1] = after
  BY InsertedIs
<1> HIDE DEF new
<1>2. \A k \in DOMAIN own : own[k] # name
  BY DEF ToSet
<1>3. /\ InOrder(new, own)
      /\ \A x, y : StandsBehind(list, x, y) => StandsBehind(new, x, y)
  BY <1>1, <1>2, GrownOrder
<1>4. ToSet(new) = ToSet(list) \cup {name}
  BY <1>1, GrownHas
<1>5. ASSUME after \in ToSet(list) PROVE StandsBehind(new, name, after)
  BY <1>1, <1>5, GrownBehind
<1> QED BY <1>1, <1>3, <1>4, <1>5 DEF new

LEMMA UseIs ==
  ASSUME NEW a, IsApp(a), ~a.initialed, NEW list, NEW name, NEW after
  PROVE  LET u == UseMiddleware(a, list, name, after) IN
         /\ IsApp(u) /\ u.initialed = FALSE /\ u.stack = a.stack
         /\ u.custom = a.custom \cup {name}
         /\ u.app = IF list = "app" THEN Inserted(a.app, name, after) ELSE a.app
         /\ u.route = IF list = "app" THEN a.route ELSE Inserted(a.route, name, after)
<1> DEFINE app == Inserted(a.app, name, after)
           route == Inserted(a.route, name, after)
           custom == a.custom \cup {name}
<1>1. CASE list = "app"
  <2>1. UseMiddleware(a, list, name, after) = [a EXCEPT !.custom = custom, !.app = app]
    BY <1>1, Zenon DEF UseMiddleware
  <2> HIDE DEF app, custom
  <2>2. LET u == [a EXCEPT !.custom = custom, !.app = app] IN
        /\ IsApp(u) /\ u.initialed = FALSE /\ u.stack = a.stack
        /\ u.custom = custom /\ u.app = app /\ u.route = a.route
    BY DEF IsApp, Fields
  <2> QED BY <1>1, <2>1, <2>2, Zenon DEF app, custom
<1>2. CASE list # "app"
  <2>1. UseMiddleware(a, list, name, after) = [a EXCEPT !.custom = custom, !.route = route]
    BY <1>2, Zenon DEF UseMiddleware
  <2> HIDE DEF route, custom
  <2>2. LET u == [a EXCEPT !.custom = custom, !.route = route] IN
        /\ IsApp(u) /\ u.initialed = FALSE /\ u.stack = a.stack
        /\ u.custom = custom /\ u.app = a.app /\ u.route = route
    BY DEF IsApp, Fields
  <2> QED BY <1>2, <2>1, <2>2, Zenon DEF route, custom
<1> QED BY <1>1, <1>2

LEMMA UseKeeps ==
  ASSUME NEW Name, NEW calls, NEW k \in Nat, k + 1 \in DOMAIN calls, k + 1 \notin Inits(calls),
         calls[k+1][2] \in Name, calls[k+1][2] \notin ToSet(OwnOf(calls[k+1][1])),
         NEW a, Listed(Name, a), Placed(calls, a, k), Begun(calls, a, k),
         \A x \in Inits(calls) : x \in Nat
  PROVE  LET u == UseMiddleware(a, calls[k+1][1], calls[k+1][2], calls[k+1][3]) IN
         Listed(Name, u) /\ Placed(calls, u, k + 1) /\ Begun(calls, u, k + 1)
<1> DEFINE list == calls[k+1][1]
           name == calls[k+1][2]
           after == calls[k+1][3]
           u == UseMiddleware(a, list, name, after)
<1>1. ASSUME \A x \in Inits(calls) : k + 1 < x PROVE ~a.initialed /\ a.stack = <<>>
  <2>1. \A x \in Inits(calls) : k < x
    BY <1>1
  <2> QED BY <2>1 DEF Begun
<1>2. ASSUME NEW j \in 1..(k+1) PROVE j \in 1..k \/ j = k + 1
  OBVIOUS
<1>3. CASE a.initialed
  <2>1. u = a
    BY <1>3 DEF UseMiddleware
  <2>2. Placed(calls, a, k + 1)
    <3>1. PlacedOne(calls, a, k + 1)
      BY <1>1, <1>3, Zenon DEF PlacedOne
    <3> QED BY <1>2, <3>1, Zenon DEF Placed
  <2>3. Begun(calls, a, k + 1)
    BY <1>1, <1>3, Zenon DEF Begun
  <2> HIDE DEF u
  <2> QED BY <2>1, <2>2, <2>3 DEF u, list, name, after
<1>4. CASE ~a.initialed
  <2> DEFINE old == ListOf(a, list)
             new == Inserted(old, name, after)
  <2>1. /\ IsApp(u) /\ u.initialed = FALSE /\ u.stack = a.stack
        /\ u.custom = a.custom \cup {name}
        /\ u.app = IF list = "app" THEN Inserted(a.app, name, after) ELSE a.app
        /\ u.route = IF list = "app" THEN a.route ELSE Inserted(a.route, name, after)
    <3>1. IsApp(a)
      BY DEF Listed
    <3> HIDE DEF list, name, after
    <3>2. \A l, nm, af : LET v == UseMiddleware(a, l, nm, af) IN
            /\ IsApp(v) /\ v.initialed = FALSE /\ v.stack = a.stack
            /\ v.custom = a.custom \cup {nm}
            /\ v.app = IF l = "app" THEN Inserted(a.app, nm, af) ELSE a.app
            /\ v.route = IF l = "app" THEN a.route ELSE Inserted(a.route, nm, af)
      BY <1>4, <3>1, UseIs
    <3>3. u = UseMiddleware(a, list, name, after)
      OBVIOUS
    <3> HIDE DEF u
    <3> QED BY <3>2, <3>3
  <2>2. old \in Seq(Name) /\ InOrder(old, OwnOf(list))
    BY DEF ListOf, OwnOf, Listed
  <2>3. /\ new \in Seq(Name) /\ InOrder(new, OwnOf(list)) /\ ToSet(new) = ToSet(old) \cup {name}
        /\ \A x, y : StandsBehind(old, x, y) => StandsBehind(new, x, y)
        /\ after \in ToSet(old) => StandsBehind(new, name, after)
    <3> HIDE DEF old, list, name, after
    <3> QED BY <2>2, InsertedStays DEF name, list
  <2> HIDE DEF u
  <2>4. ListOf(u, list) = new
    BY <2>1, Zenon DEF ListOf
  <2>5. \A other : ListOf(u, other) = IF (other = "app") = (list = "app") THEN new ELSE ListOf(a, other)
    <3>1. \A other : ListOf(a, other) = IF other = "app" THEN a.app ELSE a.route
      BY DEF ListOf
    <3>2. \A other : ListOf(u, other) = IF other = "app" THEN u.app ELSE u.route
      BY DEF ListOf
    <3>3. CASE list = "app"
      BY <2>1, <3>1, <3>2, <3>3, Zenon
    <3>4. CASE list # "app"
      BY <2>1, <3>1, <3>2, <3>4, Zenon
    <3> QED BY <3>3, <3>4
  <2> HIDE DEF new, list
  <2>6. Listed(Name, u)
    <3>1. CASE list = "app"
      <4>1. u.app = new /\ u.route = a.route /\ old = a.app /\ OwnOf(list) = AppMiddlewares
        BY <2>1, <3>1 DEF new, ListOf, OwnOf
      <4> QED BY <2>1, <2>3, <4>1 DEF Listed
    <3>2. CASE list # "app"
      <4>1. u.route = new /\ u.app = a.app /\ OwnOf(list) = RouteMiddlewares
        BY <2>1, <3>2 DEF new, ListOf, OwnOf
      <4> QED BY <2>1, <2>3, <4>1 DEF Listed
    <3> QED BY <3>1, <3>2
  <2>7. ASSUME NEW other PROVE
            /\ ToSet(ListOf(a, other)) \subseteq ToSet(ListOf(u, other))
            /\ \A x, y : StandsBehind(ListOf(a, other), x, y) => StandsBehind(ListOf(u, other), x, y)
    <3>1. CASE (other = "app") = (list = "app")
      <4>1. ListOf(u, other) = new /\ ListOf(a, other) = old
        BY <2>5, <3>1, Zenon DEF ListOf
      <4> QED BY <2>3, <4>1
    <3>2. CASE (other = "app") # (list = "app")
      <4>1. ListOf(u, other) = ListOf(a, other)
        BY <2>5, <3>2, Zenon
      <4> QED BY <4>1
    <3> QED BY <3>1, <3>2
  <2>8. ASSUME NEW j \in 1..k PROVE PlacedOne(calls, u, j)
    <3>1. PlacedOne(calls, a, j)
      BY DEF Placed
    <3> QED BY <2>7, <3>1, Zenon DEF PlacedOne
  <2>9. PlacedOne(calls, u, k + 1)
    <3>1. SUFFICES ASSUME \A i \in Inits(calls) : k + 1 < i
                   PROVE  /\ name \in ToSet(new)
                          /\ WasThere(calls, after, k + 1) => StandsBehind(new, name, after)
      BY <2>4, Zenon DEF PlacedOne, list, name, after
    <3>2. ASSUME WasThere(calls, after, k + 1) PROVE after \in ToSet(old)
      <4>1. CASE after \in ToSet(OwnOf(list))
        <5>1. PICK o \in DOMAIN OwnOf(list) : OwnOf(list)[o] = after
          BY <4>1 DEF ToSet
        <5> HIDE DEF old
        <5>2. PICK i \in DOMAIN old : old[i] = after
          BY <2>2, <5>1 DEF InOrder
        <5> QED BY <5>2 DEF ToSet
      <4>2. CASE \E j \in 1..((k+1)-1) : calls[j][1] = list /\ calls[j][2] = after
        <5>1. PICK j \in 1..k : calls[j][1] = list /\ calls[j][2] = after
          BY <4>2
        <5>2. \A i \in Inits(calls) : j < i
          BY <3>1
        <5>3. PlacedOne(calls, a, j)
          BY DEF Placed
        <5> QED BY <5>1, <5>2, <5>3, Zenon DEF PlacedOne
      <4> QED BY <3>2, <4>1, <4>2, Zenon DEF WasThere, list
    <3> HIDE DEF old, name, after
    <3> QED BY <2>3, <3>2
  <2>10. Placed(calls, u, k + 1)
    BY <1>2, <2>8, <2>9, Zenon DEF Placed
  <2>11. Begun(calls, u, k + 1)
    BY <1>1, <2>1, Zenon DEF Begun
  <2> QED BY <2>6, <2>10, <2>11 DEF u, list, name, after
<1> QED BY <1>3, <1>4 DEF Listed, IsApp

(* However an application adds its middlewares, none of them named like    *)
(* one of nico's own: useAppMiddleware, useRouteMiddleware and init, in    *)
(* any number and order, leave nico's own once each and in their order,    *)
(* each added one behind the one it named, and to koa exactly the list.    *)
THEOREM MiddlewaresStayInPlace ==
  ASSUME NEW Call, NEW calls \in Seq(Call),
         \A k \in DOMAIN calls :
            calls[k][1] # "init" => calls[k][2] \notin ToSet(OwnOf(calls[k][1]))
  PROVE  InPlace(calls, AppAfter(calls))
<1> DEFINE n == Len(calls)
           A == Apps(calls)
           Name == {"helper"} \cup ToSet(AppMiddlewares) \cup ToSet(RouteMiddlewares)
                     \cup {calls[k][2] : k \in DOMAIN calls}
           Good(k) == Listed(Name, A[k]) /\ Placed(calls, A[k], k) /\ Begun(calls, A[k], k)
           S == {k \in 0..n : Good(k)}
<1>1. n \in Nat /\ DOMAIN calls = 1..n /\ A[0] = NewApp
      /\ \A k \in 1..n : A[k] = Called(A[k-1], calls[k])
  BY AppsAre
<1>2. /\ ToSet(AppMiddlewares) \cup ToSet(RouteMiddlewares) \subseteq Name /\ "helper" \in Name
      /\ \A k \in DOMAIN calls : calls[k][2] \in Name
  BY Zenon
<1> HIDE DEF n, A, Name
<1>3. 0 \in S
  <2>1. Good(0)
    BY <1>1, <1>2, NewAppListed
  <2> HIDE DEF Good
  <2> QED BY <1>1, <2>1
<1>4. ASSUME NEW k \in 0..(n-1), k \in S PROVE k + 1 \in S
  <2>1. k \in Nat /\ k + 1 \in 1..n /\ k + 1 \in DOMAIN calls /\ A[k + 1] = Called(A[k], calls[k + 1])
    BY <1>1
  <2>2. Listed(Name, A[k]) /\ Placed(calls, A[k], k) /\ Begun(calls, A[k], k)
    BY <1>4
  <2>3. \A x \in Inits(calls) : x \in Nat
    BY <1>1 DEF Inits
  <2>4. CASE k + 1 \in Inits(calls)
    <3>1. A[k + 1] = InitApp(A[k], calls[k + 1][2])
      BY <2>1, <2>4 DEF Called, Inits
    <3> QED BY <1>1, <1>2, <2>1, <2>2, <2>4, <3>1, InitKeeps
  <2>5. CASE k + 1 \notin Inits(calls)
    <3>1. calls[k + 1][1] # "init"
      BY <2>1, <2>5 DEF Inits
    <3>2. A[k + 1] = UseMiddleware(A[k], calls[k + 1][1], calls[k + 1][2], calls[k + 1][3])
      BY <2>1, <3>1 DEF Called
    <3>3. calls[k + 1][2] \in Name /\ calls[k + 1][2] \notin ToSet(OwnOf(calls[k + 1][1]))
      BY <1>2, <2>1, <3>1
    <3>4. Good(k + 1)
      BY <2>1, <2>2, <2>3, <2>5, <3>2, <3>3, UseKeeps
    <3>5. k + 1 \in 0..n
      BY <1>1, <2>1
    <3> HIDE DEF Good
    <3> QED BY <3>4, <3>5
  <2> QED BY <2>4, <2>5
<1> HIDE DEF S
<1>5. n \in S
  <2>1. \A k \in 0..n : k \in S
    BY <1>1, <1>3, <1>4, Induct
  <2> QED BY <1>1, <2>1
<1>6. Listed(Name, A[n]) /\ Placed(calls, A[n], n) /\ Begun(calls, A[n], n)
  BY <1>5 DEF S
<1> DEFINE a == A[n]
<1>7. a = AppAfter(calls)
  BY DEF AppAfter, A, n
<1> HIDE DEF a
<1> QED BY <1>1, <1>6, <1>7, Zenon DEF InPlace, Listed, Placed, PlacedOne, Begun, Inits, WasThere, OwnOf, ListOf, a

=============================================================================
