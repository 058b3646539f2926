-------------------------- MODULE ApiClientProofs --------------------------
(***************************************************************************)
(* What ApiClient keeps for every number of calls, every option, delay and *)
(* set of responses.  Spec's fairness is not used.                         *)
(***************************************************************************)
EXTENDS ApiClient, TLAPS

-----------------------------------------------------------------------------
(* Facts about the options and the delays.                                 *)

(* A call's effective options are numbers of the expected kind.            *)
LEMMA OptionTypes ==
  ASSUME NEW r \in Requests
  PROVE  MaxRetries(r) \in Int /\ Timeout(r) \in Nat
BY RetryAssumption, TimeoutAssumption DEF MaxRetries, Timeout

(* A retry sleeps a natural number of units, fewer than MaxHeaderDelay.    *)
LEMMA DelayBound ==
  ASSUME NEW asked \in Int \cup {NoHint}, NEW n, NEW d \in RetryDelays(asked, n)
  PROVE  d \in Nat /\ d < MaxHeaderDelay
<1>1. CASE IsObeyed(asked)
  BY <1>1, DelayAssumption DEF RetryDelays, IsObeyed, Usable
<1>2. CASE ~IsObeyed(asked)
  <2>1. d \in 0..MaxRetryDelay
    BY <1>2 DEF RetryDelays, BackoffDelays
  <2> QED BY <2>1, DelayAssumption
<1> QED BY <1>1, <1>2

(* A response's headers ask for a number or for nothing.                   *)
LEMMA AskedType ==
  ASSUME NEW resp \in Responses
  PROVE  AskedDelay(resp.retryAfterMs, resp.retryAfter) \in Int \cup {NoHint}
BY ResponseAssumption DEF ResponseSpace, AskedDelay

(* The three kinds of outcome exclude each other.                          *)
LEMMA OutcomeKinds ==
  /\ NetworkError \notin Responses /\ AbortError \notin Responses
  /\ NoOutcome \notin Responses
  /\ NetworkError # AbortError /\ NoOutcome # NetworkError /\ NoOutcome # AbortError
<1>1. /\ NetworkError.kind = "network" /\ AbortError.kind = "abort"
      /\ NoOutcome.kind = "none"
  BY DEF NetworkError, AbortError, NoOutcome
<1>2. \A resp \in Responses : resp.kind = "response"
  BY ResponseAssumption DEF ResponseSpace
<1> QED BY <1>1, <1>2

-----------------------------------------------------------------------------
(* Type correctness.                                                       *)

LEMMA TypeInit == Init => TypeOK
BY TokenAssumption, TimeoutAssumption DEF Init, TypeOK, Phases, Results, Outcomes

LEMMA TypeNext == TypeOK /\ [Next]_vars => TypeOK'
<1> SUFFICES ASSUME TypeOK, [Next]_vars PROVE TypeOK'
  OBVIOUS
<1> USE DEF Phases, Microtasks, Results, Settle
<1>1. ASSUME NEW r \in Requests, Client(r) PROVE TypeOK'
  <2>1. CASE Build(r)
    <3>1. /\ TokenForUse \in 0..TokenTTL
          /\ RaisedAgentTimeout(Timeout(r)) \in Nat
      BY TokenAssumption, TimeoutAssumption, OptionTypes
      DEF TokenForUse, RaisedAgentTimeout, TypeOK
    <3> QED BY <2>1, <3>1 DEF Build, TypeOK
  <2>2. CASE Send(r)
    <3>1. CASE SeesAbort(r)
      BY <2>2, <3>1, TokenAssumption DEF Send, SeesAbort, TypeOK
    <3>2. CASE ~SeesAbort(r)
      <4>1. Timeout(r) \in Nat
        BY OptionTypes
      <4>2. attempts' \in [Requests -> Nat] /\ timerLeft' \in [Requests -> Nat]
        BY <2>2, <3>2, <4>1 DEF Send, SeesAbort, TypeOK
      <4>3. pc' \in [Requests -> Phases] /\ result' = result /\ ctrl' \in [Requests -> BOOLEAN]
        BY <2>2, <3>2 DEF Send, SeesAbort, TypeOK
      <4>4. auth' \in [Requests -> 0..TokenTTL]
        BY <2>2, TokenAssumption DEF Send, TypeOK
      <4>5. UNCHANGED <<retriesLeft, aborted, sleepLeft, outcome, tokenLeft, agentTimeout>>
        BY <2>2 DEF Send
      <4> QED BY <4>2, <4>3, <4>4, <4>5 DEF TypeOK
    <3> QED BY <3>1, <3>2
  <2>3. CASE TimerFires(r)
    BY <2>3 DEF TimerFires, TypeOK
  <2>4. CASE FetchIsAborted(r)
    BY <2>4 DEF FetchIsAborted, FetchSettles, TypeOK, Outcomes
  <2>5. CASE HandleError(r)
    <3>1. \A d \in RetryDelays(NoHint, MaxRetries(r) - retriesLeft[r]) : d \in Nat
      BY DelayBound
    <3>2. ErrorKind(r) \in Results
      BY DEF ErrorKind
    <3> QED BY <2>5, <3>1, <3>2 DEF HandleError, RetryAfter, TypeOK, Outcomes
  <2>6. CASE HandleResponse(r)
    <3> DEFINE asked == AskedDelay(outcome[r].retryAfterMs, outcome[r].retryAfter)
    <3>1. asked \in Int \cup {NoHint}
      BY <2>6, AskedType DEF HandleResponse
    <3>2. \A d \in RetryDelays(asked, MaxRetries(r) - retriesLeft[r]) : d \in Nat
      BY <3>1, DelayBound
    <3> QED BY <2>6, <3>2 DEF HandleResponse, RetryAfter, TypeOK, Outcomes
  <2>7. CASE AbortEndsErrorBody(r)
    BY <2>7 DEF AbortEndsErrorBody, ErrorBodyEnds, TypeOK
  <2>8. CASE Wake(r)
    BY <2>8 DEF Wake, TypeOK
  <2> QED BY <1>1, <2>1, <2>2, <2>3, <2>4, <2>5, <2>6, <2>7, <2>8 DEF Client
<1>2. ASSUME NEW r \in Requests, Environment(r) PROVE TypeOK'
  <2>1. CASE Call(r)
    BY <2>1, OptionTypes DEF Call, TypeOK
  <2>2. CASE UserAborts(r)
    BY <2>2 DEF UserAborts, TypeOK
  <2>3. CASE ServerAnswers(r)
    BY <2>3 DEF ServerAnswers, FetchSettles, TypeOK, Outcomes
  <2>4. CASE ConnectionFails(r)
    BY <2>4 DEF ConnectionFails, FetchSettles, TypeOK, Outcomes
  <2>5. CASE ServerEndsErrorBody(r)
    BY <2>5 DEF ServerEndsErrorBody, ErrorBodyEnds, TypeOK
  <2> QED BY <1>2, <2>1, <2>2, <2>3, <2>4, <2>5 DEF Environment
<1>3. CASE Tick
  <2>1. \A n \in Nat : Less(n) \in Nat /\ Less(n) <= n
    BY DEF Less
  <2> QED BY <1>3, <2>1, TokenAssumption DEF Tick, CountDown, TypeOK
<1>4. CASE UNCHANGED vars
  BY <1>4 DEF vars, TypeOK
<1> QED BY <1>1, <1>2, <1>3, <1>4 DEF Next

(* Every variable keeps its type in every reachable state.                 *)
THEOREM TypeCorrect == Spec => []TypeOK
BY TypeInit, TypeNext, PTL DEF Spec
-----------------------------------------------------------------------------
(***************************************************************************)
(* The attempt budget.  AttemptsBounded alone is not inductive: what is    *)
(* preserved is that attempts and retriesLeft add up to the option, one    *)
(* more while an attempt is out or being slept off, and that a sleeping    *)
(* call still has a retry to spend.                                        *)
(***************************************************************************)
BudgetOf(r) ==
  /\ pc[r] = "idle" => attempts[r] = 0
  /\ pc[r] \in {"prepared", "built"} =>
       attempts[r] + retriesLeft[r] = MaxRetries(r) /\ retriesLeft[r] >= 0
  /\ pc[r] \in {"fetching", "settled", "sleeping"} =>
       attempts[r] + retriesLeft[r] = MaxRetries(r) + 1 /\ retriesLeft[r] >= 0
  /\ pc[r] = "sleeping" => retriesLeft[r] > 0
  /\ attempts[r] <= MaxRetries(r) + 1

Budget == \A r \in Requests : MaxRetries(r) >= 0 => BudgetOf(r)

LEMMA BudgetInit == Init => Budget
<1> SUFFICES ASSUME Init, NEW r \in Requests, MaxRetries(r) >= 0 PROVE BudgetOf(r)
  BY DEF Budget
<1> QED BY OptionTypes DEF Init, BudgetOf

(* A step of one call leaves the budget of the others alone.               *)
LEMMA BudgetFrame ==
  ASSUME NEW q \in Requests, BudgetOf(q),
         pc'[q] = pc[q], attempts'[q] = attempts[q], retriesLeft'[q] = retriesLeft[q]
  PROVE  BudgetOf(q)'
BY DEF BudgetOf, MaxRetries

LEMMA BudgetNext == TypeOK /\ Budget /\ [Next]_vars => Budget'
<1> SUFFICES ASSUME TypeOK, Budget, [Next]_vars, NEW q \in Requests,
                    MaxRetries(q) >= 0
             PROVE  BudgetOf(q)'
  BY DEF Budget, MaxRetries
<1>q. BudgetOf(q) /\ MaxRetries(q) \in Int
  BY OptionTypes DEF Budget
<1>m. MaxRetries(q)' = MaxRetries(q)
  BY DEF MaxRetries
<1>1. ASSUME NEW r \in Requests, Client(r) \/ Environment(r), r # q PROVE BudgetOf(q)'
  <2>1. /\ pc'[q] = pc[q]
        /\ attempts'[q] = attempts[q]
        /\ retriesLeft'[q] = retriesLeft[q]
    BY <1>1 DEF TypeOK, Client, Environment, Build, Send, TimerFires, FetchIsAborted,
                FetchSettles, HandleError, HandleResponse, RetryAfter, Settle,
                AbortEndsErrorBody, ServerEndsErrorBody, ErrorBodyEnds, Wake, Call,
                UserAborts, ServerAnswers, ConnectionFails, SeesAbort
  <2> QED BY <2>1, <1>q, BudgetFrame
<1>2. CASE Client(q)
  <2>1. CASE Build(q)
    BY <2>1, <1>q, <1>m DEF Build, Settle, BudgetOf, TypeOK
  <2>2. CASE Send(q)
    BY <2>2, <1>q, <1>m DEF Send, SeesAbort, Settle, BudgetOf, TypeOK
  <2>3. CASE TimerFires(q)
    BY <2>3, <1>q, BudgetFrame DEF TimerFires
  <2>4. CASE FetchIsAborted(q)
    BY <2>4, <1>q, <1>m DEF FetchIsAborted, FetchSettles, BudgetOf, TypeOK
  <2>5. CASE HandleError(q)
    BY <2>5, <1>q, <1>m
    DEF HandleError, HasRetry, SeesAbort, RetryAfter, Settle, BudgetOf, TypeOK
  <2>6. CASE HandleResponse(q)
    BY <2>6, <1>q, <1>m DEF HandleResponse, MayRetry, RetryAfter, Settle, BudgetOf, TypeOK
  <2>7. CASE AbortEndsErrorBody(q)
    BY <2>7, <1>q, <1>m DEF AbortEndsErrorBody, ErrorBodyEnds, Settle, BudgetOf, TypeOK
  <2>8. CASE Wake(q)
    BY <2>8, <1>q, <1>m DEF Wake, BudgetOf, TypeOK
  <2> QED BY <1>2, <2>1, <2>2, <2>3, <2>4, <2>5, <2>6, <2>7, <2>8 DEF Client
<1>3. CASE Environment(q)
  <2>1. CASE Call(q)
    BY <2>1, <1>q, <1>m DEF Call, BudgetOf, TypeOK
  <2>2. CASE UserAborts(q)
    BY <2>2, <1>q, BudgetFrame DEF UserAborts
  <2>3. CASE ServerAnswers(q)
    BY <2>3, <1>q, <1>m DEF ServerAnswers, FetchSettles, BudgetOf, TypeOK
  <2>4. CASE ConnectionFails(q)
    BY <2>4, <1>q, <1>m DEF ConnectionFails, FetchSettles, BudgetOf, TypeOK
  <2>5. CASE ServerEndsErrorBody(q)
    BY <2>5, <1>q, <1>m DEF ServerEndsErrorBody, ErrorBodyEnds, Settle, BudgetOf, TypeOK
  <2> QED BY <1>3, <2>1, <2>2, <2>3, <2>4, <2>5 DEF Environment
<1>4. CASE Tick \/ UNCHANGED vars
  BY <1>4, <1>q, BudgetFrame DEF Tick, vars
<1> QED BY <1>1, <1>2, <1>3, <1>4 DEF Next

(* No mix of failures, statuses and headers makes a call send more than    *)
(* its first attempt and maxRetries retries.                               *)
THEOREM AttemptsAreBounded == Spec => []AttemptsBounded
<1>1. Init => TypeOK /\ Budget
  BY TypeInit, BudgetInit
<1>2. TypeOK /\ Budget /\ [Next]_vars => (TypeOK /\ Budget)'
  BY TypeNext, BudgetNext
<1>3. Budget => AttemptsBounded
  BY DEF Budget, BudgetOf, AttemptsBounded
<1> QED BY <1>1, <1>2, <1>3, PTL DEF Spec

-----------------------------------------------------------------------------
(***************************************************************************)
(* Causes.  While an attempt is out its controller is aborted exactly by   *)
(* the caller or by a timer that ran out; a call has no result before it   *)
(* ends.                                                                   *)
(***************************************************************************)
CauseOf(r) ==
  /\ pc[r] \notin {"resolved", "rejected"} => result[r] = "none"
  /\ pc[r] \in {"fetching", "settled"} /\ ctrl[r] /\ ~aborted[r] => timerLeft[r] = 0
  /\ pc[r] = "settled" /\ outcome[r] = AbortError => ctrl[r]
  /\ pc[r] \in {"fetching", "settled"} => attempts[r] > 0

Causes == \A r \in Requests : CauseOf(r)

LEMMA CausesInit == Init => Causes
BY OutcomeKinds DEF Init, Causes, CauseOf

LEMMA CausesNext == TypeOK /\ Causes /\ [Next]_vars => Causes'
<1> SUFFICES ASSUME TypeOK, Causes, [Next]_vars, NEW q \in Requests PROVE CauseOf(q)'
  BY DEF Causes
<1>q. CauseOf(q)
  BY DEF Causes
<1>1. ASSUME NEW r \in Requests, Client(r) \/ Environment(r), r # q PROVE CauseOf(q)'
  <2>1. /\ pc'[q] = pc[q] /\ result'[q] = result[q] /\ ctrl'[q] = ctrl[q]
        /\ aborted'[q] = aborted[q] /\ timerLeft'[q] = timerLeft[q]
        /\ outcome'[q] = outcome[q] /\ attempts'[q] = attempts[q]
    BY <1>1 DEF TypeOK, Client, Environment, Build, Send, TimerFires, FetchIsAborted,
                FetchSettles, HandleError, HandleResponse, RetryAfter, Settle,
                AbortEndsErrorBody, ServerEndsErrorBody, ErrorBodyEnds, Wake, Call,
                UserAborts, ServerAnswers, ConnectionFails, SeesAbort
  <2> QED BY <2>1, <1>q DEF CauseOf
<1>2. CASE Client(q)
  <2>1. CASE Build(q)
    BY <2>1, <1>q DEF Build, Settle, CauseOf, TypeOK
  <2>2. CASE Send(q)
    BY <2>2, <1>q DEF Send, SeesAbort, Settle, CauseOf, TypeOK
  <2>3. CASE TimerFires(q)
    BY <2>3, <1>q DEF TimerFires, CauseOf, TypeOK
  <2>4. CASE FetchIsAborted(q)
    BY <2>4, <1>q DEF FetchIsAborted, FetchSettles, CauseOf, TypeOK
  <2>5. CASE HandleError(q)
    BY <2>5, <1>q DEF HandleError, HasRetry, SeesAbort, RetryAfter, Settle, CauseOf, TypeOK
  <2>6. CASE HandleResponse(q)
    BY <2>6, <1>q DEF HandleResponse, RetryAfter, Settle, CauseOf, TypeOK
  <2>7. CASE AbortEndsErrorBody(q)
    BY <2>7, <1>q DEF AbortEndsErrorBody, ErrorBodyEnds, Settle, CauseOf, TypeOK
  <2>8. CASE Wake(q)
    BY <2>8, <1>q DEF Wake, CauseOf, TypeOK
  <2> QED BY <1>2, <2>1, <2>2, <2>3, <2>4, <2>5, <2>6, <2>7, <2>8 DEF Client
<1>3. CASE Environment(q)
  <2>1. CASE Call(q)
    BY <2>1, <1>q DEF Call, CauseOf, TypeOK
  <2>2. CASE UserAborts(q)
    BY <2>2, <1>q DEF UserAborts, CauseOf, TypeOK
  <2>3. CASE ServerAnswers(q)
    <3>1. outcome'[q] # AbortError
      BY <2>3, OutcomeKinds DEF ServerAnswers, FetchSettles, TypeOK
    <3> QED BY <2>3, <3>1, <1>q DEF ServerAnswers, FetchSettles, CauseOf, TypeOK
  <2>4. CASE ConnectionFails(q)
    <3>1. outcome'[q] # AbortError
      BY <2>4, OutcomeKinds DEF ConnectionFails, FetchSettles, TypeOK
    <3> QED BY <2>4, <3>1, <1>q DEF ConnectionFails, FetchSettles, CauseOf, TypeOK
  <2>5. CASE ServerEndsErrorBody(q)
    BY <2>5, <1>q DEF ServerEndsErrorBody, ErrorBodyEnds, Settle, CauseOf, TypeOK
  <2> QED BY <1>3, <2>1, <2>2, <2>3, <2>4, <2>5 DEF Environment
<1>4. CASE Tick
  BY <1>4, <1>q DEF Tick, CountDown, Less, CauseOf, TypeOK
<1>5. CASE UNCHANGED vars
  BY <1>5, <1>q DEF vars, CauseOf
<1> QED BY <1>1, <1>2, <1>3, <1>4, <1>5 DEF Next

(* What a failed call tells its caller is what happened: the formula is     *)
(* checked where results are written, HandleError, from Causes and Budget.  *)
Explained ==
  \A r \in Requests :
    /\ result[r] \in {"userAbort", "timeout", "connection"} => pc[r] = "rejected"
    /\ result[r] = "userAbort" => aborted[r]
    /\ result[r] = "timeout" => timerLeft[r] = 0
    /\ result[r] \in {"timeout", "connection"} =>
         /\ ~aborted[r]
         /\ MaxRetries(r) >= 0 => attempts[r] = MaxRetries(r) + 1

LEMMA ExplainedNext ==
  TypeOK /\ Budget /\ Causes /\ Explained /\ [Next]_vars => Explained'
<1> SUFFICES ASSUME TypeOK, Budget, Causes, Explained, [Next]_vars, NEW q \in Requests
             PROVE  /\ result'[q] \in {"userAbort", "timeout", "connection"} =>
                         pc'[q] = "rejected"
                    /\ result'[q] = "userAbort" => aborted'[q]
                    /\ result'[q] = "timeout" => timerLeft'[q] = 0
                    /\ result'[q] \in {"timeout", "connection"} =>
                         /\ ~aborted'[q]
                         /\ MaxRetries(q) >= 0 => attempts'[q] = MaxRetries(q) + 1
  BY DEF Explained, MaxRetries
<1>q. CauseOf(q) /\ (MaxRetries(q) >= 0 => BudgetOf(q)) /\ MaxRetries(q) \in Int
  BY OptionTypes DEF Causes, Budget
<1>1. ASSUME NEW r \in Requests, Client(r) \/ Environment(r), r # q
      PROVE  /\ pc'[q] = pc[q] /\ result'[q] = result[q] /\ aborted'[q] = aborted[q]
             /\ timerLeft'[q] = timerLeft[q] /\ attempts'[q] = attempts[q]
  BY <1>1 DEF TypeOK, Client, Environment, Build, Send, TimerFires, FetchIsAborted,
              FetchSettles, HandleError, HandleResponse, RetryAfter, Settle,
              AbortEndsErrorBody, ServerEndsErrorBody, ErrorBodyEnds, Wake, Call,
              UserAborts, ServerAnswers, ConnectionFails, SeesAbort
<1>2. CASE HandleError(q)
  <2>1. CASE SeesAbort(q)
    BY <2>1, <1>2, <1>q DEF HandleError, SeesAbort, Settle, TypeOK
  <2>2. CASE ~SeesAbort(q) /\ HasRetry(q)
    BY <2>2, <1>2, <1>q DEF HandleError, SeesAbort, RetryAfter, CauseOf, TypeOK
  <2>3. CASE ~SeesAbort(q) /\ ~HasRetry(q)
    <3>1. /\ pc' = [pc EXCEPT ![q] = "rejected"]
          /\ result'[q] = ErrorKind(q)
          /\ UNCHANGED <<timerLeft, aborted, attempts>>
      BY <2>3, <1>2 DEF HandleError, SeesAbort, Settle, TypeOK
    <3>2. ~aborted[q] /\ pc[q] = "settled"
      BY <2>3, <1>2 DEF HandleError, SeesAbort
    <3>3. ErrorKind(q) = "timeout" => timerLeft[q] = 0
      BY <3>2, <1>q DEF ErrorKind, CauseOf
    <3>4. MaxRetries(q) >= 0 => attempts[q] = MaxRetries(q) + 1
      BY <3>2, <2>3, <1>q DEF HasRetry, BudgetOf, TypeOK
    <3>5. ErrorKind(q) \in {"timeout", "connection"}
      BY DEF ErrorKind
    <3> QED BY <3>1, <3>2, <3>3, <3>4, <3>5 DEF TypeOK
  <2> QED BY <2>1, <2>2, <2>3
<1>3. CASE Client(q) /\ ~HandleError(q)
  <2>1. CASE Build(q)
    BY <2>1, <1>q DEF Build, Settle, CauseOf, Explained, TypeOK
  <2>2. CASE Send(q)
    BY <2>2, <1>q DEF Send, SeesAbort, Settle, CauseOf, Explained, TypeOK
  <2>3. CASE TimerFires(q)
    BY <2>3 DEF TimerFires, Explained, TypeOK
  <2>4. CASE FetchIsAborted(q)
    BY <2>4, <1>q DEF FetchIsAborted, FetchSettles, CauseOf, Explained, TypeOK
  <2>5. CASE HandleResponse(q)
    BY <2>5, <1>q DEF HandleResponse, RetryAfter, Settle, CauseOf, Explained, TypeOK
  <2>6. CASE AbortEndsErrorBody(q)
    BY <2>6, <1>q DEF AbortEndsErrorBody, ErrorBodyEnds, Settle, CauseOf, TypeOK
  <2>7. CASE Wake(q)
    BY <2>7, <1>q DEF Wake, CauseOf, Explained, TypeOK
  <2> QED BY <1>3, <2>1, <2>2, <2>3, <2>4, <2>5, <2>6, <2>7 DEF Client
<1>4. CASE Environment(q)
  <2>1. CASE Call(q)
    BY <2>1, <1>q DEF Call, CauseOf, Explained, TypeOK
  <2>2. CASE UserAborts(q)
    BY <2>2, <1>q DEF UserAborts, CauseOf, Explained, TypeOK
  <2>3. CASE ServerAnswers(q) \/ ConnectionFails(q)
    BY <2>3, <1>q DEF ServerAnswers, ConnectionFails, FetchSettles, CauseOf, Explained, TypeOK
  <2>4. CASE ServerEndsErrorBody(q)
    BY <2>4, <1>q DEF ServerEndsErrorBody, ErrorBodyEnds, Settle, CauseOf, TypeOK
  <2> QED BY <1>4, <2>1, <2>2, <2>3, <2>4 DEF Environment
<1>5. CASE Tick
  BY <1>5, <1>q DEF Tick, CountDown, Less, CauseOf, Explained, TypeOK
<1>6. CASE UNCHANGED vars
  BY <1>6 DEF vars, Explained
<1>7. ASSUME NEW r \in Requests, Client(r) \/ Environment(r), r # q
      PROVE  /\ result'[q] \in {"userAbort", "timeout", "connection"} => pc'[q] = "rejected"
             /\ result'[q] = "userAbort" => aborted'[q]
             /\ result'[q] = "timeout" => timerLeft'[q] = 0
             /\ result'[q] \in {"timeout", "connection"} =>
                  /\ ~aborted'[q]
                  /\ MaxRetries(q) >= 0 => attempts'[q] = MaxRetries(q) + 1
  BY <1>7, <1>1 DEF Explained
<1> QED BY <1>2, <1>3, <1>4, <1>5, <1>6, <1>7 DEF Next

(* A caller who aborted is told so and nobody else is; a timeout is reported *)
(* only when a timer ran out; and neither a timeout nor a broken connection  *)
(* is reported while a retry is left.                                        *)
THEOREM ErrorsNameTheirCause == Spec => []ErrorNamesCause
<1>1. Init => TypeOK /\ Budget /\ Causes /\ Explained
  BY TypeInit, BudgetInit, CausesInit DEF Init, Explained
<1>2. TypeOK /\ Budget /\ Causes /\ Explained /\ [Next]_vars
        => (TypeOK /\ Budget /\ Causes /\ Explained)'
  BY TypeNext, BudgetNext, CausesNext, ExplainedNext
<1>3. Explained => ErrorNamesCause
  BY DEF Explained, ErrorNamesCause
<1> QED BY <1>1, <1>2, <1>3, PTL DEF Spec

-----------------------------------------------------------------------------
(***************************************************************************)
(* What a built or sent attempt may rely on: the agent allows more than    *)
(* its timer, the token in its header has more than the margin left (no    *)
(* time passes between building and sending), and a sleep is short.        *)
(***************************************************************************)
ReliesOn(r) ==
  /\ pc[r] \in {"built", "fetching"} => agentTimeout > Timeout(r)
  /\ pc[r] = "built" => auth[r] > TokenRefreshTTL
  /\ pc[r] = "sleeping" => sleepLeft[r] < MaxHeaderDelay

Relied == \A r \in Requests : ReliesOn(r)

(* The agent's timeout is only ever raised, whoever builds a request.      *)
LEMMA AgentOnlyRaised ==
  TypeOK /\ [Next]_vars => agentTimeout' \in Nat /\ agentTimeout' >= agentTimeout
<1> SUFFICES ASSUME TypeOK, [Next]_vars
             PROVE  agentTimeout' \in Nat /\ agentTimeout' >= agentTimeout
  OBVIOUS
<1>1. ASSUME NEW r \in Requests, Build(r)
      PROVE  agentTimeout' \in Nat /\ agentTimeout' >= agentTimeout
  BY <1>1, OptionTypes, TimeoutAssumption DEF Build, RaisedAgentTimeout, TypeOK
<1>2. ASSUME NEW r \in Requests, Client(r) \/ Environment(r), ~Build(r)
      PROVE  agentTimeout' = agentTimeout
  BY <1>2 DEF Client, Environment, Send, TimerFires, FetchIsAborted,
              FetchSettles, HandleError, HandleResponse,
              AbortEndsErrorBody, ServerEndsErrorBody, ErrorBodyEnds, Wake, Call,
              UserAborts, ServerAnswers, ConnectionFails
<1>3. CASE Tick \/ UNCHANGED vars
  BY <1>3 DEF Tick, vars, TypeOK
<1> QED BY <1>1, <1>2, <1>3 DEF Next, TypeOK

LEMMA ReliedNext == TypeOK /\ Relied /\ [Next]_vars => Relied'
<1> SUFFICES ASSUME TypeOK, Relied, [Next]_vars, NEW q \in Requests PROVE ReliesOn(q)'
  BY DEF Relied
<1>q. /\ ReliesOn(q) /\ Timeout(q) \in Nat /\ Timeout(q)' = Timeout(q)
      /\ agentTimeout' \in Nat /\ agentTimeout' >= agentTimeout
  BY OptionTypes, AgentOnlyRaised DEF Relied, Timeout
<1>s. ASSUME NEW asked \in Int \cup {NoHint}, RetryAfter(q, asked)
      PROVE  ReliesOn(q)'
  <2>1. PICK d \in RetryDelays(asked, MaxRetries(q) - retriesLeft[q]) :
             sleepLeft' = [sleepLeft EXCEPT ![q] = d]
    BY <1>s DEF RetryAfter
  <2> QED BY <1>s, <2>1, DelayBound DEF RetryAfter, ReliesOn, TypeOK
<1>1. ASSUME NEW r \in Requests, Client(r) \/ Environment(r), r # q PROVE ReliesOn(q)'
  <2>1. pc'[q] = pc[q] /\ sleepLeft'[q] = sleepLeft[q] /\ auth'[q] = auth[q]
    BY <1>1 DEF TypeOK, Client, Environment, Build, Send, TimerFires, FetchIsAborted,
                FetchSettles, HandleError, HandleResponse, RetryAfter, Settle,
                AbortEndsErrorBody, ServerEndsErrorBody, ErrorBodyEnds, Wake, Call,
                UserAborts, ServerAnswers, ConnectionFails, SeesAbort
  <2> QED BY <2>1, <1>q DEF ReliesOn, TypeOK
<1>2. CASE Build(q)
  <2>1. CASE TimeoutOption[q] = Invalid
    BY <1>2, <2>1 DEF Build, Settle, ReliesOn, TypeOK
  <2>2. CASE TimeoutOption[q] # Invalid
    <3>1. pc' = [pc EXCEPT ![q] = "built"] /\ auth' = [auth EXCEPT ![q] = TokenForUse]
      BY <1>2, <2>2 DEF Build
    <3>2. TokenForUse > TokenRefreshTTL
      BY TokenAssumption DEF TokenForUse, TypeOK
    <3>3. agentTimeout' > Timeout(q)
      BY <1>2, <2>2, <1>q, TimeoutAssumption DEF Build, RaisedAgentTimeout, TypeOK
    <3> QED BY <3>1, <3>2, <3>3, <1>q DEF ReliesOn, TypeOK
  <2> QED BY <2>1, <2>2
<1>3. CASE Send(q)
  BY <1>3, <1>q DEF Send, SeesAbort, Settle, ReliesOn, TypeOK
<1>4. CASE HandleError(q)
  <2>1. CASE RetryAfter(q, NoHint)
    BY <2>1, <1>s
  <2>2. CASE ~RetryAfter(q, NoHint)
    BY <1>4, <2>2 DEF HandleError, SeesAbort, Settle, ReliesOn, TypeOK
  <2> QED BY <2>1, <2>2
<1>5. CASE HandleResponse(q)
  <2> DEFINE asked == AskedDelay(outcome[q].retryAfterMs, outcome[q].retryAfter)
  <2>1. CASE RetryAfter(q, asked)
    BY <2>1, <1>s, <1>5, AskedType DEF HandleResponse
  <2>2. CASE ~RetryAfter(q, asked)
    BY <1>5, <2>2 DEF HandleResponse, Settle, ReliesOn, TypeOK
  <2> QED BY <2>1, <2>2
<1>6. CASE TimerFires(q) \/ FetchIsAborted(q) \/ AbortEndsErrorBody(q) \/ Wake(q)
           \/ Environment(q)
  BY <1>6, <1>q DEF TimerFires, FetchIsAborted, AbortEndsErrorBody, Wake, Environment,
     FetchSettles, ServerEndsErrorBody, ErrorBodyEnds, Call, UserAborts, ServerAnswers,
     ConnectionFails, Settle, ReliesOn, TypeOK
<1>7. CASE Tick
  <2>1. pc[q] # "built" /\ pc' = pc
    BY <1>7 DEF Tick, Microtasks
  <2>2. sleepLeft'[q] <= sleepLeft[q] /\ sleepLeft'[q] \in Nat
    BY <1>7 DEF Tick, CountDown, Less, TypeOK
  <2> QED BY <2>1, <2>2, <1>q, DelayAssumption DEF ReliesOn, TypeOK
<1>8. CASE UNCHANGED vars
  BY <1>8, <1>q DEF vars, ReliesOn
<1> QED BY <1>1, <1>2, <1>3, <1>4, <1>5, <1>6, <1>7, <1>8 DEF Next, Client

LEMMA ReliedAlways == Spec => [](TypeOK /\ Relied)
<1>1. Init => TypeOK /\ Relied
  BY TypeInit DEF Init, Relied, ReliesOn
<1>2. TypeOK /\ Relied /\ [Next]_vars => (TypeOK /\ Relied)'
  BY TypeNext, ReliedNext
<1> QED BY <1>1, <1>2, PTL DEF Spec

(* However calls share the agent, its socket timeout outlasts each timer.  *)
THEOREM AgentAlwaysOutlastsTimers == Spec => []AgentOutlastsTimers
<1>1. TypeOK /\ Relied => AgentOutlastsTimers
  BY DEF Relied, ReliesOn, AgentOutlastsTimers
<1> QED BY <1>1, ReliedAlways, PTL

(* No response header makes a call sleep as long as MaxHeaderDelay.        *)
THEOREM WaitIsBounded == Spec => []WaitBounded
<1>1. TypeOK /\ Relied => WaitBounded
  BY DEF Relied, ReliesOn, WaitBounded
<1> QED BY <1>1, ReliedAlways, PTL

-----------------------------------------------------------------------------
(* Only Send adds to attempts, and only while the signal is not aborted.   *)
LEMMA OnlySendFetches ==
  ASSUME TypeOK, [Next]_vars, NEW q \in Requests, attempts'[q] # attempts[q]
  PROVE  pc[q] = "built" /\ ~aborted[q]
<1>1. ASSUME NEW r \in Requests, Client(r) \/ Environment(r)
      PROVE  pc[q] = "built" /\ ~aborted[q]
  BY <1>1 DEF TypeOK, Client, Environment, Build, Send, TimerFires, FetchIsAborted,
              FetchSettles, HandleError, HandleResponse, RetryAfter, Settle,
              AbortEndsErrorBody, ServerEndsErrorBody, ErrorBodyEnds, Wake, Call,
              UserAborts, ServerAnswers, ConnectionFails, SeesAbort
<1>2. CASE Tick \/ UNCHANGED vars
  BY <1>2 DEF Tick, vars
<1> QED BY <1>1, <1>2 DEF Next

(* Once a call's signal is aborted it sends nothing more.                  *)
THEOREM NothingSentAfterAbort == Spec => NoFetchAfterAbort
<1>1. TypeOK /\ [Next]_vars
        => [\A r \in Requests : aborted[r] => attempts'[r] = attempts[r]]_vars
  BY OnlySendFetches
<1> QED BY <1>1, TypeCorrect, PTL DEF Spec, NoFetchAfterAbort

(* Every attempt is sent with a token that has more than the margin left.  *)
THEOREM SentTokensAreFresh == Spec => SentTokenIsFresh
<1>1. TypeOK /\ Relied /\ [Next]_vars
        => [\A r \in Requests : attempts'[r] # attempts[r] => auth[r] > TokenRefreshTTL]_vars
  BY OnlySendFetches DEF Relied, ReliesOn
<1> QED BY <1>1, ReliedAlways, PTL DEF Spec, SentTokenIsFresh
===========================================================================
