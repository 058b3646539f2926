----------------------------- MODULE ApiClient -----------------------------
(***************************************************************************)
(* The request engine of the zhipuai package: APIClient.makeRequest and    *)
(* everything it calls (buildRequest, fetchWithTimeout, retryRequest,      *)
(* shouldRetry, the token cache of ZhipuAIAuthManger), for several calls   *)
(* on one client that share the auth manager and the HTTP agent.           *)
(*                                                                         *)
(* Time is kept as countdowns (what is left of a token, a timer, a sleep)  *)
(* moved by Tick, so the state space needs no bound on the clock.  Between *)
(* two awaits that resolve as microtasks no time passes: Tick waits until  *)
(* no request is in such a phase.                                          *)
(***************************************************************************)
EXTENDS Integers, FiniteSets

CONSTANTS
  Requests,            \* the calls made on the client
  Default,             \* an option the caller left out
  Invalid,             \* a timeout option that is not a non-negative integer
  ClientMaxRetries,    \* this.maxRetries
  MaxRetriesOption,    \* options.maxRetries of each call
  ClientTimeout,       \* this.timeout
  TimeoutOption,       \* options.timeout of each call
  AgentTimeout,        \* the shared HTTP agent's initial options.timeout
  AgentSlack,          \* what the agent must allow beyond the call's timeout
  TokenTTL, TokenRefreshTTL,
  InitialRetryDelay, MaxRetryDelay,
  MaxHeaderDelay,      \* a Retry-After this long or longer is ignored
  NoHint,              \* a Retry-After header that is absent or not a number
  Responses            \* responses the server may give

VARIABLES
  pc,          \* where makeRequest is for each call
  retriesLeft, \* the retriesRemaining argument
  attempts,    \* fetches sent (history)
  aborted,     \* options.signal.aborted
  ctrl,        \* the current attempt's controller.signal.aborted
  timerLeft,   \* what is left of the current attempt's timeout
  sleepLeft,   \* what is left of the sleep before a retry
  outcome,     \* how the current fetch settled
  result,      \* how the call settled
  auth,        \* life left of the token in a request built but not yet sent
  tokenLeft,   \* the cached token's exp - now, 0 when none is usable
  agentTimeout \* httpAgent.options.timeout

vars == <<pc, retriesLeft, attempts, aborted, ctrl, timerLeft, sleepLeft,
          outcome, result, auth, tokenLeft, agentTimeout>>

ASSUME RetryAssumption ==
  /\ ClientMaxRetries \in Nat
  /\ Default \notin Int
  /\ MaxRetriesOption \in [Requests -> Int \cup {Default}]

ASSUME TimeoutAssumption ==
  /\ ClientTimeout \in Nat
  /\ Invalid \notin Int /\ Invalid # Default
  /\ TimeoutOption \in [Requests -> Nat \cup {Default, Invalid}]
  /\ AgentTimeout \in Nat /\ AgentSlack \in Nat \ {0}

ASSUME TokenAssumption ==
  /\ TokenTTL \in Nat /\ TokenRefreshTTL \in Nat
  /\ TokenRefreshTTL < TokenTTL

ASSUME DelayAssumption ==
  /\ InitialRetryDelay \in Nat /\ MaxRetryDelay \in Nat
  /\ MaxHeaderDelay \in Nat /\ MaxRetryDelay < MaxHeaderDelay
  /\ NoHint \notin Int

(***************************************************************************)
(* What the options come to.                                               *)
(***************************************************************************)
MaxRetries(r) == IF MaxRetriesOption[r] = Default THEN ClientMaxRetries
                                                   ELSE MaxRetriesOption[r]
Timeout(r) == IF TimeoutOption[r] \in Nat THEN TimeoutOption[r] ELSE ClientTimeout

(***************************************************************************)
(* Responses.  retryAfterMs and retryAfter are the two headers, in one     *)
(* unit of time; an HTTP date is the (possibly negative) distance to it.   *)
(***************************************************************************)
ResponseSpace == [kind : {"response"}, status : Nat,
                  shouldRetry : {"true", "false", "absent"},
                  retryAfterMs : Int \cup {NoHint}, retryAfter : Int \cup {NoHint}]

ASSUME ResponseAssumption == Responses \subseteq ResponseSpace

NetworkError == [kind |-> "network"]
AbortError   == [kind |-> "abort"]
NoOutcome    == [kind |-> "none"]
Outcomes == Responses \cup {NetworkError, AbortError, NoOutcome}

IsOk(resp) == resp.status \in 200..299

ShouldRetry(resp) ==
  \/ resp.shouldRetry = "true"
  \/ /\ resp.shouldRetry # "false"
     /\ resp.status \in {408, 409, 429} \/ resp.status >= 500

(***************************************************************************)
(* The delay before a retry: a usable header, or exponential backoff with  *)
(* a jitter factor in (3/4, 1].  A zero is falsy, so it counts as absent.  *)
(***************************************************************************)
Usable(hint) == hint # NoHint /\ hint # 0

AskedDelay(ms, after) == IF Usable(ms) THEN ms ELSE after

IsObeyed(asked) == Usable(asked) /\ 0 <= asked /\ asked < MaxHeaderDelay

BackoffDelays(numRetries) ==
  LET exact == InitialRetryDelay * 2^numRetries
      base  == IF exact < MaxRetryDelay THEN exact ELSE MaxRetryDelay
  IN {d \in 0..MaxRetryDelay : 4 * d > 3 * base /\ d <= base}

RetryDelays(asked, numRetries) ==
  IF IsObeyed(asked) THEN {asked} ELSE BackoffDelays(numRetries)

(***************************************************************************)
(* Phases that end in a microtask: no time passes while a call is in one.  *)
(***************************************************************************)
Microtasks == {"prepared", "built", "settled"}
Phases == Microtasks \cup
          {"idle", "fetching", "sleeping", "errorBody", "resolved", "rejected"}
Results == {"none", "ok", "userAbort", "timeout", "connection", "status", "invalidOption"}

Init ==
  /\ pc = [r \in Requests |-> "idle"]
  /\ retriesLeft = [r \in Requests |-> 0]
  /\ attempts = [r \in Requests |-> 0]
  /\ aborted = [r \in Requests |-> FALSE]
  /\ ctrl = [r \in Requests |-> FALSE]
  /\ timerLeft = [r \in Requests |-> 0]
  /\ sleepLeft = [r \in Requests |-> 0]
  /\ outcome = [r \in Requests |-> NoOutcome]
  /\ result = [r \in Requests |-> "none"]
  /\ auth = [r \in Requests |-> 0]
  /\ tokenLeft = 0
  /\ agentTimeout = AgentTimeout

Settle(r, phase, how) ==
  /\ pc' = [pc EXCEPT ![r] = phase]
  /\ result' = [result EXCEPT ![r] = how]

(* request(): makeRequest starts at once, before anybody awaits the promise. *)
Call(r) ==
  /\ pc[r] = "idle"
  /\ pc' = [pc EXCEPT ![r] = "prepared"]
  /\ retriesLeft' = [retriesLeft EXCEPT ![r] = MaxRetries(r)]
  /\ UNCHANGED <<attempts, aborted, ctrl, timerLeft, sleepLeft, outcome, result,
                 auth, tokenLeft, agentTimeout>>

(***************************************************************************)
(* buildRequest.  getToken keeps the cached token while more than the      *)
(* refresh margin is left of it; the agent's timeout is only ever raised.  *)
(***************************************************************************)
TokenForUseNoMargin == IF tokenLeft > 0 THEN tokenLeft ELSE TokenTTL
TokenForUse == IF tokenLeft > TokenRefreshTTL THEN tokenLeft ELSE TokenTTL

ReplacedAgentTimeout(timeout) == timeout + AgentSlack
RaisedAgentTimeout(timeout) ==
  IF timeout + AgentSlack > agentTimeout THEN timeout + AgentSlack ELSE agentTimeout

Build(r) ==
  /\ pc[r] = "prepared"
  /\ IF TimeoutOption[r] = Invalid
     THEN /\ Settle(r, "rejected", "invalidOption")
          /\ UNCHANGED <<auth, tokenLeft, agentTimeout>>
     ELSE /\ pc' = [pc EXCEPT ![r] = "built"]
          /\ tokenLeft' = TokenForUse
          /\ auth' = [auth EXCEPT ![r] = TokenForUse]
          /\ agentTimeout' = RaisedAgentTimeout(Timeout(r))
          /\ UNCHANGED result
  /\ UNCHANGED <<retriesLeft, attempts, aborted, ctrl, timerLeft, sleepLeft, outcome>>

(***************************************************************************)
(* The abort check and fetchWithTimeout up to the fetch itself run without *)
(* an await between them: an abort is either seen here or reaches the      *)
(* listener that ties the signal to this attempt's controller.             *)
(***************************************************************************)
SeesAbortNever(r) == FALSE
SeesAbort(r) == aborted[r]

Send(r) ==
  /\ pc[r] = "built"
  /\ IF SeesAbort(r)
     THEN /\ Settle(r, "rejected", "userAbort")
          /\ UNCHANGED <<attempts, ctrl, timerLeft>>
     ELSE /\ pc' = [pc EXCEPT ![r] = "fetching"]
          /\ attempts' = [attempts EXCEPT ![r] = @ + 1]
          /\ ctrl' = [ctrl EXCEPT ![r] = FALSE]
          /\ timerLeft' = [timerLeft EXCEPT ![r] = Timeout(r)]
          /\ UNCHANGED result
  /\ auth' = [auth EXCEPT ![r] = 0]
  /\ UNCHANGED <<retriesLeft, aborted, sleepLeft, outcome, tokenLeft, agentTimeout>>

(* The caller aborts the signal; the listeners abort the current controller. *)
UserAborts(r) ==
  /\ ~aborted[r]
  /\ pc[r] \notin {"resolved", "rejected"}
  /\ aborted' = [aborted EXCEPT ![r] = TRUE]
  /\ ctrl' = [ctrl EXCEPT ![r] = attempts[r] > 0]
  /\ UNCHANGED <<pc, retriesLeft, attempts, timerLeft, sleepLeft, outcome, result,
                 auth, tokenLeft, agentTimeout>>

(* setTimeout(() => controller.abort()). *)
TimerFiresNever(r) == FALSE
TimerFires(r) ==
  /\ pc[r] = "fetching"
  /\ timerLeft[r] = 0
  /\ ~ctrl[r]
  /\ ctrl' = [ctrl EXCEPT ![r] = TRUE]
  /\ UNCHANGED <<pc, retriesLeft, attempts, aborted, timerLeft, sleepLeft, outcome,
                 result, auth, tokenLeft, agentTimeout>>

(* finally() stops the timer: timerLeft keeps what was left of it until the  *)
(* continuation has run, and for good when the call fails for lack of an     *)
(* answer.                                                                   *)
FetchSettles(r, how) ==
  /\ pc[r] = "fetching"
  /\ pc' = [pc EXCEPT ![r] = "settled"]
  /\ outcome' = [outcome EXCEPT ![r] = how]
  /\ UNCHANGED <<retriesLeft, attempts, aborted, ctrl, timerLeft, sleepLeft, result,
                 auth, tokenLeft, agentTimeout>>

(* fetch (external): headers arrive or the connection breaks before any abort; *)
ServerAnswers(r) == ~ctrl[r] /\ \E resp \in Responses : FetchSettles(r, resp)
ConnectionFails(r) == ~ctrl[r] /\ FetchSettles(r, NetworkError)
(* an aborted controller makes it reject with an AbortError. *)
FetchIsAborted(r) == ctrl[r] /\ FetchSettles(r, AbortError)

(* retryRequest: the delay is chosen, then the call sleeps. *)
RetryAfter(r, asked) ==
  /\ pc' = [pc EXCEPT ![r] = "sleeping"]
  /\ \E d \in RetryDelays(asked, MaxRetries(r) - retriesLeft[r]) :
       sleepLeft' = [sleepLeft EXCEPT ![r] = d]
  /\ UNCHANGED result

(* The continuation of the awaited fetch when it rejected. *)
HasRetryUnderflow(r) == retriesLeft[r] >= 0
HasRetry(r) == retriesLeft[r] > 0

ErrorKindAlwaysTimeout(r) == "timeout"
ErrorKind(r) == IF outcome[r] = AbortError THEN "timeout" ELSE "connection"

HandleError(r) ==
  /\ pc[r] = "settled"
  /\ outcome[r] \in {NetworkError, AbortError}
  /\ IF SeesAbort(r)
     THEN Settle(r, "rejected", "userAbort") /\ UNCHANGED <<sleepLeft, timerLeft>>
     ELSE IF HasRetry(r)
          THEN RetryAfter(r, NoHint) /\ timerLeft' = [timerLeft EXCEPT ![r] = 0]
          ELSE Settle(r, "rejected", ErrorKind(r)) /\ UNCHANGED <<sleepLeft, timerLeft>>
  /\ outcome' = [outcome EXCEPT ![r] = NoOutcome]
  /\ UNCHANGED <<retriesLeft, attempts, aborted, ctrl, auth, tokenLeft, agentTimeout>>

(***************************************************************************)
(* The continuation when it resolved.  The error body is awaited with no   *)
(* timer running, and whatever comes of it the call fails with the status. *)
(***************************************************************************)
MayRetry(r) == retriesLeft[r] # 0 /\ ShouldRetry(outcome[r])

HandleResponse(r) ==
  /\ pc[r] = "settled"
  /\ outcome[r] \in Responses
  /\ IF IsOk(outcome[r])
     THEN Settle(r, "resolved", "ok") /\ UNCHANGED sleepLeft
     ELSE IF MayRetry(r)
          THEN RetryAfter(r, AskedDelay(outcome[r].retryAfterMs, outcome[r].retryAfter))
          ELSE pc' = [pc EXCEPT ![r] = "errorBody"] /\ UNCHANGED <<result, sleepLeft>>
  /\ timerLeft' = [timerLeft EXCEPT ![r] = 0]
  /\ outcome' = [outcome EXCEPT ![r] = NoOutcome]
  /\ UNCHANGED <<retriesLeft, attempts, aborted, ctrl, auth, tokenLeft, agentTimeout>>

ErrorBodyEnds(r) ==
  /\ pc[r] = "errorBody"
  /\ Settle(r, "rejected", "status")
  /\ UNCHANGED <<retriesLeft, attempts, aborted, ctrl, timerLeft, sleepLeft, outcome,
                 auth, tokenLeft, agentTimeout>>

(* The body arrives or its connection breaks (external), or the abort ends it. *)
ServerEndsErrorBody(r) == ErrorBodyEnds(r)
AbortEndsErrorBodyNever(r) == FALSE
AbortEndsErrorBody(r) == ctrl[r] /\ ErrorBodyEnds(r)

(* sleep() resolves: makeRequest again, with one retry less. *)
Wake(r) ==
  /\ pc[r] = "sleeping"
  /\ sleepLeft[r] = 0
  /\ pc' = [pc EXCEPT ![r] = "prepared"]
  /\ retriesLeft' = [retriesLeft EXCEPT ![r] = @ - 1]
  /\ UNCHANGED <<attempts, aborted, ctrl, timerLeft, sleepLeft, outcome, result, auth,
                 tokenLeft, agentTimeout>>

(* One unit of time.  A timer that is due may fire late. *)
Less(n) == IF n > 0 THEN n - 1 ELSE 0
CountDown(left, phase) == [r \in Requests |-> IF pc[r] = phase THEN Less(left[r]) ELSE left[r]]

Tick ==
  /\ \A r \in Requests : pc[r] \notin Microtasks
  /\ timerLeft' = CountDown(timerLeft, "fetching")
  /\ sleepLeft' = CountDown(sleepLeft, "sleeping")
  /\ tokenLeft' = Less(tokenLeft)
  /\ auth' = [r \in Requests |-> Less(auth[r])]
  /\ UNCHANGED <<pc, retriesLeft, attempts, aborted, ctrl, outcome, result, agentTimeout>>

Client(r) ==
  \/ Build(r) \/ Send(r) \/ TimerFires(r) \/ FetchIsAborted(r) \/ HandleError(r)
  \/ HandleResponse(r) \/ AbortEndsErrorBody(r) \/ Wake(r)

Environment(r) ==
  \/ Call(r) \/ UserAborts(r) \/ ServerAnswers(r) \/ ConnectionFails(r)
  \/ ServerEndsErrorBody(r)

Next == Tick \/ \E r \in Requests : Client(r) \/ Environment(r)

Spec == Init /\ [][Next]_vars

(* The event loop runs what is due and time passes; the server owes nothing. *)
Fairness == WF_vars(Tick) /\ \A r \in Requests : WF_vars(Client(r))

FairSpec == Spec /\ Fairness

-----------------------------------------------------------------------------
TypeOK ==
  /\ pc \in [Requests -> Phases]
  /\ retriesLeft \in [Requests -> Int]
  /\ attempts \in [Requests -> Nat]
  /\ aborted \in [Requests -> BOOLEAN]
  /\ ctrl \in [Requests -> BOOLEAN]
  /\ timerLeft \in [Requests -> Nat]
  /\ sleepLeft \in [Requests -> Nat]
  /\ outcome \in [Requests -> Outcomes]
  /\ result \in [Requests -> Results]
  /\ auth \in [Requests -> 0..TokenTTL]
  /\ tokenLeft \in 0..TokenTTL
  /\ agentTimeout \in Nat

(* A call sends its first attempt and at most maxRetries retries, however    *)
(* failures, statuses and headers mix (makeRequest and retryRequest).        *)
AttemptsBounded ==
  \A r \in Requests : MaxRetries(r) >= 0 => attempts[r] <= MaxRetries(r) + 1

(* The error the caller gets names the cause: an abort is reported to exactly *)
(* those who aborted, a timeout only when the last attempt's timer ran out,   *)
(* and the client gives up on a timeout or a broken connection only when      *)
(* every retry is used.                                                       *)
ErrorNamesCause ==
  \A r \in Requests :
    /\ result[r] = "userAbort" => aborted[r]
    /\ result[r] = "timeout" => timerLeft[r] = 0
    /\ result[r] \in {"timeout", "connection"} =>
         /\ ~aborted[r]
         /\ MaxRetries(r) >= 0 => attempts[r] = MaxRetries(r) + 1

(* However other calls use the shared agent, its socket timeout never cuts    *)
(* off an attempt before the attempt's own timer (buildRequest).              *)
AgentOutlastsTimers ==
  \A r \in Requests : pc[r] = "fetching" => agentTimeout > Timeout(r)

(* No header makes a call sleep as long as MaxHeaderDelay.                    *)
WaitBounded == \A r \in Requests : pc[r] = "sleeping" => sleepLeft[r] < MaxHeaderDelay

(* Once the signal is aborted the call sends nothing more.                    *)
NoFetchAfterAbort ==
  [][\A r \in Requests : aborted[r] => attempts'[r] = attempts[r]]_vars

(* Every attempt, also one that slept before it, leaves with a token that has *)
(* more than the refresh margin left.                                         *)
SentTokenIsFresh ==
  [][\A r \in Requests : attempts'[r] # attempts[r] => auth[r] > TokenRefreshTTL]_vars

(* Whatever the server does, a call ends, or waits for the body of an error.  *)
CallSettles ==
  \A r \in Requests : pc[r] = "prepared" ~> pc[r] \in {"resolved", "rejected", "errorBody"}

(* An abort ends the call, even one that waits for the body of an error.      *)
AbortSettles ==
  \A r \in Requests :
    (aborted[r] /\ pc[r] # "idle") ~> pc[r] \in {"resolved", "rejected"}
===========================================================================
