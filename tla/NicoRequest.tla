----------------------------- MODULE NicoRequest -----------------------------
(***************************************************************************)
(* One request of a nico application on a mounted route, through the       *)
(* route's middlewares (policies, body parser, validator, controllers) and *)
(* the error handler around them.  The controllers of a route are nested:  *)
(* each may call next and gets the control back when the one below has     *)
(* settled.  A controller races the route's timeout, and one that lost     *)
(* goes on running, even when the answer is long sent.                     *)
(*                                                                         *)
(* koa sends what ctx holds once the outermost middleware has returned;    *)
(* the steps from a settled controller to the answer are microtasks, so    *)
(* they are one action here unless onError awaits something.  The hooks    *)
(* onBodyParserError, onValidateError and onNotFound are taken as absent.   *)
(***************************************************************************)
EXTENDS Integers

CONSTANTS
  Depth,        \* how many controllers the route has
  Timeout,      \* options.timeout of the route, 0 for none
  Validators,   \* the checks of the route's validate option: its keys, and of files each file key
  FileFunctions, \* those that are functions on a file, which the code calls and does not await
  None,
  MaxAge        \* bound: how long the request is followed

ASSUME RequestAssumption ==
  /\ Depth \in Nat \ {0} /\ Timeout \in Nat /\ MaxAge \in Nat
  /\ None \notin Validators /\ FileFunctions \subseteq Validators

VARIABLES
  onError,  \* the application's ctx.onError: none, returns or awaits
  stage,    \* where the request is: policies, body, validate, controllers, onError, sent
  pending,  \* checks that have not settled
  invalid,  \* the first that rejected and was caught: validateErrors[0]
  ctl,      \* of each controller: idle, running, next, ended
  lost,     \* whether its race was lost to the timer
  left,     \* what is left of its timer
  ctx,      \* ctx.status and whose ctx.body it is
  cors,     \* CORS headers of the global middleware that the route removes
  answer,   \* what was sent
  age       \* time since the controllers started (history)

vars == <<onError, stage, pending, invalid, ctl, lost, left, ctx, cors, answer, age>>
controllers == <<ctl, lost, left>>

Chain == 1..Depth
(* Errors by their text: "timeout" is 'Request timeout', the text of a timer's *)
(* error, which the route's own code may throw as well.                        *)
Thrown == {"timeout", "other"}
Errors == {"none"} \cup Thrown
By(status, who) == [status |-> status, by |-> who, no |-> 0]
ByController(i) == [status |-> 200, by |-> "controller", no |-> i]

Init ==
  /\ onError \in {"none", "returns", "awaits"}
  /\ stage = "policies"
  /\ pending = Validators /\ invalid = None
  /\ ctl = [i \in Chain |-> "idle"]
  /\ lost = [i \in Chain |-> FALSE]
  /\ left = [i \in Chain |-> 0]
  /\ ctx = By(404, "nobody") /\ cors = TRUE
  /\ answer = None
  /\ age = 0

(***************************************************************************)
(* The way out.  removeCors and the like act on what returns to them, the  *)
(* error handler on what is thrown.                                        *)
(***************************************************************************)
Return(final) ==
  /\ stage' = "sent"
  /\ ctx' = final
  /\ cors' = FALSE
  /\ answer' = final

StatusOnlyAnswer(err) == [ctx EXCEPT !.status = IF err = "timeout" THEN 408 ELSE 500]
ErrorAnswer(err) == IF err = "timeout" THEN By(408, "errorHandler") ELSE By(500, "errorHandler")

Throw(err) ==
  /\ UNCHANGED cors
  /\ \/ /\ onError = "none"
        /\ stage' = "sent" /\ ctx' = ErrorAnswer(err) /\ answer' = ErrorAnswer(err)
     \/ /\ onError = "returns"
        /\ stage' = "sent" /\ ctx' = By(200, "onError") /\ answer' = By(200, "onError")
     \/ /\ onError = "awaits"
        /\ stage' = "onError" /\ ctx' = By(200, "onError") /\ UNCHANGED answer

(* onError has awaited what it had to; ctx is sent as it is by now. *)
OnErrorEnds ==
  /\ stage = "onError"
  /\ stage' = "sent" /\ answer' = ctx
  /\ UNCHANGED <<onError, pending, invalid, controllers, ctx, cors, age>>

(***************************************************************************)
(* The middlewares before the controllers.                                 *)
(***************************************************************************)
Deny ==
  /\ stage = "policies"
  /\ Return(By(403, "policy"))
  /\ UNCHANGED <<onError, pending, invalid, controllers, age>>

PolicyThrows ==
  /\ stage = "policies"
  /\ \E err \in Thrown : Throw(err)
  /\ UNCHANGED <<onError, pending, invalid, controllers, age>>

Allow ==
  /\ stage = "policies"
  /\ stage' = "body"
  /\ UNCHANGED <<onError, pending, invalid, controllers, ctx, cors, answer, age>>

(* A body that is too long or malformed, without an onBodyParserError. *)
BodyIsBad ==
  /\ stage = "body"
  /\ Throw("other")
  /\ UNCHANGED <<onError, pending, invalid, controllers, age>>

BodyIsRead ==
  /\ stage = "body"
  /\ stage' = "validate"
  /\ UNCHANGED <<onError, pending, invalid, controllers, ctx, cors, answer, age>>

(* A key the middleware does not know: its check throws outside the try. *)
UnknownKey ==
  /\ stage = "validate" /\ pending = Validators
  /\ Throw("other")
  /\ UNCHANGED <<onError, pending, invalid, controllers, age>>

(* All checks run at once and settle in any order, also when nobody waits for *)
(* them any more.  A function on a file is caught when it throws at its call; *)
(* what its promise comes to, at any time, is nobody's (the process logs it). *)
ValidatorSettles(v) ==
  /\ stage \notin {"policies", "body"} /\ v \in pending
  /\ pending' = pending \ {v}
  /\ \/ UNCHANGED invalid
     \/ stage = "validate" /\ invalid = None /\ invalid' = v
  /\ UNCHANGED <<onError, stage, controllers, ctx, cors, answer, age>>

AnySettled == pending # Validators
AllSettled == pending \subseteq FileFunctions

Enter(i) ==
  /\ lost' = [lost EXCEPT ![i] = FALSE]
  /\ left' = [left EXCEPT ![i] = Timeout]

Validated ==
  /\ stage = "validate" /\ AllSettled
  /\ IF invalid # None
     THEN Return(By(400, "validator")) /\ UNCHANGED controllers
     ELSE /\ stage' = "controllers"
          /\ ctl' = [ctl EXCEPT ![1] = "running"] /\ Enter(1)
          /\ UNCHANGED <<ctx, cors, answer>>
  /\ UNCHANGED <<onError, pending, invalid, age>>

(***************************************************************************)
(* The controllers.  Their steps go on after the answer.                   *)
(***************************************************************************)
Write(i) ==
  /\ ctl[i] = "running"
  /\ ctx' = ByController(i)
  /\ UNCHANGED <<onError, stage, pending, invalid, controllers, cors, answer, age>>

CallNext(i) ==
  /\ ctl[i] = "running" /\ i < Depth /\ ctl[i+1] = "idle"
  /\ ctl' = [ctl EXCEPT ![i] = "next", ![i+1] = "running"] /\ Enter(i + 1)
  /\ UNCHANGED <<onError, stage, pending, invalid, ctx, cors, answer, age>>

(* What the race of controller i comes to goes to the one above it, which may *)
(* catch it; what the first one's comes to leaves the controllers.            *)
Settled(i, err, after) ==
  IF i > 1
  THEN ctl' = [after EXCEPT ![i-1] = "running"] /\ UNCHANGED <<stage, ctx, cors, answer>>
  ELSE ctl' = after /\ IF err = "none" THEN Return(ctx) ELSE Throw(err)

(* It returns, throws an error of its own, or passes on what next() threw. *)
Ends(i) ==
  /\ ctl[i] = "running"
  /\ \E err \in Errors :
       IF lost[i]
       THEN /\ ctl' = [ctl EXCEPT ![i] = "ended"]
            /\ UNCHANGED <<stage, ctx, cors, answer>>
       ELSE Settled(i, err, [ctl EXCEPT ![i] = "ended"])
  /\ UNCHANGED <<onError, pending, invalid, lost, left, age>>

RunningOnly(i) == Timeout > 0 /\ ctl[i] = "running"
Racing(i) == Timeout > 0 /\ ctl[i] \in {"running", "next"}

Due(i) == Racing(i) /\ ~lost[i] /\ left[i] = 0

(* Timers of one length fire in the order they were armed. *)
TimerFires(i) ==
  /\ Due(i) /\ \A j \in 1..(i - 1) : ~Due(j)
  /\ lost' = [lost EXCEPT ![i] = TRUE]
  /\ Settled(i, "timeout", ctl)
  /\ UNCHANGED <<onError, pending, invalid, left, age>>

(* A unit of time; a timer that is due fires before more time passes. *)
Tick ==
  /\ ctl[1] # "idle" /\ age < MaxAge
  /\ \A i \in Chain : ~Due(i)
  /\ left' = [i \in Chain |-> IF Racing(i) /\ ~lost[i] THEN left[i] - 1 ELSE left[i]]
  /\ age' = age + 1
  /\ UNCHANGED <<onError, stage, pending, invalid, ctl, lost, ctx, cors, answer>>

Next ==
  \/ Deny \/ PolicyThrows \/ Allow \/ BodyIsBad \/ BodyIsRead
  \/ UnknownKey \/ Validated \/ OnErrorEnds \/ Tick
  \/ \E v \in Validators : ValidatorSettles(v)
  \/ \E i \in Chain : Write(i) \/ CallNext(i) \/ Ends(i) \/ TimerFires(i)

Spec == Init /\ [][Next]_vars

-----------------------------------------------------------------------------
Responses == [status : {200, 400, 403, 404, 408, 500},
              by : {"nobody", "policy", "validator", "errorHandler", "onError", "controller"},
              no : 0..Depth]

TypeOK ==
  /\ stage \in {"policies", "body", "validate", "controllers", "onError", "sent"}
  /\ pending \subseteq Validators /\ invalid \in Validators \cup {None}
  /\ ctl \in [Chain -> {"idle", "running", "next", "ended"}]
  /\ lost \in [Chain -> BOOLEAN]
  /\ left \in [Chain -> 0..Timeout]
  /\ ctx \in Responses /\ cors \in BOOLEAN
  /\ answer \in Responses \cup {None}
  /\ age \in 0..MaxAge

(* No controller runs before every awaited check has settled, or when one of  *)
(* all of them was seen to reject, whichever order they settle in             *)
(* (validatorMiddleware).  The functions of a file's checks are not awaited:  *)
(* a controller may run before one of them settles, and whatever it rejects.  *)
ControllersRunChecked ==
  \A i \in Chain : ctl[i] # "idle" => pending \subseteq FileFunctions /\ invalid = None

(* A route with a timeout answers within it, however its controllers nest and *)
(* hang: the timer of the first covers all below it.                          *)
AnsweredInTime ==
  stage = "controllers" /\ Timeout > 0 => age <= Timeout

(* Unless the application's onError awaits, an answer is one piece: what was  *)
(* thrown is answered by the error handler alone, with the body that goes     *)
(* with the status, and never by a controller that lost its race and went on  *)
(* writing; a route whose first timer ran out is answered 408, whatever its   *)
(* controllers wrote or threw (a 408 need not be a timer's: the handler goes  *)
(* by the text of the error); and exactly the answers to what was thrown keep *)
(* the CORS headers the route removes.                                        *)
AnswerIsWhole ==
  answer # None /\ onError # "awaits" =>
    /\ answer.status \in {408, 500} <=> answer.by = "errorHandler"
    /\ lost[1] => answer.by = "onError" \/ answer = By(408, "errorHandler")
    /\ cors <=> answer.by \in {"errorHandler", "onError"}
=============================================================================
