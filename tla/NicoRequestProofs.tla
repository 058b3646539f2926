------------------------- MODULE NicoRequestProofs -------------------------
(***************************************************************************)
(* What NicoRequest keeps for every chain of controllers, every timeout    *)
(* and every set of checks, however long the request is followed.          *)
(***************************************************************************)
EXTENDS NicoRequest, TLAPS

-----------------------------------------------------------------------------
(* The ways out.                                                           *)

OnTheWay == {"policies", "body", "validate"}

(* What happens before the controllers start.                              *)
Early ==
  Deny \/ PolicyThrows \/ Allow \/ BodyIsBad \/ BodyIsRead \/ UnknownKey

LEMMA Steps ==
  ASSUME [Next]_vars
  PROVE  \/ Early \/ Validated \/ OnErrorEnds \/ Tick \/ UNCHANGED vars
         \/ \E v \in Validators : ValidatorSettles(v)
         \/ \E i \in Chain : Write(i) \/ CallNext(i) \/ Ends(i) \/ TimerFires(i)
BY DEF Next, Early

(* What is built is a response, and has what it was built from.            *)
LEMMA Built ==
  ASSUME NEW n \in {200, 400, 403, 404, 408, 500},
         NEW who \in {"nobody", "policy", "validator", "errorHandler", "onError"}
  PROVE  By(n, who) \in Responses /\ By(n, who).status = n /\ By(n, who).by = who
<1>1. 0 \in 0..Depth
  BY RequestAssumption
<1> QED BY <1>1 DEF By, Responses

LEMMA BuiltByController ==
  ASSUME NEW i \in Chain
  PROVE  /\ ByController(i) \in Responses /\ ByController(i).status = 200
         /\ ByController(i).by = "controller"
<1>1. i \in 0..Depth
  BY RequestAssumption DEF Chain
<1> QED BY <1>1 DEF ByController, Responses

(* Throw leads to an answer of the error handler or of onError.            *)
LEMMA ThrowLeaves ==
  ASSUME TypeOK, NEW err \in Errors, Throw(err)
  PROVE  /\ stage' \in {"onError", "sent"} /\ UNCHANGED cors
         /\ stage' = "onError" => onError = "awaits" /\ UNCHANGED answer
         /\ stage' = "sent" => onError # "awaits" /\ answer' = ctx'
         /\ ctx' \in Responses /\ answer' \in Responses \cup {None}
         /\ ctx'.by \in {"errorHandler", "onError"}
         /\ ctx'.status \in {408, 500} <=> ctx'.by = "errorHandler"
         /\ err = "timeout" => ctx' = By(408, "errorHandler") \/ ctx'.by = "onError"
<1>1. /\ By(408, "errorHandler") \in Responses /\ By(408, "errorHandler").status = 408
      /\ By(408, "errorHandler").by = "errorHandler"
      /\ By(500, "errorHandler") \in Responses /\ By(500, "errorHandler").status = 500
      /\ By(500, "errorHandler").by = "errorHandler"
      /\ By(200, "onError") \in Responses /\ By(200, "onError").status = 200
      /\ By(200, "onError").by = "onError"
  BY Built
<1>2. answer \in Responses \cup {None}
  BY DEF TypeOK
<1>3. CASE onError = "none"
  BY <1>1, <1>3 DEF Throw, ErrorAnswer
<1>4. CASE onError # "none"
  BY <1>1, <1>2, <1>4 DEF Throw
<1> QED BY <1>3, <1>4

-----------------------------------------------------------------------------
(* Type correctness.                                                       *)

LEMMA TypeInit == Init => TypeOK
BY RequestAssumption, Built DEF Init, TypeOK, Chain, Errors

LEMMA TypeNext == TypeOK /\ [Next]_vars => TypeOK'
<1> SUFFICES ASSUME TypeOK, [Next]_vars PROVE TypeOK'
  OBVIOUS
<1> USE RequestAssumption DEF controllers
<1>1. CASE Early
  <2>1. CASE Deny \/ Allow \/ BodyIsRead
    <3>1. By(403, "policy") \in Responses
      BY Built
    <3>2. CASE Deny
      BY <3>1, <3>2 DEF Deny, Return, TypeOK
    <3>3. CASE Allow
      BY <3>3 DEF Allow, TypeOK
    <3>4. CASE BodyIsRead
      BY <3>4 DEF BodyIsRead, TypeOK
    <3> QED BY <2>1, <3>2, <3>3, <3>4
  <2>2. CASE PolicyThrows \/ BodyIsBad \/ UnknownKey
    <3>1. PICK err \in Errors : Throw(err)
      BY <2>2 DEF PolicyThrows, BodyIsBad, UnknownKey, Errors, Thrown
    <3>0. UNCHANGED <<onError, pending, invalid, controllers, age>>
      BY <2>2 DEF PolicyThrows, BodyIsBad, UnknownKey
    <3>2. /\ stage' \in {"onError", "sent"} /\ UNCHANGED cors
          /\ ctx' \in Responses /\ answer' \in Responses \cup {None}
      BY <3>1, ThrowLeaves
    <3> QED BY <3>0, <3>2 DEF TypeOK
  <2> QED BY <1>1, <2>1, <2>2 DEF Early
<1>11. ASSUME NEW v \in Validators, ValidatorSettles(v) PROVE TypeOK'
  BY <1>11 DEF ValidatorSettles, TypeOK
<1>2. CASE Validated
  <2>1. CASE invalid # None
    <3>1. By(400, "validator") \in Responses
      BY Built
    <3> QED BY <1>2, <2>1, <3>1 DEF Validated, Return, TypeOK
  <2>2. CASE invalid = None
    <3>1. /\ stage' = "controllers" /\ ctl' = [ctl EXCEPT ![1] = "running"]
          /\ lost' = [lost EXCEPT ![1] = FALSE] /\ left' = [left EXCEPT ![1] = Timeout]
          /\ UNCHANGED <<onError, pending, invalid, ctx, cors, answer, age>>
      BY <1>2, <2>2 DEF Validated, Enter
    <3>2. left' \in [Chain -> 0..Timeout]
      <4>1. Timeout \in 0..Timeout
        OBVIOUS
      <4> QED BY <3>1, <4>1 DEF TypeOK
    <3>3. /\ ctl' \in [Chain -> {"idle", "running", "next", "ended"}]
          /\ lost' \in [Chain -> BOOLEAN]
      BY <3>1 DEF TypeOK
    <3> QED BY <3>1, <3>2, <3>3 DEF TypeOK
  <2> QED BY <2>1, <2>2
<1>3. CASE OnErrorEnds
  BY <1>3 DEF OnErrorEnds, TypeOK
<1>4. CASE Tick
  BY <1>4 DEF Tick, Due, TypeOK, Chain
<1>5. CASE UNCHANGED vars
  BY <1>5 DEF vars, TypeOK
<1>6. ASSUME NEW i \in Chain, Write(i) PROVE TypeOK'
  BY <1>6, BuiltByController DEF Write, TypeOK
<1>7. ASSUME NEW i \in Chain, CallNext(i) PROVE TypeOK'
  BY <1>7 DEF CallNext, Enter, TypeOK, Chain
<1>8. ASSUME NEW i \in Chain, NEW err \in Errors,
             NEW after \in [Chain -> {"idle", "running", "next", "ended"}],
             Settled(i, err, after)
      PROVE  /\ ctl' \in [Chain -> {"idle", "running", "next", "ended"}]
             /\ stage' \in OnTheWay \cup {"controllers", "onError", "sent"}
             /\ ctx' \in Responses /\ cors' \in BOOLEAN /\ answer' \in Responses \cup {None}
  <2>1. CASE i > 1
    <3>1. /\ ctl' = [after EXCEPT ![i-1] = "running"]
          /\ UNCHANGED <<stage, ctx, cors, answer>>
      BY <1>8, <2>1 DEF Settled
    <3> QED BY <1>8, <3>1 DEF TypeOK, OnTheWay
  <2>2. CASE i = 1 /\ err = "none"
    <3>1. ctl' = after /\ Return(ctx)
      BY <1>8, <2>2 DEF Settled
    <3> QED BY <3>1 DEF Return, TypeOK
  <2>3. CASE i = 1 /\ err # "none"
    <3>1. Throw(err) /\ ctl' = after
      BY <1>8, <2>3 DEF Settled
    <3> QED BY <3>1, ThrowLeaves DEF TypeOK
  <2> QED BY <2>1, <2>2, <2>3 DEF Chain
<1>9. ASSUME NEW i \in Chain, Ends(i) PROVE TypeOK'
  <2>1. [ctl EXCEPT ![i] = "ended"] \in [Chain -> {"idle", "running", "next", "ended"}]
    BY DEF TypeOK
  <2>2. PICK err \in Errors :
          IF lost[i]
          THEN /\ ctl' = [ctl EXCEPT ![i] = "ended"]
               /\ UNCHANGED <<stage, ctx, cors, answer>>
          ELSE Settled(i, err, [ctl EXCEPT ![i] = "ended"])
    BY <1>9 DEF Ends
  <2>4. UNCHANGED <<onError, pending, invalid, lost, left, age>>
    BY <1>9 DEF Ends
  <2>5. CASE lost[i]
    BY <2>1, <2>2, <2>4, <2>5 DEF TypeOK
  <2>6. CASE ~lost[i]
    BY <2>1, <2>2, <2>4, <2>6, <1>8 DEF TypeOK, OnTheWay
  <2> QED BY <2>5, <2>6
<1>10. ASSUME NEW i \in Chain, TimerFires(i) PROVE TypeOK'
  <2>1. /\ Settled(i, "timeout", ctl) /\ "timeout" \in Errors
        /\ lost' = [lost EXCEPT ![i] = TRUE]
        /\ UNCHANGED <<onError, pending, invalid, left, age>>
    BY <1>10 DEF TimerFires, Errors, Thrown
  <2> QED BY <2>1, <1>8 DEF TypeOK, OnTheWay
<1> QED BY Steps, <1>1, <1>2, <1>3, <1>4, <1>5, <1>6, <1>7, <1>9, <1>10, <1>11

(* The state of a request keeps its type: no timer runs past its end.      *)
THEOREM TypeCorrect == Spec => []TypeOK
<1> QED BY TypeInit, TypeNext, PTL DEF Spec

-----------------------------------------------------------------------------
(* How the controllers are nested.                                         *)

(* Nothing has begun before the validators are through.                    *)
Fresh ==
  /\ stage \in OnTheWay => age = 0 /\ \A i \in Chain : ctl[i] = "idle"
  /\ \A i \in Chain : ctl[i] = "idle" => ~lost[i]

(* The one above a controller that is still in its race awaits it.         *)
Awaited(i) == ctl[i] \in {"running", "next"} /\ ~lost[i] => ctl[i-1] = "next"
Nested == \A i \in Chain : i > 1 => Awaited(i)

(* While the request is in its controllers the first is in its race, and   *)
(* its timer and the time that passed add up; afterwards it is not.        *)
FirstRaces ==
  /\ stage = "controllers" =>
       /\ ctl[1] \in {"running", "next"} /\ ~lost[1]
       /\ Timeout > 0 => age + left[1] = Timeout
  /\ stage \in {"onError", "sent"} => lost[1] \/ ctl[1] \in {"idle", "ended"}

Onion == Fresh /\ Nested /\ FirstRaces

LEMMA OnionInit == Init => Onion
BY RequestAssumption DEF Init, Onion, Fresh, Nested, Awaited, FirstRaces, OnTheWay, Chain

(* What a settled race does to the controllers and to the request.         *)
LEMMA SettledMoves ==
  ASSUME TypeOK, NEW i \in Chain, NEW err \in Errors,
         NEW after \in [Chain -> {"idle", "running", "next", "ended"}],
         Settled(i, err, after)
  PROVE  /\ i > 1 => /\ ctl' = [after EXCEPT ![i-1] = "running"]
                     /\ UNCHANGED <<stage, ctx, cors, answer>>
         /\ i = 1 => ctl' = after /\ stage' \in {"onError", "sent"}
<1>1. CASE i > 1
  BY <1>1 DEF Settled
<1>2. CASE i = 1 /\ err = "none"
  BY <1>2 DEF Settled, Return
<1>3. CASE i = 1 /\ err # "none"
  <2>1. Throw(err) /\ ctl' = after
    BY <1>3 DEF Settled
  <2> QED BY <1>3, <2>1, ThrowLeaves
<1> QED BY <1>1, <1>2, <1>3 DEF Chain

LEMMA OnionNext == TypeOK /\ Onion /\ [Next]_vars => Onion'
<1> SUFFICES ASSUME TypeOK, Onion, [Next]_vars PROVE Onion'
  OBVIOUS
<1> USE RequestAssumption DEF controllers
<1>0. 1 \in Chain
  BY DEF Chain
<1>1. CASE Early
  <2>1. stage \in OnTheWay /\ stage' # "controllers" /\ UNCHANGED <<controllers, age>>
    <3>1. ASSUME PolicyThrows \/ BodyIsBad \/ UnknownKey PROVE stage' # "controllers"
      <4>1. PICK err \in Errors : Throw(err)
        BY <3>1 DEF PolicyThrows, BodyIsBad, UnknownKey, Errors, Thrown
      <4> QED BY <4>1, ThrowLeaves
    <3> QED BY <1>1, <3>1 DEF Early, Deny, PolicyThrows, Allow, BodyIsBad, BodyIsRead,
                   UnknownKey, Return, OnTheWay
  <2> QED BY <1>0, <2>1 DEF Onion, Fresh, Nested, Awaited, FirstRaces, OnTheWay
<1>2. CASE Validated
  <2>1. age = 0 /\ \A i \in Chain : ctl[i] = "idle" /\ ~lost[i]
    BY <1>2 DEF Validated, Onion, Fresh, OnTheWay
  <2>2. CASE invalid # None
    BY <1>0, <1>2, <2>1, <2>2
    DEF Validated, Return, Onion, Fresh, Nested, Awaited, FirstRaces, OnTheWay
  <2>3. CASE invalid = None
    <3>1. /\ stage' = "controllers" /\ age' = 0
          /\ ctl'[1] = "running" /\ ~lost'[1] /\ left'[1] = Timeout
          /\ \A i \in Chain : ~lost'[i] /\ (i > 1 => ctl'[i] = "idle")
      BY <1>0, <1>2, <2>1, <2>3 DEF Validated, Enter, TypeOK
    <3> QED BY <1>0, <3>1 DEF Onion, Fresh, Nested, Awaited, FirstRaces, OnTheWay
  <2> QED BY <2>2, <2>3
<1>3. CASE OnErrorEnds
  BY <1>0, <1>3 DEF OnErrorEnds, Onion, Fresh, Nested, Awaited, FirstRaces, OnTheWay
<1>4. CASE Tick
  <2>1. /\ UNCHANGED <<stage, ctl, lost>> /\ ctl[1] # "idle" /\ age' = age + 1
        /\ Racing(1) /\ ~lost[1] => left'[1] = left[1] - 1
    BY <1>0, <1>4 DEF Tick
  <2>2. stage = "controllers" /\ Timeout > 0 => age' + left'[1] = Timeout
    <3>1. /\ age \in Nat /\ left[1] \in Nat
      BY <1>0 DEF TypeOK
    <3> QED BY <2>1, <3>1 DEF Onion, FirstRaces, Racing
  <2> QED BY <1>0, <2>1, <2>2 DEF Onion, Fresh, Nested, Awaited, FirstRaces, OnTheWay
<1>5. CASE UNCHANGED vars
  BY <1>5 DEF vars, Onion, Fresh, Nested, Awaited, FirstRaces
<1>6. ASSUME NEW i \in Chain, Write(i) PROVE Onion'
  BY <1>6 DEF Write, Onion, Fresh, Nested, Awaited, FirstRaces
<1>7. ASSUME NEW i \in Chain, CallNext(i) PROVE Onion'
  <2>1. /\ i + 1 \in Chain /\ ctl[i] = "running" /\ ctl[i+1] = "idle"
        /\ ctl' = [ctl EXCEPT ![i] = "next", ![i+1] = "running"]
        /\ lost' = [lost EXCEPT ![i+1] = FALSE]
        /\ left' = [left EXCEPT ![i+1] = Timeout]
        /\ UNCHANGED <<stage, age>>
    BY <1>7 DEF CallNext, Enter, Chain
  <2>2. stage \notin OnTheWay
    BY <2>1 DEF Onion, Fresh
  <2>3. i + 1 # 1 /\ i + 1 # i
    BY DEF Chain
  <2>4. Fresh'
    BY <2>1, <2>2 DEF Onion, Fresh, TypeOK
  <2>5. \A j \in Chain : j # i /\ j # i + 1 => ctl'[j] = ctl[j] /\ lost'[j] = lost[j]
    BY <2>1 DEF TypeOK
  <2>6. ctl'[i] = "next" /\ ctl'[i+1] = "running" /\ lost'[i] = lost[i]
    BY <2>1, <2>3 DEF TypeOK
  <2>7. ASSUME NEW j \in Chain, j > 1 PROVE Awaited(j)'
    <3>1. j - 1 \in Chain
      BY <2>7 DEF Chain
    <3>2. CASE j = i + 1
      BY <2>6, <3>2 DEF Awaited, Chain
    <3>3. CASE j = i
      <4>1. ctl'[i-1] = ctl[i-1]
        BY <2>5, <3>1, <3>3 DEF Chain
      <4> QED BY <2>1, <2>6, <2>7, <3>3, <4>1 DEF Awaited, Onion, Nested
    <3>4. CASE j # i /\ j # i + 1 /\ j - 1 # i + 1
      <4>1. j - 1 # i
        BY <3>4 DEF Chain
      <4>2. ctl'[j-1] = ctl[j-1]
        BY <2>5, <3>1, <3>4, <4>1
      <4> QED BY <2>5, <2>7, <3>4, <4>2 DEF Awaited, Onion, Nested
    <3>5. CASE j - 1 = i + 1
      <4>1. j # i /\ j # i + 1
        BY <3>5 DEF Chain
      <4> QED BY <2>1, <2>5, <2>7, <3>5, <4>1 DEF Awaited, Onion, Nested
    <3> QED BY <3>2, <3>3, <3>4, <3>5
  <2>8. FirstRaces'
    <3>1. /\ lost'[1] = lost[1] /\ left'[1] = left[1]
          /\ ctl'[1] = IF i = 1 THEN "next" ELSE ctl[1]
      BY <1>0, <2>1, <2>3 DEF TypeOK
    <3> QED BY <2>1, <3>1 DEF Onion, FirstRaces
  <2> QED BY <2>4, <2>7, <2>8 DEF Onion, Nested
<1>8. ASSUME NEW i \in Chain, ctl[i] \in {"running", "next"}, ~lost[i],
             NEW err \in Errors,
             NEW after,
             \/ after = ctl
             \/ ctl[i] = "running" /\ after = [ctl EXCEPT ![i] = "ended"],
             Settled(i, err, after),
             lost' = IF after = ctl THEN [lost EXCEPT ![i] = TRUE] ELSE lost,
             UNCHANGED <<left, age>>
      PROVE  Onion'
  <2>1. /\ after \in [Chain -> {"idle", "running", "next", "ended"}]
        /\ \A j \in Chain : j # i => after[j] = ctl[j] /\ lost'[j] = lost[j]
        /\ after[i] = "ended" \/ (lost'[i] /\ after[i] = ctl[i])
        /\ after[i] # "idle" /\ (ctl[i] = "next" => after[i] = "next")
    BY <1>8 DEF TypeOK
  <2>2. stage \notin OnTheWay
    BY <1>8 DEF Onion, Fresh
  <2>3. CASE i = 1
    <3>1. ctl' = after /\ stage' \in {"onError", "sent"}
      BY <1>8, <2>1, <2>3, SettledMoves
    <3>2. Fresh'
      BY <2>1, <3>1 DEF Onion, Fresh, OnTheWay
    <3>3. FirstRaces'
      BY <1>0, <2>1, <2>3, <3>1 DEF FirstRaces
    <3>4. ASSUME NEW j \in Chain, j > 1 PROVE Awaited(j)'
      <4>1. j # 1 /\ j - 1 \in Chain
        BY <3>4 DEF Chain
      <4>2. Awaited(j) /\ ctl'[j] = ctl[j] /\ lost'[j] = lost[j]
        BY <2>1, <2>3, <3>1, <3>4, <4>1 DEF Onion, Nested
      <4>3. CASE j - 1 = 1
        BY <1>8, <2>1, <2>3, <3>1, <4>2, <4>3 DEF Awaited
      <4>4. CASE j - 1 # 1
        BY <2>1, <2>3, <3>1, <4>1, <4>2, <4>4 DEF Awaited
      <4> QED BY <4>3, <4>4
    <3> QED BY <3>2, <3>3, <3>4 DEF Onion, Nested
  <2>4. CASE i > 1
    <3>1. /\ ctl' = [after EXCEPT ![i-1] = "running"] /\ stage' = stage
          /\ i - 1 \in Chain
      BY <1>8, <2>1, <2>4, SettledMoves DEF Chain
    <3>2. ctl[i-1] = "next"
      BY <1>8, <2>4 DEF Onion, Nested, Awaited
    <3>3. /\ ctl'[i-1] = "running" /\ ctl'[i] = after[i] /\ lost'[i-1] = lost[i-1]
          /\ \A j \in Chain : j # i - 1 /\ j # i => ctl'[j] = ctl[j] /\ lost'[j] = lost[j]
      BY <2>1, <2>4, <3>1 DEF Chain
    <3>4. ~lost[i-1] => lost[i-1] = FALSE
      BY <3>1 DEF TypeOK
    <3>5. Fresh'
      BY <2>1, <2>2, <3>1, <3>2, <3>3 DEF Onion, Fresh
    <3>6. ASSUME NEW j \in Chain, j > 1 PROVE Awaited(j)'
      <4>0. j - 1 \in Chain /\ Awaited(j)
        BY <3>6 DEF Chain, Onion, Nested
      <4>1. CASE j = i
        BY <2>1, <3>3, <4>1 DEF Awaited
      <4>2. CASE j = i - 1
        <5>1. j - 1 # i /\ j - 1 # i - 1
          BY <4>2 DEF Chain
        <5>2. ctl'[j-1] = ctl[j-1]
          BY <3>3, <4>0, <5>1
        <5> QED BY <3>2, <3>3, <4>0, <4>2, <5>2 DEF Awaited
      <4>3. CASE j = i + 1
        <5>1. j # i /\ j # i - 1 /\ j - 1 = i
          BY <4>3 DEF Chain
        <5>2. ctl'[j] = ctl[j] /\ lost'[j] = lost[j]
          BY <3>3, <5>1
        <5> QED BY <2>1, <3>3, <4>0, <5>1, <5>2 DEF Awaited
      <4>4. CASE j # i /\ j # i - 1 /\ j # i + 1
        <5>1. j - 1 # i /\ j - 1 # i - 1
          BY <4>4 DEF Chain
        <5>2. ctl'[j] = ctl[j] /\ lost'[j] = lost[j] /\ ctl'[j-1] = ctl[j-1]
          BY <3>3, <4>0, <4>4, <5>1
        <5> QED BY <4>0, <5>2 DEF Awaited
      <4> QED BY <4>1, <4>2, <4>3, <4>4
    <3>7. FirstRaces'
      <4>1. CASE i - 1 = 1
        BY <1>0, <1>8, <3>1, <3>2, <3>3, <4>1 DEF Onion, FirstRaces
      <4>2. CASE i - 1 # 1
        <5>1. ctl'[1] = ctl[1] /\ lost'[1] = lost[1]
          BY <1>0, <2>4, <3>3, <4>2 DEF Chain
        <5> QED BY <1>8, <3>1, <5>1 DEF Onion, FirstRaces
      <4> QED BY <4>1, <4>2
    <3> QED BY <3>5, <3>6, <3>7 DEF Onion, Nested
  <2> QED BY <2>3, <2>4 DEF Chain
<1>9. ASSUME NEW i \in Chain, Ends(i) PROVE Onion'
  <2>1. PICK err \in Errors :
          IF lost[i]
          THEN /\ ctl' = [ctl EXCEPT ![i] = "ended"]
               /\ UNCHANGED <<stage, ctx, cors, answer>>
          ELSE Settled(i, err, [ctl EXCEPT ![i] = "ended"])
    BY <1>9 DEF Ends
  <2>2. /\ ctl[i] = "running" /\ err \in Errors
        /\ UNCHANGED <<onError, pending, invalid, lost, left, age>>
    BY <1>9 DEF Ends, Errors, TypeOK
  <2>3. CASE lost[i]
    <3>1. /\ ctl'[i] = "ended" /\ UNCHANGED stage
          /\ \A j \in Chain : j # i => ctl'[j] = ctl[j]
      BY <2>1, <2>3 DEF TypeOK
    <3>2. Fresh'
      BY <2>2, <2>3, <3>1 DEF Onion, Fresh
    <3>3. ASSUME NEW j \in Chain, j > 1 PROVE Awaited(j)'
      <4>1. j - 1 \in Chain /\ Awaited(j)
        BY <3>3 DEF Chain, Onion, Nested
      <4>2. CASE j = i
        BY <3>1, <4>2 DEF Awaited
      <4>3. CASE j # i
        BY <2>2, <3>1, <4>1, <4>3 DEF Awaited
      <4> QED BY <4>2, <4>3
    <3>4. FirstRaces'
      BY <1>0, <2>2, <2>3, <3>1 DEF Onion, FirstRaces
    <3> QED BY <3>2, <3>3, <3>4 DEF Onion, Nested
  <2>4. CASE ~lost[i]
    <3>1. [ctl EXCEPT ![i] = "ended"] # ctl
      BY <2>2 DEF TypeOK
    <3> QED BY <1>8, <2>1, <2>2, <2>4, <3>1
  <2> QED BY <2>3, <2>4
<1>10. ASSUME NEW i \in Chain, TimerFires(i) PROVE Onion'
  <2>1. /\ Settled(i, "timeout", ctl) /\ "timeout" \in Errors
        /\ ctl[i] \in {"running", "next"} /\ ~lost[i]
        /\ lost' = [lost EXCEPT ![i] = TRUE]
        /\ UNCHANGED <<left, age>>
    BY <1>10 DEF TimerFires, Due, Racing, Errors, Thrown
  <2> QED BY <1>8, <2>1
<1>11. ASSUME NEW v \in Validators, ValidatorSettles(v) PROVE Onion'
  BY <1>11 DEF ValidatorSettles, Onion, Fresh, Nested, Awaited, FirstRaces
<1> QED BY Steps, <1>1, <1>2, <1>3, <1>4, <1>5, <1>6, <1>7, <1>9, <1>10, <1>11

LEMMA OnionAlways == Spec => [](TypeOK /\ Onion)
<1>1. Init => TypeOK /\ Onion
  BY TypeInit, OnionInit
<1>2. TypeOK /\ Onion /\ [Next]_vars => (TypeOK /\ Onion)'
  BY TypeNext, OnionNext
<1> QED BY <1>1, <1>2, PTL DEF Spec

(* A route with a timeout is out of its controllers when the time is up,   *)
(* however deep they nest and whichever of them hang.                      *)
THEOREM AnswersComeInTime == Spec => []AnsweredInTime
<1>1. TypeOK /\ Onion => AnsweredInTime
  <2> SUFFICES ASSUME TypeOK, Onion, stage = "controllers", Timeout > 0
               PROVE  age <= Timeout
    BY DEF AnsweredInTime
  <2>1. 1 \in Chain
    BY RequestAssumption DEF Chain
  <2>2. age \in Nat /\ left[1] \in Nat /\ Timeout \in Nat
    BY <2>1, RequestAssumption DEF TypeOK
  <2> QED BY <2>2 DEF Onion, FirstRaces
<1> QED BY <1>1, OnionAlways, PTL

-----------------------------------------------------------------------------
(* Controllers run on validated input.                                     *)

LEMMA CheckedNext ==
  TypeOK /\ Onion /\ ControllersRunChecked /\ [Next]_vars => ControllersRunChecked'
<1> SUFFICES ASSUME TypeOK, Onion, ControllersRunChecked, [Next]_vars
             PROVE  ControllersRunChecked'
  OBVIOUS
<1>1. CASE Early
  <2>1. UNCHANGED ctl /\ \A i \in Chain : ctl[i] = "idle"
    BY <1>1 DEF Early, Deny, PolicyThrows, Allow, BodyIsBad, BodyIsRead,
                UnknownKey, Return, controllers, Onion, Fresh, OnTheWay
  <2> QED BY <2>1 DEF ControllersRunChecked
<1>2. CASE Validated
  <2>1. CASE invalid # None
    BY <1>2, <2>1 DEF Validated, controllers, ControllersRunChecked
  <2>2. CASE invalid = None
    BY <1>2, <2>2 DEF Validated, AllSettled, ControllersRunChecked
  <2> QED BY <2>1, <2>2
<1>3. CASE OnErrorEnds \/ Tick \/ UNCHANGED vars
  BY <1>3 DEF OnErrorEnds, Tick, vars, controllers, ControllersRunChecked
<1>4. ASSUME NEW i \in Chain, Write(i) \/ CallNext(i) \/ Ends(i) \/ TimerFires(i)
      PROVE  ControllersRunChecked'
  <2>1. UNCHANGED <<pending, invalid>>
    BY <1>4 DEF Write, CallNext, Ends, TimerFires
  <2>2. CASE \E j \in Chain : ctl[j] # "idle"
    BY <2>1, <2>2 DEF ControllersRunChecked
  <2>3. CASE \A j \in Chain : ctl[j] = "idle"
    BY <1>4, <2>1, <2>3 DEF Write, CallNext, Ends, TimerFires, Due, Racing, controllers,
                            ControllersRunChecked
  <2> QED BY <2>2, <2>3
<1>5. ASSUME NEW v \in Validators, ValidatorSettles(v) PROVE ControllersRunChecked'
  <2>1. pending' \subseteq pending /\ (invalid' = invalid \/ stage = "validate")
    BY <1>5 DEF ValidatorSettles
  <2>2. stage = "validate" => \A i \in Chain : ctl[i] = "idle"
    BY DEF Onion, Fresh, OnTheWay
  <2>3. UNCHANGED ctl
    BY <1>5 DEF ValidatorSettles, controllers
  <2> QED BY <2>1, <2>2, <2>3 DEF ControllersRunChecked
<1> QED BY Steps, <1>1, <1>2, <1>3, <1>4, <1>5

(* No controller runs before the checks the middleware awaits are through, *)
(* or after one was seen to reject, in whatever order they settle; only    *)
(* the functions of a file's checks may still be on their way.             *)
THEOREM ControllersAreChecked == Spec => []ControllersRunChecked
<1>1. Init => ControllersRunChecked
  BY DEF Init, ControllersRunChecked
<1> QED BY <1>1, CheckedNext, OnionAlways, PTL DEF Spec

-----------------------------------------------------------------------------
(* The answer.                                                             *)

(* The status says whose body it is.                                       *)
Fits(response) == response.status \in {408, 500} <=> response.by = "errorHandler"

(* The error handler has not spoken while the request is on its way; an    *)
(* answer is final.                                                        *)
Speaks ==
  /\ stage \in OnTheWay \cup {"controllers"} =>
       cors /\ answer = None /\ ctx.by \in {"nobody", "controller"} /\ Fits(ctx)
  /\ stage = "onError" => onError = "awaits" /\ answer = None

LEMMA SpeaksInit == Init => Speaks /\ AnswerIsWhole
<1> SUFFICES ASSUME Init PROVE Speaks /\ AnswerIsWhole
  OBVIOUS
<1>1. By(404, "nobody").by = "nobody" /\ By(404, "nobody").status = 404
  BY Built
<1> QED BY <1>1 DEF Init, Speaks, AnswerIsWhole, Fits, OnTheWay

(* A timer that fires after the answer is not the first one's.             *)
LEMMA FirstStays ==
  ASSUME TypeOK, Onion, [Next]_vars, stage = "sent"
  PROVE  lost'[1] => lost[1]
<1> 1 \in Chain
  BY RequestAssumption DEF Chain
<1>1. CASE Early \/ OnErrorEnds \/ Tick \/ UNCHANGED vars \/ Validated
  BY <1>1 DEF Early, Deny, PolicyThrows, Allow, BodyIsBad, BodyIsRead, UnknownKey,
              OnErrorEnds, Tick, Validated, vars, controllers
<1>2. ASSUME \/ \E v \in Validators : ValidatorSettles(v)
             \/ \E j \in Chain : Write(j) \/ Ends(j)
      PROVE  lost'[1] => lost[1]
  BY <1>2 DEF ValidatorSettles, Write, Ends, controllers
<1>3. ASSUME NEW j \in Chain, CallNext(j) PROVE lost'[1] => lost[1]
  <2>1. j + 1 # 1 /\ lost' = [lost EXCEPT ![j+1] = FALSE]
    BY <1>3 DEF CallNext, Enter, Chain
  <2> QED BY <2>1 DEF TypeOK
<1>4. ASSUME NEW j \in Chain, TimerFires(j) PROVE lost'[1] => lost[1]
  <2>1. j # 1
    BY <1>4 DEF TimerFires, Due, Racing, Onion, FirstRaces
  <2> QED BY <1>4, <2>1 DEF TimerFires, TypeOK
<1> QED BY Steps, <1>1, <1>2, <1>3, <1>4

LEMMA SpeaksNext ==
  TypeOK /\ Onion /\ Speaks /\ AnswerIsWhole /\ [Next]_vars => Speaks' /\ AnswerIsWhole'
<1> SUFFICES ASSUME TypeOK, Onion, Speaks, AnswerIsWhole, [Next]_vars
             PROVE  Speaks' /\ AnswerIsWhole'
  OBVIOUS
<1> USE DEF controllers
<1>0. 1 \in Chain
  BY RequestAssumption DEF Chain
<1>b. answer # None => stage = "sent"
  BY DEF TypeOK, Speaks, OnTheWay
<1>c. UNCHANGED onError
  BY Steps DEF Early, Deny, PolicyThrows, Allow, BodyIsBad, BodyIsRead, UnknownKey,
               ValidatorSettles, Validated, OnErrorEnds, Tick, Write, CallNext, Ends,
               TimerFires, vars
(* Steps that leave the answer alone.                                      *)
<1>1. ASSUME UNCHANGED <<cors, answer>>,
             stage' = stage \/ {stage, stage'} \subseteq OnTheWay \cup {"controllers"},
             ctx' = ctx \/ \E i \in Chain : ctx' = ByController(i)
      PROVE  Speaks' /\ AnswerIsWhole'
  <2>1. AnswerIsWhole'
    <3> SUFFICES ASSUME answer # None, onError # "awaits"
                 PROVE  AnswerIsWhole'
      BY <1>1, <1>c DEF AnswerIsWhole
    <3>1. lost'[1] => lost[1]
      BY <1>b, FirstStays
    <3> QED BY <1>1, <3>1 DEF AnswerIsWhole
  <2>2. ASSUME stage' \in OnTheWay \cup {"controllers"}
        PROVE  cors' /\ answer' = None /\ ctx'.by \in {"nobody", "controller"} /\ Fits(ctx)'
    <3>1. cors /\ answer = None /\ ctx.by \in {"nobody", "controller"} /\ Fits(ctx)
      BY <1>1, <2>2 DEF Speaks
    <3>2. CASE ctx' = ctx
      BY <1>1, <3>1, <3>2 DEF Fits
    <3>3. CASE \E i \in Chain : ctx' = ByController(i)
      BY <1>1, <3>1, <3>3, BuiltByController DEF Fits
    <3> QED BY <1>1, <3>2, <3>3
  <2>3. stage' = "onError" => onError' = "awaits" /\ answer' = None
    BY <1>1, <1>c DEF Speaks, OnTheWay
  <2> QED BY <1>1, <2>1, <2>2, <2>3 DEF Speaks
(* Steps that return to the middlewares.                                   *)
<1>2. ASSUME NEW final, Return(final), Fits(final), ~lost'[1],
             final.by \notin {"errorHandler", "onError"}
      PROVE  Speaks' /\ AnswerIsWhole'
  <2>1. stage' = "sent" /\ ~cors' /\ answer' = final
    BY <1>2 DEF Return
  <2>2. Speaks'
    BY <1>2, <2>1 DEF Speaks, OnTheWay
  <2>3. AnswerIsWhole'
    BY <1>0, <1>2, <2>1 DEF AnswerIsWhole, Fits
  <2> QED BY <2>2, <2>3
(* Steps that throw to the error handler.                                  *)
<1>3. ASSUME NEW err \in Errors, Throw(err), lost'[1] => err = "timeout",
             stage \in OnTheWay \cup {"controllers"}
      PROVE  Speaks' /\ AnswerIsWhole'
  <2>1. /\ stage' \in {"onError", "sent"} /\ UNCHANGED cors
        /\ stage' = "onError" => onError = "awaits" /\ UNCHANGED answer
        /\ stage' = "sent" => onError # "awaits" /\ answer' = ctx'
        /\ ctx'.by \in {"errorHandler", "onError"}
        /\ ctx'.status \in {408, 500} <=> ctx'.by = "errorHandler"
        /\ err = "timeout" => ctx' = By(408, "errorHandler") \/ ctx'.by = "onError"
    BY <1>3, ThrowLeaves
  <2>2. cors /\ answer = None
    BY <1>3 DEF Speaks
  <2>3. Speaks'
    BY <1>3, <1>c, <2>1, <2>2 DEF Speaks, OnTheWay
  <2>4. AnswerIsWhole'
    BY <1>3, <1>c, <2>1, <2>2 DEF AnswerIsWhole, By
  <2> QED BY <2>3, <2>4
<1>5. CASE Early
  <2>1. UNCHANGED lost /\ stage \in OnTheWay /\ ~lost'[1]
    BY <1>0, <1>5 DEF Early, Deny, PolicyThrows, Allow, BodyIsBad, BodyIsRead, UnknownKey,
                      OnTheWay, Onion, Fresh
  <2>2. CASE Deny
    <3>1. /\ By(403, "policy").by = "policy" /\ By(403, "policy").status = 403
          /\ Return(By(403, "policy"))
      BY <2>2, Built DEF Deny
    <3>2. Fits(By(403, "policy"))
      BY <3>1 DEF Fits
    <3> QED BY <1>2, <2>1, <3>1, <3>2
  <2>3. CASE PolicyThrows \/ BodyIsBad \/ UnknownKey
    <3>1. PICK err \in Errors : Throw(err)
      BY <2>3 DEF PolicyThrows, BodyIsBad, UnknownKey, Errors, Thrown
    <3> QED BY <1>3, <2>1, <3>1
  <2>4. CASE Allow \/ BodyIsRead
    <3>1. UNCHANGED <<cors, answer, ctx>> /\ {stage, stage'} \subseteq OnTheWay
      BY <2>4 DEF Allow, BodyIsRead, OnTheWay
    <3> QED BY <1>1, <3>1
  <2> QED BY <1>5, <2>2, <2>3, <2>4 DEF Early
<1>6. CASE Validated
  <2>1. stage \in OnTheWay
    BY <1>6 DEF Validated, OnTheWay
  <2>2. CASE invalid # None
    <3>1. /\ By(400, "validator").by = "validator" /\ By(400, "validator").status = 400
          /\ Return(By(400, "validator")) /\ UNCHANGED lost
      BY <1>6, <2>2, Built DEF Validated
    <3>2. Fits(By(400, "validator"))
      BY <3>1 DEF Fits
    <3>3. ~lost'[1]
      BY <1>0, <2>1, <3>1 DEF Onion, Fresh
    <3> QED BY <1>2, <3>1, <3>2, <3>3
  <2>3. CASE invalid = None
    <3>1. stage' = "controllers" /\ UNCHANGED <<ctx, cors, answer>>
      BY <1>6, <2>3 DEF Validated
    <3> QED BY <1>1, <2>1, <3>1
  <2> QED BY <2>2, <2>3
<1>7. CASE OnErrorEnds
  <2>1. stage = "onError" /\ stage' = "sent" /\ onError = "awaits"
    BY <1>7 DEF OnErrorEnds, Speaks
  <2> QED BY <1>c, <2>1 DEF Speaks, AnswerIsWhole, OnTheWay
<1>8. CASE Tick \/ UNCHANGED vars \/ \E v \in Validators : ValidatorSettles(v)
  BY <1>1, <1>8 DEF Tick, vars, ValidatorSettles
<1>9. ASSUME NEW i \in Chain, Write(i) \/ CallNext(i) PROVE Speaks' /\ AnswerIsWhole'
  BY <1>1, <1>9 DEF Write, CallNext
(* A race that settles: above it, or out of the request.                   *)
<1>10. ASSUME NEW i \in Chain, NEW err \in Errors,
              NEW after \in [Chain -> {"idle", "running", "next", "ended"}],
              Settled(i, err, after), ctl[i] \in {"running", "next"}, ~lost[i],
              lost' = lost \/ err = "timeout"
       PROVE  Speaks' /\ AnswerIsWhole'
  <2>1. CASE i > 1
    <3>1. UNCHANGED <<stage, ctx, cors, answer>>
      BY <1>10, <2>1, SettledMoves
    <3> QED BY <1>1, <3>1
  <2>2. CASE i = 1
    <3>1. stage = "controllers"
      BY <1>10, <2>2 DEF Onion, Fresh, FirstRaces, TypeOK, OnTheWay
    <3>2. IF err = "none" THEN Return(ctx) ELSE Throw(err)
      BY <1>10, <2>2 DEF Settled
    <3>3. ctx.by \in {"nobody", "controller"} /\ Fits(ctx)
      BY <3>1 DEF Speaks
    <3>4. CASE err = "none"
      BY <1>10, <1>2, <2>2, <3>2, <3>3, <3>4
    <3>5. CASE err # "none"
      BY <1>10, <1>3, <2>2, <3>1, <3>2, <3>5
    <3> QED BY <3>4, <3>5
  <2> QED BY <2>1, <2>2 DEF Chain
<1>11. ASSUME NEW i \in Chain, Ends(i) PROVE Speaks' /\ AnswerIsWhole'
  <2>1. PICK err \in Errors :
          IF lost[i]
          THEN /\ ctl' = [ctl EXCEPT ![i] = "ended"]
               /\ UNCHANGED <<stage, ctx, cors, answer>>
          ELSE Settled(i, err, [ctl EXCEPT ![i] = "ended"])
    BY <1>11 DEF Ends
  <2>2. ctl[i] = "running" /\ UNCHANGED lost
    BY <1>11 DEF Ends
  <2>3. [ctl EXCEPT ![i] = "ended"] \in [Chain -> {"idle", "running", "next", "ended"}]
    BY DEF TypeOK
  <2>5. CASE lost[i]
    BY <1>1, <2>1, <2>5
  <2>6. CASE ~lost[i]
    BY <1>10, <2>1, <2>2, <2>3, <2>6
  <2> QED BY <2>5, <2>6
<1>12. ASSUME NEW i \in Chain, TimerFires(i) PROVE Speaks' /\ AnswerIsWhole'
  <2>1. /\ Settled(i, "timeout", ctl) /\ "timeout" \in Errors
        /\ ctl[i] \in {"running", "next"} /\ ~lost[i]
        /\ ctl \in [Chain -> {"idle", "running", "next", "ended"}]
    BY <1>12 DEF TimerFires, Due, Racing, Errors, Thrown, TypeOK
  <2> QED BY <1>10, <2>1
<1> QED BY Steps, <1>5, <1>6, <1>7, <1>8, <1>9, <1>11, <1>12

(* The error handler alone answers what was thrown, with its own body, and *)
(* a request whose outermost race was lost to the timer is answered 408,   *)
(* or by onError: no controller that lost it is what the client gets.      *)
THEOREM AnswersAreWhole == Spec => []AnswerIsWhole
<1>1. Init => Speaks /\ AnswerIsWhole
  BY SpeaksInit
<1> QED BY <1>1, SpeaksNext, OnionAlways, PTL DEF Spec

=============================================================================
