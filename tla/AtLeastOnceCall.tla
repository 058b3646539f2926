-------------------------- MODULE AtLeastOnceCall --------------------------
(***************************************************************************)
(* What ServiceProxy.send promises its caller, without saying how: a call  *)
(* is answered at most once, an answer means that the handler ran, and the *)
(* handler runs at most Budget times -- possibly after the caller was told *)
(* that the call failed.                                                   *)
(***************************************************************************)
EXTENDS Integers

CONSTANTS Calls, Budget

VARIABLES state, effects
vars == <<state, effects>>

Init ==
  /\ state = [c \in Calls |-> "idle"]
  /\ effects = [c \in Calls |-> 0]

Start(c) ==
  /\ state[c] = "idle"
  /\ state' = [state EXCEPT ![c] = "pending"]
  /\ UNCHANGED effects

(* The handler takes effect; nothing but the budget ties it to the caller. *)
Effect(c) ==
  /\ state[c] # "idle"
  /\ effects[c] < Budget[c]
  /\ effects' = [effects EXCEPT ![c] = @ + 1]
  /\ UNCHANGED state

Answer(c) ==
  /\ state[c] = "pending" /\ effects[c] > 0
  /\ state' = [state EXCEPT ![c] = "answered"]
  /\ UNCHANGED effects

GiveUp(c) ==
  /\ state[c] = "pending"
  /\ \E how \in {"failed", "cancelled"} : state' = [state EXCEPT ![c] = how]
  /\ UNCHANGED effects

Next == \E c \in Calls : Start(c) \/ Effect(c) \/ Answer(c) \/ GiveUp(c)

Spec == Init /\ [][Next]_vars
===========================================================================
