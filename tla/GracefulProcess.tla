-------------------------- MODULE GracefulProcess --------------------------
(***************************************************************************)
(* What a nico process promises whoever runs it (a terminal, a container,  *)
(* the master of a cluster): it serves until it is signalled, it ends only *)
(* after a signal, and it ends with code 0 or 1 once and for all.          *)
(***************************************************************************)
VARIABLES phase, code
vars == <<phase, code>>

Init == phase = "serving" /\ code = "none"

Stop == phase = "serving" /\ phase' = "stopping" /\ UNCHANGED code

Exit ==
  /\ phase = "stopping"
  /\ phase' = "exited"
  /\ code' \in {"0", "1"}

Next == Stop \/ Exit

Spec == Init /\ [][Next]_vars /\ WF_vars(Exit)
=============================================================================
