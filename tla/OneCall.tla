------------------------------- MODULE OneCall ---------------------------------
(***************************************************************************)
(* A call of a package that keeps nothing between two calls, and what it   *)
(* answers.                                                                *)
(***************************************************************************)
VARIABLES
    call,       \* <<what is called, its arguments>>
    result      \* <<its answer>>, or Pending

Pending == <<>>

Answer(package, value) ==
    /\ call[1] = package /\ result = Pending
    /\ result' = <<value>>
    /\ UNCHANGED call

Answered(package) == call[1] = package /\ result # Pending
Got == result[1]

=============================================================================
