----------------------------- MODULE Computation -----------------------------
(***************************************************************************)
(* The computations between the awaits: each is an operator of a module of  *)
(* its own, and is compared with what it is meant to compute.  A behaviour  *)
(* starts with one computation, picks its input, and ends, or goes on with  *)
(* the steps the computation consists of.                                   *)
(***************************************************************************)

VARIABLES
    task,   \* the computation
    input   \* its input, <<>> at first

vars == <<task, input>>

Idle(t) == task = t /\ input = <<>>
Run(x)  == input' = x /\ UNCHANGED task
Ran(t)  == task = t /\ input # <<>>
=============================================================================
