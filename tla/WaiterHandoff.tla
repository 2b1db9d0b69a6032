---------------------------- MODULE WaiterHandoff ----------------------------
(***************************************************************************)
(* What a LockWaiter promises about the guard its worker obtains: it is    *)
(* given to the caller at most once, never to a caller who has given up,   *)
(* and then it is released, always and by itself.                          *)
(***************************************************************************)
VARIABLES
  guard,            \* "none", "held" by the library, "given", "released"
  over              \* the caller has given up (timeout, cancellation)

vars == <<guard, over>>

Init == guard = "none" /\ over = FALSE

Grant == guard = "none" /\ guard' = "held" /\ UNCHANGED over

Give == guard = "held" /\ ~over /\ guard' = "given" /\ UNCHANGED over

Release == guard = "held" /\ guard' = "released" /\ UNCHANGED over

GiveUp == guard # "given" /\ over' = TRUE /\ UNCHANGED guard

Next == Grant \/ Give \/ Release \/ GiveUp

Safe == Init /\ [][Next]_vars

Spec == Safe /\ WF_vars(over /\ Release)

=============================================================================
