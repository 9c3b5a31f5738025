---------------------------- MODULE MCMutexSupport ----------------------------
(* Instances of MutexSupport for TLC. *)
EXTENDS MutexSupport

(* No property says anything once an update was lost, so a state where it   *)
(* was is checked but not explored further.                                 *)
NoUpdateLost == ~lostUpdate

================================================================================
