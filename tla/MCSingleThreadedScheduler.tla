---------------------- MODULE MCSingleThreadedScheduler ----------------------
(* Instances of SingleThreadedScheduler for TLC. *)
EXTENDS SingleThreadedScheduler, TLC

(* The jobs are interchangeable; used only where no liveness is checked. *)
JobSymmetry == Permutations(Job)

==============================================================================
