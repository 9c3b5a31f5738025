---------------------------- MODULE MCTaskExecution ----------------------------
(* Instances of TaskExecution for TLC. *)
EXTENDS TaskExecution, TLC

================================================================================
