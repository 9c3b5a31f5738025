--------------------------- MODULE SerialExecution ---------------------------
(***************************************************************************)
(* What a TaskScheduler with "in-order single-threaded semantics" promises *)
(* to the code that submits jobs to it: at most one job body executes at a *)
(* time, and bodies begin in the order in which the jobs were submitted,   *)
(* a job leaving the line without executing only when its turn has come.   *)
(* Nothing here says how that is done; SingleThreadedScheduler implements  *)
(* it (see the class comment, SingleThreadedScheduler.java:20-31).         *)
(***************************************************************************)
EXTENDS Sequences

CONSTANTS
  Job,   \* the jobs that may be submitted
  None   \* "no job"

VARIABLES
  submitted,  \* the jobs the scheduler has accepted
  waiting,    \* accepted jobs whose turn has not come, oldest first
  active      \* the job whose body is executing, or None

vars == <<submitted, waiting, active>>

Init ==
  /\ submitted = {}
  /\ waiting = <<>>
  /\ active = None

(* A client's job is accepted and joins the end of the line. *)
Submit(j) ==
  /\ j \notin submitted
  /\ submitted' = submitted \cup {j}
  /\ waiting' = Append(waiting, j)
  /\ UNCHANGED active

(* The oldest waiting job starts, provided that nothing else executes. *)
Start ==
  /\ active = None
  /\ waiting # <<>>
  /\ active' = Head(waiting)
  /\ waiting' = Tail(waiting)
  /\ UNCHANGED submitted

(* The oldest waiting job was cancelled, or nobody is left to execute it. *)
Drop ==
  /\ waiting # <<>>
  /\ waiting' = Tail(waiting)
  /\ UNCHANGED <<submitted, active>>

(* The executing body returns or throws. *)
Finish ==
  /\ active # None
  /\ active' = None
  /\ UNCHANGED <<submitted, waiting>>

Next == (\E j \in Job : Submit(j)) \/ Start \/ Drop \/ Finish

Spec == Init /\ [][Next]_vars

==============================================================================
