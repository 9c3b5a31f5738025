----------------------------- MODULE TaskExecution -----------------------------
(***************************************************************************)
(* BasicExecutionManager.submit and the BasicTask it runs: threads that    *)
(* submit, cancel and get() the same tasks, and the thread of the executor *)
(* that each task is handed to.                                            *)
(*                                                                         *)
(* submit and cancel hold the task's monitor throughout, and get() holds   *)
(* it for blockUntilStarted; the executor's thread only takes it to notify,*)
(* so the flags that it reads and the future that it completes change      *)
(* while a canceller is half way.                                          *)
(***************************************************************************)
EXTENDS Integers

CONSTANTS
  Task,
  Client,         \* the threads that call the manager and the tasks
  MaxIncomplete,  \* bound on incompleteTaskCount, which rejections let grow
  None

ASSUME NoneAssumption == None \notin Task \cup Client
ASSUME MaxAssumption == MaxIncomplete \in Nat

VARIABLES
  monitor,     \* the client in a synchronized method of the task
  cancelled,   \* BasicTask.cancelled
  result,      \* BasicTask.result # null
  future,      \* the FutureTask that the executor made for the task
  thread,      \* BasicTask.thread # null
  begun,       \* startTimeUtc is set
  ended,       \* endTimeUtc is set
  job,         \* where the executor's thread is in the task: see Job
  outcome,     \* its local result and error
  incomplete,  \* incompleteTaskCount
  shutdown,    \* shutdownNow was called
  handed,      \* history: how often the task was given to the executor
  promised,    \* history: a cancel() of the task returned true
  pc,          \* where the client is: see Pc
  arg,         \* the task of its call
  verdict,     \* cancel's local variable
  got          \* what its last get() ended with

taskVars == <<cancelled, result, future>>
times == <<thread, begun, ended>>
manager == <<incomplete, shutdown>>
history == <<handed, promised>>
clientVars == <<pc, arg, verdict, got>>
vars == <<monitor, taskVars, times, job, outcome, manager, history, clientVars>>

(* Not handed over; handed over; in the wrapper; with its thread set; at the *)
(* test before the job; in the job; out of it; end time set; thread cleared; *)
(* waiters notified; the future completed or found cancelled.                *)
Job == {"none", "ready", "starting", "threaded", "testing", "running",
        "ending", "ended", "cleared", "notified", "over"}

(* In submit: before and after the executor took the job.  In cancel: before *)
(* and after the future's.  In get: parked, notified, at result.get().       *)
Pc == {"idle", "submitting", "submitted", "cancelling", "marking",
       "waiting", "woken", "awaiting"}

Outcomes == {"value", "error"}

Init ==
  /\ monitor = [t \in Task |-> None]
  /\ cancelled = [t \in Task |-> FALSE]
  /\ result = [t \in Task |-> FALSE]
  /\ future = [t \in Task |-> "none"]
  /\ thread = [t \in Task |-> FALSE]
  /\ begun = [t \in Task |-> FALSE]
  /\ ended = [t \in Task |-> FALSE]
  /\ job = [t \in Task |-> "none"]
  /\ outcome = [t \in Task |-> "error"]
  /\ incomplete = 0 /\ shutdown = FALSE
  /\ handed = [t \in Task |-> 0]
  /\ promised = [t \in Task |-> FALSE]
  /\ pc = [c \in Client |-> "idle"]
  /\ arg = [c \in Client |-> None]
  /\ verdict = [c \in Client |-> TRUE]
  /\ got = [c \in Client |-> "nothing"]

IsCancelled(t) == cancelled[t] \/ (result[t] /\ future[t] = "cancelled")
IsDone(t) == cancelled[t] \/ (result[t] /\ future[t] \in {"value", "error", "cancelled"})

Call(c, t, to) ==
  /\ pc[c] = "idle"
  /\ pc' = [pc EXCEPT ![c] = to]
  /\ arg' = [arg EXCEPT ![c] = t]
  /\ UNCHANGED <<verdict, got>>

(* pc after a notifyAll on the task and c's own step. *)
NotifyAll(t) == [d \in Client |-> IF pc[d] = "waiting" /\ arg[d] = t THEN "woken" ELSE pc[d]]

--------------------------------------------------------------------------------
(* submit(flags, task), synchronized (task) *)

(* Mutated form: the task is not locked while it is handed over. *)
SubmitUnlocked(c, t) ==
  /\ ~result[t] /\ incomplete < MaxIncomplete
  /\ Call(c, t, "submitting")
  /\ incomplete' = incomplete + 1
  /\ UNCHANGED <<monitor, taskVars, times, job, outcome, shutdown, history>>

(* A task with a result is returned as it is.  beforeSubmit counts it. *)
Submit(c, t) ==
  /\ monitor[t] = None /\ ~result[t] /\ incomplete < MaxIncomplete
  /\ Call(c, t, "submitting")
  /\ monitor' = [monitor EXCEPT ![t] = c]
  /\ incomplete' = incomplete + 1
  /\ UNCHANGED <<taskVars, times, job, outcome, shutdown, history>>

HandOver(c) ==
  LET t == arg[c] IN
  /\ pc[c] = "submitting" /\ ~shutdown
  /\ future' = [future EXCEPT ![t] = "pending"]
  /\ job' = [job EXCEPT ![t] = "ready"]
  /\ handed' = [handed EXCEPT ![t] = @ + 1]
  /\ pc' = [pc EXCEPT ![c] = "submitted"]
  /\ UNCHANGED <<monitor, cancelled, result, times, outcome, manager, promised, arg, verdict, got>>

(* RejectedExecutionException: the count stays up. *)
Rejected(c) ==
  /\ pc[c] = "submitting" /\ shutdown
  /\ monitor' = [monitor EXCEPT ![arg[c]] = None]
  /\ pc' = [pc EXCEPT ![c] = "idle"]
  /\ UNCHANGED <<taskVars, times, job, outcome, incomplete, shutdown, history, arg, verdict, got>>

InitResult(c) ==
  LET t == arg[c] IN
  /\ pc[c] = "submitted"
  /\ result' = [result EXCEPT ![t] = TRUE]
  /\ monitor' = [monitor EXCEPT ![t] = None]
  /\ pc' = [NotifyAll(t) EXCEPT ![c] = "idle"]
  /\ UNCHANGED <<cancelled, future, times, job, outcome, manager, history, arg, verdict, got>>

Shutdown ==
  /\ ~shutdown /\ shutdown' = TRUE
  /\ UNCHANGED <<monitor, taskVars, times, job, outcome, incomplete, history, clientVars>>

--------------------------------------------------------------------------------
(* BasicTask.cancel(true), synchronized.  A task that is done returns false *)
(* at once.  The interrupt may make the job fail, which it may do anyway.   *)

Cancel(c, t) ==
  /\ monitor[t] = None /\ ~IsDone(t)
  /\ pc[c] = "idle"
  /\ pc' = [pc EXCEPT ![c] = "cancelling"]
  /\ arg' = [arg EXCEPT ![c] = t]
  /\ verdict' = [verdict EXCEPT ![c] = TRUE]
  /\ monitor' = [monitor EXCEPT ![t] = c]
  /\ UNCHANGED <<taskVars, times, job, outcome, manager, history, got>>

CancelFuture(c) ==
  LET t == arg[c] IN
  /\ pc[c] = "cancelling"
  /\ IF result[t] /\ future[t] = "pending"
       THEN future' = [future EXCEPT ![t] = "cancelled"]
       ELSE UNCHANGED future
  /\ verdict' = [verdict EXCEPT ![c] = result[t] => future[t] = "pending"]
  /\ pc' = [pc EXCEPT ![c] = "marking"]
  /\ UNCHANGED <<monitor, cancelled, result, times, job, outcome, manager, history, arg, got>>

(* Mutated form: cancel does not notify. *)
CancelMarkSilently(c) ==
  LET t == arg[c] IN
  /\ pc[c] = "marking"
  /\ cancelled' = [cancelled EXCEPT ![t] = TRUE]
  /\ promised' = [promised EXCEPT ![t] = @ \/ verdict[c]]
  /\ monitor' = [monitor EXCEPT ![t] = None]
  /\ pc' = [pc EXCEPT ![c] = "idle"]
  /\ UNCHANGED <<result, future, times, job, outcome, manager, handed, arg, verdict, got>>

CancelMark(c) ==
  LET t == arg[c] IN
  /\ pc[c] = "marking"
  /\ cancelled' = [cancelled EXCEPT ![t] = TRUE]
  /\ promised' = [promised EXCEPT ![t] = @ \/ verdict[c]]
  /\ monitor' = [monitor EXCEPT ![t] = None]
  /\ pc' = [NotifyAll(t) EXCEPT ![c] = "idle"]
  /\ UNCHANGED <<result, future, times, job, outcome, manager, handed, arg, verdict, got>>

--------------------------------------------------------------------------------
(* BasicTask.get(): blockUntilStarted, synchronized, then result.get() *)

(* One turn of blockUntilStarted's loop, up to its wait(). *)
Block(c, t) ==
  /\ monitor[t] = None
  /\ pc' = [pc EXCEPT ![c] = IF cancelled[t] THEN "idle"
                             ELSE IF result[t] THEN "awaiting" ELSE "waiting"]
  /\ got' = [got EXCEPT ![c] = IF cancelled[t] THEN "cancelled" ELSE "nothing"]
  /\ UNCHANGED <<monitor, taskVars, times, job, outcome, manager, history, verdict>>

Get(c, t) ==
  /\ pc[c] = "idle"
  /\ arg' = [arg EXCEPT ![c] = t]
  /\ Block(c, t)

(* After the wait, a result ends the loop before cancelled is looked at. *)
GetWoken(c) ==
  LET t == arg[c] IN
  /\ pc[c] = "woken"
  /\ UNCHANGED arg
  /\ IF result[t]
       THEN /\ monitor[t] = None
            /\ pc' = [pc EXCEPT ![c] = "awaiting"]
            /\ UNCHANGED <<monitor, taskVars, times, job, outcome, manager, history, verdict, got>>
       ELSE Block(c, t)

GetResult(c) ==
  LET t == arg[c] IN
  /\ pc[c] = "awaiting" /\ future[t] # "pending"
  /\ got' = [got EXCEPT ![c] = future[t]]
  /\ pc' = [pc EXCEPT ![c] = "idle"]
  /\ UNCHANGED <<monitor, taskVars, times, job, outcome, manager, history, arg, verdict>>

--------------------------------------------------------------------------------
(* The executor's thread: FutureTask.run and the callable of submitNewTask *)

JobStep(t, from, to) == job[t] = from /\ job' = [job EXCEPT ![t] = to]

Run(t) ==
  /\ JobStep(t, "ready", IF future[t] = "cancelled" THEN "over" ELSE "starting")
  /\ UNCHANGED <<monitor, taskVars, times, outcome, manager, history, clientVars>>

(* beforeStart, to the assignment of thread *)
BeforeStart(t) ==
  /\ JobStep(t, "starting", IF IsCancelled(t) THEN "testing" ELSE "threaded")
  /\ thread' = [thread EXCEPT ![t] = ~IsCancelled(t)]
  /\ UNCHANGED <<monitor, taskVars, begun, ended, outcome, manager, history, clientVars>>

SetStartTime(t) ==
  /\ JobStep(t, "threaded", "testing")
  /\ begun' = [begun EXCEPT ![t] = TRUE]
  /\ UNCHANGED <<monitor, taskVars, thread, ended, outcome, manager, history, clientVars>>

(* Mutated form: the job is called without a look at the cancellation. *)
TestForgotten(t) ==
  /\ JobStep(t, "testing", "running")
  /\ UNCHANGED <<monitor, taskVars, times, outcome, manager, history, clientVars>>

(* The test just before the job is called; else CancellationException. *)
Test(t) ==
  /\ JobStep(t, "testing", IF IsCancelled(t) THEN "ending" ELSE "running")
  /\ UNCHANGED <<monitor, taskVars, times, outcome, manager, history, clientVars>>

EndJob(t) ==
  /\ JobStep(t, "running", "ending")
  /\ \E o \in Outcomes : outcome' = [outcome EXCEPT ![t] = o]
  /\ UNCHANGED <<monitor, taskVars, times, manager, history, clientVars>>

(* Mutated form: the end time is set after the call, not in the finally block. *)
AfterEndOfValue(t) ==
  /\ JobStep(t, "ending", "ended")
  /\ ended' = [ended EXCEPT ![t] = outcome[t] = "value"]
  /\ incomplete' = incomplete - 1
  /\ UNCHANGED <<monitor, taskVars, thread, begun, outcome, shutdown, history, clientVars>>

(* afterEnd, in the finally block, to the assignment of endTimeUtc *)
AfterEnd(t) ==
  /\ JobStep(t, "ending", "ended")
  /\ ended' = [ended EXCEPT ![t] = TRUE]
  /\ incomplete' = incomplete - 1
  /\ UNCHANGED <<monitor, taskVars, thread, begun, outcome, shutdown, history, clientVars>>

ClearThread(t) ==
  /\ JobStep(t, "ended", "cleared")
  /\ thread' = [thread EXCEPT ![t] = FALSE]
  /\ UNCHANGED <<monitor, taskVars, begun, ended, outcome, manager, history, clientVars>>

NotifyEnd(t) ==
  /\ monitor[t] = None
  /\ JobStep(t, "cleared", "notified")
  /\ pc' = NotifyAll(t)
  /\ UNCHANGED <<monitor, taskVars, times, outcome, manager, history, arg, verdict, got>>

(* FutureTask.set or setException, which a cancelled future ignores *)
Complete(t) ==
  /\ JobStep(t, "notified", "over")
  /\ future' = [future EXCEPT ![t] = IF @ = "pending" THEN outcome[t] ELSE @]
  /\ UNCHANGED <<monitor, cancelled, result, times, outcome, manager, history, clientVars>>

--------------------------------------------------------------------------------
Executor(t) ==
  \/ Run(t) \/ BeforeStart(t) \/ SetStartTime(t) \/ Test(t) \/ EndJob(t)
  \/ AfterEnd(t) \/ ClearThread(t) \/ NotifyEnd(t) \/ Complete(t)

Calls(c) == \E t \in Task : Submit(c, t) \/ Cancel(c, t) \/ Get(c, t)

Continue(c) ==
  \/ HandOver(c) \/ Rejected(c) \/ InitResult(c)
  \/ CancelFuture(c) \/ CancelMark(c)
  \/ GetWoken(c) \/ GetResult(c)

Next ==
  \/ \E c \in Client : Calls(c) \/ Continue(c)
  \/ \E t \in Task : Executor(t)
  \/ Shutdown

Spec == Init /\ [][Next]_vars

(* Threads go on, and every job ends.  Weak fairness is enough for one that  *)
(* wants the monitor: submit and cancel keep it only until a task is done.   *)
Fairness ==
  /\ \A c \in Client : WF_vars(Continue(c))
  /\ \A t \in Task : WF_vars(Executor(t))

FairSpec == Spec /\ Fairness

--------------------------------------------------------------------------------
(* Properties *)

Ranges ==
  /\ monitor \in [Task -> Client \cup {None}]
  /\ cancelled \in [Task -> BOOLEAN] /\ result \in [Task -> BOOLEAN]
  /\ future \in [Task -> {"none", "pending", "value", "error", "cancelled"}]
  /\ thread \in [Task -> BOOLEAN] /\ begun \in [Task -> BOOLEAN] /\ ended \in [Task -> BOOLEAN]
  /\ job \in [Task -> Job] /\ outcome \in [Task -> Outcomes]
  /\ incomplete \in Int /\ incomplete <= MaxIncomplete /\ shutdown \in BOOLEAN
  /\ handed \in [Task -> Nat] /\ promised \in [Task -> BOOLEAN]
  /\ pc \in [Client -> Pc] /\ arg \in [Client -> Task \cup {None}]
  /\ verdict \in [Client -> BOOLEAN]
  /\ got \in [Client -> {"nothing"} \cup Outcomes \cup {"cancelled"}]

Inside == {"submitting", "submitted", "cancelling", "marking"}

(* A task's monitor belongs to the client that submits or cancels it. *)
Monitors ==
  \A c \in Client :
    /\ pc[c] # "idle" => arg[c] \in Task
    /\ \A t \in Task : monitor[t] = c <=> pc[c] \in Inside /\ arg[c] = t

(* The range of each variable, and who is inside a task's monitor. *)
TypeOK == Ranges /\ Monitors

(* However many threads submit a task, cancelled or not, it is given to the *)
(* executor once: its job cannot run twice.                                 *)
HandedOverOnce == \A t \in Task : handed[t] <= 1

(* The order that BasicTask documents (111-128), for a task that ends by    *)
(* itself: when isDone is true the start and end times are set and the      *)
(* thread is cleared; between the two times there is a thread to show.      *)
TimesInOrder ==
  \A t \in Task :
    /\ IsDone(t) /\ ~IsCancelled(t) => begun[t] /\ ended[t] /\ ~thread[t]
    /\ begun[t] /\ ~ended[t] => thread[t]

(* Once cancel() has returned true, no get() returns a value, even one that *)
(* was parked before and wakes after the cancelled task was submitted.      *)
CancelIsFinal ==
  [][\A c \in Client :
       pc[c] = "awaiting" /\ pc'[c] = "idle" /\ promised[arg[c]] => got'[c] # "value"]_vars

(* A get() of a task that was submitted or cancelled returns: the notify of *)
(* submit, of cancel or of the executor's thread is not missed.             *)
GetReturns ==
  \A c \in Client, t \in Task :
    pc[c] \in {"waiting", "woken", "awaiting"} /\ arg[c] = t /\ (result[t] \/ cancelled[t])
      ~> pc[c] \notin {"waiting", "woken", "awaiting"}

================================================================================
