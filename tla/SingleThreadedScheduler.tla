------------------------ MODULE SingleThreadedScheduler ------------------------
(***************************************************************************)
(* brooklyn.util.task.SingleThreadedScheduler, at the grain of its         *)
(* threads: the clients that submit, cancel and get() jobs, and the        *)
(* executor threads that execute them.  submit, onEnd and executeNow are   *)
(* synchronized on the scheduler, so submit is one step and an onEnd runs  *)
(* to its end without another onEnd or submit in between; the future that  *)
(* submit returned is cancelled and waited for under no common lock, so    *)
(* those steps interleave with every step of onEnd.                        *)
(*                                                                         *)
(* The executor is BasicExecutionManager's runner, a thread pool over a    *)
(* SynchronousQueue: a job it accepts gets a thread at once and runs even  *)
(* if shutdownNow comes later; after shutdownNow it rejects every job.     *)
(***************************************************************************)
EXTENDS Integers, Sequences

CONSTANTS
  Job,   \* the callables that clients submit, each at most once
  None   \* "no job"

ASSUME NoneNotJob == None \notin Job

VARIABLES
  order,      \* the jobs queued behind the running one
  running,    \* the AtomicBoolean
  shutdown,   \* runner.shutdownNow() has been called
  kind,       \* what submit(j) came to: see Kind
  exec,       \* where the executor is with j: see Phase
  revoked,    \* j's FutureTask was cancelled (FutureTask's own state)
  ender,      \* the job whose thread is inside onEnd, holding the monitor
  next,       \* onEnd's local qs: the job it took off the queue
  delegate,   \* j's WrappingFuture has a delegate
  cancelled,  \* WrappingFuture.cancelled
  cancelPc,   \* the thread inside cancel() on j's WrappingFuture
  getPc       \* the thread inside get() on j's future

server == <<order, running, shutdown, kind, ender, next>>
client == <<delegate, cancelled, cancelPc, getPc>>
vars == <<server, exec, revoked, client>>

(* submit not called; executed at once, the caller holding the FutureTask; *)
(* queued, the caller holding a WrappingFuture; executor threw.            *)
Kind == {"unsubmitted", "direct", "wrapped", "rejected"}

(* Not with the executor; its thread has not called FutureTask.run; in     *)
(* c.call(); in the finally block, at or inside onEnd; past onEnd, the     *)
(* FutureTask not yet completed; completed; run without calling c at all.  *)
Phase == {"none", "pending", "body", "finally", "closing", "done", "skipped"}

CancelPc == {"idle", "mark", "notify"}
GetPc == {"idle", "top", "readDelegate", "waiting", "delegated", "returned"}

Submitted(j) == kind[j] \in {"direct", "wrapped"}

(* The Future.isCancelled and isDone of the future that submit(j) returned. *)
HasFutureTask(j) == kind[j] = "direct" \/ delegate[j]
FutureTaskDone(j) == exec[j] = "done" \/ revoked[j]
IsCancelled(j) == IF HasFutureTask(j) THEN revoked[j] ELSE cancelled[j]
IsDone(j) == IF HasFutureTask(j) THEN FutureTaskDone(j) ELSE cancelled[j]

Init ==
  /\ order = <<>> /\ running = FALSE /\ shutdown = FALSE
  /\ kind = [j \in Job |-> "unsubmitted"]
  /\ exec = [j \in Job |-> "none"]
  /\ revoked = [j \in Job |-> FALSE]
  /\ ender = None /\ next = None
  /\ delegate = [j \in Job |-> FALSE]
  /\ cancelled = [j \in Job |-> FALSE]
  /\ cancelPc = [j \in Job |-> "idle"]
  /\ getPc = [j \in Job |-> "idle"]

--------------------------------------------------------------------------------
(* submit(c): the monitor is free; compareAndSet decides.  A rejected job   *)
(* leaves running set, because nothing unsets it when executeNow throws.    *)

SubmitNow(j) ==
  /\ ender = None /\ kind[j] = "unsubmitted" /\ ~running
  /\ running' = TRUE
  /\ IF shutdown
       THEN kind' = [kind EXCEPT ![j] = "rejected"] /\ UNCHANGED exec
       ELSE /\ kind' = [kind EXCEPT ![j] = "direct"]
            /\ exec' = [exec EXCEPT ![j] = "pending"]
  /\ UNCHANGED <<order, shutdown, ender, next, revoked, client>>

(* Mutated form: a submission that finds the scheduler busy executes anyway. *)
SubmitQueuedOvertakes(j) ==
  /\ ender = None /\ kind[j] = "unsubmitted" /\ running
  /\ kind' = [kind EXCEPT ![j] = "direct"]
  /\ exec' = [exec EXCEPT ![j] = "pending"]
  /\ UNCHANGED <<order, running, shutdown, ender, next, revoked, client>>

SubmitQueued(j) ==
  /\ ender = None /\ kind[j] = "unsubmitted" /\ running
  /\ order' = Append(order, j)
  /\ kind' = [kind EXCEPT ![j] = "wrapped"]
  /\ UNCHANGED <<running, shutdown, ender, next, exec, revoked, client>>

--------------------------------------------------------------------------------
(* The executor's thread for j: FutureTask.run around the wrapped callable. *)

Begin(j) ==
  /\ exec[j] = "pending" /\ ~revoked[j]
  /\ exec' = [exec EXCEPT ![j] = "body"]
  /\ UNCHANGED <<server, revoked, client>>

(* A FutureTask cancelled before it starts never calls its callable, so     *)
(* the finally block that would call onEnd does not exist for it.           *)
SkipRevoked(j) ==
  /\ exec[j] = "pending" /\ revoked[j]
  /\ exec' = [exec EXCEPT ![j] = "skipped"]
  /\ UNCHANGED <<server, revoked, client>>

(* c.call() returns or throws: either way the finally block comes next. *)
EndBody(j) ==
  /\ exec[j] = "body"
  /\ exec' = [exec EXCEPT ![j] = "finally"]
  /\ UNCHANGED <<server, revoked, client>>

Complete(j) ==
  /\ exec[j] = "closing"
  /\ exec' = [exec EXCEPT ![j] = "done"]
  /\ UNCHANGED <<server, revoked, client>>

--------------------------------------------------------------------------------
(* onEnd(), called by j's thread. *)

OnEndEnter(j) ==
  /\ exec[j] = "finally" /\ ender = None
  /\ ender' = j
  /\ UNCHANGED <<order, running, shutdown, kind, next, exec, revoked, client>>

(* Mutated form: the monitor is left with the job taken still in hand. *)
OnEndExitKeepsNext(j, phases) ==
  /\ ender' = None
  /\ next' = next
  /\ exec' = [phases EXCEPT ![j] = "closing"]

(* Leaving the monitor, and with it the callable. *)
OnEndExit(j, phases) ==
  /\ ender' = None
  /\ next' = None
  /\ exec' = [phases EXCEPT ![j] = "closing"]

(* Mutated form: running is not reset when the queue is found empty. *)
OnEndIdleStaysRunning(j) ==
  /\ ender = j /\ next = None /\ order = <<>>
  /\ OnEndExit(j, exec)
  /\ UNCHANGED <<order, running, shutdown, kind, revoked, client>>

OnEndIdle(j) ==
  /\ ender = j /\ next = None /\ order = <<>>
  /\ running' = FALSE
  /\ OnEndExit(j, exec)
  /\ UNCHANGED <<order, shutdown, kind, revoked, client>>

(* Mutated form: the queue is served newest first. *)
OnEndTakeLast(j) ==
  /\ ender = j /\ next = None /\ order # <<>>
  /\ order' = SubSeq(order, 1, Len(order) - 1)
  /\ next' = IF IsCancelled(order[Len(order)]) THEN None ELSE order[Len(order)]
  /\ UNCHANGED <<running, shutdown, kind, ender, exec, revoked, client>>

(* Take the head; a job already cancelled is forgotten and the loop goes on. *)
OnEndTake(j) ==
  /\ ender = j /\ next = None /\ order # <<>>
  /\ order' = Tail(order)
  /\ next' = IF IsCancelled(Head(order)) THEN None ELSE Head(order)
  /\ UNCHANGED <<running, shutdown, kind, ender, exec, revoked, client>>

OnEndExecute(j) ==
  /\ ender = j /\ next # None /\ exec[next] = "none" /\ ~shutdown
  /\ exec' = [exec EXCEPT ![next] = "pending"]
  /\ UNCHANGED <<server, revoked, client>>

(* RejectedExecutionException leaves onEnd: the job taken is lost. *)
OnEndRejected(j) ==
  /\ ender = j /\ next # None /\ exec[next] = "none" /\ shutdown
  /\ OnEndExit(j, exec)
  /\ UNCHANGED <<order, running, shutdown, kind, revoked, client>>

Woken(j) == [getPc EXCEPT ![j] = IF @ = "waiting" THEN "top" ELSE @]

(* Mutated form: the future is never told of its delegate. *)
OnEndDelegateLost(j) ==
  /\ ender = j /\ next # None /\ exec[next] # "none"
  /\ OnEndExit(j, exec)
  /\ UNCHANGED <<order, running, shutdown, kind, revoked, client>>

(* Mutated form: the waiting get() is not notified. *)
OnEndDelegateSilently(j) ==
  /\ ender = j /\ next # None /\ exec[next] # "none"
  /\ delegate' = [delegate EXCEPT ![next] = TRUE]
  /\ OnEndExit(j, exec)
  /\ UNCHANGED <<order, running, shutdown, kind, revoked, cancelled, cancelPc, getPc>>

OnEndDelegate(j) ==
  /\ ender = j /\ next # None /\ exec[next] # "none"
  /\ delegate' = [delegate EXCEPT ![next] = TRUE]
  /\ getPc' = Woken(next)
  /\ OnEndExit(j, exec)
  /\ UNCHANGED <<order, running, shutdown, kind, revoked, cancelled, cancelPc>>

OnEnd(j) ==
  \/ OnEndEnter(j) \/ OnEndIdle(j) \/ OnEndTake(j)
  \/ OnEndExecute(j) \/ OnEndRejected(j) \/ OnEndDelegate(j)

--------------------------------------------------------------------------------
(* cancel(mayInterruptIfRunning) on the future that submit(j) returned; an  *)
(* interrupt only makes the body end sooner, which EndBody may do anyway.   *)
(* One thread at a time is inside the cancel of one WrappingFuture.         *)

CancelFutureTask(j) ==
  /\ Submitted(j) /\ cancelPc[j] = "idle" /\ HasFutureTask(j)
  /\ ~FutureTaskDone(j)
  /\ revoked' = [revoked EXCEPT ![j] = TRUE]
  /\ UNCHANGED <<server, exec, client>>

CancelSeesNoDelegate(j) ==
  /\ kind[j] = "wrapped" /\ cancelPc[j] = "idle" /\ ~delegate[j]
  /\ cancelPc' = [cancelPc EXCEPT ![j] = "mark"]
  /\ UNCHANGED <<server, exec, revoked, delegate, cancelled, getPc>>

(* Mutated form: cancel() notifies but forgets to set the flag. *)
CancelMarkLost(j) ==
  /\ cancelPc[j] = "mark"
  /\ cancelPc' = [cancelPc EXCEPT ![j] = "notify"]
  /\ UNCHANGED <<server, exec, revoked, delegate, cancelled, getPc>>

CancelMark(j) ==
  /\ cancelPc[j] = "mark"
  /\ cancelled' = [cancelled EXCEPT ![j] = TRUE]
  /\ cancelPc' = [cancelPc EXCEPT ![j] = "notify"]
  /\ UNCHANGED <<server, exec, revoked, delegate, getPc>>

CancelNotify(j) ==
  /\ cancelPc[j] = "notify"
  /\ getPc' = Woken(j)
  /\ cancelPc' = [cancelPc EXCEPT ![j] = "idle"]
  /\ UNCHANGED <<server, exec, revoked, delegate, cancelled>>

Cancel(j) ==
  CancelFutureTask(j) \/ CancelSeesNoDelegate(j) \/ CancelMark(j) \/ CancelNotify(j)

--------------------------------------------------------------------------------
(* get() on the future that submit(j) returned, one thread per future.      *)

GetStep(j, from, to) ==
  /\ getPc[j] = from
  /\ getPc' = [getPc EXCEPT ![j] = to]
  /\ UNCHANGED <<server, exec, revoked, delegate, cancelled, cancelPc>>

GetCall(j) ==
  Submitted(j) /\ GetStep(j, "idle", IF kind[j] = "direct" THEN "delegated" ELSE "top")

GetTestCancelled(j) ==
  GetStep(j, "top", IF cancelled[j] THEN "returned" ELSE "readDelegate")

(* The test and wait() of the inner loop are one step: both hold the future. *)
GetTestDelegate(j) ==
  GetStep(j, "readDelegate", IF delegate[j] THEN "delegated"
                             ELSE IF cancelled[j] THEN "top" ELSE "waiting")

GetDelegated(j) == FutureTaskDone(j) /\ GetStep(j, "delegated", "returned")

(* The timed get: its wait and its delegate's may end with the time. *)
GetTimeout(j) == GetStep(j, "waiting", "returned") \/ GetStep(j, "delegated", "returned")

Get(j) == GetCall(j) \/ GetTestCancelled(j) \/ GetTestDelegate(j) \/ GetDelegated(j)

--------------------------------------------------------------------------------
(* BasicExecutionManager.shutdownNow *)
Shutdown ==
  /\ ~shutdown
  /\ shutdown' = TRUE
  /\ UNCHANGED <<order, running, kind, ender, next, exec, revoked, client>>

Next ==
  \/ \E j \in Job :
       \/ SubmitNow(j) \/ SubmitQueued(j)
       \/ Begin(j) \/ SkipRevoked(j) \/ EndBody(j) \/ Complete(j) \/ OnEnd(j)
       \/ Cancel(j) \/ Get(j) \/ GetTimeout(j)
  \/ Shutdown

Spec == Init /\ [][Next]_vars

(* Every thread that has work goes on, and every body ends (the jobs are    *)
(* message deliveries).  Nobody is obliged to submit, cancel or shut down.  *)
ExecutorThread(j) ==
  Begin(j) \/ SkipRevoked(j) \/ EndBody(j) \/ OnEnd(j) \/ Complete(j)

Fairness ==
  \A j \in Job :
    /\ WF_vars(ExecutorThread(j))
    /\ WF_vars(CancelMark(j) \/ CancelNotify(j))
    /\ WF_vars(GetTestCancelled(j) \/ GetTestDelegate(j) \/ GetDelegated(j))

FairSpec == Spec /\ Fairness

--------------------------------------------------------------------------------
(* Properties *)

(* The monitor's holder is a thread in its finally block, and onEnd works   *)
(* on a job that was queued; the rest is each variable's range.             *)
TypeOK ==
  /\ order \in Seq(Job)
  /\ running \in BOOLEAN /\ shutdown \in BOOLEAN
  /\ kind \in [Job -> Kind]
  /\ exec \in [Job -> Phase]
  /\ ender \in Job \cup {None} /\ next \in Job \cup {None}
  /\ ender # None => exec[ender] = "finally"
  /\ next # None => ender # None /\ kind[next] = "wrapped"
  /\ revoked \in [Job -> BOOLEAN] /\ delegate \in [Job -> BOOLEAN]
  /\ cancelled \in [Job -> BOOLEAN] /\ cancelPc \in [Job -> CancelPc]
  /\ getPc \in [Job -> GetPc]

(* "Single-threaded": no two bodies execute at once, whatever the order of  *)
(* submissions, cancellations and the end of the previous job.              *)
OneBodyAtATime ==
  \A j, k \in Job : exec[j] = "body" /\ exec[k] = "body" => j = k

(* onEnd gives the turn away while its own job is still in its finally.     *)
HandedOver == next # None /\ exec[next] # "none"

(* The jobs that own the scheduler's turn.  A job whose FutureTask is       *)
(* cancelled before it starts keeps the turn for ever: nobody passes it on. *)
TurnHolder(j) ==
  \/ exec[j] \in {"pending", "body", "skipped"}
  \/ (exec[j] = "finally" /\ ~(ender = j /\ HandedOver))

(* running is set exactly while one job owns the turn; without one, nothing *)
(* is queued.  A rejection by a shut down executor is the only way to lose  *)
(* the turn, so until then no queue can build up with nobody to serve it.   *)
TurnConserved ==
  /\ \A j, k \in Job : TurnHolder(j) /\ TurnHolder(k) => j = k
  /\ running /\ ~shutdown => \E j \in Job : TurnHolder(j)
  /\ ~running => order = <<>> /\ \A j \in Job : ~TurnHolder(j)

(* Nobody can call onEnd any more, so no queued job will be executed. *)
Wedged ==
  /\ running
  /\ \A j \in Job : exec[j] \notin {"body", "finally"}
  /\ \A j \in Job : exec[j] = "pending" => revoked[j]

(* A job that was accepted is done in the end, also when it was cancelled   *)
(* at any moment, unless the scheduler is wedged (which it then stays).     *)
EveryJobSettles == \A j \in Job : Submitted(j) ~> (IsDone(j) \/ []Wedged)

(* A thread that called get() gets out of it: neither the notifyAll of      *)
(* setDelegate nor that of cancel is missed between the test and the wait.  *)
GetReturns == \A j \in Job : getPc[j] = "top" ~> (getPc[j] = "returned" \/ []Wedged)

(* The class comment (20-31) says that the tasks shown to the scheduler     *)
(* execute in order: then a queued job always has somebody to serve it.     *)
QueueIsServed == order # <<>> /\ ~shutdown => ~Wedged

--------------------------------------------------------------------------------
(* The line of SerialExecution: the accepted job whose body is still to     *)
(* begin, the one onEnd is about to execute, and the queue behind them.     *)
Ahead == {j \in Job : exec[j] = "pending" /\ ~revoked[j]}
Handed == IF Ahead = {} THEN <<>> ELSE <<CHOOSE j \in Ahead : TRUE>>
Taken == IF next = None \/ HandedOver THEN <<>> ELSE <<next>>

InBody == {j \in Job : exec[j] = "body"}

Accepted == {j \in Job : Submitted(j)}
Line == Handed \o Taken \o order
Active == IF InBody = {} THEN None ELSE CHOOSE j \in InBody : TRUE

Abstract == INSTANCE SerialExecution WITH
  submitted <- Accepted, waiting <- Line, active <- Active

(* In-order single-threaded semantics: every step of the threads is a step  *)
(* of SerialExecution or invisible to it.                                   *)
ImplementsSerialExecution == Abstract!Spec

================================================================================
