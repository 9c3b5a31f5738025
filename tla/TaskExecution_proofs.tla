-------------------------- MODULE TaskExecution_proofs --------------------------
(***************************************************************************)
(* Type correctness, HandedOverOnce, TimesInOrder and CancelIsFinal of     *)
(* TaskExecution, for any number of tasks and of calling threads; at the   *)
(* end, the safety part of GetReturns, and that isDone() does not go back. *)
(***************************************************************************)
EXTENDS TaskExecution, TLAPS

(* What a task's monitor protects: a task that was handed over has its      *)
(* result, or the submitter that is about to set it is still inside.        *)
Handed ==
  /\ \A t \in Task :
       /\ handed[t] = IF job[t] = "none" THEN 0 ELSE 1
       /\ future[t] = "none" <=> job[t] = "none"
       /\ result[t] => job[t] # "none"
       /\ job[t] # "none" /\ ~result[t] => \E c \in Client : pc[c] = "submitted" /\ arg[c] = t
  /\ \A c \in Client :
       /\ pc[c] = "submitting" => job[arg[c]] = "none"
       /\ pc[c] = "submitted" => job[arg[c]] # "none"
       /\ pc[c] = "awaiting" => result[arg[c]]

Before == {"none", "ready", "starting", "threaded"}
Middle == {"testing", "running", "ending"}

(* The flags by the place of the executor's thread. *)
Stages ==
  \A t \in Task :
    /\ begun[t] => job[t] \notin Before
    /\ job[t] = "threaded" \/ (begun[t] /\ job[t] \in Middle) => thread[t]
    /\ job[t] \in {"ended", "cleared", "notified"} => ended[t]
    /\ begun[t] /\ ~ended[t] => job[t] \in Middle
    /\ job[t] \in {"cleared", "notified"} => ~thread[t]
    /\ future[t] \in Outcomes => job[t] = "over" /\ ended[t] /\ ~thread[t]
    /\ future[t] = "cancelled" => result[t]
    /\ job[t] \in Before \cup {"over"} \/ begun[t] \/ IsCancelled(t)
    /\ future[t] \in Outcomes => begun[t] \/ cancelled[t]
    /\ job[t] = "over" => future[t] # "pending"

(* A task that can no longer end with a value: its future is cancelled, or  *)
(* its job did not run and will not.                                        *)
NoValue(t) ==
  \/ future[t] = "cancelled"
  \/ future[t] # "value" /\ job[t] # "running" /\ outcome[t] = "error"

Promise ==
  /\ \A t \in Task :
       /\ promised[t] => cancelled[t] /\ NoValue(t)
       /\ job[t] \in Before \cup {"testing"} => outcome[t] = "error"
  /\ \A c \in Client :
       pc[c] = "marking" /\ verdict[c] => future[arg[c]] = "cancelled" \/ job[arg[c]] = "none"

IInv == TypeOK /\ Handed /\ Stages /\ Promise

LEMMA JobRange ==
  /\ "none" \in Job /\ "ready" \in Job /\ "starting" \in Job /\ "threaded" \in Job
  /\ "testing" \in Job /\ "running" \in Job /\ "ending" \in Job /\ "ended" \in Job
  /\ "cleared" \in Job /\ "notified" \in Job /\ "over" \in Job
  BY DEF Job

LEMMA PcRange ==
  /\ "idle" \in Pc /\ "submitting" \in Pc /\ "submitted" \in Pc /\ "cancelling" \in Pc
  /\ "marking" \in Pc /\ "waiting" \in Pc /\ "woken" \in Pc /\ "awaiting" \in Pc
  BY DEF Pc

LEMMA InitInv == Init => IInv
<1> SUFFICES ASSUME Init PROVE IInv
  OBVIOUS
<1>1. Ranges
  <2>1. /\ job \in [Task -> Job] /\ pc \in [Client -> Pc]
        /\ outcome \in [Task -> Outcomes]
        /\ got \in [Client -> {"nothing"} \cup Outcomes \cup {"cancelled"}]
    BY JobRange, PcRange DEF Init, Outcomes
  <2>2. incomplete \in Int /\ incomplete <= MaxIncomplete /\ handed \in [Task -> Nat]
    BY MaxAssumption DEF Init
  <2>3. QED
    BY <2>1, <2>2 DEF Init, Ranges
<1>2. Monitors
  BY NoneAssumption DEF Init, Monitors, Inside
<1>3. Handed
  BY DEF Init, Handed
<1>4. Stages
  BY DEF Init, Stages, Before, Middle, Outcomes, IsCancelled
<1>5. Promise
  BY DEF Init, Promise, Before
<1>6. QED
  BY <1>1, <1>2, <1>3, <1>4, <1>5 DEF IInv, TypeOK

(* A notifyAll moves parked clients on and nobody else. *)
LEMMA NotifyRange ==
  ASSUME Ranges, NEW t \in Task
  PROVE  /\ NotifyAll(t) \in [Client -> Pc]
         /\ \A d \in Client : NotifyAll(t)[d] = pc[d]
                              \/ (pc[d] = "waiting" /\ NotifyAll(t)[d] = "woken")
  BY PcRange DEF Ranges, NotifyAll

LEMMA TypeStep == TypeOK /\ Handed /\ [Next]_vars => TypeOK'
<1> SUFFICES ASSUME TypeOK, Handed, [Next]_vars PROVE TypeOK'
  OBVIOUS
<1> USE DEF TypeOK
<1>1. ASSUME NEW c \in Client, NEW t \in Task, Submit(c, t) PROVE TypeOK'
  <2>1. Ranges'
    BY <1>1, PcRange, MaxAssumption DEF Ranges, Submit, Call, taskVars, times, history
  <2>2. Monitors'
    BY <1>1, NoneAssumption DEF Ranges, Monitors, Inside, Submit, Call
  <2>3. QED
    BY <2>1, <2>2
<1>2. ASSUME NEW c \in Client, HandOver(c) PROVE TypeOK'
  <2>1. arg[c] \in Task
    BY <1>2 DEF HandOver, Monitors
  <2>2. Ranges'
    BY <1>2, <2>1, PcRange, JobRange DEF Ranges, HandOver, times, manager
  <2>3. Monitors'
    BY <1>2, NoneAssumption DEF Ranges, Monitors, Inside, HandOver
  <2>4. QED
    BY <2>2, <2>3
<1>3. ASSUME NEW c \in Client, Rejected(c) PROVE TypeOK'
  <2>1. arg[c] \in Task
    BY <1>3 DEF Rejected, Monitors
  <2>2. Ranges'
    BY <1>3, <2>1, PcRange DEF Ranges, Rejected, taskVars, times, history
  <2>3. Monitors'
    BY <1>3, <2>1, NoneAssumption DEF Ranges, Monitors, Inside, Rejected
  <2>4. QED
    BY <2>2, <2>3
<1>4. ASSUME NEW c \in Client, InitResult(c) PROVE TypeOK'
  <2>1. arg[c] \in Task
    BY <1>4 DEF InitResult, Monitors
  <2>2. Ranges'
    BY <1>4, <2>1, NotifyRange, PcRange DEF Ranges, InitResult, times, manager, history
  <2>3. Monitors'
    <3>1. \A d \in Client : pc'[d] \in Inside <=> pc[d] \in Inside /\ d # c
      BY <1>4, <2>1, NotifyRange DEF Ranges, Inside, InitResult
    <3>2. arg' = arg /\ monitor' = [monitor EXCEPT ![arg[c]] = None] /\ pc'[c] = "idle"
      BY <1>4, <2>1, NotifyRange DEF Ranges, InitResult
    <3>3. pc[c] \in Inside
      BY <1>4 DEF InitResult, Inside
    <3>4. \A d \in Client : pc'[d] # "idle" => pc[d] # "idle"
      BY <1>4, <2>1, NotifyRange DEF Ranges, InitResult
    <3>5. QED
      BY <2>1, <3>1, <3>2, <3>3, <3>4, NoneAssumption DEF Ranges, Monitors
  <2>4. QED
    BY <2>2, <2>3
<1>5. ASSUME NEW c \in Client, NEW t \in Task, Cancel(c, t) PROVE TypeOK'
  <2>1. Ranges'
    BY <1>5, PcRange DEF Ranges, Cancel, taskVars, times, manager, history
  <2>2. Monitors'
    BY <1>5, NoneAssumption DEF Ranges, Monitors, Inside, Cancel
  <2>3. QED
    BY <2>1, <2>2
<1>6. ASSUME NEW c \in Client, CancelFuture(c) PROVE TypeOK'
  <2>1. arg[c] \in Task
    BY <1>6 DEF CancelFuture, Monitors
  <2>2. Ranges'
    <3>1. verdict' \in [Client -> BOOLEAN]
      BY <1>6, <2>1 DEF Ranges, CancelFuture
    <3>2. QED
      BY <1>6, <2>1, <3>1, PcRange DEF Ranges, CancelFuture, times, manager, history
  <2>3. Monitors'
    BY <1>6, NoneAssumption DEF Ranges, Monitors, Inside, CancelFuture
  <2>4. QED
    BY <2>2, <2>3
<1>7. ASSUME NEW c \in Client, CancelMark(c) PROVE TypeOK'
  <2>1. arg[c] \in Task
    BY <1>7 DEF CancelMark, Monitors
  <2>2. Ranges'
    BY <1>7, <2>1, NotifyRange, PcRange DEF Ranges, CancelMark, times, manager
  <2>3. Monitors'
    BY <1>7, <2>1, NotifyRange, NoneAssumption DEF Ranges, Monitors, Inside, CancelMark
  <2>4. QED
    BY <2>2, <2>3
<1>8. ASSUME NEW c \in Client, NEW t \in Task, Get(c, t) PROVE TypeOK'
  <2>1. Ranges'
    BY <1>8, PcRange DEF Ranges, Get, Block, taskVars, times, manager, history
  <2>2. Monitors'
    BY <1>8, NoneAssumption DEF Ranges, Monitors, Inside, Get, Block
  <2>3. QED
    BY <2>1, <2>2
<1>9. ASSUME NEW c \in Client, GetWoken(c) PROVE TypeOK'
  <2>1. Ranges'
    BY <1>9, PcRange DEF Ranges, GetWoken, Block, taskVars, times, manager, history
  <2>2. Monitors'
    BY <1>9, NoneAssumption DEF Ranges, Monitors, Inside, GetWoken, Block
  <2>3. QED
    BY <2>1, <2>2
<1>10. ASSUME NEW c \in Client, GetResult(c) PROVE TypeOK'
  <2>1. arg[c] \in Task
    BY <1>10 DEF GetResult, Monitors
  <2>2. Ranges'
    <3>1. future[arg[c]] # "none"
      BY <1>10, <2>1 DEF GetResult, Handed
    <3>2. future[arg[c]] \in Outcomes \cup {"cancelled"}
      BY <1>10, <2>1, <3>1 DEF Ranges, GetResult, Outcomes
    <3>3. QED
      BY <1>10, <2>1, <3>2, PcRange DEF Ranges, GetResult, taskVars, times, manager, history
  <2>3. Monitors'
    BY <1>10, NoneAssumption DEF Ranges, Monitors, Inside, GetResult
  <2>4. QED
    BY <2>2, <2>3
<1>11. ASSUME NEW t \in Task, Executor(t) PROVE TypeOK'
  <2>1. CASE NotifyEnd(t)
    <3>1. Ranges'
      BY <2>1, NotifyRange, JobRange
         DEF Ranges, NotifyEnd, JobStep, taskVars, times, manager, history
    <3>2. Monitors'
      BY <2>1, NotifyRange DEF Ranges, Monitors, Inside, NotifyEnd
    <3>3. QED
      BY <3>1, <3>2
  <2>2. CASE Run(t)
    BY <2>2, JobRange DEF Ranges, Monitors, Run, JobStep, taskVars, times, manager, history, clientVars
  <2>3. CASE BeforeStart(t)
    <3>1. IsCancelled(t) \in BOOLEAN
      BY DEF Ranges, IsCancelled
    <3>2. QED
      BY <2>3, <3>1, JobRange
         DEF Ranges, Monitors, BeforeStart, JobStep, taskVars, times, manager, history, clientVars
  <2>4. CASE SetStartTime(t)
    BY <2>4, JobRange
       DEF Ranges, Monitors, SetStartTime, JobStep, taskVars, times, manager, history, clientVars
  <2>5. CASE Test(t)
    BY <2>5, JobRange DEF Ranges, Monitors, Test, JobStep, taskVars, times, manager, history, clientVars
  <2>6. CASE EndJob(t)
    BY <2>6, JobRange
       DEF Ranges, Monitors, EndJob, JobStep, Outcomes, taskVars, times, manager, history, clientVars
  <2>7. CASE AfterEnd(t)
    BY <2>7, JobRange, MaxAssumption
       DEF Ranges, Monitors, AfterEnd, JobStep, taskVars, times, manager, history, clientVars
  <2>8. CASE ClearThread(t)
    BY <2>8, JobRange
       DEF Ranges, Monitors, ClearThread, JobStep, taskVars, times, manager, history, clientVars
  <2>9. CASE Complete(t)
    BY <2>9, JobRange
       DEF Ranges, Monitors, Complete, JobStep, Outcomes, taskVars, times, manager, history, clientVars
  <2>10. QED
    BY <1>11, <2>1, <2>2, <2>3, <2>4, <2>5, <2>6, <2>7, <2>8, <2>9 DEF Executor
<1>12. CASE Shutdown
  BY <1>12 DEF Shutdown, Ranges, Monitors, taskVars, times, manager, history, clientVars
<1>13. CASE UNCHANGED vars
  BY <1>13 DEF vars, Ranges, Monitors, taskVars, times, manager, history, clientVars
<1>14. QED
  BY <1>1, <1>2, <1>3, <1>4, <1>5, <1>6, <1>7, <1>8, <1>9, <1>10, <1>11, <1>12, <1>13
     DEF Next, Calls, Continue

LEMMA HandedStep == TypeOK /\ Handed /\ [Next]_vars => Handed'
<1> SUFFICES ASSUME TypeOK, Handed, [Next]_vars PROVE Handed'
  OBVIOUS
<1> USE DEF TypeOK, Ranges, Monitors, Handed
<1>1. ASSUME NEW c \in Client, NEW t \in Task, Submit(c, t) PROVE Handed'
  <2>1. job[t] = "none"
    BY <1>1, NoneAssumption DEF Submit, Inside
  <2>2. QED
    BY <1>1, <2>1 DEF Submit, Call, taskVars, history
<1>2. ASSUME NEW c \in Client, HandOver(c) PROVE Handed'
  <2>1. arg[c] \in Task /\ job[arg[c]] = "none" /\ handed[arg[c]] = 0 /\ ~result[arg[c]]
    BY <1>2 DEF HandOver
  <2>2. \A d \in Client : d # c /\ pc[d] = "submitting" => arg[d] # arg[c]
    BY <1>2, <2>1 DEF HandOver, Inside
  <2>3. QED
    BY <1>2, <2>1, <2>2 DEF HandOver
<1>3. ASSUME NEW c \in Client, Rejected(c) PROVE Handed'
  BY <1>3 DEF Rejected, taskVars, history
<1>4. ASSUME NEW c \in Client, InitResult(c) PROVE Handed'
  <2>1. arg[c] \in Task /\ job[arg[c]] # "none"
    BY <1>4 DEF InitResult
  <2>2. \A d \in Client : pc'[d] \in {"submitting", "submitted", "awaiting"} => pc'[d] = pc[d]
    BY <1>4, <2>1, NotifyRange DEF InitResult
  <2>3. \A d \in Client : d # c /\ pc[d] = "submitted" => pc'[d] = "submitted"
    BY <1>4, <2>1, NotifyRange DEF InitResult
  <2>4. QED
    BY <1>4, <2>1, <2>2, <2>3 DEF InitResult, history
<1>5. ASSUME NEW c \in Client, NEW t \in Task, Cancel(c, t) PROVE Handed'
  BY <1>5 DEF Cancel, taskVars, history
<1>6. ASSUME NEW c \in Client, CancelFuture(c) PROVE Handed'
  BY <1>6 DEF CancelFuture, history
<1>7. ASSUME NEW c \in Client, CancelMark(c) PROVE Handed'
  <2>1. arg[c] \in Task
    BY <1>7 DEF CancelMark
  <2>2. \A d \in Client : pc'[d] \in {"submitting", "submitted", "awaiting"} => pc'[d] = pc[d]
    BY <1>7, <2>1, NotifyRange DEF CancelMark
  <2>3. \A d \in Client : pc[d] = "submitted" => pc'[d] = "submitted"
    BY <1>7, <2>1, NotifyRange DEF CancelMark
  <2>4. QED
    BY <1>7, <2>1, <2>2, <2>3 DEF CancelMark
<1>8. ASSUME NEW c \in Client, NEW t \in Task, Get(c, t) PROVE Handed'
  BY <1>8 DEF Get, Block, taskVars, history
<1>9. ASSUME NEW c \in Client, GetWoken(c) PROVE Handed'
  BY <1>9 DEF GetWoken, Block, taskVars, history
<1>10. ASSUME NEW c \in Client, GetResult(c) PROVE Handed'
  BY <1>10 DEF GetResult, taskVars, history
<1>11. ASSUME NEW t \in Task, Executor(t) PROVE Handed'
  <2>1. CASE NotifyEnd(t)
    <3>1. \A d \in Client :
            pc'[d] \in {"submitting", "submitted", "awaiting"} \/ pc[d] = "submitted" => pc'[d] = pc[d]
      BY <2>1, NotifyRange DEF NotifyEnd
    <3>2. QED
      BY <2>1, <3>1 DEF NotifyEnd, JobStep, taskVars, history
  <2>2. CASE Run(t)
    BY <2>2 DEF Run, JobStep, taskVars, history, clientVars
  <2>3. CASE BeforeStart(t)
    BY <2>3 DEF BeforeStart, JobStep, taskVars, history, clientVars
  <2>4. CASE SetStartTime(t)
    BY <2>4 DEF SetStartTime, JobStep, taskVars, history, clientVars
  <2>5. CASE Test(t)
    BY <2>5 DEF Test, JobStep, taskVars, history, clientVars
  <2>6. CASE EndJob(t)
    BY <2>6 DEF EndJob, JobStep, taskVars, history, clientVars
  <2>7. CASE AfterEnd(t)
    BY <2>7 DEF AfterEnd, JobStep, taskVars, history, clientVars
  <2>8. CASE ClearThread(t)
    BY <2>8 DEF ClearThread, JobStep, taskVars, history, clientVars
  <2>9. CASE Complete(t)
    BY <2>9 DEF Complete, JobStep, Outcomes, history, clientVars
  <2>10. QED
    BY <1>11, <2>1, <2>2, <2>3, <2>4, <2>5, <2>6, <2>7, <2>8, <2>9 DEF Executor
<1>12. CASE Shutdown
  BY <1>12 DEF Shutdown, taskVars, history, clientVars
<1>13. CASE UNCHANGED vars
  BY <1>13 DEF vars, taskVars, history, clientVars
<1>14. QED
  BY <1>1, <1>2, <1>3, <1>4, <1>5, <1>6, <1>7, <1>8, <1>9, <1>10, <1>11, <1>12, <1>13
     DEF Next, Calls, Continue

(* A cancelled task stays cancelled. *)
LEMMA CancelledStays ==
  ASSUME TypeOK, Handed, [Next]_vars, NEW t \in Task, IsCancelled(t)
  PROVE  IsCancelled(t)'
<1> USE DEF IsCancelled, TypeOK, Ranges, Monitors
<1>1. ASSUME NEW c \in Client, Continue(c) PROVE IsCancelled(t)'
  <2>1. CASE HandOver(c)
    BY <2>1 DEF HandOver, Handed
  <2>2. CASE InitResult(c)
    BY <2>2 DEF InitResult
  <2>3. CASE CancelFuture(c)
    BY <2>3 DEF CancelFuture
  <2>4. CASE CancelMark(c)
    BY <2>4 DEF CancelMark
  <2>5. CASE Rejected(c) \/ GetWoken(c) \/ GetResult(c)
    BY <2>5 DEF Rejected, GetWoken, GetResult, Block, taskVars
  <2>6. QED
    BY <1>1, <2>1, <2>2, <2>3, <2>4, <2>5 DEF Continue
<1>2. ASSUME NEW c \in Client, Calls(c) PROVE IsCancelled(t)'
  BY <1>2 DEF Calls, Submit, Cancel, Get, Block, taskVars
<1>3. ASSUME NEW u \in Task, Executor(u) PROVE IsCancelled(t)'
  <2>1. CASE Complete(u)
    BY <2>1 DEF Complete
  <2>2. CASE ~Complete(u)
    BY <1>3, <2>2 DEF Executor, Run, BeforeStart, SetStartTime, Test, EndJob, AfterEnd,
       ClearThread, NotifyEnd, taskVars
  <2>3. QED
    BY <2>1, <2>2
<1>4. CASE Shutdown \/ UNCHANGED vars
  BY <1>4 DEF Shutdown, vars, taskVars
<1>5. QED
  BY <1>1, <1>2, <1>3, <1>4 DEF Next

LEMMA StagesStep == TypeOK /\ Handed /\ Stages /\ [Next]_vars => Stages'
<1> SUFFICES ASSUME TypeOK, Handed, Stages, [Next]_vars PROVE Stages'
  OBVIOUS
<1>0. \A t \in Task : IsCancelled(t) => IsCancelled(t)'
  BY CancelledStays
<1> USE DEF TypeOK, Ranges, Handed, Stages, Before, Middle, Outcomes
<1>1. ASSUME NEW c \in Client, Calls(c) PROVE Stages'
  BY <1>0, <1>1 DEF Calls, Submit, Cancel, Get, Block, Call, taskVars, times
<1>2. ASSUME NEW c \in Client, HandOver(c) PROVE Stages'
  BY <1>0, <1>2 DEF HandOver, Monitors, times
<1>3. ASSUME NEW c \in Client, InitResult(c) PROVE Stages'
  BY <1>0, <1>3 DEF InitResult, times
<1>4. ASSUME NEW c \in Client, CancelFuture(c) PROVE Stages'
  BY <1>0, <1>4 DEF CancelFuture, times
<1>5. ASSUME NEW c \in Client, CancelMark(c) PROVE Stages'
  BY <1>0, <1>5 DEF CancelMark, times
<1>6. ASSUME NEW c \in Client, Rejected(c) \/ GetWoken(c) \/ GetResult(c) PROVE Stages'
  BY <1>0, <1>6 DEF Rejected, GetWoken, GetResult, Block, taskVars, times
<1>7. ASSUME NEW t \in Task, Executor(t) PROVE Stages'
  <2>1. CASE Run(t)
    BY <1>0, <2>1 DEF Run, JobStep, taskVars, times, IsCancelled
  <2>2. CASE BeforeStart(t)
    <3>1. UNCHANGED <<cancelled, result, future, begun, ended>>
      BY <2>2 DEF BeforeStart, taskVars
    <3>2. CASE IsCancelled(t)
      BY <1>0, <2>2, <3>1, <3>2 DEF BeforeStart, JobStep
    <3>3. CASE ~IsCancelled(t)
      <4>1. thread' = [thread EXCEPT ![t] = TRUE] /\ JobStep(t, "starting", "threaded")
        BY <2>2, <3>3 DEF BeforeStart, JobStep
      <4>2. QED
        BY <1>0, <3>1, <4>1 DEF JobStep
    <3>4. QED
      BY <3>2, <3>3
  <2>3. CASE SetStartTime(t)
    BY <1>0, <2>3 DEF SetStartTime, JobStep, taskVars, times
  <2>4. CASE Test(t)
    BY <1>0, <2>4 DEF Test, JobStep, taskVars, times, IsCancelled
  <2>5. CASE EndJob(t)
    BY <1>0, <2>5 DEF EndJob, JobStep, taskVars, times
  <2>6. CASE AfterEnd(t)
    BY <1>0, <2>6 DEF AfterEnd, JobStep, taskVars, times
  <2>7. CASE ClearThread(t)
    BY <1>0, <2>7 DEF ClearThread, JobStep, taskVars, times
  <2>8. CASE NotifyEnd(t)
    BY <1>0, <2>8 DEF NotifyEnd, JobStep, taskVars, times
  <2>9. CASE Complete(t)
    BY <1>0, <2>9 DEF Complete, JobStep, taskVars, times, IsCancelled
  <2>10. QED
    BY <1>7, <2>1, <2>2, <2>3, <2>4, <2>5, <2>6, <2>7, <2>8, <2>9 DEF Executor
<1>8. CASE Shutdown \/ UNCHANGED vars
  BY <1>0, <1>8 DEF Shutdown, vars, taskVars, times
<1>9. QED
  BY <1>1, <1>2, <1>3, <1>4, <1>5, <1>6, <1>7, <1>8 DEF Next, Continue

LEMMA PromiseStep == IInv /\ [Next]_vars => Promise'
<1> SUFFICES ASSUME IInv, [Next]_vars PROVE Promise'
  OBVIOUS
<1> USE DEF IInv, TypeOK, Ranges, Monitors, Handed, Promise, NoValue, Before, Inside
<1>1. ASSUME NEW c \in Client, Calls(c) PROVE Promise'
  <2>1. UNCHANGED <<cancelled, future, job, outcome, promised>>
    BY <1>1 DEF Calls, Submit, Cancel, Get, Block, taskVars, history
  <2>2. \A d \in Client : pc'[d] = "marking" =>
          pc[d] = "marking" /\ arg'[d] = arg[d] /\ verdict'[d] = verdict[d]
    BY <1>1 DEF Calls, Submit, Cancel, Get, Block, Call
  <2>3. QED
    BY <2>1, <2>2
<1>2. ASSUME NEW c \in Client, HandOver(c) PROVE Promise'
  <2>1. arg[c] \in Task /\ job[arg[c]] = "none"
    BY <1>2 DEF HandOver
  <2>2. \A d \in Client : pc[d] = "marking" => arg[d] # arg[c]
    BY <1>2, <2>1 DEF HandOver
  <2>3. QED
    BY <1>2, <2>1, <2>2 DEF HandOver
<1>3. ASSUME NEW c \in Client, InitResult(c) PROVE Promise'
  <2>1. \A d \in Client : pc'[d] = "marking" => pc[d] = "marking"
    BY <1>3, NotifyRange DEF InitResult
  <2>2. QED
    BY <1>3, <2>1 DEF InitResult, history
<1>4. ASSUME NEW c \in Client, CancelFuture(c) PROVE Promise'
  <2>1. arg[c] \in Task /\ (~result[arg[c]] => job[arg[c]] = "none")
    BY <1>4, NoneAssumption DEF CancelFuture
  <2>2. \A d \in Client : d # c /\ pc'[d] = "marking" => pc[d] = "marking" /\ verdict'[d] = verdict[d]
    BY <1>4 DEF CancelFuture
  <2>3. CASE result[arg[c]] /\ future[arg[c]] = "pending"
    BY <1>4, <2>1, <2>2, <2>3 DEF CancelFuture, history
  <2>4. CASE ~(result[arg[c]] /\ future[arg[c]] = "pending")
    <3>1. UNCHANGED <<future, job, outcome, cancelled, promised, arg>>
      BY <1>4, <2>4 DEF CancelFuture, history
    <3>2. verdict'[c] => job[arg[c]] = "none"
      <4>1. CASE ~result[arg[c]]
        BY <2>1, <4>1
      <4>2. CASE result[arg[c]]
        <5>1. (result[arg[c]] => future[arg[c]] = "pending") = FALSE
          BY <2>4, <4>2
        <5>2. verdict' = [verdict EXCEPT ![c] = FALSE]
          BY <1>4, <5>1 DEF CancelFuture
        <5>3. QED
          BY <5>2
      <4>3. QED
        BY <4>1, <4>2
    <3>3. QED
      BY <2>2, <3>1, <3>2
  <2>5. QED
    BY <2>3, <2>4
<1>5. ASSUME NEW c \in Client, CancelMark(c) PROVE Promise'
  <2>1. arg[c] \in Task
    BY <1>5 DEF CancelMark
  <2>2. \A d \in Client : pc'[d] = "marking" => pc[d] = "marking"
    BY <1>5, <2>1, NotifyRange DEF CancelMark
  <2>3. verdict[c] => NoValue(arg[c])
    BY <1>5, <2>1 DEF CancelMark
  <2>4. QED
    BY <1>5, <2>1, <2>2, <2>3 DEF CancelMark
<1>6. ASSUME NEW c \in Client, Rejected(c) \/ GetWoken(c) \/ GetResult(c) PROVE Promise'
  BY <1>6 DEF Rejected, GetWoken, GetResult, Block, taskVars, history
<1>7. ASSUME NEW t \in Task, Executor(t) PROVE Promise'
  <2>1. CASE Run(t)
    BY <2>1 DEF Run, JobStep, taskVars, history, clientVars
  <2>2. CASE BeforeStart(t)
    BY <2>2 DEF BeforeStart, JobStep, taskVars, history, clientVars
  <2>3. CASE SetStartTime(t)
    BY <2>3 DEF SetStartTime, JobStep, taskVars, history, clientVars
  <2>4. CASE Test(t)
    BY <2>4 DEF Test, JobStep, taskVars, history, clientVars, IsCancelled
  <2>5. CASE EndJob(t)
    BY <2>5 DEF EndJob, JobStep, taskVars, history, clientVars, Stages
  <2>6. CASE AfterEnd(t)
    BY <2>6 DEF AfterEnd, JobStep, taskVars, history, clientVars
  <2>7. CASE ClearThread(t)
    BY <2>7 DEF ClearThread, JobStep, taskVars, history, clientVars
  <2>8. CASE NotifyEnd(t)
    <3>1. \A d \in Client : pc'[d] = "marking" => pc[d] = "marking"
      BY <2>8, NotifyRange DEF NotifyEnd
    <3>2. QED
      BY <2>8, <3>1 DEF NotifyEnd, JobStep, taskVars, history
  <2>9. CASE Complete(t)
    BY <2>9 DEF Complete, JobStep, taskVars, history, clientVars, Stages
  <2>10. QED
    BY <1>7, <2>1, <2>2, <2>3, <2>4, <2>5, <2>6, <2>7, <2>8, <2>9 DEF Executor
<1>8. CASE Shutdown \/ UNCHANGED vars
  BY <1>8 DEF Shutdown, vars, taskVars, history, clientVars
<1>9. QED
  BY <1>1, <1>2, <1>3, <1>4, <1>5, <1>6, <1>7, <1>8 DEF Next, Continue

(* The inductive invariant holds in every state of the code. *)
THEOREM Invariance == Spec => []IInv
<1>1. IInv /\ [Next]_vars => IInv'
  BY TypeStep, HandedStep, StagesStep, PromiseStep DEF IInv
<1>2. QED
  BY <1>1, InitInv, PTL DEF Spec

(* Ranges, and who is in a task's monitor. *)
THEOREM TypeCorrect == Spec => []TypeOK
<1>1. IInv => TypeOK
  BY DEF IInv
<1>2. QED
  BY <1>1, Invariance, PTL

(* submit gives a task to the executor at most once, whoever else submits, *)
(* cancels or waits for it.                                                *)
THEOREM OnlyOnce == Spec => []HandedOverOnce
<1>1. ASSUME IInv, NEW t \in Task PROVE handed[t] <= 1
  <2>1. handed[t] = IF job[t] = "none" THEN 0 ELSE 1
    BY <1>1, Zenon DEF IInv, Handed
  <2>2. QED
    BY <2>1
<1>2. IInv => HandedOverOnce
  BY <1>1 DEF HandedOverOnce
<1>3. QED
  BY <1>2, Invariance, PTL

(* A task that ended by itself has its times set and its thread cleared *)
(* before isDone is true.                                               *)
THEOREM Times == Spec => []TimesInOrder
<1>1. IInv => TimesInOrder
  BY DEF IInv, TypeOK, Ranges, Handed, Stages, TimesInOrder, IsDone, IsCancelled, Middle, Outcomes
<1>2. QED
  BY <1>1, Invariance, PTL

(* After cancel() returned true, get() returns no value. *)
THEOREM CancelledForGood == Spec => CancelIsFinal
<1>1. IInv /\ [Next]_vars =>
        [\A c \in Client :
           pc[c] = "awaiting" /\ pc'[c] = "idle" /\ promised[arg[c]] => got'[c] # "value"]_vars
  <2> SUFFICES ASSUME IInv, [Next]_vars, NEW c \in Client,
                      pc[c] = "awaiting", pc'[c] = "idle", promised[arg[c]]
               PROVE  got'[c] # "value"
    OBVIOUS
  <2>1. arg[c] \in Task /\ future[arg[c]] # "value"
    BY DEF IInv, TypeOK, Monitors, Promise, NoValue
  <2>2. GetResult(c)
    <3> USE DEF IInv, TypeOK, Ranges
    <3>1. ASSUME NEW d \in Client, Calls(d) PROVE FALSE
      BY <3>1 DEF Calls, Submit, Cancel, Get, Block, Call
    <3>2. ASSUME NEW d \in Client, Continue(d) PROVE d = c /\ GetResult(d)
      <4>1. CASE InitResult(d)
        <5>1. c # d /\ arg[d] \in Task
          BY <4>1 DEF InitResult, Monitors
        <5>2. QED
          BY <4>1, <5>1, NotifyRange DEF InitResult
      <4>2. CASE CancelMark(d)
        <5>1. c # d /\ arg[d] \in Task
          BY <4>2 DEF CancelMark, Monitors
        <5>2. QED
          BY <4>2, <5>1, NotifyRange DEF CancelMark
      <4>3. CASE HandOver(d) \/ Rejected(d) \/ CancelFuture(d) \/ GetWoken(d)
        BY <4>3 DEF HandOver, Rejected, CancelFuture, GetWoken, Block
      <4>4. CASE GetResult(d)
        BY <4>4 DEF GetResult
      <4>5. QED
        BY <3>2, <4>1, <4>2, <4>3, <4>4 DEF Continue
    <3>3. ASSUME NEW t \in Task, Executor(t) PROVE FALSE
      <4>1. CASE NotifyEnd(t)
        BY <4>1, NotifyRange DEF NotifyEnd
      <4>2. CASE ~NotifyEnd(t)
        BY <3>3, <4>2 DEF Executor, Run, BeforeStart, SetStartTime, Test, EndJob, AfterEnd,
           ClearThread, Complete, clientVars
      <4>3. QED
        BY <4>1, <4>2
    <3>4. CASE Shutdown \/ UNCHANGED vars
      BY <3>4 DEF Shutdown, vars, clientVars
    <3>5. QED
      BY <3>1, <3>2, <3>3, <3>4 DEF Next
  <2>3. QED
    BY <2>1, <2>2 DEF GetResult, IInv, TypeOK, Ranges
<1>2. QED
  BY <1>1, Invariance, PTL DEF Spec, CancelIsFinal

-------------------------------------------------------------------------------
(* What GetReturns rests on.                                                *)

(* Nobody waits to be told what was told already.                           *)
NoneTold ==
  \A c \in Client : pc[c] = "waiting" => ~result[arg[c]] /\ ~cancelled[arg[c]]

(* A get() that waits for the start of its task waits for something that    *)
(* has not happened; one that waits for the outcome has it, or a future     *)
(* that is with the executor, whose thread is not yet past completing it.   *)
GetIsAttended ==
  NoneTold /\ \A c \in Client : pc[c] = "awaiting" =>
    future[arg[c]] # "none" /\ (future[arg[c]] = "pending" => job[arg[c]] \notin {"none", "over"})

LEMMA NotifyLeavesNone ==
  ASSUME Ranges, NEW t \in Task, NEW d \in Client, NotifyAll(t)[d] = "waiting"
  PROVE  pc[d] = "waiting" /\ arg[d] # t
  BY DEF NotifyAll

LEMMA NoneToldStep == IInv /\ NoneTold /\ [Next]_vars => NoneTold'
<1> SUFFICES ASSUME TypeOK, NoneTold, [Next]_vars PROVE NoneTold'
  BY DEF IInv
<1> USE DEF TypeOK, Ranges, Monitors, NoneTold
<1>1. ASSUME NEW c \in Client, Calls(c) PROVE NoneTold'
  BY <1>1 DEF Calls, Submit, Cancel, Get, Block, Call, taskVars
<1>2. ASSUME NEW c \in Client, InitResult(c) PROVE NoneTold'
  <2>1. \A d \in Client : pc'[d] = "waiting" => pc[d] = "waiting" /\ arg[d] # arg[c]
    BY <1>2, NotifyLeavesNone DEF InitResult
  <2>2. QED
    BY <1>2, <2>1 DEF InitResult
<1>3. ASSUME NEW c \in Client, CancelMark(c) PROVE NoneTold'
  <2>1. \A d \in Client : pc'[d] = "waiting" => pc[d] = "waiting" /\ arg[d] # arg[c]
    BY <1>3, NotifyLeavesNone DEF CancelMark
  <2>2. QED
    BY <1>3, <2>1 DEF CancelMark
<1>4. ASSUME NEW c \in Client, HandOver(c) \/ Rejected(c) \/ CancelFuture(c) \/ GetResult(c)
      PROVE  NoneTold'
  BY <1>4 DEF HandOver, Rejected, CancelFuture, GetResult, taskVars
<1>5. ASSUME NEW c \in Client, GetWoken(c) PROVE NoneTold'
  BY <1>5 DEF GetWoken, Block, taskVars
<1>6. ASSUME NEW t \in Task, Executor(t) PROVE NoneTold'
  <2>1. \A d \in Client : pc'[d] = "waiting" => pc[d] = "waiting"
    BY <1>6, NotifyLeavesNone DEF Executor, Run, BeforeStart, SetStartTime, Test, EndJob, AfterEnd,
       ClearThread, NotifyEnd, Complete, clientVars
  <2>2. UNCHANGED <<arg, result, cancelled>>
    BY <1>6 DEF Executor, Run, BeforeStart, SetStartTime, Test, EndJob, AfterEnd,
       ClearThread, NotifyEnd, Complete, clientVars, taskVars
  <2>3. QED
    BY <2>1, <2>2
<1>7. CASE Shutdown \/ UNCHANGED vars
  BY <1>7 DEF Shutdown, vars, clientVars, taskVars
<1>8. QED
  BY <1>1, <1>2, <1>3, <1>4, <1>5, <1>6, <1>7 DEF Next, Continue

(* The notify that a get() waits for is still to come, and so is the        *)
(* completion of a future that it waits for (blockUntilStarted, get).       *)
THEOREM NoGetIsMissed == Spec => []GetIsAttended
<1>1. Init => NoneTold
  BY DEF Init, NoneTold
<1>2. IInv /\ NoneTold => GetIsAttended
  BY DEF IInv, TypeOK, Monitors, Handed, Stages, GetIsAttended
<1>3. QED
  BY <1>1, <1>2, NoneToldStep, Invariance, PTL DEF Spec

(* isDone() never goes back to false. *)
DoneStays == [][\A t \in Task : IsDone(t) => IsDone(t)']_vars

(* A task that is done stays done, also one that was cancelled before it    *)
(* is submitted.                                                            *)
THEOREM DoneForGood == Spec => DoneStays
<1>1. IInv /\ [Next]_vars => [\A t \in Task : IsDone(t) => IsDone(t)']_vars
  <2> SUFFICES ASSUME TypeOK, Handed, [Next]_vars, NEW t \in Task, IsDone(t)
               PROVE  IsDone(t)'
    BY DEF IInv
  <2> USE DEF IsDone, TypeOK, Ranges, Monitors
  <2>1. ASSUME NEW c \in Client, Continue(c) PROVE IsDone(t)'
    <3>1. CASE HandOver(c)
      BY <3>1 DEF HandOver, Handed
    <3>2. CASE InitResult(c)
      BY <3>2 DEF InitResult
    <3>3. CASE CancelMark(c)
      BY <3>3 DEF CancelMark
    <3>4. CASE CancelFuture(c)
      BY <3>4 DEF CancelFuture
    <3>5. CASE Rejected(c) \/ GetWoken(c) \/ GetResult(c)
      BY <3>5 DEF Rejected, GetWoken, Block, GetResult, taskVars
    <3>6. QED
      BY <2>1, <3>1, <3>2, <3>3, <3>4, <3>5 DEF Continue
  <2>2. ASSUME NEW u \in Task, Complete(u) PROVE IsDone(t)'
    BY <2>2 DEF Complete, Outcomes
  <2>3. CASE UNCHANGED taskVars
    BY <2>3 DEF taskVars
  <2>4. QED
    BY <2>1, <2>2, <2>3 DEF Next, Calls, Submit, Cancel, Get, Block, Executor, Run, BeforeStart,
       SetStartTime, Test, EndJob, AfterEnd, ClearThread, NotifyEnd, Shutdown, vars
<1>2. QED
  BY <1>1, Invariance, PTL DEF Spec, DoneStays

================================================================================
