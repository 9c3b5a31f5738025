---------------------------- MODULE AutoScalerPolicy ----------------------------
(***************************************************************************)
(* brooklyn.policy.autoscaling.AutoScalerPolicy, with the TimeWindowedList *)
(* of the sizes that it has asked for recently, a pool that it resizes and *)
(* whose sensors tell it of the load.  Handlers of sensor events and runs  *)
(* of the executor are threads of their own.  Time is a tick that makes    *)
(* what was recorded older; what happens in one call has one time.         *)
(* Integer workrates make the divisions of the code exact.                 *)
(***************************************************************************)
EXTENDS Integers, Sequences, SequencesExt, FiniteSetsExt

CONSTANTS
  MinPoolSize, MaxPoolSize,
  LowerBound, UpperBound,     \* of the workrate per member
  UpDelay, DownDelay,         \* resizeUp- and resizeDownStabilizationDelay, in ticks
  Work,                       \* workrates of the whole pool
  MaxChanges,                 \* bound on the changes of the workrate
  MaxSuspends,                \* bound on the calls of suspend
  MaxFailures,                \* bound on resizes that fail
  MaxValues                   \* bound on the values in the window

ASSUME SizeAssumption ==
  MinPoolSize \in Nat \ {0} /\ MaxPoolSize \in Nat /\ MinPoolSize <= MaxPoolSize
ASSUME BoundAssumption ==
  LowerBound \in Nat \ {0} /\ UpperBound \in Nat /\ LowerBound <= UpperBound
ASSUME DelayAssumption == UpDelay \in Nat \ {0} /\ DownDelay \in Nat \ {0}
ASSUME WorkAssumption == Work \subseteq Nat
ASSUME MaxAssumption ==
  MaxChanges \in Nat /\ MaxSuspends \in Nat /\ MaxFailures \in Nat /\ MaxValues \in Nat

VARIABLES
  work,             \* what the pool has to do
  size,             \* of the pool
  up,               \* SERVICE_UP of the pool
  notice,           \* the events of the sensors that are on their way
  recent,           \* recentDesiredResizes: values with their ages
  control,          \* of the thread that suspends and resumes: see Control
  executor,         \* the current one, which resume replaces
  alive,            \* it was not shut down
  executorQueued,
  tasks,            \* executors with a run in the queue
  phase,            \* of the run of an executor: see Phase
  goal,             \* the size that it resizes to
  asked,            \* history: the sizes in force during each of the last ticks
  wanted,           \* history: the last size was asked for by scheduleResize
  changes, failures \* of the workrate; of resizes

pool == <<work, size, up, changes>>
policy == <<control, executor, alive>>
run == <<phase, goal>>
vars == <<pool, policy, run, notice, recent, executorQueued, tasks, asked, wanted, failures>>

Executor == 1..(MaxSuspends + 1)
Size == 1..MaxPoolSize
Period == Max({UpDelay, DownDelay})     \* of recentDesiredResizes
IntegerMax == MaxPoolSize + 1           \* above every size
IntegerMin == 0                         \* below every size

Control == {"running", "suspended", "resuming"}
isRunning == control # "suspended"
Phase == {"idle", "calculating", "resizing"}

Init ==
  /\ work \in Work /\ size = MinPoolSize /\ up = FALSE
  /\ notice = <<>> /\ recent = <<>>
  /\ control = "running" /\ executor = 1 /\ alive = TRUE
  /\ executorQueued = FALSE /\ tasks = {}
  /\ phase = [e \in Executor |-> "idle"]
  /\ goal = [e \in Executor |-> MinPoolSize]
  /\ asked = [k \in 0..Period |-> {}] /\ wanted = FALSE
  /\ changes = 0 /\ failures = 0

--------------------------------------------------------------------------------
(* The window of recent sizes: TimeWindowedList *)

(* Where values stand that are too old, which is at the front. *)
Expired(s, d) == {i \in DOMAIN s : s[i].age > d}

(* The last value that is too old is kept: it was in force when the window *)
(* began.                                                                  *)
Window(s, d) == SubSeq(s, Max(Expired(s, d) \cup {1}), Len(s))

Pruned(s) == Window(s, Period)
ValuesInWindow(d) == Window(recent, d)

Add(v) ==
  /\ recent' = Pruned(Append(recent, [val |-> v, age |-> 0]))
  /\ Len(recent') <= MaxValues
  /\ asked' = [asked EXCEPT ![0] = @ \cup {v}]

(* Nothing is known of the beginning of the window. *)
Uncovered(s, d) == s = <<>> \/ s[1].age < d
Values(s) == {s[i].val : i \in DOMAIN s}

MaxInWindow(d) ==
  LET s == ValuesInWindow(d)
  IN IF Uncovered(s, d) THEN IntegerMax ELSE Max(Values(s))

(* Mutated form: values are taken as they are. *)
MinInWindowPartial(d) ==
  LET s == ValuesInWindow(d)
  IN IF s = <<>> THEN IntegerMin ELSE Min(Values(s))

MinInWindow(d) ==
  LET s == ValuesInWindow(d)
  IN IF Uncovered(s, d) THEN IntegerMin ELSE Min(Values(s))

(* calculateDesiredPoolSize: the size, and whether it stays the same if no *)
(* event comes.                                                            *)
CalculatedDesiredPoolSize(current) ==
  LET minDesired == MaxInWindow(DownDelay)
      maxDesired == MinInWindow(UpDelay)
      stableForShrinking == MinInWindow(DownDelay) = MaxInWindow(DownDelay)
      stableForGrowing == MinInWindow(UpDelay) = MaxInWindow(UpDelay)
  IN CASE current < maxDesired ->
            [size |-> maxDesired, stable |-> stableForGrowing]
       [] current >= maxDesired /\ current > minDesired ->
            [size |-> minDesired, stable |-> stableForShrinking]
       [] OTHER ->
            [size |-> current, stable |-> stableForGrowing /\ stableForShrinking]

--------------------------------------------------------------------------------
(* The handlers of sensor events *)

CeilDiv(a, b) == (a + b - 1) \div b
Bounded(n) == Min({MaxPoolSize, Max({MinPoolSize, n})})

(* executorQueued is set first, then SERVICE_UP is tested, and an executor *)
(* that was shut down rejects the run with an exception.                   *)
ScheduleResize ==
  IF isRunning /\ ~executorQueued
  THEN /\ executorQueued' = TRUE
       /\ tasks' = IF up /\ alive THEN tasks \cup {executor} ELSE tasks
  ELSE UNCHANGED <<executorQueued, tasks>>

Resize(n) == Add(n) /\ ScheduleResize /\ wanted' = TRUE
AbortResize(n) == Add(n) /\ wanted' = FALSE /\ UNCHANGED <<executorQueued, tasks>>
Ignore == UNCHANGED <<recent, asked, wanted, executorQueued, tasks>>

(* n.work and n.size are those of when the event was published.  The metric *)
(* is the average n.work / n.size, which onMetricChanged multiplies by the  *)
(* present size.                                                            *)
OnMetricChanged(n) ==
  LET activity == size * n.work             \* times n.size
      out == Bounded(CeilDiv(activity, n.size * UpperBound))
      floor == Bounded(activity \div (n.size * LowerBound))
      back == IF floor * n.size * UpperBound < activity THEN out ELSE floor
  IN \/ /\ n.work > n.size * UpperBound
        /\ IF out > size THEN Resize(out) ELSE Ignore
     \/ /\ n.work < n.size * LowerBound
        /\ IF back < size THEN Resize(back) ELSE Ignore
     \/ /\ n.work \in (n.size * LowerBound)..(n.size * UpperBound)
        /\ AbortResize(size)

(* Mutated form: rounded down, as in onMetricChanged for scaling back. *)
OnPoolHotFloor(n) ==
  LET desired == Bounded(n.work \div UpperBound)
  IN IF desired > n.size THEN Resize(desired) ELSE AbortResize(n.size)

OnPoolHot(n) ==
  LET desired == Bounded(CeilDiv(n.work, UpperBound))
  IN IF desired > n.size THEN Resize(desired) ELSE AbortResize(n.size)

OnPoolCold(n) ==
  LET desired == Bounded(CeilDiv(n.work, LowerBound))
  IN IF desired < n.size THEN Resize(desired) ELSE AbortResize(n.size)

OnPoolOk(n) == AbortResize(n.size)

Handle(n) ==
  \/ n.sensor = "metric" /\ OnMetricChanged(n)
  \/ n.sensor = "hot" /\ OnPoolHot(n)
  \/ n.sensor = "cold" /\ OnPoolCold(n)
  \/ n.sensor = "ok" /\ OnPoolOk(n)

OnEvent ==
  /\ notice # <<>> /\ Handle(Head(notice))
  /\ notice' = Tail(notice)
  /\ UNCHANGED <<pool, policy, run, failures>>

--------------------------------------------------------------------------------
(* The run that the executor was given *)

Goes(e, at, desired) ==
  phase' = [phase EXCEPT ![e] = at] /\ goal' = [goal EXCEPT ![e] = desired]
Ends(e) == Goes(e, "idle", MinPoolSize)

Start(e) ==
  /\ e \in tasks /\ phase[e] = "idle" /\ e = executor /\ alive
  /\ tasks' = tasks \ {e}
  /\ executorQueued' = FALSE
  /\ Goes(e, "calculating", MinPoolSize)
  /\ UNCHANGED <<pool, policy, notice, recent, asked, wanted, failures>>

(* Mutated form: no other run is scheduled when the size is not stable. *)
CalculateOnce(e) ==
  LET c == CalculatedDesiredPoolSize(size)
  IN /\ phase[e] = "calculating"
     /\ IF c.size = size THEN Ends(e) ELSE Goes(e, "resizing", c.size)
     /\ UNCHANGED <<pool, policy, notice, recent, executorQueued, tasks, asked, wanted, failures>>

(* An exception from the executor that was shut down ends the run. *)
Calculate(e) ==
  LET c == CalculatedDesiredPoolSize(size)
      again == ~c.stable /\ isRunning /\ ~executorQueued
      rejected == again /\ up /\ ~alive
  IN /\ phase[e] = "calculating"
     /\ IF c.stable THEN UNCHANGED <<executorQueued, tasks>> ELSE ScheduleResize
     /\ IF rejected \/ c.size = size THEN Ends(e) ELSE Goes(e, "resizing", c.size)
     /\ UNCHANGED <<pool, policy, notice, recent, asked, wanted, failures>>

(* The pool reaches the goal, or only some of the way and perhaps with an *)
(* exception, which is logged.                                            *)
ResizePool(e) ==
  /\ phase[e] = "resizing"
  /\ \/ size' = goal[e] /\ UNCHANGED failures
     \/ /\ failures < MaxFailures /\ failures' = failures + 1
        /\ size' \in Size /\ size' \in size..goal[e] \cup goal[e]..size
        /\ size' # goal[e]
  /\ Ends(e)
  /\ UNCHANGED <<work, up, changes, policy, notice, recent, executorQueued, tasks, asked, wanted>>

--------------------------------------------------------------------------------
(* suspend and resume *)

(* Mutated form: shutdown, which keeps what is queued. *)
SuspendKeeps ==
  /\ control = "running" /\ executor <= MaxSuspends
  /\ control' = "suspended" /\ alive' = FALSE
  /\ UNCHANGED <<executor, pool, run, notice, recent, executorQueued, tasks, asked, wanted, failures>>

(* shutdownNow drops what is queued; a run in progress goes on.  Nothing is *)
(* scheduled after suspended was set, so shutdownNow belongs to the step.   *)
Suspend ==
  /\ control = "running" /\ executor <= MaxSuspends
  /\ control' = "suspended" /\ alive' = FALSE
  /\ tasks' = {}
  /\ UNCHANGED <<executor, pool, run, notice, recent, executorQueued, asked, wanted, failures>>

(* suspended is reset before there is a new executor. *)
Resume ==
  /\ control = "suspended"
  /\ control' = "resuming"
  /\ UNCHANGED <<executor, alive, pool, run, notice, recent, executorQueued, tasks, asked, wanted, failures>>

NewExecutor ==
  /\ control = "resuming"
  /\ control' = "running" /\ executor' = executor + 1 /\ alive' = TRUE
  /\ UNCHANGED <<pool, run, notice, recent, executorQueued, tasks, asked, wanted, failures>>

--------------------------------------------------------------------------------
(* The pool, its sensors and the clock *)

WorkChanges ==
  /\ changes < MaxChanges /\ changes' = changes + 1
  /\ work' \in Work \ {work}
  /\ UNCHANGED <<size, up, policy, run, notice, recent, executorQueued, tasks, asked, wanted, failures>>

ServiceUp ==
  /\ ~up /\ up' = TRUE
  /\ UNCHANGED <<work, size, changes, policy, run, notice, recent, executorQueued, tasks, asked, wanted, failures>>

Utilization == CASE work > size * UpperBound -> "hot"
                 [] work < size * LowerBound -> "cold"
                 [] OTHER -> "ok"

(* One event on its way is enough to be of another time than it is handled. *)
Emit ==
  /\ notice = <<>>
  /\ \E s \in {"metric", Utilization} :
       notice' = <<[sensor |-> s, work |-> work, size |-> size]>>
  /\ UNCHANGED <<pool, policy, run, recent, executorQueued, tasks, asked, wanted, failures>>

Older(x) == [x EXCEPT !.age = Min({Period + 1, @ + 1})]
InForce == IF recent = <<>> THEN {} ELSE {Last(recent).val}

Tick ==
  /\ recent' = [i \in DOMAIN recent |-> Older(recent[i])]
  /\ asked' = [k \in 0..Period |-> IF k = 0 THEN InForce ELSE asked[k - 1]]
  /\ UNCHANGED <<pool, policy, run, notice, executorQueued, tasks, wanted, failures>>

--------------------------------------------------------------------------------
Run(e) == Start(e) \/ Calculate(e) \/ ResizePool(e)
Controls == Suspend \/ Resume \/ NewExecutor

Next ==
  \/ OnEvent \/ Controls \/ WorkChanges \/ ServiceUp \/ Emit \/ Tick
  \/ \E e \in Executor : Run(e)

Spec == Init /\ [][Next]_vars

(* Events are delivered, an executor runs what it has, a resize ends,      *)
(* suspend and resume end, and time passes.  Sensors may fall silent.      *)
FairSpec ==
  /\ Spec /\ WF_vars(OnEvent) /\ WF_vars(Tick)
  /\ WF_vars(NewExecutor)
  /\ \A e \in Executor : WF_vars(Run(e))

--------------------------------------------------------------------------------
(* Properties *)

(* Ranges; a run in the queue of an executor is announced by executorQueued, *)
(* so no executor is given two.                                              *)
TypeOK ==
  /\ work \in Work /\ size \in Size /\ up \in BOOLEAN
  /\ Len(notice) <= 1 /\ Len(recent) <= MaxValues
  /\ \A i \in DOMAIN recent : recent[i].val \in Size /\ recent[i].age \in 0..(Period + 1)
  /\ \A i, j \in DOMAIN recent : i < j => recent[i].age >= recent[j].age
  /\ control \in Control /\ executor \in Executor /\ alive \in BOOLEAN
  /\ executorQueued \in BOOLEAN
  /\ tasks \subseteq {executor} /\ (tasks # {} => executorQueued /\ alive)
  /\ phase \in [Executor -> Phase]
  /\ goal \in [Executor -> Size]
  /\ asked \in [0..Period -> SUBSET Size]
  /\ wanted \in BOOLEAN /\ (wanted => recent # <<>>)
  /\ changes \in 0..MaxChanges /\ failures \in 0..MaxFailures

Calculates(e) == phase[e] = "calculating" /\ phase'[e] = "resizing"

(* Sizes were in force throughout the last d ticks, and all are allowed. *)
Throughout(d, Allowed(_)) ==
  /\ asked[d] # {}
  /\ \A k \in 0..(d - 1) : \A v \in asked[k] : Allowed(v)

(* "Only grow if we have consistently been asked to grow for the             *)
(* resizeUpStabilizationDelay period", and so for shrinking: whatever was    *)
(* asked for during that time is at least (at most) the new size.            *)
ResizeIsSustained ==
  [][\A e \in Executor : Calculates(e) =>
       /\ goal'[e] > size => Throughout(UpDelay, LAMBDA v : v >= goal'[e])
       /\ goal'[e] < size => Throughout(DownDelay, LAMBDA v : v <= goal'[e])]_vars

(* executorQueued is set and no run will reset it: the entity was not up    *)
(* (line 486), or suspend dropped the run (317), or the executor was shut   *)
(* down when the run was to be scheduled.                                   *)
Stuck == executorQueued /\ tasks = {}

(* No member has more than UpperBound to do, unless there are MaxPoolSize,  *)
(* and none could be spared: fewer than a size that cold pools ask for.     *)
Fits == size >= Bounded(CeilDiv(work, UpperBound)) /\ size <= Bounded(CeilDiv(work, LowerBound))

(* While sensors go on to publish the size fits the work in the end, also   *)
(* after resizes that failed and after resume, unless the policy is stuck.  *)
SizeFitsWork ==
  []<><<Emit>>_vars => <>[](Fits \/ Stuck \/ control = "suspended")

(* "ensure we check again later (due to time-window) even if no additional  *)
(* events have been received": the size becomes what was asked for last.    *)
(* What is asked for while the policy is suspended is not scheduled, what   *)
(* failed is not tried again, and abortResize schedules nothing.            *)
LastDesireIsServed ==
  []<>(\/ ~wanted \/ size = Last(recent).val
       \/ Stuck \/ executor > 1 \/ ~isRunning \/ failures > 0)

================================================================================
