# A verification development for Brooklyn

Brooklyn deploys and manages distributed applications: an *application* is a
tree of *entities* that publish *sensors* and run *effectors*; *policies* react
to sensors; everything an entity does runs as a *task* of a management context.
The modules in this directory model that management core
(`src/core/src/main/java/brooklyn/`, below written `core/`), the policy that
scales a pool, and the page of the web console that shows an entity, in TLA+,
check them with TLC on small instances, and prove much of it with TLAPS.

## 1. Inventory: the system's parts

| part | state it keeps | operations | talks to | modelled in |
|---|---|---|---|---|
| `util/task/SingleThreadedScheduler` | queue `order`, flag `running`, a future per job | `submit`, `onEnd`, `cancel`, `get` | the executor of the execution manager | SingleThreadedScheduler |
| `util/task/BasicExecutionManager`, `BasicTask` | incomplete tasks, tasks by tag; a task's times, thread, result, `cancelled` | `submit`, job wrapper (`beforeStart`, `afterEnd`), `cancel`, `get`, `blockUntil*`, `shutdownNow` | the scheduler of a tag, else the executor | TaskExecution |
| `util/task/ScheduledTask`, `ParallelTask`, `SequentialTask` | `runCount`, `nextRun`; children | periodic resubmission | the execution manager | not modelled |
| `management/internal`: `LocalSubscriptionManager`, `QueueingSubscriptionManager`, `SubscriptionTracker` | subscriptions by id, subscriber and token; the queue kept before management starts | `subscribe`, `unsubscribe`, `publish`, `startDelegating*` | submits each delivery as a task tagged by subscriber, through a SingleThreadedScheduler | Subscriptions |
| `management/internal`: `EntityManagementSupport`, `AbstractManagementContext`, `LocalManagementContext` | an entity's deployment mode and contexts, `entitiesById` | `manage`, `unmanage`, `onManagementStarting/Started/Stopping/Stopped` | subscriptions, rebind listeners | EntityPersistence, Subscriptions |
| `entity/rebind`: `PeriodicDeltaChangeListener`, `RebindManagerImpl` | the delta collected since the last persist, `running` | `onChanged`, `onUnmanaged`, `persistNow`, `rebind` | the persister, a periodic task | EntityPersistence |
| `entity/rebind/persister`: `MementoFileWriter`, `BrooklynMementoPersisterToMultiFile`, `RetryingMementoSerializer` | per entity: the file, and the flags and references that decide who writes it | `write`, `delete`, `delta`, `checkpoint`, `stop` | a cached thread pool | MementoFileWriter, EntityPersistence |
| `util/mutex`: `MutexSupport`, `SemaphoreWithOwners` | a semaphore per mutex id, its owning and requesting threads | `acquireMutex`, `tryAcquireMutex`, `releaseMutex`, `cleanup` | the ssh locations, for installs | MutexSupport |
| `util/pool/BasicPool` | the pooled objects, counts, `closed` | `leaseObject`, `exec`, close of a lease, `closePool` | the ssh locations, for connections | BasicPool |
| `policy/autoscaling/AutoScalerPolicy`, `util/TimeWindowedList` | recent desired sizes, `executorQueued`, `executorTime` | sensor handlers, `scheduleResize`, `suspend`, `resume` | a `Resizable` pool | AutoScalerPolicy |
| `entity/group`: `DynamicCluster`, `AbstractGroup` | members, owned children, quarantine, `SERVICE_UP` | `resize`, `replaceMember`, `start`, `stop`, `addMember` | nodes, locations, subscriptions | DynamicCluster |
| `AbstractMembershipTrackingPolicy` | the group it tracks, its subscriptions | `setGroup`, `suspend`, `resume`, handlers of added and removed members | a group, subscriptions | TrackedCluster |
| `DynamicGroup`, `DynamicFabric` | members by filter; a cluster per location | handlers of added, removed and changed entities; `start` | subscriptions, clusters | not modelled |
| `policy/loadbalancing`, `policy/followthesun` | a model of containers and items with workrates | sensor handlers, `rebalance` strategies | balanceable groups | the events to the auto scaler only |
| enrichers, `DependentConfiguration`, `AttributeMap` | last values per producer; the attribute values | sensor handlers, `attributeWhenReady` | subscriptions | AttributeMap's publication only |
| `location/basic` (fixed lists of machines, machine pools, jclouds, ports) | free and used machines and ports | `obtain`, `release`, `refresh` | clouds and ssh | not modelled |
| web console, detail page (`usage/web-console/web-app/js/console`) | the selected entity and tab, handlers bound to `update`, timeouts, tables | selection, clicks, the periodic update, answers of the server | the server over HTTP | WebConsole |
| web console, dashboard; REST console (`sandbox/rest`) | widgets, Backbone views and models | polls, views | the server over HTTP | not modelled |
| `software/*`, `systems`, `examples` | drivers and example applications | scripts over ssh, HTTP handlers | the core | out of scope |

What makes each part correct: the scheduler runs the jobs of a tag in order and
one at a time; a task runs once, and cancellation is final; a listener gets the
events of a thread in order and ends up with the current value; a tree under
management is persisted whole, and what left it leaves the disk; a file is
written by one task at a time and never goes back; a mutex has one holder; an
object is leased to one user at a time and closed once; a pool is resized to a
size that was asked for long enough, and in the end to one that fits its load;
a cluster loses no node and has the size asked for; who tracks a group knows its
members; the console shows and acts on what the user selected. For the parts
that are not modelled: a machine has one user, a dynamic group has the members
that match, a cancelled schedule runs no more.

## 2. What is hard, and where

`PROJECT.json` lists under "hazards" the lines where this code is exposed, each
with the properties that would see it go wrong. They come in seven families.

* *Hand-over between threads.* `SingleThreadedScheduler` passes the turn from
  the end of one job to the next; `MementoFileWriter` passes `executing` from a
  task to the listener of its future; `MutexSupport` leaves its monitor before
  the semaphore is taken. In all three a flag says that somebody is at work and
  the question is whether somebody is.
* *Change of regime.* While an entity comes under management, its events go to
  a queue, then past the queue, then through it, then to the manager.
* *Cancellation and interruption*, at any moment and on either side of the
  executor's `FutureTask`.
* *Partial failure and crash*: a write or a task fails, the executor is shut
  down, the process ends between two files.
* *Two passes over a tree* whose shape the first pass changes (`unmanage`).
* *A check, then a wait, then the act*: an object leased while the pool closes,
  a resize computed from a workrate that has changed, a cluster of which members
  go while a call waits for its mutex, a copy of the members told of while
  events of the same members arrive.
* *Answers out of order*: requests of the console about two entities, and
  timeouts that nobody clears.

### Where the code and its texts disagree, beyond finding 1

The models do what the code does here, and the properties name the exception.

* *A deleted file comes back.* `write` records its memento
  (`MementoFileWriter.java:58`) before it looks whether the file was deleted and
  says "Not writing {}, because already deleted" (60); the listener of the
  delete task then writes it (155).
* *A null over the newest state.* `write` records its memento
  (`MementoFileWriter.java:58`) and then tries to start a task (61). A task in
  progress may take that memento in between, store it and end; `write` still
  starts its own, which takes a null and writes `<null/>` over the file. The
  listener, which releases `executing` (146) before it looks at what is recorded
  (155), loses to a `write` in the same way. Nothing has failed and nothing is due,
  but the state is not on disk, and the next process cannot rebind, since
  `loadMemento` throws on the null (`BrooklynMementoPersisterToMultiFile.java:108-112`);
  the listener "periodically persists all entities/locations/policies that have
  changed since the last periodic persistence"
  (`PeriodicDeltaChangeListener.java:24-25`).
* *An interrupted installer releases the mutex of another* (`ScriptHelper.java:204`
  with `SemaphoreWithOwners.java:132`): interrupted in `acquireMutex`, it releases
  in its `finally`; the permit is added before the exception is thrown, and two
  installations run.
* *Unmanage is not recursive*, though `AbstractManagementContext.java:144` says
  "Causes the given entity and its children, recursively, to be removed": the
  first pass takes each entity out of its owner's children
  (`EntityManagementSupport.java:176`) and the second looks there for them.
* *Events are overtaken*: those published between `onManagementStarting` and
  `onManagementStarted` go straight to the listeners, past earlier ones in the
  queue, while "emit(A); emit(B); should cause onEvent(A); onEvent(B) in that
  order" (`LocalSubscriptionManager.java:156`) and "sensor _publications_ and
  executor submissions are queued" (`EntityManagementSupport.java:119`).
* *Auto scaler.* "Shrink the pool to force its low threshold to fall below the
  current workrate" (`AutoScalerPolicy.java:406`): the size is rounded up, as
  its test wants, and the threshold may stay above. `POOL_OK` has the name of
  `POOL_COLD` (172). A run that `suspend` drops (317) or that finds the entity
  not up (486) leaves `executorQueued` set, and nothing is scheduled any more
  (`Stuck`). `LoadBalancingPolicy.java:167` emits hot and cold only.
* *Web console.* "If the tab is deselected, it stops listening" (`tabs.js:43`) is
  not so after a pause, whose timeout binds the handler again, nor when the
  handler of the location tab throws. `policyId` outlives the selection of
  another entity (`policies.js:87`). The effectors' tab "Lists the effectors that
  can be invoked on the selected entity" (`docs/use/guide/management/index.md:149`),
  but its list is asked for once and the last answer stays, while the button
  sends `selectedEntityId` (`effectors.js:101`): until the list of a new selection
  comes, when it fails, and for good when an older one comes after it, an effector
  of one entity is sent to another.
* *Clusters.* `DynamicCluster.java:165` compares two `Integer` references with
  `!=`, which is right for small sizes only. A resize that waits for the mutex
  while the cluster stops (177) grows a stopped cluster. Of the task that stops
  several nodes "calling get() on the result will block until all complete"
  (`Entities.java:67-68`), but a ParallelTask ends at the first exception, and the
  cluster goes on while other nodes are still stopping (`lost`).

Some lines are wrong or odd in a way that one call shows and a unit test
settles: a timed `get` waits without the monitor (`BasicTask.java:271`);
`unsubscribeAll` iterates over the set it empties
(`BasicSubscriptionContext.java:137`); a producer is compared with a sensor
(`QueueingSubscriptionManager.java:124`); a refused `tryAcquireMutex` may leave
its map entry (`MutexSupport.java:61`); a change of config tells no listener
(`AbstractEntity.groovy:214`).

Of the parts without a module: a scheduled task cancelled between its test and
the assignment of its next future runs once more
(`BasicExecutionManager.java:222`); a machine pool replaces its set while others
read it (`MachinePool.java:109`); machines are added without the lock of
`obtain` (`FixedListMachineProvisioningLocation.java:103`); a dynamic group
tests its filter and changes its members in two steps (`DynamicGroup.java:133`).

## 3. The modules

Every action is one atomic step of one thread: what the code does inside one
monitor, or one access to one atomic or volatile variable. Variables keep the
names of the fields. `PROJECT.json` "map" gives for each definition the lines it
stands for. Operators commented *Mutated form* are what a plausible mistake
would make of the action after them; nothing uses them but the checks that the
properties can fail. In MementoFileWriter and WebConsole the specification and
what belongs to it are named `WriterSpec`, `ConsoleSpec` and so on, since their
proofs are in a module that extends another specification too.

### SingleThreadedScheduler, SerialExecution

`order`, `running`, the futures and the executor's threads. `submit` is one step
under the monitor (`SubmitNow`, `SubmitQueued`); the executor's thread begins
the body, ends it and enters `onEnd`, whose loop over the queue is a step per
job taken (`OnEndTake`), handed to the executor (`OnEndExecute`) and told to its
future (`OnEndDelegate`). `WrappingFuture`, the future of a queued job, has its
own `cancel` (flag, then notify) and `get` (test, test, wait), which no monitor
orders against `onEnd`. `Shutdown` makes the executor reject: the pool has a
SynchronousQueue, so nothing accepted is dropped.

`SerialExecution` is the promise: a line of jobs, taken from its head, one active
at a time. `ImplementsSerialExecution`
maps the threads to it: the line is the job the executor holds but has not
begun, the one `onEnd` has in hand, and the queue.

Assumed: the non-volatile `cancelled` of the WrappingFuture is seen when it is
read; one thread cancels and one waits for each future.

### MementoFileWriter, FileStore

One file, clients in `write` and `delete`, and *executions*: a task with the
listener of its future, which is one sequential agent since the submitter does
nothing after it. Each atomic variable is read and written in a step of its own.
A memento is the number of the `write` that brought it, `Null` a null reference
(and the file `<null/>` that is written from one).

`FileStore` is the promise, for the files of any number of items: a memento is
recorded, taken by one task, and stored whole or lost; the file is removed only
on request and with no memento in hand; the end of the process leaves the files
and nothing else. The two modules that have writers implement it:
MementoFileWriter with one item, where what is in hand is what a task took and
has not moved to the file and the request is `requireDelete` or `deleted`;
EntityPersistence with an item per entity, where `Restart` is the `Crash`. The
writers of EntityPersistence have the same calls, tasks and listeners, with every
atomic access in a step of its own where somebody may come between; they have one
caller, and the temporary file, which is moved in one step with its making, is in
MementoFileWriter only. FileStore says nothing of what is stored when, nor that a
null is never stored; that is left to the properties of each module.

### MutexSupport

One mutex id (ids share only the monitor), its semaphore objects, and the
threads that use it: some only try, some acquire inside the `try` whose
`finally` releases, as `ScriptHelper` and `JavaSoftwareProcessSshDriver` do.
There are two monitors. `requestingThreads` is a hash set that `getSemaphore`
changes under one and everything else under the other: each change is a read and
a write, and the write leaves either what was read or what is there. No thread
acquires a mutex that it holds. What happens after such an update is lost, or
after a mutex was released by another, is undefined enough that the properties
promise nothing from there on (`Orderly`); the run stops exploring at a lost
update (`CONSTRAINT NoUpdateLost`), where they are all true.

### TaskExecution

`submit` of the execution manager and the job that it wraps around a task; the
task's `cancel` and `get`. `submit` and `cancel` hold the task's monitor from
the first step to the last, the executor's thread takes it only to notify, so it
reads `cancelled` and `result` while a canceller is half way. Tasks share
nothing but the count of incomplete tasks. Left out: tags, preprocessors, the
callbacks of a submission; the visibility of the non-volatile times. An
interrupt makes a job fail, which a job may do anyway.

### EntityPersistence

The tree, the two passes of `manage` and `unmanage`, the listener that collects
a delta, the periodic task that turns it into mementos and gives them to the
persister, the persister's writers, one per entity, and a restart, which builds
the tree from the files it finds. One thread runs `manage` or `unmanage` at a
time; children are added when none is in progress; the entities of a pass are
visited parents first and siblings in any order.

A writer is that of `MementoFileWriter.java` in its steps. The periodic task is
its only caller: it records (`Persist`, `RequireDelete`), with the tests of
`requireDelete` and `deleted`, whose result does not change during a call that
nobody else makes, and then tries the compareAndSet (`CallCas`). The task
(`execution`) takes what is recorded and stores it (`TakeRequired`, `WriteFile`),
or deletes (`DeleteFile`). The listener of each task that ended releases
`executing` (`Release`), looks for a delete (`TestDelete`), then for a write
(`TestWrite`), and tries the compareAndSet (`PostCas`); several may be at it, so
`listeners` counts them by place. A task that finds nothing recorded writes
`<null/>`, `Null` here, over the file; with such a file `loadMemento` throws, and
nothing is rebound (`Restart` has that as a guard).

`version` stands for an entity's attributes (a change of config tells no
listener). A write may fail after it took its memento (`failed`); so may the
making of a memento, and then the periodic task is dead. `stop` of the
management context is a crash as far as the files go. Locations, policies and
members are kept like entities or not at all, and are left out.

### Subscriptions

Threads that set an attribute of one entity, the thread that manages the entity,
and listeners that come and go. `Update` stores the value; `GetContext` finds
the context of that moment; then the event is queued (`Enqueue`), or published:
the listeners are looked up in one step under the monitor (`Collect`) and each
delivery is submitted in a step of its own (`Submit`). The management thread
turns subscriptions on (`OnManagementStarting`), then takes the queue's monitor,
publishes what is in it, and leaves (`OnManagementStarted`, `Drain`,
`Drained`). The tasks of a subscriber run in the order of their submission, by
SingleThreadedScheduler, so `inbox` is a sequence; each subscription has a
subscriber of its own. Left out: filters, wildcards, and what is published after
unmanagement, which goes to a queue that nothing empties.

### BasicPool, ObjectLifecycle

Threads that lease and give back, and the pool's closing. What happens in the
monitor of `pool` is a step (`Poll`, `ReturnLeasee`, `ClosePool`); the supplier,
the viability check and the closer of an object that is no longer viable run
outside of it. A closer may throw: in `closePool` it then leaves the rest of the
deque, and what it closed stays in it (`cutShort`). A lease may be closed twice,
which the code takes for two (`twice`). A viability checker that throws
(`BasicPool.java:103`) would lose its object; it is left out, as the only one in
the repository (`SshMachineLocation.java:134`) does not. `ObjectLifecycle` is
what `Pool` promises: an object is absent, then used and idle in turn, then
closed for good. `ImplementsLifecycle` maps deque, hands and closer to it.

### AutoScalerPolicy

The handlers of the metric and of hot, cold and ok pools; the window of the
sizes asked for (`recent`), with its pruning and its two stabilisation delays;
the executor with at most one queued run, which asks for another when the window
was not stable; `suspend` and `resume` with a new executor; a pool that is
resized, may refuse, and whose load changes. Time is a tick that makes records
older; `asked` remembers what was in force when. Workrates are integers, for
which divisions are what they are in floating point. Left out: setters,
`destroy`, a minimum period between runs, and custom resize operators.

### DynamicCluster, TrackedCluster

Calls of `start`, `stop`, `resize` and `replaceMember`, each in a thread; inside
the mutex a grow adds nodes one by one (`AddNode`), starts them and awaits them
(`InvokeStart`, `Grown`), quarantines or discards those that failed (`CleanUp`);
a shrink picks members, stops them and discards them. Nodes start and stop in
tasks of their own and may fail; the factory may; others may unmanage a member;
`stop` suspends the policies, which interrupts one that is resizing. History
variables keep what the code lets go of (`lost`) and what a call reports as
missing or others took (`missed`). `TrackedCluster` adds a tracking policy: two
subscriptions, a copy of the members, a loop over it in the caller's thread, and
events in a FIFO queue delivered by another. What was removed while nobody
listened or before the loop ended is `unheard`. Left out: locations, preferences
of removal strategies, `setMembers`, a `stop` before `start`.

### WebConsole

The page of one entity. `EntitySelected` and `TabSelected` bind, unbind and ask;
`PauseUpdate` and `RebindUpdate` are `brooklyn-util.js`; `TriggerUpdateEvent` is
the interval of `main.js`. JavaScript handlers run to their end, so each is one
step; requests are a set that is answered in any order or with an error. Binding
a handler twice makes it run twice with the same effect, so sets say what is
bound, timed or asked. The location tab's handler throws before its first answer
and ends the dispatch, so tabs bound after it are not called (`Throws`, `Called`).

The list of effectors is asked for once per selection. A click on its row gives
the button an effector of the entity the list is of (`UpdateParameters`, `row`); a
click on the button sends `selectedEntityId` with that effector's name
(`InvokeEffector`). `invoked` keeps the requests: both entities, and in `unless`
why they may differ: the selected entity's list was still awaited, or (`lapse`) it
failed or an older list came after it. What the server does with the request is
left out.

### How they fit together

A sensor event becomes a delivery (Subscriptions), the delivery a task
(TaskExecution) whose tag leads it through a SingleThreadedScheduler to the
executor. A change of an entity becomes part of a delta (EntityPersistence),
the delta a `write` of one file (MementoFileWriter). The members of a cluster
become events, and these what a tracker knows (TrackedCluster); a run of the
auto scaler is the `Scaler` thread of a cluster, which `stop` interrupts. An
installation takes a mutex, a script leases a connection. The fine-grained modules are
checked alone; of these, the coarser ones use as atomic steps only the FIFO
delivery, as `inbox` and `queue`. The writers of EntityPersistence are not made
coarser, since what becomes of a change depends on the steps of their listeners;
that they and MementoFileWriter implement one FileStore is checked and proved.

## 4. The runs

| run | instance | question | answer |
|---|---|---|---|
| `scheduler_safety` | 3 jobs, symmetric | do bodies overlap, is the turn kept, is it SerialExecution? | no; yes, until a rejection; yes |
| `scheduler_live` | 2 jobs | is every accepted job done, does every `get` return? | yes, unless the scheduler is wedged |
| `scheduler_stranded` | 2 jobs | can it wedge without a shutdown? | yes: finding 1 |
| `writer` | 2 clients, 2 executions, 2 writes, 1 failure | serial tasks; newest memento kept; no older file; is it FileStore; writes and deletes picked up? | yes |
| `mutex` | 3 threads (one tries, one releases in a `finally`), 2 interrupts | one holder, registered; waiters served | yes |
| `task` | 1 task, 3 threads | handed over once; times in order; cancel final; `get` returns | yes |
| `persistence` | application, with a child or 1 change, 2 runs of the periodic task, 1 crash | is every change on its way to the disk; do files of the unmanaged go; is it FileStore? | yes, but for the exceptions below |
| `subscriptions` | 2 publishers, 2 listeners, 2 events | nothing lost or doubled, order, current value | yes, unless an event passes the queue |
| `pool` | 3 threads, 3 objects, 4 leases, 1 closer throws | one place for an object; all closed in the end; is it ObjectLifecycle? | yes, unless a closer cuts `closePool` short |
| `autoscaler` | sizes 1 to 3, 2 of them in the window, delays of 1 and 2 ticks, 1 change of load, 1 suspend, 1 failed resize | are resizes sustained; does the size fit in the end; is the last desire served? | yes, unless the policy is stuck |
| `cluster` | 3 nodes, symmetric, a client and a policy's run, 2 calls, 1 trouble, a tracker with 2 resumes | is a node forgotten; is the size the one asked for; does the tracker know the members? | no; yes; yes; up to what the code lets go of |
| `console` | 3 tabs and the effectors, 2 selections, 5 requests | does the shown tab poll, and end with the selected entity; does the button send an entity its own effector? | yes; yes; yes, unless the list was awaited, failed or was overtaken |

**Bounds.** Three jobs are one running, one in the hands of `onEnd` and one
behind them; liveness needs two. A writer's hazards are about one call recorded
while another execution is in progress: two of each, and two mementos so that
one may be older. Three threads at a mutex are a holder, a waiter and one that
arrives between them; three semaphore objects suffice as one that nobody refers
to is made anew. Three callers of one task are one in each of `submit`, `cancel`
and `get`, and tasks do not interact. A parent and a child have every relation
the two passes depend on, and managing, adding, removing and unmanaging change
them. A new child counts as a change, so an application has a child or a change
of its own; one crash can fall between any two steps, and changes and runs of
the periodic task are counted over both processes. Two runs give a writer two
calls, with a task and several listeners between them. The run also passed with
three (6742445 states), and for one entity with three changes and four runs
(555k); a child and another change together are beyond what TLC does in minutes,
and are in the proofs. Properties of events are about pairs, so two events do.
Three threads at a pool are one with a lease, one on its way to one and one that
closes; four leases let an object go out, come back and go out again. One change
of load with a suspension and a failure puts each of them before, in and after a
run; two sizes in the window are one in force at its beginning and one asked for
later, and the run also passed with three (388923 states); the delays differ so
that growing and shrinking are told apart. In the cluster sizes go from 0 to 2
and the third node is one that replaces another, or comes while one is stopping;
the run also passed with two troubles, and with any number of events on their
way. The console's three tabs are one whose handler throws, one that no click
pauses and a plain one; two selections are an older and a newer answer. The run
does not go on after a request of the button (`CONSTRAINT NothingInvoked`): the
request changes nothing else, so each later one is also the first of another
behaviour.
Deadlock checking is off where callers may simply stop calling; it is on for the
mutex, whose threads go on for ever.

**Fairness** is weak fairness of threads that are inside a call, and of executor
threads: a thread that can run does in the end, and a job, an installation or a
listener ends. Nobody is obliged to call, cancel, interrupt or shut down. Weak
fairness is enough although threads compete for monitors: in the mutex and the
task whoever overtakes has then to wait behind, in Subscriptions only the
threads that found the queue before management compete for its monitor. The
timed `get` is not fair. In the pool whoever has a lease closes it, as `exec`
does in its `finally`; in the auto scaler events are delivered, a resize ends and
time passes; in the console timeouts expire and requests are answered. That
sensors go on (`SizeFitsWork`) and that the user settles (`ShowsSelected`) are
premises of the properties. Without fairness nothing is claimed to happen.

**What the properties leave open** is part of what the code does, and each
exception stands in the property that makes it:

* after a shutdown `executeNow` throws with `running` set, and the turn is lost
  (`TurnConserved`); a wedged scheduler stays wedged (`EveryJobSettles`);
* a writer whose task failed has lost its memento, and two tasks that find one
  recorded write let the second write `<null/>` over the file (`NewestSurvives`);
* `tryAcquireMutex` takes a permit past those that wait, and may starve them
  (`WaiterIsServed`);
* a task cancelled before it was submitted is submitted all the same, and its
  `get` then fails (`CancelIsFinal`);
* where two tasks of a writer find one recorded memento, or a listener comes late
  to a deleted file, `<null/>` is in the place of the newest state, or back on disk
  (`EveryChangeIsTracked`, `DeletedFromDisk`);
* a change of which the listener was told after `onUnmanaged`, or a write that was
  recorded and in nobody's hands when the delete was called, leaves a file (`late`,
  in `DeletedFromDisk`); so does an entity never written in this process;
* two threads that set one attribute publish in either order, so that the last
  event need not be the value (`raced`, in `CaughtUp`); events published between
  the steps of management go past the queue (`overtakers`);
* a `closePool` whose closer throws leaves objects open (`cutShort`), and an
  object whose lease was closed twice may have two users (`twice`);
* the auto scaler stops for good when `executorQueued` stays set (`Stuck`);
* a cluster lets go of nodes that failed to stop, were unmanaged by others, were
  stopped while they started, were stopping when another failed, or were picked
  when the members ran out (`lost`);
* the button of the effectors sends an effector of one entity to another while the
  list of the selected one is awaited, when its request failed, and when an older
  list came after it (`unless`, in `InvokesOnSelected`);
* a tracker may keep a member that was removed while it did not listen or was
  being told (`unheard`).

## 5. Finding

1. *Stranded queue* (`SingleThreadedScheduler.java:91`). A job cancelled between
   its submission and the start of its thread never runs its `finally`; nobody
   calls `onEnd`, `running` stays set, and every later job of the tag waits for
   ever. The class comment promises in-order execution.

Section 2 lists what else the models have that the texts of the repository deny.

## 6. What is proved

The eight `*_proofs` modules prove, for every value of the constants, every
invariant, every action property and every refinement that a passing run checks;
what is left to the runs alone is liveness, and of that the safety part is
proved where a wakeup, an event or a request could be lost (below). Each proof
has the same shape: `IInv` is the conjunction of the type invariant and named
parts, `Init => IInv`, one lemma or step per action for `IInv /\ [Next]_vars =>
IInv'`, and PTL for the rest.

* **SingleThreadedScheduler_proofs.** `TypeCorrect`, `MutualExclusion`,
  `TurnIsConserved`, `Refinement` (every step of the threads is a step of
  SerialExecution or a stutter, and so `Spec => Abstract!Spec`). That bodies do
  not overlap is not inductive: a job begins because it was handed over, it was
  handed over by the thread in `onEnd`, and that thread no longer owns the turn.
  The strengthening says who owns the turn (`TurnConserved`), that the queue
  holds each job once and none that the executor has (`QueueSound`), and that
  futures come after the hand-over (`FuturesSound`). `NobodyIsStranded` follows
  each accepted job and each waiting `get()` (`Kept`): until a shutdown rejects it,
  a job is queued, in the hands of `onEnd`, with the executor or cancelled; its
  future learns of the executor's; a waiter is not one that was told already. With
  the turn, somebody has yet to get to each of them.
* **MutexSupport_proofs.** `TypeCorrect`, `Exclusion`, `Registration`, for any
  set of threads, of semaphores and any number of interrupts. The invariant is
  `TypeOK` and, while the calls are orderly, that everybody between
  `getSemaphore` and release is registered on the semaphore as owning or
  requesting (`Registered`), that this semaphore is the one mapped
  (`RefIsMapped`), and that it has one permit, free or had by one thread
  (`OnePermit`). Registration keeps the entry mapped, the mapped entry has one
  permit: neither holds without the other. `NoWaiterIsLost` goes on from there:
  a permit that is not free is with a thread on its way to releasing it
  (`PermitKept`), and the line of the semaphore has each thread that is parked,
  once, and nobody else (`LineKept`), through timeouts, interrupts and the
  removal of entries.
* **TaskExecution_proofs.** `TypeCorrect`, `OnlyOnce`, `Times`,
  `CancelledForGood`, for any set of tasks and clients. The invariant adds that
  a task handed over has its result or a submitter about to set it (`Handed`),
  what each stage of the executor's thread has set (`Stages`), and that a task
  whose cancellation returned true can no longer end with a value (`Promise`).
  `NoGetIsMissed` says that what a waiting `get()` waits for, the notify or the
  end of the future, is still to come; `DoneForGood` that `isDone()` does not go
  back.
* **Subscriptions_proofs.** `TypeCorrect`, `KeepsOrder`, `ListenersCatchUp`, for
  any number of publishers, subscriptions and events. `Order` says that the way
  of a thread's events, from its hand through the queue and the manager's hand
  to the inboxes, is in the order of their numbers: what a publisher holds is
  newer than all of its events elsewhere (`Newest`), who delivers by itself has
  nothing in the queue unless it is an overtaker (`NothingPassed`), the inboxes
  are before the queue (`Earlier`). For the value, `ValueFollows` says that a
  queue in use ends with the value, or the manager or a publisher has it in
  hand, and `Fresh` that a listener has it or will be served it. `NoEventIsLost`
  follows an event from step to step: no handover between publisher, queue,
  manager and inbox drops it for a subscription that stays.
* **BasicPool_proofs.** `TypeCorrect`, `OneUserOrClosed`, `Refinement`, for any
  sets of threads and objects. `OnePlace` is inductive once an object that was
  not made was not closed either; the refinement takes each step of the pool to
  one of ObjectLifecycle. `ClosedLeavesNone` says that after a `close` that was not
  cut short the deque is empty, and every object was closed or is in
  the hand of a thread.

  The module also has the proofs about **MementoFileWriter**:
  `WriterTypeCorrect`, `TasksAreSerial`, `NewestIsNotLost`, `FileNeverOlder`, for
  any number of clients, executions, writes and failures. `OneTaskAtATime` ties
  `executing` to the task that holds it; on top of it `Ages` orders the mementos:
  the file is not newer than what the task carries, and what is recorded is the
  newest. `NothingForgotten` is that of the lock-free hand-over: what was recorded
  while `executing` was set is seen by the task, by its listener or by a thread
  that is about to try for `executing` again. `WriterStoresWhole` is the refinement
  of FileStore: as there is one task, its phase says what is in hand (`HandOfTask`),
  and the temporary file that it moves is the one it wrote; `deleted` is set before
  `requireDelete` is reset, so the request is not lost in between.
* **TrackedCluster_proofs.** `TypeCorrect`, `NothingAstray`, `SizeReached`,
  `CatchesUp`, of the cluster with its tracker, for any nodes, threads, sizes and
  numbers of failures. What a call holds depends on where it is (`Held`, one part
  each for growing, shrinking and replacing); `Sized` is the equation of members,
  what is yet to do and what is missed, kept by whoever has the mutex. For the
  tracker `QueueSound` says that a node is added once and removed at most once
  after, and `Knows` that what it was told together with what is on its way
  makes up the members.
* **EntityPersistence_proofs.** `TypeCorrect`, `RecordsAreSeenTo`,
  `ChangesAreTracked`, `UnmanagedIsDeleted`, for any set of entities and any
  numbers of changes and crashes. The last two are not inductive, and they need
  each other's parts.
  That a tree stays a tree through the two recursive passes of `manage` and
  `unmanage` rests on the order of a pass (`TreeSound`: a parent is managed first
  and unmanaged last, but for the pass under way; `PassSound`: what the pass has
  still to do is as it was when it began), and after a crash on there being one
  parent on paper as in memory (`OneParent`: no mementos that rebind could read
  together name two parents of an entity). `RecordsAreSeenTo` is the hand-over of
  the writer (no run checks it; those of MementoFileWriter are checked for
  `WriteIsPickedUp`): whoever records something and leaves, and whoever leaves without
  having looked, leaves behind a task, a listener or the caller that has yet to
  look. That a change is never forgotten
  (`Tracked`) follows a memento from hand to hand, an entity whose write
  failed until its next one, and a null that was written until the next change.
  That an unmanaged entity leaves the disk (`Removal`, `WriterSound`) needs that it
  is reported as removed once, in one of the two deltas, that no memento of it is
  made after that, that nobody is about to start a delete that was not asked for
  (`Deletes`), and that what is recorded when the delete is asked for is about to be
  taken by the task in progress. `FilesRefine` takes
  each step to one of FileStore, for all entities together.
* **AutoScalerPolicy_proofs.** `TypeCorrect`, `ResizesAreSustained`, for any pool
  sizes, bounds, delays and workrates. The policy decides from a list of values
  with ages that it prunes; the property is about the sizes that were in force
  during each of the last ticks. `RecentSound` relates the two: those of tick k
  are the values at least k old that were not followed by another by then. It is
  kept by adding a value (`Appended`), by pruning, which only drops what was
  followed before the longest delay (`PrunedKeeps`), and by a tick (`AgedKeeps`).
  From it, a window that is covered holds all that was in force during the delay
  (`Covered`), so its least (greatest) value is one that every request agreed to
  (`MinWanted`, `MaxWanted`, `CalculatedIs`). It is the one value kept from before
  the window that makes this true. The lemmas on the least and greatest of a set
  (`MinIsLeast`, `MaxIsGreatest`) come from the well-foundedness of `<`.
  `NoDesireIsForgotten` is the promise to check again later: a run that schedules no
  other leaves the size that was asked for last, because a window whose least and
  greatest value agree has no other (`StableWindow`, `StableIsDesired`).

  The module also has the proofs about **WebConsole**: `ConsoleTypeCorrect`,
  `TabListens`, `Invokes`, for any tabs and any number of selections. With the
  ranges the first is inductive. For the second, `ListFollows` says that the row
  that was chosen is of the list on the page, which every new list resets, and that
  this list is of the selected entity, awaited, failed or overtaken.

The assumptions are the named ones in the modules: `None` is not a thread, a
job, an entity or a memento, a null reference is neither, delays and pool sizes
are positive, bounds are natural numbers.

**Only model-checked.** Liveness (`EveryJobSettles`, `GetReturns`,
`WriteIsPickedUp`, `DeleteIsCarriedOut`, `WaiterIsServed`, `EveryEventArrives`,
`EverythingCloses`, `SizeFitsWork`, `LastDesireIsServed`, `ShowsSelected`): it
needs ENABLED and fairness, which the prover does not do. What is proved about
all of them but `SizeFitsWork` and `ShowsSelected` is the invariant, or for events
the action property, that they rest on: as long as the awaited thing has not
happened, some thread is on its way to do it (`NobodyIsStranded`,
`NothingForgotten`, `NoWaiterIsLost`, `NoGetIsMissed`, `NoEventIsLost`,
`ClosedLeavesNone`, `NoDesireIsForgotten`). These say nothing about whether the
thread gets there; no run checks them, because the liveness property of the same
component does.

## 7. What is not modelled

`PROJECT.json` gives the reason for each component. In short:

* *input and output around the core*: ssh and cloud access, drivers of software
  entities, sensors of remote services, command line, servlets;
* *vendored code*: the JavaScript libraries under `usage/web-console/web-app/js`
  and `sandbox/rest` (jquery and its plugins, require, underscore, backbone),
  and `core/src/3rd`. The libraries are most of the JavaScript of the repository;
  what the console uses of them is an event, a timeout and a request;
* *display*: the dashboard's widgets, maps and tables; the REST console, an
  experiment whose views fetch a model and draw it;
* *arithmetic over floating point numbers*: enrichers, the strategies of load
  balancing and of following the sun;
* *left for later*: scheduled tasks, machine provisioning, DynamicGroup,
  DynamicFabric, locations and members in the persistence. Nothing in them is
  beyond TLC.

## 8. Plan

Done, in this order: SingleThreadedScheduler with SerialExecution,
MementoFileWriter with FileStore, MutexSupport, TaskExecution,
EntityPersistence, Subscriptions, BasicPool with ObjectLifecycle,
AutoScalerPolicy, DynamicCluster and TrackedCluster, WebConsole; proofs of the
safety properties of all of them. What is left, most important first:

1. **ScheduledExecution** over TaskExecution: periodic resubmission against
   cancellation.
2. **MachineProvisioning** (FixedListMachineProvisioningLocation, MachinePool): a
   machine has one user, one that is removed is not given out again.
3. **DynamicGroup** on top of the tracker's FIFO delivery.
4. The auto scaler as the `Scaler` of a DynamicCluster, in one module.
