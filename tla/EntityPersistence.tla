--------------------------- MODULE EntityPersistence ---------------------------
(***************************************************************************)
(* The tree of managed entities and its copy on disk: manage and unmanage  *)
(* of the management context, the PeriodicDeltaChangeListener that collects*)
(* what changed, its periodic task, the persister with one file writer per *)
(* entity, and a restart, which rebinds to the files that it finds.        *)
(*                                                                         *)
(* A writer is that of MementoFileWriter with one caller, the periodic     *)
(* task: a call records what it wants and then tries to start the writer's *)
(* task, and so does, in four steps, the listener of each task that ended. *)
(* Listeners are counted by their place.  The temporary file is left out,  *)
(* and what a step of a task does that nobody can come between of is one   *)
(* step.  Locations are kept in the same way as entities and are left out. *)
(***************************************************************************)
EXTENDS Integers, FiniteSets

CONSTANTS
  Entity,
  App,          \* the application, the root of the tree
  MaxChanges,   \* bound on the changes of attributes and the new children
  MaxRuns,      \* bound on the runs of the periodic task that find changes
  MaxRestarts,  \* bound on the crashes
  Null,         \* a null reference, and the file "<null/>" written from one
  None

ASSUME AppAssumption == App \in Entity /\ None \notin Entity
ASSUME MaxAssumption == MaxChanges \in Nat /\ MaxRuns \in Nat /\ MaxRestarts \in Nat

(* What is written of an entity. *)
MementoType ==
  [version : Nat, owner : Entity \cup {None}, children : SUBSET Entity]

ASSUME NullAssumption == None \notin MementoType /\ Null \notin MementoType /\ Null # None

VARIABLES
  mode,       \* of the entity: see Mode
  managed,    \* entitiesById
  owner, children,  \* the tree
  version,    \* stands for an entity's attributes and config
  inFlight,   \* changes of which the listener is about to be told
  op,         \* the thread in manage or unmanage: see Pass
  delta,      \* deltaCollector: [changed, removed]
  saver,      \* the periodic task: "idle", "busy" or, after an exception, "dead"
  prev,       \* its prevDeltaCollector, what it has not yet dealt with
  taken,      \* the mementos in its persisterDelta
  writer,     \* the entity has a MementoFileWriter in this run
  execution,  \* its task: "write", "delete", "done" while executing is still set, or "none"
  writing,    \* what the task took: a memento, Null, or None when nothing is in hand
  required, requireDelete, deleted,  \* the writer's variables
  listeners,  \* how many listeners have released executing and are at which place
  call,       \* the call of a writer by saver, before its compareAndSet
  file,       \* the entity's file
  changes, runs, restarts,  \* how many there were
  late,       \* history: of whom a change was told after onUnmanaged, or
              \* a write was recorded and in nobody's hands when delete was called
  failed      \* history: whose last write failed

tree == <<mode, managed, owner, children>>
task == <<saver, prev, taken>>
writers == <<writer, execution, writing, required, requireDelete, deleted, listeners, call>>
disk == <<writers, file>>
counters == <<changes, runs, restarts>>
history == <<late, failed>>
vars == <<tree, version, inFlight, op, delta, task, disk, counters, history>>

(* No such entity; built and not managed; between and after the two passes *)
(* of manage; the same of unmanage.                                        *)
Mode == {"absent", "new", "starting", "started", "stopping", "stopped"}

Nothing == [changed |-> {}, removed |-> {}]

(* A pass of recursively from the root: who is to have a turn next. *)
Pass(name, root) == [name |-> name, root |-> root, todo |-> {root}]
Idle == [name |-> "idle", root |-> App, todo |-> {}]
Nowhere == [e \in Entity |-> None]
Nobody == [e \in Entity |-> FALSE]

(* The steps of a listener between its four atomic operations.              *)
Place == {"testDelete", "testWrite", "casDelete", "casWrite"}
NoListener == [p \in Place |-> 0]

(* No call of a writer is in progress. *)
Returned == [task |-> "none", of |-> App]

Memento(e) == [version |-> version[e], owner |-> owner[e], children |-> children[e]]

Init ==
  /\ mode = [e \in Entity |-> IF e = App THEN "new" ELSE "absent"]
  /\ managed = {}
  /\ owner = Nowhere /\ children = [e \in Entity |-> {}]
  /\ version = [e \in Entity |-> 0] /\ inFlight = [e \in Entity |-> 0]
  /\ op = Idle
  /\ delta = Nothing /\ saver = "idle" /\ prev = Nothing /\ taken = Nowhere
  /\ writer = Nobody /\ execution = [e \in Entity |-> "none"] /\ writing = Nowhere
  /\ required = [e \in Entity |-> Null] /\ requireDelete = Nobody /\ deleted = Nobody
  /\ listeners = [e \in Entity |-> NoListener] /\ call = Returned
  /\ file = Nowhere
  /\ changes = 0 /\ runs = 0 /\ restarts = 0
  /\ late = {} /\ failed = {}

--------------------------------------------------------------------------------
(* Changes.  The listener of a managed entity finds the rebind manager and  *)
(* tells it; unmanage may come between.                                     *)

Listening(e) == mode[e] \in {"starting", "started", "stopping"}
Tell(e) == inFlight' = [inFlight EXCEPT ![e] = IF Listening(e) THEN @ + 1 ELSE @]

SetAttribute(e) ==
  /\ mode[e] # "absent" /\ changes < MaxChanges
  /\ changes' = changes + 1
  /\ version' = [version EXCEPT ![e] = @ + 1]
  /\ Tell(e)
  /\ UNCHANGED <<tree, op, delta, task, disk, runs, restarts, history>>

(* A new entity with an owner: addOwnedChild, onChildrenChanged. *)
AddOwnedChild(p, e) ==
  /\ op = Idle /\ mode[p] \in {"new", "started"} /\ mode[e] = "absent"
  /\ changes < MaxChanges
  /\ changes' = changes + 1
  /\ mode' = [mode EXCEPT ![e] = "new"]
  /\ owner' = [owner EXCEPT ![e] = p]
  /\ children' = [children EXCEPT ![p] = @ \cup {e}]
  /\ Tell(p)
  /\ UNCHANGED <<managed, version, op, delta, task, disk, runs, restarts, history>>

OnChanged(e) ==
  /\ inFlight[e] > 0
  /\ inFlight' = [inFlight EXCEPT ![e] = @ - 1]
  /\ delta' = [delta EXCEPT !.changed = @ \cup {e}]
  /\ late' = IF mode[e] = "stopped" THEN late \cup {e} ELSE late
  /\ UNCHANGED <<tree, version, op, task, disk, counters, failed>>

--------------------------------------------------------------------------------
(* manage(e) and unmanage(e), each two passes of recursively: an entity's   *)
(* children are looked up after its own turn.                               *)

Turn(name, e) == op.name = name /\ e \in op.todo
Rest(e) == (op.todo \ {e}) \cup children'[e]

(* After the last turn of a pass the next pass begins, at the root again. *)
Advance(e, next) == op' = IF Rest(e) # {} THEN [op EXCEPT !.todo = Rest(e)] ELSE next

Manage(e) ==
  /\ op = Idle /\ mode[e] = "new" /\ (e = App \/ (owner[e] # None /\ mode[owner[e]] = "started"))
  /\ op' = Pass("starting", e)
  /\ UNCHANGED <<tree, version, inFlight, delta, task, disk, counters, history>>

OnManagementStarting(e) == mode' = [mode EXCEPT ![e] = "starting"]
ManageNonRecursive(e) == managed' = managed \cup {e}
OnManagementStarted(e) == mode' = [mode EXCEPT ![e] = "started"]
OnManaged(e) == delta' = [delta EXCEPT !.changed = @ \cup {e}]

ManageStarting(e) ==
  /\ Turn("starting", e)
  /\ OnManagementStarting(e) /\ ManageNonRecursive(e)
  /\ UNCHANGED <<owner, children>>
  /\ Advance(e, Pass("started", op.root))
  /\ UNCHANGED <<version, inFlight, delta, task, disk, counters, history>>

ManageStarted(e) ==
  /\ Turn("started", e)
  /\ OnManagementStarted(e) /\ OnManaged(e)
  /\ UNCHANGED <<managed, owner, children>>
  /\ Advance(e, Idle)
  /\ UNCHANGED <<version, inFlight, task, disk, counters, history>>

Unmanage(e) ==
  /\ op = Idle /\ e \in managed
  /\ op' = Pass("stopping", e)
  /\ UNCHANGED <<tree, version, inFlight, delta, task, disk, counters, history>>

(* shouldSkipUnmanagement: the children still have their turn. *)
Skip(e) ==
  /\ Turn("stopping", e) \/ Turn("stopped", e)
  /\ e \notin managed
  /\ UNCHANGED tree
  /\ Advance(e, IF op.name = "stopping" THEN Pass("stopped", op.root) ELSE Idle)
  /\ UNCHANGED <<version, inFlight, delta, task, disk, counters, history>>

(* The owner's listener is told. *)
RemoveOwnedChild(p, e) ==
  /\ owner' = [owner EXCEPT ![e] = None]
  /\ children' = [children EXCEPT ![p] = @ \ {e}]
  /\ Tell(p)

OnManagementStopping(e) ==
  /\ mode' = [mode EXCEPT ![e] = "stopping"]
  /\ IF owner[e] # None THEN RemoveOwnedChild(owner[e], e)
                        ELSE UNCHANGED <<owner, children, inFlight>>

UnmanageNonRecursive(e) == managed' = managed \ {e}
OnManagementStopped(e) == mode' = [mode EXCEPT ![e] = "stopped"]

(* Mutated form: the id is not noted. *)
OnUnmanagedSilently(e) ==
  delta' = [delta EXCEPT !.changed = @ \ {e}]

OnUnmanaged(e) ==
  delta' = [changed |-> delta.changed \ {e}, removed |-> delta.removed \cup {e}]

UnmanageStopping(e) ==
  /\ Turn("stopping", e) /\ e \in managed
  /\ OnManagementStopping(e)
  /\ UNCHANGED managed
  /\ Advance(e, Pass("stopped", op.root))
  /\ UNCHANGED <<version, delta, task, disk, counters, history>>

UnmanageStopped(e) ==
  /\ Turn("stopped", e) /\ e \in managed
  /\ UnmanageNonRecursive(e) /\ OnManagementStopped(e) /\ OnUnmanaged(e)
  /\ UNCHANGED <<owner, children>>
  /\ Advance(e, Idle)
  /\ UNCHANGED <<version, inFlight, task, disk, counters, history>>

--------------------------------------------------------------------------------
(* persistNow, one run after the other *)

Switch ==
  /\ saver = "idle" /\ delta # Nothing
  /\ runs < MaxRuns /\ runs' = runs + 1
  /\ saver' = "busy"
  /\ prev' = delta /\ delta' = Nothing
  /\ UNCHANGED <<tree, version, inFlight, op, taken, disk, changes, restarts, history>>

Generate(e) ==
  /\ saver = "busy" /\ e \in prev.changed
  /\ taken' = [taken EXCEPT ![e] = Memento(e)]
  /\ prev' = [prev EXCEPT !.changed = @ \ {e}]
  /\ UNCHANGED <<tree, version, inFlight, op, delta, saver, disk, counters, history>>

(* Mutated form: what was collected stays with a task that died. *)
GenerateFailsInside ==
  /\ saver = "busy" /\ prev.changed # {}
  /\ saver' = "dead"
  /\ UNCHANGED <<prev, taken>>
  /\ UNCHANGED <<tree, version, inFlight, op, delta, disk, counters, history>>

(* getMemento throws: the delta is lost and the task is not scheduled again. *)
GenerateFails ==
  /\ saver = "busy" /\ prev.changed # {}
  /\ saver' = "dead" /\ prev' = Nothing /\ taken' = Nowhere
  /\ UNCHANGED <<tree, version, inFlight, op, delta, disk, counters, history>>

(* persister.delta: persist every entity, then delete the removed ones.     *)
(* Nobody else calls the writers, so the result of a call's tests of        *)
(* requireDelete and deleted is the same throughout the call.               *)
Calls(kind, e) == call' = [task |-> kind, of |-> e]

Persist(e) ==
  /\ saver = "busy" /\ prev.changed = {} /\ call = Returned /\ taken[e] # None
  /\ taken' = [taken EXCEPT ![e] = None]
  /\ writer' = [writer EXCEPT ![e] = TRUE]
  /\ required' = [required EXCEPT ![e] = taken[e]]
  /\ IF requireDelete[e] \/ deleted[e] THEN UNCHANGED call ELSE Calls("write", e)
  /\ UNCHANGED <<tree, version, inFlight, op, delta, saver, prev, counters, history>>
  /\ UNCHANGED <<execution, writing, requireDelete, deleted, listeners, file>>

(* The writer's delete() records before it tries to start the task. *)
RequireDelete(e) ==
  /\ requireDelete' = [requireDelete EXCEPT ![e] = TRUE]
  /\ Calls("delete", e)

(* The task in progress has yet to take what is recorded. *)
WillTake(e) == execution[e] = "write" /\ writing[e] = None

(* An entity that has no writer in this run is passed over. *)
DeleteEntity(e) ==
  /\ saver = "busy" /\ prev.changed = {} /\ taken = Nowhere /\ call = Returned
  /\ e \in prev.removed
  /\ prev' = [prev EXCEPT !.removed = @ \ {e}]
  /\ IF writer[e] /\ ~deleted[e] /\ ~requireDelete[e]
       THEN /\ RequireDelete(e)
            /\ late' = IF required[e] # Null /\ ~WillTake(e) THEN late \cup {e} ELSE late
       ELSE UNCHANGED <<requireDelete, call, late>>
  /\ UNCHANGED <<tree, version, inFlight, op, delta, saver, taken, counters, failed>>
  /\ UNCHANGED <<writer, execution, writing, required, deleted, listeners, file>>

(* Mutated form: the task is submitted without winning the compareAndSet. *)
SubmitUnguarded(e, kind) ==
  execution' = [execution EXCEPT ![e] = kind]

(* executing.compareAndSet(false, true) and, when it is won, writeAsync or *)
(* deleteAsync.                                                            *)
Submit(e, kind) ==
  execution' = [execution EXCEPT ![e] = IF @ = "none" THEN kind ELSE @]

CallCas(e) ==
  /\ call # Returned /\ call.of = e
  /\ Submit(e, call.task) /\ call' = Returned
  /\ UNCHANGED <<tree, version, inFlight, op, delta, task, counters, history>>
  /\ UNCHANGED <<writer, writing, required, requireDelete, deleted, listeners, file>>

(* Mutated form: the collector is made anew when its content was persisted. *)
PersistedResets ==
  /\ saver = "busy" /\ prev = Nothing /\ taken = Nowhere /\ call = Returned
  /\ saver' = "idle" /\ delta' = Nothing
  /\ UNCHANGED <<tree, version, inFlight, op, prev, taken, disk, counters, history>>

Persisted ==
  /\ saver = "busy" /\ prev = Nothing /\ taken = Nowhere /\ call = Returned
  /\ saver' = "idle"
  /\ UNCHANGED <<tree, version, inFlight, op, delta, prev, taken, disk, counters, history>>

(* The writer's task: writeNow in two steps, which stores a null when       *)
(* another task has taken what was recorded, or deleteNow.                  *)
TakeRequired(e) ==
  /\ WillTake(e)
  /\ writing' = [writing EXCEPT ![e] = required[e]]
  /\ required' = [required EXCEPT ![e] = Null]
  /\ UNCHANGED <<tree, version, inFlight, op, delta, task, counters, history>>
  /\ UNCHANGED <<writer, execution, requireDelete, deleted, listeners, call, file>>

WriteFile(e) ==
  /\ writing[e] # None
  /\ writing' = [writing EXCEPT ![e] = None]
  /\ \/ file' = [file EXCEPT ![e] = writing[e]] /\ failed' = failed \ {e}
     \/ UNCHANGED file /\ failed' = failed \cup {e}
  /\ execution' = [execution EXCEPT ![e] = "done"]
  /\ UNCHANGED <<tree, version, inFlight, op, delta, task, counters, late>>
  /\ UNCHANGED <<writer, required, requireDelete, deleted, listeners, call>>

DeleteFile(e) ==
  /\ execution[e] = "delete"
  /\ requireDelete' = [requireDelete EXCEPT ![e] = FALSE]
  /\ deleted' = [deleted EXCEPT ![e] = TRUE]
  /\ file' = [file EXCEPT ![e] = None]
  /\ execution' = [execution EXCEPT ![e] = "done"]
  /\ UNCHANGED <<tree, version, inFlight, op, delta, task, counters, history>>
  /\ UNCHANGED <<writer, writing, required, listeners, call>>

(* The listener of the task's future: executing.set(false), the tests of    *)
(* requireDelete and of requireWrite, and the compareAndSet.  The writer may *)
(* be called, and other tasks may run and end, between any two of them.     *)
At(e, p) == listeners[e][p] > 0
Leave(e, p) == listeners' = [listeners EXCEPT ![e][p] = @ - 1]
GoOn(e, p, q) == listeners' = [listeners EXCEPT ![e][p] = @ - 1, ![e][q] = @ + 1]

Release(e) ==
  /\ execution[e] = "done" /\ execution' = [execution EXCEPT ![e] = "none"]
  /\ listeners' = [listeners EXCEPT ![e]["testDelete"] = @ + 1]
  /\ UNCHANGED <<tree, version, inFlight, op, delta, task, counters, history>>
  /\ UNCHANGED <<writer, writing, required, requireDelete, deleted, call, file>>

TestDelete(e) ==
  /\ At(e, "testDelete")
  /\ GoOn(e, "testDelete", IF requireDelete[e] THEN "casDelete" ELSE "testWrite")
  /\ UNCHANGED <<tree, version, inFlight, op, delta, task, counters, history>>
  /\ UNCHANGED <<writer, execution, writing, required, requireDelete, deleted, call, file>>

TestWrite(e) ==
  /\ At(e, "testWrite")
  /\ IF required[e] # Null THEN GoOn(e, "testWrite", "casWrite") ELSE Leave(e, "testWrite")
  /\ UNCHANGED <<tree, version, inFlight, op, delta, task, counters, history>>
  /\ UNCHANGED <<writer, execution, writing, required, requireDelete, deleted, call, file>>

PostCas(e) ==
  /\ \/ At(e, "casDelete") /\ Submit(e, "delete") /\ Leave(e, "casDelete")
     \/ At(e, "casWrite") /\ Submit(e, "write") /\ Leave(e, "casWrite")
  /\ UNCHANGED <<tree, version, inFlight, op, delta, task, counters, history>>
  /\ UNCHANGED <<writer, writing, required, requireDelete, deleted, call, file>>

--------------------------------------------------------------------------------
(* A crash, and RebindManagerImpl.rebind in the next process: an entity and *)
(* its parent are joined when either names the other, then the application  *)
(* is managed.  Whoever has no file is gone.  With a "<null/>" among the    *)
(* files loadMemento throws, and no process follows.                        *)
Stored == {e \in Entity : file[e] # None}
Joined(p, c) ==
  p \in Stored /\ c \in Stored /\ (file[c].owner = p \/ c \in file[p].children)

Restart ==
  /\ restarts < MaxRestarts /\ App \in Stored /\ \A e \in Entity : file[e] # Null
  /\ restarts' = restarts + 1
  /\ mode' = [e \in Entity |-> IF e \in Stored THEN "new" ELSE
                               IF mode[e] = "absent" THEN "absent" ELSE "stopped"]
  /\ managed' = {}
  /\ owner' = [e \in Entity |-> IF \E p \in Entity : Joined(p, e)
                                  THEN CHOOSE p \in Entity : Joined(p, e) ELSE None]
  /\ children' = [e \in Entity |-> {c \in Entity : Joined(e, c)}]
  /\ version' = [e \in Entity |-> IF e \in Stored THEN file[e].version ELSE 0]
  /\ inFlight' = [e \in Entity |-> 0]
  /\ op' = Pass("starting", App)
  /\ delta' = Nothing /\ saver' = "idle" /\ prev' = Nothing /\ taken' = Nowhere
  /\ writer' = Nobody /\ execution' = [e \in Entity |-> "none"] /\ writing' = Nowhere
  /\ required' = [e \in Entity |-> Null] /\ requireDelete' = Nobody /\ deleted' = Nobody
  /\ listeners' = [e \in Entity |-> NoListener] /\ call' = Returned
  /\ late' = {} /\ failed' = {}
  /\ UNCHANGED <<file, changes, runs>>

--------------------------------------------------------------------------------
Next ==
  \/ \E e \in Entity :
       \/ SetAttribute(e) \/ OnChanged(e)
       \/ \E p \in Entity : AddOwnedChild(p, e)
       \/ Manage(e) \/ ManageStarting(e) \/ ManageStarted(e)
       \/ Unmanage(e) \/ Skip(e) \/ UnmanageStopping(e) \/ UnmanageStopped(e)
       \/ Generate(e) \/ Persist(e) \/ DeleteEntity(e) \/ CallCas(e)
       \/ TakeRequired(e) \/ WriteFile(e) \/ DeleteFile(e)
       \/ Release(e) \/ TestDelete(e) \/ TestWrite(e) \/ PostCas(e)
  \/ Switch \/ GenerateFails \/ Persisted
  \/ Restart

Spec == Init /\ [][Next]_vars

--------------------------------------------------------------------------------
(* Properties *)

(* Ranges; owner and children are two views of one tree; the periodic task  *)
(* holds nothing when it is not running, and a writer's only while it       *)
(* writes.                                                                  *)
TypeOK ==
  /\ mode \in [Entity -> Mode] /\ managed \subseteq Entity
  /\ owner \in [Entity -> Entity \cup {None}]
  /\ children \in [Entity -> SUBSET Entity]
  /\ \A e, p \in Entity : owner[e] = p <=> e \in children[p]
  /\ version \in [Entity -> Nat] /\ inFlight \in [Entity -> Nat]
  /\ delta.changed \subseteq Entity /\ delta.removed \subseteq Entity
  /\ prev.changed \subseteq Entity /\ prev.removed \subseteq Entity
  /\ taken \in [Entity -> MementoType \cup {None}]
  /\ writing \in [Entity -> MementoType \cup {Null, None}]
  /\ required \in [Entity -> MementoType \cup {Null}]
  /\ file \in [Entity -> MementoType \cup {Null, None}]
  /\ execution \in [Entity -> {"none", "write", "delete", "done"}]
  /\ listeners \in [Entity -> [Place -> Nat]]
  /\ call = Returned \/ call \in [task : {"write", "delete"}, of : Entity]
  /\ saver \in {"idle", "busy", "dead"}
  /\ saver # "busy" => prev = Nothing /\ taken = Nowhere /\ call = Returned
  /\ \A e \in Entity : writing[e] # None => execution[e] = "write"
  /\ changes \in 0..MaxChanges /\ runs \in 0..MaxRuns /\ restarts \in 0..MaxRestarts

(* A listener of the entity's writer has one of these steps before it. *)
Listens(e, places) == \E p \in places : At(e, p)

(* The last memento that was made of an entity: the hands that pass it on.  *)
(* A null in hand is none.                                                  *)
Newest(e) ==
  IF taken[e] # None THEN taken[e] ELSE
  IF required[e] # Null THEN required[e] ELSE
  IF writing[e] \notin {None, Null} THEN writing[e] ELSE file[e]

(* Nothing is forgotten: the state of a managed entity is on disk, or on    *)
(* its way there in one of the hands that pass it on, whatever changes,     *)
(* crashes and unmanagements go on, until its write or the periodic task    *)
(* fails.  Only a "<null/>" may take its place on disk, when a task of the  *)
(* writer found nothing more to write.                                      *)
EveryChangeIsTracked ==
  saver # "dead" =>
    \A e \in Entity :
      mode[e] = "started" /\ e \notin failed =>
        \/ inFlight[e] > 0
        \/ e \in delta.changed \cup prev.changed
        \/ Newest(e) \in {Memento(e), Null}

(* Nothing is under way at the entity's writer. *)
Settled(e) == execution[e] = "none" /\ ~Listens(e, Place)

(* What was unmanaged has no memento on disk once everything is written,    *)
(* provided that it was persisted in this run, without which it has no      *)
(* writer to delete its file, and that neither a change was told of after   *)
(* its removal nor a write was recorded and in nobody's hands then.  A      *)
(* listener that is late may still put a "<null/>" there.                   *)
DeletedFromDisk ==
  (op = Idle /\ delta = Nothing /\ saver = "idle") =>
    \A e \in Entity :
      mode[e] = "stopped" /\ writer[e] /\ Settled(e) /\ e \notin late => file[e] \in {None, Null}

--------------------------------------------------------------------------------
(* The writers of all entities as one FileStore; a restart is its Crash.    *)
Asked == [e \in Entity |-> requireDelete[e] \/ deleted[e]]

Files == INSTANCE FileStore WITH
  Item <- Entity, Content <- MementoType, Nothing <- Null, Absent <- None, Free <- None,
  recorded <- required, hand <- writing, asked <- Asked

(* What reaches an entity's file is what the periodic task recorded of it,  *)
(* or a null, and no write is in progress while the file is deleted: one    *)
(* task at a time, whichever caller or listener wins the compareAndSet.     *)
ImplementsFileStore == Files!Spec

================================================================================
