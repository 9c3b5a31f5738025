----------------------- MODULE EntityPersistence_proofs -----------------------
(***************************************************************************)
(* Proofs about EntityPersistence for any set of entities and any numbers  *)
(* of changes, runs of the periodic task and crashes: the ranges and the   *)
(* tree, that what is recorded at a writer is seen to by whoever leaves it *)
(* last, that a change of a managed entity is never forgotten, and that    *)
(* what was unmanaged leaves the disk.  IInv is inductive; its parts follow*)
(* the places that the news of an entity passes: the tree, the pass of     *)
(* manage or unmanage, the deltas of the listener, the writer with its     *)
(* caller, task and listeners, the file.  At the end, that the writers     *)
(* implement FileStore.                                                    *)
(***************************************************************************)
EXTENDS EntityPersistence, TLAPS

PassName == {"idle", "starting", "started", "stopping", "stopped"}
Delta == [changed : SUBSET Entity, removed : SUBSET Entity]

(* Ranges that TypeOK leaves open *)
Ranges ==
  /\ op \in [name : PassName, root : Entity, todo : SUBSET Entity]
  /\ delta \in Delta /\ prev \in Delta
  /\ writer \in [Entity -> BOOLEAN] /\ requireDelete \in [Entity -> BOOLEAN]
  /\ deleted \in [Entity -> BOOLEAN]

Under(e, S) == owner[e] = None \/ mode[owner[e]] \in S

(* Managed are those in mode starting, started or stopping.  A parent is    *)
(* managed before its children and not unmanaged before them, except while  *)
(* the pass that does so is under way.                                      *)
TreeSound ==
  /\ mode[App] # "absent"
  /\ \A e \in Entity :
       /\ mode[e] \in {"starting", "started", "stopping"} <=> e \in managed
       /\ mode[e] \in {"absent", "stopping", "stopped"} => owner[e] = None
  /\ \A e \in Entity : owner[e] # None /\ e \in managed =>
       /\ owner[e] \in managed
       /\ mode[owner[e]] = "stopping" => op.name = "stopping" /\ e \in op.todo
  /\ \A e \in Entity : owner[e] # None /\ mode[owner[e]] = "starting" =>
       mode[e] = "starting" \/ (op.name = "starting" /\ e \in op.todo)

(* What the pass has still to do is as it was when the pass began. *)
PassSound ==
  /\ op.name = "starting" =>
       /\ \A e \in op.todo : mode[e] = "new" /\ Under(e, {"starting", "started"})
       /\ op.root \in op.todo \/ mode[op.root] = "starting"
       /\ Under(op.root, {"started"})
  /\ op.name = "started" =>
       \A e \in op.todo : mode[e] = "starting" /\ Under(e, {"started"})
  /\ op.name = "stopping" =>
       op.root \in managed /\ (op.root \in op.todo \/ mode[op.root] = "stopping")
  /\ op.name = "stopped" =>
       \A e \in op.todo : e \in managed => mode[e] = "stopping"

(* Whoever records something at a writer and finds it executing may leave:  *)
(* as long as a write or a delete is recorded, a task is in progress, or a  *)
(* listener or the caller has yet to try to start one.                      *)
RecordedIsSeenTo ==
  \A e \in Entity :
    /\ requireDelete[e] =>
         \/ execution[e] # "none" \/ Listens(e, {"testDelete", "casDelete"})
         \/ call.task = "delete" /\ call.of = e
    /\ required[e] # Null /\ ~deleted[e] =>
         \/ execution[e] # "none" \/ Listens(e, Place)
         \/ call # Returned /\ call.of = e

(* The mementos of an entity that may be read after a crash.  Nothing, in   *)
(* the tree or on paper, gives an entity a second parent, so the tree that  *)
(* rebind builds is a tree.                                                 *)
Papers(e) == {taken[e], required[e], writing[e], file[e]} \ {None, Null}
Named(p, c) ==
  \/ owner[c] = p
  \/ \E m \in Papers(c) : m.owner = p
  \/ \E m \in Papers(p) : c \in m.children
OneParent ==
  /\ \A p, q, c \in Entity : Named(p, c) /\ Named(q, c) => p = q
  /\ \A p, c \in Entity : Named(p, c) => p # c /\ c # App /\ mode[c] # "absent"

(* An entity is reported as removed, and its writer asked to delete, once,  *)
(* after it was unmanaged; nobody tries to delete before.  The writers are  *)
(* called when all mementos are made.                                       *)
Deletes(e) == execution[e] = "delete" \/ At(e, "casDelete") \/ (call.task = "delete" /\ call.of = e)

WriterSound ==
  /\ prev.changed # {} => call = Returned
  /\ \A e \in Entity :
    /\ Deletes(e) => requireDelete[e] \/ deleted[e]
    /\ requireDelete[e] => ~deleted[e]
    /\ requireDelete[e] \/ deleted[e] => mode[e] = "stopped"
    /\ e \in delta.removed \cup prev.removed =>
         mode[e] = "stopped" /\ ~requireDelete[e] /\ ~deleted[e]
    /\ ~(e \in delta.removed /\ e \in prev.removed)

(* An entity that was unmanaged in time is reported as removed until its    *)
(* writer was told, and no memento of it is on its way from then on.        *)
Gone(e) ==
  e \notin prev.changed /\ taken[e] = None /\ (writer[e] => requireDelete[e] \/ deleted[e])

Removal ==
  \A e \in Entity : mode[e] = "stopped" /\ e \notin late =>
    /\ e \notin delta.changed
    /\ saver = "dead" \/ e \in delta.removed \cup prev.removed \/ Gone(e)
    /\ requireDelete[e] => required[e] = Null \/ WillTake(e)
    /\ deleted[e] => required[e] = Null /\ writing[e] \in {None, Null} /\ file[e] \in {None, Null}

(* A change is with the listener, in a delta, or in the newest memento that *)
(* is on its way to the file, unless writing that one failed.               *)
Tracked ==
  saver # "dead" =>
    \A e \in Entity : mode[e] = "started" =>
      \/ inFlight[e] > 0
      \/ e \in delta.changed \cup prev.changed
      \/ Newest(e) \in {Memento(e), Null}
      \/ e \in failed /\ taken[e] = None /\ required[e] = Null /\ writing[e] \in {None, Null}

IInv ==
  /\ TypeOK /\ Ranges /\ TreeSound /\ PassSound /\ OneParent
  /\ RecordedIsSeenTo /\ WriterSound /\ Removal /\ Tracked

--------------------------------------------------------------------------------
LEMMA MementoIsMemento ==
  ASSUME TypeOK, NEW e \in Entity
  PROVE  Memento(e) \in MementoType /\ Memento(e) # None /\ Memento(e) # Null
  BY NullAssumption DEF TypeOK, Memento, MementoType

LEMMA InitIInv == Init => IInv
<1> SUFFICES ASSUME Init PROVE IInv
  OBVIOUS
<1> USE AppAssumption, NullAssumption, MaxAssumption DEF Init, Nowhere, Nobody, Nothing, Idle,
      NoListener, Returned
<1>1. TypeOK
  BY DEF TypeOK, Mode
<1>2. Ranges
  BY DEF Ranges, PassName, Delta
<1>3. TreeSound /\ PassSound
  BY DEF TreeSound, PassSound, Under
<1>4. OneParent
  BY DEF OneParent, Named, Papers
<1>5. RecordedIsSeenTo
  BY DEF RecordedIsSeenTo
<1>6. WriterSound /\ Removal /\ Tracked
  BY DEF WriterSound, Deletes, At, Place, Removal, Gone, Tracked
<1> QED
  BY <1>1, <1>2, <1>3, <1>4, <1>5, <1>6 DEF IInv

(* TypeOK in two parts, of what is in memory of the entities, and of what   *)
(* the periodic task, the writers and the files hold.                       *)
TreeOK ==
  /\ mode \in [Entity -> Mode] /\ managed \subseteq Entity
  /\ owner \in [Entity -> Entity \cup {None}]
  /\ children \in [Entity -> SUBSET Entity]
  /\ \A e, p \in Entity : owner[e] = p <=> e \in children[p]
  /\ version \in [Entity -> Nat] /\ inFlight \in [Entity -> Nat]
  /\ delta.changed \subseteq Entity /\ delta.removed \subseteq Entity
  /\ changes \in 0..MaxChanges

StoreOK ==
  /\ prev.changed \subseteq Entity /\ prev.removed \subseteq Entity
  /\ taken \in [Entity -> MementoType \cup {None}]
  /\ writing \in [Entity -> MementoType \cup {Null, None}]
  /\ required \in [Entity -> MementoType \cup {Null}]
  /\ file \in [Entity -> MementoType \cup {Null, None}]
  /\ execution \in [Entity -> {"none", "write", "delete", "done"}]
  /\ listeners \in [Entity -> [Place -> Nat]]
  /\ call = Returned \/ call \in [task : {"write", "delete"}, of : Entity]
  /\ saver \in {"idle", "busy", "dead"}
  /\ saver # "busy" => prev = Nothing /\ taken = Nowhere /\ call = Returned
  /\ \A e \in Entity : writing[e] # None => execution[e] = "write"
  /\ runs \in 0..MaxRuns /\ restarts \in 0..MaxRestarts

LEMMA TypeParts ==
  /\ TypeOK <=> TreeOK /\ StoreOK
  /\ TypeOK' <=> TreeOK' /\ StoreOK'
<1>1. TypeOK <=> TreeOK /\ StoreOK
  BY Zenon DEF TypeOK, TreeOK, StoreOK
<1>2. TypeOK' <=> TreeOK' /\ StoreOK'
  BY Zenon DEF TypeOK, TreeOK, StoreOK
<1> QED
  BY <1>1, <1>2

LEMMA TreeOKUnchanged ==
  ASSUME TypeOK, UNCHANGED <<tree, version, inFlight, changes>>, delta' \in Delta
  PROVE  TreeOK'
  BY DEF TypeOK, TreeOK, tree, Delta

LEMMA StoreOKUnchanged ==
  ASSUME TypeOK, UNCHANGED <<task, disk, runs, restarts>>
  PROVE  StoreOK'
  BY DEF TypeOK, StoreOK, task, disk, writers

(* The thread in manage or unmanage *)
Turns(e) ==
  \/ Manage(e) \/ ManageStarting(e) \/ ManageStarted(e)
  \/ Unmanage(e) \/ Skip(e) \/ UnmanageStopping(e) \/ UnmanageStopped(e)

LEMMA AdvanceType ==
  ASSUME Ranges, NEW e \in Entity, op.todo \subseteq Entity,
         children' \in [Entity -> SUBSET Entity],
         NEW next \in [name : PassName, root : Entity, todo : SUBSET Entity], Advance(e, next)
  PROVE  op' \in [name : PassName, root : Entity, todo : SUBSET Entity]
  BY DEF Advance, Rest, Ranges

LEMMA TurnsType ==
  ASSUME TypeOK, Ranges, NEW e \in Entity, Turns(e)
  PROVE  TypeOK' /\ Ranges'
<1> SUFFICES TreeOK' /\ Ranges'
  <2>1. UNCHANGED <<task, disk, runs, restarts>>
    BY DEF Turns, Manage, ManageStarting, ManageStarted, Unmanage, Skip, UnmanageStopping,
       UnmanageStopped, counters
  <2> QED
    BY <2>1, StoreOKUnchanged, TypeParts
<1>a. TreeOK
  BY TypeParts
<1> USE AppAssumption
<1> DEFINE Passes == [name : PassName, root : Entity, todo : SUBSET Entity]
<1>1. \A n \in PassName : \A r \in Entity : Pass(n, r) \in Passes
  BY DEF Pass, Passes
<1>2. Idle \in Passes /\ op \in Passes
  BY DEF Idle, Passes, PassName, Ranges
<1>3. CASE Manage(e) \/ Unmanage(e)
  <2>1. op' \in Passes
    BY <1>1, <1>3 DEF Manage, Unmanage, PassName
  <2> QED
    BY <1>a, <1>3, <2>1 DEF Manage, Unmanage, TreeOK, Ranges, tree, task, disk, writers, counters
<1>4. CASE ManageStarting(e)
  <2>1. mode' \in [Entity -> Mode] /\ managed' \subseteq Entity
    BY <1>a, <1>4 DEF ManageStarting, OnManagementStarting, ManageNonRecursive, TreeOK, Mode
  <2>2. op' \in Passes
    BY <1>a, <1>1, <1>2, <1>4, AdvanceType DEF ManageStarting, TreeOK, PassName
  <2> QED
    BY <1>a, <1>4, <2>1, <2>2 DEF ManageStarting, TreeOK, Ranges, task, disk, writers, counters
<1>5. CASE ManageStarted(e)
  <2>1. mode' \in [Entity -> Mode] /\ delta' \in Delta
    BY <1>a, <1>5 DEF ManageStarted, OnManagementStarted, OnManaged, TreeOK, Ranges, Mode, Delta
  <2>2. op' \in Passes
    BY <1>a, <1>1, <1>2, <1>5, AdvanceType DEF ManageStarted, TreeOK, PassName
  <2> QED
    BY <1>a, <1>5, <2>1, <2>2 DEF ManageStarted, TreeOK, Ranges, Delta, task, disk, writers, counters
<1>6. CASE Skip(e)
  <2>1. op' \in Passes
    BY <1>a, <1>1, <1>2, <1>6, AdvanceType DEF Skip, tree, TreeOK, PassName
  <2> QED
    BY <1>a, <1>6, <2>1 DEF Skip, TreeOK, Ranges, tree, task, disk, writers, counters
<1>7. CASE UnmanageStopping(e)
  <2>1. /\ mode' \in [Entity -> Mode] /\ owner' \in [Entity -> Entity \cup {None}]
        /\ children' \in [Entity -> SUBSET Entity] /\ inFlight' \in [Entity -> Nat]
        /\ \A c, p \in Entity : owner'[c] = p <=> c \in children'[p]
    BY <1>a, <1>7 DEF UnmanageStopping, OnManagementStopping, RemoveOwnedChild, Tell, TreeOK, Mode
  <2>2. op' \in Passes
    BY <1>1, <1>2, <1>7, <2>1, AdvanceType DEF UnmanageStopping, PassName
  <2> QED
    BY <1>a, <1>7, <2>1, <2>2 DEF UnmanageStopping, TreeOK, Ranges, task, disk, writers, counters
<1>8. CASE UnmanageStopped(e)
  <2>1. mode' \in [Entity -> Mode] /\ delta' \in Delta /\ managed' \subseteq Entity
    BY <1>a, <1>8 DEF UnmanageStopped, OnManagementStopped, UnmanageNonRecursive, OnUnmanaged, TreeOK,
       Ranges, Mode, Delta
  <2>2. op' \in Passes
    BY <1>a, <1>1, <1>2, <1>8, AdvanceType DEF UnmanageStopped, TreeOK, PassName
  <2> QED
    BY <1>a, <1>8, <2>1, <2>2 DEF UnmanageStopped, TreeOK, Ranges, Delta, task, disk, writers, counters
<1> QED
  BY <1>3, <1>4, <1>5, <1>6, <1>7, <1>8 DEF Turns

(* Changes and their way into the delta *)
Change(e) == SetAttribute(e) \/ OnChanged(e) \/ \E p \in Entity : AddOwnedChild(p, e)

LEMMA ChangeType ==
  ASSUME TypeOK, Ranges, OneParent, NEW e \in Entity, Change(e)
  PROVE  TypeOK' /\ Ranges'
<1> SUFFICES TreeOK' /\ Ranges'
  <2>1. UNCHANGED <<task, disk, runs, restarts>>
    BY DEF Change, SetAttribute, OnChanged, AddOwnedChild, counters
  <2> QED
    BY <2>1, StoreOKUnchanged, TypeParts
<1>a. TreeOK
  BY TypeParts
<1>1. CASE SetAttribute(e)
  <2>1. version' \in [Entity -> Nat] /\ inFlight' \in [Entity -> Nat] /\ changes' \in 0..MaxChanges
    BY <1>a, <1>1, MaxAssumption DEF SetAttribute, Tell, TreeOK
  <2> QED
    BY <1>a, <1>1, <2>1 DEF SetAttribute, TreeOK, Ranges, tree, task, disk, writers
<1>2. CASE OnChanged(e)
  <2>1. inFlight' \in [Entity -> Nat] /\ delta' \in Delta
    BY <1>a, <1>2 DEF OnChanged, TreeOK, Ranges, Delta
  <2> QED
    BY <1>a, <1>2, <2>1 DEF OnChanged, TreeOK, Ranges, Delta, tree, task, disk, writers, counters
<1>3. ASSUME NEW p \in Entity, AddOwnedChild(p, e) PROVE TreeOK' /\ Ranges'
  <2>1. owner[e] = None
    BY <1>a, <1>3 DEF AddOwnedChild, OneParent, Named, TreeOK
  <2>2. /\ mode' \in [Entity -> Mode] /\ owner' \in [Entity -> Entity \cup {None}]
        /\ children' \in [Entity -> SUBSET Entity] /\ inFlight' \in [Entity -> Nat]
    BY <1>a, <1>3 DEF AddOwnedChild, Tell, TreeOK, Mode
  <2>3. \A c, q \in Entity : owner'[c] = q <=> c \in children'[q]
    BY <1>a, <1>3, <2>1, AppAssumption DEF AddOwnedChild, TreeOK
  <2>4. changes' \in 0..MaxChanges
    BY <1>a, <1>3, MaxAssumption DEF AddOwnedChild, TreeOK
  <2> QED
    BY <1>a, <1>3, <2>2, <2>3, <2>4 DEF AddOwnedChild, TreeOK, Ranges, task, disk, writers
<1> QED
  BY <1>1, <1>2, <1>3 DEF Change

(* The periodic task *)
Saves ==
  \/ Switch \/ GenerateFails \/ Persisted
  \/ \E e \in Entity : Generate(e) \/ Persist(e) \/ DeleteEntity(e)

LEMMA SavesType ==
  ASSUME TypeOK, Ranges, WriterSound, Saves
  PROVE  TypeOK' /\ Ranges'
<1> SUFFICES StoreOK' /\ Ranges'
  <2>1. UNCHANGED <<tree, version, inFlight, changes>> /\ delta' \in Delta
    BY DEF Saves, Switch, GenerateFails, Persisted, Generate, Persist, DeleteEntity, RequireDelete,
       counters, Ranges, Delta, Nothing
  <2> QED
    BY <2>1, TreeOKUnchanged, TypeParts
<1>a. StoreOK
  BY TypeParts
<1> USE DEF Nothing, Nowhere
<1>1. CASE Switch
  <2>1. runs' \in 0..MaxRuns
    BY <1>a, <1>1, MaxAssumption DEF Switch, StoreOK
  <2> QED
    BY <1>a, <1>1, <2>1 DEF Switch, StoreOK, Ranges, Delta, tree, disk, writers
<1>2. CASE GenerateFails \/ Persisted
  BY <1>a, <1>2 DEF GenerateFails, Persisted, StoreOK, Ranges, WriterSound, Delta, tree, disk, writers, counters
<1>3. ASSUME NEW e \in Entity, Generate(e) PROVE StoreOK' /\ Ranges'
  <2>1. taken' \in [Entity -> MementoType \cup {None}] /\ prev' \in Delta
    BY <1>a, <1>3, MementoIsMemento DEF Generate, StoreOK, Ranges, Delta
  <2> QED
    BY <1>a, <1>3, <2>1 DEF Generate, StoreOK, Ranges, Delta, tree, disk, writers, counters
<1>4. ASSUME NEW e \in Entity, Persist(e) PROVE StoreOK' /\ Ranges'
  <2>1. /\ taken' \in [Entity -> MementoType \cup {None}]
        /\ required' \in [Entity -> MementoType \cup {Null}]
        /\ writer' \in [Entity -> BOOLEAN]
    BY <1>a, <1>4 DEF Persist, StoreOK, Ranges
  <2>2. call' = Returned \/ call' \in [task : {"write", "delete"}, of : Entity]
    BY <1>4 DEF Persist, Calls
  <2> QED
    BY <1>a, <1>4, <2>1, <2>2 DEF Persist, StoreOK, Ranges, tree, counters
<1>5. ASSUME NEW e \in Entity, DeleteEntity(e) PROVE StoreOK' /\ Ranges'
  <2>1. prev' \in Delta
    BY <1>5 DEF DeleteEntity, Ranges, Delta
  <2>2. requireDelete' \in [Entity -> BOOLEAN]
    BY <1>5 DEF DeleteEntity, RequireDelete, Ranges
  <2>3. call' = Returned \/ call' \in [task : {"write", "delete"}, of : Entity]
    BY <1>5 DEF DeleteEntity, RequireDelete, Calls
  <2> QED
    BY <1>a, <1>5, <2>1, <2>2, <2>3 DEF DeleteEntity, StoreOK, Ranges, Delta, tree, counters
<1> QED
  BY <1>1, <1>2, <1>3, <1>4, <1>5 DEF Saves

(* The task of a writer *)
Writes(e) == TakeRequired(e) \/ WriteFile(e) \/ DeleteFile(e)

LEMMA WritesType ==
  ASSUME TypeOK, Ranges, NEW e \in Entity, Writes(e)
  PROVE  TypeOK' /\ Ranges'
<1> SUFFICES StoreOK' /\ Ranges'
  <2>1. UNCHANGED <<tree, version, inFlight, changes>> /\ delta' \in Delta
    BY DEF Writes, TakeRequired, WriteFile, DeleteFile, counters, Ranges
  <2> QED
    BY <2>1, TreeOKUnchanged, TypeParts
<1>a. StoreOK
  BY TypeParts
<1>1. CASE TakeRequired(e)
  <2>1. /\ writing' \in [Entity -> MementoType \cup {Null, None}]
        /\ required' \in [Entity -> MementoType \cup {Null}]
    BY <1>a, <1>1 DEF TakeRequired, StoreOK
  <2>2. \A f \in Entity : writing'[f] # None => execution'[f] = "write"
    BY <1>a, <1>1 DEF TakeRequired, WillTake, StoreOK
  <2> QED
    BY <1>a, <1>1, <2>1, <2>2 DEF TakeRequired, StoreOK, Ranges, tree, task, counters
<1>2. CASE WriteFile(e)
  <2>1. /\ writing' \in [Entity -> MementoType \cup {Null, None}]
        /\ file' \in [Entity -> MementoType \cup {Null, None}]
        /\ execution' \in [Entity -> {"none", "write", "delete", "done"}]
    BY <1>a, <1>2 DEF WriteFile, StoreOK
  <2>2. \A f \in Entity : writing'[f] # None => execution'[f] = "write"
    BY <1>a, <1>2 DEF WriteFile, StoreOK
  <2> QED
    BY <1>a, <1>2, <2>1, <2>2 DEF WriteFile, StoreOK, Ranges, tree, task, counters
<1>3. CASE DeleteFile(e)
  <2>1. /\ requireDelete' \in [Entity -> BOOLEAN] /\ deleted' \in [Entity -> BOOLEAN]
        /\ file' \in [Entity -> MementoType \cup {Null, None}]
        /\ execution' \in [Entity -> {"none", "write", "delete", "done"}]
    BY <1>a, <1>3 DEF DeleteFile, StoreOK, Ranges
  <2>2. \A f \in Entity : writing[f] # None => execution'[f] = "write"
    BY <1>a, <1>3 DEF DeleteFile, StoreOK
  <2> QED
    BY <1>a, <1>3, <2>1, <2>2 DEF DeleteFile, StoreOK, Ranges, tree, task, counters
<1> QED
  BY <1>1, <1>2, <1>3 DEF Writes

(* Who tries to start a task: the caller, and the listener of the last one. *)
Hands(e) == CallCas(e) \/ Release(e) \/ TestDelete(e) \/ TestWrite(e) \/ PostCas(e)

LEMMA HandsFrame ==
  ASSUME NEW e \in Entity, Hands(e)
  PROVE  /\ UNCHANGED <<tree, version, inFlight, op, delta, task, counters, history>>
         /\ UNCHANGED <<writer, writing, required, requireDelete, deleted, file>>
  BY DEF Hands, CallCas, Release, TestDelete, TestWrite, PostCas

(* Where the listeners of e are after one has moved, and those of the others. *)
LEMMA ListenersGoOn ==
  ASSUME TypeOK, NEW e \in Entity, NEW p \in Place, NEW q \in Place, p # q,
         At(e, p), GoOn(e, p, q)
  PROVE  /\ listeners' \in [Entity -> [Place -> Nat]]
         /\ \A f \in Entity, r \in Place : f # e \/ r \notin {p, q} => (At(f, r)' <=> At(f, r))
         /\ At(e, q)'
  BY DEF TypeOK, At, GoOn

LEMMA ListenersLeave ==
  ASSUME TypeOK, NEW e \in Entity, NEW p \in Place, At(e, p), Leave(e, p)
  PROVE  /\ listeners' \in [Entity -> [Place -> Nat]]
         /\ \A f \in Entity, r \in Place : f # e \/ r # p => (At(f, r)' <=> At(f, r))
  BY DEF TypeOK, At, Leave

LEMMA ListenersJoin ==
  ASSUME TypeOK, NEW e \in Entity, Release(e)
  PROVE  /\ listeners' \in [Entity -> [Place -> Nat]]
         /\ \A f \in Entity, r \in Place : f # e \/ r # "testDelete" => (At(f, r)' <=> At(f, r))
         /\ At(e, "testDelete")'
  BY DEF TypeOK, At, Release, Place

(* The listeners of e move, its execution only between none, done and a     *)
(* task that is submitted.                                                  *)
LEMMA HandsAre ==
  ASSUME TypeOK, NEW e \in Entity, Hands(e)
  PROVE  /\ listeners' \in [Entity -> [Place -> Nat]]
         /\ \A f \in Entity, r \in Place : f # e => (At(f, r)' <=> At(f, r))
         /\ \A f \in Entity : f # e => execution'[f] = execution[f]
         /\ \/ call' = call
            \/ call' = Returned /\ call.of = e
<1>0. /\ listeners \in [Entity -> [Place -> Nat]]
      /\ execution \in [Entity -> {"none", "write", "delete", "done"}]
  BY DEF TypeOK
<1>1. CASE CallCas(e)
  BY <1>0, <1>1 DEF CallCas, Submit, At
<1>2. CASE Release(e)
  BY <1>0, <1>2, ListenersJoin DEF Release
<1>3. CASE TestDelete(e)
  <2>1. PICK q \in {"casDelete", "testWrite"} : GoOn(e, "testDelete", q)
    BY <1>3 DEF TestDelete
  <2> QED
    BY <1>3, <2>1, ListenersGoOn DEF TestDelete, Place
<1>4. CASE TestWrite(e)
  <2>1. GoOn(e, "testWrite", "casWrite") \/ Leave(e, "testWrite")
    BY <1>4 DEF TestWrite
  <2> QED
    BY <1>4, <2>1, ListenersGoOn, ListenersLeave DEF TestWrite, Place
<1>5. CASE PostCas(e)
  <2>1. PICK p \in {"casDelete", "casWrite"} : At(e, p) /\ Leave(e, p)
    BY <1>5 DEF PostCas
  <2> QED
    BY <1>0, <1>5, <2>1, ListenersLeave DEF PostCas, Submit, Place
<1> QED
  BY <1>1, <1>2, <1>3, <1>4, <1>5 DEF Hands

LEMMA HandsType ==
  ASSUME TypeOK, Ranges, NEW e \in Entity, Hands(e)
  PROVE  TypeOK' /\ Ranges'
<1>1. /\ execution' \in [Entity -> {"none", "write", "delete", "done"}]
      /\ \A f \in Entity : writing[f] # None => execution'[f] = "write"
  <2>1. execution \in [Entity -> {"none", "write", "delete", "done"}]
        /\ \A f \in Entity : writing[f] # None => execution[f] = "write"
    BY DEF TypeOK
  <2>2. \A kind \in {"write", "delete"} : Submit(e, kind) =>
          /\ execution' \in [Entity -> {"none", "write", "delete", "done"}]
          /\ \A f \in Entity : writing[f] # None => execution'[f] = "write"
    BY <2>1 DEF Submit
  <2>3. CASE CallCas(e)
    BY <2>2, <2>3 DEF CallCas, TypeOK
  <2>4. CASE Release(e)
    BY <2>1, <2>4 DEF Release
  <2>5. CASE TestDelete(e) \/ TestWrite(e)
    BY <2>1, <2>5 DEF TestDelete, TestWrite
  <2>6. CASE PostCas(e)
    BY <2>2, <2>6 DEF PostCas
  <2> QED
    BY <2>3, <2>4, <2>5, <2>6 DEF Hands
<1>2. TreeOK'
  BY HandsFrame, TreeOKUnchanged DEF counters, Ranges
<1>3. StoreOK
  BY TypeParts
<1>4. StoreOK'
  BY <1>1, <1>3, HandsFrame, HandsAre DEF StoreOK, task, counters
<1> QED
  BY <1>2, <1>4, HandsFrame, TypeParts DEF Ranges, task

(* After a restart: who is the parent of whom follows from the files.       *)
LEMMA RestartTree ==
  ASSUME TypeOK, OneParent, Restart
  PROVE  /\ owner' \in [Entity -> Entity \cup {None}]
         /\ \A p, c \in Entity : owner'[c] = p <=> Joined(p, c)
         /\ \A p, c \in Entity : Joined(p, c) => Named(p, c)
<1>1. \A p, c \in Entity : Joined(p, c) => Named(p, c)
  BY DEF Joined, Named, Papers, Stored, Restart
<1>2. \A p, q, c \in Entity : Joined(p, c) /\ Joined(q, c) => p = q
  BY <1>1 DEF OneParent
<1>3. owner' \in [Entity -> Entity \cup {None}]
  BY DEF Restart
<1>4. ASSUME NEW p \in Entity, NEW c \in Entity
      PROVE  owner'[c] = p <=> Joined(p, c)
  BY <1>2, AppAssumption DEF Restart
<1> QED
  BY <1>1, <1>3, <1>4

LEMMA RestartType ==
  ASSUME TypeOK, OneParent, Restart
  PROVE  TypeOK' /\ Ranges'
<1> USE AppAssumption, MaxAssumption DEF Nothing, Nowhere, Nobody
<1>1. /\ mode' \in [Entity -> Mode] /\ managed' \subseteq Entity
      /\ children' \in [Entity -> SUBSET Entity] /\ inFlight' \in [Entity -> Nat]
      /\ \A e, p \in Entity : owner'[e] = p <=> e \in children'[p]
  BY RestartTree DEF Restart, Mode, TypeOK
<1>2. version' \in [Entity -> Nat]
  <2>1. \A e \in Stored : file[e] \in MementoType
    BY DEF Restart, TypeOK, Stored
  <2> QED
    BY <2>1 DEF Restart, MementoType
<1>3. op' \in [name : PassName, root : Entity, todo : SUBSET Entity]
  BY DEF Restart, Pass, PassName
<1>4. restarts' \in 0..MaxRestarts
  BY DEF Restart, TypeOK
<1>5. TreeOK'
  BY <1>1, <1>2, RestartTree DEF Restart, TypeOK, TreeOK
<1>6. file \in [Entity -> MementoType \cup {Null, None}] /\ runs \in 0..MaxRuns
  BY DEF TypeOK
<1>7. StoreOK'
  BY <1>4, <1>6 DEF Restart, StoreOK, NoListener
<1> QED
  BY <1>3, <1>5, <1>7, TypeParts DEF Restart, Ranges, Delta

--------------------------------------------------------------------------------
(* The tree, and what a pass has still to do *)

LEMMA TreeUnchanged ==
  ASSUME TreeSound, PassSound, UNCHANGED <<mode, managed, owner, op>>
  PROVE  TreeSound' /\ PassSound'
  BY DEF TreeSound, PassSound, Under

(* Whose turn is next: those who waited, and the children of the last one.  *)
LEMMA AdvanceIs ==
  ASSUME Ranges, NEW e \in Entity, NEW next, Advance(e, next)
  PROVE  \/ /\ Rest(e) # {} /\ op'.name = op.name /\ op'.root = op.root
            /\ op'.todo = (op.todo \ {e}) \cup children'[e]
         \/ Rest(e) = {} /\ op' = next /\ op.todo \subseteq {e} /\ children'[e] = {}
  BY DEF Advance, Rest, Ranges

LEMMA TurnsTree ==
  ASSUME IInv, NEW e \in Entity, Turns(e)
  PROVE  TreeSound' /\ PassSound'
<1> USE AppAssumption DEF IInv
<1>0. /\ mode \in [Entity -> Mode] /\ owner \in [Entity -> Entity \cup {None}]
      /\ \A p, c \in Entity : c \in children[p] <=> owner[c] = p
      /\ \A c \in Entity : owner[c] # c /\ owner[App] = None
      /\ op.root \in Entity /\ op.todo \subseteq Entity
      /\ children \in [Entity -> SUBSET Entity]
  BY DEF TypeOK, OneParent, Named, Ranges
<1>1. CASE Manage(e) \/ Unmanage(e)
  BY <1>0, <1>1 DEF Manage, Unmanage, TreeSound, PassSound, Under, tree, Pass, Idle
<1>2. CASE ManageStarting(e)
  <2>1. /\ mode[e] = "new" /\ mode' = [mode EXCEPT ![e] = "starting"]
        /\ managed' = managed \cup {e} /\ owner' = owner /\ children' = children
        /\ op.name = "starting" /\ e \in op.todo
    BY <1>2 DEF ManageStarting, Turn, PassSound, OnManagementStarting, ManageNonRecursive
  <2>2. \A c \in children[e] : mode[c] = "new" /\ c # e
    BY <1>0, <2>1 DEF TreeSound, Mode
  <2>3. Advance(e, Pass("started", op.root))
    BY <1>2 DEF ManageStarting
  <2>4. \/ /\ op'.name = "starting" /\ op'.root = op.root
           /\ op'.todo = (op.todo \ {e}) \cup children[e]
        \/ /\ op'.name = "started" /\ op'.root = op.root /\ op'.todo = {op.root}
           /\ op.todo = {e} /\ children[e] = {}
    BY <2>1, <2>3, AdvanceIs DEF Pass
  <2>5. TreeSound'
    BY <1>0, <2>1, <2>2, <2>4 DEF TreeSound, PassSound, Under, Mode
  <2>6. PassSound'
    BY <1>0, <2>1, <2>2, <2>4 DEF PassSound, Under
  <2> QED
    BY <2>5, <2>6
<1>3. CASE ManageStarted(e)
  <2>1. /\ mode[e] = "starting" /\ mode' = [mode EXCEPT ![e] = "started"]
        /\ managed' = managed /\ owner' = owner /\ children' = children
        /\ op.name = "started" /\ e \in op.todo
    BY <1>3 DEF ManageStarted, Turn, PassSound, OnManagementStarted
  <2>2. \A c \in children[e] : mode[c] = "starting" /\ c # e
    BY <1>0, <2>1 DEF TreeSound
  <2>3. Advance(e, Idle)
    BY <1>3 DEF ManageStarted
  <2>4. \/ op'.name = "started" /\ op'.todo = (op.todo \ {e}) \cup children[e]
        \/ op'.name = "idle" /\ op.todo = {e}
    BY <2>1, <2>3, AdvanceIs DEF Idle
  <2>5. TreeSound'
    BY <1>0, <2>1, <2>2, <2>4 DEF TreeSound, PassSound, Under
  <2>6. PassSound'
    BY <1>0, <2>1, <2>2, <2>4 DEF PassSound, Under
  <2> QED
    BY <2>5, <2>6
<1>4. CASE Skip(e)
  <2>1. UNCHANGED <<mode, managed, owner, children>> /\ e \notin managed /\ e \in op.todo
        /\ op.name \in {"stopping", "stopped"}
    BY <1>4 DEF Skip, Turn, tree
  <2>2. \/ op'.name = op.name /\ op'.root = op.root /\ op'.todo = (op.todo \ {e}) \cup children[e]
        \/ /\ op.name = "stopping" /\ op'.name = "stopped" /\ op'.todo = {op.root}
           /\ op.todo = {e}
        \/ op.name = "stopped" /\ op'.name = "idle" /\ op.todo = {e}
    BY <1>4, <2>1, AdvanceIs DEF Skip, Pass, Idle
  <2>3. TreeSound'
    BY <1>0, <2>1, <2>2 DEF TreeSound
  <2>4. PassSound'
    BY <1>0, <2>1, <2>2 DEF PassSound, TreeSound
  <2> QED
    BY <2>3, <2>4
<1>5. CASE UnmanageStopping(e)
  <2>1. /\ mode' = [mode EXCEPT ![e] = "stopping"] /\ managed' = managed /\ e \in managed
        /\ owner' = [owner EXCEPT ![e] = None]
        /\ op.name = "stopping" /\ e \in op.todo
    BY <1>0, <1>5 DEF UnmanageStopping, Turn, OnManagementStopping, RemoveOwnedChild
  <2>2. children'[e] = children[e]
    BY <1>0, <1>5 DEF UnmanageStopping, OnManagementStopping, RemoveOwnedChild
  <2>3. Advance(e, Pass("stopped", op.root))
    BY <1>5 DEF UnmanageStopping
  <2>4. \/ /\ op'.name = "stopping" /\ op'.root = op.root
           /\ op'.todo = (op.todo \ {e}) \cup children[e]
        \/ /\ op'.name = "stopped" /\ op'.todo = {op.root}
           /\ op.todo = {e} /\ children[e] = {}
    BY <2>1, <2>2, <2>3, AdvanceIs DEF Pass
  <2>5. TreeSound'
    BY <1>0, <2>1, <2>4 DEF TreeSound
  <2>6. PassSound'
    BY <1>0, <2>1, <2>4 DEF PassSound
  <2> QED
    BY <2>5, <2>6
<1>6. CASE UnmanageStopped(e)
  <2>1. /\ mode[e] = "stopping" /\ mode' = [mode EXCEPT ![e] = "stopped"]
        /\ managed' = managed \ {e} /\ owner' = owner /\ children' = children
        /\ op.name = "stopped" /\ e \in op.todo
    BY <1>6 DEF UnmanageStopped, Turn, PassSound, OnManagementStopped, UnmanageNonRecursive
  <2>2. \A c \in children[e] : c \notin managed
    BY <1>0, <2>1 DEF TreeSound
  <2>3. Advance(e, Idle)
    BY <1>6 DEF UnmanageStopped
  <2>4. \/ op'.name = "stopped" /\ op'.todo = (op.todo \ {e}) \cup children[e]
        \/ op'.name = "idle"
    BY <2>1, <2>3, AdvanceIs DEF Idle
  <2>5. TreeSound'
    BY <1>0, <2>1, <2>2, <2>4 DEF TreeSound
  <2>6. PassSound'
    BY <1>0, <2>1, <2>2, <2>4 DEF PassSound
  <2> QED
    BY <2>5, <2>6
<1> QED
  BY <1>1, <1>2, <1>3, <1>4, <1>5, <1>6 DEF Turns

LEMMA AddTree ==
  ASSUME IInv, NEW p \in Entity, NEW e \in Entity, AddOwnedChild(p, e)
  PROVE  TreeSound' /\ PassSound'
<1>1. /\ mode \in [Entity -> Mode] /\ owner \in [Entity -> Entity \cup {None}]
      /\ e # p /\ e # App
  BY DEF AddOwnedChild, IInv, TypeOK, TreeSound
<1> QED
  BY <1>1 DEF AddOwnedChild, IInv, TreeSound, PassSound, Idle

LEMMA RestartTreeSound ==
  ASSUME IInv, Restart
  PROVE  TreeSound' /\ PassSound'
<1>1. /\ owner' \in [Entity -> Entity \cup {None}]
      /\ \A c \in Entity : owner'[c] # None => c \in Stored /\ owner'[c] \in Stored
      /\ owner'[App] = None
  BY RestartTree, AppAssumption DEF IInv, Joined, OneParent
<1>2. App \in Stored /\ \A c \in Stored : mode'[c] = "new"
  BY DEF Restart, Stored
<1>3. \A c \in Entity : mode'[c] \in {"new", "absent", "stopped"} /\ (c \notin Stored => owner'[c] = None)
  BY <1>1 DEF Restart
<1> QED
  BY <1>1, <1>2, <1>3, AppAssumption DEF Restart, TreeSound, PassSound, Under, Pass, Stored

--------------------------------------------------------------------------------
(* Nobody ever has two parents, not even when the files that a restart      *)
(* finds are of different times.                                            *)

LEMMA NoNewNames ==
  ASSUME OneParent,
         \A p, c \in Entity : Named(p, c)' => Named(p, c),
         \A c \in Entity : mode[c] # "absent" => mode'[c] # "absent"
  PROVE  OneParent'
  BY DEF OneParent

LEMMA FewerPapers ==
  ASSUME \A e \in Entity : Papers(e)' \subseteq Papers(e) /\ owner'[e] \in {owner[e], None},
         NEW p \in Entity, NEW c \in Entity, Named(p, c)'
  PROVE  Named(p, c)
  BY AppAssumption DEF Named

LEMMA SamePapers ==
  ASSUME UNCHANGED <<taken, required, writing, file>>
  PROVE  \A e \in Entity : Papers(e)' = Papers(e)
  BY DEF Papers

LEMMA ChangeParent ==
  ASSUME IInv, NEW e \in Entity, Change(e)
  PROVE  OneParent'
<1>1. CASE SetAttribute(e) \/ OnChanged(e)
  BY <1>1 DEF SetAttribute, OnChanged, IInv, OneParent, Named, Papers, tree, task, disk, writers
<1>2. ASSUME NEW p \in Entity, AddOwnedChild(p, e) PROVE OneParent'
  <2>1. /\ \A c \in Entity : owner'[c] = IF c = e THEN p ELSE owner[c]
        /\ \A c \in Entity : mode[c] # "absent" => mode'[c] # "absent"
        /\ mode[e] = "absent" /\ mode'[e] = "new" /\ e # p /\ e # App
    BY <1>2 DEF AddOwnedChild, IInv, TypeOK, TreeSound
  <2>2. \A c \in Entity : Papers(c)' = Papers(c)
    BY <1>2, SamePapers DEF AddOwnedChild, task, disk, writers
  <2>3. \A q, c \in Entity : Named(q, c)' => Named(q, c) \/ (q = p /\ c = e)
    BY <2>1, <2>2 DEF Named
  <2>4. \A q \in Entity : ~Named(q, e)
    BY <2>1 DEF IInv, OneParent
  <2> QED
    BY <2>1, <2>3, <2>4 DEF IInv, OneParent
<1> QED
  BY <1>1, <1>2 DEF Change

LEMMA TurnsParent ==
  ASSUME IInv, NEW e \in Entity, Turns(e)
  PROVE  OneParent'
<1>1. /\ UNCHANGED <<taken, required, writing, file>>
      /\ \A c \in Entity : owner'[c] \in {owner[c], None}
      /\ \A c \in Entity : mode[c] # "absent" => mode'[c] # "absent"
  BY DEF Turns, Manage, ManageStarting, ManageStarted, Unmanage, Skip, UnmanageStopping,
     UnmanageStopped, OnManagementStarting, OnManagementStarted, OnManagementStopping,
     OnManagementStopped, RemoveOwnedChild, IInv, TypeOK, tree, task, disk, writers
<1> QED
  BY <1>1, SamePapers, FewerPapers, NoNewNames DEF IInv

LEMMA SavesParent ==
  ASSUME IInv, Saves
  PROVE  OneParent'
<1>0. UNCHANGED tree
  BY DEF Saves, Switch, GenerateFails, Persisted, Generate, Persist, DeleteEntity, RequireDelete
<1>1. ASSUME NEW e \in Entity, Generate(e) PROVE OneParent'
  <2>1. \A c \in Entity : taken'[c] = IF c = e THEN Memento(e) ELSE taken[c]
    BY <1>1 DEF Generate, IInv, TypeOK
  <2>2. \A c \in Entity : Papers(c)' \subseteq Papers(c) \cup (IF c = e THEN {Memento(e)} ELSE {})
    BY <1>1, <2>1 DEF Generate, Papers, disk, writers
  <2>3. /\ \A p \in Entity : Memento(e).owner = p => Named(p, e)
        /\ \A c \in Entity : c \in Memento(e).children => Named(e, c)
    BY DEF Memento, Named, IInv, TypeOK
  <2>4. ASSUME NEW p \in Entity, NEW c \in Entity, Named(p, c)'
        PROVE  Named(p, c)
    BY <1>0, <2>2, <2>3, <2>4 DEF Named, tree
  <2> QED
    BY <1>0, <2>4, NoNewNames DEF IInv, tree
<1>2. CASE Switch \/ Persisted \/ \E e \in Entity : DeleteEntity(e)
  <2>1. UNCHANGED <<taken, required, writing, file>>
    BY <1>2 DEF Switch, Persisted, DeleteEntity, RequireDelete, disk, writers
  <2> QED
    BY <1>0, <2>1, SamePapers, FewerPapers, NoNewNames DEF IInv, tree
<1>3. CASE GenerateFails
  <2>1. \A c \in Entity : Papers(c)' \subseteq Papers(c)
    BY <1>3 DEF GenerateFails, Nowhere, Papers, disk, writers
  <2> QED
    BY <1>0, <2>1, FewerPapers, NoNewNames DEF IInv, tree
<1>4. ASSUME NEW e \in Entity, Persist(e) PROVE OneParent'
  <2>1. \A c \in Entity : Papers(c)' \subseteq Papers(c)
    BY <1>4 DEF Persist, Papers, IInv, TypeOK
  <2> QED
    BY <1>0, <2>1, FewerPapers, NoNewNames DEF IInv, tree
<1> QED
  BY <1>1, <1>2, <1>3, <1>4 DEF Saves

LEMMA WritesParent ==
  ASSUME IInv, NEW e \in Entity, Writes(e)
  PROVE  OneParent'
<1>1. UNCHANGED <<tree, taken>>
  BY DEF Writes, TakeRequired, WriteFile, DeleteFile, task
<1>2. \A c \in Entity : Papers(c)' \subseteq Papers(c)
  BY <1>1 DEF Writes, TakeRequired, WriteFile, DeleteFile, Papers, IInv, TypeOK
<1> QED
  BY <1>1, <1>2, FewerPapers, NoNewNames DEF IInv, tree

LEMMA RestartParent ==
  ASSUME IInv, Restart
  PROVE  OneParent'
<1>1. \A c \in Entity : Papers(c)' \subseteq Papers(c)
  BY DEF Restart, Papers, Nowhere
<1>2. \A p, c \in Entity : owner'[c] = p => Named(p, c)
  BY RestartTree DEF IInv
<1>3. \A p, c \in Entity : Named(p, c)' => Named(p, c)
  BY <1>1, <1>2 DEF Named
<1>4. \A c \in Entity : mode[c] # "absent" => mode'[c] # "absent"
  BY DEF Restart
<1> QED
  BY <1>3, <1>4, NoNewNames DEF IInv

--------------------------------------------------------------------------------
(* Only what is unmanaged for good is deleted *)

LEMMA SameWriters ==
  ASSUME UNCHANGED writers
  PROVE  \A e \in Entity : Deletes(e)' <=> Deletes(e)
  BY DEF Deletes, At, writers

LEMMA ChangeWriter ==
  ASSUME IInv, NEW e \in Entity, Change(e)
  PROVE  WriterSound'
<1>0. /\ UNCHANGED <<prev, requireDelete, deleted, call>>
      /\ \A c \in Entity : Deletes(c)' <=> Deletes(c)
  <2>1. UNCHANGED writers /\ UNCHANGED task
    BY DEF Change, SetAttribute, OnChanged, AddOwnedChild, disk
  <2> QED
    BY <2>1, SameWriters DEF writers, task
<1>1. CASE SetAttribute(e)
  BY <1>0, <1>1 DEF SetAttribute, IInv, WriterSound, tree
<1>2. CASE OnChanged(e)
  <2>1. delta'.removed = delta.removed
    BY <1>2 DEF OnChanged, IInv, Ranges, Delta
  <2> QED
    BY <1>0, <1>2, <2>1 DEF OnChanged, IInv, WriterSound, tree
<1>3. ASSUME NEW p \in Entity, AddOwnedChild(p, e) PROVE WriterSound'
  <2>1. \A c \in Entity : mode[c] = "stopped" => mode'[c] = "stopped"
    BY <1>3 DEF AddOwnedChild, IInv, TypeOK
  <2> QED
    BY <1>0, <1>3, <2>1 DEF AddOwnedChild, IInv, WriterSound
<1> QED
  BY <1>1, <1>2, <1>3 DEF Change

LEMMA TurnsWriter ==
  ASSUME IInv, NEW e \in Entity, Turns(e)
  PROVE  WriterSound'
<1>0. /\ UNCHANGED <<prev, requireDelete, deleted, call>>
      /\ \A c \in Entity : Deletes(c)' <=> Deletes(c)
  <2>1. UNCHANGED <<task, disk>>
    BY DEF Turns, Manage, ManageStarting, ManageStarted, Unmanage, Skip, UnmanageStopping,
       UnmanageStopped
  <2> QED
    BY <2>1, SameWriters DEF disk, writers, task
<1>1. CASE UnmanageStopped(e)
  <2>1. mode[e] = "stopping" /\ mode' = [mode EXCEPT ![e] = "stopped"]
    BY <1>1 DEF UnmanageStopped, OnManagementStopped, Turn, IInv, PassSound
  <2>2. delta'.removed = delta.removed \cup {e}
    BY <1>1 DEF UnmanageStopped, OnUnmanaged
  <2>3. mode \in [Entity -> Mode]
    BY DEF IInv, TypeOK
  <2> QED
    BY <1>0, <2>1, <2>2, <2>3 DEF IInv, WriterSound
<1>2. CASE ~UnmanageStopped(e)
  <2>1. delta'.removed = delta.removed
    BY <1>2 DEF Turns, Manage, ManageStarting, ManageStarted, Unmanage, Skip, UnmanageStopping,
       OnManaged, IInv, Ranges, Delta
  <2>2. \A c \in Entity : mode[c] = "stopped" => mode'[c] = "stopped"
    <3>1. CASE ManageStarting(e) \/ ManageStarted(e)
      BY <3>1 DEF ManageStarting, ManageStarted, Turn, OnManagementStarting, OnManagementStarted,
         IInv, TypeOK, PassSound
    <3>2. CASE UnmanageStopping(e)
      BY <3>2 DEF UnmanageStopping, OnManagementStopping, IInv, TypeOK, TreeSound
    <3> QED
      BY <1>2, <3>1, <3>2 DEF Turns, Manage, Unmanage, Skip, tree
  <2> QED
    BY <1>0, <2>1, <2>2 DEF IInv, WriterSound
<1> QED
  BY <1>1, <1>2

LEMMA SavesWriter ==
  ASSUME IInv, Saves
  PROVE  WriterSound'
<1>0. UNCHANGED <<mode, execution, deleted, listeners>>
  BY DEF Saves, Switch, GenerateFails, Persisted, Generate, Persist, DeleteEntity, disk, writers, tree
<1>1. CASE Switch \/ GenerateFails \/ Persisted
  <2>1. /\ UNCHANGED <<requireDelete, call>>
        /\ \/ Switch /\ prev'.removed = delta.removed /\ delta'.removed = {} /\ call = Returned
           \/ GenerateFails /\ prev'.removed = {} /\ prev'.changed = {} /\ delta' = delta
           \/ Persisted /\ UNCHANGED <<prev, delta>>
    BY <1>1 DEF Switch, GenerateFails, Persisted, Nothing, IInv, TypeOK, disk, writers
  <2>2. \A c \in Entity : Deletes(c)' <=> Deletes(c)
    BY <1>0, <2>1 DEF Deletes, At
  <2> QED
    BY <1>0, <2>1, <2>2 DEF IInv, WriterSound
<1>2. ASSUME NEW e \in Entity, Generate(e) PROVE WriterSound'
  <2>1. /\ prev'.removed = prev.removed /\ prev.changed # {}
        /\ UNCHANGED <<delta, requireDelete, call>>
    BY <1>2 DEF Generate, IInv, Ranges, Delta, disk, writers
  <2>2. \A c \in Entity : Deletes(c)' <=> Deletes(c)
    BY <1>0, <2>1 DEF Deletes, At
  <2> QED
    BY <1>0, <2>1, <2>2 DEF IInv, WriterSound
<1>3. ASSUME NEW e \in Entity, Persist(e) PROVE WriterSound'
  <2>1. UNCHANGED <<delta, prev, requireDelete>> /\ prev.changed = {}
        /\ (call' = call \/ call'.task = "write")
    BY <1>3 DEF Persist, Calls
  <2>2. \A c \in Entity : Deletes(c)' => Deletes(c)
    BY <1>0, <2>1 DEF Deletes, At
  <2> QED
    BY <1>0, <2>1, <2>2 DEF IInv, WriterSound
<1>4. ASSUME NEW e \in Entity, DeleteEntity(e) PROVE WriterSound'
  <2>1. /\ prev'.removed = prev.removed \ {e} /\ delta' = delta /\ e \in prev.removed
        /\ prev'.changed = {}
    BY <1>4 DEF DeleteEntity, IInv, Ranges, Delta
  <2>2. mode[e] = "stopped" /\ ~requireDelete[e] /\ ~deleted[e] /\ e \notin delta.removed
    BY <2>1 DEF IInv, WriterSound
  <2>3. CASE writer[e]
    <3>1. /\ \A c \in Entity : requireDelete'[c] = IF c = e THEN TRUE ELSE requireDelete[c]
          /\ call' = [task |-> "delete", of |-> e]
      BY <1>4, <2>2, <2>3 DEF DeleteEntity, RequireDelete, Calls, IInv, Ranges
    <3>2. \A c \in Entity : Deletes(c)' => Deletes(c) \/ c = e
      BY <1>0, <3>1 DEF Deletes, At
    <3> QED
      BY <1>0, <2>1, <2>2, <3>1, <3>2 DEF IInv, WriterSound
  <2>4. CASE ~writer[e]
    <3>1. UNCHANGED <<requireDelete, call>>
      BY <1>4, <2>4 DEF DeleteEntity
    <3>2. \A c \in Entity : Deletes(c)' <=> Deletes(c)
      BY <1>0, <3>1 DEF Deletes, At
    <3> QED
      BY <1>0, <2>1, <3>1, <3>2 DEF IInv, WriterSound
  <2> QED
    BY <2>3, <2>4
<1> QED
  BY <1>1, <1>2, <1>3, <1>4 DEF Saves

LEMMA WritesWriter ==
  ASSUME IInv, NEW e \in Entity, Writes(e)
  PROVE  WriterSound'
<1>0. UNCHANGED <<mode, delta, prev, call, listeners>>
  BY DEF Writes, TakeRequired, WriteFile, DeleteFile, task, tree
<1>1. \A c \in Entity : Deletes(c)' => Deletes(c)
  BY <1>0 DEF Writes, TakeRequired, WriteFile, DeleteFile, Deletes, At, IInv, TypeOK
<1>2. CASE TakeRequired(e) \/ WriteFile(e)
  <2>1. UNCHANGED <<requireDelete, deleted>>
    BY <1>2 DEF TakeRequired, WriteFile
  <2> QED
    BY <1>0, <1>1, <2>1 DEF IInv, WriterSound
<1>3. CASE DeleteFile(e)
  <2>1. /\ \A c \in Entity : requireDelete'[c] = IF c = e THEN FALSE ELSE requireDelete[c]
        /\ \A c \in Entity : deleted'[c] = IF c = e THEN TRUE ELSE deleted[c]
    BY <1>3 DEF DeleteFile, IInv, Ranges
  <2>2. requireDelete[e] \/ deleted[e]
    BY <1>3 DEF DeleteFile, Deletes, IInv, WriterSound
  <2> QED
    BY <1>0, <1>1, <2>1, <2>2 DEF IInv, WriterSound
<1> QED
  BY <1>2, <1>3 DEF Writes

(* A listener goes to delete when it has seen that one is required.         *)
LEMMA HandsDelete ==
  ASSUME TypeOK, NEW e \in Entity, Hands(e), NEW c \in Entity, Deletes(c)'
  PROVE  Deletes(c) \/ requireDelete[c]
<1>0. execution \in [Entity -> {"none", "write", "delete", "done"}]
  BY DEF TypeOK
<1>1. CASE CallCas(e)
  BY <1>0, <1>1 DEF CallCas, Submit, Deletes, At, Returned
<1>2. CASE Release(e)
  BY <1>0, <1>2, ListenersJoin DEF Release, Deletes, Place
<1>3. CASE TestDelete(e)
  <2>1. ~requireDelete[e] => GoOn(e, "testDelete", "testWrite") /\ At(e, "testDelete")
    BY <1>3 DEF TestDelete
  <2>2. CASE c = e /\ requireDelete[e]
    BY <2>2
  <2>3. CASE ~requireDelete[e]
    BY <1>3, <2>1, <2>3, ListenersGoOn DEF TestDelete, Deletes, Place
  <2>4. CASE c # e
    BY <1>3, <2>4, HandsAre DEF TestDelete, Deletes, Place
  <2> QED
    BY <2>2, <2>3, <2>4
<1>4. CASE TestWrite(e)
  <2>1. At(e, "testWrite") /\ (GoOn(e, "testWrite", "casWrite") \/ Leave(e, "testWrite"))
    BY <1>4 DEF TestWrite
  <2> QED
    BY <1>4, <2>1, ListenersGoOn, ListenersLeave DEF TestWrite, Deletes, Place
<1>5. CASE PostCas(e)
  <2>1. CASE At(e, "casDelete") /\ c = e
    BY <2>1 DEF Deletes
  <2>2. CASE At(e, "casWrite") /\ Submit(e, "write") /\ Leave(e, "casWrite")
    BY <1>0, <1>5, <2>2, ListenersLeave DEF PostCas, Submit, Deletes, Place
  <2>3. CASE c # e
    BY <1>5, <2>3, HandsAre DEF PostCas, Deletes, Place
  <2> QED
    BY <1>5, <2>1, <2>2, <2>3 DEF PostCas
<1> QED
  BY <1>1, <1>2, <1>3, <1>4, <1>5 DEF Hands

LEMMA HandsWriter ==
  ASSUME IInv, NEW e \in Entity, Hands(e)
  PROVE  WriterSound'
<1>1. UNCHANGED <<mode, delta, prev, requireDelete, deleted>>
  BY HandsFrame DEF tree, task
<1>2. \A c \in Entity : Deletes(c)' => Deletes(c) \/ requireDelete[c]
  BY HandsDelete DEF IInv
<1>3. call' = call \/ call' = Returned
  BY HandsAre DEF IInv
<1> QED
  BY <1>1, <1>2, <1>3 DEF IInv, WriterSound

LEMMA RestartWriter ==
  ASSUME Restart
  PROVE  WriterSound'
<1>1. \A c \in Entity : ~Deletes(c)'
  BY DEF Restart, Deletes, At, NoListener, Returned, Place
<1> QED
  BY <1>1 DEF Restart, WriterSound, Nothing, Nobody

--------------------------------------------------------------------------------
(* Whoever leaves is followed by somebody who looks again                   *)

(* RecordedIsSeenTo of one entity *)
SeenTo(e) ==
  /\ requireDelete[e] =>
       \/ execution[e] # "none" \/ Listens(e, {"testDelete", "casDelete"})
       \/ call.task = "delete" /\ call.of = e
  /\ required[e] # Null /\ ~deleted[e] =>
       \/ execution[e] # "none" \/ Listens(e, Place)
       \/ call # Returned /\ call.of = e

LEMMA SeenToEach ==
  /\ RecordedIsSeenTo <=> \A e \in Entity : SeenTo(e)
  /\ RecordedIsSeenTo' <=> \A e \in Entity : SeenTo(e)'
  BY Zenon DEF RecordedIsSeenTo, SeenTo

LEMMA SameSeenTo ==
  ASSUME RecordedIsSeenTo, UNCHANGED writers
  PROVE  RecordedIsSeenTo'
  BY DEF RecordedIsSeenTo, Listens, At, writers

LEMMA SavesSeenTo ==
  ASSUME IInv, Saves
  PROVE  RecordedIsSeenTo'
<1>0. \A c \in Entity : SeenTo(c)
  BY SeenToEach DEF IInv
<1>1. CASE \/ Switch \/ GenerateFails \/ Persisted \/ \E e \in Entity : Generate(e)
  BY <1>1, SameSeenTo DEF Switch, GenerateFails, Persisted, Generate, disk, IInv
<1>2. ASSUME NEW e \in Entity, Persist(e), NEW c \in Entity PROVE SeenTo(c)'
  <2>1. /\ UNCHANGED <<execution, requireDelete, deleted, listeners>> /\ call = Returned
        /\ c # e => required'[c] = required[c]
        /\ IF requireDelete[e] \/ deleted[e] THEN call' = call
                                             ELSE call' = [task |-> "write", of |-> e]
    BY <1>2 DEF Persist, Calls, IInv, TypeOK
  <2>2. \A S \in {{"testDelete", "casDelete"}, Place} : Listens(c, S)' <=> Listens(c, S)
    BY <2>1 DEF Listens, At
  <2>3. Listens(c, {"testDelete", "casDelete"}) => Listens(c, Place)
    BY DEF Listens, Place
  <2> QED
    BY <1>0, <2>1, <2>2, <2>3 DEF SeenTo, Returned
<1>3. ASSUME NEW e \in Entity, DeleteEntity(e), NEW c \in Entity PROVE SeenTo(c)'
  <2>1. /\ UNCHANGED <<execution, required, deleted, listeners>> /\ call = Returned
        /\ \/ UNCHANGED <<requireDelete, call>>
           \/ /\ call' = [task |-> "delete", of |-> e]
              /\ c # e => requireDelete'[c] = requireDelete[c]
    BY <1>3 DEF DeleteEntity, RequireDelete, Calls, IInv, Ranges
  <2>2. \A S \in {{"testDelete", "casDelete"}, Place} : Listens(c, S)' <=> Listens(c, S)
    BY <2>1 DEF Listens, At
  <2> QED
    BY <1>0, <2>1, <2>2 DEF SeenTo, Returned
<1> QED
  BY <1>1, <1>2, <1>3, SeenToEach DEF Saves

LEMMA WritesSeenTo ==
  ASSUME IInv, NEW e \in Entity, Writes(e)
  PROVE  RecordedIsSeenTo'
<1> SUFFICES ASSUME NEW c \in Entity PROVE SeenTo(c)'
  BY SeenToEach
<1>1. SeenTo(c)
  BY SeenToEach DEF IInv
<1>2. /\ UNCHANGED <<listeners, call>>
      /\ \/ execution'[c] \in {"write", "done"}
         \/ UNCHANGED <<execution[c], requireDelete[c], deleted[c]>> /\ c # e /\ required'[c] = required[c]
  BY DEF Writes, TakeRequired, WillTake, WriteFile, DeleteFile, IInv, TypeOK, Ranges
<1>3. \A S \in {{"testDelete", "casDelete"}, Place} : Listens(c, S)' <=> Listens(c, S)
  BY <1>2 DEF Listens, At
<1> QED
  BY <1>1, <1>2, <1>3 DEF SeenTo

LEMMA HandsSeenTo ==
  ASSUME IInv, NEW e \in Entity, Hands(e)
  PROVE  RecordedIsSeenTo'
<1> SUFFICES ASSUME NEW c \in Entity PROVE SeenTo(c)'
  BY SeenToEach
<1>0. SeenTo(c) /\ TypeOK
  BY SeenToEach DEF IInv
<1>1. UNCHANGED <<required, requireDelete, deleted>>
  BY HandsFrame
<1>2. CASE c # e
  <2>1. \A S \in {{"testDelete", "casDelete"}, Place} : Listens(c, S)' <=> Listens(c, S)
    BY <1>0, <1>2, HandsAre DEF Listens, Place
  <2>2. execution'[c] = execution[c] /\ (call' = call \/ call.of = e)
    BY <1>0, <1>2, HandsAre
  <2> QED
    BY <1>0, <1>1, <1>2, <2>1, <2>2 DEF SeenTo
<1>3. CASE c = e /\ (CallCas(e) \/ PostCas(e))
  <2>1. execution'[e] # "none"
    BY <1>0, <1>3 DEF CallCas, PostCas, Submit, TypeOK
  <2> QED
    BY <1>3, <2>1 DEF SeenTo
<1>4. CASE c = e /\ Release(e)
  BY <1>0, <1>4, ListenersJoin DEF SeenTo, Listens, Place
<1>5. CASE c = e /\ TestDelete(e)
  <2>1. PICK q \in {"casDelete", "testWrite"} :
          GoOn(e, "testDelete", q) /\ At(e, "testDelete") /\ (requireDelete[e] => q = "casDelete")
    BY <1>5 DEF TestDelete
  <2>2. At(e, q)'
    BY <1>0, <2>1, ListenersGoOn DEF Place
  <2> QED
    BY <1>1, <1>5, <2>1, <2>2 DEF SeenTo, Listens, Place
<1>6. CASE c = e /\ TestWrite(e)
  <2>1. /\ At(e, "testWrite") /\ UNCHANGED <<execution, call>>
        /\ IF required[e] # Null THEN GoOn(e, "testWrite", "casWrite") ELSE Leave(e, "testWrite")
    BY <1>6 DEF TestWrite
  <2>2. required[e] # Null => At(e, "casWrite")'
    BY <1>0, <2>1, ListenersGoOn DEF Place
  <2>3. \A p \in {"testDelete", "casDelete"} : At(e, p)' <=> At(e, p)
    BY <1>0, <2>1, ListenersGoOn, ListenersLeave DEF Place
  <2> QED
    BY <1>0, <1>1, <1>6, <2>1, <2>2, <2>3 DEF SeenTo, Listens, Place
<1> QED
  BY <1>2, <1>3, <1>4, <1>5, <1>6 DEF Hands

LEMMA RestartSeenTo ==
  ASSUME Restart
  PROVE  RecordedIsSeenTo'
  BY DEF Restart, RecordedIsSeenTo, Nobody

--------------------------------------------------------------------------------
(* What was unmanaged is noted, then marked, then off the disk              *)

LEMMA ChangeRemoval ==
  ASSUME IInv, NEW e \in Entity, Change(e)
  PROVE  Removal'
<1>1. CASE SetAttribute(e)
  BY <1>1 DEF SetAttribute, IInv, Removal, Gone, WillTake, tree, task, disk, writers, history
<1>2. CASE OnChanged(e)
  <2>1. /\ delta'.removed = delta.removed /\ delta'.changed = delta.changed \cup {e}
        /\ UNCHANGED <<tree, task, disk>> /\ (mode[e] = "stopped" => e \in late')
        /\ late \subseteq late'
    BY <1>2 DEF OnChanged, IInv, Ranges, Delta
  <2> QED
    BY <2>1 DEF IInv, Removal, Gone, WillTake, tree, task, disk, writers
<1>3. ASSUME NEW p \in Entity, AddOwnedChild(p, e) PROVE Removal'
  BY <1>3 DEF AddOwnedChild, IInv, TypeOK, Removal, Gone, WillTake, task, disk, writers, history
<1> QED
  BY <1>1, <1>2, <1>3 DEF Change

LEMMA TurnsRemoval ==
  ASSUME IInv, NEW e \in Entity, Turns(e)
  PROVE  Removal'
<1>0. UNCHANGED <<task, disk, late>>
  BY DEF Turns, Manage, ManageStarting, ManageStarted, Unmanage, Skip, UnmanageStopping,
     UnmanageStopped, history
<1>1. CASE UnmanageStopped(e)
  <2>1. mode[e] = "stopping" /\ mode' = [mode EXCEPT ![e] = "stopped"]
    BY <1>1 DEF UnmanageStopped, OnManagementStopped, Turn, IInv, PassSound
  <2>2. delta'.removed = delta.removed \cup {e} /\ delta'.changed = delta.changed \ {e}
    BY <1>1 DEF UnmanageStopped, OnUnmanaged
  <2>3. ~requireDelete[e] /\ ~deleted[e]
    BY <2>1 DEF IInv, WriterSound
  <2> QED
    BY <1>0, <2>1, <2>2, <2>3 DEF IInv, TypeOK, Removal, Gone, WillTake, task, disk, writers
<1>2. CASE ~UnmanageStopped(e)
  <2>1. \A c \in Entity : mode'[c] = "stopped" =>
          mode[c] = "stopped" /\ (c \in delta'.changed => c \in delta.changed)
    <3>1. CASE ManageStarted(e)
      BY <3>1 DEF ManageStarted, OnManagementStarted, OnManaged, IInv, TypeOK, Ranges, Delta
    <3>2. CASE ManageStarting(e) \/ UnmanageStopping(e)
      BY <3>2 DEF ManageStarting, UnmanageStopping, OnManagementStarting, OnManagementStopping,
         IInv, TypeOK
    <3> QED
      BY <1>2, <3>1, <3>2 DEF Turns, Manage, Unmanage, Skip, tree
  <2>2. delta'.removed = delta.removed
    BY <1>2 DEF Turns, Manage, ManageStarting, ManageStarted, Unmanage, Skip, UnmanageStopping,
       OnManaged, IInv, Ranges, Delta
  <2> QED
    BY <1>0, <2>1, <2>2 DEF IInv, Removal, Gone, WillTake, task, disk, writers
<1> QED
  BY <1>1, <1>2

LEMMA SavesRemoval ==
  ASSUME IInv, Saves
  PROVE  Removal'
<1>0. /\ UNCHANGED <<mode, writing, execution, deleted, file>>
      /\ \A c \in Entity : WillTake(c)' <=> WillTake(c)
  BY DEF Saves, Switch, GenerateFails, Persisted, Generate, Persist, DeleteEntity, disk, writers,
     tree, WillTake
<1>1. CASE Switch
  <2>1. /\ prev = Nothing /\ prev' = delta /\ delta' = Nothing /\ saver' # "dead"
        /\ UNCHANGED <<taken, writer, required, requireDelete, late>> /\ saver # "dead"
    BY <1>1 DEF Switch, IInv, TypeOK, disk, writers, history
  <2> QED
    BY <1>0, <2>1 DEF IInv, Removal, Gone, Nothing
<1>2. CASE GenerateFails
  BY <1>0, <1>2 DEF GenerateFails, IInv, Removal, disk, writers, history
<1>3. CASE Persisted
  <2>1. UNCHANGED <<delta, prev, taken, writer, required, requireDelete, late>> /\ saver = "busy"
    BY <1>3 DEF Persisted, disk, writers, history
  <2> QED
    BY <1>0, <2>1 DEF IInv, Removal, Gone
<1>4. ASSUME NEW e \in Entity, Generate(e) PROVE Removal'
  <2>1. /\ prev'.removed = prev.removed /\ prev'.changed = prev.changed \ {e}
        /\ e \in prev.changed /\ saver = "busy" /\ saver' = "busy"
        /\ \A c \in Entity : c # e => taken'[c] = taken[c]
        /\ UNCHANGED <<delta, writer, required, requireDelete, late>>
    BY <1>4 DEF Generate, IInv, TypeOK, Ranges, Delta, disk, writers, history
  <2> QED
    BY <1>0, <2>1 DEF IInv, Removal, Gone
<1>5. ASSUME NEW e \in Entity, Persist(e) PROVE Removal'
  <2>1. /\ UNCHANGED <<delta, prev, late, requireDelete>> /\ saver = "busy" /\ saver' = "busy"
        /\ taken[e] # None
        /\ \A c \in Entity : c # e =>
             taken'[c] = taken[c] /\ writer'[c] = writer[c] /\ required'[c] = required[c]
    BY <1>5 DEF Persist, IInv, TypeOK, Ranges, history
  <2>2. mode[e] = "stopped" /\ e \notin late => ~requireDelete[e] /\ ~deleted[e]
                                             /\ e \in delta.removed \cup prev.removed
    BY <2>1 DEF IInv, Removal, Gone, WriterSound
  <2> QED
    BY <1>0, <2>1, <2>2 DEF IInv, Removal, Gone
<1>6. ASSUME NEW e \in Entity, DeleteEntity(e) PROVE Removal'
  <2>1. /\ prev'.removed = prev.removed \ {e} /\ prev'.changed = {} /\ prev.changed = {}
        /\ UNCHANGED <<delta, taken, writer, required, saver>> /\ e \in prev.removed
        /\ taken[e] = None
    BY <1>6 DEF DeleteEntity, IInv, Ranges, Delta, Nowhere
  <2>2. mode[e] = "stopped" /\ ~requireDelete[e] /\ ~deleted[e] /\ e \notin delta.removed
    BY <2>1 DEF IInv, WriterSound
  <2>3. CASE writer[e]
    <3>1. /\ \A c \in Entity : requireDelete'[c] = IF c = e THEN TRUE ELSE requireDelete[c]
          /\ late' = IF required[e] # Null /\ ~WillTake(e) THEN late \cup {e} ELSE late
      BY <1>6, <2>2, <2>3 DEF DeleteEntity, RequireDelete, IInv, Ranges
    <3> QED
      BY <1>0, <2>1, <2>2, <3>1 DEF IInv, Removal, Gone
  <2>4. CASE ~writer[e]
    <3>1. UNCHANGED <<requireDelete, late>>
      BY <1>6, <2>4 DEF DeleteEntity
    <3> QED
      BY <1>0, <2>1, <2>2, <2>4, <3>1 DEF IInv, Removal, Gone
  <2> QED
    BY <2>3, <2>4
<1> QED
  BY <1>1, <1>2, <1>3, <1>4, <1>5, <1>6 DEF Saves

LEMMA WritesRemoval ==
  ASSUME IInv, NEW e \in Entity, Writes(e)
  PROVE  Removal'
<1>0. /\ UNCHANGED <<mode, delta, prev, taken, saver, late, writer>>
      /\ \A c \in Entity : c # e =>
           /\ required'[c] = required[c] /\ writing'[c] = writing[c] /\ file'[c] = file[c]
           /\ requireDelete'[c] = requireDelete[c] /\ deleted'[c] = deleted[c]
           /\ execution'[c] = execution[c]
  BY DEF Writes, TakeRequired, WriteFile, DeleteFile, task, tree, history, IInv, TypeOK, Ranges
<1>1. \A c \in Entity : c # e => (WillTake(c)' <=> WillTake(c))
  BY <1>0 DEF WillTake
<1>2. CASE TakeRequired(e)
  <2>1. /\ UNCHANGED <<requireDelete, deleted, file>>
        /\ required'[e] = Null /\ writing'[e] = required[e]
    BY <1>2 DEF TakeRequired, IInv, TypeOK
  <2> QED
    BY <1>0, <1>1, <2>1 DEF IInv, Removal, Gone
<1>3. CASE WriteFile(e)
  <2>1. /\ UNCHANGED <<requireDelete, deleted, required>> /\ ~WillTake(e)
        /\ writing'[e] = None /\ file'[e] \in {file[e], writing[e]} /\ writing[e] # None
    BY <1>3 DEF WriteFile, WillTake, IInv, TypeOK
  <2> QED
    BY <1>0, <1>1, <2>1 DEF IInv, Removal, Gone
<1>4. CASE DeleteFile(e)
  <2>1. /\ ~requireDelete'[e] /\ deleted'[e] /\ UNCHANGED <<required, writing>>
        /\ file'[e] = None /\ ~WillTake(e) /\ writing[e] = None
    BY <1>4 DEF DeleteFile, WillTake, IInv, TypeOK, Ranges
  <2>2. requireDelete[e] \/ deleted[e]
    BY <1>4 DEF DeleteFile, Deletes, IInv, WriterSound
  <2> QED
    BY <1>0, <1>1, <2>1, <2>2 DEF IInv, Removal, Gone
<1> QED
  BY <1>2, <1>3, <1>4 DEF Writes

LEMMA HandsRemoval ==
  ASSUME IInv, NEW e \in Entity, Hands(e)
  PROVE  Removal'
<1>1. UNCHANGED <<mode, delta, prev, taken, saver, late, writer, required, requireDelete, deleted,
                  writing, file>>
  BY HandsFrame DEF tree, task, history
<1>2. ASSUME NEW c \in Entity, execution[c] = "write" PROVE execution'[c] = "write"
  BY <1>2 DEF Hands, CallCas, Release, TestDelete, TestWrite, PostCas, Submit, IInv, TypeOK
<1>3. \A c \in Entity : WillTake(c) => WillTake(c)'
  BY <1>1, <1>2 DEF WillTake
<1> QED
  BY <1>1, <1>3 DEF IInv, Removal, Gone

LEMMA RestartRemoval ==
  ASSUME Restart
  PROVE  Removal'
  BY DEF Restart, Removal, Gone, Nothing, Nobody, Nowhere

--------------------------------------------------------------------------------
(* The hands that pass a memento on *)

(* The owner of an entity whose list of children changes is told, and so is *)
(* whoever's attribute changes: nothing else changes a memento.             *)
LEMMA TrackedBy ==
  ASSUME IInv, saver' # "dead" => saver # "dead",
         UNCHANGED <<prev, taken, required, writing, file, failed>>,
         \A e \in Entity : mode'[e] = "started" =>
           \/ inFlight'[e] > 0
           \/ e \in delta'.changed
           \/ /\ mode[e] = "started" /\ inFlight[e] = inFlight'[e]
              /\ e \in delta.changed => e \in delta'.changed
              /\ Memento(e)' = Memento(e)
  PROVE  Tracked'
  BY DEF IInv, Tracked, Newest

LEMMA ChangeTracked ==
  ASSUME IInv, NEW e \in Entity, Change(e)
  PROVE  Tracked'
<1>0. /\ UNCHANGED <<saver, prev, taken, required, writing, file, failed>>
      /\ inFlight \in [Entity -> Nat] /\ mode \in [Entity -> Mode]
      /\ version \in [Entity -> Nat] /\ owner \in [Entity -> Entity \cup {None}]
      /\ children \in [Entity -> SUBSET Entity]
  BY DEF Change, SetAttribute, OnChanged, AddOwnedChild, task, disk, writers, history, IInv, TypeOK
<1>1. CASE SetAttribute(e)
  BY <1>0, <1>1, TrackedBy DEF SetAttribute, Tell, Listening, Memento, tree
<1>2. CASE OnChanged(e)
  <2>1. delta'.changed = delta.changed \cup {e}
    BY <1>2 DEF OnChanged, IInv, Ranges, Delta
  <2> QED
    BY <1>0, <1>2, <2>1, TrackedBy DEF OnChanged, Memento, tree
<1>3. ASSUME NEW p \in Entity, AddOwnedChild(p, e) PROVE Tracked'
  BY <1>0, <1>3, TrackedBy DEF AddOwnedChild, Tell, Listening, Memento, tree, task
<1> QED
  BY <1>1, <1>2, <1>3 DEF Change

LEMMA TurnsTracked ==
  ASSUME IInv, NEW e \in Entity, Turns(e)
  PROVE  Tracked'
<1>0. /\ UNCHANGED <<saver, prev, taken, required, writing, file, failed, version>>
      /\ inFlight \in [Entity -> Nat] /\ mode \in [Entity -> Mode]
      /\ owner \in [Entity -> Entity \cup {None}]
      /\ children \in [Entity -> SUBSET Entity]
      /\ delta \in Delta
  BY DEF Turns, Manage, ManageStarting, ManageStarted, Unmanage, Skip, UnmanageStopping,
     UnmanageStopped, task, disk, writers, history, IInv, TypeOK, Ranges
<1>1. CASE Manage(e) \/ Unmanage(e) \/ Skip(e)
  <2>1. UNCHANGED <<tree, version, inFlight, delta>>
    BY <1>1 DEF Manage, Unmanage, Skip
  <2> QED
    BY <1>0, <2>1, TrackedBy DEF Memento, tree
<1>2. CASE ManageStarting(e)
  <2>1. UNCHANGED <<owner, children, version, inFlight, delta>>
        /\ mode' = [mode EXCEPT ![e] = "starting"]
    BY <1>2 DEF ManageStarting, OnManagementStarting
  <2> QED
    BY <1>0, <2>1, TrackedBy DEF Memento
<1>3. CASE ManageStarted(e)
  <2>1. UNCHANGED <<owner, children, version, inFlight>> /\ delta'.changed = delta.changed \cup {e}
        /\ mode' = [mode EXCEPT ![e] = "started"]
    BY <1>0, <1>3 DEF ManageStarted, OnManagementStarted, OnManaged, Delta
  <2> QED
    BY <1>0, <2>1, TrackedBy DEF Memento
<1>4. CASE UnmanageStopping(e)
  <2>1. UNCHANGED <<version, delta>> /\ mode' = [mode EXCEPT ![e] = "stopping"]
    BY <1>4 DEF UnmanageStopping, OnManagementStopping
  <2>2. \A c \in Entity : c # e =>
          /\ owner'[c] = owner[c]
          /\ \/ children'[c] = children[c] /\ inFlight'[c] = inFlight[c]
             \/ c = owner[e] /\ (Listening(c) => inFlight'[c] > 0)
    BY <1>0, <1>4 DEF UnmanageStopping, OnManagementStopping, RemoveOwnedChild, Tell
  <2> QED
    BY <1>0, <2>1, <2>2, TrackedBy DEF Memento, Listening
<1>5. CASE UnmanageStopped(e)
  <2>1. UNCHANGED <<owner, children, version, inFlight>> /\ delta'.changed = delta.changed \ {e}
        /\ mode' = [mode EXCEPT ![e] = "stopped"]
    BY <1>5 DEF UnmanageStopped, OnManagementStopped, OnUnmanaged
  <2> QED
    BY <1>0, <2>1, TrackedBy DEF Memento
<1> QED
  BY <1>1, <1>2, <1>3, <1>4, <1>5 DEF Turns

LEMMA SavesTracked ==
  ASSUME IInv, Saves
  PROVE  Tracked'
<1>0. UNCHANGED <<tree, version, inFlight, file, writing, failed>>
  BY DEF Saves, Switch, GenerateFails, Persisted, Generate, Persist, DeleteEntity, RequireDelete, disk, writers,
     history
<1>1. \A e \in Entity : Memento(e)' = Memento(e) /\ Memento(e) # None /\ Memento(e) # Null
  BY <1>0, MementoIsMemento DEF IInv, Memento, tree
<1>2. CASE Switch
  <2>1. prev = Nothing /\ prev' = delta /\ UNCHANGED <<taken, required>> /\ saver # "dead"
    BY <1>2 DEF Switch, IInv, TypeOK, disk, writers
  <2> QED
    BY <1>0, <1>1, <2>1 DEF IInv, Tracked, Newest, Nothing, tree
<1>3. CASE GenerateFails
  BY <1>3 DEF GenerateFails, Tracked
<1>4. CASE Persisted
  BY <1>0, <1>1, <1>4 DEF Persisted, IInv, Tracked, Newest, tree, disk, writers
<1>5. ASSUME NEW e \in Entity, Generate(e) PROVE Tracked'
  <2>1. /\ prev'.changed = prev.changed \ {e} /\ UNCHANGED <<delta, required, saver>>
        /\ \A c \in Entity : taken'[c] = IF c = e THEN Memento(e) ELSE taken[c]
    BY <1>5 DEF Generate, IInv, TypeOK, Ranges, Delta, disk, writers
  <2> QED
    BY <1>0, <1>1, <2>1 DEF IInv, Tracked, Newest, tree
<1>6. ASSUME NEW e \in Entity, Persist(e) PROVE Tracked'
  <2>1. /\ UNCHANGED <<delta, prev, saver>> /\ taken[e] # None /\ taken[e] # Null
        /\ \A c \in Entity : taken'[c] = IF c = e THEN None ELSE taken[c]
        /\ \A c \in Entity : required'[c] = IF c = e THEN taken[e] ELSE required[c]
    BY <1>6, NullAssumption DEF Persist, IInv, TypeOK
  <2> QED
    BY <1>0, <1>1, <2>1 DEF IInv, Tracked, Newest, tree
<1>7. ASSUME NEW e \in Entity, DeleteEntity(e) PROVE Tracked'
  <2>1. UNCHANGED <<delta, taken, required, saver>> /\ prev'.changed = prev.changed
    BY <1>7 DEF DeleteEntity, RequireDelete, IInv, Ranges, Delta
  <2> QED
    BY <1>0, <1>1, <2>1 DEF IInv, Tracked, Newest, tree
<1> QED
  BY <1>2, <1>3, <1>4, <1>5, <1>6, <1>7 DEF Saves

LEMMA WritesTracked ==
  ASSUME IInv, NEW e \in Entity, Writes(e)
  PROVE  Tracked'
<1>0. UNCHANGED <<tree, version, inFlight, delta, task>>
  BY DEF Writes, TakeRequired, WriteFile, DeleteFile
<1>1. \A c \in Entity : Memento(c)' = Memento(c)
  BY <1>0 DEF Memento, tree
<1>2. CASE TakeRequired(e)
  <2>1. /\ UNCHANGED <<file, failed>> /\ writing[e] = None /\ required[e] # None
        /\ \A c \in Entity : writing'[c] = IF c = e THEN required[e] ELSE writing[c]
        /\ \A c \in Entity : required'[c] = IF c = e THEN Null ELSE required[c]
    BY <1>2, NullAssumption DEF TakeRequired, WillTake, IInv, TypeOK, history
  <2> QED
    BY <1>0, <1>1, <2>1 DEF IInv, Tracked, Newest, tree, task
<1>3. CASE WriteFile(e)
  <2>1. /\ UNCHANGED required /\ writing[e] # None
        /\ \A c \in Entity : writing'[c] = IF c = e THEN None ELSE writing[c]
        /\ \/ /\ \A c \in Entity : file'[c] = IF c = e THEN writing[e] ELSE file[c]
              /\ failed' = failed \ {e}
           \/ UNCHANGED file /\ failed' = failed \cup {e}
    BY <1>3 DEF WriteFile, IInv, TypeOK
  <2> QED
    BY <1>0, <1>1, <2>1 DEF IInv, Tracked, Newest, tree, task
<1>4. CASE DeleteFile(e)
  <2>1. /\ UNCHANGED <<required, writing, failed>>
        /\ \A c \in Entity : c # e => file'[c] = file[c]
        /\ mode[e] = "stopped"
    BY <1>4 DEF DeleteFile, Deletes, IInv, TypeOK, WriterSound, history
  <2> QED
    BY <1>0, <1>1, <2>1 DEF IInv, Tracked, Newest, tree, task
<1> QED
  BY <1>2, <1>3, <1>4 DEF Writes

LEMMA HandsTracked ==
  ASSUME IInv, NEW e \in Entity, Hands(e)
  PROVE  Tracked'
<1>1. UNCHANGED <<mode, owner, children, version, inFlight, delta, prev, taken, saver, required,
                  writing, file, failed>>
  BY HandsFrame DEF tree, task, history
<1> QED
  BY <1>1 DEF IInv, Tracked, Newest, Memento

LEMMA RestartTracked ==
  ASSUME Restart
  PROVE  Tracked'
<1>1. \A e \in Entity : mode'[e] # "started"
  BY DEF Restart
<1> QED
  BY <1>1 DEF Tracked

--------------------------------------------------------------------------------
LEMMA NextIInv == IInv /\ [Next]_vars => IInv'
<1> SUFFICES ASSUME IInv, [Next]_vars PROVE IInv'
  OBVIOUS
<1>1. CASE UNCHANGED vars
  <2>1. /\ TypeOK' /\ Ranges'
    BY <1>1 DEF IInv, TypeOK, Ranges, vars, tree, task, disk, writers, counters
  <2>2. TreeSound' /\ PassSound' /\ OneParent'
    BY <1>1, TreeUnchanged, SamePapers, FewerPapers, NoNewNames
       DEF IInv, vars, tree, task, disk, writers
  <2>3. RecordedIsSeenTo' /\ WriterSound' /\ Removal' /\ Tracked'
    BY <1>1, SameSeenTo, SameWriters DEF IInv, WriterSound, Removal, WillTake, Gone, Tracked, Newest,
       Memento, vars, tree, task, disk, writers, history
  <2> QED
    BY <2>1, <2>2, <2>3 DEF IInv
<1>2. ASSUME NEW e \in Entity, Change(e) PROVE IInv'
  <2>1. TreeSound' /\ PassSound'
    BY <1>2, AddTree, TreeUnchanged DEF Change, SetAttribute, OnChanged, tree, IInv
  <2>2. UNCHANGED writers
    BY <1>2 DEF Change, SetAttribute, OnChanged, AddOwnedChild, disk
  <2> QED
    BY <1>2, <2>1, <2>2, ChangeType, ChangeParent, SameSeenTo, ChangeWriter, ChangeRemoval,
       ChangeTracked DEF IInv
<1>3. ASSUME NEW e \in Entity, Turns(e) PROVE IInv'
  <2>1. UNCHANGED writers
    BY <1>3 DEF Turns, Manage, ManageStarting, ManageStarted, Unmanage, Skip, UnmanageStopping,
       UnmanageStopped, disk
  <2> QED
    BY <1>3, <2>1, TurnsType, TurnsTree, TurnsParent, SameSeenTo, TurnsWriter, TurnsRemoval,
       TurnsTracked DEF IInv
<1>4. CASE Saves
  <2>1. UNCHANGED <<mode, managed, owner, op>>
    BY <1>4 DEF Saves, Switch, GenerateFails, Persisted, Generate, Persist, DeleteEntity, tree
  <2> QED
    BY <1>4, <2>1, TreeUnchanged, SavesType, SavesParent, SavesSeenTo, SavesWriter, SavesRemoval,
       SavesTracked DEF IInv
<1>5. ASSUME NEW e \in Entity, Writes(e) PROVE IInv'
  <2>1. UNCHANGED <<mode, managed, owner, op>>
    BY <1>5 DEF Writes, TakeRequired, WriteFile, DeleteFile, tree
  <2> QED
    BY <1>5, <2>1, TreeUnchanged, WritesType, WritesParent, WritesSeenTo, WritesWriter,
       WritesRemoval, WritesTracked DEF IInv
<1>6. ASSUME NEW e \in Entity, Hands(e) PROVE IInv'
  <2>1. UNCHANGED <<mode, managed, owner, op>> /\ OneParent'
    BY <1>6, HandsFrame, SamePapers, FewerPapers, NoNewNames DEF tree, task, IInv
  <2> QED
    BY <1>6, <2>1, TreeUnchanged, HandsType, HandsSeenTo, HandsWriter, HandsRemoval, HandsTracked
       DEF IInv
<1>7. CASE Restart
  BY <1>7, RestartType, RestartTreeSound, RestartParent, RestartSeenTo, RestartWriter,
     RestartRemoval, RestartTracked DEF IInv
<1> QED
  BY <1>1, <1>2, <1>3, <1>4, <1>5, <1>6, <1>7 DEF Next, Change, Turns, Saves, Writes, Hands

LEMMA Inductive == Spec => []IInv
BY InitIInv, NextIInv, PTL DEF Spec

(* The ranges, that owner and children stay two views of one tree through    *)
(* every pass and restart, and that the periodic task and the writers' tasks *)
(* hold something only while they run.                                       *)
THEOREM TypeCorrect == Spec => []TypeOK
<1>1. IInv => TypeOK
  BY DEF IInv
<1> QED
  BY <1>1, Inductive, PTL

(* Whatever is recorded at a writer (write, delete) while its task is in     *)
(* progress or ends, the task, its listener (addPostExecListener) or the     *)
(* caller has yet to see to it, for any number of listeners that are late.   *)
THEOREM RecordsAreSeenTo == Spec => []RecordedIsSeenTo
<1>1. IInv => RecordedIsSeenTo
  BY DEF IInv
<1> QED
  BY <1>1, Inductive, PTL

(* Whatever changes of a managed entity is on disk or on its way there, for  *)
(* any tree, any number of changes, unmanagements and crashes and any        *)
(* interleaving of the writers' tasks and listeners, except that a listener  *)
(* that comes late may put a null in its place.                              *)
THEOREM ChangesAreTracked == Spec => []EveryChangeIsTracked
<1>1. IInv => EveryChangeIsTracked
  BY DEF IInv, Tracked, EveryChangeIsTracked
<1> QED
  BY <1>1, Inductive, PTL

(* No memento of what was unmanaged stays on disk, for whatever it was the   *)
(* parent of and whoever of its writer's callers and listeners comes late.   *)
THEOREM UnmanagedIsDeleted == Spec => []DeletedFromDisk
<1>1. ASSUME IInv, op = Idle, delta = Nothing, saver = "idle", NEW e \in Entity,
             mode[e] = "stopped", writer[e], Settled(e), e \notin late
      PROVE  file[e] \in {None, Null}
  <2>1. prev = Nothing /\ call = Returned
    BY <1>1 DEF IInv, TypeOK
  <2>2. ~requireDelete[e]
    BY <1>1, <2>1 DEF IInv, RecordedIsSeenTo, Settled, Listens, Place, Returned
  <2> QED
    BY <1>1, <2>1, <2>2 DEF IInv, Removal, Gone, Nothing
<1>2. IInv => DeletedFromDisk
  BY <1>1 DEF DeletedFromDisk
<1> QED
  BY <1>2, Inductive, PTL

--------------------------------------------------------------------------------
(* The writers of all entities implement FileStore.                          *)

LEMMA InitFiles == Init => Files!Init
  BY NullAssumption DEF Init, Files!Init, Files!Every, Asked, Nobody, Nowhere

LEMMA SameFiles ==
  ASSUME UNCHANGED writers, UNCHANGED file
  PROVE  UNCHANGED Files!vars
  BY DEF writers, Asked, Files!vars

LEMMA PersistRecords ==
  ASSUME IInv, NEW e \in Entity, Persist(e)
  PROVE  Files!Record(e)
<1>1. required' = [required EXCEPT ![e] = taken[e]] /\ taken[e] \in MementoType
  BY DEF Persist, IInv, TypeOK
<1>2. required'[e] = taken[e]
  BY <1>1 DEF IInv, TypeOK
<1>3. UNCHANGED <<writing, Asked, file>>
  BY DEF Persist, Asked
<1> QED
  BY <1>1, <1>2, <1>3 DEF Files!Record

LEMMA DeleteAsks ==
  ASSUME IInv, NEW e \in Entity, DeleteEntity(e)
  PROVE  Files!Ask(e) \/ UNCHANGED Files!vars
<1>1. UNCHANGED <<required, writing, deleted, file>>
  BY DEF DeleteEntity
<1>2. CASE requireDelete' = [requireDelete EXCEPT ![e] = TRUE]
  <2>1. Asked' = [Asked EXCEPT ![e] = TRUE]
    BY <1>1, <1>2 DEF Asked, IInv, Ranges
  <2> QED
    BY <1>1, <2>1 DEF Files!Ask
<1>3. CASE UNCHANGED requireDelete
  BY <1>1, <1>3 DEF Asked, Files!vars
<1> QED
  BY <1>2, <1>3 DEF DeleteEntity, RequireDelete

(* A delete is executed only when no memento is in the writer's hands, and   *)
(* when it was required.                                                     *)
LEMMA TaskStores ==
  ASSUME IInv, NEW e \in Entity, Writes(e)
  PROVE  Files!Take(e) \/ Files!Store(e) \/ Files!Lose(e) \/ Files!Remove(e)
<1>1. CASE TakeRequired(e)
  BY <1>1 DEF TakeRequired, WillTake, Asked, Files!Take
<1>2. CASE WriteFile(e)
  BY <1>2 DEF WriteFile, Asked, Files!Store, Files!Lose, Files!LetGo
<1>3. CASE DeleteFile(e)
  <2>1. writing[e] = None /\ (requireDelete[e] \/ deleted[e])
    BY <1>3 DEF DeleteFile, Deletes, IInv, TypeOK, WriterSound
  <2>2. Asked[e] /\ Asked' = Asked
    BY <1>3, <2>1 DEF DeleteFile, Asked, IInv, Ranges
  <2> QED
    BY <1>3, <2>1, <2>2 DEF DeleteFile, Files!Remove
<1> QED
  BY <1>1, <1>2, <1>3 DEF Writes

LEMMA NextFiles ==
  ASSUME IInv, [Next]_vars
  PROVE  [Files!Next]_(Files!vars)
<1>1. CASE Restart
  BY <1>1 DEF Restart, Nobody, Nowhere, Asked, Files!Crash, Files!Every, Files!Next
<1>2. CASE \/ Switch \/ GenerateFails \/ Persisted \/ UNCHANGED vars
  BY <1>2, SameFiles DEF Switch, GenerateFails, Persisted, vars, disk
<1>3. ASSUME NEW e \in Entity, Change(e) \/ Turns(e) \/ Generate(e)
      PROVE  UNCHANGED Files!vars
  <2>1. UNCHANGED disk
    BY <1>3 DEF Change, SetAttribute, OnChanged, AddOwnedChild, Turns, Manage, ManageStarting,
       ManageStarted, Unmanage, Skip, UnmanageStopping, UnmanageStopped, Generate
  <2> QED
    BY <2>1, SameFiles DEF disk
<1>4. ASSUME NEW e \in Entity, Persist(e) \/ DeleteEntity(e) \/ Writes(e)
      PROVE  [Files!Next]_(Files!vars)
  BY <1>4, PersistRecords, DeleteAsks, TaskStores DEF Files!Next
<1>5. ASSUME NEW e \in Entity, Hands(e) PROVE UNCHANGED Files!vars
  BY <1>5, HandsFrame DEF Asked, Files!vars
<1> QED
  BY <1>1, <1>2, <1>3, <1>4, <1>5 DEF Next, Change, Turns, Writes, Hands

(* The periodic task and the writers of all entities, their callers and      *)
(* listeners in any order, keep what FileStore promises of the files, through *)
(* failures and restarts (write, delete, writeNow, deleteNow, rebind).       *)
THEOREM FilesRefine == Spec => ImplementsFileStore
<1>1. IInv /\ [Next]_vars => [Files!Next]_(Files!vars)
  BY NextFiles
<1> QED
  BY <1>1, InitFiles, Inductive, PTL DEF Spec, ImplementsFileStore, Files!Spec

================================================================================
