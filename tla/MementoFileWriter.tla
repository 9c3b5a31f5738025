--------------------------- MODULE MementoFileWriter ---------------------------
(***************************************************************************)
(* brooklyn.entity.rebind.persister.MementoFileWriter: one file, written   *)
(* and deleted asynchronously.  Client threads call write and delete; an   *)
(* execution is one task given to the executor together with the post-exec *)
(* listener of its future.  The listener runs in the task's thread or, if  *)
(* the future is already done, in the thread that submits; the submitter   *)
(* does nothing after that, so an execution is one sequential agent.  The  *)
(* production executor is a cached thread pool, so executions overlap.     *)
(*                                                                         *)
(* Each atomic variable is read or written in a step of its own.  A        *)
(* memento is the number of the write() that brought it.                   *)
(***************************************************************************)
EXTENDS Integers

CONSTANTS
  Client,      \* threads that call write and delete
  Execution,   \* slots for concurrent executions; a bound
  MaxWrites,   \* bound on the calls of write
  MaxFailures  \* bound on the tasks that fail

ASSUME BoundsAreNatural == MaxWrites \in Nat /\ MaxFailures \in Nat

Absent == -1   \* no file
Null == 0      \* a null reference, and the file "<null/>" written from one

VARIABLES
  executing,      \* AtomicBoolean: an execution is in progress
  requireWrite,   \* AtomicReference: the memento to be written, or Null
  requireDelete, deleted,  \* AtomicBooleans
  file, tmp,      \* content of the file and of its temporary sibling
  cpc,            \* where each client's call is
  epc,            \* where each execution is
  val,            \* the memento that the task of an execution took
  latest,         \* how many mementos write() has been called with
  failures,       \* how many tasks have failed
  shutdown        \* the executor has been shut down and rejects tasks

disk == <<file, tmp>>
flags == <<executing, requireWrite, requireDelete, deleted>>
writerVars == <<flags, disk, cpc, epc, val, latest, failures, shutdown>>

ClientPc == {"idle", "testRequired", "testDeleted", "casWrite",
             "testDeletedFirst", "testRequiredNext", "require", "casDelete"}
TaskPc == {"take", "write", "move", "mark", "unrequire", "deleteFile", "deleteTmp"}
ListenerPc == {"release", "testDelete", "testWrite", "recasDelete", "recasWrite"}
Memento == 1..MaxWrites

WriterInit ==
  /\ executing = FALSE /\ requireWrite = Null
  /\ requireDelete = FALSE /\ deleted = FALSE
  /\ file = Absent /\ tmp = Absent
  /\ cpc = [c \in Client |-> "idle"]
  /\ epc = [e \in Execution |-> "idle"]
  /\ val = [e \in Execution |-> Null]
  /\ latest = 0 /\ failures = 0 /\ shutdown = FALSE

--------------------------------------------------------------------------------
(* Steps of a client that change nothing but its place, and of an execution. *)
ClientAt(c, from, to) ==
  cpc[c] = from /\ cpc' = [cpc EXCEPT ![c] = to]

ExecutionAt(e, from, to) ==
  epc[e] = from /\ epc' = [epc EXCEPT ![e] = to]

(* executing.compareAndSet(false, true) and, on success, writeAsync or      *)
(* deleteAsync: a task starts at phase first in a slot that is not in use,  *)
(* unless the executor rejects it; then executing stays set.                *)
CasAndSubmit(first, phases) ==
  \/ executing /\ epc' = phases /\ UNCHANGED executing
  \/ ~executing /\ shutdown /\ executing' = TRUE /\ epc' = phases
  \/ /\ ~executing /\ ~shutdown /\ executing' = TRUE
     /\ \E e \in Execution :
          phases[e] = "idle" /\ epc' = [phases EXCEPT ![e] = first]

--------------------------------------------------------------------------------
(* write(val) *)

WriteCall(c) ==
  /\ latest < MaxWrites
  /\ ClientAt(c, "idle", "testRequired")
  /\ latest' = latest + 1
  /\ requireWrite' = latest + 1
  /\ UNCHANGED <<executing, requireDelete, deleted, disk, epc, val, failures, shutdown>>

(* if (requireDelete.get() || deleted.get()): "because already deleted" *)
WriteTestRequired(c) ==
  /\ ClientAt(c, "testRequired", IF requireDelete THEN "idle" ELSE "testDeleted")
  /\ UNCHANGED <<flags, disk, epc, val, latest, failures, shutdown>>

WriteTestDeleted(c) ==
  /\ ClientAt(c, "testDeleted", IF deleted THEN "idle" ELSE "casWrite")
  /\ UNCHANGED <<flags, disk, epc, val, latest, failures, shutdown>>

(* Mutated form: write submits a task without winning the compareAndSet. *)
WriteCasUnguarded(c) ==
  /\ ClientAt(c, "casWrite", "idle")
  /\ executing' = TRUE
  /\ \E e \in Execution : epc[e] = "idle" /\ epc' = [epc EXCEPT ![e] = "take"]
  /\ UNCHANGED <<requireWrite, requireDelete, deleted, disk, val, latest, failures, shutdown>>

WriteCas(c) ==
  /\ ClientAt(c, "casWrite", "idle")
  /\ CasAndSubmit("take", epc)
  /\ UNCHANGED <<requireWrite, requireDelete, deleted, disk, val, latest, failures, shutdown>>

Write(c) == WriteCall(c) \/ WriteTestRequired(c) \/ WriteTestDeleted(c) \/ WriteCas(c)

(* delete() *)

DeleteCall(c) ==
  /\ ClientAt(c, "idle", "testDeletedFirst")
  /\ UNCHANGED <<flags, disk, epc, val, latest, failures, shutdown>>

DeleteTestDeleted(c) ==
  /\ ClientAt(c, "testDeletedFirst", IF deleted THEN "idle" ELSE "testRequiredNext")
  /\ UNCHANGED <<flags, disk, epc, val, latest, failures, shutdown>>

DeleteTestRequired(c) ==
  /\ ClientAt(c, "testRequiredNext", IF requireDelete THEN "idle" ELSE "require")
  /\ UNCHANGED <<flags, disk, epc, val, latest, failures, shutdown>>

DeleteRequire(c) ==
  /\ ClientAt(c, "require", "casDelete")
  /\ requireDelete' = TRUE
  /\ UNCHANGED <<executing, requireWrite, deleted, disk, epc, val, latest, failures, shutdown>>

DeleteCas(c) ==
  /\ ClientAt(c, "casDelete", "idle")
  /\ CasAndSubmit("mark", epc)
  /\ UNCHANGED <<requireWrite, requireDelete, deleted, disk, val, latest, failures, shutdown>>

Delete(c) ==
  \/ DeleteCall(c) \/ DeleteTestDeleted(c) \/ DeleteTestRequired(c)
  \/ DeleteRequire(c) \/ DeleteCas(c)

--------------------------------------------------------------------------------
(* writeNow() *)

TakeMemento(e) ==
  /\ ExecutionAt(e, "take", "write")
  /\ val' = [val EXCEPT ![e] = requireWrite]
  /\ requireWrite' = Null
  /\ UNCHANGED <<executing, requireDelete, deleted, disk, cpc, latest, failures, shutdown>>

(* Mutated form: the memento is read again when it is written. *)
WriteTmpRereads(e) ==
  /\ ExecutionAt(e, "write", "move")
  /\ tmp' = requireWrite
  /\ UNCHANGED <<flags, file, cpc, val, latest, failures, shutdown>>

WriteTmp(e) ==
  /\ ExecutionAt(e, "write", "move")
  /\ tmp' = val[e]
  /\ UNCHANGED <<flags, file, cpc, val, latest, failures, shutdown>>

(* Mutated form: the requirement is cleared once more after the write. *)
MoveTmpClears(e) ==
  /\ ExecutionAt(e, "move", "release")
  /\ file' = tmp /\ tmp' = Absent
  /\ requireWrite' = Null
  /\ UNCHANGED <<executing, requireDelete, deleted, cpc, val, latest, failures, shutdown>>

MoveTmp(e) ==
  /\ ExecutionAt(e, "move", "release")
  /\ file' = tmp /\ tmp' = Absent
  /\ UNCHANGED <<flags, cpc, val, latest, failures, shutdown>>

(* Mutated form: the listener is only for tasks that succeed. *)
FailTaskSilently(e) ==
  /\ failures < MaxFailures
  /\ ExecutionAt(e, "write", "idle") \/ ExecutionAt(e, "move", "idle")
  /\ failures' = failures + 1
  /\ UNCHANGED <<flags, disk, cpc, val, latest, shutdown>>

(* Serialization fails MAX_SERIALIZATION_ATTEMPTS times, the file cannot be *)
(* written, or it cannot be moved: the future fails, its listener runs.     *)
FailTask(e) ==
  /\ failures < MaxFailures
  /\ ExecutionAt(e, "write", "release") \/ ExecutionAt(e, "move", "release")
  /\ failures' = failures + 1
  /\ UNCHANGED <<flags, disk, cpc, val, latest, shutdown>>

(* deleteNow() *)

MarkDeleted(e) ==
  /\ ExecutionAt(e, "mark", "unrequire")
  /\ deleted' = TRUE
  /\ UNCHANGED <<executing, requireWrite, requireDelete, disk, cpc, val, latest, failures, shutdown>>

Unrequire(e) ==
  /\ ExecutionAt(e, "unrequire", "deleteFile")
  /\ requireDelete' = FALSE
  /\ UNCHANGED <<executing, requireWrite, deleted, disk, cpc, val, latest, failures, shutdown>>

DeleteFile(e) ==
  /\ ExecutionAt(e, "deleteFile", "deleteTmp")
  /\ file' = Absent
  /\ UNCHANGED <<flags, tmp, cpc, val, latest, failures, shutdown>>

DeleteTmp(e) ==
  /\ ExecutionAt(e, "deleteTmp", "release")
  /\ tmp' = Absent
  /\ UNCHANGED <<flags, file, cpc, val, latest, failures, shutdown>>

Task(e) ==
  \/ TakeMemento(e) \/ WriteTmp(e) \/ MoveTmp(e)
  \/ MarkDeleted(e) \/ Unrequire(e) \/ DeleteFile(e) \/ DeleteTmp(e)

--------------------------------------------------------------------------------
(* addPostExecListener: the listener of the execution's future *)

Release(e) ==
  /\ ExecutionAt(e, "release", "testDelete")
  /\ executing' = FALSE
  /\ UNCHANGED <<requireWrite, requireDelete, deleted, disk, cpc, val, latest, failures, shutdown>>

(* Mutated form: the listener only looks for a recorded delete. *)
PostTestDeleteOnly(e) ==
  /\ ExecutionAt(e, "testDelete", IF requireDelete THEN "recasDelete" ELSE "idle")
  /\ UNCHANGED <<flags, disk, cpc, val, latest, failures, shutdown>>

PostTestDelete(e) ==
  /\ ExecutionAt(e, "testDelete", IF requireDelete THEN "recasDelete" ELSE "testWrite")
  /\ UNCHANGED <<flags, disk, cpc, val, latest, failures, shutdown>>

PostTestWrite(e) ==
  /\ ExecutionAt(e, "testWrite", IF requireWrite # Null THEN "recasWrite" ELSE "idle")
  /\ UNCHANGED <<flags, disk, cpc, val, latest, failures, shutdown>>

(* Mutated form: the listener submits without winning the compareAndSet. *)
PostCasUnguarded(e) ==
  /\ executing' = TRUE
  /\ \/ epc[e] = "recasDelete" /\ epc' = [epc EXCEPT ![e] = "mark"]
     \/ epc[e] = "recasWrite" /\ epc' = [epc EXCEPT ![e] = "take"]
  /\ UNCHANGED <<requireWrite, requireDelete, deleted, disk, cpc, val, latest, failures, shutdown>>

(* The listener ends as its successor starts, so its slot is free for it. *)
PostCas(e) ==
  /\ \/ epc[e] = "recasDelete" /\ CasAndSubmit("mark", [epc EXCEPT ![e] = "idle"])
     \/ epc[e] = "recasWrite" /\ CasAndSubmit("take", [epc EXCEPT ![e] = "idle"])
  /\ UNCHANGED <<requireWrite, requireDelete, deleted, disk, cpc, val, latest, failures, shutdown>>

PostExec(e) == Release(e) \/ PostTestDelete(e) \/ PostTestWrite(e) \/ PostCas(e)

(* BrooklynMementoPersisterToMultiFile.stop: tasks already given still run. *)
Shutdown ==
  /\ ~shutdown /\ shutdown' = TRUE
  /\ UNCHANGED <<flags, disk, cpc, epc, val, latest, failures>>

WriterNext ==
  \/ \E c \in Client : Write(c) \/ Delete(c)
  \/ \E e \in Execution : Task(e) \/ FailTask(e) \/ PostExec(e)
  \/ Shutdown

WriterSpec == WriterInit /\ [][WriterNext]_writerVars

(* Calls return, tasks and listeners run to their end.  Nobody is obliged   *)
(* to call write or delete, and nothing need fail.                          *)
WriterFairness ==
  /\ \A c \in Client :
       WF_writerVars(WriteTestRequired(c) \/ WriteTestDeleted(c) \/ WriteCas(c)
                     \/ DeleteTestDeleted(c) \/ DeleteTestRequired(c)
                     \/ DeleteRequire(c) \/ DeleteCas(c))
  /\ \A e \in Execution : WF_writerVars(Task(e) \/ PostExec(e))

WriterFairSpec == WriterSpec /\ WriterFairness

--------------------------------------------------------------------------------
(* Properties *)

InTask(e) == epc[e] \in TaskPc \cup {"release"}

(* Ranges, and what a task between its phases has on disk: the temporary    *)
(* file that is about to be moved holds what this execution took.           *)
WriterTypeOK ==
  /\ executing \in BOOLEAN /\ requireDelete \in BOOLEAN /\ deleted \in BOOLEAN
  /\ requireWrite \in Memento \cup {Null}
  /\ file \in Memento \cup {Null, Absent} /\ tmp \in Memento \cup {Null, Absent}
  /\ cpc \in [Client -> ClientPc]
  /\ epc \in [Execution -> {"idle"} \cup TaskPc \cup ListenerPc]
  /\ val \in [Execution -> Memento \cup {Null}]
  /\ latest \in 0..MaxWrites /\ failures \in 0..MaxFailures /\ shutdown \in BOOLEAN
  /\ \A e \in Execution : epc[e] = "move" => tmp = val[e]

(* Two tasks on one file never overlap, although the executor is not the    *)
(* sequential one that the constructor asks for (line 47): executing is     *)
(* held from the submission of a task until its listener releases it.       *)
OneTaskAtATime ==
  /\ \A e, f \in Execution : InTask(e) /\ InTask(f) => e = f
  /\ \A e \in Execution : InTask(e) => executing
  /\ executing /\ ~shutdown => \E e \in Execution : InTask(e)

Undisturbed == ~requireDelete /\ ~deleted /\ failures = 0 /\ ~shutdown

(* The memento of the last write() is never dropped: it is recorded, or in  *)
(* the hands of the running task, or in the file (unless a listener wrote a *)
(* null over it).                                                           *)
NewestSurvives ==
  latest > 0 /\ Undisturbed =>
    \/ requireWrite = latest
    \/ \E e \in Execution : epc[e] \in {"write", "move"} /\ val[e] = latest
    \/ file \in {latest, Null}

(* The file never goes back to an older memento.                            *)
NeverOlder == [][(file \in Memento /\ file' \in Memento) => file' >= file]_writerVars

(* A recorded write is picked up although the thread that recorded it found *)
(* executing set and left: the listener looks after it has released.        *)
WriteIsPickedUp ==
  requireWrite # Null ~> (requireWrite = Null \/ requireDelete \/ deleted \/ shutdown)

(* A recorded delete is carried out, whichever execution was in progress.   *)
DeleteIsCarriedOut == requireDelete ~> (deleted \/ shutdown)

--------------------------------------------------------------------------------
(* The writer as a FileStore with one item: what is in hand is the memento  *)
(* that a task has taken and not yet moved to the file.                     *)
OneItem == {"memento"}
NotTaken == -2
Storing == {e \in Execution : epc[e] \in {"write", "move"}}
TakenMemento == IF Storing = {} THEN NotTaken ELSE val[CHOOSE e \in Storing : TRUE]

StoreRecorded == [i \in OneItem |-> requireWrite]
StoreHand == [i \in OneItem |-> TakenMemento]
StoreAsked == [i \in OneItem |-> requireDelete \/ deleted]
StoreFile == [i \in OneItem |-> file]

Files == INSTANCE FileStore WITH
  Item <- OneItem, Content <- Memento, Nothing <- Null, Free <- NotTaken,
  recorded <- StoreRecorded, hand <- StoreHand, asked <- StoreAsked, file <- StoreFile

(* The file is stored whole, by one task, from what write() recorded,       *)
(* although tasks share the temporary file and each flag is set by itself;  *)
(* deleteNow does not lose the request to delete on its way from            *)
(* requireDelete to deleted.                                                *)
ImplementsFileStore == Files!Spec

================================================================================
