------------------------------ MODULE MutexSupport ------------------------------
(***************************************************************************)
(* brooklyn.util.mutex: the SemaphoreWithOwners that MutexSupport keeps    *)
(* for one mutex id (ids share nothing but the monitor), and the threads   *)
(* that install software on a machine under that mutex.                    *)
(*                                                                         *)
(* There are two monitors, MutexSupport's and the semaphore's.  acquire    *)
(* and tryAcquire leave the first before they take a permit, which is why  *)
(* getSemaphore registers the caller as requesting first.  That one        *)
(* registration holds the first monitor only, so it races with the other   *)
(* changes of requestingThreads, a LinkedHashSet, which hold the second:   *)
(* each change is a read and a write, and a write puts back either what    *)
(* was read or what is there, by where the threads fall in the hash table. *)
(***************************************************************************)
EXTENDS Integers, Sequences

CONSTANTS
  Thread,
  Trier,          \* threads that call tryAcquireMutex; the others acquireMutex
  Installer,      \* threads whose acquire is inside the try whose finally releases
  MaxInterrupts,  \* bound on the interrupts
  Sem,            \* the semaphore objects; one that nobody refers to is reused
  None

ASSUME NoneAssumption == None \notin Sem \cup Thread
ASSUME MaxAssumption == MaxInterrupts \in Nat

VARIABLES
  mapped,       \* semaphores.get(mutexId)
  permits,      \* the Semaphore: permits left
  queue,        \* and the threads parked in acquire(), in arrival order (fair)
  owners,       \* owningThreads (no thread here acquires a mutex that it has)
  requesting,   \* requestingThreads
  monitor,      \* the thread in a synchronized method of the MutexSupport
  lock,         \* the thread in one of the SemaphoreWithOwners
  pc,           \* where the thread is: see Pc
  ref,          \* its local s
  seen,         \* what it read of requestingThreads
  lostUpdate,   \* history: a change of requestingThreads was overwritten
  foreign,      \* history: a thread released a mutex that it did not own
  interrupts    \* the interrupts so far

sems == <<permits, queue, owners>>
history == <<lostUpdate, foreign, interrupts>>
vars == <<mapped, sems, requesting, monitor, lock, pc, ref, seen, history>>

(* In getSemaphore; at and in onRequesting; at super.acquire; parked in it; *)
(* past it; at and in onRequestFinished; running the installation; thrown   *)
(* out of acquire; at the call of releaseMutex; past super.release; past    *)
(* onReleased, before cleanupMutex.                                         *)
Pc == {"idle", "indicate", "request", "requesting", "permit", "waiting",
       "acquired", "finish", "finishing", "holding", "escaped", "release",
       "released", "cleanup"}

Init ==
  /\ mapped = None
  /\ permits = [s \in Sem |-> 1]
  /\ queue = [s \in Sem |-> <<>>]
  /\ owners = [s \in Sem |-> {}]
  /\ requesting = [s \in Sem |-> {}]
  /\ monitor = None
  /\ lock = [s \in Sem |-> None]
  /\ pc = [t \in Thread |-> "idle"]
  /\ ref = [t \in Thread |-> None]
  /\ seen = [t \in Thread |-> {}]
  /\ lostUpdate = FALSE /\ foreign = FALSE /\ interrupts = 0

Goto(t, to) == pc' = [pc EXCEPT ![t] = to]
IsInUse(s) == owners[s] # {} \/ requesting[s] # {}
HasMutex(t) == mapped # None /\ t \in owners[mapped]

--------------------------------------------------------------------------------
(* requestingThreads.add and .remove: the read, then the write. *)

ReadRequesting(t, s) == seen' = [seen EXCEPT ![t] = requesting[s]]

WriteRequesting(t, outcome, intended) ==
  /\ requesting' = [requesting EXCEPT ![ref[t]] = outcome]
  /\ lostUpdate' = (lostUpdate \/ outcome # intended)
  /\ seen' = [seen EXCEPT ![t] = {}]

Contents(t) == {seen[t], requesting[ref[t]]}
Adding(t) ==
  \E set \in Contents(t) : WriteRequesting(t, set \cup {t}, requesting[ref[t]] \cup {t})
Removing(t) ==
  \E set \in Contents(t) : WriteRequesting(t, set \ {t}, requesting[ref[t]] \ {t})

--------------------------------------------------------------------------------
(* getSemaphore(mutexId, true), the part of acquireMutex under the monitor. *)

(* A semaphore that an earlier use left is a new one to whoever creates it. *)
Fresh(s) == s # mapped /\ \A t \in Thread : ref[t] # s

GetSemaphore(t) ==
  /\ pc[t] = "idle" /\ monitor = None
  /\ \E s \in Sem :
       /\ IF mapped # None THEN s = mapped ELSE Fresh(s)
       /\ mapped' = s
       /\ IF mapped # None
            THEN UNCHANGED <<sems, requesting>> /\ ReadRequesting(t, s)
            ELSE /\ permits' = [permits EXCEPT ![s] = 1]
                 /\ queue' = [queue EXCEPT ![s] = <<>>]
                 /\ owners' = [owners EXCEPT ![s] = {}]
                 /\ requesting' = [requesting EXCEPT ![s] = {}]
                 /\ seen' = [seen EXCEPT ![t] = {}]
       /\ ref' = [ref EXCEPT ![t] = s]
  /\ monitor' = t
  /\ Goto(t, "indicate")
  /\ UNCHANGED <<lock, history>>

(* Mutated form: the caller is not registered before the monitor is left. *)
IndicateForgotten(t) ==
  /\ pc[t] = "indicate"
  /\ monitor' = None
  /\ Goto(t, "request")
  /\ seen' = [seen EXCEPT ![t] = {}]
  /\ UNCHANGED <<mapped, sems, requesting, lock, ref, history>>

Indicate(t) ==
  /\ pc[t] = "indicate"
  /\ Adding(t)
  /\ monitor' = None
  /\ Goto(t, "request")
  /\ UNCHANGED <<mapped, sems, lock, ref, foreign, interrupts>>

--------------------------------------------------------------------------------
(* SemaphoreWithOwners.acquire and tryAcquire, outside the monitor. *)

(* Entering and leaving one of the semaphore's two methods that change      *)
(* requestingThreads.                                                       *)
EnterLocked(t, from, to) ==
  /\ pc[t] = from /\ lock[ref[t]] = None
  /\ lock' = [lock EXCEPT ![ref[t]] = t]
  /\ ReadRequesting(t, ref[t])
  /\ Goto(t, to)
  /\ UNCHANGED <<mapped, sems, requesting, monitor, ref, history>>

OnRequestingEnter(t) == EnterLocked(t, "request", "requesting")

OnRequesting(t) ==
  /\ pc[t] = "requesting"
  /\ Adding(t)
  /\ lock' = [lock EXCEPT ![ref[t]] = None]
  /\ Goto(t, "permit")
  /\ UNCHANGED <<mapped, sems, monitor, ref, foreign, interrupts>>

TakePermit(t) ==
  /\ permits[ref[t]] > 0
  /\ permits' = [permits EXCEPT ![ref[t]] = @ - 1]
  /\ Goto(t, "acquired")
  /\ UNCHANGED <<mapped, owners, requesting, monitor, lock, ref, seen, history>>

(* Mutated form: a thread that arrives with a free permit takes it, *)
(* whoever is waiting (a Semaphore that is not fair).               *)
AcquireBarges(t) ==
  /\ pc[t] = "permit" /\ t \notin Trier
  /\ TakePermit(t) /\ UNCHANGED queue

(* super.acquire of a fair semaphore: nobody overtakes the threads waiting. *)
Acquire(t) ==
  /\ pc[t] = "permit" /\ t \notin Trier /\ queue[ref[t]] = <<>>
  /\ TakePermit(t) /\ UNCHANGED queue

AcquireParks(t) ==
  /\ pc[t] = "permit" /\ t \notin Trier
  /\ permits[ref[t]] <= 0 \/ queue[ref[t]] # <<>>
  /\ queue' = [queue EXCEPT ![ref[t]] = Append(@, t)]
  /\ Goto(t, "waiting")
  /\ UNCHANGED <<mapped, permits, owners, requesting, monitor, lock, ref, seen, history>>

AcquireUnparks(t) ==
  /\ pc[t] = "waiting" /\ queue[ref[t]] # <<>> /\ Head(queue[ref[t]]) = t
  /\ TakePermit(t)
  /\ queue' = [queue EXCEPT ![ref[t]] = Tail(@)]

(* super.acquire throws InterruptedException, on entry or while it waits. *)
Interrupt(t) ==
  /\ t \notin Trier /\ interrupts < MaxInterrupts
  /\ interrupts' = interrupts + 1
  /\ LET q == queue[ref[t]] IN
       \/ pc[t] = "permit" /\ UNCHANGED queue
       \/ /\ pc[t] = "waiting"
          /\ \E i \in 1..Len(q) :
               /\ q[i] = t
               /\ queue' = [queue EXCEPT ![ref[t]] =
                              SubSeq(q, 1, i - 1) \o SubSeq(q, i + 1, Len(q))]
  /\ Goto(t, "finish")
  /\ UNCHANGED <<mapped, permits, owners, requesting, monitor, lock, ref, seen>>
  /\ UNCHANGED <<lostUpdate, foreign>>

(* super.tryAcquire takes a free permit even when threads are waiting. *)
TryAcquire(t) ==
  /\ pc[t] = "permit" /\ t \in Trier
  /\ TakePermit(t) /\ UNCHANGED queue

TryAcquireFails(t) ==
  /\ pc[t] = "permit" /\ t \in Trier /\ permits[ref[t]] <= 0
  /\ Goto(t, "finish")
  /\ UNCHANGED <<mapped, sems, requesting, monitor, lock, ref, seen, history>>

OnAcquired(t) ==
  /\ pc[t] = "acquired" /\ lock[ref[t]] = None
  /\ owners' = [owners EXCEPT ![ref[t]] = @ \cup {t}]
  /\ Goto(t, "finish")
  /\ UNCHANGED <<mapped, permits, queue, requesting, monitor, lock, ref, seen, history>>

OnRequestFinishedEnter(t) == EnterLocked(t, "finish", "finishing")

(* The call returns, or throws the InterruptedException on. *)
OnRequestFinished(t) ==
  LET got == t \in owners[ref[t]] IN
  /\ pc[t] = "finishing"
  /\ Removing(t)
  /\ lock' = [lock EXCEPT ![ref[t]] = None]
  /\ Goto(t, IF got THEN "holding" ELSE IF t \in Trier THEN "idle" ELSE "escaped")
  /\ ref' = [ref EXCEPT ![t] = IF got THEN @ ELSE None]
  /\ UNCHANGED <<mapped, sems, monitor, foreign, interrupts>>

(* The InterruptedException reaches the caller: a finally block that covers *)
(* the call of acquireMutex then releases what was never acquired.          *)
Escape(t) ==
  /\ pc[t] = "escaped"
  /\ Goto(t, IF t \in Installer THEN "release" ELSE "idle")
  /\ UNCHANGED <<mapped, sems, requesting, monitor, lock, ref, seen, history>>

(* The installation ends, or fails: finally comes next. *)
EndInstall(t) ==
  /\ pc[t] = "holding"
  /\ Goto(t, "release")
  /\ UNCHANGED <<mapped, sems, requesting, monitor, lock, ref, seen, history>>

--------------------------------------------------------------------------------
(* releaseMutex(mutexId), synchronized on the MutexSupport to its end. *)

(* IllegalStateException: no mutex known *)
ReleaseUnknown(t) ==
  /\ pc[t] = "release" /\ monitor = None /\ mapped = None
  /\ ref' = [ref EXCEPT ![t] = None]
  /\ Goto(t, "idle")
  /\ UNCHANGED <<mapped, sems, requesting, monitor, lock, seen, history>>

(* super.release adds a permit, whoever calls. *)
Release(t) ==
  /\ pc[t] = "release" /\ monitor = None /\ mapped # None
  /\ monitor' = t
  /\ ref' = [ref EXCEPT ![t] = mapped]
  /\ permits' = [permits EXCEPT ![mapped] = @ + 1]
  /\ foreign' = (foreign \/ ~HasMutex(t))
  /\ Goto(t, "released")
  /\ UNCHANGED <<mapped, queue, owners, requesting, lock, seen, lostUpdate, interrupts>>

OnReleased(t) ==
  /\ pc[t] = "released" /\ lock[ref[t]] = None /\ t \in owners[ref[t]]
  /\ owners' = [owners EXCEPT ![ref[t]] = @ \ {t}]
  /\ Goto(t, "cleanup")
  /\ UNCHANGED <<mapped, permits, queue, requesting, monitor, lock, ref, seen, history>>

(* Mutated form: the exception leaves the monitor taken. *)
OnReleasedThrowsInside(t) ==
  /\ pc[t] = "released" /\ lock[ref[t]] = None /\ t \notin owners[ref[t]]
  /\ ref' = [ref EXCEPT ![t] = None]
  /\ Goto(t, "idle")
  /\ UNCHANGED <<mapped, sems, requesting, monitor, lock, seen, history>>

(* IllegalStateException: the thread did not own it *)
OnReleasedThrows(t) ==
  /\ pc[t] = "released" /\ lock[ref[t]] = None /\ t \notin owners[ref[t]]
  /\ monitor' = None
  /\ ref' = [ref EXCEPT ![t] = None]
  /\ Goto(t, "idle")
  /\ UNCHANGED <<mapped, sems, requesting, lock, seen, history>>

(* Mutated form: what is in use is judged by its owners alone. *)
CleanupMutexOwnersOnly(t) ==
  /\ pc[t] = "cleanup" /\ lock[mapped] = None
  /\ mapped' = IF owners[mapped] # {} THEN mapped ELSE None
  /\ monitor' = None
  /\ ref' = [ref EXCEPT ![t] = None]
  /\ Goto(t, "idle")
  /\ UNCHANGED <<sems, requesting, lock, seen, history>>

CleanupMutex(t) ==
  /\ pc[t] = "cleanup" /\ lock[mapped] = None
  /\ mapped' = IF IsInUse(mapped) THEN mapped ELSE None
  /\ monitor' = None
  /\ ref' = [ref EXCEPT ![t] = None]
  /\ Goto(t, "idle")
  /\ UNCHANGED <<sems, requesting, lock, seen, history>>

(* cleanup(), or cleanupMutex(mutexId), called by a thread that may at any  *)
(* time tidy up what cancellations left.                                    *)
Cleanup ==
  /\ monitor = None /\ mapped # None /\ lock[mapped] = None /\ ~IsInUse(mapped)
  /\ mapped' = None
  /\ UNCHANGED <<sems, requesting, monitor, lock, pc, ref, seen, history>>

--------------------------------------------------------------------------------
Acquiring(t) ==
  \/ Indicate(t) \/ OnRequestingEnter(t) \/ OnRequesting(t)
  \/ Acquire(t) \/ AcquireParks(t) \/ AcquireUnparks(t)
  \/ TryAcquire(t) \/ TryAcquireFails(t)
  \/ OnAcquired(t) \/ OnRequestFinishedEnter(t) \/ OnRequestFinished(t)
  \/ Escape(t)

Releasing(t) ==
  \/ EndInstall(t) \/ ReleaseUnknown(t) \/ Release(t)
  \/ OnReleased(t) \/ OnReleasedThrows(t) \/ CleanupMutex(t)

Next ==
  \/ \E t \in Thread :
       GetSemaphore(t) \/ Acquiring(t) \/ Interrupt(t) \/ Releasing(t)
  \/ Cleanup

Spec == Init /\ [][Next]_vars

(* A thread that has called goes on, and every installation ends.  Weak     *)
(* fairness of the threads is enough: a thread that wants a monitor or a    *)
(* permit is overtaken only by threads that then have to wait behind it.    *)
Fairness == \A t \in Thread : WF_vars(Acquiring(t) \/ Releasing(t))

FairSpec == Spec /\ Fairness

--------------------------------------------------------------------------------
(* Properties *)

Ranges ==
  /\ mapped \in Sem \cup {None}
  /\ permits \in [Sem -> Int]
  /\ queue \in [Sem -> Seq(Thread)]
  /\ owners \in [Sem -> SUBSET Thread] /\ requesting \in [Sem -> SUBSET Thread]
  /\ monitor \in Thread \cup {None}
  /\ lock \in [Sem -> Thread \cup {None}]
  /\ pc \in [Thread -> Pc]
  /\ ref \in [Thread -> Sem \cup {None}]
  /\ seen \in [Thread -> SUBSET Thread]
  /\ lostUpdate \in BOOLEAN /\ foreign \in BOOLEAN /\ interrupts \in 0..MaxInterrupts

(* Who is inside a monitor: MutexSupport's belongs to the threads in        *)
(* getSemaphore and releaseMutex, the semaphore's to a thread that changes  *)
(* its requestingThreads.                                                   *)
Monitors ==
  \A t \in Thread :
    /\ pc[t] \in {"indicate", "released", "cleanup"} <=> monitor = t
    /\ pc[t] \in {"released", "cleanup"} => ref[t] = mapped
    /\ pc[t] \in {"idle", "escaped"} => ref[t] = None
    /\ pc[t] \notin {"idle", "escaped", "release"} => ref[t] # None
    /\ \A s \in Sem : lock[s] = t <=> pc[t] \in {"requesting", "finishing"} /\ ref[t] = s

(* The range of each variable, and the two monitors. *)
TypeOK == Ranges /\ Monitors

(* The calls that kept to the rules: no change of requestingThreads was     *)
(* overwritten, and nobody released a mutex that it did not own.            *)
Orderly == ~lostUpdate /\ ~foreign

OneHolder == \A t, u \in Thread : pc[t] = "holding" /\ pc[u] = "holding" => t = u

(* What the package is for: one installer at a time, although the map entry *)
(* is removed and made anew between uses and acquirers wait outside the     *)
(* monitor on a semaphore that they looked up before.                       *)
MutualExclusion == Orderly => OneHolder

(* The holder's entry stays: hasMutex is true to it, and releaseMutex finds *)
(* the semaphore that it acquired and does not throw.                       *)
HolderIsRegistered ==
  Orderly => \A t \in Thread : pc[t] = "holding" => HasMutex(t) /\ mapped = ref[t]

(* A thread parked in acquire gets its permit in the end, whoever else      *)
(* acquires: the semaphore is fair.  It may starve only if tryAcquire,      *)
(* which is not, keeps being called, or if an update was lost.              *)
WaiterIsServed ==
  <>[](\A u \in Trier : pc[u] = "idle") =>
    \A t \in Thread : pc[t] = "waiting" ~> (pc[t] # "waiting" \/ lostUpdate)

================================================================================
