------------------------------- MODULE BasicPool -------------------------------
(***************************************************************************)
(* brooklyn.util.pool.BasicPool: threads that lease an object and give it  *)
(* back, and the closing of the pool, which SshMachineLocation uses for    *)
(* its ssh connections.  What the code does in the monitor of pool is one  *)
(* step; supplier, viabilityChecker and the closer of an object that is no *)
(* longer viable are called outside of it, and each is a step of its own.  *)
(* The counts are read by nothing but log messages and are left out.       *)
(***************************************************************************)
EXTENDS Integers, Sequences, SequencesExt

CONSTANTS
  Thread,     \* clients of the pool
  Object,     \* what the supplier makes; as many as it can make
  MaxLeases,  \* bound on the calls of leaseObject
  MaxThrows,  \* bound on the closers that throw
  None

ASSUME NoneAssumption == None \notin Object
ASSUME BoundAssumption == MaxLeases \in Nat /\ MaxThrows \in Nat

VARIABLES
  pool,       \* the deque
  closed,     \* the AtomicBoolean, only used in the monitor of pool
  made,       \* objects that the supplier returned
  disposed,   \* how often the closer was applied: 0, 1, or 2 for more often
  pc,         \* of a thread: see Pc
  hand,       \* the object it has polled, or leases
  past,       \* the object of the lease that it closed last
  calls,      \* of leaseObject
  throws,     \* of the closer
  twice,      \* history: objects of which a lease was closed twice
  cutShort    \* history: a closer threw inside closePool

deque == <<pool, closed>>
client == <<pc, hand, past>>
history == <<twice, cutShort>>
vars == <<deque, made, disposed, client, calls, throws, history>>

(* Outside; at the top of the loop in leaseObject; before the viability     *)
(* check; in supplier.get(); holding a lease.                               *)
Pc == {"idle", "polling", "checking", "supplying", "leased"}

Init ==
  /\ pool = <<>> /\ closed = FALSE
  /\ made = {} /\ disposed = [o \in Object |-> 0]
  /\ pc = [t \in Thread |-> "idle"]
  /\ hand = [t \in Thread |-> None] /\ past = [t \in Thread |-> None]
  /\ calls = 0 /\ throws = 0
  /\ twice = {} /\ cutShort = FALSE

Goes(t, at, o) == pc' = [pc EXCEPT ![t] = at] /\ hand' = [hand EXCEPT ![t] = o]

(* The closer is applied to the objects of S; it may throw when it is done. *)
Dispose(S) ==
  disposed' = [o \in Object |-> IF o \notin S THEN disposed[o]
                                ELSE IF disposed[o] = 0 THEN 1 ELSE 2]
CloserReturns == UNCHANGED throws
CloserThrows == throws < MaxThrows /\ throws' = throws + 1

--------------------------------------------------------------------------------
(* leaseObject *)

LeaseObject(t) ==
  /\ pc[t] = "idle" /\ calls < MaxLeases
  /\ calls' = calls + 1
  /\ Goes(t, "polling", None)
  /\ past' = [past EXCEPT ![t] = None]
  /\ UNCHANGED <<deque, made, disposed, throws, history>>

(* "Pool closed" is thrown *)
PollRefused(t) ==
  /\ pc[t] = "polling" /\ closed
  /\ Goes(t, "idle", None)
  /\ UNCHANGED <<deque, made, disposed, past, calls, throws, history>>

(* Mutated form: the object is read and left in the deque. *)
PollPeeks(t) ==
  /\ pc[t] = "polling" /\ ~closed /\ pool # <<>>
  /\ Goes(t, "checking", Last(pool))
  /\ UNCHANGED <<deque, made, disposed, past, calls, throws, history>>

Poll(t) ==
  /\ pc[t] = "polling" /\ ~closed /\ pool # <<>>
  /\ Goes(t, "checking", Last(pool))
  /\ pool' = Front(pool)
  /\ UNCHANGED <<closed, made, disposed, past, calls, throws, history>>

PollEmpty(t) ==
  /\ pc[t] = "polling" /\ ~closed /\ pool = <<>>
  /\ Goes(t, "supplying", None)
  /\ UNCHANGED <<deque, made, disposed, past, calls, throws, history>>

Viable(t) ==
  /\ pc[t] = "checking"
  /\ Goes(t, "leased", hand[t])
  /\ UNCHANGED <<deque, made, disposed, past, calls, throws, history>>

(* Mutated form: the object is closed, and leased all the same. *)
NotViableLeased(t) ==
  /\ pc[t] = "checking"
  /\ Dispose({hand[t]}) /\ CloserReturns
  /\ Goes(t, "leased", hand[t])
  /\ UNCHANGED <<deque, made, past, calls, history>>

(* No longer viable: the closer is applied, and the loop goes on, or *)
(* leaseObject throws what the closer threw.                         *)
NotViable(t) ==
  /\ pc[t] = "checking"
  /\ Dispose({hand[t]})
  /\ \/ CloserReturns /\ Goes(t, "polling", None)
     \/ CloserThrows /\ Goes(t, "idle", None)
  /\ UNCHANGED <<deque, made, past, calls, history>>

Supply(t) ==
  /\ pc[t] = "supplying"
  /\ \E o \in Object \ made : made' = made \cup {o} /\ Goes(t, "leased", o)
  /\ UNCHANGED <<deque, disposed, past, calls, throws, history>>

SupplyThrows(t) ==
  /\ pc[t] = "supplying"
  /\ Goes(t, "idle", None)
  /\ UNCHANGED <<deque, made, disposed, past, calls, throws, history>>

--------------------------------------------------------------------------------
(* returnLeasee *)

(* Mutated form: whether the pool is closed is asked before the monitor is  *)
(* entered, and closePool came in between.                                  *)
ReturnLeaseeUnchecked(o) ==
  \/ /\ closed
     /\ Dispose({o}) /\ (CloserReturns \/ CloserThrows)
     /\ UNCHANGED deque
  \/ /\ pool' = Append(pool, o)
     /\ UNCHANGED <<closed, disposed, throws>>

ReturnLeasee(o) ==
  \/ /\ closed
     /\ Dispose({o}) /\ (CloserReturns \/ CloserThrows)
     /\ UNCHANGED deque
  \/ /\ ~closed
     /\ pool' = Append(pool, o)
     /\ UNCHANGED <<closed, disposed, throws>>

(* Lease.close, which exec calls in its finally block *)
CloseLease(t) ==
  /\ pc[t] = "leased"
  /\ ReturnLeasee(hand[t])
  /\ Goes(t, "idle", None)
  /\ past' = [past EXCEPT ![t] = hand[t]]
  /\ UNCHANGED <<made, calls, history>>

(* Nothing in a lease says that it was closed. *)
CloseLeaseAgain(t) ==
  /\ pc[t] = "idle" /\ past[t] # None
  /\ ReturnLeasee(past[t])
  /\ past' = [past EXCEPT ![t] = None]
  /\ twice' = twice \cup {past[t]}
  /\ UNCHANGED <<made, pc, hand, calls, cutShort>>

--------------------------------------------------------------------------------
(* closePool, in the monitor: closes the objects from the first to the last *)

ClosePool ==
  /\ closed' = TRUE
  /\ Dispose(ToSet(pool)) /\ CloserReturns
  /\ pool' = <<>>
  /\ UNCHANGED <<made, client, calls, history>>

(* The closer throws at the i-th object: the rest stays as it is, and the *)
(* deque is not cleared.                                                  *)
ClosePoolThrows(i) ==
  /\ closed' = TRUE
  /\ Dispose({pool[k] : k \in 1..i}) /\ CloserThrows
  /\ cutShort' = TRUE
  /\ UNCHANGED <<pool, made, client, calls, twice>>

--------------------------------------------------------------------------------
Continue(t) == \/ PollRefused(t) \/ Poll(t) \/ PollEmpty(t)
               \/ Viable(t) \/ NotViable(t)
               \/ Supply(t) \/ SupplyThrows(t)
               \/ CloseLease(t)

Next == \/ \E t \in Thread : LeaseObject(t) \/ Continue(t) \/ CloseLeaseAgain(t)
        \/ ClosePool
        \/ \E i \in DOMAIN pool : ClosePoolThrows(i)

Spec == Init /\ [][Next]_vars

(* A thread inside leaseObject goes on, and whoever has a lease closes it, as *)
(* the finally block of exec does.  Nobody is obliged to close the pool.      *)
FairSpec == Spec /\ \A t \in Thread : WF_vars(Continue(t))

--------------------------------------------------------------------------------
(* Properties *)

(* Ranges; a thread has an object in hand exactly when it checks or leases it. *)
TypeOK ==
  /\ pool \in Seq(made) /\ closed \in BOOLEAN
  /\ made \subseteq Object /\ twice \subseteq made
  /\ disposed \in [Object -> 0..2]
  /\ pc \in [Thread -> Pc]
  /\ hand \in [Thread -> made \cup {None}] /\ past \in [Thread -> made \cup {None}]
  /\ \A t \in Thread : hand[t] # None <=> pc[t] \in {"checking", "leased"}
  /\ calls \in 0..MaxLeases /\ throws \in 0..MaxThrows
  /\ cutShort \in BOOLEAN /\ (cutShort => closed)

Pooled(o) == \E i \in DOMAIN pool : pool[i] = o
InHand(o) == \E t \in Thread : hand[t] = o

(* In the deque, in hand, or closed; not two of these; once in the deque;   *)
(* in the hands of one thread; closed once.                                 *)
OnlyPlace(o) ==
  /\ Pooled(o) \/ InHand(o) \/ disposed[o] > 0
  /\ ~(Pooled(o) /\ InHand(o)) /\ ~(InHand(o) /\ disposed[o] > 0)
  /\ \A i, j \in DOMAIN pool : pool[i] = o /\ pool[j] = o => i = j
  /\ \A t, u \in Thread : hand[t] = o /\ hand[u] = o => t = u
  /\ ~cutShort => ~(Pooled(o) /\ disposed[o] > 0) /\ disposed[o] < 2

(* An object whose leases are closed once each is in one place: leased by   *)
(* one client, or kept for the next, or closed for good (98, 139, 153).     *)
(* Only a closePool whose closer throws leaves what it closed in the deque. *)
OnePlace == \A o \in made \ twice : OnlyPlace(o)

(* Once the pool is closed every object is closed in the end, also one that *)
(* was being supplied or was leased then, unless closePool was cut short.   *)
EverythingCloses ==
  closed ~> \/ \A o \in made \ twice : disposed[o] > 0
            \/ cutShort

(* The pool implements the lifecycle of its objects.  An object that a      *)
(* thread checks for viability is used already, by the pool.                *)
StatusOf(o) ==
  CASE o \in twice -> "void"
    [] o \notin made -> "absent"
    [] o \in made \ twice /\ InHand(o) -> "used"
    [] o \in made \ twice /\ ~InHand(o) /\ disposed[o] > 0 -> "closed"
    [] OTHER -> "idle"

Abstract == INSTANCE ObjectLifecycle WITH
  status <- [o \in Object |-> StatusOf(o)], shut <- closed, failed <- throws > 0

ImplementsLifecycle == Abstract!Spec

================================================================================
