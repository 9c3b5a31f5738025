----------------------------- MODULE Subscriptions -----------------------------
(***************************************************************************)
(* The events of one entity on their way to its subscribers, while the     *)
(* entity comes under management: setAttribute and emit, the subscription  *)
(* context that the publishing thread finds, the QueueingSubscriptionManager*)
(* of an entity that is not yet managed, and the LocalSubscriptionManager, *)
(* which makes a task of each delivery.                                    *)
(*                                                                         *)
(* The tasks of a subscriber carry its tag, so that one                    *)
(* SingleThreadedScheduler calls the listener for one event after the other*)
(* in the order of their submission, which its module shows; here they are *)
(* a sequence.  Each subscription has a subscriber of its own, and all are *)
(* to the attribute that is set.                                           *)
(***************************************************************************)
EXTENDS Integers, Sequences, SequencesExt

CONSTANTS
  Publisher,     \* threads that set an attribute of the entity
  Subscription,
  Own,           \* the subscriptions that the entity itself makes
  MaxEvents,     \* bound on the number of events
  Manager,       \* the thread that manages the entity
  None

ASSUME ThreadAssumption == Manager \notin Publisher /\ None \notin Publisher \cup {Manager}
ASSUME OwnAssumption == Own \subseteq Subscription
ASSUME MaxAssumption == MaxEvents \in Nat

Thread == Publisher \cup {Manager}
Event == Publisher \X (1..MaxEvents)

VARIABLES
  mode,      \* of the entity: see Mode
  value,     \* the attribute: the event of its last change
  emitted,   \* how many events there were
  sub,       \* "none", "queued", "active" or "gone"
  queue,     \* queuedSensorEvents
  lock,      \* who is in the monitor of the QueueingSubscriptionManager
  pc, event, \* of a thread: where it is, and what it publishes
  targets,   \* subscriptions it has yet to submit the event to
  inbox,     \* the events that were submitted to the subscriber, in order
  overtakers, \* history: events published past a queue that was not empty
  raced      \* history: two publishers were at work at the same time

entity == <<mode, value, emitted>>
threads == <<pc, event, targets>>
history == <<overtakers, raced>>
vars == <<entity, sub, queue, lock, threads, inbox, history>>

(* Before management; between its two steps; while the queue is emptied in *)
(* the second; managed; unmanaged.                                         *)
Mode == {"new", "starting", "draining", "started", "stopped"}

Pc == {"idle", "updated", "queueing", "collecting", "submitting"}

Init ==
  /\ mode = "new" /\ value = None
  /\ emitted = 0
  /\ sub = [s \in Subscription |-> "none"]
  /\ queue = <<>> /\ lock = None
  /\ pc = [t \in Thread |-> "idle"] /\ event = [t \in Thread |-> None]
  /\ targets = [t \in Thread |-> {}]
  /\ inbox = [s \in Subscription |-> <<>>]
  /\ overtakers = {} /\ raced = FALSE

Goto(t, at) == pc' = [pc EXCEPT ![t] = at]

--------------------------------------------------------------------------------
(* setAttribute: the value is stored, then the event is published through   *)
(* the context that the entity has at that moment.                          *)

Update(p) ==
  /\ pc[p] = "idle" /\ emitted < MaxEvents
  /\ emitted' = emitted + 1
  /\ event' = [event EXCEPT ![p] = <<p, emitted'>>]
  /\ value' = event'[p]
  /\ Goto(p, "updated")
  /\ raced' = (raced \/ \E q \in Publisher \ {p} : pc[q] # "idle")
  /\ UNCHANGED <<mode, sub, queue, lock, targets, inbox, overtakers>>

(* Mutated form: getSubscriptionContext is not synchronized. *)
GetContextUnlocked(p) ==
  /\ pc[p] = "updated"
  /\ Goto(p, CASE mode = "new" -> "queueing"
               [] mode \in {"starting", "draining", "started"} -> "collecting"
               [] mode = "stopped" -> "idle")
  /\ overtakers' = IF mode = "starting" /\ queue # <<>> THEN overtakers \cup {event[p]}
                                                        ELSE overtakers
  /\ UNCHANGED <<entity, sub, queue, lock, event, targets, inbox, raced>>

(* getSubscriptionContext, synchronized as the two management steps are. *)
(* What is published after unmanagement stays in a queue of its own.     *)
GetContext(p) ==
  /\ pc[p] = "updated" /\ mode # "draining"
  /\ Goto(p, CASE mode = "new" -> "queueing"
               [] mode \in {"starting", "started"} -> "collecting"
               [] mode = "stopped" -> "idle")
  /\ overtakers' = IF mode = "starting" /\ queue # <<>> THEN overtakers \cup {event[p]}
                                                        ELSE overtakers
  /\ UNCHANGED <<entity, sub, queue, lock, event, targets, inbox, raced>>

--------------------------------------------------------------------------------
(* QueueingSubscriptionManager.publish, synchronized *)

Delegating == mode \in {"started", "stopped"}

(* Mutated form: publish is not synchronized, and what it read of the *)
(* delegation is outdated when the event is added.                    *)
EnqueueUnlocked(p) ==
  /\ pc[p] = "queueing"
  /\ queue' = Append(queue, event[p])
  /\ Goto(p, "idle")
  /\ UNCHANGED <<entity, sub, lock, event, targets, inbox, history>>

Enqueue(p) ==
  /\ pc[p] = "queueing" /\ lock = None /\ ~Delegating
  /\ queue' = Append(queue, event[p])
  /\ Goto(p, "idle")
  /\ UNCHANGED <<entity, sub, lock, event, targets, inbox, history>>

Delegate(p) ==
  /\ pc[p] = "queueing" /\ lock = None /\ Delegating
  /\ lock' = p
  /\ Goto(p, "collecting")
  /\ UNCHANGED <<entity, sub, queue, event, targets, inbox, history>>

--------------------------------------------------------------------------------
(* LocalSubscriptionManager.publish: the subscriptions are looked up inside *)
(* its monitor, the deliveries submitted outside of it.                     *)

Collect(t) ==
  /\ pc[t] = "collecting"
  /\ targets' = [targets EXCEPT ![t] = {s \in Subscription : sub[s] = "active"}]
  /\ Goto(t, "submitting")
  /\ UNCHANGED <<entity, sub, queue, lock, event, inbox, history>>

Submit(t, s) ==
  /\ pc[t] = "submitting" /\ s \in targets[t]
  /\ inbox' = [inbox EXCEPT ![s] = Append(@, event[t])]
  /\ targets' = [targets EXCEPT ![t] = @ \ {s}]
  /\ UNCHANGED <<entity, sub, queue, lock, pc, event, history>>

Published(t) ==
  /\ pc[t] = "submitting" /\ targets[t] = {}
  /\ Goto(t, "idle")
  /\ lock' = IF lock = t /\ t # Manager THEN None ELSE lock
  /\ UNCHANGED <<entity, sub, queue, event, targets, inbox, history>>

--------------------------------------------------------------------------------
(* Of the entity itself, before it is managed. *)
SubscribeQueued(s) ==
  /\ s \in Own /\ mode = "new" /\ lock = None /\ sub[s] = "none"
  /\ sub' = [sub EXCEPT ![s] = "queued"]
  /\ UNCHANGED <<entity, queue, lock, threads, inbox, history>>

Subscribe(s) ==
  /\ s \in Own => mode # "new"
  /\ sub[s] = "none"
  /\ sub' = [sub EXCEPT ![s] = "active"]
  /\ UNCHANGED <<entity, queue, lock, threads, inbox, history>>

UnsubscribeQueued(s) ==
  /\ sub[s] = "queued" /\ lock = None
  /\ sub' = [sub EXCEPT ![s] = "gone"]
  /\ UNCHANGED <<entity, queue, lock, threads, inbox, history>>

(* What was submitted, or is being submitted, still arrives. *)
Unsubscribe(s) ==
  /\ sub[s] = "active"
  /\ sub' = [sub EXCEPT ![s] = "gone"]
  /\ UNCHANGED <<entity, queue, lock, threads, inbox, history>>

--------------------------------------------------------------------------------
(* The management of the entity *)

StartDelegatingForSubscribing ==
  /\ lock = None
  /\ sub' = [s \in Subscription |-> IF sub[s] = "queued" THEN "active" ELSE sub[s]]

(* From now on the entity has the context of its manager. *)
OnManagementStarting ==
  /\ mode = "new" /\ mode' = "starting"
  /\ StartDelegatingForSubscribing
  /\ UNCHANGED <<value, emitted, queue, lock, threads, inbox, history>>

(* onManagementStarted: startDelegatingForPublishing *)
OnManagementStarted ==
  /\ mode = "starting" /\ lock = None
  /\ mode' = "draining" /\ lock' = Manager
  /\ UNCHANGED <<value, emitted, sub, queue, threads, inbox, history>>

(* Mutated form: the last event is published first. *)
DrainLast ==
  /\ mode = "draining" /\ pc[Manager] = "idle" /\ queue # <<>>
  /\ event' = [event EXCEPT ![Manager] = Last(queue)]
  /\ queue' = Front(queue)
  /\ Goto(Manager, "collecting")
  /\ UNCHANGED <<entity, sub, lock, targets, inbox, history>>

Drain ==
  /\ mode = "draining" /\ pc[Manager] = "idle" /\ queue # <<>>
  /\ event' = [event EXCEPT ![Manager] = Head(queue)]
  /\ queue' = Tail(queue)
  /\ Goto(Manager, "collecting")
  /\ UNCHANGED <<entity, sub, lock, targets, inbox, history>>

Drained ==
  /\ mode = "draining" /\ pc[Manager] = "idle" /\ queue = <<>>
  /\ mode' = "started" /\ lock' = None
  /\ UNCHANGED <<value, emitted, sub, queue, threads, inbox, history>>

OnManagementStopped ==
  /\ mode = "started"
  /\ mode' = "stopped"
  /\ UNCHANGED <<value, emitted, sub, queue, lock, threads, inbox, history>>

--------------------------------------------------------------------------------
Publish(t) == Collect(t) \/ (\E s \in Subscription : Submit(t, s)) \/ Published(t)
Continue(p) == GetContext(p) \/ Enqueue(p) \/ Delegate(p) \/ Publish(p)
Manage == OnManagementStarted \/ Drain \/ Drained \/ Publish(Manager)

Next ==
  \/ \E p \in Publisher : Update(p) \/ Continue(p)
  \/ \E s \in Subscription :
       SubscribeQueued(s) \/ Subscribe(s) \/ UnsubscribeQueued(s) \/ Unsubscribe(s)
  \/ OnManagementStarting \/ Manage \/ OnManagementStopped

Spec == Init /\ [][Next]_vars

(* Threads go on, and onManagementStarted follows onManagementStarting.  A  *)
(* thread that waits for the monitor gets it: those that can come before it *)
(* are the few that found the queue before management.                      *)
Fairness ==
  /\ \A p \in Publisher : WF_vars(Continue(p))
  /\ WF_vars(Manage)

FairSpec == Spec /\ Fairness

--------------------------------------------------------------------------------
(* Properties *)

(* Ranges; the queue is empty once events are delegated; the monitor is the *)
(* manager's while it empties the queue, else of a publisher it delegates.  *)
TypeOK ==
  /\ mode \in Mode /\ value \in Event \cup {None}
  /\ emitted \in 0..MaxEvents
  /\ sub \in [Subscription -> {"none", "queued", "active", "gone"}]
  /\ queue \in Seq(Event) /\ (Delegating => queue = <<>>)
  /\ lock \in Thread \cup {None} /\ (lock = Manager <=> mode = "draining")
  /\ lock \in Publisher => Delegating /\ pc[lock] \in {"collecting", "submitting"}
  /\ pc \in [Thread -> Pc] /\ event \in [Thread -> Event \cup {None}]
  /\ targets \in [Thread -> SUBSET Subscription]
  /\ inbox \in [Subscription -> Seq(Event)]
  /\ overtakers \subseteq Event /\ raced \in BOOLEAN

(* A listener gets the events of a thread in the order of their emission,   *)
(* and none twice, except for those that were published past the queue.     *)
InOrder ==
  \A s \in Subscription : \A i, j \in DOMAIN inbox[s] :
    LET d == inbox[s][i]  e == inbox[s][j] IN
    i < j /\ d[1] = e[1] => d # e /\ (d[2] < e[2] \/ d \in overtakers)

(* When everything was published, whoever follows the events                *)
(* of the attribute knows its value, unless two threads set it at a time or *)
(* an event was published past the queue.                                   *)
CaughtUp ==
  (/\ mode = "started" /\ ~raced /\ overtakers = {}
   /\ \A t \in Thread : pc[t] = "idle")
  => \A s \in Subscription :
       sub[s] = "active" /\ inbox[s] # <<>> => Last(inbox[s]) = value

Pending(e) == \/ e \in ToSet(queue)
              \/ \E t \in Thread : pc[t] \in {"queueing", "collecting"} /\ event[t] = e

(* Once management has begun, an event that was published, before or after, *)
(* reaches every subscription that is there and stays.                      *)
EveryEventArrives ==
  \A e \in Event, s \in Subscription :
    Pending(e) /\ mode # "new" /\ sub[s] = "active"
      ~> e \in ToSet(inbox[s]) \/ sub[s] = "gone"

================================================================================
