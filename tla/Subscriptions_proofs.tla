-------------------------- MODULE Subscriptions_proofs --------------------------
(***************************************************************************)
(* Type correctness, InOrder and CaughtUp of Subscriptions, for any number *)
(* of publishers, subscriptions and events.                                *)
(*                                                                         *)
(* An event goes from the hand of its publisher, perhaps through the queue *)
(* and the hand of the manager, to the inboxes.  The strengthening says    *)
(* that the events of one publisher are on this way in the order of their  *)
(* numbers, apart from those known to have gone past the queue (Order),    *)
(* and that while publishers work one at a time and none goes past, the    *)
(* last event on the way is the value of the attribute (Fresh).            *)
(*                                                                         *)
(* At the end, the safety part of EveryEventArrives.                       *)
(***************************************************************************)
EXTENDS Subscriptions, TLAPS

Busy(t) == pc[t] # "idle"
Calm == ~raced /\ overtakers = {}
SamePublisher(d, e) == d[1] = e[1]
Precedes(d, e) == SamePublisher(d, e) => d[2] < e[2] \/ (d # e /\ d \in overtakers)

Got(s) == ToSet(inbox[s])
Waiting == ToSet(queue)
Drawn == IF Busy(Manager) THEN {event[Manager]} ELSE {}

(* t has yet to bring its event to s. *)
Owes(t, s) == \/ pc[t] \in {"updated", "queueing", "collecting"}
              \/ pc[t] = "submitting" /\ s \in targets[t]

Control ==
  /\ pc[Manager] \in {"idle", "collecting", "submitting"}
  /\ Busy(Manager) => mode = "draining"
  /\ \A t \in Thread : Busy(t) => event[t] \in Event /\ event[t][2] <= emitted
  /\ \A p \in Publisher : Busy(p) => event[p][1] = p

Numbered ==
  /\ \A e \in Waiting : e[2] <= emitted
  /\ \A s \in Subscription : \A e \in Got(s) : e[2] <= emitted

(* What a publisher has in hand is its newest event. *)
Newest ==
  \A p \in Publisher : Busy(p) =>
    /\ \A d \in Waiting \cup Drawn : SamePublisher(d, event[p]) => d[2] < event[p][2]
    /\ \A s \in Subscription : \A d \in Got(s) :
         SamePublisher(d, event[p]) => d[2] < event[p][2] \/ (d = event[p] /\ ~Owes(p, s))

(* Who delivers by itself has nothing in the queue, or its event is known *)
(* to go past it.                                                         *)
NothingPassed ==
  \A p \in Publisher : pc[p] \in {"collecting", "submitting"} =>
    event[p] \in overtakers \/ \A d \in Waiting \cup Drawn : ~SamePublisher(d, event[p])

QueueInOrder ==
  /\ \A i, j \in DOMAIN queue :
       i < j /\ SamePublisher(queue[i], queue[j]) => queue[i][2] < queue[j][2]
  /\ \A d \in Drawn, e \in Waiting : SamePublisher(d, e) => d[2] < e[2]

(* What was delivered comes before what is in the queue. *)
Earlier ==
  \A s \in Subscription : \A d \in Got(s) :
    /\ \A e \in Waiting : Precedes(d, e)
    /\ Owes(Manager, s) => Precedes(d, event[Manager])

InboxInOrder ==
  \A s \in Subscription : \A i, j \in DOMAIN inbox[s] :
    i < j => Precedes(inbox[s][i], inbox[s][j])

Order == Numbered /\ Newest /\ NothingPassed /\ QueueInOrder /\ Earlier /\ InboxInOrder

(* The value is the newest event, and the one publisher at work has it. *)
Current ==
  /\ emitted > 0 => value \in Event /\ value[2] = emitted
  /\ ~raced => \A p \in Publisher : Busy(p) =>
       event[p] = value /\ \A q \in Publisher : Busy(q) => q = p

(* A subscription that was not yet active got nothing. *)
Unreached ==
  \A s \in Subscription : sub[s] \in {"none", "queued"} =>
    inbox[s] = <<>> /\ \A t \in Thread : pc[t] = "submitting" => s \notin targets[t]

(* Who has got an event has the last one, or it is on its way. *)
OnItsWay(s) == \/ \E t \in Thread : event[t] = value /\ Owes(t, s)
               \/ queue # <<>> /\ Last(queue) = value

(* While the manager works off the queue, the value is at its end, in the *)
(* manager's hand or in that of a publisher.                              *)
ValueToCome ==
  \/ queue # <<>> /\ Last(queue) = value
  \/ queue = <<>> /\ event[Manager] = value
  \/ \E p \in Publisher : pc[p] \in {"updated", "queueing"} /\ event[p] = value
ValueFollows == Calm /\ (queue # <<>> \/ Busy(Manager)) => ValueToCome

Fresh ==
  Calm /\ mode # "stopped" =>
    \A s \in Subscription : sub[s] = "active" /\ inbox[s] # <<>> =>
      Last(inbox[s]) = value \/ OnItsWay(s)

IInv == TypeOK /\ Control /\ Current /\ Order /\ Unreached /\ ValueFollows /\ Fresh

--------------------------------------------------------------------------------
(* Sequences *)

LEMMA AppendFacts ==
  ASSUME NEW S, NEW q \in Seq(S), NEW e \in S
  PROVE  /\ Append(q, e) \in Seq(S) /\ Append(q, e) # <<>>
         /\ Last(Append(q, e)) = e
         /\ ToSet(Append(q, e)) = ToSet(q) \cup {e}
         /\ DOMAIN Append(q, e) = DOMAIN q \cup {Len(q) + 1}
         /\ Append(q, e)[Len(q) + 1] = e
         /\ \A i \in DOMAIN q : i < Len(q) + 1 /\ Append(q, e)[i] = q[i]
<1>1. /\ Append(q, e) \in Seq(S) /\ Append(q, e) # <<>>
      /\ Len(Append(q, e)) = Len(q) + 1 /\ Len(q) \in Nat
      /\ DOMAIN q = 1..Len(q) /\ DOMAIN Append(q, e) = 1..(Len(q) + 1)
      /\ Append(q, e)[Len(q) + 1] = e
      /\ \A i \in 1..Len(q) : Append(q, e)[i] = q[i]
  OBVIOUS
<1>2. 1..(Len(q) + 1) = 1..Len(q) \cup {Len(q) + 1} /\ \A i \in 1..Len(q) : i < Len(q) + 1
  BY <1>1
<1>3. ToSet(Append(q, e)) = ToSet(q) \cup {e}
  BY <1>1, <1>2 DEF ToSet
<1> QED
  BY <1>1, <1>2, <1>3 DEF Last

LEMMA TailFacts ==
  ASSUME NEW S, NEW q \in Seq(S), q # <<>>
  PROVE  /\ Head(q) \in ToSet(q) /\ Head(q) \in S /\ Tail(q) \in Seq(S)
         /\ Head(q) = q[1] /\ 1 \in DOMAIN q
         /\ \A i \in DOMAIN Tail(q) : 1 < i + 1 /\ i + 1 \in DOMAIN q /\ Tail(q)[i] = q[i + 1]
         /\ ToSet(Tail(q)) \subseteq ToSet(q)
         /\ Last(q) = IF Tail(q) = <<>> THEN Head(q) ELSE Last(Tail(q))
<1>1. /\ Len(q) \in Nat /\ Len(q) > 0 /\ DOMAIN q = 1..Len(q)
      /\ Head(q) = q[1] /\ Tail(q) \in Seq(S)
      /\ Len(Tail(q)) = Len(q) - 1 /\ DOMAIN Tail(q) = 1..(Len(q) - 1)
      /\ \A i \in 1..(Len(q) - 1) : Tail(q)[i] = q[i + 1]
  OBVIOUS
<1>2. 1 \in 1..Len(q) /\ \A i \in 1..(Len(q) - 1) : 1 < i + 1 /\ i + 1 \in 1..Len(q)
  BY <1>1
<1>3. q[1] \in S /\ q[1] \in ToSet(q)
  BY <1>1, <1>2 DEF ToSet
<1>4. ToSet(Tail(q)) \subseteq ToSet(q)
  BY <1>1, <1>2 DEF ToSet
<1>5. CASE Len(q) = 1
  <2>1. Tail(q) = <<>>
    BY <1>1, <1>5
  <2> QED
    BY <1>1, <1>2, <1>3, <1>4, <1>5, <2>1 DEF Last
<1>6. CASE Len(q) > 1
  <2>1. Len(q) - 1 \in 1..(Len(q) - 1) /\ (Len(q) - 1) + 1 = Len(q) /\ Len(Tail(q)) # 0
    BY <1>1, <1>6
  <2>2. \A r : r = <<>> => Len(r) = 0
    OBVIOUS
  <2>3. Tail(q) # <<>>
    BY <2>1, <2>2
  <2>4. Last(Tail(q)) = Last(q)
    BY <1>1, <2>1 DEF Last
  <2> QED
    BY <1>1, <1>2, <1>3, <1>4, <2>3, <2>4
<1> QED
  BY <1>1, <1>5, <1>6

LEMMA ElementFacts ==
  ASSUME NEW S, NEW q \in Seq(S)
  PROVE  /\ ToSet(q) \subseteq S /\ \A i \in DOMAIN q : q[i] \in ToSet(q)
         /\ q # <<>> => Last(q) \in ToSet(q)
<1>1. DOMAIN q = 1..Len(q) /\ Len(q) \in Nat /\ \A i \in 1..Len(q) : q[i] \in S
  OBVIOUS
<1>2. q # <<>> => Len(q) \in 1..Len(q)
  BY <1>1
<1> QED
  BY <1>1, <1>2 DEF ToSet, Last

--------------------------------------------------------------------------------
LEMMA InitIInv == Init => IInv
<1> SUFFICES ASSUME Init PROVE IInv
  OBVIOUS
<1>0. /\ queue = <<>> /\ \A s \in Subscription : inbox[s] = <<>>
      /\ DOMAIN queue = {} /\ \A s \in Subscription : DOMAIN inbox[s] = {}
      /\ \A t \in Thread : ~Busy(t) /\ pc[t] = "idle"
      /\ Manager \in Thread
  BY DEF Init, Busy, Thread
<1>1. Waiting = {} /\ Drawn = {} /\ \A s \in Subscription : Got(s) = {}
  BY <1>0 DEF Waiting, Got, Drawn, ToSet
<1>2. TypeOK
  <2>1. queue \in Seq(Event) /\ inbox \in [Subscription -> Seq(Event)]
    BY DEF Init
  <2>2. emitted \in 0..MaxEvents /\ lock # Manager /\ lock \notin Publisher
    BY ThreadAssumption, MaxAssumption DEF Init
  <2> QED
    BY <2>1, <2>2 DEF Init, TypeOK, Mode, Pc
<1>3. Control
  BY <1>0 DEF Control, Thread
<1>4. Current
  BY <1>0 DEF Init, Current, Thread
<1>5. Numbered /\ Newest /\ NothingPassed
  BY <1>0, <1>1 DEF Numbered, Newest, NothingPassed, Thread
<1>6. QueueInOrder /\ Earlier /\ InboxInOrder
  BY <1>0, <1>1 DEF QueueInOrder, Earlier, InboxInOrder
<1>7. Unreached /\ ValueFollows /\ Fresh
  BY <1>0 DEF Init, Unreached, ValueFollows, Fresh, Thread
<1> QED
  BY <1>2, <1>3, <1>4, <1>5, <1>6, <1>7 DEF IInv, Order

--------------------------------------------------------------------------------
(* What changes nothing that the order of the events depends on *)
Apart == UNCHANGED <<value, emitted, queue, threads, inbox, history>>

(* The steps of a thread with an event, and the steps of the rest *)
LEMMA Steps ==
  ASSUME TypeOK, [Next]_vars
  PROVE  \/ \E p \in Publisher : Update(p) \/ GetContext(p) \/ Enqueue(p) \/ Delegate(p)
         \/ \E t \in Thread : Collect(t) \/ (\E s \in Subscription : Submit(t, s)) \/ Published(t)
         \/ Drain
         \/ Apart
<1>1. Publisher \subseteq Thread /\ Manager \in Thread
  BY DEF Thread
<1>2. ASSUME NEW s \in Subscription,
             SubscribeQueued(s) \/ Subscribe(s) \/ UnsubscribeQueued(s) \/ Unsubscribe(s)
      PROVE  Apart
  BY <1>2 DEF SubscribeQueued, Subscribe, UnsubscribeQueued, Unsubscribe, Apart, entity
<1>3. ASSUME OnManagementStarting \/ OnManagementStarted \/ Drained \/ OnManagementStopped
      PROVE  Apart
  BY <1>3 DEF OnManagementStarting, OnManagementStarted, Drained, OnManagementStopped, Apart
<1>4. ASSUME UNCHANGED vars PROVE Apart
  BY <1>4 DEF vars, Apart, entity
<1> QED
  BY <1>1, <1>2, <1>3, <1>4 DEF Next, Continue, Manage, Publish

(* The ranges, action by action *)
LEMMA NextType == TypeOK /\ Control /\ [Next]_vars => TypeOK'
<1> SUFFICES ASSUME TypeOK, Control, [Next]_vars PROVE TypeOK'
  OBVIOUS
<1> USE ThreadAssumption, MaxAssumption
<1>t. /\ Publisher \subseteq Thread /\ Manager \in Thread
      /\ emitted \in Nat /\ \A p \in Publisher : p \in Thread /\ p # Manager /\ p # None
  BY DEF Thread, TypeOK
<1>1. ASSUME NEW p \in Publisher, Update(p) PROVE TypeOK'
  <2>1. emitted' \in 1..MaxEvents /\ <<p, emitted'>> \in Event
    BY <1>1, <1>t DEF Update, Event, TypeOK
  <2>2. event'[p] = <<p, emitted'>> /\ event' \in [Thread -> Event \cup {None}]
    BY <1>1, <1>t, <2>1 DEF Update, TypeOK
  <2>3. value' \in Event /\ emitted' \in 0..MaxEvents
    BY <1>1, <2>1, <2>2 DEF Update
  <2>4. pc' \in [Thread -> Pc] /\ (lock' \in Publisher => pc'[lock'] \in {"collecting", "submitting"})
    BY <1>1, <1>t DEF Update, Goto, TypeOK, Pc
  <2> QED
    BY <1>1, <2>2, <2>3, <2>4 DEF Update, TypeOK, Delegating
<1>2. ASSUME NEW p \in Publisher, GetContext(p) PROVE TypeOK'
  <2>1. pc' \in [Thread -> Pc] /\ (lock' \in Publisher => pc'[lock'] \in {"collecting", "submitting"})
    BY <1>2, <1>t DEF GetContext, Goto, TypeOK, Pc, Mode, Delegating
  <2>2. pc[p] # "idle"
    BY <1>2 DEF GetContext
  <2>3. event[p] \in Event
    BY <2>2, <1>t DEF Control, Busy
  <2>4. overtakers' \subseteq Event
    BY <1>2, <2>3 DEF GetContext, TypeOK
  <2> QED
    BY <1>2, <2>1, <2>4 DEF GetContext, TypeOK, Delegating, entity
<1>3. ASSUME NEW p \in Publisher, Enqueue(p) PROVE TypeOK'
  <2>1. event[p] \in Event
    BY <1>3, <1>t DEF Enqueue, Control, Busy
  <2>2. queue' \in Seq(Event)
    BY <1>3, <2>1, AppendFacts DEF Enqueue, TypeOK
  <2>3. pc' \in [Thread -> Pc]
    BY <1>3, <1>t DEF Enqueue, Goto, TypeOK, Pc
  <2> QED
    BY <1>3, <2>2, <2>3 DEF Enqueue, TypeOK, Delegating, entity, history
<1>4. ASSUME NEW p \in Publisher, Delegate(p) PROVE TypeOK'
  <2>1. pc' \in [Thread -> Pc] /\ pc'[p] = "collecting"
    BY <1>4, <1>t DEF Delegate, Goto, TypeOK, Pc
  <2> QED
    BY <1>4, <1>t, <2>1 DEF Delegate, TypeOK, Delegating, entity, history
<1>5. ASSUME NEW t \in Thread, Collect(t) PROVE TypeOK'
  <2>1. pc' \in [Thread -> Pc] /\ (lock' \in Publisher => pc'[lock'] \in {"collecting", "submitting"})
    BY <1>5, <1>t DEF Collect, Goto, TypeOK, Pc
  <2>2. targets' \in [Thread -> SUBSET Subscription]
    BY <1>5 DEF Collect, TypeOK
  <2> QED
    BY <1>5, <2>1, <2>2 DEF Collect, TypeOK, Delegating, entity, history
<1>6. ASSUME NEW t \in Thread, NEW s \in Subscription, Submit(t, s) PROVE TypeOK'
  <2>1. event[t] \in Event
    BY <1>6 DEF Submit, Control, Busy
  <2>2. inbox[s] \in Seq(Event)
    BY DEF TypeOK
  <2>3. Append(inbox[s], event[t]) \in Seq(Event)
    BY <2>1, <2>2, AppendFacts
  <2>4. inbox' \in [Subscription -> Seq(Event)]
    BY <1>6, <2>3 DEF Submit, TypeOK
  <2>5. targets' \in [Thread -> SUBSET Subscription]
    BY <1>6 DEF Submit, TypeOK
  <2> QED
    BY <1>6, <2>4, <2>5 DEF Submit, TypeOK, Delegating, entity, history
<1>7. ASSUME NEW t \in Thread, Published(t) PROVE TypeOK'
  <2>1. pc' \in [Thread -> Pc] /\ \A u \in Thread : u # t => pc'[u] = pc[u]
    BY <1>7 DEF Published, Goto, TypeOK, Pc
  <2>2. lock' \in Publisher => lock' # t /\ lock' = lock
    BY <1>7, <1>t DEF Published
  <2>3. lock' \in Thread \cup {None} /\ (lock' = Manager <=> mode = "draining")
    BY <1>7, <1>t DEF Published, TypeOK
  <2> QED
    BY <1>7, <1>t, <2>1, <2>2, <2>3 DEF Published, TypeOK, Delegating, entity, history
<1>8. ASSUME NEW s \in Subscription,
             SubscribeQueued(s) \/ Subscribe(s) \/ UnsubscribeQueued(s) \/ Unsubscribe(s)
      PROVE  TypeOK'
  <2>1. sub' \in [Subscription -> {"none", "queued", "active", "gone"}]
    BY <1>8 DEF SubscribeQueued, Subscribe, UnsubscribeQueued, Unsubscribe, TypeOK
  <2>2. UNCHANGED <<entity, queue, lock, threads, inbox, history>>
    BY <1>8 DEF SubscribeQueued, Subscribe, UnsubscribeQueued, Unsubscribe
  <2> QED
    BY <2>1, <2>2 DEF TypeOK, Delegating, entity, threads, history
<1>9. CASE OnManagementStarting
  BY <1>9, <1>t DEF OnManagementStarting, StartDelegatingForSubscribing, TypeOK, Mode, Delegating,
     threads, history
<1>10. CASE OnManagementStarted
  BY <1>10, <1>t DEF OnManagementStarted, TypeOK, Mode, Delegating, threads, history
<1>11. CASE Drain
  <2>1. Head(queue) \in Event /\ Tail(queue) \in Seq(Event)
    BY <1>11, TailFacts DEF Drain, TypeOK
  <2>2. event' \in [Thread -> Event \cup {None}] /\ pc' \in [Thread -> Pc]
    BY <1>11, <1>t, <2>1 DEF Drain, Goto, TypeOK, Pc
  <2>3. lock \notin Publisher
    BY <1>11, <1>t DEF Drain, TypeOK
  <2> QED
    BY <1>11, <2>1, <2>2, <2>3 DEF Drain, TypeOK, Delegating, entity, history
<1>12. CASE Drained
  BY <1>12, <1>t DEF Drained, TypeOK, Mode, Delegating, threads, history
<1>13. CASE OnManagementStopped
  BY <1>13, <1>t DEF OnManagementStopped, TypeOK, Mode, Delegating, threads, history
<1>14. CASE UNCHANGED vars
  BY <1>14 DEF vars, TypeOK, Delegating, entity, threads, history
<1> QED
  BY <1>t, <1>1, <1>2, <1>3, <1>4, <1>5, <1>6, <1>7, <1>8, <1>9, <1>10, <1>11, <1>12, <1>13, <1>14
     DEF Next, Continue, Manage, Publish

(* Where threads are, and what they have in hand *)
LEMMA NextControl == TypeOK /\ Control /\ Numbered /\ [Next]_vars => Control'
<1> SUFFICES ASSUME TypeOK, Control, Numbered, [Next]_vars PROVE Control'
  OBVIOUS
<1> USE ThreadAssumption
<1>t. /\ Manager \in Thread /\ emitted \in Nat /\ emitted \in 0..MaxEvents
      /\ pc \in [Thread -> Pc] /\ event \in [Thread -> Event \cup {None}]
      /\ \A p \in Publisher : p \in Thread /\ p # Manager
      /\ \A e \in Event : e[2] \in Nat
  BY DEF Thread, TypeOK, Event
<1>1. ASSUME NEW p \in Publisher, Update(p) PROVE Control'
  <2>1. /\ emitted' = emitted + 1 /\ emitted' \in 1..MaxEvents
        /\ event'[p] = <<p, emitted'>> /\ pc'[p] = "updated"
        /\ \A t \in Thread : t # p => event'[t] = event[t] /\ pc'[t] = pc[t]
        /\ mode' = mode
    BY <1>1, <1>t, MaxAssumption DEF Update, Goto
  <2>2. event'[p] \in Event /\ event'[p][1] = p /\ event'[p][2] = emitted'
    BY <2>1 DEF Event
  <2>3. \A t \in Thread : Busy(t) => event[t] \in Event /\ event[t][2] \in Nat
                                     /\ event[t][2] <= emitted
    BY <1>t DEF Control
  <2> QED
    BY <1>t, <2>1, <2>2, <2>3 DEF Control, Busy
<1>2. ASSUME NEW p \in Publisher, GetContext(p) \/ Enqueue(p) \/ Delegate(p) PROVE Control'
  <2>1. /\ \A t \in Thread : t # p => pc'[t] = pc[t]
        /\ UNCHANGED <<event, mode, emitted>>
        /\ Busy(p)
    BY <1>2, <1>t DEF GetContext, Enqueue, Delegate, Goto, entity, Busy
  <2> QED
    BY <1>t, <2>1 DEF Control, Busy
<1>3. ASSUME NEW t \in Thread, Collect(t) \/ (\E s \in Subscription : Submit(t, s)) \/ Published(t)
      PROVE  Control'
  <2>1. /\ \A u \in Thread : u # t => pc'[u] = pc[u]
        /\ pc'[t] \in {"idle", "submitting"} /\ Busy(t)
        /\ UNCHANGED <<event, mode, emitted>>
    BY <1>3, <1>t DEF Collect, Submit, Published, Goto, entity, Busy
  <2> QED
    BY <1>t, <2>1 DEF Control, Busy
<1>4. CASE Drain
  <2>1. Head(queue) \in Event /\ Head(queue) \in Waiting
    BY <1>4, TailFacts DEF Drain, TypeOK, Waiting
  <2>2. /\ event'[Manager] = Head(queue) /\ pc'[Manager] = "collecting" /\ mode' = "draining"
        /\ \A t \in Thread : t # Manager => pc'[t] = pc[t] /\ event'[t] = event[t]
        /\ emitted' = emitted
    BY <1>4, <1>t DEF Drain, Goto, entity
  <2> QED
    BY <1>t, <2>1, <2>2 DEF Control, Busy, Numbered
<1>5. CASE Apart
  <2>1. mode = "draining" /\ mode' # "draining" => pc[Manager] = "idle"
    BY <1>5 DEF Next, Continue, Manage, Publish, Update, GetContext, Enqueue, Delegate, Collect,
       Submit, Published, Drain, SubscribeQueued, Subscribe, UnsubscribeQueued, Unsubscribe,
       OnManagementStarting, OnManagementStarted, Drained, OnManagementStopped, vars, entity
  <2> QED
    BY <1>5, <2>1 DEF Apart, threads, Control, Busy
<1> QED
  BY <1>1, <1>2, <1>3, <1>4, <1>5, Steps

(* The newest event, and who has it *)
LEMMA NextCurrent == TypeOK /\ Control /\ Current /\ [Next]_vars => Current'
<1> SUFFICES ASSUME TypeOK, Control, Current, [Next]_vars PROVE Current'
  OBVIOUS
<1> USE ThreadAssumption
<1>t. /\ Manager \in Thread /\ emitted \in Nat
      /\ pc \in [Thread -> Pc] /\ event \in [Thread -> Event \cup {None}]
      /\ \A p \in Publisher : p \in Thread /\ p # Manager
  BY DEF Thread, TypeOK
<1>1. ASSUME NEW p \in Publisher, Update(p) PROVE Current'
  <2>1. /\ emitted' \in 1..MaxEvents /\ event'[p] = <<p, emitted'>> /\ value' = event'[p]
        /\ \A t \in Thread : t # p => pc'[t] = pc[t]
    BY <1>1, <1>t, MaxAssumption DEF Update, Goto, TypeOK
  <2>2. value' \in Event /\ value'[2] = emitted'
    BY <2>1 DEF Event
  <2>3. ~raced' => \A q \in Publisher : q # p => ~Busy(q)'
    BY <1>1, <1>t, <2>1 DEF Update, Busy
  <2> QED
    BY <2>1, <2>2, <2>3 DEF Current
<1>2. ASSUME \A p \in Publisher : Busy(p)' => Busy(p),
             \A p \in Publisher : event'[p] = event[p],
             UNCHANGED <<value, emitted, raced>>
      PROVE  Current'
  BY <1>2 DEF Current
<1>3. ASSUME NEW p \in Publisher, GetContext(p) \/ Enqueue(p) \/ Delegate(p) PROVE Current'
  BY <1>3, <1>2, <1>t DEF GetContext, Enqueue, Delegate, Goto, entity, history, Busy
<1>4. ASSUME NEW t \in Thread, Collect(t) \/ (\E s \in Subscription : Submit(t, s)) \/ Published(t)
      PROVE  Current'
  BY <1>4, <1>2, <1>t DEF Collect, Submit, Published, Goto, entity, history, Busy
<1>5. CASE Drain
  BY <1>5, <1>2, <1>t DEF Drain, Goto, entity, history, Busy
<1>6. CASE Apart
  BY <1>6, <1>2 DEF Apart, threads, history, Busy
<1> QED
  BY <1>1, <1>3, <1>4, <1>5, <1>6, Steps

(* Who is not yet active is not served. *)
LEMMA NextUnreached == TypeOK /\ Unreached /\ [Next]_vars => Unreached'
<1> SUFFICES ASSUME TypeOK, Unreached, [Next]_vars PROVE Unreached'
  OBVIOUS
<1>t. /\ pc \in [Thread -> Pc] /\ targets \in [Thread -> SUBSET Subscription]
      /\ sub \in [Subscription -> {"none", "queued", "active", "gone"}]
      /\ inbox \in [Subscription -> Seq(Event)]
      /\ Publisher \subseteq Thread /\ Manager \in Thread
  BY DEF Thread, TypeOK
<1>1. \A s \in Subscription : sub'[s] \in {"none", "queued"} => sub[s] \in {"none", "queued"}
  BY <1>t DEF Next, Continue, Manage, Publish, Update, GetContext, Enqueue, Delegate, Collect,
     Submit, Published, Drain, SubscribeQueued, Subscribe, UnsubscribeQueued, Unsubscribe,
     OnManagementStarting, StartDelegatingForSubscribing, OnManagementStarted, Drained,
     OnManagementStopped, vars, entity
<1>2. ASSUME inbox' = inbox,
             \A t \in Thread : pc'[t] = "submitting" =>
               pc[t] = "submitting" /\ targets'[t] \subseteq targets[t]
      PROVE  Unreached'
  BY <1>1, <1>2 DEF Unreached
<1>3. ASSUME NEW p \in Publisher, Update(p) \/ GetContext(p) \/ Enqueue(p) \/ Delegate(p)
      PROVE  Unreached'
  <2>1. /\ inbox' = inbox /\ targets' = targets /\ pc'[p] # "submitting"
        /\ \A t \in Thread : t # p => pc'[t] = pc[t]
    BY <1>3, <1>t DEF Update, GetContext, Enqueue, Delegate, Goto, TypeOK, Mode
  <2> QED
    BY <2>1, <1>2
<1>4. ASSUME NEW t \in Thread, Collect(t) PROVE Unreached'
  <2>1. /\ inbox' = inbox /\ sub' = sub
        /\ targets'[t] = {s \in Subscription : sub[s] = "active"}
        /\ \A u \in Thread : u # t => pc'[u] = pc[u] /\ targets'[u] = targets[u]
    BY <1>4, <1>t DEF Collect, Goto
  <2> QED
    BY <2>1 DEF Unreached
<1>5. ASSUME NEW t \in Thread, NEW s \in Subscription, Submit(t, s) PROVE Unreached'
  <2>1. sub[s] \notin {"none", "queued"}
    BY <1>5 DEF Submit, Unreached
  <2>2. /\ sub' = sub /\ pc' = pc /\ \A u \in Thread : targets'[u] \subseteq targets[u]
        /\ \A r \in Subscription : r # s => inbox'[r] = inbox[r]
    BY <1>5, <1>t DEF Submit
  <2> QED
    BY <2>1, <2>2 DEF Unreached
<1>6. ASSUME NEW t \in Thread, Published(t) PROVE Unreached'
  <2>1. inbox' = inbox /\ targets' = targets /\ \A u \in Thread : u # t => pc'[u] = pc[u]
    BY <1>6, <1>t DEF Published, Goto
  <2>2. pc'[t] # "submitting"
    BY <1>6, <1>t DEF Published, Goto
  <2> QED
    BY <2>1, <2>2, <1>2
<1>7. CASE Drain
  <2>1. /\ inbox' = inbox /\ targets' = targets /\ pc'[Manager] # "submitting"
        /\ \A u \in Thread : u # Manager => pc'[u] = pc[u]
    BY <1>7, <1>t DEF Drain, Goto
  <2> QED
    BY <2>1, <1>2
<1>8. CASE Apart
  BY <1>8, <1>2 DEF Apart, threads
<1> QED
  BY <1>3, <1>4, <1>5, <1>6, <1>7, <1>8, Steps

--------------------------------------------------------------------------------
(* The order of the events on their way *)

(* Once two publishers were at work, or an event went past, that stays so. *)
LEMMA Monotone ==
  ASSUME TypeOK, [Next]_vars
  PROVE  overtakers \subseteq overtakers' /\ (Calm' => Calm)
<1>1. overtakers \subseteq overtakers' /\ (raced => raced')
  BY DEF TypeOK, Next, Continue, Manage, Publish, Update, GetContext, Enqueue, Delegate, Collect,
     Submit, Published, Drain, SubscribeQueued, Subscribe, UnsubscribeQueued, Unsubscribe,
     OnManagementStarting, OnManagementStarted, Drained, OnManagementStopped, vars, history
<1> QED
  BY <1>1 DEF Calm

(* Threads that only get on with what they have *)
LEMMA OrderKept ==
  ASSUME Order, UNCHANGED <<emitted, queue, inbox, event>>,
         overtakers \subseteq overtakers',
         \A t \in Thread : Busy(t)' => Busy(t),
         \A t \in Thread, s \in Subscription : Owes(t, s)' => Owes(t, s),
         NothingPassed'
  PROVE  Order'
<1>1. /\ Waiting' = Waiting /\ Drawn' \subseteq Drawn
      /\ \A s \in Subscription : Got(s)' = Got(s)
      /\ Publisher \subseteq Thread /\ Manager \in Thread
  BY DEF Waiting, Drawn, Got, Thread
<1>2. \A d, e : Precedes(d, e) => Precedes(d, e)'
  BY DEF SamePublisher, Precedes
<1>3. Numbered'
  BY <1>1 DEF Order, Numbered
<1>4. Newest'
  BY <1>1 DEF Order, Newest, SamePublisher
<1>5. QueueInOrder'
  BY <1>1 DEF Order, QueueInOrder, SamePublisher
<1>6. Earlier' /\ InboxInOrder'
  BY <1>1, <1>2 DEF Order, Earlier, InboxInOrder
<1> QED
  BY <1>3, <1>4, <1>5, <1>6 DEF Order

(* With the queue of no concern to a publisher that begins to deliver *)
LEMMA BeginsToDeliver ==
  ASSUME TypeOK, Control, Order, [Next]_vars, NEW p \in Publisher,
         queue' = queue,
         \A t \in Thread : t # p => pc'[t] = pc[t] /\ event'[t] = event[t],
         pc'[p] \in {"collecting", "submitting"} =>
           event'[p] \in overtakers' \/ (queue = <<>> /\ ~Busy(Manager))
  PROVE  NothingPassed'
<1>1. p # Manager /\ Manager \in Thread /\ Publisher \subseteq Thread
  BY ThreadAssumption DEF Thread
<1>2. Waiting' = Waiting /\ Drawn' = Drawn
  BY <1>1 DEF Waiting, Drawn, Busy
<1>3. queue = <<>> /\ ~Busy(Manager) => Waiting \cup Drawn = {}
  BY DEF Waiting, Drawn, ToSet
<1>5. ASSUME NEW q \in Publisher, pc'[q] \in {"collecting", "submitting"}
      PROVE  event'[q] \in overtakers' \/ \A d \in Waiting' \cup Drawn' : ~SamePublisher(d, event[q])'
  <2>1. CASE q = p
    BY <1>2, <1>3, <1>5, <2>1
  <2>2. CASE q # p
    <3>1. pc[q] \in {"collecting", "submitting"} /\ event'[q] = event[q]
      BY <1>1, <1>5, <2>2
    <3>2. event[q] \in overtakers \/ \A d \in Waiting \cup Drawn : ~SamePublisher(d, event[q])
      BY <3>1 DEF Order, NothingPassed
    <3> QED
      BY <1>2, <3>1, <3>2, Monotone DEF SamePublisher
  <2> QED
    BY <2>1, <2>2
<1> QED
  BY <1>5 DEF NothingPassed

(* A new event has a number above those that are on their way. *)
LEMMA UpdateOrder ==
  ASSUME TypeOK, Control, Order, [Next]_vars, NEW p \in Publisher, Update(p)
  PROVE  Order'
<1>t. p # Manager /\ p \in Thread /\ Manager \in Thread /\ Publisher \subseteq Thread
  BY ThreadAssumption DEF Thread
<1>1. /\ emitted \in Nat /\ emitted' = emitted + 1 /\ event'[p] = <<p, emitted'>>
      /\ \A t \in Thread : t # p => event'[t] = event[t] /\ pc'[t] = pc[t]
      /\ pc'[p] = "updated" /\ UNCHANGED <<queue, targets, inbox, overtakers>>
  BY <1>t DEF Update, Goto, TypeOK
<1>2. /\ Waiting' = Waiting /\ Drawn' = Drawn
      /\ \A s \in Subscription : Got(s)' = Got(s) /\ Got(s) \subseteq Event
      /\ Waiting \subseteq Event /\ Drawn \subseteq Event
  <2>1. /\ Waiting' = Waiting /\ Drawn' = Drawn
        /\ \A s \in Subscription : Got(s)' = Got(s)
    BY <1>t, <1>1 DEF Waiting, Drawn, Got, Busy
  <2>2. queue \in Seq(Event) /\ \A s \in Subscription : inbox[s] \in Seq(Event)
    BY DEF TypeOK
  <2>3. Waiting \subseteq Event /\ \A s \in Subscription : Got(s) \subseteq Event
    BY <2>2, ElementFacts DEF Waiting, Got
  <2>4. Drawn \subseteq Event
    BY <1>t DEF Drawn, Control
  <2> QED
    BY <2>1, <2>3, <2>4
<1>3. /\ \A d \in Waiting \cup Drawn : d[2] <= emitted /\ d[2] \in Nat
      /\ \A s \in Subscription : \A d \in Got(s) : d[2] <= emitted /\ d[2] \in Nat
  BY <1>t, <1>2 DEF Order, Numbered, Control, Drawn, Event
<1>4. Numbered'
  BY <1>1, <1>2, <1>3 DEF Numbered
<1>5. Newest'
  <2>1. ASSUME NEW q \in Publisher, Busy(q)', q = p
        PROVE  /\ \A d \in Waiting \cup Drawn : d[2] < event'[q][2]
               /\ \A s \in Subscription : \A d \in Got(s) : d[2] < event'[q][2]
    BY <1>1, <1>3, <2>1
  <2>2. ASSUME NEW q \in Publisher, Busy(q)', q # p
        PROVE  /\ Busy(q) /\ event'[q] = event[q]
               /\ \A s \in Subscription : Owes(q, s)' <=> Owes(q, s)
    BY <1>t, <1>1, <2>2 DEF Busy, Owes
  <2> QED
    BY <1>2, <2>1, <2>2, Monotone DEF Order, Newest, SamePublisher
<1>6. NothingPassed'
  BY <1>t, <1>1, BeginsToDeliver DEF Order, NothingPassed
<1>7. QueueInOrder'
  BY <1>1, <1>2, Monotone DEF Order, QueueInOrder, SamePublisher
<1>8. Earlier' /\ InboxInOrder'
  <2>1. \A s \in Subscription : Owes(Manager, s)' <=> Owes(Manager, s)
    BY <1>t, <1>1 DEF Owes
  <2>2. event'[Manager] = event[Manager]
    BY <1>t, <1>1
  <2> QED
    BY <1>1, <1>2, <2>1, <2>2, Monotone DEF Order, Earlier, InboxInOrder, Precedes, SamePublisher
<1> QED
  BY <1>4, <1>5, <1>6, <1>7, <1>8 DEF Order

(* The newest event of its publisher goes to the end of the queue. *)
LEMMA EnqueueOrder ==
  ASSUME TypeOK, Control, Order, [Next]_vars, NEW p \in Publisher, Enqueue(p)
  PROVE  Order'
<1>t. p # Manager /\ p \in Thread /\ Manager \in Thread /\ Publisher \subseteq Thread
  BY ThreadAssumption DEF Thread
<1>1. /\ queue' = Append(queue, event[p]) /\ pc[p] = "queueing" /\ pc'[p] = "idle"
      /\ \A t \in Thread : t # p => pc'[t] = pc[t]
      /\ UNCHANGED <<emitted, event, targets, inbox, history>>
  BY <1>t DEF Enqueue, Goto, TypeOK, entity
<1>2. Busy(p) /\ event[p] \in Event /\ event[p][1] = p /\ event[p][2] <= emitted
  BY <1>t, <1>1 DEF Busy, Control
<1>3. /\ Waiting' = Waiting \cup {event[p]} /\ Drawn' = Drawn
      /\ \A s \in Subscription : Got(s)' = Got(s)
      /\ DOMAIN queue' = DOMAIN queue \cup {Len(queue) + 1}
      /\ queue'[Len(queue) + 1] = event[p]
      /\ \A i \in DOMAIN queue : /\ queue'[i] = queue[i] /\ queue[i] \in Waiting
                                 /\ i < Len(queue) + 1
  BY <1>t, <1>1, <1>2, AppendFacts, ElementFacts DEF Waiting, Drawn, Got, Busy, TypeOK
<1>4. \A d, e : /\ SamePublisher(d, e)' <=> SamePublisher(d, e)
                /\ Precedes(d, e)' <=> Precedes(d, e)
  BY <1>1 DEF SamePublisher, Precedes, history
<1>5. \A d \in Waiting \cup Drawn : SamePublisher(d, event[p]) => d[2] < event[p][2]
  BY <1>2 DEF Order, Newest
<1>6. \A q \in Publisher : q # p /\ Busy(q) => ~SamePublisher(event[p], event[q])
  BY <1>2 DEF Control, SamePublisher
<1>7. \A q \in Publisher : Busy(q)' => q # p /\ Busy(q) /\ pc'[q] = pc[q]
  BY <1>t, <1>1 DEF Busy
<1>8. Numbered'
  BY <1>1, <1>2, <1>3 DEF Order, Numbered
<1>9. Newest' /\ NothingPassed'
  <2>1. \A q \in Publisher, s \in Subscription : Busy(q)' => (Owes(q, s)' <=> Owes(q, s))
    BY <1>1, <1>7 DEF Owes
  <2>2. Newest'
    BY <1>1, <1>3, <1>4, <1>6, <1>7, <2>1 DEF Order, Newest
  <2>3. \A q \in Publisher : pc'[q] \in {"collecting", "submitting"} =>
          q # p /\ Busy(q) /\ pc[q] \in {"collecting", "submitting"}
    BY <1>1, <1>t DEF Busy
  <2>4. UNCHANGED <<overtakers, event>>
    BY <1>1 DEF history
  <2>5. NothingPassed'
    BY <1>3, <1>4, <1>6, <2>3, <2>4 DEF Order, NothingPassed
  <2> QED
    BY <2>2, <2>5
<1>10. QueueInOrder'
  <2>1. ASSUME NEW i \in DOMAIN queue', NEW j \in DOMAIN queue', i < j,
               SamePublisher(queue'[i], queue'[j])
        PROVE  queue'[i][2] < queue'[j][2]
    <3>1. Len(queue) \in Nat /\ DOMAIN queue = 1..Len(queue)
      BY DEF TypeOK
    <3>2. CASE j = Len(queue) + 1
      BY <1>3, <1>5, <2>1, <3>1, <3>2
    <3>3. CASE j \in DOMAIN queue
      <4>1. i \in DOMAIN queue
        BY <1>3, <2>1, <3>1, <3>3
      <4> QED
        BY <1>3, <2>1, <3>3, <4>1 DEF Order, QueueInOrder
    <3> QED
      BY <1>3, <3>2, <3>3
  <2>2. \A d \in Drawn, e \in Waiting' : SamePublisher(d, e) => d[2] < e[2]
    BY <1>3, <1>5 DEF Order, QueueInOrder
  <2> QED
    BY <1>3, <1>4, <2>1, <2>2 DEF QueueInOrder
<1>11. Earlier'
  <2>1. \A s \in Subscription : \A d \in Got(s) : Precedes(d, event[p])
    BY <1>1, <1>2 DEF Order, Newest, Precedes, Owes
  <2>2. \A s \in Subscription : Owes(Manager, s)' <=> Owes(Manager, s)
    BY <1>1, <1>t DEF Owes
  <2> QED
    BY <1>1, <1>3, <1>4, <2>1, <2>2 DEF Order, Earlier
<1>12. InboxInOrder'
  BY <1>1, <1>4 DEF Order, InboxInOrder
<1> QED
  BY <1>8, <1>9, <1>10, <1>11, <1>12 DEF Order

(* What is delivered comes after what was, and before what is in the queue. *)
LEMMA SubmitOrder ==
  ASSUME TypeOK, Control, Order, [Next]_vars,
         NEW t \in Thread, NEW s \in Subscription, Submit(t, s)
  PROVE  Order'
<1>t. Manager \in Thread /\ Publisher \subseteq Thread /\ Manager \notin Publisher
  BY ThreadAssumption DEF Thread
<1>1. /\ inbox' = [inbox EXCEPT ![s] = Append(@, event[t])]
      /\ targets' = [targets EXCEPT ![t] = @ \ {s}]
      /\ pc[t] = "submitting" /\ s \in targets[t]
      /\ UNCHANGED <<emitted, queue, event, pc, overtakers, raced>>
  BY DEF Submit, entity, history
<1>2. Busy(t) /\ event[t] \in Event /\ event[t][2] <= emitted
  BY <1>1 DEF Busy, Control
<1>3. /\ Waiting' = Waiting /\ Drawn' = Drawn
      /\ \A u \in Thread : Busy(u)' <=> Busy(u)
  BY <1>1 DEF Waiting, Drawn, Busy
<1>4. \A d, e : /\ SamePublisher(d, e)' <=> SamePublisher(d, e)
                /\ Precedes(d, e)' <=> Precedes(d, e)
  BY <1>1 DEF SamePublisher, Precedes
<1>5. /\ \A r \in Subscription : r # s => inbox'[r] = inbox[r] /\ Got(r)' = Got(r)
      /\ Got(s)' = Got(s) \cup {event[t]}
      /\ DOMAIN inbox[s] = 1..Len(inbox[s]) /\ Len(inbox[s]) \in Nat
      /\ DOMAIN inbox'[s] = DOMAIN inbox[s] \cup {Len(inbox[s]) + 1}
      /\ inbox'[s][Len(inbox[s]) + 1] = event[t]
      /\ \A i \in DOMAIN inbox[s] : inbox'[s][i] = inbox[s][i] /\ inbox[s][i] \in Got(s)
  <2>1. inbox[s] \in Seq(Event) /\ inbox'[s] = Append(inbox[s], event[t])
    BY <1>1 DEF TypeOK
  <2>2. \A r \in Subscription : r # s => inbox'[r] = inbox[r]
    BY <1>1 DEF TypeOK
  <2>3. Got(s)' = Got(s) \cup {event[t]}
    BY <1>2, <2>1, AppendFacts DEF Got
  <2> QED
    BY <1>2, <2>1, <2>2, <2>3, AppendFacts, ElementFacts DEF Got
<1>6. /\ \A u \in Thread, r \in Subscription : Owes(u, r)' => Owes(u, r)
      /\ Owes(t, s) /\ ~Owes(t, s)'
  BY <1>1 DEF Owes, TypeOK
<1>7. t # Manager => t \in Publisher /\ event[t][1] = t
  BY <1>2 DEF Control, Thread
<1>8. t = Manager => event[t] \in Drawn
  BY <1>2 DEF Drawn
<1>9. Numbered'
  BY <1>1, <1>2, <1>3, <1>5 DEF Order, Numbered
<1>10. Newest'
  <2>1. ASSUME NEW q \in Publisher, Busy(q), SamePublisher(event[t], event[q])
        PROVE  event[t][2] < event[q][2] \/ (event[t] = event[q] /\ ~Owes(q, s)')
    <3>1. CASE t = Manager
      BY <1>8, <2>1, <3>1 DEF Order, Newest
    <3>2. CASE t = q
      BY <1>6, <3>2
    <3>3. t = Manager \/ t = q
      BY <1>7, <2>1 DEF SamePublisher, Control
    <3> QED
      BY <3>1, <3>2, <3>3
  <2> QED
    BY <1>1, <1>3, <1>4, <1>5, <1>6, <1>t, <2>1 DEF Order, Newest
<1>11. NothingPassed' /\ QueueInOrder'
  BY <1>1, <1>3, <1>4 DEF Order, NothingPassed, QueueInOrder
<1>12. Earlier'
  <2>1. ASSUME NEW e \in Waiting PROVE Precedes(event[t], e)
    <3>1. CASE t = Manager
      BY <1>8, <3>1 DEF Order, QueueInOrder, Precedes
    <3>2. CASE t # Manager
      BY <1>1, <1>2, <1>7, <2>1, <3>2 DEF Order, Newest, NothingPassed, Precedes, SamePublisher
    <3> QED
      BY <3>1, <3>2
  <2>2. ASSUME Owes(Manager, s)' PROVE Precedes(event[t], event[Manager])
    <3>1. t # Manager /\ event[Manager] \in Drawn
      BY <1>6, <1>t, <2>2 DEF Owes, Drawn, Busy
    <3> QED
      BY <1>1, <1>2, <1>7, <3>1 DEF Order, Newest, NothingPassed, Precedes, SamePublisher
  <2> QED
    BY <1>1, <1>3, <1>4, <1>5, <1>6, <1>t, <2>1, <2>2 DEF Order, Earlier
<1>13. InboxInOrder'
  <2>1. \A d \in Got(s) : Precedes(d, event[t])
    <3>1. CASE t = Manager
      BY <1>6, <3>1 DEF Order, Earlier
    <3>2. CASE t # Manager
      BY <1>2, <1>6, <1>7, <3>2 DEF Order, Newest, Precedes
    <3> QED
      BY <3>1, <3>2
  <2>2. ASSUME NEW i \in DOMAIN inbox'[s], NEW j \in DOMAIN inbox'[s], i < j
        PROVE  Precedes(inbox'[s][i], inbox'[s][j])
    <3>1. CASE j = Len(inbox[s]) + 1
      <4>1. i \in DOMAIN inbox[s]
        BY <1>5, <2>2, <3>1
      <4> QED
        BY <1>5, <2>1, <3>1, <4>1
    <3>2. CASE j \in DOMAIN inbox[s]
      <4>1. i \in DOMAIN inbox[s]
        BY <1>5, <2>2, <3>2
      <4> QED
        BY <1>5, <2>2, <3>2, <4>1 DEF Order, InboxInOrder
    <3> QED
      BY <1>5, <3>1, <3>2
  <2> QED
    BY <1>4, <1>5, <2>2 DEF Order, InboxInOrder
<1> QED
  BY <1>9, <1>10, <1>11, <1>12, <1>13 DEF Order

(* The manager takes the first of the queue. *)
LEMMA DrainOrder ==
  ASSUME TypeOK, Control, Order, [Next]_vars, Drain
  PROVE  Order'
<1>t. Manager \in Thread /\ Publisher \subseteq Thread /\ Manager \notin Publisher
  BY ThreadAssumption DEF Thread
<1>1. /\ queue # <<>> /\ queue \in Seq(Event) /\ queue' = Tail(queue)
      /\ event'[Manager] = Head(queue) /\ pc'[Manager] = "collecting" /\ ~Busy(Manager)
      /\ \A t \in Publisher : pc'[t] = pc[t] /\ event'[t] = event[t]
      /\ UNCHANGED <<emitted, targets, inbox, overtakers, raced>>
  BY <1>t DEF Drain, Goto, TypeOK, entity, history, Busy
<1>2. /\ Head(queue) \in Waiting /\ Waiting' \subseteq Waiting
      /\ Head(queue) = queue[1] /\ 1 \in DOMAIN queue
      /\ \A i \in DOMAIN queue' : 1 < i + 1 /\ i + 1 \in DOMAIN queue /\ queue'[i] = queue[i + 1]
  BY <1>1, TailFacts DEF Waiting
<1>3. Drawn' = {Head(queue)} /\ \A s \in Subscription : Got(s)' = Got(s)
  BY <1>1 DEF Drawn, Busy, Got
<1>4. \A d, e : /\ SamePublisher(d, e)' <=> SamePublisher(d, e)
                /\ Precedes(d, e)' <=> Precedes(d, e)
  BY <1>1 DEF SamePublisher, Precedes
<1>5. Numbered'
  BY <1>1, <1>2, <1>3 DEF Order, Numbered
<1>6. Newest' /\ NothingPassed'
  <2>1. \A p \in Publisher : /\ Busy(p)' <=> Busy(p)
                             /\ \A s \in Subscription : Owes(p, s)' <=> Owes(p, s)
    BY <1>1 DEF Busy, Owes
  <2> QED
    BY <1>1, <1>2, <1>3, <1>4, <2>1 DEF Order, Newest, NothingPassed
<1>7. QueueInOrder'
  <2>1. queue' \in Seq(Event) /\ DOMAIN queue' = 1..Len(queue')
    BY <1>1, TailFacts
  <2>2. ASSUME NEW i \in DOMAIN queue', NEW j \in DOMAIN queue', i < j,
               SamePublisher(queue'[i], queue'[j])
        PROVE  queue'[i][2] < queue'[j][2]
    <3>1. i + 1 < j + 1 /\ i + 1 \in DOMAIN queue /\ j + 1 \in DOMAIN queue
      BY <1>2, <2>1, <2>2
    <3> QED
      BY <1>2, <2>2, <3>1 DEF Order, QueueInOrder
  <2>3. ASSUME NEW e \in Waiting', SamePublisher(Head(queue), e) PROVE Head(queue)[2] < e[2]
    <3>1. PICK i \in DOMAIN queue' : e = queue'[i]
      BY <2>3 DEF Waiting, ToSet
    <3> QED
      BY <1>2, <2>3, <3>1 DEF Order, QueueInOrder
  <2> QED
    BY <1>3, <1>4, <2>2, <2>3 DEF QueueInOrder
<1>8. Earlier' /\ InboxInOrder'
  BY <1>1, <1>2, <1>3, <1>4 DEF Order, Earlier, InboxInOrder
<1> QED
  BY <1>5, <1>6, <1>7, <1>8 DEF Order

LEMMA NextOrder ==
  TypeOK /\ Control /\ Order /\ [Next]_vars => Order'
<1> SUFFICES ASSUME TypeOK, Control, Order, [Next]_vars PROVE Order'
  OBVIOUS
<1>t. /\ Manager \in Thread /\ Publisher \subseteq Thread
      /\ pc \in [Thread -> Pc] /\ targets \in [Thread -> SUBSET Subscription]
      /\ mode \in Mode
      /\ Delegating => queue = <<>>
      /\ mode # "draining" => ~Busy(Manager)
  BY DEF Thread, TypeOK, Control
<1>1. ASSUME NEW p \in Publisher, Update(p) PROVE Order'
  BY <1>1, UpdateOrder
<1>2. ASSUME NEW p \in Publisher, GetContext(p) \/ Delegate(p) PROVE Order'
  <2>1. /\ UNCHANGED <<emitted, queue, inbox, event, targets>>
        /\ \A t \in Thread : t # p => pc'[t] = pc[t]
        /\ Busy(p)
    BY <1>2, <1>t DEF GetContext, Delegate, Goto, entity, Busy
  <2>2. pc'[p] \in {"collecting", "submitting"} =>
          event[p] \in overtakers' \/ (queue = <<>> /\ ~Busy(Manager))
    BY <1>2, <1>t DEF GetContext, Delegate, Goto, Delegating, Mode
  <2>3. NothingPassed'
    BY <2>1, <2>2, BeginsToDeliver
  <2>4. \A t \in Thread : /\ Busy(t)' => Busy(t)
                          /\ \A s \in Subscription : Owes(t, s)' => Owes(t, s)
    BY <1>2, <1>t, <2>1 DEF GetContext, Delegate, Goto, Owes, Busy
  <2> QED
    BY <2>1, <2>3, <2>4, Monotone, OrderKept
<1>3. ASSUME NEW p \in Publisher, Enqueue(p) PROVE Order'
  BY <1>3, EnqueueOrder
<1>4. ASSUME UNCHANGED <<emitted, queue, inbox, event>>,
             \A t \in Thread : /\ Busy(t)' => Busy(t)
                               /\ pc'[t] = "collecting" => pc[t] = "collecting"
                               /\ pc'[t] = "submitting" => pc[t] \in {"collecting", "submitting"},
             \A t \in Thread, s \in Subscription : Owes(t, s)' => Owes(t, s)
      PROVE  Order'
  <2>1. Waiting' = Waiting /\ Drawn' \subseteq Drawn /\ overtakers \subseteq overtakers'
    BY <1>4, <1>t, Monotone DEF Waiting, Drawn
  <2>2. NothingPassed'
    BY <1>4, <1>t, <2>1 DEF Order, NothingPassed, SamePublisher
  <2> QED
    BY <1>4, <2>1, <2>2, OrderKept
<1>5. ASSUME NEW t \in Thread, Collect(t) \/ Published(t) PROVE Order'
  <2>1. /\ UNCHANGED <<emitted, queue, inbox, event>>
        /\ \A u \in Thread : u # t => pc'[u] = pc[u] /\ targets'[u] = targets[u]
        /\ \/ pc[t] = "collecting" /\ pc'[t] = "submitting"
           \/ pc[t] = "submitting" /\ pc'[t] = "idle"
    BY <1>5, <1>t DEF Collect, Published, Goto, entity
  <2> QED
    BY <2>1, <1>4 DEF Busy, Owes
<1>6. ASSUME NEW t \in Thread, NEW s \in Subscription, Submit(t, s) PROVE Order'
  BY <1>6, SubmitOrder
<1>7. CASE Drain
  BY <1>7, DrainOrder
<1>8. CASE Apart
  BY <1>8, <1>4 DEF Apart, threads, Busy, Owes
<1> QED
  BY <1>1, <1>2, <1>3, <1>5, <1>6, <1>7, <1>8, Steps

--------------------------------------------------------------------------------
(* The last event on the way *)

LEMMA NextValueFollows ==
  TypeOK /\ Control /\ Current /\ ValueFollows /\ [Next]_vars => ValueFollows'
<1> SUFFICES ASSUME TypeOK, Control, Current, ValueFollows, [Next]_vars,
                    Calm', (queue # <<>> \/ Busy(Manager))'
             PROVE  ValueToCome'
  BY DEF ValueFollows
<1>t. /\ Manager \in Thread /\ Publisher \subseteq Thread /\ Manager \notin Publisher
      /\ pc \in [Thread -> Pc] /\ event \in [Thread -> Event \cup {None}]
      /\ mode \in Mode /\ queue \in Seq(Event)
      /\ (Delegating => queue = <<>>) /\ (mode # "draining" => ~Busy(Manager))
  BY ThreadAssumption DEF Thread, TypeOK, Control
<1>c. Calm
  BY Monotone
<1>1. ASSUME NEW p \in Publisher, Update(p)
      PROVE  pc'[p] = "updated" /\ event'[p] = value'
  BY <1>1, <1>t DEF Update, Goto
<1>2. ASSUME NEW p \in Publisher, GetContext(p),
             queue # <<>> \/ Busy(Manager)
      PROVE  /\ pc'[p] \in {"updated", "queueing"}
             /\ UNCHANGED <<value, queue, event>>
             /\ \A q \in Publisher : q # p => pc'[q] = pc[q]
  BY <1>2, <1>t DEF GetContext, Goto, Delegating, Mode, Calm, entity
<1>3. ASSUME NEW p \in Publisher, Enqueue(p)
      PROVE  queue' # <<>> /\ Last(queue') = value'
  <2>1. Busy(p) /\ queue' = Append(queue, event[p]) /\ value' = value
    BY <1>3 DEF Enqueue, Busy, entity
  <2>2. event[p] \in Event /\ event[p] = value
    BY <1>c, <1>t, <2>1 DEF Control, Current, Calm
  <2> QED
    BY <1>t, <2>1, <2>2, AppendFacts
<1>4. ASSUME NEW p \in Publisher, Delegate(p) PROVE queue' = <<>> /\ ~Busy(Manager)'
  BY <1>4, <1>t DEF Delegate, Goto, Delegating, Busy
<1>5. ASSUME NEW t \in Thread, Collect(t) \/ (\E s \in Subscription : Submit(t, s)) \/ Published(t)
      PROVE  /\ UNCHANGED <<value, queue, event>>
             /\ Busy(Manager)' => Busy(Manager)
             /\ \A q \in Publisher : pc[q] \in {"updated", "queueing"} => pc'[q] = pc[q]
  BY <1>5, <1>t DEF Collect, Submit, Published, Goto, Busy, entity
<1>6. CASE Drain
  <2>1. /\ queue # <<>> /\ queue' = Tail(queue) /\ event'[Manager] = Head(queue)
        /\ value' = value /\ \A q \in Publisher : pc'[q] = pc[q] /\ event'[q] = event[q]
    BY <1>6, <1>t DEF Drain, Goto, entity
  <2>2. Last(queue) = IF queue' = <<>> THEN event'[Manager] ELSE Last(queue')
    BY <1>t, <2>1, TailFacts
  <2> QED
    BY <1>c, <2>1, <2>2 DEF ValueFollows, ValueToCome
<1>7. CASE Apart
  BY <1>7, <1>c DEF Apart, threads, Busy, ValueFollows, ValueToCome
<1>8. ASSUME NEW p \in Publisher, GetContext(p), queue = <<>> /\ ~Busy(Manager) PROVE FALSE
  BY <1>8, <1>t DEF GetContext, Goto, Busy
<1>9. ASSUME NEW p \in Publisher, Update(p) \/ GetContext(p) \/ Enqueue(p) \/ Delegate(p)
      PROVE  ValueToCome'
  <2>1. CASE Update(p)
    BY <1>1, <2>1 DEF ValueToCome
  <2>2. CASE GetContext(p)
    <3>1. queue # <<>> \/ Busy(Manager)
      BY <1>8, <2>2
    <3> QED
      BY <1>c, <1>2, <2>2, <3>1 DEF ValueFollows, ValueToCome
  <2>3. CASE Enqueue(p)
    BY <1>3, <2>3 DEF ValueToCome
  <2>4. CASE Delegate(p)
    BY <1>4, <2>4 DEF ValueToCome
  <2> QED
    BY <1>9, <2>1, <2>2, <2>3, <2>4
<1>10. ASSUME NEW t \in Thread, Collect(t) \/ (\E s \in Subscription : Submit(t, s)) \/ Published(t)
      PROVE  ValueToCome'
  BY <1>c, <1>5, <1>10 DEF ValueFollows, ValueToCome
<1> QED
  BY <1>6, <1>7, <1>9, <1>10, Steps

LEMMA NextFresh == IInv /\ [Next]_vars => Fresh'
<1> SUFFICES ASSUME IInv, [Next]_vars, Calm', mode' # "stopped",
                    NEW s \in Subscription, sub'[s] = "active", inbox'[s] # <<>>
             PROVE  (Last(inbox[s]) = value \/ OnItsWay(s))'
  BY DEF Fresh
<1>t. /\ Manager \in Thread /\ Publisher \subseteq Thread /\ Manager \notin Publisher
      /\ pc \in [Thread -> Pc] /\ event \in [Thread -> Event \cup {None}]
      /\ targets \in [Thread -> SUBSET Subscription]
      /\ inbox \in [Subscription -> Seq(Event)]
      /\ sub \in [Subscription -> {"none", "queued", "active", "gone"}]
      /\ mode \in Mode /\ queue \in Seq(Event)
  BY ThreadAssumption DEF Thread, IInv, TypeOK
<1>c. Calm /\ mode # "stopped"
  <2>1. Calm
    BY Monotone DEF IInv
  <2>2. mode = "stopped" => mode' = "stopped"
    BY DEF Next, Continue, Manage, Publish, Update, GetContext, Enqueue, Delegate, Collect,
       Submit, Published, Drain, SubscribeQueued, Subscribe, UnsubscribeQueued, Unsubscribe,
       OnManagementStarting, OnManagementStarted, Drained, OnManagementStopped, vars, entity
  <2> QED
    BY <2>1, <2>2
<1>p. \A p \in Publisher : Busy(p) => event[p] = value
  BY <1>c DEF IInv, Current, Calm
<1>s. inbox' = inbox => sub[s] = "active" /\ inbox[s] # <<>>
  <2>1. sub[s] = "gone" => sub'[s] = "gone"
    BY <1>t DEF Next, Continue, Manage, Publish, Update, GetContext, Enqueue, Delegate, Collect,
       Submit, Published, Drain, SubscribeQueued, Subscribe, UnsubscribeQueued, Unsubscribe,
       OnManagementStarting, StartDelegatingForSubscribing, OnManagementStarted, Drained,
       OnManagementStopped, vars, entity
  <2> QED
    BY <1>t, <2>1 DEF IInv, Unreached
<1>f. inbox' = inbox => Last(inbox[s]) = value \/ OnItsWay(s)
  BY <1>c, <1>s DEF IInv, Fresh
<1>1. ASSUME NEW p \in Publisher, Update(p) PROVE OnItsWay(s)'
  BY <1>1, <1>t DEF Update, Goto, OnItsWay, Owes
<1>2. ASSUME NEW p \in Publisher, GetContext(p) \/ Delegate(p)
      PROVE  (Last(inbox[s]) = value \/ OnItsWay(s))'
  <2>1. /\ UNCHANGED <<value, inbox, queue, event, targets>>
        /\ \A t \in Thread : t # p => pc'[t] = pc[t]
        /\ pc'[p] \in {"queueing", "collecting"}
    BY <1>2, <1>c, <1>t DEF GetContext, Delegate, Goto, Mode, entity
  <2>2. \A t \in Thread : Owes(t, s) => Owes(t, s)'
    BY <2>1 DEF Owes
  <2> QED
    BY <1>f, <2>1, <2>2 DEF OnItsWay
<1>3. ASSUME NEW p \in Publisher, Enqueue(p) PROVE OnItsWay(s)'
  <2>1. Busy(p) /\ queue' = Append(queue, event[p]) /\ value' = value
    BY <1>3 DEF Enqueue, Busy, entity
  <2>2. event[p] \in Event /\ event[p] = value
    BY <1>p, <1>t, <2>1 DEF IInv, Control
  <2> QED
    BY <1>t, <2>1, <2>2, AppendFacts DEF OnItsWay
<1>4. ASSUME NEW t \in Thread, Collect(t) PROVE (Last(inbox[s]) = value \/ OnItsWay(s))'
  <2>1. /\ UNCHANGED <<value, inbox, queue, event>>
        /\ pc'[t] = "submitting" /\ targets'[t] = {r \in Subscription : sub[r] = "active"}
        /\ \A u \in Thread : u # t => pc'[u] = pc[u] /\ targets'[u] = targets[u]
    BY <1>4, <1>t DEF Collect, Goto, entity
  <2>2. \A u \in Thread : Owes(u, s) => Owes(u, s)'
    BY <1>s, <2>1 DEF Owes
  <2> QED
    BY <1>f, <2>1, <2>2 DEF OnItsWay
<1>5. ASSUME NEW t \in Thread, NEW r \in Subscription, Submit(t, r)
      PROVE  (Last(inbox[s]) = value \/ OnItsWay(s))'
  <2>1. /\ UNCHANGED <<value, queue, event, pc, sub>>
        /\ inbox' = [inbox EXCEPT ![r] = Append(@, event[t])]
        /\ \A u \in Thread : targets[u] \ {r} \subseteq targets'[u]
        /\ pc[t] = "submitting"
    BY <1>5, <1>t DEF Submit, entity
  <2>2. CASE r # s
    <3>1. inbox'[s] = inbox[s] /\ sub[s] = "active"
      BY <1>t, <2>1, <2>2
    <3>2. Last(inbox[s]) = value \/ OnItsWay(s)
      BY <1>c, <3>1 DEF IInv, Fresh
    <3>3. \A u \in Thread : Owes(u, s) => Owes(u, s)'
      BY <2>1, <2>2 DEF Owes
    <3> QED
      BY <2>1, <3>1, <3>2, <3>3 DEF OnItsWay
  <2>3. CASE r = s /\ event[t] = value
    <3>1. event[t] \in Event
      BY <2>1 DEF IInv, Control, Busy
    <3>2. inbox'[s] = Append(inbox[s], event[t]) /\ inbox[s] \in Seq(Event)
      BY <1>t, <2>1, <2>3
    <3> QED
      BY <2>1, <2>3, <3>1, <3>2, AppendFacts
  <2>4. CASE event[t] # value
    <3>1. t = Manager /\ Busy(Manager)
      BY <1>p, <2>1, <2>4 DEF Thread, Busy
    <3>2. ValueToCome /\ event[Manager] # value
      BY <1>c, <2>4, <3>1 DEF IInv, ValueFollows
    <3> QED
      BY <1>t, <2>1, <3>2 DEF ValueToCome, OnItsWay, Owes
  <2> QED
    BY <2>2, <2>3, <2>4
<1>6. ASSUME NEW t \in Thread, Published(t) PROVE (Last(inbox[s]) = value \/ OnItsWay(s))'
  <2>1. /\ UNCHANGED <<value, inbox, queue, event, targets>>
        /\ \A u \in Thread : u # t => pc'[u] = pc[u]
        /\ ~Owes(t, s)
    BY <1>6, <1>t DEF Published, Goto, entity, Owes
  <2>2. \A u \in Thread : Owes(u, s) => Owes(u, s)'
    BY <2>1 DEF Owes
  <2> QED
    BY <1>f, <2>1, <2>2 DEF OnItsWay
<1>7. CASE Drain
  <2>1. /\ queue # <<>> /\ queue' = Tail(queue) /\ event'[Manager] = Head(queue)
        /\ pc[Manager] = "idle" /\ pc'[Manager] = "collecting"
        /\ \A t \in Thread : t # Manager => pc'[t] = pc[t] /\ event'[t] = event[t]
        /\ UNCHANGED <<value, inbox, targets>>
    BY <1>7, <1>t DEF Drain, Goto, entity
  <2>2. Last(queue) = IF queue' = <<>> THEN event'[Manager] ELSE Last(queue')
    BY <1>t, <2>1, TailFacts
  <2>3. Owes(Manager, s)' /\ \A t \in Thread : Owes(t, s) => t # Manager /\ Owes(t, s)'
    BY <2>1 DEF Owes
  <2> QED
    BY <1>f, <1>t, <2>1, <2>2, <2>3 DEF OnItsWay
<1>8. CASE Apart
  BY <1>8, <1>f DEF Apart, threads, OnItsWay, Owes
<1> QED
  BY <1>1, <1>2, <1>3, <1>4, <1>5, <1>6, <1>7, <1>8, Steps DEF IInv

LEMMA NextIInv == IInv /\ [Next]_vars => IInv'
BY NextType, NextControl, NextCurrent, NextOrder, NextUnreached, NextValueFollows, NextFresh
   DEF IInv, Order

LEMMA IInvHolds == Spec => []IInv
<1>1. Init => IInv
  BY InitIInv
<1>2. IInv /\ [Next]_vars => IInv'
  BY NextIInv
<1> QED
  BY <1>1, <1>2, PTL DEF Spec

--------------------------------------------------------------------------------
(* The queue is empty once events are delegated, and the monitor is held by *)
(* the manager exactly while it empties the queue (synchronized publish and *)
(* startDelegatingForPublishing).                                           *)
THEOREM TypeCorrect == Spec => []TypeOK
<1>1. IInv => TypeOK
  BY DEF IInv
<1> QED
  BY <1>1, IInvHolds, PTL

(* However threads publish through the queue, past it and after it, a       *)
(* listener gets the events of a thread in order, and none twice, apart     *)
(* from those that go past the queue.                                       *)
THEOREM KeepsOrder == Spec => []InOrder
<1>1. IInv => InOrder
  <2> SUFFICES ASSUME IInv, NEW s \in Subscription, NEW i \in DOMAIN inbox[s],
                      NEW j \in DOMAIN inbox[s], i < j, inbox[s][i][1] = inbox[s][j][1]
               PROVE  /\ inbox[s][i] # inbox[s][j]
                      /\ inbox[s][i][2] < inbox[s][j][2] \/ inbox[s][i] \in overtakers
    BY DEF InOrder
  <2>1. inbox[s] \in Seq(Event)
    BY DEF IInv, TypeOK
  <2>2. inbox[s][i] \in Event
    BY <2>1, ElementFacts
  <2>3. inbox[s][i][2] \in Nat
    BY <2>2 DEF Event
  <2> QED
    BY <2>3 DEF IInv, Order, InboxInOrder, Precedes, SamePublisher
<1> QED
  BY <1>1, IInvHolds, PTL

(* Whoever follows the events of the attribute knows its value when all is  *)
(* published, if publishers set it one at a time and none went past the     *)
(* queue.                                                                   *)
THEOREM ListenersCatchUp == Spec => []CaughtUp
<1>1. IInv => CaughtUp
  BY DEF IInv, TypeOK, Delegating, CaughtUp, Fresh, Calm, OnItsWay, Owes
<1> QED
  BY <1>1, IInvHolds, PTL

--------------------------------------------------------------------------------
(* The safety part of EveryEventArrives *)

(* e was published, and s has yet to get it. *)
OnTheWay(e, s) ==
  \/ Pending(e)
  \/ \E t \in Thread : pc[t] = "submitting" /\ event[t] = e /\ s \in targets[t]

(* A step that takes an event from where it is, the queue, a hand or the way *)
(* from one to the other, puts it where it goes next.                        *)
NothingDropped ==
  [][\A e \in Event, s \in Subscription :
       /\ sub[s] = "active" /\ OnTheWay(e, s) => OnTheWay(e, s)' \/ e \in Got(s)'
       /\ e \in Got(s) => e \in Got(s)']_vars

LEMMA HeadOrTail ==
  ASSUME NEW S, NEW q \in Seq(S), q # <<>>
  PROVE  ToSet(q) \subseteq {Head(q)} \cup ToSet(Tail(q))
<1>1. /\ Len(q) \in Nat /\ DOMAIN q = 1..Len(q) /\ Head(q) = q[1]
      /\ DOMAIN Tail(q) = 1..(Len(q) - 1)
      /\ \A i \in 1..(Len(q) - 1) : Tail(q)[i] = q[i + 1]
  OBVIOUS
<1>2. ASSUME NEW i \in 1..Len(q) PROVE q[i] \in {Head(q)} \cup ToSet(Tail(q))
  <2>1. CASE i = 1
    BY <1>1, <2>1
  <2>2. CASE i # 1
    <3>1. i - 1 \in 1..(Len(q) - 1) /\ (i - 1) + 1 = i
      BY <1>1, <2>2
    <3>2. Tail(q)[i - 1] = q[i]
      BY <1>1, <3>1
    <3> QED
      BY <1>1, <3>1, <3>2 DEF ToSet
  <2> QED
    BY <2>1, <2>2
<1> QED
  BY <1>1, <1>2 DEF ToSet

LEMMA NextDropsNothing ==
  ASSUME IInv, [Next]_vars, NEW e \in Event, NEW s \in Subscription
  PROVE  /\ sub[s] = "active" /\ OnTheWay(e, s) => OnTheWay(e, s)' \/ e \in Got(s)'
         /\ e \in Got(s) => e \in Got(s)'
<1> USE ThreadAssumption
<1>t. /\ queue \in Seq(Event) /\ inbox[s] \in Seq(Event)
      /\ pc \in [Thread -> Pc] /\ event \in [Thread -> Event \cup {None}]
      /\ targets \in [Thread -> SUBSET Subscription]
      /\ inbox \in [Subscription -> Seq(Event)]
      /\ Manager \in Thread /\ \A p \in Publisher : p \in Thread
      /\ \A t \in Thread : Busy(t) => event[t] \in Event
  BY DEF IInv, TypeOK, Control, Thread
<1> DEFINE Goal == /\ sub[s] = "active" /\ OnTheWay(e, s) => OnTheWay(e, s)' \/ e \in Got(s)'
                   /\ e \in Got(s) => e \in Got(s)'
<1>1. ASSUME NEW p \in Publisher, Update(p) PROVE Goal
  <2>1. /\ UNCHANGED <<queue, inbox, targets>> /\ pc[p] = "idle"
        /\ \A t \in Thread : t # p => pc'[t] = pc[t] /\ event'[t] = event[t]
    BY <1>1, <1>t DEF Update, Goto
  <2> QED
    BY <2>1, <1>t DEF OnTheWay, Pending, Got
<1>2. ASSUME NEW p \in Publisher, GetContext(p) PROVE Goal
  <2>1. /\ UNCHANGED <<queue, inbox, targets, event>> /\ pc[p] = "updated"
        /\ \A t \in Thread : t # p => pc'[t] = pc[t]
    BY <1>2, <1>t DEF GetContext, Goto
  <2> QED
    BY <2>1, <1>t DEF OnTheWay, Pending, Got
<1>3. ASSUME NEW p \in Publisher, Enqueue(p) PROVE Goal
  <2>1. /\ UNCHANGED <<inbox, targets, event>> /\ pc[p] = "queueing"
        /\ queue' = Append(queue, event[p])
        /\ \A t \in Thread : t # p => pc'[t] = pc[t]
    BY <1>3, <1>t DEF Enqueue, Goto
  <2>2. ToSet(queue') = ToSet(queue) \cup {event[p]}
    BY <1>t, <2>1, AppendFacts DEF Busy
  <2> QED
    BY <2>1, <2>2, <1>t DEF OnTheWay, Pending, Got
<1>4. ASSUME NEW p \in Publisher, Delegate(p) PROVE Goal
  <2>1. /\ UNCHANGED <<queue, inbox, targets, event>> /\ pc'[p] = "collecting"
        /\ \A t \in Thread : t # p => pc'[t] = pc[t]
    BY <1>4, <1>t DEF Delegate, Goto
  <2> QED
    BY <2>1, <1>t DEF OnTheWay, Pending, Got
<1>5. ASSUME NEW t \in Thread, Collect(t) PROVE Goal
  <2>1. /\ UNCHANGED <<queue, inbox, event>> /\ pc'[t] = "submitting" /\ pc[t] = "collecting"
        /\ sub[s] = "active" => s \in targets'[t]
        /\ \A u \in Thread : u # t => pc'[u] = pc[u] /\ targets'[u] = targets[u]
    BY <1>5, <1>t DEF Collect, Goto
  <2> QED
    BY <2>1, <1>t DEF OnTheWay, Pending, Got
<1>6. ASSUME NEW t \in Thread, NEW r \in Subscription, Submit(t, r) PROVE Goal
  <2>1. /\ UNCHANGED <<queue, pc, event>> /\ pc[t] = "submitting"
        /\ \A u \in Thread : u # t => targets'[u] = targets[u]
        /\ targets'[t] = targets[t] \ {r}
        /\ inbox'[s] = IF s = r THEN Append(inbox[s], event[t]) ELSE inbox[s]
    BY <1>6, <1>t DEF Submit
  <2>2. ToSet(Append(inbox[s], event[t])) = ToSet(inbox[s]) \cup {event[t]}
    BY <1>t, <2>1, AppendFacts DEF Busy
  <2>3. Got(s)' = IF s = r THEN Got(s) \cup {event[t]} ELSE Got(s)
    BY <2>1, <2>2 DEF Got
  <2> QED
    BY <2>1, <2>3, <1>t DEF OnTheWay, Pending
<1>7. ASSUME NEW t \in Thread, Published(t) PROVE Goal
  <2>1. /\ UNCHANGED <<queue, inbox, event, targets>> /\ pc[t] = "submitting" /\ targets[t] = {}
        /\ \A u \in Thread : u # t => pc'[u] = pc[u]
    BY <1>7, <1>t DEF Published, Goto
  <2> QED
    BY <2>1, <1>t DEF OnTheWay, Pending, Got
<1>8. CASE Drain
  <2>1. /\ queue # <<>> /\ queue' = Tail(queue) /\ event'[Manager] = Head(queue)
        /\ pc[Manager] = "idle" /\ pc'[Manager] = "collecting"
        /\ \A t \in Thread : t # Manager => pc'[t] = pc[t] /\ event'[t] = event[t]
        /\ UNCHANGED <<inbox, targets>>
    BY <1>8, <1>t DEF Drain, Goto
  <2>2. ToSet(queue) \subseteq {event'[Manager]} \cup ToSet(queue')
    BY <1>t, <2>1, HeadOrTail
  <2>3. \A t \in Thread : pc[t] # "idle" => t # Manager
    BY <2>1
  <2> QED
    BY <2>1, <2>2, <2>3, <1>t DEF OnTheWay, Pending, Got
<1>9. CASE Apart
  BY <1>9 DEF Apart, threads, OnTheWay, Pending, Got
<1> QED
  BY <1>1, <1>2, <1>3, <1>4, <1>5, <1>6, <1>7, <1>8, <1>9, Steps DEF IInv

(* Whatever is interleaved with management, no event that was published to  *)
(* the queue or the manager is lost to a subscription that stays: it is in  *)
(* the queue, in the hand of a thread that goes on with it, or has arrived. *)
THEOREM NoEventIsLost == Spec => NothingDropped
<1>1. IInv /\ [Next]_vars =>
        [\A e \in Event, s \in Subscription :
           /\ sub[s] = "active" /\ OnTheWay(e, s) => OnTheWay(e, s)' \/ e \in Got(s)'
           /\ e \in Got(s) => e \in Got(s)']_vars
  BY NextDropsNothing
<1> QED
  BY <1>1, IInvHolds, PTL DEF Spec, NothingDropped

================================================================================
