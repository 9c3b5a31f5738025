----------------------------- MODULE DynamicCluster -----------------------------
(***************************************************************************)
(* brooklyn.entity.group.DynamicCluster over AbstractGroup: threads that   *)
(* start, stop and resize a cluster or replace a member while nodes start  *)
(* and stop in tasks of their own, fail, or are unmanaged by others.  The  *)
(* thread Scaler is a run of a policy of the cluster, which stop suspends. *)
(* Changes of the membership are delivered to whoever listens.             *)
(***************************************************************************)
EXTENDS Integers, Sequences, FiniteSets

CONSTANTS
  Nodes,           \* entities that the factory may return
  Threads, Scaler, NoThread, NoNode,
  InitialSize, MaxSize,
  MaxCalls,        \* bound on calls of resize and replaceMember
  MaxTroubles      \* bound on failures of nodes and of the factory, and on foreign unmanages

ASSUME ThreadAssumption == Scaler \in Threads /\ NoThread \notin Threads /\ NoNode \notin Nodes
ASSUME SizeAssumption == InitialSize \in Nat /\ MaxSize \in Nat /\ InitialSize <= MaxSize

VARIABLES
  made, managed,        \* nodes that the factory made; that are under management
  members, quarantined, \* of the cluster; of its quarantine group
  starting, stopping,   \* nodes with a START, a STOP in progress
  running,              \* nodes whose process runs
  broken, stuck,        \* nodes whose START, whose STOP failed
  service,              \* SERVICE_STATE of the cluster
  mutex,                \* the thread that has it
  pc, op,               \* of a thread: where it is, in which call
  want,                 \* the size that it was called with
  todo, mine,           \* nodes that it has yet to add or pick, and has added or picked
  victim,               \* the member that it replaces
  interrupted,          \* threads with the flag set
  listening, queue,     \* the events somebody listens to, and those on their way
  lost, missed,         \* history: nodes that were let go of; nodes short of want
  calls, troubles

nodes == <<made, managed, quarantined, starting, stopping, running, broken, stuck>>
group == <<members, listening, queue>>
thread == <<pc, op, want, todo, mine, victim>>
history == <<lost, missed, calls, troubles>>
vars == <<nodes, group, thread, history, service, mutex, interrupted>>

Service == {"created", "starting", "running", "stopping", "stopped"}
Place == {"idle", "blocked", "adding", "awaiting", "picking", "ending", "discarding", "throwing"}

Init ==
  /\ made = {} /\ managed = {} /\ members = {} /\ quarantined = {}
  /\ starting = {} /\ stopping = {} /\ running = {} /\ broken = {} /\ stuck = {}
  /\ service = "created" /\ mutex = NoThread
  /\ pc = [t \in Threads |-> "idle"] /\ op = [t \in Threads |-> "resize"]
  /\ want = [t \in Threads |-> 0] /\ todo = [t \in Threads |-> 0]
  /\ mine = [t \in Threads |-> {}] /\ victim = [t \in Threads |-> NoNode]
  /\ interrupted = {} /\ listening = {} /\ queue = <<>>
  /\ lost = {} /\ missed = 0 /\ calls = 0 /\ troubles = 0

--------------------------------------------------------------------------------
(* AbstractGroup: membership changes and is published in one synchronized step *)

Emit(kind, n) ==
  queue' = IF kind \in listening THEN Append(queue, [kind |-> kind, node |-> n]) ELSE queue

AddMember(n) == members' = members \cup {n} /\ Emit("added", n)
RemoveMember(n) ==
  /\ members' = members \ {n}
  /\ IF n \in members THEN Emit("removed", n) ELSE UNCHANGED queue

--------------------------------------------------------------------------------
(* The calls *)

At(t, place) == pc' = [pc EXCEPT ![t] = place]
Trouble == troubles < MaxTroubles /\ troubles' = troubles + 1

Call(t, o, n, v) ==
  /\ pc[t] = "idle" /\ At(t, "blocked")
  /\ op' = [op EXCEPT ![t] = o] /\ want' = [want EXCEPT ![t] = n]
  /\ victim' = [victim EXCEPT ![t] = v]
  /\ UNCHANGED <<nodes, group, todo, mine, lost, missed, troubles, mutex>>

(* A policy that was suspended does not resize. *)
ResizeCall(t) ==
  /\ calls < MaxCalls /\ calls' = calls + 1
  /\ service = "running" \/ (t # Scaler /\ service # "created")
  /\ \E n \in 0..MaxSize : Call(t, "resize", n, NoNode)
  /\ UNCHANGED <<service, interrupted>>

ReplaceMemberCall(t) ==
  /\ calls < MaxCalls /\ calls' = calls + 1
  /\ t # Scaler /\ \E v \in managed : Call(t, "replace", 0, v)
  /\ UNCHANGED <<service, interrupted>>

Start(t) ==
  /\ service = "created" /\ service' = "starting" /\ t # Scaler
  /\ Call(t, "start", InitialSize, NoNode)
  /\ UNCHANGED <<calls, interrupted>>

(* suspend of a policy interrupts its run (AutoScalerPolicy.suspend). *)
Stop(t) ==
  /\ service = "running" /\ service' = "stopping" /\ t # Scaler
  /\ Call(t, "stop", 0, NoNode)
  /\ interrupted' = IF pc[Scaler] = "idle" THEN interrupted ELSE interrupted \cup {Scaler}
  /\ UNCHANGED calls

(* start and stop go on only if resize returned, and start if it was not    *)
(* short of the initial size.                                               *)
Leave(t, returns) ==
  /\ At(t, "idle") /\ mutex' = NoThread
  /\ mine' = [mine EXCEPT ![t] = {}] /\ todo' = [todo EXCEPT ![t] = 0]
  /\ interrupted' = interrupted \ {t}
  /\ service' = CASE returns /\ op[t] = "stop" -> "stopped"
                  [] returns /\ op[t] = "start" /\ Cardinality(members) = InitialSize -> "running"
                  [] OTHER -> service
  /\ UNCHANGED <<op, want, victim, calls>>
Returns(t) == Leave(t, TRUE)
Throws(t) == Leave(t, FALSE)

(* Mutated form: resize is not synchronized. *)
EnterResizeUnlocked(t) ==
  LET delta == want[t] - Cardinality(members)
  IN /\ pc[t] = "blocked" /\ op[t] # "replace" /\ mutex' = t
     /\ todo' = [todo EXCEPT ![t] = IF delta > 0 THEN delta ELSE -delta]
     /\ At(t, IF delta > 0 THEN "adding" ELSE "picking")
     /\ missed' = 0
     /\ UNCHANGED <<nodes, group, op, want, mine, victim, lost, calls, troubles, service, interrupted>>

(* A resize to the present size picks nothing, and stops nothing. *)
EnterResize(t) ==
  LET delta == want[t] - Cardinality(members)
  IN /\ pc[t] = "blocked" /\ op[t] # "replace" /\ mutex = NoThread /\ mutex' = t
     /\ todo' = [todo EXCEPT ![t] = IF delta > 0 THEN delta ELSE -delta]
     /\ At(t, IF delta > 0 THEN "adding" ELSE "picking")
     /\ missed' = 0
     /\ UNCHANGED <<nodes, group, op, want, mine, victim, lost, calls, troubles, service, interrupted>>

(* The size that replaceMember is to leave behind is the present one. *)
EnterReplace(t) ==
  /\ pc[t] = "blocked" /\ op[t] = "replace" /\ mutex = NoThread
  /\ IF victim[t] \in members
     THEN /\ mutex' = t /\ At(t, "adding") /\ todo' = [todo EXCEPT ![t] = 1]
          /\ want' = [want EXCEPT ![t] = Cardinality(members)] /\ missed' = 0
     ELSE At(t, "idle") /\ UNCHANGED <<mutex, todo, want, missed>>
  /\ UNCHANGED <<nodes, group, op, mine, victim, lost, calls, troubles, service, interrupted>>

--------------------------------------------------------------------------------
(* grow *)

Takes(t, n) ==
  /\ todo[t] > 0 /\ todo' = [todo EXCEPT ![t] = @ - 1]
  /\ mine' = [mine EXCEPT ![t] = @ \cup {n}]
  /\ UNCHANGED <<pc, op, want, victim, calls, troubles, lost, missed, service, mutex, interrupted>>

AddNode(t) ==
  /\ pc[t] = "adding"
  /\ \E n \in Nodes \ made :
       /\ Takes(t, n) /\ AddMember(n)
       /\ made' = made \cup {n} /\ managed' = managed \cup {n}
  /\ UNCHANGED <<listening, quarantined, starting, stopping, running, broken, stuck>>

(* What was added before stays a member that is not started. *)
FactoryThrows(t) ==
  /\ pc[t] = "adding" /\ todo[t] > 0 /\ Trouble
  /\ Throws(t)
  /\ UNCHANGED <<nodes, group, lost, missed>>

InvokeStart(t) ==
  /\ pc[t] = "adding" /\ todo[t] = 0 /\ At(t, "awaiting")
  /\ starting' = starting \cup mine[t]
  /\ UNCHANGED <<made, managed, quarantined, stopping, running, broken, stuck, group, op, want, todo, mine, victim, history, service, mutex, interrupted>>

(* The wait is cut short, and nothing is cleaned up. *)
StartInterrupted(t) ==
  /\ pc[t] = "awaiting" /\ t \in interrupted /\ mine[t] \cap starting # {}
  /\ Throws(t)
  /\ UNCHANGED <<nodes, group, lost, missed, troubles>>

(* A node that failed to start is quarantined, if so configured, or discarded. *)
CleanUp(t) ==
  /\ pc[t] = "awaiting" /\ mine[t] \cap starting = {}
  /\ \E n \in mine[t] \cap broken :
       /\ mine' = [mine EXCEPT ![t] = @ \ {n}]
       /\ RemoveMember(n)
       /\ \/ quarantined' = quarantined \cup {n} /\ UNCHANGED managed
          \/ managed' = managed \ {n} /\ UNCHANGED quarantined
       /\ missed' = IF n \in members THEN missed + 1 ELSE missed
  /\ UNCHANGED <<made, starting, stopping, running, broken, stuck, listening, pc, op, want, todo, victim, lost, calls, troubles, service, mutex, interrupted>>

Grown(t) == pc[t] = "awaiting" /\ mine[t] \cap (starting \cup broken) = {}

GrowEnds(t) ==
  /\ Grown(t)
  /\ IF op[t] = "replace" THEN mine[t] = {} /\ Throws(t) ELSE Returns(t)
  /\ UNCHANGED <<nodes, group, lost, missed, troubles>>

(* replaceMember: stopAndRemoveNode, once there is a new member. *)
RemoveVictim(t) ==
  /\ Grown(t) /\ op[t] = "replace" /\ mine[t] # {}
  /\ RemoveMember(victim[t])
  /\ mine' = [mine EXCEPT ![t] = {victim[t]}]
  /\ At(t, "picking")
  /\ UNCHANGED <<nodes, listening, op, want, todo, victim, history, service, mutex, interrupted>>

--------------------------------------------------------------------------------
(* shrink, and the end of replaceMember *)

(* Any removal strategy *)
PickAndRemoveMember(t) ==
  /\ pc[t] = "picking"
  /\ \E n \in members : Takes(t, n) /\ RemoveMember(n)
  /\ UNCHANGED <<nodes, listening>>

(* The members were unmanaged by others: the nodes picked before are lost. *)
PickThrows(t) ==
  /\ pc[t] = "picking" /\ todo[t] > 0 /\ members = {}
  /\ lost' = lost \cup mine[t]
  /\ Throws(t)
  /\ UNCHANGED <<nodes, group, missed, troubles>>

(* A START in progress may end after the STOP. *)
InvokeStop(t) ==
  /\ pc[t] = "picking" /\ todo[t] = 0 /\ At(t, "ending")
  /\ stopping' = stopping \cup mine[t]
  /\ lost' = lost \cup (mine[t] \cap starting)
  /\ UNCHANGED <<made, managed, quarantined, starting, running, broken, stuck, group, op, want, todo, mine, victim, missed, calls, troubles, service, mutex, interrupted>>

(* Mutated form: the tasks are not waited for. *)
StopNotAwaited(t) ==
  /\ pc[t] = "ending" /\ At(t, "discarding")
  /\ UNCHANGED <<nodes, group, op, want, todo, mine, victim, history, service, mutex, interrupted>>

(* The first exception ends the wait, also for nodes that are still to stop. *)
StopAwaited(t) ==
  /\ pc[t] = "ending"
  /\ \/ mine[t] \cap (stopping \cup stuck) = {} /\ At(t, "discarding") /\ UNCHANGED lost
     \/ /\ mine[t] \cap stuck # {} \/ (t \in interrupted /\ mine[t] \cap stopping # {})
        /\ At(t, "throwing") /\ lost' = lost \cup (mine[t] \cap stopping)
  /\ UNCHANGED <<nodes, group, op, want, todo, mine, victim, missed, calls, troubles, service, mutex, interrupted>>

(* The finally of shrink; stopAndRemoveNode has none. *)
DiscardNodes(t) ==
  /\ \/ pc[t] = "discarding" /\ managed' = managed \ mine[t] /\ Returns(t)
     \/ /\ pc[t] = "throwing" /\ Throws(t)
        /\ managed' = IF op[t] = "replace" THEN managed ELSE managed \ mine[t]
  /\ UNCHANGED <<made, quarantined, starting, stopping, running, broken, stuck, group, lost, missed, troubles>>

--------------------------------------------------------------------------------
(* The tasks of the nodes, and others who unmanage a member *)

StartEnds(n) ==
  /\ n \in starting /\ starting' = starting \ {n}
  /\ \/ running' = running \cup {n} /\ UNCHANGED <<broken, troubles>>
     \/ Trouble /\ broken' = broken \cup {n} /\ UNCHANGED running
  /\ UNCHANGED <<made, managed, quarantined, stopping, stuck, group, thread, lost, missed, calls, service, mutex, interrupted>>

StopEnds(n) ==
  /\ n \in stopping /\ stopping' = stopping \ {n}
  /\ \/ running' = running \ {n} /\ UNCHANGED <<stuck, lost, troubles>>
     \/ /\ Trouble /\ stuck' = stuck \cup {n} /\ lost' = lost \cup {n}
        /\ UNCHANGED running
  /\ UNCHANGED <<made, managed, quarantined, starting, broken, group, thread, missed, calls, service, mutex, interrupted>>

(* onManagementStopping: removeOwnedChild, and with it removeMember *)
Unmanage(n) ==
  /\ n \in members \cap running /\ Trouble
  /\ managed' = managed \ {n} /\ RemoveMember(n) /\ lost' = lost \cup {n}
  /\ missed' = IF \E t \in Threads : mutex = t /\ victim[t] = n THEN missed ELSE missed + 1
  /\ UNCHANGED <<made, quarantined, starting, stopping, running, broken, stuck, listening, thread, calls, service, mutex, interrupted>>

--------------------------------------------------------------------------------
Grow(t) ==
  \/ AddNode(t) \/ FactoryThrows(t) \/ InvokeStart(t) \/ StartInterrupted(t)
  \/ CleanUp(t) \/ GrowEnds(t) \/ RemoveVictim(t)
Shrink(t) ==
  \/ PickAndRemoveMember(t) \/ PickThrows(t) \/ InvokeStop(t) \/ StopAwaited(t) \/ DiscardNodes(t)

Next ==
  \/ \E t \in Threads :
       \/ ResizeCall(t) \/ ReplaceMemberCall(t) \/ Start(t) \/ Stop(t)
       \/ EnterResize(t) \/ EnterReplace(t) \/ Grow(t) \/ Shrink(t)
  \/ \E n \in Nodes : StartEnds(n) \/ StopEnds(n) \/ Unmanage(n)

Spec == Init /\ [][Next]_vars

--------------------------------------------------------------------------------
(* Properties *)

(* Nodes at hand: of the thread that has the mutex *)
InHand == UNION {mine[t] : t \in {u \in Threads : mutex = u}}

(* Ranges; only the thread with the mutex is inside of a resize. *)
TypeOK ==
  /\ made \subseteq Nodes /\ managed \subseteq made /\ members \subseteq managed
  /\ quarantined \subseteq managed \ members
  /\ starting \subseteq made /\ stopping \subseteq made /\ running \subseteq made
  /\ broken \subseteq made /\ stuck \subseteq made
  /\ service \in Service /\ mutex \in Threads \cup {NoThread}
  /\ pc \in [Threads -> Place]
  /\ op \in [Threads -> {"resize", "replace", "start", "stop"}]
  /\ want \in [Threads -> Int] /\ todo \in [Threads -> Nat]
  /\ mine \in [Threads -> SUBSET made] /\ victim \in [Threads -> Nodes \cup {NoNode}]
  /\ \A t \in Threads : pc[t] \in {"idle", "blocked"} <=> mutex # t
  /\ \A t \in Threads : mutex # t => mine[t] = {} /\ todo[t] = 0
  /\ interrupted \subseteq {Scaler}
  /\ listening \subseteq {"added", "removed"}
  /\ lost \subseteq Nodes

(* A node that runs, starts or is managed is a member, or quarantined, or in *)
(* the hands of the thread that resizes, whatever failed.  Lost are only     *)
(* nodes that failed to stop, were unmanaged by others, were still starting  *)
(* when they were stopped, were stopping when another failed or the thread   *)
(* was interrupted, or had been picked when the members ran out.             *)
NoNodeAstray ==
  running \cup starting \cup managed \subseteq members \cup quarantined \cup InHand \cup lost

Returned(t) ==
  /\ pc'[t] = "idle"
  /\ pc[t] = "discarding" \/ (pc[t] = "awaiting" /\ op[t] # "replace" /\ mine[t] \cap starting = {})

(* However many threads resize at a time, a call that returns leaves as many *)
(* members as it was asked for, less those that failed to start and those    *)
(* that others unmanaged meanwhile; replaceMember leaves as many as before.  *)
SizeIsTarget ==
  [][\A t \in Threads : Returned(t) => Cardinality(members) = want[t] - missed]_vars

================================================================================
