----------------------------- MODULE TrackedCluster -----------------------------
(***************************************************************************)
(* A cluster and an AbstractMembershipTrackingPolicy that follows it: it   *)
(* subscribes to members added and removed and then is told of those that  *)
(* are there, by its caller's thread, while events are delivered to it by  *)
(* the thread of its subscriptions.                                        *)
(***************************************************************************)
EXTENDS DynamicCluster, SequencesExt

CONSTANTS
  MaxResumes,    \* bound on the calls of setGroup and resume
  MaxEvents      \* bound on the events on their way

VARIABLES
  told,          \* the members that the policy knows of
  pending,       \* of the copy of the members, those it is yet to be told of
  stage,         \* of the policy: see Stage
  unheard,       \* history: removed while no one listened, or while it was told
  resumes

tracker == <<told, pending, stage, unheard, resumes>>
cluster == <<nodes, members, thread, history, service, mutex, interrupted>>
allVars == <<vars, tracker>>

Stage == {"off", "subscribing", "copying", "telling", "on"}

TrackedInit ==
  /\ Init
  /\ told = {} /\ pending = {} /\ stage = "off" /\ unheard = {} /\ resumes = 0

(* A step of the cluster; what it removes is heard of or not. *)
ClusterStep ==
  /\ Next /\ Len(queue') <= MaxEvents
  /\ unheard' = IF stage \in {"copying", "on"} THEN unheard ELSE unheard \cup (members \ members')
  /\ UNCHANGED <<told, pending, stage, resumes>>

(* setGroup, or resume: two subscriptions, a copy, and the loop over it *)
SubscribeAdded ==
  /\ stage = "off" /\ stage' = "subscribing"
  /\ resumes < MaxResumes /\ resumes' = resumes + 1
  /\ listening' = listening \cup {"added"}
  /\ UNCHANGED <<cluster, queue, told, pending, unheard>>

SubscribeRemoved ==
  /\ stage = "subscribing" /\ stage' = "copying"
  /\ listening' = listening \cup {"removed"}
  /\ UNCHANGED <<cluster, queue, told, pending, unheard, resumes>>

GetMembers ==
  /\ stage = "copying" /\ stage' = "telling"
  /\ pending' = members
  /\ UNCHANGED <<cluster, listening, queue, told, unheard, resumes>>

TellEntityAdded ==
  /\ stage = "telling"
  /\ IF pending = {} THEN stage' = "on" /\ UNCHANGED <<told, pending>>
     ELSE /\ \E n \in pending : told' = told \cup {n} /\ pending' = pending \ {n}
          /\ UNCHANGED stage
  /\ UNCHANGED <<cluster, listening, queue, unheard, resumes>>

(* suspend; what is on its way is still delivered. *)
Unsubscribe ==
  /\ stage = "on" /\ stage' = "off"
  /\ listening' = {}
  /\ UNCHANGED <<cluster, queue, told, pending, unheard, resumes>>

Told(e) == told' = IF e.kind = "added" THEN told \cup {e.node} ELSE told \ {e.node}

(* Mutated form: more than one thread delivers. *)
OnAnyEvent ==
  /\ \E i \in DOMAIN queue : Told(queue[i]) /\ queue' = RemoveAt(queue, i)
  /\ UNCHANGED <<cluster, listening, pending, stage, unheard, resumes>>

OnEvent ==
  /\ queue # <<>> /\ Told(Head(queue)) /\ queue' = Tail(queue)
  /\ UNCHANGED <<cluster, listening, pending, stage, unheard, resumes>>

Policy ==
  \/ SubscribeAdded \/ SubscribeRemoved \/ GetMembers \/ TellEntityAdded \/ Unsubscribe
  \/ OnEvent

TrackedNext == ClusterStep \/ Policy

TrackedSpec == TrackedInit /\ [][TrackedNext]_allVars

--------------------------------------------------------------------------------
(* When events are delivered and the loop has ended, the policy knows of all *)
(* members, wherever it was when they were added, and of no other, but those *)
(* that were removed while it did not listen, or while it was told of them.  *)
TrackerCatchesUp ==
  stage = "on" /\ queue = <<>> => members \subseteq told /\ told \subseteq members \cup unheard

================================================================================
