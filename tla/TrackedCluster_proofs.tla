-------------------------- MODULE TrackedCluster_proofs --------------------------
(***************************************************************************)
(* NoNodeAstray, SizeIsTarget and TrackerCatchesUp of a cluster and its    *)
(* tracker, for any set of nodes and threads, any sizes and any number of  *)
(* calls, failures and resumptions.                                        *)
(***************************************************************************)
EXTENDS TrackedCluster, FiniteSetTheorems, TLAPS

(* A node starts once, and then either runs or is broken.                   *)
NodesApart ==
  /\ IsFiniteSet(made)
  /\ starting \cap (running \cup broken) = {} /\ running \cap broken = {}
  /\ stuck \subseteq lost

(* What is in the hands of a thread, place by place                         *)
Growing(t) ==
  /\ pc[t] = "adding" => mine[t] \subseteq members /\ mine[t] \cap (starting \cup running \cup broken) = {}
  /\ pc[t] = "awaiting" =>
       /\ mine[t] \subseteq members \cup lost /\ todo[t] = 0
       /\ mine[t] \cap (starting \cup broken) \subseteq members

Shrinking(t) ==
  /\ pc[t] \in {"picking", "ending", "discarding", "throwing"} =>
       mine[t] \cap (members \cup quarantined) = {}
  /\ pc[t] = "ending" => mine[t] \cap running \subseteq stopping \cup lost /\ mine[t] \cap starting \subseteq lost
  /\ pc[t] \in {"discarding", "throwing"} => mine[t] \cap (running \cup starting) \subseteq lost
  /\ pc[t] = "throwing" /\ op[t] = "replace" => mine[t] \subseteq lost

Replacing(t) ==
  /\ op[t] # "replace" => victim[t] = NoNode
  /\ op[t] = "replace" =>
       /\ pc[t] \in {"adding", "awaiting"} => victim[t] \in made \ (quarantined \cup mine[t])
       /\ pc[t] \in {"picking", "ending", "discarding", "throwing"} => mine[t] = {victim[t]}
       /\ pc[t] = "picking" => todo[t] = 0

Held == \A t \in Threads : Growing(t) /\ Shrinking(t) /\ Replacing(t)

(* The members that are to stay, and what they still lack or have too much  *)
Rest(t) == Cardinality(members \ {victim[t]})
Due(t) == IF pc[t] = "adding" THEN todo[t] ELSE IF pc[t] = "picking" THEN 0 - todo[t] ELSE 0
SizedFor(t) == Rest(t) + missed + Due(t) = want[t]
Sized == missed \in Nat /\ \A t \in Threads : mutex = t => SizedFor(t)

IInv == TypeOK /\ NodesApart /\ Held /\ NoNodeAstray

--------------------------------------------------------------------------------
LEMMA InHandIs ==
  ASSUME TypeOK
  PROVE  \A n : n \in InHand <=> \E t \in Threads : mutex = t /\ n \in mine[t]
BY DEF InHand

LEMMA InitIInv == Init => IInv
<1> SUFFICES ASSUME Init PROVE IInv
  OBVIOUS
<1> USE ThreadAssumption, SizeAssumption
<1>1. TypeOK
  BY DEF Init, TypeOK, Service, Place
<1>2. NodesApart
  BY FS_EmptySet DEF Init, NodesApart
<1>3. Held
  BY DEF Init, Held, Growing, Shrinking, Replacing
<1>4. NoNodeAstray
  BY DEF Init, NoNodeAstray
<1> QED
  BY <1>1, <1>2, <1>3, <1>4 DEF IInv

LEMMA FiniteMembers == ASSUME TypeOK, NodesApart PROVE IsFiniteSet(members) /\ Cardinality(members) \in Nat
<1>1. IsFiniteSet(members)
  BY FS_Subset DEF TypeOK, NodesApart
<1> QED
  BY <1>1, FS_CardinalityType

--------------------------------------------------------------------------------
(* Type correctness *)
LEMMA TypeStep == ASSUME IInv, Next PROVE TypeOK'
<1> USE ThreadAssumption, SizeAssumption DEF IInv, nodes, group, thread, history, At, Call, Trouble, Service, Place
<1>1. ASSUME NEW t \in Threads, ResizeCall(t) PROVE TypeOK'
  BY <1>1 DEF ResizeCall, TypeOK
<1>2. ASSUME NEW t \in Threads, ReplaceMemberCall(t) PROVE TypeOK'
  BY <1>2 DEF ReplaceMemberCall, TypeOK
<1>3. ASSUME NEW t \in Threads, Start(t) PROVE TypeOK'
  BY <1>3 DEF Start, TypeOK
<1>4. ASSUME NEW t \in Threads, Stop(t) PROVE TypeOK'
  BY <1>4 DEF Stop, TypeOK
<1>5. ASSUME NEW t \in Threads, EnterResize(t) PROVE TypeOK'
  <2>1. Cardinality(members) \in Nat
    BY FiniteMembers
  <2>2. todo' \in [Threads -> Nat]
    BY <1>5, <2>1 DEF EnterResize, TypeOK
  <2> QED
    BY <1>5, <2>2 DEF EnterResize, TypeOK
<1>6. ASSUME NEW t \in Threads, EnterReplace(t) PROVE TypeOK'
  <2>1. Cardinality(members) \in Nat
    BY FiniteMembers
  <2> QED
    BY <1>6, <2>1 DEF EnterReplace, TypeOK
<1> DEFINE Left(t) == Leave(t, TRUE) \/ Leave(t, FALSE)
<1>l. ASSUME NEW t \in Threads, Left(t), mutex = t
      PROVE  /\ pc' \in [Threads -> Place] /\ mutex' \in Threads \cup {NoThread}
             /\ \A u \in Threads : pc'[u] \in {"idle", "blocked"} <=> mutex' # u
             /\ \A u \in Threads : mutex' # u => mine'[u] = {} /\ todo'[u] = 0
             /\ mine' \in [Threads -> SUBSET made] /\ todo' \in [Threads -> Nat]
             /\ service' \in Service /\ interrupted' \subseteq {Scaler}
             /\ UNCHANGED <<op, want, victim>>
  BY <1>l DEF Leave, TypeOK
<1>7. ASSUME NEW t \in Threads, AddNode(t) PROVE TypeOK'
  BY <1>7 DEF AddNode, Takes, AddMember, TypeOK
<1>8. ASSUME NEW t \in Threads, FactoryThrows(t) PROVE TypeOK'
  <2>1. mutex = t
    BY <1>8 DEF FactoryThrows, TypeOK
  <2> QED
    BY <1>8, <1>l, <2>1 DEF FactoryThrows, Throws, TypeOK
<1>9. ASSUME NEW t \in Threads, InvokeStart(t) PROVE TypeOK'
  BY <1>9 DEF InvokeStart, TypeOK
<1>10. ASSUME NEW t \in Threads, StartInterrupted(t) PROVE TypeOK'
  <2>1. mutex = t
    BY <1>10 DEF StartInterrupted, TypeOK
  <2> QED
    BY <1>10, <1>l, <2>1 DEF StartInterrupted, Throws, TypeOK
<1>11. ASSUME NEW t \in Threads, CleanUp(t) PROVE TypeOK'
  BY <1>11 DEF CleanUp, RemoveMember, Held, Growing, TypeOK
<1>12. ASSUME NEW t \in Threads, GrowEnds(t) PROVE TypeOK'
  <2>1. mutex = t
    BY <1>12 DEF GrowEnds, Grown, TypeOK
  <2> QED
    BY <1>12, <1>l, <2>1 DEF GrowEnds, Returns, Throws, TypeOK
<1>13. ASSUME NEW t \in Threads, RemoveVictim(t) PROVE TypeOK'
  BY <1>13 DEF RemoveVictim, Grown, RemoveMember, Held, Growing, Replacing, TypeOK
<1>14. ASSUME NEW t \in Threads, PickAndRemoveMember(t) PROVE TypeOK'
  BY <1>14 DEF PickAndRemoveMember, Takes, RemoveMember, TypeOK
<1>15. ASSUME NEW t \in Threads, PickThrows(t) PROVE TypeOK'
  <2>1. mutex = t /\ mine[t] \subseteq Nodes
    BY <1>15 DEF PickThrows, TypeOK
  <2> QED
    BY <1>15, <1>l, <2>1 DEF PickThrows, Throws, TypeOK
<1>16. ASSUME NEW t \in Threads, InvokeStop(t) PROVE TypeOK'
  BY <1>16 DEF InvokeStop, TypeOK
<1>17. ASSUME NEW t \in Threads, StopAwaited(t) PROVE TypeOK'
  BY <1>17 DEF StopAwaited, TypeOK
<1>18. ASSUME NEW t \in Threads, DiscardNodes(t) PROVE TypeOK'
  <2>1. mutex = t
    BY <1>18 DEF DiscardNodes, TypeOK
  <2>2. mine[t] \cap (members \cup quarantined) = {}
    BY <1>18 DEF DiscardNodes, Held, Shrinking
  <2>3. members \subseteq managed' /\ quarantined \subseteq managed' /\ managed' \subseteq managed
    BY <1>18, <2>2 DEF DiscardNodes, TypeOK
  <2> QED
    BY <1>18, <1>l, <2>1, <2>3 DEF DiscardNodes, Returns, Throws, TypeOK
<1>19. ASSUME NEW n \in Nodes, StartEnds(n) PROVE TypeOK'
  BY <1>19 DEF StartEnds, TypeOK
<1>20. ASSUME NEW n \in Nodes, StopEnds(n) PROVE TypeOK'
  BY <1>20 DEF StopEnds, TypeOK
<1>21. ASSUME NEW n \in Nodes, Unmanage(n) PROVE TypeOK'
  BY <1>21 DEF Unmanage, RemoveMember, TypeOK
<1> QED
  BY <1>1, <1>2, <1>3, <1>4, <1>5, <1>6, <1>7, <1>8, <1>9, <1>10, <1>11, <1>12, <1>13, <1>14,
     <1>15, <1>16, <1>17, <1>18, <1>19, <1>20, <1>21 DEF Next, Grow, Shrink

--------------------------------------------------------------------------------
LEMMA ApartStep == ASSUME IInv, Next PROVE NodesApart'
<1> USE DEF IInv, NodesApart, nodes, group, thread, history
<1>1. CASE UNCHANGED <<made, starting, running, broken, stuck>> /\ lost \subseteq lost'
  BY <1>1
<1>2. ASSUME NEW t \in Threads, AddNode(t) PROVE NodesApart'
  <2>1. PICK n \in Nodes \ made : made' = made \cup {n}
    BY <1>2 DEF AddNode
  <2>2. IsFiniteSet(made')
    BY <2>1, FS_AddElement
  <2> QED
    BY <1>2, <2>2 DEF AddNode, Takes
<1>3. ASSUME NEW t \in Threads, InvokeStart(t) PROVE NodesApart'
  BY <1>3 DEF InvokeStart, Held, Growing
<1>4. ASSUME NEW n \in Nodes, StartEnds(n) PROVE NodesApart'
  BY <1>4 DEF StartEnds
<1>5. ASSUME NEW n \in Nodes, StopEnds(n) PROVE NodesApart'
  BY <1>5 DEF StopEnds
<1>6. ASSUME NEW n \in Nodes, Unmanage(n) PROVE NodesApart'
  BY <1>6 DEF Unmanage
<1>7. ASSUME NEW t \in Threads,
             \/ ResizeCall(t) \/ ReplaceMemberCall(t) \/ Start(t) \/ Stop(t)
             \/ EnterResize(t) \/ EnterReplace(t)
      PROVE  NodesApart'
  BY <1>1, <1>7 DEF ResizeCall, ReplaceMemberCall, Start, Stop, Call, EnterResize, EnterReplace
<1>8. ASSUME NEW t \in Threads,
             FactoryThrows(t) \/ StartInterrupted(t) \/ CleanUp(t) \/ GrowEnds(t) \/ RemoveVictim(t)
      PROVE  NodesApart'
  BY <1>1, <1>8 DEF FactoryThrows, StartInterrupted, CleanUp, GrowEnds, RemoveVictim
<1>9. ASSUME NEW t \in Threads, Shrink(t) PROVE NodesApart'
  BY <1>1, <1>9 DEF Shrink, PickAndRemoveMember, Takes, PickThrows, InvokeStop, StopAwaited, DiscardNodes
<1> QED
  BY <1>2, <1>3, <1>4, <1>5, <1>6, <1>7, <1>8, <1>9 DEF Next, Grow

(* What the threads hold.  Only the thread with the mutex has any, and only *)
(* it starts, stops, adds, removes and quarantines nodes; tasks that end    *)
(* and a foreign unmanage leave it in order.                                *)
LEMMA HeldStep == ASSUME IInv, Next PROVE Held'
<1> USE ThreadAssumption DEF IInv, nodes, group, thread, history, At, Call
<1>h. ASSUME NEW u \in Threads PROVE Growing(u) /\ Shrinking(u) /\ Replacing(u)
  BY DEF Held
<1>1. ASSUME NEW t \in Threads, ResizeCall(t), NEW u \in Threads PROVE (Growing(u) /\ Shrinking(u) /\ Replacing(u))'
  BY <1>1, <1>h DEF ResizeCall, Growing, Shrinking, Replacing, TypeOK, NodesApart
<1>2. ASSUME NEW t \in Threads, ReplaceMemberCall(t), NEW u \in Threads PROVE (Growing(u) /\ Shrinking(u) /\ Replacing(u))'
  BY <1>2, <1>h DEF ReplaceMemberCall, Growing, Shrinking, Replacing, TypeOK, NodesApart
<1>3. ASSUME NEW t \in Threads, Start(t), NEW u \in Threads PROVE (Growing(u) /\ Shrinking(u) /\ Replacing(u))'
  BY <1>3, <1>h DEF Start, Growing, Shrinking, Replacing, TypeOK, NodesApart
<1>4. ASSUME NEW t \in Threads, Stop(t), NEW u \in Threads PROVE (Growing(u) /\ Shrinking(u) /\ Replacing(u))'
  BY <1>4, <1>h DEF Stop, Growing, Shrinking, Replacing, TypeOK, NodesApart
<1>5. ASSUME NEW t \in Threads, EnterResize(t), NEW u \in Threads PROVE (Growing(u) /\ Shrinking(u) /\ Replacing(u))'
  BY <1>5, <1>h DEF EnterResize, Growing, Shrinking, Replacing, TypeOK, NodesApart
<1>6. ASSUME NEW t \in Threads, EnterReplace(t), NEW u \in Threads PROVE (Growing(u) /\ Shrinking(u) /\ Replacing(u))'
  BY <1>6, <1>h DEF EnterReplace, Growing, Shrinking, Replacing, TypeOK, NodesApart
<1>7. ASSUME NEW t \in Threads, AddNode(t), NEW u \in Threads PROVE (Growing(u) /\ Shrinking(u) /\ Replacing(u))'
  BY <1>7, <1>h DEF AddNode, Takes, AddMember, Growing, Shrinking, Replacing, TypeOK, NodesApart
<1>8. ASSUME NEW t \in Threads, FactoryThrows(t), NEW u \in Threads PROVE (Growing(u) /\ Shrinking(u) /\ Replacing(u))'
  BY <1>8, <1>h DEF FactoryThrows, Throws, Leave, Growing, Shrinking, Replacing, TypeOK, NodesApart
<1>9. ASSUME NEW t \in Threads, InvokeStart(t), NEW u \in Threads PROVE (Growing(u) /\ Shrinking(u) /\ Replacing(u))'
  BY <1>9, <1>h DEF InvokeStart, Growing, Shrinking, Replacing, TypeOK, NodesApart
<1>10. ASSUME NEW t \in Threads, StartInterrupted(t), NEW u \in Threads PROVE (Growing(u) /\ Shrinking(u) /\ Replacing(u))'
  BY <1>10, <1>h DEF StartInterrupted, Throws, Leave, Growing, Shrinking, Replacing, TypeOK, NodesApart
<1>11. ASSUME NEW t \in Threads, CleanUp(t), NEW u \in Threads PROVE (Growing(u) /\ Shrinking(u) /\ Replacing(u))'
  BY <1>11, <1>h DEF CleanUp, RemoveMember, Growing, Shrinking, Replacing, TypeOK, NodesApart
<1>12. ASSUME NEW t \in Threads, GrowEnds(t), NEW u \in Threads PROVE (Growing(u) /\ Shrinking(u) /\ Replacing(u))'
  BY <1>12, <1>h DEF GrowEnds, Returns, Throws, Leave, Growing, Shrinking, Replacing, TypeOK, NodesApart
<1>13. ASSUME NEW t \in Threads, RemoveVictim(t), NEW u \in Threads PROVE (Growing(u) /\ Shrinking(u) /\ Replacing(u))'
  BY <1>13, <1>h DEF RemoveVictim, Grown, RemoveMember, Growing, Shrinking, Replacing, TypeOK, NodesApart
<1>14. ASSUME NEW t \in Threads, PickAndRemoveMember(t), NEW u \in Threads PROVE (Growing(u) /\ Shrinking(u) /\ Replacing(u))'
  BY <1>14, <1>h DEF PickAndRemoveMember, Takes, RemoveMember, Growing, Shrinking, Replacing, TypeOK, NodesApart
<1>15. ASSUME NEW t \in Threads, PickThrows(t), NEW u \in Threads PROVE (Growing(u) /\ Shrinking(u) /\ Replacing(u))'
  BY <1>15, <1>h DEF PickThrows, Throws, Leave, Growing, Shrinking, Replacing, TypeOK, NodesApart
<1>16. ASSUME NEW t \in Threads, InvokeStop(t), NEW u \in Threads PROVE (Growing(u) /\ Shrinking(u) /\ Replacing(u))'
  BY <1>16, <1>h DEF InvokeStop, Growing, Shrinking, Replacing, TypeOK, NodesApart
<1>17. ASSUME NEW t \in Threads, StopAwaited(t), NEW u \in Threads PROVE (Growing(u) /\ Shrinking(u) /\ Replacing(u))'
  BY <1>17, <1>h DEF StopAwaited, Growing, Shrinking, Replacing, TypeOK, NodesApart
<1>18. ASSUME NEW t \in Threads, DiscardNodes(t), NEW u \in Threads PROVE (Growing(u) /\ Shrinking(u) /\ Replacing(u))'
  BY <1>18, <1>h DEF DiscardNodes, Returns, Throws, Leave, Growing, Shrinking, Replacing, TypeOK, NodesApart
<1>19. ASSUME NEW n \in Nodes, StartEnds(n), NEW u \in Threads PROVE (Growing(u) /\ Shrinking(u) /\ Replacing(u))'
  BY <1>19, <1>h DEF StartEnds, Growing, Shrinking, Replacing, TypeOK, NodesApart
<1>20. ASSUME NEW n \in Nodes, StopEnds(n), NEW u \in Threads PROVE (Growing(u) /\ Shrinking(u) /\ Replacing(u))'
  BY <1>20, <1>h DEF StopEnds, Growing, Shrinking, Replacing, TypeOK, NodesApart
<1>21. ASSUME NEW n \in Nodes, Unmanage(n), NEW u \in Threads PROVE (Growing(u) /\ Shrinking(u) /\ Replacing(u))'
  BY <1>21, <1>h DEF Unmanage, RemoveMember, Growing, Shrinking, Replacing, TypeOK, NodesApart
<1> QED
  BY <1>1, <1>2, <1>3, <1>4, <1>5, <1>6, <1>7, <1>8, <1>9, <1>10, <1>11, <1>12, <1>13, <1>14, <1>15, <1>16, <1>17, <1>18, <1>19, <1>20, <1>21 DEF Held, Next, Grow, Shrink

--------------------------------------------------------------------------------
(* NoNodeAstray *)

(* With the thread that has the mutex named, and that thread in a call     *)
AstrayAt(t) ==
  running \cup starting \cup managed \subseteq members \cup quarantined \cup mine[t] \cup lost

LEMMA AstrayOfHolder ==
  ASSUME TypeOK, NEW t \in Threads, mutex = t
  PROVE  NoNodeAstray <=> AstrayAt(t)
<1>1. InHand = mine[t]
  BY InHandIs
<1> QED
  BY <1>1 DEF NoNodeAstray, AstrayAt

(* A thread that leaves keeps nothing. *)
LEMMA AstrayOfLeaver ==
  ASSUME IInv, NEW t \in Threads, mutex = t, Leave(t, TRUE) \/ Leave(t, FALSE),
         UNCHANGED <<members, quarantined, running, starting>>,
         managed' \subseteq managed, lost \subseteq lost',
         mine[t] \cap (running \cup starting \cup managed') \subseteq members \cup quarantined \cup lost'
  PROVE  NoNodeAstray'
<1>1. AstrayAt(t)
  BY AstrayOfHolder DEF IInv
<1> QED
  BY <1>1 DEF NoNodeAstray, AstrayAt

LEMMA AstrayStep == ASSUME IInv, Next, TypeOK' PROVE NoNodeAstray'
<1> USE ThreadAssumption DEF IInv, nodes, group, thread, history, At, Call
<1>i. /\ \A n : n \in InHand <=> \E t \in Threads : mutex = t /\ n \in mine[t]
      /\ \A n : n \in InHand' <=> \E t \in Threads : mutex' = t /\ n \in mine'[t]
  BY DEF InHand
<1>h. ASSUME NEW u \in Threads PROVE Growing(u) /\ Shrinking(u) /\ Replacing(u)
  BY DEF Held
<1>1. ASSUME UNCHANGED nodes, UNCHANGED members, UNCHANGED lost, InHand \subseteq InHand' PROVE NoNodeAstray'
  BY <1>1 DEF NoNodeAstray
<1>2. ASSUME NEW t \in Threads, ResizeCall(t) \/ ReplaceMemberCall(t) \/ Start(t) \/ Stop(t) PROVE NoNodeAstray'
  BY <1>1, <1>2, <1>i DEF ResizeCall, ReplaceMemberCall, Start, Stop
<1>3. ASSUME NEW t \in Threads, EnterResize(t) \/ EnterReplace(t) PROVE NoNodeAstray'
  BY <1>1, <1>3, <1>i DEF EnterResize, EnterReplace
<1>4. ASSUME NEW t \in Threads, AddNode(t) PROVE NoNodeAstray'
  <2>1. mutex = t /\ mutex' = t
    BY <1>4 DEF AddNode, Takes, AddMember, TypeOK
  <2>2. AstrayAt(t)
    BY <2>1, AstrayOfHolder
  <2>3. AstrayAt(t)'
    BY <1>4, <1>h, <2>1, <2>2 DEF AddNode, Takes, AddMember, AstrayAt, Growing, Shrinking, Replacing, TypeOK, NodesApart
  <2> QED
    BY <2>1, <2>3, <1>i DEF NoNodeAstray, AstrayAt
<1>5. ASSUME NEW t \in Threads, InvokeStart(t) PROVE NoNodeAstray'
  <2>1. mutex = t /\ mutex' = t
    BY <1>5 DEF InvokeStart, TypeOK
  <2>2. AstrayAt(t)
    BY <2>1, AstrayOfHolder
  <2>3. AstrayAt(t)'
    BY <1>5, <1>h, <2>1, <2>2 DEF InvokeStart, AstrayAt, Growing, Shrinking, Replacing, TypeOK, NodesApart
  <2> QED
    BY <2>1, <2>3, <1>i DEF NoNodeAstray, AstrayAt
<1>6. ASSUME NEW t \in Threads, CleanUp(t) PROVE NoNodeAstray'
  <2>1. mutex = t /\ mutex' = t
    BY <1>6 DEF CleanUp, RemoveMember, TypeOK
  <2>2. AstrayAt(t)
    BY <2>1, AstrayOfHolder
  <2>3. AstrayAt(t)'
    BY <1>6, <1>h, <2>1, <2>2 DEF CleanUp, RemoveMember, AstrayAt, Growing, Shrinking, Replacing, TypeOK, NodesApart
  <2> QED
    BY <2>1, <2>3, <1>i DEF NoNodeAstray, AstrayAt
<1>7. ASSUME NEW t \in Threads, RemoveVictim(t) PROVE NoNodeAstray'
  <2>1. mutex = t /\ mutex' = t
    BY <1>7 DEF RemoveVictim, Grown, RemoveMember, TypeOK
  <2>2. AstrayAt(t)
    BY <2>1, AstrayOfHolder
  <2>3. AstrayAt(t)'
    BY <1>7, <1>h, <2>1, <2>2 DEF RemoveVictim, Grown, RemoveMember, AstrayAt, Growing, Shrinking, Replacing, TypeOK, NodesApart
  <2> QED
    BY <2>1, <2>3, <1>i DEF NoNodeAstray, AstrayAt
<1>8. ASSUME NEW t \in Threads, PickAndRemoveMember(t) PROVE NoNodeAstray'
  <2>1. mutex = t /\ mutex' = t
    BY <1>8 DEF PickAndRemoveMember, Takes, RemoveMember, TypeOK
  <2>2. AstrayAt(t)
    BY <2>1, AstrayOfHolder
  <2>3. AstrayAt(t)'
    BY <1>8, <1>h, <2>1, <2>2 DEF PickAndRemoveMember, Takes, RemoveMember, AstrayAt, Growing, Shrinking, Replacing, TypeOK, NodesApart
  <2> QED
    BY <2>1, <2>3, <1>i DEF NoNodeAstray, AstrayAt
<1>9. ASSUME NEW t \in Threads, InvokeStop(t) PROVE NoNodeAstray'
  <2>1. mutex = t /\ mutex' = t
    BY <1>9 DEF InvokeStop, TypeOK
  <2>2. AstrayAt(t)
    BY <2>1, AstrayOfHolder
  <2>3. AstrayAt(t)'
    BY <1>9, <1>h, <2>1, <2>2 DEF InvokeStop, AstrayAt, Growing, Shrinking, Replacing, TypeOK, NodesApart
  <2> QED
    BY <2>1, <2>3, <1>i DEF NoNodeAstray, AstrayAt
<1>10. ASSUME NEW t \in Threads, StopAwaited(t) PROVE NoNodeAstray'
  <2>1. mutex = t /\ mutex' = t
    BY <1>10 DEF StopAwaited, TypeOK
  <2>2. AstrayAt(t)
    BY <2>1, AstrayOfHolder
  <2>3. AstrayAt(t)'
    BY <1>10, <1>h, <2>1, <2>2 DEF StopAwaited, AstrayAt, Growing, Shrinking, Replacing, TypeOK, NodesApart
  <2> QED
    BY <2>1, <2>3, <1>i DEF NoNodeAstray, AstrayAt
<1>11. ASSUME NEW t \in Threads, FactoryThrows(t) PROVE NoNodeAstray'
  <2>1. mutex = t /\ (Leave(t, TRUE) \/ Leave(t, FALSE))
    BY <1>11 DEF FactoryThrows, Returns, Throws, TypeOK
  <2>2. /\ UNCHANGED <<members, quarantined, running, starting>>
        /\ managed' \subseteq managed /\ lost \subseteq lost'
        /\ mine[t] \cap (running \cup starting \cup managed') \subseteq members \cup quarantined \cup lost'
    BY <1>11, <1>h DEF FactoryThrows, Growing, Shrinking, TypeOK
  <2> QED
    BY <2>1, <2>2, AstrayOfLeaver
<1>12. ASSUME NEW t \in Threads, StartInterrupted(t) PROVE NoNodeAstray'
  <2>1. mutex = t /\ (Leave(t, TRUE) \/ Leave(t, FALSE))
    BY <1>12 DEF StartInterrupted, Returns, Throws, TypeOK
  <2>2. /\ UNCHANGED <<members, quarantined, running, starting>>
        /\ managed' \subseteq managed /\ lost \subseteq lost'
        /\ mine[t] \cap (running \cup starting \cup managed') \subseteq members \cup quarantined \cup lost'
    BY <1>12, <1>h DEF StartInterrupted, Growing, Shrinking, TypeOK
  <2> QED
    BY <2>1, <2>2, AstrayOfLeaver
<1>13. ASSUME NEW t \in Threads, GrowEnds(t) PROVE NoNodeAstray'
  <2>1. mutex = t /\ (Leave(t, TRUE) \/ Leave(t, FALSE))
    BY <1>13 DEF GrowEnds, Grown, Returns, Throws, TypeOK
  <2>2. /\ UNCHANGED <<members, quarantined, running, starting>>
        /\ managed' \subseteq managed /\ lost \subseteq lost'
        /\ mine[t] \cap (running \cup starting \cup managed') \subseteq members \cup quarantined \cup lost'
    BY <1>13, <1>h DEF GrowEnds, Grown, Growing, Shrinking, TypeOK
  <2> QED
    BY <2>1, <2>2, AstrayOfLeaver
<1>14. ASSUME NEW t \in Threads, PickThrows(t) PROVE NoNodeAstray'
  <2>1. mutex = t /\ (Leave(t, TRUE) \/ Leave(t, FALSE))
    BY <1>14 DEF PickThrows, Returns, Throws, TypeOK
  <2>2. /\ UNCHANGED <<members, quarantined, running, starting>>
        /\ managed' \subseteq managed /\ lost \subseteq lost'
        /\ mine[t] \cap (running \cup starting \cup managed') \subseteq members \cup quarantined \cup lost'
    BY <1>14, <1>h DEF PickThrows, Growing, Shrinking, TypeOK
  <2> QED
    BY <2>1, <2>2, AstrayOfLeaver
<1>15. ASSUME NEW t \in Threads, DiscardNodes(t) PROVE NoNodeAstray'
  <2>1. mutex = t /\ (Leave(t, TRUE) \/ Leave(t, FALSE))
    BY <1>15 DEF DiscardNodes, Returns, Throws, TypeOK
  <2>2. /\ UNCHANGED <<members, quarantined, running, starting>>
        /\ managed' \subseteq managed /\ lost \subseteq lost'
        /\ mine[t] \cap (running \cup starting \cup managed') \subseteq members \cup quarantined \cup lost'
    BY <1>15, <1>h DEF DiscardNodes, Growing, Shrinking, TypeOK
  <2> QED
    BY <2>1, <2>2, AstrayOfLeaver
<1>16. ASSUME NEW n \in Nodes, StartEnds(n) PROVE NoNodeAstray'
  BY <1>16, <1>i DEF StartEnds, NoNodeAstray
<1>17. ASSUME NEW n \in Nodes, StopEnds(n) PROVE NoNodeAstray'
  BY <1>17, <1>i DEF StopEnds, NoNodeAstray
<1>18. ASSUME NEW n \in Nodes, Unmanage(n) PROVE NoNodeAstray'
  BY <1>18, <1>i DEF Unmanage, RemoveMember, NoNodeAstray
<1> QED
  BY <1>2, <1>3, <1>4, <1>5, <1>6, <1>7, <1>8, <1>9, <1>10, <1>11, <1>12, <1>13, <1>14, <1>15, <1>16, <1>17, <1>18 DEF Next, Grow, Shrink

--------------------------------------------------------------------------------
(* SizeIsTarget *)

LEMMA Remaining ==
  ASSUME TypeOK, NodesApart, NEW t
  PROVE  /\ IsFiniteSet(members \ {victim[t]}) /\ Rest(t) \in Nat
         /\ victim[t] \notin members => Rest(t) = Cardinality(members)
<1>1. IsFiniteSet(members)
  BY FiniteMembers
<1>2. IsFiniteSet(members \ {victim[t]})
  BY <1>1, FS_RemoveElement
<1>3. Rest(t) \in Nat
  BY <1>2, FS_CardinalityType DEF Rest
<1>4. ASSUME victim[t] \notin members PROVE members \ {victim[t]} = members
  BY <1>4
<1> QED
  BY <1>2, <1>3, <1>4 DEF Rest

LEMMA RestUnchanged ==
  ASSUME NEW t, victim'[t] = victim[t], members' \ {victim[t]} = members \ {victim[t]}
  PROVE  Rest(t)' = Rest(t)
BY DEF Rest

(* One member more or less, other than the victim *)
LEMMA OneMore ==
  ASSUME TypeOK, NodesApart, NEW t, victim'[t] = victim[t],
         NEW n, n \notin members, n # victim[t], members' = members \cup {n}
  PROVE  Rest(t)' = Rest(t) + 1
<1> DEFINE R == members \ {victim[t]}
<1>1. members' \ {victim'[t]} = R \cup {n} /\ n \notin R
  OBVIOUS
<1>2. IsFiniteSet(R)
  BY Remaining
<1> HIDE DEF R
<1>3. Cardinality(R \cup {n}) = Cardinality(R) + 1
  BY <1>1, <1>2, FS_AddElement
<1> QED
  BY <1>1, <1>3 DEF R, Rest

LEMMA OneLess ==
  ASSUME TypeOK, NodesApart, NEW t, victim'[t] = victim[t],
         NEW n \in members, n # victim[t], members' = members \ {n}
  PROVE  Rest(t)' = Rest(t) - 1
<1> DEFINE R == members \ {victim[t]}
<1>1. members' \ {victim'[t]} = R \ {n} /\ n \in R
  OBVIOUS
<1>2. IsFiniteSet(R)
  BY Remaining
<1> HIDE DEF R
<1>3. Cardinality(R \ {n}) = Cardinality(R) - 1
  BY <1>1, <1>2, FS_RemoveElement
<1> QED
  BY <1>1, <1>3 DEF R, Rest

LEMMA SizeStep == ASSUME IInv, Sized, Next, TypeOK' PROVE Sized'
<1> USE ThreadAssumption DEF IInv, nodes, group, thread, history, At, Call
<1>h. ASSUME NEW u \in Threads PROVE Growing(u) /\ Shrinking(u) /\ Replacing(u)
  BY DEF Held
<1>m. missed \in Nat /\ Cardinality(members) \in Nat
  BY FiniteMembers DEF Sized
<1>w. ASSUME NEW t \in Threads PROVE want[t] \in Int /\ todo[t] \in Nat /\ Rest(t) \in Nat /\ Due(t) \in Int
  <2>1. want[t] \in Int /\ todo[t] \in Nat
    BY DEF TypeOK
  <2>2. Rest(t) \in Nat
    BY Remaining
  <2>3. Due(t) \in Int
    BY <2>1 DEF Due
  <2> QED
    BY <2>1, <2>2, <2>3
<1>s. ASSUME NEW t \in Threads, mutex = t PROVE Rest(t) + missed + Due(t) = want[t]
  BY <1>s DEF Sized, SizedFor
<1>q. ASSUME NEW t \in Threads, mutex' = t, missed' \in Nat, Rest(t)' + missed' + Due(t)' = want'[t]
      PROVE  Sized'
  BY <1>q DEF Sized, SizedFor
(* Steps that leave the members, and what they lack, as they are *)
<1>1. ASSUME UNCHANGED <<members, missed, mutex>>,
             \A t \in Threads : mutex = t => UNCHANGED <<victim[t], want[t], Due(t)>>
      PROVE  Sized'
  <2>1. ASSUME NEW t \in Threads, mutex = t PROVE Rest(t)' = Rest(t)
    BY <1>1, <2>1, RestUnchanged
  <2> QED
    BY <1>1, <2>1 DEF Sized, SizedFor
<1>2. ASSUME NEW t \in Threads, ResizeCall(t) \/ ReplaceMemberCall(t) \/ Start(t) \/ Stop(t) PROVE Sized'
  <2>1. mutex # t /\ UNCHANGED <<members, missed, mutex, todo>>
    BY <1>2 DEF ResizeCall, ReplaceMemberCall, Start, Stop, TypeOK
  <2>2. \A u \in Threads : u # t => UNCHANGED <<pc[u], want[u], victim[u]>>
    BY <1>2 DEF ResizeCall, ReplaceMemberCall, Start, Stop, TypeOK
  <2> QED
    BY <1>1, <2>1, <2>2 DEF Due
<1>3. ASSUME NEW t \in Threads, EnterResize(t) PROVE Sized'
  <2>1. mutex' = t /\ missed' = 0 /\ UNCHANGED <<members, want, victim>>
    BY <1>3 DEF EnterResize
  <2>2. victim[t] \notin members
    BY <1>3, <1>h DEF EnterResize, Replacing, TypeOK
  <2>3. Rest(t)' = Cardinality(members)
    BY <2>1, <2>2, Remaining, RestUnchanged
  <2>4. Due(t)' = want[t] - Cardinality(members)
    BY <1>3, <1>m, <1>w DEF EnterResize, Due, TypeOK
  <2>5. Rest(t)' + missed' + Due(t)' = want'[t]
    BY <2>1, <2>3, <2>4, <1>m, <1>w
  <2> QED
    BY <2>1, <2>5, <1>q
<1>4. ASSUME NEW t \in Threads, EnterReplace(t) PROVE Sized'
  <2>1. CASE victim[t] \in members
    <3>1. mutex' = t /\ missed' = 0 /\ UNCHANGED <<members, victim>> /\ want'[t] = Cardinality(members) /\ Due(t)' = 1
      BY <1>4, <2>1 DEF EnterReplace, Due, TypeOK
    <3>2. Rest(t) = Cardinality(members) - 1
      BY <2>1, FiniteMembers, FS_RemoveElement DEF Rest
    <3>3. Rest(t)' = Rest(t)
      BY <3>1, RestUnchanged
    <3>4. Rest(t)' + missed' + Due(t)' = want'[t]
      BY <3>1, <3>2, <3>3, <1>m
    <3> QED
      BY <3>1, <3>4, <1>q
  <2>2. CASE victim[t] \notin members
    BY <1>4, <2>2 DEF EnterReplace, Sized
  <2> QED
    BY <2>1, <2>2
<1>5. ASSUME NEW t \in Threads, AddNode(t) PROVE Sized'
  <2>1. PICK n \in Nodes \ made : members' = members \cup {n} /\ Takes(t, n)
    BY <1>5 DEF AddNode, AddMember
  <2>2. mutex = t /\ pc[t] = "adding"
    BY <1>5 DEF AddNode, TypeOK
  <2>3. n # victim[t] /\ n \notin members
    BY <2>2, <1>h DEF Replacing, TypeOK
  <2>4. UNCHANGED <<mutex, missed, want, victim>>
    BY <2>1 DEF Takes
  <2>5. Rest(t)' = Rest(t) + 1
    BY <2>1, <2>3, <2>4, OneMore
  <2>6. Due(t)' = Due(t) - 1
    BY <2>1, <2>2 DEF Takes, Due, TypeOK
  <2>7. Rest(t)' + missed' + Due(t)' = want'[t]
    BY <2>2, <2>4, <2>5, <2>6, <1>m, <1>s, <1>w
  <2> QED
    BY <2>2, <2>4, <2>7, <1>m, <1>q
<1>6. ASSUME NEW t \in Threads, Leave(t, TRUE) \/ Leave(t, FALSE), missed' = missed PROVE Sized'
  BY <1>6 DEF Leave, Sized
<1>7. ASSUME NEW t \in Threads, FactoryThrows(t) \/ StartInterrupted(t) \/ GrowEnds(t) \/ PickThrows(t) \/ DiscardNodes(t)
      PROVE  Sized'
  BY <1>6, <1>7 DEF FactoryThrows, StartInterrupted, GrowEnds, PickThrows, DiscardNodes, Returns, Throws
<1>8. ASSUME NEW t \in Threads, InvokeStart(t) \/ InvokeStop(t) \/ StopAwaited(t) PROVE Sized'
  <2>1. mutex = t /\ UNCHANGED <<members, missed, mutex, want, victim, todo>>
    BY <1>8 DEF InvokeStart, InvokeStop, StopAwaited, TypeOK
  <2>2. Due(t)' = Due(t)
    BY <1>8 DEF InvokeStart, InvokeStop, StopAwaited, Due, TypeOK
  <2> QED
    BY <1>1, <2>1, <2>2
<1>9. ASSUME NEW t \in Threads, CleanUp(t) PROVE Sized'
  <2>1. PICK n \in mine[t] \cap broken :
          members' = members \ {n} /\ missed' = IF n \in members THEN missed + 1 ELSE missed
    BY <1>9 DEF CleanUp, RemoveMember
  <2>2. mutex = t /\ pc[t] = "awaiting" /\ UNCHANGED <<mutex, want, victim, pc, todo>>
    BY <1>9 DEF CleanUp, TypeOK
  <2>3. n # victim[t] /\ n \in members
    BY <2>2, <1>h DEF Growing, Replacing, TypeOK
  <2>4. Rest(t)' = Rest(t) - 1
    BY <2>1, <2>2, <2>3, OneLess
  <2>5. Due(t)' = Due(t) /\ missed' = missed + 1
    BY <2>1, <2>2, <2>3 DEF Due
  <2>6. Rest(t)' + missed' + Due(t)' = want'[t]
    BY <2>2, <2>4, <2>5, <1>m, <1>s, <1>w
  <2> QED
    BY <2>2, <2>5, <2>6, <1>m, <1>q
<1>10. ASSUME NEW t \in Threads, RemoveVictim(t) PROVE Sized'
  <2>1. mutex = t /\ pc[t] = "awaiting" /\ todo[t] = 0
    BY <1>10, <1>h DEF RemoveVictim, Grown, Growing, TypeOK
  <2>2. members' = members \ {victim[t]} /\ UNCHANGED <<mutex, missed, want, victim, todo>>
    BY <1>10 DEF RemoveVictim, RemoveMember
  <2>3. Rest(t)' = Rest(t)
    BY <2>2, RestUnchanged
  <2>4. pc'[t] = "picking"
    BY <1>10 DEF RemoveVictim, TypeOK
  <2>5. Due(t) = 0 /\ Due(t)' = 0
    BY <2>1, <2>2, <2>4 DEF Due
  <2>6. Rest(t)' + missed' + Due(t)' = want'[t]
    BY <2>1, <2>2, <2>3, <2>5, <1>m, <1>s, <1>w
  <2> QED
    BY <2>1, <2>2, <2>6, <1>m, <1>q
<1>11. ASSUME NEW t \in Threads, PickAndRemoveMember(t) PROVE Sized'
  <2>1. PICK n \in members : members' = members \ {n} /\ Takes(t, n)
    BY <1>11 DEF PickAndRemoveMember, RemoveMember
  <2>2. mutex = t /\ pc[t] = "picking" /\ todo[t] > 0
    BY <1>11 DEF PickAndRemoveMember, Takes, TypeOK
  <2>3. n # victim[t]
    BY <2>2, <1>h DEF Replacing, TypeOK
  <2>4. UNCHANGED <<mutex, missed, want, victim>>
    BY <2>1 DEF Takes
  <2>5. Rest(t)' = Rest(t) - 1
    BY <2>1, <2>3, <2>4, OneLess
  <2>6. Due(t)' = Due(t) + 1
    BY <2>1, <2>2 DEF Takes, Due, TypeOK
  <2>7. Rest(t)' + missed' + Due(t)' = want'[t]
    BY <2>2, <2>4, <2>5, <2>6, <1>m, <1>s, <1>w
  <2> QED
    BY <2>2, <2>4, <2>7, <1>m, <1>q
<1>12. ASSUME NEW n \in Nodes, StartEnds(n) \/ StopEnds(n) PROVE Sized'
  <2>1. UNCHANGED <<members, missed, mutex, victim, want, pc, todo>>
    BY <1>12 DEF StartEnds, StopEnds
  <2> QED
    BY <1>1, <2>1 DEF Due
<1>13. ASSUME NEW n \in Nodes, Unmanage(n) PROVE Sized'
  <2>1. n \in members /\ members' = members \ {n} /\ UNCHANGED <<mutex, want, victim, pc, todo>>
    BY <1>13 DEF Unmanage, RemoveMember
  <2>2. missed' \in Nat
    BY <1>13, <1>m DEF Unmanage
  <2>3. ASSUME NEW t \in Threads, mutex = t PROVE Sized'
    <3>1. Due(t)' = Due(t)
      BY <2>1 DEF Due
    <3>2. CASE n = victim[t]
      <4>1. missed' = missed
        BY <1>13, <2>3, <3>2 DEF Unmanage
      <4>2. Rest(t)' = Rest(t)
        BY <2>1, <3>2, RestUnchanged
      <4>3. Rest(t)' + missed' + Due(t)' = want'[t]
        BY <2>1, <2>3, <3>1, <4>1, <4>2, <1>m, <1>s, <1>w
      <4> QED
        BY <2>1, <2>2, <2>3, <4>3, <1>q
    <3>3. CASE n # victim[t]
      <4>1. missed' = missed + 1
        BY <1>13, <2>3, <3>3 DEF Unmanage
      <4>2. Rest(t)' = Rest(t) - 1
        BY <2>1, <3>3, OneLess
      <4>3. Rest(t)' + missed' + Due(t)' = want'[t]
        BY <2>1, <2>3, <3>1, <4>1, <4>2, <1>m, <1>s, <1>w
      <4> QED
        BY <2>1, <2>2, <2>3, <4>3, <1>q
    <3> QED
      BY <3>2, <3>3
  <2> QED
    BY <2>1, <2>2, <2>3 DEF Sized
<1> QED
  BY <1>2, <1>3, <1>4, <1>5, <1>7, <1>8, <1>9, <1>10, <1>11, <1>12, <1>13 DEF Next, Grow, Shrink

(* What a call that returns leaves *)
LEMMA SizeOnReturn == ASSUME IInv, Sized, NEW t \in Threads, Returned(t) PROVE Cardinality(members) = want[t] - missed
<1>1. mutex = t /\ pc[t] \in {"discarding", "awaiting"} /\ (pc[t] = "awaiting" => op[t] # "replace")
  BY DEF IInv, Returned, TypeOK
<1>2. victim[t] \notin members
  BY <1>1, ThreadAssumption DEF IInv, Held, Shrinking, Replacing, TypeOK
<1>3. Rest(t) = Cardinality(members) /\ Rest(t) \in Nat
  BY <1>2, Remaining DEF IInv
<1>4. Rest(t) + missed + 0 = want[t] /\ missed \in Nat
  BY <1>1 DEF Sized, SizedFor, Due
<1>5. want[t] \in Int
  BY DEF IInv, TypeOK
<1> QED
  BY <1>3, <1>4, <1>5

--------------------------------------------------------------------------------
(* The events on their way *)

Heard(kind, n) == \E i \in DOMAIN queue : queue[i] = [kind |-> kind, node |-> n]

(* A node is added once, and removed at most once, after that. *)
QueueSound ==
  /\ queue \in Seq([kind : {"added", "removed"}, node : made])
  /\ \A i, j \in DOMAIN queue :
       i < j /\ queue[i].node = queue[j].node => queue[i].kind = "added" /\ queue[j].kind = "removed"
  /\ \A n \in members : ~Heard("removed", n)

LEMMA HeardAppended ==
  ASSUME QueueSound, NEW k, NEW n, queue' = Append(queue, [kind |-> k, node |-> n])
  PROVE  \A kind, x : Heard(kind, x)' <=> Heard(kind, x) \/ (kind = k /\ x = n)
<1>1. /\ Len(queue) \in Nat /\ DOMAIN queue = 1..Len(queue) /\ DOMAIN queue' = 1..(Len(queue) + 1)
      /\ \A i \in 1..Len(queue) : queue'[i] = queue[i]
      /\ queue'[Len(queue) + 1] = [kind |-> k, node |-> n]
  BY DEF QueueSound
<1> QED
  BY <1>1 DEF Heard

LEMMA HeardTail ==
  ASSUME QueueSound, queue # <<>>, queue' = Tail(queue)
  PROVE  \A kind, x : Heard(kind, x) <=> Heard(kind, x)' \/ Head(queue) = [kind |-> kind, node |-> x]
<1>1. /\ Len(queue) \in Nat \ {0} /\ DOMAIN queue = 1..Len(queue) /\ DOMAIN queue' = 1..(Len(queue) - 1)
      /\ \A i \in 1..(Len(queue) - 1) : queue'[i] = queue[i + 1]
      /\ Head(queue) = queue[1]
  BY DEF QueueSound
<1> SUFFICES ASSUME NEW kind, NEW x
             PROVE  Heard(kind, x) <=> Heard(kind, x)' \/ Head(queue) = [kind |-> kind, node |-> x]
  OBVIOUS
<1>2. ASSUME NEW i \in DOMAIN queue, queue[i] = [kind |-> kind, node |-> x], i # 1
      PROVE  Heard(kind, x)'
  <2>1. i - 1 \in DOMAIN queue' /\ queue'[i - 1] = queue[i]
    BY <1>1, <1>2
  <2> QED
    BY <1>2, <2>1 DEF Heard
<1>3. ASSUME NEW i \in DOMAIN queue', queue'[i] = [kind |-> kind, node |-> x]
      PROVE  Heard(kind, x)
  <2>1. i + 1 \in DOMAIN queue /\ queue[i + 1] = queue'[i]
    BY <1>1, <1>3
  <2> QED
    BY <1>3, <2>1 DEF Heard
<1> QED
  BY <1>1, <1>2, <1>3 DEF Heard

(* Every step of the cluster adds a new node, removes a member or does neither. *)
LEMMA Changes ==
  ASSUME TypeOK, Next
  PROVE  /\ listening' = listening
         /\ \/ UNCHANGED <<members, queue, made>>
            \/ \E n \in Nodes \ made : made' = made \cup {n} /\ members' = members \cup {n} /\ Emit("added", n)
            \/ \E n \in members : made' = made /\ members' = members \ {n} /\ Emit("removed", n)
<1> USE DEF nodes, group
<1>1. ASSUME NEW t \in Threads,
             \/ ResizeCall(t) \/ ReplaceMemberCall(t) \/ Start(t) \/ Stop(t)
             \/ EnterResize(t) \/ EnterReplace(t) \/ FactoryThrows(t) \/ InvokeStart(t)
             \/ StartInterrupted(t) \/ GrowEnds(t) \/ PickThrows(t) \/ InvokeStop(t)
             \/ StopAwaited(t) \/ DiscardNodes(t)
      PROVE  UNCHANGED <<members, queue, made, listening>>
  BY <1>1 DEF ResizeCall, ReplaceMemberCall, Start, Stop, Call, EnterResize, EnterReplace, FactoryThrows,
     InvokeStart, StartInterrupted, GrowEnds, PickThrows, InvokeStop, StopAwaited, DiscardNodes
<1>2. ASSUME NEW n \in Nodes, StartEnds(n) \/ StopEnds(n)
      PROVE  UNCHANGED <<members, queue, made, listening>>
  BY <1>2 DEF StartEnds, StopEnds
<1>3. ASSUME NEW t \in Threads, AddNode(t)
      PROVE  listening' = listening /\ \E n \in Nodes \ made : made' = made \cup {n} /\ AddMember(n)
  BY <1>3 DEF AddNode
<1>4. ASSUME NEW n, RemoveMember(n), made' = made
      PROVE  \/ UNCHANGED <<members, queue, made>>
             \/ n \in members /\ members' = members \ {n} /\ Emit("removed", n)
  BY <1>4 DEF RemoveMember
<1>5. ASSUME NEW t \in Threads, CleanUp(t) \/ RemoveVictim(t) \/ PickAndRemoveMember(t)
      PROVE  listening' = listening /\ made' = made /\ \E n : RemoveMember(n)
  BY <1>5 DEF CleanUp, RemoveVictim, PickAndRemoveMember
<1>6. ASSUME NEW n \in Nodes, Unmanage(n)
      PROVE  listening' = listening /\ made' = made /\ RemoveMember(n)
  BY <1>6 DEF Unmanage
<1> QED
  BY <1>1, <1>2, <1>3, <1>4, <1>5, <1>6 DEF Next, Grow, Shrink, AddMember

LEMMA SeqOfMore == ASSUME NEW S, NEW T, S \subseteq T, NEW q \in Seq(S) PROVE q \in Seq(T)
<1>1. \A i \in 1..Len(q) : q[i] \in T
  OBVIOUS
<1> QED
  BY <1>1

LEMMA QueueOfCluster == ASSUME TypeOK, QueueSound, Next PROVE QueueSound'
<1> DEFINE Message == [kind : {"added", "removed"}, node : made]
<1>1. CASE UNCHANGED <<members, queue, made>>
  BY <1>1 DEF QueueSound, Heard
(* An event of n goes to the end of a queue without a later event of n. *)
<1>2. ASSUME NEW k \in {"added", "removed"}, NEW n \in made',
             queue' = Append(queue, [kind |-> k, node |-> n]), made \subseteq made',
             \A i \in DOMAIN queue : queue[i].node = n => queue[i].kind = "added" /\ k = "removed",
             members' \subseteq members \cup {n}, k = "removed" => n \notin members', ~Heard("removed", n)
      PROVE  QueueSound'
  <2>1. queue \in Seq(Message) /\ Len(queue) \in Nat
    BY DEF QueueSound
  <2>2. queue' \in Seq(Message')
    <3>1. Message \subseteq Message' /\ [kind |-> k, node |-> n] \in Message'
      BY <1>2
    <3> HIDE DEF Message
    <3>2. queue \in Seq(Message')
      BY <2>1, <3>1, SeqOfMore
    <3> QED
      BY <1>2, <3>1, <3>2
  <2>3. /\ DOMAIN queue = 1..Len(queue) /\ DOMAIN queue' = 1..(Len(queue) + 1)
        /\ \A i \in 1..Len(queue) : queue'[i] = queue[i]
        /\ queue'[Len(queue) + 1] = [kind |-> k, node |-> n]
    BY <1>2, <2>1
  <2>4. ASSUME NEW i \in DOMAIN queue', NEW j \in DOMAIN queue', i < j, queue'[i].node = queue'[j].node
        PROVE  queue'[i].kind = "added" /\ queue'[j].kind = "removed"
    <3>1. i \in 1..Len(queue)
      BY <2>1, <2>3, <2>4
    <3>2. CASE j \in 1..Len(queue)
      BY <2>3, <2>4, <3>1, <3>2 DEF QueueSound
    <3>3. CASE j = Len(queue) + 1
      BY <2>3, <2>4, <3>1, <3>3, <1>2
    <3> QED
      BY <2>1, <2>3, <3>2, <3>3
  <2>5. ASSUME NEW x \in members' PROVE ~Heard("removed", x)'
    <3>1. ~Heard("removed", x)
      BY <1>2, <2>5 DEF QueueSound
    <3> QED
      BY <1>2, <2>5, <3>1, HeardAppended
  <2> QED
    BY <2>2, <2>4, <2>5 DEF QueueSound
<1>3. ASSUME NEW i \in DOMAIN queue
      PROVE  /\ queue[i].node \in made /\ queue[i].kind \in {"added", "removed"}
             /\ queue[i] = [kind |-> queue[i].kind, node |-> queue[i].node]
  <2>1. queue[i] \in Message
    <3>1. queue \in Seq(Message)
      BY DEF QueueSound
    <3> HIDE DEF Message
    <3> QED
      BY <3>1
  <2> QED
    BY <2>1
<1>4. ASSUME NEW n \in Nodes \ made, made' = made \cup {n}, members' = members \cup {n}, Emit("added", n)
      PROVE  QueueSound'
  <2>1. ~Heard("removed", n) /\ ~Heard("added", n)
    BY <1>3, <1>4 DEF Heard
  <2>2. CASE queue' = queue
    <3>1. queue' \in Seq(Message')
      <4>1. queue \in Seq(Message) /\ Message \subseteq Message'
        BY <1>4 DEF QueueSound
      <4> HIDE DEF Message
      <4> QED
        BY <2>2, <4>1, SeqOfMore
    <3> QED
      BY <1>4, <2>1, <2>2, <3>1 DEF QueueSound, Heard
  <2>3. CASE queue' = Append(queue, [kind |-> "added", node |-> n])
    BY <1>2, <1>3, <1>4, <2>1, <2>3
  <2> QED
    BY <1>4, <2>2, <2>3 DEF Emit
<1>5. ASSUME NEW n \in members, made' = made, members' = members \ {n}, Emit("removed", n)
      PROVE  QueueSound'
  <2>1. ~Heard("removed", n) /\ n \in made
    BY DEF QueueSound, TypeOK
  <2>2. CASE queue' = queue
    BY <1>5, <2>2 DEF QueueSound, Heard
  <2>3. CASE queue' = Append(queue, [kind |-> "removed", node |-> n])
    <3>1. \A i \in DOMAIN queue : queue[i].node = n => queue[i].kind = "added"
      BY <1>3, <2>1 DEF Heard
    <3> QED
      BY <1>2, <1>5, <2>1, <2>3, <3>1
  <2> QED
    BY <1>5, <2>2, <2>3 DEF Emit
<1> QED
  BY <1>1, <1>4, <1>5, Changes

LEMMA QueueOfEvent == ASSUME QueueSound, OnEvent PROVE QueueSound'
<1>1. /\ Len(queue) \in Nat \ {0} /\ DOMAIN queue = 1..Len(queue) /\ DOMAIN queue' = 1..(Len(queue) - 1)
      /\ \A i \in 1..(Len(queue) - 1) : queue'[i] = queue[i + 1]
      /\ queue' \in Seq([kind : {"added", "removed"}, node : made])
  BY DEF OnEvent, QueueSound
<1>2. UNCHANGED <<made, members>>
  BY DEF OnEvent, cluster, nodes
<1>3. ASSUME NEW i \in DOMAIN queue', NEW j \in DOMAIN queue', i < j, queue'[i].node = queue'[j].node
      PROVE  queue'[i].kind = "added" /\ queue'[j].kind = "removed"
  <2>1. i + 1 \in DOMAIN queue /\ j + 1 \in DOMAIN queue /\ i + 1 < j + 1
    BY <1>1, <1>3
  <2> QED
    BY <1>1, <1>3, <2>1 DEF QueueSound
<1>4. ASSUME NEW x \in members PROVE ~Heard("removed", x)'
  BY HeardTail DEF OnEvent, QueueSound
<1> QED
  BY <1>1, <1>2, <1>3, <1>4 DEF QueueSound

--------------------------------------------------------------------------------
(* TrackerCatchesUp *)

Listens ==
  /\ stage \in Stage /\ (stage # "telling" => pending = {})
  /\ listening = IF stage = "off" THEN {} ELSE IF stage = "subscribing" THEN {"added"} ELSE {"added", "removed"}

(* A member is known, or the policy is about to be told of it; who is known *)
(* and no member was not heard of or is about to be.                        *)
Knows ==
  /\ stage \in {"telling", "on"} => \A n \in members : n \in told \cup pending \/ Heard("added", n)
  /\ \A n : n \in told \/ Heard("added", n) => n \in members \cup unheard \/ Heard("removed", n)
  /\ pending \subseteq members \cup unheard

TInv == IInv /\ Sized /\ QueueSound /\ Listens /\ Knows

LEMMA InitTInv == TrackedInit => TInv
<1> SUFFICES ASSUME TrackedInit PROVE TInv
  OBVIOUS
<1>1. IInv
  BY InitIInv DEF TrackedInit
<1>2. Sized
  BY ThreadAssumption DEF TrackedInit, Init, Sized
<1>3. QueueSound
  BY DEF TrackedInit, Init, QueueSound
<1>4. Listens
  BY DEF TrackedInit, Init, Listens, Stage
<1>5. Knows
  BY DEF TrackedInit, Init, Knows, Heard
<1> QED
  BY <1>1, <1>2, <1>3, <1>4, <1>5 DEF TInv

LEMMA ClusterKnows == ASSUME TInv, ClusterStep PROVE Listens' /\ Knows'
<1>1. Next /\ TypeOK /\ QueueSound /\ Listens /\ Knows /\ UNCHANGED <<told, pending, stage>>
  BY DEF TInv, IInv, ClusterStep
<1>2. Listens'
  BY <1>1, Changes DEF Listens
<1>3. CASE UNCHANGED <<members, queue, made>>
  <2>1. unheard' = unheard
    BY <1>3 DEF ClusterStep
  <2>2. \A kind, x : Heard(kind, x)' <=> Heard(kind, x)
    BY <1>3 DEF Heard
  <2> QED
    BY <1>1, <1>2, <1>3, <2>1, <2>2 DEF Knows
<1>4. ASSUME NEW n \in Nodes \ made, members' = members \cup {n}, Emit("added", n) PROVE Knows'
  <2>1. members \ members' = {} /\ unheard' = unheard
    BY <1>4 DEF ClusterStep
  <2>2. CASE "added" \in listening
    <3>1. \A kind, x : Heard(kind, x)' <=> Heard(kind, x) \/ (kind = "added" /\ x = n)
      BY <1>1, <1>4, <2>2, HeardAppended DEF Emit
    <3> QED
      BY <1>1, <1>4, <2>1, <3>1 DEF Knows
  <2>3. CASE "added" \notin listening
    <3>1. stage = "off" /\ queue' = queue
      BY <1>1, <1>4, <2>3 DEF Emit, Listens
    <3> QED
      BY <1>1, <1>4, <2>1, <3>1 DEF Knows, Heard
  <2> QED
    BY <2>2, <2>3
<1>5. ASSUME NEW n \in members, members' = members \ {n}, Emit("removed", n) PROVE Knows'
  <2>1. members \ members' = {n} /\ unheard' = IF stage \in {"copying", "on"} THEN unheard ELSE unheard \cup {n}
    BY <1>5 DEF ClusterStep
  <2>2. CASE "removed" \in listening
    <3>1. \A kind, x : Heard(kind, x)' <=> Heard(kind, x) \/ (kind = "removed" /\ x = n)
      BY <1>1, <1>5, <2>2, HeardAppended DEF Emit
    <3>2. n \in pending => n \in unheard'
      BY <1>1, <2>1 DEF Listens
    <3> QED
      BY <1>1, <1>5, <2>1, <3>1, <3>2 DEF Knows
  <2>3. CASE "removed" \notin listening
    <3>1. stage \in {"off", "subscribing"} /\ queue' = queue
      BY <1>1, <1>5, <2>3 DEF Emit, Listens
    <3> QED
      BY <1>1, <1>5, <2>1, <3>1 DEF Knows, Heard
  <2> QED
    BY <2>2, <2>3
<1> QED
  BY <1>1, <1>2, <1>3, <1>4, <1>5, Changes

(* The policy's own steps leave the cluster alone. *)
LEMMA PolicyLeaves ==
  ASSUME IInv, Sized, UNCHANGED cluster, listening' \subseteq {"added", "removed"}
  PROVE  IInv' /\ Sized'
<1> USE DEF cluster, nodes, thread, history
<1>1. TypeOK' /\ NodesApart'
  BY DEF IInv, TypeOK, NodesApart
<1>2. Held'
  BY DEF IInv, Held, Growing, Shrinking, Replacing
<1>3. NoNodeAstray'
  BY DEF IInv, NoNodeAstray, InHand
<1>4. Sized'
  BY DEF Sized, SizedFor, Rest, Due
<1> QED
  BY <1>1, <1>2, <1>3, <1>4 DEF IInv

LEMMA PolicyKnows == ASSUME TInv, Policy PROVE QueueSound' /\ Listens' /\ Knows'
<1>i. QueueSound /\ Listens /\ Knows
  BY DEF TInv
<1>1. CASE UNCHANGED <<cluster, queue>>
  <2>1. UNCHANGED <<members, made, queue>>
    BY <1>1 DEF cluster, nodes
  <2>2. \A kind, x : Heard(kind, x)' <=> Heard(kind, x)
    BY <2>1 DEF Heard
  <2>3. QueueSound'
    BY <1>i, <2>1, <2>2 DEF QueueSound
  <2>4. CASE SubscribeAdded
    BY <1>i, <2>1, <2>2, <2>3, <2>4 DEF SubscribeAdded, Listens, Knows, Stage
  <2>5. CASE SubscribeRemoved
    BY <1>i, <2>1, <2>2, <2>3, <2>5 DEF SubscribeRemoved, Listens, Knows, Stage
  <2>6. CASE GetMembers
    BY <1>i, <2>1, <2>2, <2>3, <2>6 DEF GetMembers, Listens, Knows, Stage
  <2>7. CASE TellEntityAdded
    <3>1. CASE pending = {}
      BY <1>i, <2>1, <2>2, <2>3, <2>7, <3>1 DEF TellEntityAdded, Listens, Knows, Stage
    <3>2. CASE pending # {}
      <4>1. PICK n \in pending : told' = told \cup {n} /\ pending' = pending \ {n}
        BY <2>7, <3>2 DEF TellEntityAdded
      <4>2. stage = "telling" /\ UNCHANGED <<stage, listening, unheard>>
        BY <2>7, <3>2 DEF TellEntityAdded
      <4> QED
        BY <1>i, <2>1, <2>2, <2>3, <4>1, <4>2 DEF Listens, Knows
    <3> QED
      BY <3>1, <3>2
  <2>8. CASE Unsubscribe
    BY <1>i, <2>1, <2>2, <2>3, <2>8 DEF Unsubscribe, Listens, Knows, Stage
  <2>9. CASE OnEvent
    <3>1. Len(queue) \in Nat \ {0} /\ Len(Tail(queue)) = Len(queue) - 1
      BY <1>i, <2>9 DEF OnEvent, QueueSound
    <3> QED
      BY <1>1, <2>9, <3>1 DEF OnEvent
  <2> QED
    BY <2>4, <2>5, <2>6, <2>7, <2>8, <2>9 DEF Policy
<1>2. CASE OnEvent
  <2>1. QueueSound'
    BY <1>i, <1>2, QueueOfEvent
  <2>2. UNCHANGED <<members, listening, pending, stage, unheard>>
    BY <1>2 DEF OnEvent, cluster
  <2>3. \A kind, x : Heard(kind, x) <=> Heard(kind, x)' \/ Head(queue) = [kind |-> kind, node |-> x]
    BY <1>i, <1>2, HeardTail DEF OnEvent
  <2>4. PICK k \in {"added", "removed"}, n \in made : Head(queue) = [kind |-> k, node |-> n]
    <3>1. Head(queue) \in [kind : {"added", "removed"}, node : made]
      <4> DEFINE Message == [kind : {"added", "removed"}, node : made]
      <4>1. queue \in Seq(Message) /\ queue # <<>>
        BY <1>i, <1>2 DEF OnEvent, QueueSound
      <4> HIDE DEF Message
      <4>2. Head(queue) \in Message
        BY <4>1
      <4> QED
        BY <4>2 DEF Message
    <3> QED
      BY <3>1
  <2>5. CASE k = "added"
    <3>1. told' = told \cup {n}
      BY <1>2, <2>4, <2>5 DEF OnEvent, Told
    <3> QED
      BY <1>i, <2>1, <2>2, <2>3, <2>4, <2>5, <3>1 DEF Listens, Knows
  <2>6. CASE k = "removed"
    <3>1. told' = told \ {n}
      BY <1>2, <2>4, <2>6 DEF OnEvent, Told
    <3>2. n \notin members
      BY <1>i, <2>3, <2>4, <2>6 DEF QueueSound
    (* No event of n is behind its removal. *)
    <3>3. ~Heard("added", n)'
      <4>1. /\ Len(queue) \in Nat \ {0} /\ DOMAIN queue = 1..Len(queue) /\ DOMAIN queue' = 1..(Len(queue) - 1)
            /\ \A i \in 1..(Len(queue) - 1) : queue'[i] = queue[i + 1]
            /\ Head(queue) = queue[1]
        BY <1>i, <1>2 DEF OnEvent, QueueSound
      <4>2. ASSUME NEW i \in DOMAIN queue' PROVE queue'[i].node # n
        <5>1. 1 \in DOMAIN queue /\ i + 1 \in DOMAIN queue /\ 1 < i + 1
          BY <4>1, <4>2
        <5>2. queue[1].kind = "removed" /\ queue[1].node = n
          BY <2>4, <2>6, <4>1
        <5> QED
          BY <1>i, <4>1, <4>2, <5>1, <5>2 DEF QueueSound
      <4> QED
        BY <4>2 DEF Heard
    <3> QED
      BY <1>i, <2>1, <2>2, <2>3, <2>4, <2>6, <3>1, <3>2, <3>3 DEF Listens, Knows
  <2> QED
    BY <2>4, <2>5, <2>6
<1> QED
  BY <1>1, <1>2 DEF Policy, SubscribeAdded, SubscribeRemoved, GetMembers, TellEntityAdded, Unsubscribe

LEMMA NextTInv == TInv /\ [TrackedNext]_allVars => TInv'
<1> SUFFICES ASSUME TInv, [TrackedNext]_allVars PROVE TInv'
  OBVIOUS
<1>1. CASE ClusterStep
  <2>1. IInv /\ Next /\ Sized /\ QueueSound
    BY <1>1 DEF TInv, ClusterStep
  <2>2. TypeOK /\ TypeOK'
    BY <2>1, TypeStep DEF IInv
  <2>3. IInv'
    BY <2>1, <2>2, ApartStep, HeldStep, AstrayStep DEF IInv
  <2> QED
    BY <1>1, <2>1, <2>2, <2>3, SizeStep, QueueOfCluster, ClusterKnows DEF TInv
<1>2. CASE Policy
  <2>1. listening' \subseteq {"added", "removed"} /\ UNCHANGED cluster
    BY <1>2 DEF TInv, IInv, TypeOK, Policy, SubscribeAdded, SubscribeRemoved, GetMembers, TellEntityAdded,
       Unsubscribe, OnEvent
  <2> QED
    BY <1>2, <2>1, PolicyLeaves, PolicyKnows DEF TInv
<1>3. CASE UNCHANGED allVars
  <2>1. UNCHANGED <<cluster, listening, queue, told, pending, stage, unheard>>
    BY <1>3 DEF allVars, vars, tracker, cluster, group
  <2>2. IInv' /\ Sized'
    BY <2>1, PolicyLeaves DEF TInv, IInv, TypeOK
  <2>3. QueueSound' /\ Listens' /\ Knows'
    BY <2>1 DEF TInv, QueueSound, Listens, Knows, Heard, cluster, nodes
  <2> QED
    BY <2>2, <2>3 DEF TInv
<1> QED
  BY <1>1, <1>2, <1>3 DEF TrackedNext

LEMMA Inductive == TrackedSpec => []TInv
BY InitTInv, NextTInv, PTL DEF TrackedSpec

(* Ranges, and that only the thread with the mutex is inside of a resize.   *)
THEOREM TypeCorrect == TrackedSpec => []TypeOK
<1>1. TInv => TypeOK
  BY DEF TInv, IInv
<1> QED
  BY <1>1, Inductive, PTL

(* No node is forgotten, for any number of resizes, failures and foreign    *)
(* unmanages.                                                               *)
THEOREM NothingAstray == TrackedSpec => []NoNodeAstray
<1>1. TInv => NoNodeAstray
  BY DEF TInv, IInv
<1> QED
  BY <1>1, Inductive, PTL

(* A call that returns leaves the members that it was asked for.            *)
THEOREM SizeReached == TrackedSpec => SizeIsTarget
<1>1. TInv /\ [TrackedNext]_allVars => [\A t \in Threads : Returned(t) => Cardinality(members) = want[t] - missed]_vars
  BY SizeOnReturn DEF TInv
<1> QED
  BY <1>1, Inductive, PTL DEF TrackedSpec, SizeIsTarget

(* Once its loop has ended and its events are delivered, the policy knows   *)
(* the members.                                                             *)
THEOREM CatchesUp == TrackedSpec => []TrackerCatchesUp
<1>1. ASSUME TInv PROVE TrackerCatchesUp
  <2>1. ASSUME queue = <<>>, NEW kind, NEW n PROVE ~Heard(kind, n)
    BY <2>1 DEF Heard
  <2> QED
    BY <1>1, <2>1 DEF TInv, Listens, Knows, TrackerCatchesUp
<1> QED
  BY <1>1, Inductive, PTL

================================================================================
