-------------------- MODULE SingleThreadedScheduler_proofs --------------------
(***************************************************************************)
(* Proofs about SingleThreadedScheduler for any set of jobs.  The inductive*)
(* invariant says who owns the turn to run; mutual exclusion and the order *)
(* of execution follow from it, and that somebody has yet to turn to each  *)
(* job that waits.                                                         *)
(***************************************************************************)
EXTENDS SingleThreadedScheduler, TLAPS

(* The queue holds, once each, jobs that the executor has not been given;   *)
(* the job that onEnd took is no longer among them.                         *)
QueueSound ==
  /\ \A i \in 1..Len(order) :
       kind[order[i]] = "wrapped" /\ exec[order[i]] = "none" /\ order[i] # next
  /\ \A i, k \in 1..Len(order) : order[i] = order[k] => i = k
  /\ \A j \in Job : kind[j] = "unsubmitted" => exec[j] = "none"

(* Futures of the executor, and their cancellation, come after the handover.*)
FuturesSound ==
  \A j \in Job : kind[j] = "direct" \/ delegate[j] \/ revoked[j] => exec[j] # "none"

IInv == TypeOK /\ QueueSound /\ FuturesSound /\ TurnConserved

(* The initial state has an empty queue and nobody to own the turn.         *)
LEMMA InitIInv == Init => IInv
  <1> SUFFICES ASSUME Init PROVE IInv
    OBVIOUS
  <1>1. TypeOK
    <2>1. order \in Seq(Job)
      BY DEF Init
    <2>2. kind \in [Job -> Kind] /\ exec \in [Job -> Phase]
      BY DEF Init, Kind, Phase
    <2>3. cancelPc \in [Job -> CancelPc] /\ getPc \in [Job -> GetPc]
      BY DEF Init, CancelPc, GetPc
    <2>4. QED
      BY <2>1, <2>2, <2>3 DEF Init, TypeOK
  <1>2. QueueSound /\ FuturesSound /\ TurnConserved
    BY DEF Init, QueueSound, FuturesSound, TurnConserved, TurnHolder
  <1>3. QED
    BY <1>1, <1>2 DEF IInv

(* The part of the steps that only the clients' threads see.                *)
LEMMA ClientIInv ==
  ASSUME IInv, NEW j \in Job, Cancel(j) \/ Get(j) \/ GetTimeout(j)
  PROVE  IInv'
  <1> USE DEF IInv, TypeOK, QueueSound, FuturesSound, TurnConserved, TurnHolder, HandedOver, server
  <1>1. CASE CancelFutureTask(j)
    BY <1>1 DEF CancelFutureTask, HasFutureTask, client
  <1>2. CASE CancelSeesNoDelegate(j)
    BY <1>2 DEF CancelSeesNoDelegate, CancelPc
  <1>3. CASE CancelMark(j)
    BY <1>3 DEF CancelMark, CancelPc
  <1>4. CASE CancelNotify(j)
    BY <1>4 DEF CancelNotify, Woken, CancelPc, GetPc
  <1>5. ASSUME NEW from \in GetPc, NEW to \in GetPc, GetStep(j, from, to)
        PROVE  IInv'
    BY <1>5 DEF GetStep
  <1>6. CASE Get(j) \/ GetTimeout(j)
    BY <1>5, <1>6 DEF Get, GetCall, GetTestCancelled, GetTestDelegate, GetDelegated,
       GetTimeout, GetPc
  <1>7. QED
    BY <1>1, <1>2, <1>3, <1>4, <1>6 DEF Cancel

(* The steps of the submitters, the executor's threads and shutdownNow.     *)
LEMMA ServerIInv ==
  ASSUME IInv, NEW j \in Job,
         \/ SubmitNow(j) \/ SubmitQueued(j) \/ Begin(j) \/ SkipRevoked(j)
         \/ EndBody(j) \/ Complete(j) \/ Shutdown
  PROVE  IInv'
  <1> USE NoneNotJob DEF IInv, TypeOK, QueueSound, FuturesSound, TurnConserved, TurnHolder,
      HandedOver, server, client
  <1>1. CASE SubmitNow(j)
    BY <1>1 DEF SubmitNow, Kind, Phase
  <1>2. CASE SubmitQueued(j)
    BY <1>2 DEF SubmitQueued, Kind, Phase
  <1>3. CASE Begin(j)
    BY <1>3 DEF Begin, Phase
  <1>4. CASE SkipRevoked(j)
    BY <1>4 DEF SkipRevoked, Phase
  <1>5. CASE EndBody(j)
    BY <1>5 DEF EndBody, Phase
  <1>6. CASE Complete(j)
    BY <1>6 DEF Complete, Phase
  <1>7. CASE Shutdown
    BY <1>7 DEF Shutdown
  <1>8. QED
    BY <1>1, <1>2, <1>3, <1>4, <1>5, <1>6, <1>7

(* onEnd passes the turn on, or gives it back when nobody is queued.        *)
LEMMA OnEndIInv ==
  ASSUME IInv, NEW j \in Job, OnEnd(j)
  PROVE  IInv'
  <1> USE NoneNotJob DEF IInv, TypeOK, QueueSound, FuturesSound, TurnConserved, TurnHolder,
      HandedOver, server, client, OnEndExit
  <1>1. CASE OnEndEnter(j)
    BY <1>1 DEF OnEndEnter
  <1>2. CASE OnEndIdle(j)
    <2>1. TypeOK' /\ FuturesSound'
      BY <1>2 DEF OnEndIdle, Phase
    <2>2. QueueSound'
      <3>1. order' = <<>> /\ Len(order') = 0
        BY <1>2 DEF OnEndIdle
      <3>2. QED
        BY <1>2, <3>1 DEF OnEndIdle
    <2>3. TurnConserved'
      BY <1>2 DEF OnEndIdle, Phase
    <2>4. QED
      BY <2>1, <2>2, <2>3
  <1>3. CASE OnEndTake(j)
    <2>1. /\ Head(order) \in Job /\ kind[Head(order)] = "wrapped"
          /\ exec[Head(order)] = "none" /\ Head(order) = order[1]
          /\ order' \in Seq(Job)
          /\ Len(order') = Len(order) - 1
          /\ \A i \in 1..Len(order') : order'[i] = order[i + 1]
      BY <1>3, 1 \in 1..Len(order) DEF OnEndTake
    <2>2. QueueSound'
      BY <1>3, <2>1 DEF OnEndTake
    <2>3. TypeOK'
      <3>1. next' \in Job \cup {None} /\ (next' # None => kind'[next'] = "wrapped")
        BY <1>3, <2>1 DEF OnEndTake
      <3>2. QED
        BY <1>3, <2>1, <3>1 DEF OnEndTake
    <2>4. TurnConserved' /\ FuturesSound'
      BY <1>3, <2>1 DEF OnEndTake
    <2>5. QED
      BY <2>2, <2>3, <2>4
  <1>4. CASE OnEndExecute(j)
    BY <1>4 DEF OnEndExecute, Phase
  <1>5. CASE OnEndRejected(j)
    BY <1>5 DEF OnEndRejected, Phase
  <1>6. CASE OnEndDelegate(j)
    BY <1>6 DEF OnEndDelegate, Phase, Woken, GetPc
  <1>7. QED
    BY <1>1, <1>2, <1>3, <1>4, <1>5, <1>6 DEF OnEnd

(* Every step preserves the invariant.                                      *)
LEMMA NextIInv == IInv /\ [Next]_vars => IInv'
  <1> SUFFICES ASSUME IInv, [Next]_vars PROVE IInv'
    OBVIOUS
  <1>1. CASE UNCHANGED vars
    BY <1>1 DEF vars, server, client, IInv, TypeOK, QueueSound, FuturesSound, TurnConserved,
       TurnHolder, HandedOver
  <1>2. CASE Shutdown
    BY <1>2, NoneNotJob DEF Shutdown, IInv, TypeOK, QueueSound, FuturesSound, TurnConserved,
       TurnHolder, HandedOver, client
  <1>3. CASE \E j \in Job : \/ SubmitNow(j) \/ SubmitQueued(j) \/ Begin(j)
                            \/ SkipRevoked(j) \/ EndBody(j) \/ Complete(j)
    BY <1>3, ServerIInv
  <1>4. CASE \E j \in Job : OnEnd(j)
    BY <1>4, OnEndIInv
  <1>5. CASE \E j \in Job : Cancel(j) \/ Get(j) \/ GetTimeout(j)
    BY <1>5, ClientIInv
  <1>6. QED
    BY <1>1, <1>2, <1>3, <1>4, <1>5 DEF Next

THEOREM Invariance == Spec => []IInv
  BY InitIInv, NextIInv, PTL DEF Spec

(* The variables keep their types, and the monitor of onEnd is only ever    *)
(* held by a thread in its finally block.                                   *)
THEOREM TypeCorrect == Spec => []TypeOK
  BY Invariance, PTL DEF IInv

(* Bodies never overlap: submit, onEnd and cancel together keep one turn.   *)
THEOREM MutualExclusion == Spec => []OneBodyAtATime
  <1>1. IInv => OneBodyAtATime
    BY DEF IInv, TurnConserved, TurnHolder, OneBodyAtATime
  <1>2. QED
    BY <1>1, Invariance, PTL

(* The turn is neither duplicated nor lost before a shutdown.               *)
THEOREM TurnIsConserved == Spec => []TurnConserved
  BY Invariance, PTL DEF IInv

-------------------------------------------------------------------------------
(* The scheduler implements SerialExecution.                                 *)

LEMMA AppendToLine ==
  ASSUME NEW S, NEW s \in Seq(S), NEW t \in Seq(S), NEW e \in S
  PROVE  s \o Append(t, e) = Append(s \o t, e)
  OBVIOUS

LEMMA PrefixHeadTail ==
  ASSUME NEW S, NEW e \in S, NEW t \in Seq(S)
  PROVE  <<e>> \o t # <<>> /\ Head(<<e>> \o t) = e /\ Tail(<<e>> \o t) = t
  OBVIOUS

LEMMA EmptyPrefix ==
  ASSUME NEW S, NEW t \in Seq(S)
  PROVE  <<>> \o t = t
  OBVIOUS

LEMMA HeadAndTail ==
  ASSUME NEW S, NEW t \in Seq(S), t # <<>>
  PROVE  /\ Head(t) \in S /\ Tail(t) \in Seq(S)
         /\ t = <<Head(t)>> \o Tail(t)
  OBVIOUS

(* There is one turn, so the owner's phase says what precedes the queue.     *)
LEMMA OwnerOfTheTurn ==
  ASSUME IInv, NEW j \in Job, TurnHolder(j)
  PROVE  /\ exec[j] = "pending" /\ ~revoked[j] => Ahead = {j} /\ Handed = <<j>>
         /\ exec[j] # "pending" \/ revoked[j] => Ahead = {} /\ Handed = <<>>
         /\ exec[j] = "body" => InBody = {j} /\ Active = j
         /\ exec[j] # "body" => InBody = {} /\ Active = None
  BY DEF IInv, TurnConserved, TurnHolder, Ahead, Handed, InBody, Active

LEMMA NobodysTurn ==
  ASSUME \A j \in Job : ~TurnHolder(j)
  PROVE  Ahead = {} /\ Handed = <<>> /\ InBody = {} /\ Active = None
  BY DEF TurnHolder, Ahead, Handed, InBody, Active

LEMMA LineType ==
  ASSUME IInv
  PROVE  Handed \in Seq(Job) /\ Taken \in Seq(Job) /\ order \in Seq(Job)
  <1>1. Handed \in Seq(Job)
    <2>1. CASE Ahead = {}
      BY <2>1 DEF Handed
    <2>2. CASE Ahead # {}
      BY <2>2 DEF Handed, Ahead
    <2>3. QED
      BY <2>1, <2>2
  <1>2. Taken \in Seq(Job)
    BY DEF Taken, IInv, TypeOK
  <1>3. QED
    BY <1>1, <1>2 DEF IInv, TypeOK

(* Steps of a thread that move it neither into nor out of these phases.      *)
LEMMA SameBodies ==
  ASSUME \A k \in Job : exec'[k] = "body" <=> exec[k] = "body"
  PROVE  InBody' = InBody /\ Active' = Active
  <1>1. InBody' = InBody
    BY DEF InBody
  <1>2. QED
    BY <1>1 DEF Active

LEMMA SameAhead ==
  ASSUME \A k \in Job : exec'[k] = "pending" /\ ~revoked'[k] <=> exec[k] = "pending" /\ ~revoked[k]
  PROVE  Ahead' = Ahead /\ Handed' = Handed
  <1>1. Ahead' = Ahead
    BY DEF Ahead
  <1>2. QED
    BY <1>1 DEF Handed

(* What SerialExecution sees of the state.                                   *)
Seen == <<Accepted, Line, Active>>

LEMMA InitRefines == Init => Abstract!Init
  <1> SUFFICES ASSUME Init PROVE Abstract!Init
    OBVIOUS
  <1>1. Accepted = {}
    BY DEF Init, Accepted, Submitted
  <1>2. Handed = <<>> /\ Active = None
    BY NobodysTurn DEF Init, TurnHolder
  <1>3. Line = <<>>
    BY <1>2, EmptyPrefix DEF Init, Line, Taken
  <1>4. QED
    BY <1>1, <1>2, <1>3 DEF Abstract!Init

(* submit appends the job to the line, unless the executor rejects it.       *)
LEMMA SubmitRefines ==
  ASSUME IInv, IInv', NEW j \in Job, SubmitNow(j) \/ SubmitQueued(j)
  PROVE  Abstract!Submit(j) \/ UNCHANGED Seen
  <1>1. CASE SubmitNow(j) /\ shutdown
    <2>1. UNCHANGED <<exec, revoked, order, next>>
      BY <1>1 DEF SubmitNow
    <2>2. Accepted' = Accepted
      BY <1>1 DEF SubmitNow, Accepted, Submitted, IInv, TypeOK
    <2>3. QED
      BY <2>1, <2>2 DEF Seen, Line, Handed, Taken, HandedOver, Ahead, Active, InBody
  <1>2. CASE SubmitNow(j) /\ ~shutdown
    <2>1. Line = <<>> /\ Active = None
      <3>1. order = <<>> /\ next = None /\ \A k \in Job : ~TurnHolder(k)
        BY <1>2 DEF SubmitNow, IInv, TypeOK, TurnConserved
      <3>2. QED
        BY <3>1, NobodysTurn, EmptyPrefix DEF Line, Taken
    <2>2. Line' = <<j>> /\ Active' = None
      <3>1. exec'[j] = "pending" /\ ~revoked'[j] /\ TurnHolder(j)'
        BY <1>2 DEF SubmitNow, IInv, TypeOK, FuturesSound, QueueSound, TurnHolder
      <3>2. Handed' = <<j>> /\ Active' = None
        BY <3>1 DEF IInv, TurnConserved, TurnHolder, Ahead, Handed, InBody, Active
      <3>3. Taken' = <<>> /\ order' = <<>>
        BY <1>2 DEF SubmitNow, IInv, TypeOK, TurnConserved, Taken
      <3>4. QED
        BY <3>2, <3>3 DEF Line
    <2>3. j \notin Accepted /\ Accepted' = Accepted \cup {j}
      BY <1>2 DEF SubmitNow, Accepted, Submitted, IInv, TypeOK
    <2>4. QED
      BY <2>1, <2>2, <2>3 DEF Abstract!Submit
  <1>3. CASE SubmitQueued(j)
    <2>1. j \notin Accepted /\ Accepted' = Accepted \cup {j}
      BY <1>3 DEF SubmitQueued, Accepted, Submitted, IInv, TypeOK
    <2>2. Handed' = Handed /\ Taken' = Taken /\ Active' = Active
      BY <1>3 DEF SubmitQueued, Handed, Taken, HandedOver, Ahead, Active, InBody
    <2>3. Line' = Append(Line, j)
      BY <1>3, <2>2, LineType, AppendToLine DEF SubmitQueued, Line
    <2>4. QED
      BY <2>1, <2>2, <2>3 DEF Abstract!Submit
  <1>4. QED
    BY <1>1, <1>2, <1>3

(* The executor's thread starts the head of the line and ends the active     *)
(* body; its other steps before and after onEnd are invisible.               *)
LEMMA ThreadRefines ==
  ASSUME IInv, IInv', NEW j \in Job,
         Begin(j) \/ SkipRevoked(j) \/ EndBody(j) \/ Complete(j)
  PROVE  Abstract!Start \/ Abstract!Finish \/ UNCHANGED Seen
  <1> USE DEF server, client
  <1>1. Accepted' = Accepted
    BY DEF Begin, SkipRevoked, EndBody, Complete, Accepted, Submitted
  <1>2. Taken' = Taken /\ order' = order
    BY DEF Begin, SkipRevoked, EndBody, Complete, Taken, HandedOver, IInv, TypeOK, Phase
  <1>3. CASE Begin(j)
    <2>1. TurnHolder(j) /\ TurnHolder(j)'
      BY <1>3 DEF Begin, TurnHolder, IInv, TypeOK
    <2>2. Handed = <<j>> /\ Active = None
      BY <1>3, <2>1, OwnerOfTheTurn DEF Begin
    <2>3. exec'[j] = "body"
      BY <1>3 DEF Begin, IInv, TypeOK
    <2>4. Handed' = <<>> /\ Active' = j
      BY <2>1, <2>3 DEF IInv, TurnConserved, TurnHolder, Ahead, Handed, InBody, Active
    <2>5. /\ Line = <<j>> \o (Taken \o order) /\ Line' = Taken \o order
          /\ Taken \o order \in Seq(Job)
      BY <1>2, <2>2, <2>4, LineType DEF Line
    <2>6. QED
      BY <1>1, <2>2, <2>4, <2>5, PrefixHeadTail DEF Abstract!Start
  <1>4. CASE EndBody(j)
    <2>1. TurnHolder(j)
      BY <1>4 DEF EndBody, TurnHolder
    <2>2. Active = j /\ Handed = <<>>
      BY <1>4, <2>1, OwnerOfTheTurn DEF EndBody
    <2>3. Active' = None
      BY <1>4, <2>1 DEF EndBody, IInv, TypeOK, TurnConserved, TurnHolder, InBody, Active
    <2>4. Ahead' = Ahead
      BY <1>4 DEF EndBody, Ahead, IInv, TypeOK
    <2>5. Line' = Line
      BY <1>2, <2>4 DEF Line, Handed
    <2>6. QED
      BY <1>1, <2>2, <2>3, <2>5, NoneNotJob DEF Abstract!Finish
  <1>5. CASE SkipRevoked(j) \/ Complete(j)
    <2>1. Ahead' = Ahead /\ InBody' = InBody
      BY <1>5 DEF SkipRevoked, Complete, Ahead, InBody, IInv, TypeOK
    <2>2. QED
      BY <1>1, <1>2, <2>1 DEF Seen, Line, Handed, Active
  <1>6. QED
    BY <1>3, <1>4, <1>5

(* Inside onEnd the thread owns the turn until it hands it over, so what it  *)
(* takes from the queue was the head of the line.                            *)
LEMMA OnEndRefines ==
  ASSUME IInv, IInv', NEW j \in Job, OnEnd(j)
  PROVE  Abstract!Drop \/ UNCHANGED Seen
  <1> USE DEF server, client
  <1>1. Accepted' = Accepted
    BY DEF OnEnd, OnEndEnter, OnEndIdle, OnEndTake, OnEndExecute, OnEndRejected,
       OnEndDelegate, Accepted, Submitted
  <1>2. InBody' = InBody /\ Active' = Active
    <2>1. CASE OnEndEnter(j) \/ OnEndTake(j)
      BY <2>1, SameBodies DEF OnEndEnter, OnEndTake
    <2>2. CASE OnEndIdle(j) \/ OnEndRejected(j) \/ OnEndDelegate(j)
      <3>1. exec[j] = "finally" /\ exec' = [exec EXCEPT ![j] = "closing"]
        BY <2>2, NoneNotJob DEF OnEndIdle, OnEndRejected, OnEndDelegate, OnEndExit, IInv, TypeOK
      <3>2. QED
        BY <3>1, SameBodies DEF IInv, TypeOK
    <2>3. CASE OnEndExecute(j)
      BY <2>3, SameBodies DEF OnEndExecute, IInv, TypeOK
    <2>4. QED
      BY <2>1, <2>2, <2>3 DEF OnEnd
  <1>3. ASSUME ender = j, ~HandedOver
        PROVE  Handed = <<>>
    <2>1. TurnHolder(j) /\ exec[j] = "finally"
      BY <1>3, NoneNotJob DEF TurnHolder, IInv, TypeOK
    <2>2. QED
      BY <2>1, OwnerOfTheTurn
  <1>4. CASE OnEndEnter(j) \/ OnEndIdle(j) \/ OnEndDelegate(j)
    <2>1. Handed' = Handed
      <3>1. CASE OnEndEnter(j)
        BY <3>1, SameAhead DEF OnEndEnter
      <3>2. CASE OnEndIdle(j) \/ OnEndDelegate(j)
        <4>1. /\ exec[j] = "finally" /\ exec' = [exec EXCEPT ![j] = "closing"]
              /\ revoked' = revoked
          BY <3>2, NoneNotJob DEF OnEndIdle, OnEndDelegate, OnEndExit, IInv, TypeOK
        <4>2. QED
          BY <4>1, SameAhead DEF IInv, TypeOK
      <3>3. QED
        BY <1>4, <3>1, <3>2
    <2>2. Taken' = Taken
      <3>1. CASE OnEndEnter(j)
        BY <3>1 DEF OnEndEnter, Taken, HandedOver
      <3>2. CASE OnEndIdle(j) \/ OnEndDelegate(j)
        BY <3>2 DEF OnEndIdle, OnEndDelegate, OnEndExit, Taken, HandedOver
      <3>3. QED
        BY <1>4, <3>1, <3>2
    <2>3. order' = order
      BY <1>4 DEF OnEndEnter, OnEndIdle, OnEndDelegate
    <2>4. QED
      BY <1>1, <1>2, <2>1, <2>2, <2>3 DEF Seen, Line
  <1>5. CASE OnEndTake(j)
    <2>1. ~HandedOver /\ Handed = <<>> /\ Taken = <<>>
      BY <1>3, <1>5 DEF OnEndTake, HandedOver, Taken
    <2>2. Handed' = <<>>
      BY <1>5, <2>1 DEF OnEndTake, Handed, Ahead
    <2>3. order \in Seq(Job) /\ order # <<>>
      BY <1>5 DEF OnEndTake, IInv, TypeOK
    <2>4. Line = order
      BY <2>1, <2>3, EmptyPrefix DEF Line
    <2>5. exec[Head(order)] = "none"
      BY <2>3, 1 \in 1..Len(order) DEF IInv, QueueSound
    <2>6. CASE next' = None
      <3>1. Line' = Tail(order)
        BY <1>5, <2>2, <2>3, <2>6, EmptyPrefix, HeadAndTail DEF OnEndTake, Line, Taken
      <3>2. QED
        BY <1>1, <1>2, <2>3, <2>4, <3>1 DEF Abstract!Drop
    <2>7. CASE next' # None
      <3>1. Taken' = <<Head(order)>> /\ order' = Tail(order)
        BY <1>5, <2>5, <2>7 DEF OnEndTake, Taken, HandedOver
      <3>2. Line' = order
        BY <2>2, <2>3, <3>1, HeadAndTail, EmptyPrefix DEF Line
      <3>3. QED
        BY <1>1, <1>2, <2>4, <3>2 DEF Seen
    <2>8. QED
      BY <2>6, <2>7
  <1>6. CASE OnEndExecute(j)
    <2>1. ~HandedOver /\ next \in Job /\ Handed = <<>> /\ Taken = <<next>>
      BY <1>3, <1>6 DEF OnEndExecute, HandedOver, Taken, IInv, TypeOK
    <2>2. exec'[next] = "pending" /\ ~revoked'[next] /\ TurnHolder(next)' /\ next' = next
      BY <1>6, <2>1 DEF OnEndExecute, IInv, TypeOK, FuturesSound, TurnHolder
    <2>3. Handed' = <<next>> /\ Taken' = <<>>
      BY <2>1, <2>2 DEF IInv, TurnConserved, TurnHolder, Handed, Ahead, Taken, HandedOver
    <2>4. Line' = Line
      BY <1>6, <2>1, <2>3, LineType DEF OnEndExecute, Line
    <2>5. QED
      BY <1>1, <1>2, <2>4 DEF Seen
  <1>7. CASE OnEndRejected(j)
    <2>1. ~HandedOver /\ next \in Job /\ Handed = <<>> /\ Taken = <<next>>
      BY <1>3, <1>7 DEF OnEndRejected, HandedOver, Taken, IInv, TypeOK
    <2>2. Ahead' = Ahead /\ Handed' = <<>> /\ Taken' = <<>>
      BY <1>7, <2>1 DEF OnEndRejected, OnEndExit, Handed, Ahead, Taken, IInv, TypeOK
    <2>3. Line = <<next>> \o order /\ Line' = order /\ order \in Seq(Job)
      BY <1>7, <2>1, <2>2, LineType, EmptyPrefix DEF OnEndRejected, Line
    <2>4. QED
      BY <1>1, <1>2, <2>1, <2>3, PrefixHeadTail DEF Abstract!Drop
  <1>8. QED
    BY <1>4, <1>5, <1>6, <1>7 DEF OnEnd

(* Cancelling the FutureTask of the head of the line drops it; marking a     *)
(* queued future, and waiting for one, change nothing in the line.           *)
LEMMA ClientRefines ==
  ASSUME IInv, IInv', NEW j \in Job, Cancel(j) \/ Get(j) \/ GetTimeout(j)
  PROVE  Abstract!Drop \/ UNCHANGED Seen
  <1> USE DEF server, client
  <1>1. CASE CancelFutureTask(j)
    <2>1. Accepted' = Accepted /\ Taken' = Taken /\ order' = order
      BY <1>1 DEF CancelFutureTask, Accepted, Submitted, Taken, HandedOver
    <2>2. Active' = Active
      BY <1>1, SameBodies DEF CancelFutureTask
    <2>3. CASE exec[j] = "pending"
      <3>1. ~revoked[j] /\ TurnHolder(j)
        BY <1>1, <2>3 DEF CancelFutureTask, FutureTaskDone, TurnHolder
      <3>2. Handed = <<j>>
        BY <2>3, <3>1, OwnerOfTheTurn
      <3>3. revoked'[j] /\ exec' = exec /\ TurnHolder(j)'
        BY <1>1, <2>3 DEF CancelFutureTask, IInv, TypeOK, TurnHolder
      <3>4. Handed' = <<>>
        BY <2>3, <3>1, <3>3 DEF IInv, TurnConserved, TurnHolder, Handed, Ahead
      <3>5. /\ Line = <<j>> \o (Taken \o order) /\ Line' = Taken \o order
            /\ Taken \o order \in Seq(Job)
        BY <2>1, <3>2, <3>4, LineType DEF Line
      <3>6. QED
        BY <2>1, <2>2, <3>5, PrefixHeadTail DEF Abstract!Drop
    <2>4. CASE exec[j] # "pending"
      <3>1. Handed' = Handed
        BY <1>1, <2>4, SameAhead DEF CancelFutureTask, IInv, TypeOK
      <3>2. QED
        BY <2>1, <2>2, <3>1 DEF Seen, Line
    <2>5. QED
      BY <2>3, <2>4
  <1>2. CASE \/ CancelSeesNoDelegate(j) \/ CancelMark(j) \/ CancelNotify(j)
             \/ Get(j) \/ GetTimeout(j)
    <2>1. UNCHANGED <<server, exec, revoked>>
      BY <1>2 DEF CancelSeesNoDelegate, CancelMark, CancelNotify, Get, GetCall,
         GetTestCancelled, GetTestDelegate, GetDelegated, GetTimeout, GetStep
    <2>2. QED
      BY <2>1 DEF Seen, Accepted, Submitted, Line, Handed, Ahead, Taken, HandedOver,
         Active, InBody
  <1>3. QED
    BY <1>1, <1>2 DEF Cancel

LEMMA NextRefines ==
  ASSUME IInv, IInv', [Next]_vars
  PROVE  [Abstract!Next]_(Abstract!vars)
  <1>1. CASE UNCHANGED vars \/ Shutdown
    <2>1. UNCHANGED <<order, kind, next, exec, revoked>>
      BY <1>1 DEF vars, server, client, Shutdown
    <2>2. UNCHANGED Seen
      BY <2>1 DEF Seen, Accepted, Submitted, Line, Handed, Ahead, Taken, HandedOver,
         Active, InBody
    <2>3. QED
      BY <2>2 DEF Seen, Abstract!vars
  <1>2. ASSUME NEW j \in Job,
               \/ SubmitNow(j) \/ SubmitQueued(j)
               \/ Begin(j) \/ SkipRevoked(j) \/ EndBody(j) \/ Complete(j)
               \/ OnEnd(j) \/ Cancel(j) \/ Get(j) \/ GetTimeout(j)
        PROVE  [Abstract!Next]_(Abstract!vars)
    <2>1. \/ Abstract!Submit(j) \/ Abstract!Start \/ Abstract!Drop
          \/ Abstract!Finish \/ UNCHANGED Seen
      BY <1>2, SubmitRefines, ThreadRefines, OnEndRefines, ClientRefines
    <2>2. QED
      BY <2>1 DEF Seen, Abstract!vars, Abstract!Next
  <1>3. QED
    BY <1>1, <1>2 DEF Next

(* In-order single-threaded semantics (class comment, lines 20-31): every    *)
(* behaviour of the scheduler's threads is one of SerialExecution.           *)
THEOREM Refinement == Spec => ImplementsSerialExecution
  <1>1. Init => Abstract!Init
    BY InitRefines
  <1>2. IInv /\ IInv' /\ [Next]_vars => [Abstract!Next]_(Abstract!vars)
    BY NextRefines
  <1>3. QED
    BY <1>1, <1>2, Invariance, PTL DEF Spec, ImplementsSerialExecution, Abstract!Spec

-------------------------------------------------------------------------------
(* What liveness rests on: somebody has yet to turn to a job that is not     *)
(* done, and to a get() that waits.                                          *)

Queued(j) == \E i \in 1..Len(order) : order[i] = j

(* onEnd has j in hand, or will get to it: before a shutdown somebody owns   *)
(* the turn and passes it on (unless its FutureTask is cancelled too early). *)
Served(j) == next = j \/ shutdown \/ (Queued(j) /\ \E k \in Job : TurnHolder(k))

JobsAreServed ==
  \A j \in Job : Submitted(j) /\ ~IsDone(j) =>
    exec[j] \in {"pending", "body", "finally", "closing"} \/ Served(j)

WakeupComes ==
  \A j \in Job : getPc[j] = "waiting" => cancelPc[j] = "notify" \/ Served(j)

(* A queued job leaves the queue only with onEnd or cancelled, its future    *)
(* learns of the executor's, and a get() waits only for what it has not      *)
(* been notified of.                                                         *)
JobKept(j) ==
  /\ Submitted(j) /\ exec[j] = "none" /\ ~shutdown => Queued(j) \/ next = j \/ cancelled[j]
  /\ Submitted(j) /\ exec[j] # "none" => HasFutureTask(j) \/ next = j
  /\ exec[j] = "skipped" => revoked[j]
  /\ revoked[j] => HasFutureTask(j)
GetKept(j) ==
  /\ getPc[j] \in {"top", "readDelegate", "waiting"} => kind[j] = "wrapped"
  /\ getPc[j] = "waiting" => ~delegate[j] /\ (cancelled[j] => cancelPc[j] = "notify")
Kept == \A j \in Job : JobKept(j) /\ GetKept(j)

LEMMA KeptSuffices == IInv /\ Kept => JobsAreServed /\ WakeupComes
  <1> SUFFICES ASSUME IInv, Kept PROVE JobsAreServed /\ WakeupComes
    OBVIOUS
  <1>1. ASSUME NEW j \in Job, Queued(j), ~shutdown PROVE \E k \in Job : TurnHolder(k)
    <2>1. order # <<>>
      BY <1>1 DEF Queued
    <2>2. QED
      BY <1>1, <2>1 DEF IInv, TurnConserved
  <1>2. JobsAreServed
    <2>1. SUFFICES ASSUME NEW j \in Job, Submitted(j), ~IsDone(j)
                   PROVE  exec[j] \in {"pending", "body", "finally", "closing"} \/ Served(j)
      BY DEF JobsAreServed
    <2>2. CASE exec[j] = "none"
      <3>1. ~HasFutureTask(j)
        BY <2>2 DEF HasFutureTask, IInv, FuturesSound
      <3>2. ~cancelled[j]
        BY <2>1, <3>1 DEF IsDone
      <3>3. QED
        BY <2>1, <2>2, <3>2, <1>1 DEF Kept, JobKept, Served
    <2>3. CASE exec[j] \in {"done", "skipped"}
      BY <2>1, <2>3 DEF Kept, JobKept, IsDone, FutureTaskDone, Served
    <2>4. QED
      BY <2>2, <2>3 DEF IInv, TypeOK, Phase
  <1>3. WakeupComes
    BY <1>1 DEF WakeupComes, Kept, JobKept, GetKept, Served, Submitted, HasFutureTask
  <1>4. QED
    BY <1>2, <1>3

LEMMA InitKept == Init => Kept
  BY DEF Init, Kept, JobKept, GetKept, Submitted

LEMMA ClientKept ==
  ASSUME IInv, Kept, NEW j \in Job, Cancel(j) \/ Get(j) \/ GetTimeout(j)
  PROVE  Kept'
  <1> USE DEF IInv, TypeOK, Kept, JobKept, GetKept, Submitted, HasFutureTask, Queued, server
  <1>1. CASE CancelFutureTask(j)
    BY <1>1 DEF CancelFutureTask, client
  <1>2. CASE CancelSeesNoDelegate(j)
    BY <1>2 DEF CancelSeesNoDelegate
  <1>3. CASE CancelMark(j)
    BY <1>3 DEF CancelMark
  <1>4. CASE CancelNotify(j)
    BY <1>4 DEF CancelNotify, Woken
  <1>5. CASE GetTestDelegate(j)
    BY <1>5 DEF GetTestDelegate, GetStep, GetPc
  <1>6. CASE GetCall(j)
    BY <1>6 DEF GetCall, GetStep
  <1>7. CASE GetTestCancelled(j)
    BY <1>7 DEF GetTestCancelled, GetStep
  <1>8. CASE GetDelegated(j) \/ GetTimeout(j)
    BY <1>8 DEF GetDelegated, GetTimeout, GetStep
  <1>9. QED
    BY <1>1, <1>2, <1>3, <1>4, <1>5, <1>6, <1>7, <1>8 DEF Cancel, Get

LEMMA ServerKept ==
  ASSUME IInv, Kept, NEW j \in Job,
         \/ SubmitNow(j) \/ SubmitQueued(j) \/ Begin(j) \/ SkipRevoked(j)
         \/ EndBody(j) \/ Complete(j) \/ Shutdown
  PROVE  Kept'
  <1> USE DEF IInv, TypeOK, FuturesSound, Kept, JobKept, GetKept, Submitted, HasFutureTask,
      server, client
  <1>1. CASE SubmitNow(j)
    BY <1>1 DEF SubmitNow, QueueSound, Queued
  <1>2. CASE SubmitQueued(j)
    <2>1. \A k \in Job : Queued(k) \/ k = j => Queued(k)'
      <3>1. /\ Len(order') = Len(order) + 1 /\ order'[Len(order) + 1] = j
            /\ \A i \in 1..Len(order) : order'[i] = order[i]
        BY <1>2 DEF SubmitQueued
      <3>2. QED
        BY <3>1 DEF Queued
    <2>2. exec[j] = "none"
      BY <1>2 DEF SubmitQueued, QueueSound
    <2>3. QED
      BY <1>2, <2>1, <2>2 DEF SubmitQueued
  <1>3. CASE Begin(j)
    BY <1>3 DEF Begin, Queued
  <1>4. CASE SkipRevoked(j)
    BY <1>4 DEF SkipRevoked, Queued
  <1>5. CASE EndBody(j)
    BY <1>5 DEF EndBody, Queued
  <1>6. CASE Complete(j)
    BY <1>6 DEF Complete, Queued
  <1>7. CASE Shutdown
    BY <1>7 DEF Shutdown, Queued
  <1>8. QED
    BY <1>1, <1>2, <1>3, <1>4, <1>5, <1>6, <1>7

LEMMA OnEndKept ==
  ASSUME IInv, Kept, NEW j \in Job, OnEnd(j)
  PROVE  Kept'
  <1> USE NoneNotJob DEF IInv, TypeOK, FuturesSound, Kept, JobKept, GetKept, Submitted,
      HasFutureTask, server, client, OnEndExit
  <1>1. CASE OnEndEnter(j)
    BY <1>1 DEF OnEndEnter, Queued
  <1>2. CASE OnEndIdle(j)
    <2>1. \A k \in Job : ~Queued(k)
      <3>1. Len(order) = 0
        BY <1>2 DEF OnEndIdle
      <3>2. QED
        BY <3>1 DEF Queued
    <2>2. QED
      BY <1>2, <2>1 DEF OnEndIdle
  <1>3. CASE OnEndTake(j)
    <2>1. \A k \in Job : Queued(k) => Queued(k)' \/ k = Head(order)
      <3>1. /\ Head(order) = order[1] /\ Len(order') = Len(order) - 1
            /\ \A i \in 1..Len(order') : order'[i] = order[i + 1]
        BY <1>3 DEF OnEndTake
      <3>2. ASSUME NEW i \in 1..Len(order), i # 1 PROVE i - 1 \in 1..Len(order') /\ order'[i - 1] = order[i]
        BY <3>1, <3>2
      <3>3. QED
        BY <3>1, <3>2 DEF Queued
    <2>2. Head(order) \in Job /\ kind[Head(order)] = "wrapped" /\ exec[Head(order)] = "none"
      <3>1. Head(order) = order[1] /\ 1 \in 1..Len(order)
        BY <1>3 DEF OnEndTake
      <3>2. QED
        BY <3>1 DEF QueueSound
    <2>3. next' = Head(order) \/ cancelled[Head(order)]
      BY <1>3, <2>2 DEF OnEndTake, IsCancelled
    <2>4. next = None /\ UNCHANGED <<shutdown, kind, exec, revoked, client>>
      BY <1>3 DEF OnEndTake
    <2>5. QED
      BY <2>1, <2>2, <2>3, <2>4
  <1>4. CASE OnEndExecute(j)
    BY <1>4 DEF OnEndExecute, Queued
  <1>5. CASE OnEndRejected(j)
    <2>1. \A k \in Job : exec'[k] = "none" <=> exec[k] = "none"
      BY <1>5 DEF OnEndRejected
    <2>2. QED
      BY <1>5, <2>1 DEF OnEndRejected, Queued
  <1>6. CASE OnEndDelegate(j)
    BY <1>6 DEF OnEndDelegate, Woken, Queued
  <1>7. QED
    BY <1>1, <1>2, <1>3, <1>4, <1>5, <1>6 DEF OnEnd

(* No job and no waiting get() is left without somebody who will turn to it *)
(* while the executor runs: what submit queued, onEnd takes, hands over and *)
(* tells the future of, and no notifyAll is missed (onEnd, WrappingFuture). *)
THEOREM NobodyIsStranded == Spec => [](JobsAreServed /\ WakeupComes)
  <1>1. IInv /\ Kept /\ [Next]_vars => Kept'
    <2> SUFFICES ASSUME IInv, Kept, [Next]_vars PROVE Kept'
      OBVIOUS
    <2>1. CASE UNCHANGED vars \/ Shutdown
      BY <2>1 DEF vars, server, client, Shutdown, Kept, JobKept, GetKept, Submitted,
         HasFutureTask, Queued
    <2>2. QED
      BY <2>1, ServerKept, OnEndKept, ClientKept DEF Next
  <1>2. QED
    BY <1>1, InitKept, KeptSuffices, Invariance, PTL DEF Spec

===============================================================================
