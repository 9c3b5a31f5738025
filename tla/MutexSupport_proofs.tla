-------------------------- MODULE MutexSupport_proofs --------------------------
(***************************************************************************)
(* Type correctness and mutual exclusion of MutexSupport, for any number   *)
(* of threads, with interrupts and tryAcquire, as long as no thread        *)
(* releases what it does not own and no update of requestingThreads is     *)
(* lost.  MutualExclusion is not inductive: what makes it hold is that the *)
(* semaphore that a thread looked up stays the mapped one, because the     *)
(* thread is among its requesters until it is among its owners.            *)
(*                                                                         *)
(* At the end, the safety part of WaiterIsServed: what passes the permit   *)
(* on is not lost, and who waits for it stands in the line.                *)
(***************************************************************************)
EXTENDS MutexSupport, SequenceTheorems, TLAPS

(* The thread owns the mutex: from the return of acquire to super.release. *)
Holds(t) == pc[t] = "holding" \/ (pc[t] = "release" /\ ref[t] # None)

(* The thread is inside acquire or tryAcquire of the semaphore. *)
InCall == {"request", "requesting", "permit", "waiting", "acquired", "finish", "finishing"}

HasPermit(t) ==
  \/ pc[t] = "acquired" \/ Holds(t)
  \/ pc[t] \in {"finish", "finishing"} /\ t \in owners[ref[t]]

(* An acquirer is registered, first as requesting and then as an owner. *)
Registered ==
  \A t \in Thread :
    /\ pc[t] \in InCall => t \in requesting[ref[t]]
    /\ Holds(t) \/ pc[t] = "released" => t \in owners[ref[t]]

(* The semaphore that a thread works on is the one that is mapped. *)
RefIsMapped ==
  \A t \in Thread : pc[t] \in InCall \cup {"indicate"} \/ Holds(t) => ref[t] = mapped

(* The mapped semaphore has one permit, free or had by one thread, and its  *)
(* owners are threads with the permit or in releaseMutex.                   *)
OnePermit ==
  mapped # None =>
    /\ permits[mapped] \in {0, 1}
    /\ permits[mapped] = 1 => \A t \in Thread : ~HasPermit(t)
    /\ \A t, u \in Thread : HasPermit(t) /\ HasPermit(u) => t = u
    /\ \A t \in owners[mapped] : HasPermit(t) \/ pc[t] = "released"

Good == Registered /\ RefIsMapped /\ OnePermit

IInv == TypeOK /\ (Orderly => Good)

LEMMA PcRange ==
  /\ "idle" \in Pc /\ "indicate" \in Pc /\ "request" \in Pc /\ "requesting" \in Pc
  /\ "permit" \in Pc /\ "waiting" \in Pc /\ "acquired" \in Pc /\ "finish" \in Pc
  /\ "finishing" \in Pc /\ "holding" \in Pc /\ "escaped" \in Pc /\ "release" \in Pc
  /\ "released" \in Pc /\ "cleanup" \in Pc
  BY DEF Pc

(* Past getSemaphore, the thread's semaphore is one. *)
LEMMA RefInSem ==
  ASSUME TypeOK, NEW t \in Thread, pc[t] \notin {"idle", "escaped", "release"}
  PROVE  ref[t] \in Sem
<1>1. ref[t] # None
  BY DEF TypeOK, Monitors
<1>2. ref[t] \in Sem \cup {None}
  BY DEF TypeOK, Ranges
<1>3. QED
  BY <1>1, <1>2

LEMMA InitInv == Init => IInv
<1> SUFFICES ASSUME Init PROVE IInv
  OBVIOUS
<1>1. Ranges
  <2>1. pc \in [Thread -> Pc]
    BY PcRange DEF Init
  <2>2. interrupts \in 0..MaxInterrupts
    BY MaxAssumption DEF Init
  <2>3. lostUpdate \in BOOLEAN /\ foreign \in BOOLEAN
    BY DEF Init
  <2>4. mapped \in Sem \cup {None} /\ monitor \in Thread \cup {None}
    BY DEF Init
  <2>5. /\ permits \in [Sem -> Int] /\ queue \in [Sem -> Seq(Thread)]
        /\ owners \in [Sem -> SUBSET Thread] /\ requesting \in [Sem -> SUBSET Thread]
        /\ lock \in [Sem -> Thread \cup {None}] /\ ref \in [Thread -> Sem \cup {None}]
        /\ seen \in [Thread -> SUBSET Thread]
    BY DEF Init
  <2>6. QED
    BY <2>1, <2>2, <2>3, <2>4, <2>5 DEF Ranges
<1>2. Monitors
  BY NoneAssumption DEF Init, Monitors
<1>3. Good
  BY DEF Init, Good, Registered, RefIsMapped, OnePermit, Holds, InCall, HasPermit
<1>4. QED
  BY <1>1, <1>2, <1>3 DEF IInv, TypeOK

(* TypeOK is inductive by itself. *)
LEMMA TypeStep == TypeOK /\ [Next]_vars => TypeOK'
<1> SUFFICES ASSUME TypeOK, [Next]_vars PROVE TypeOK'
  OBVIOUS
<1> USE NoneAssumption, MaxAssumption DEF TypeOK, Goto, sems, history
<1>1. ASSUME NEW t \in Thread, GetSemaphore(t) PROVE TypeOK'
  <2> PICK s \in Sem : GetSemaphore(t)!2!(s)
    BY <1>1 DEF GetSemaphore
  <2>1. Ranges'
    <3>1. CASE mapped # None
      BY <1>1, <3>1, PcRange DEF GetSemaphore, ReadRequesting, Ranges
    <3>2. CASE mapped = None
      <4>1. /\ permits' \in [Sem -> Int] /\ queue' \in [Sem -> Seq(Thread)]
            /\ owners' \in [Sem -> SUBSET Thread] /\ requesting' \in [Sem -> SUBSET Thread]
            /\ seen' \in [Thread -> SUBSET Thread]
        <5>1. permits' = [permits EXCEPT ![s] = 1] /\ queue' = [queue EXCEPT ![s] = <<>>]
          BY <3>2
        <5>2. owners' = [owners EXCEPT ![s] = {}] /\ requesting' = [requesting EXCEPT ![s] = {}]
          BY <3>2
        <5>3. seen' = [seen EXCEPT ![t] = {}]
          BY <3>2
        <5>4. permits' \in [Sem -> Int]
          BY <5>1 DEF Ranges
        <5>5. queue' \in [Sem -> Seq(Thread)]
          BY <5>1 DEF Ranges
        <5>6. QED
          BY <5>2, <5>3, <5>4, <5>5 DEF Ranges
      <4>2. /\ mapped' \in Sem \cup {None} /\ monitor' \in Thread \cup {None}
            /\ pc' \in [Thread -> Pc] /\ ref' \in [Thread -> Sem \cup {None}]
        BY <1>1, PcRange DEF GetSemaphore, Ranges
      <4>3. QED
        BY <1>1, <4>1, <4>2 DEF GetSemaphore, Ranges
    <3>3. QED
      BY <3>1, <3>2
  <2>2. Monitors'
    BY <1>1 DEF GetSemaphore, Fresh, Ranges, Monitors
  <2>3. QED
    BY <2>1, <2>2
<1>2. ASSUME NEW t \in Thread, Indicate(t) PROVE TypeOK'
  <2>0. ref[t] \in Sem
    BY <1>2, RefInSem, Zenon DEF Indicate
  <2>1. Ranges'
    BY <1>2, <2>0, PcRange DEF Indicate, Adding, WriteRequesting, Contents, Ranges
  <2>2. Monitors'
    BY <1>2, <2>0 DEF Indicate, Adding, WriteRequesting, Contents, Ranges, Monitors
  <2>3. QED
    BY <2>1, <2>2
<1>3. ASSUME NEW t \in Thread, OnRequestingEnter(t) PROVE TypeOK'
  <2>0. ref[t] \in Sem
    BY <1>3, RefInSem, Zenon DEF OnRequestingEnter, EnterLocked
  <2>1. Ranges'
    BY <1>3, <2>0, PcRange DEF OnRequestingEnter, EnterLocked, ReadRequesting, Ranges
  <2>2. Monitors'
    BY <1>3, <2>0 DEF OnRequestingEnter, EnterLocked, ReadRequesting, Ranges, Monitors
  <2>3. QED
    BY <2>1, <2>2
<1>4. ASSUME NEW t \in Thread, OnRequesting(t) PROVE TypeOK'
  <2>0. ref[t] \in Sem
    BY <1>4, RefInSem, Zenon DEF OnRequesting
  <2>1. Ranges'
    BY <1>4, <2>0, PcRange DEF OnRequesting, Adding, WriteRequesting, Contents, Ranges
  <2>2. Monitors'
    BY <1>4, <2>0 DEF OnRequesting, Adding, WriteRequesting, Contents, Ranges, Monitors
  <2>3. QED
    BY <2>1, <2>2
<1>5. ASSUME NEW t \in Thread, Acquire(t) PROVE TypeOK'
  <2>0. ref[t] \in Sem
    BY <1>5, RefInSem, Zenon DEF Acquire
  <2>1. Ranges'
    BY <1>5, <2>0, PcRange DEF Acquire, TakePermit, Ranges
  <2>2. Monitors'
    BY <1>5, <2>0 DEF Acquire, TakePermit, Ranges, Monitors
  <2>3. QED
    BY <2>1, <2>2
<1>6. ASSUME NEW t \in Thread, AcquireParks(t) PROVE TypeOK'
  <2>0. ref[t] \in Sem
    BY <1>6, RefInSem, Zenon DEF AcquireParks
  <2>1. Ranges'
    BY <1>6, <2>0, PcRange DEF AcquireParks, Ranges
  <2>2. Monitors'
    BY <1>6, <2>0 DEF AcquireParks, Ranges, Monitors
  <2>3. QED
    BY <2>1, <2>2
<1>7. ASSUME NEW t \in Thread, AcquireUnparks(t) PROVE TypeOK'
  <2>0. ref[t] \in Sem
    BY <1>7, RefInSem, Zenon DEF AcquireUnparks
  <2>1. Ranges'
    BY <1>7, <2>0, PcRange DEF AcquireUnparks, TakePermit, Ranges
  <2>2. Monitors'
    BY <1>7, <2>0 DEF AcquireUnparks, TakePermit, Ranges, Monitors
  <2>3. QED
    BY <2>1, <2>2
<1>8. ASSUME NEW t \in Thread, Interrupt(t) PROVE TypeOK'
  <2>0. ref[t] \in Sem
    BY <1>8, RefInSem, Zenon DEF Interrupt
  <2>1. /\ pc[t] \in {"permit", "waiting"} /\ pc' = [pc EXCEPT ![t] = "finish"]
        /\ UNCHANGED <<mapped, permits, owners, requesting, monitor, lock, ref, seen>>
        /\ UNCHANGED <<lostUpdate, foreign>>
    BY <1>8 DEF Interrupt
  <2>2. queue' \in [Sem -> Seq(Thread)]
    <3>1. CASE UNCHANGED queue
      BY <3>1 DEF Ranges
    <3>2. ASSUME NEW q, q = queue[ref[t]], NEW i \in 1..Len(q),
                 queue' = [queue EXCEPT ![ref[t]] =
                             SubSeq(q, 1, i - 1) \o SubSeq(q, i + 1, Len(q))]
          PROVE  queue' \in [Sem -> Seq(Thread)]
      <4>1. q \in Seq(Thread)
        BY <2>0, <3>2 DEF Ranges
      <4>2. SubSeq(q, 1, i - 1) \in Seq(Thread) /\ SubSeq(q, i + 1, Len(q)) \in Seq(Thread)
        BY <4>1
      <4>3. SubSeq(q, 1, i - 1) \o SubSeq(q, i + 1, Len(q)) \in Seq(Thread)
        BY <4>2
      <4>4. QED
        BY <3>2, <4>3 DEF Ranges
    <3>3. QED
      BY <1>8, <3>1, <3>2 DEF Interrupt
  <2>3. interrupts' \in 0..MaxInterrupts
    BY <1>8 DEF Interrupt, Ranges
  <2>4. Ranges'
    BY <2>1, <2>2, <2>3, PcRange DEF Ranges
  <2>5. Monitors'
    BY <2>1 DEF Ranges, Monitors
  <2>6. QED
    BY <2>4, <2>5
<1>9. ASSUME NEW t \in Thread, TryAcquire(t) PROVE TypeOK'
  <2>0. ref[t] \in Sem
    BY <1>9, RefInSem, Zenon DEF TryAcquire
  <2>1. Ranges'
    BY <1>9, <2>0, PcRange DEF TryAcquire, TakePermit, Ranges
  <2>2. Monitors'
    BY <1>9, <2>0 DEF TryAcquire, TakePermit, Ranges, Monitors
  <2>3. QED
    BY <2>1, <2>2
<1>10. ASSUME NEW t \in Thread, TryAcquireFails(t) PROVE TypeOK'
  <2>0. ref[t] \in Sem
    BY <1>10, RefInSem, Zenon DEF TryAcquireFails
  <2>1. Ranges'
    BY <1>10, <2>0, PcRange DEF TryAcquireFails, Ranges
  <2>2. Monitors'
    BY <1>10, <2>0 DEF TryAcquireFails, Ranges, Monitors
  <2>3. QED
    BY <2>1, <2>2
<1>11. ASSUME NEW t \in Thread, OnAcquired(t) PROVE TypeOK'
  <2>0. ref[t] \in Sem
    BY <1>11, RefInSem, Zenon DEF OnAcquired
  <2>1. Ranges'
    BY <1>11, <2>0, PcRange DEF OnAcquired, Ranges
  <2>2. Monitors'
    BY <1>11, <2>0 DEF OnAcquired, Ranges, Monitors
  <2>3. QED
    BY <2>1, <2>2
<1>12. ASSUME NEW t \in Thread, OnRequestFinishedEnter(t) PROVE TypeOK'
  <2>0. ref[t] \in Sem
    BY <1>12, RefInSem, Zenon DEF OnRequestFinishedEnter, EnterLocked
  <2>1. Ranges'
    BY <1>12, <2>0, PcRange DEF OnRequestFinishedEnter, EnterLocked, ReadRequesting, Ranges
  <2>2. Monitors'
    BY <1>12, <2>0 DEF OnRequestFinishedEnter, EnterLocked, ReadRequesting, Ranges, Monitors
  <2>3. QED
    BY <2>1, <2>2
<1>13. ASSUME NEW t \in Thread, OnRequestFinished(t) PROVE TypeOK'
  <2>0. ref[t] \in Sem
    BY <1>13, RefInSem, Zenon DEF OnRequestFinished
  <2>1. Ranges'
    BY <1>13, <2>0, PcRange DEF OnRequestFinished, Removing, WriteRequesting, Contents, Ranges
  <2>2. Monitors'
    BY <1>13, <2>0 DEF OnRequestFinished, Removing, WriteRequesting, Contents, Ranges, Monitors
  <2>3. QED
    BY <2>1, <2>2
<1>14. ASSUME NEW t \in Thread, Escape(t) PROVE TypeOK'
  <2>1. Ranges'
    BY <1>14, PcRange DEF Escape, Ranges
  <2>2. Monitors'
    BY <1>14 DEF Escape, Ranges, Monitors
  <2>3. QED
    BY <2>1, <2>2
<1>15. ASSUME NEW t \in Thread, EndInstall(t) PROVE TypeOK'
  <2>1. Ranges'
    BY <1>15, PcRange DEF EndInstall, Ranges
  <2>2. Monitors'
    BY <1>15 DEF EndInstall, Ranges, Monitors
  <2>3. QED
    BY <2>1, <2>2
<1>16. ASSUME NEW t \in Thread, ReleaseUnknown(t) PROVE TypeOK'
  <2>1. Ranges'
    BY <1>16, PcRange DEF ReleaseUnknown, Ranges
  <2>2. Monitors'
    BY <1>16 DEF ReleaseUnknown, Ranges, Monitors
  <2>3. QED
    BY <2>1, <2>2
<1>17. ASSUME NEW t \in Thread, Release(t) PROVE TypeOK'
  <2>1. Ranges'
    BY <1>17, PcRange DEF Release, HasMutex, Ranges
  <2>2. Monitors'
    BY <1>17 DEF Release, HasMutex, Ranges, Monitors
  <2>3. QED
    BY <2>1, <2>2
<1>18. ASSUME NEW t \in Thread, OnReleased(t) PROVE TypeOK'
  <2>0. ref[t] \in Sem
    BY <1>18, RefInSem, Zenon DEF OnReleased
  <2>1. Ranges'
    BY <1>18, <2>0, PcRange DEF OnReleased, Ranges
  <2>2. Monitors'
    BY <1>18, <2>0 DEF OnReleased, Ranges, Monitors
  <2>3. QED
    BY <2>1, <2>2
<1>19. ASSUME NEW t \in Thread, OnReleasedThrows(t) PROVE TypeOK'
  <2>0. ref[t] \in Sem
    BY <1>19, RefInSem, Zenon DEF OnReleasedThrows
  <2>1. Ranges'
    BY <1>19, <2>0, PcRange DEF OnReleasedThrows, Ranges
  <2>2. Monitors'
    BY <1>19, <2>0 DEF OnReleasedThrows, Ranges, Monitors
  <2>3. QED
    BY <2>1, <2>2
<1>20. ASSUME NEW t \in Thread, CleanupMutex(t) PROVE TypeOK'
  <2>1. Ranges'
    BY <1>20, PcRange DEF CleanupMutex, IsInUse, Ranges
  <2>2. Monitors'
    BY <1>20 DEF CleanupMutex, IsInUse, Ranges, Monitors
  <2>3. QED
    BY <2>1, <2>2
<1>21. CASE Cleanup
  BY <1>21 DEF Cleanup, IsInUse, Ranges, Monitors
<1>22. CASE UNCHANGED vars
  BY <1>22 DEF vars, Ranges, Monitors
<1>23. QED
  BY <1>1, <1>2, <1>3, <1>4, <1>5, <1>6, <1>7, <1>8, <1>9, <1>10, <1>11, <1>12, <1>13,
     <1>14, <1>15, <1>16, <1>17, <1>18, <1>19, <1>20, <1>21, <1>22
     DEF Next, Acquiring, Releasing

(* The history of lost updates and foreign releases never goes back. *)
LEMMA OrderlyStep == [Next]_vars /\ Orderly' => Orderly
<1> SUFFICES ASSUME [Next]_vars, Orderly' PROVE Orderly
  OBVIOUS
<1> USE DEF Orderly, history
<1>1. ASSUME NEW t \in Thread, GetSemaphore(t) PROVE Orderly
  BY <1>1 DEF GetSemaphore
<1>2. ASSUME NEW t \in Thread, Indicate(t) PROVE Orderly
  BY <1>2 DEF Indicate, Adding, WriteRequesting, Contents
<1>3. ASSUME NEW t \in Thread, OnRequestingEnter(t) PROVE Orderly
  BY <1>3 DEF OnRequestingEnter, EnterLocked
<1>4. ASSUME NEW t \in Thread, OnRequesting(t) PROVE Orderly
  BY <1>4 DEF OnRequesting, Adding, WriteRequesting, Contents
<1>5. ASSUME NEW t \in Thread, Acquire(t) PROVE Orderly
  BY <1>5 DEF Acquire, TakePermit
<1>6. ASSUME NEW t \in Thread, AcquireParks(t) PROVE Orderly
  BY <1>6 DEF AcquireParks
<1>7. ASSUME NEW t \in Thread, AcquireUnparks(t) PROVE Orderly
  BY <1>7 DEF AcquireUnparks, TakePermit
<1>8. ASSUME NEW t \in Thread, Interrupt(t) PROVE Orderly
  BY <1>8 DEF Interrupt
<1>9. ASSUME NEW t \in Thread, TryAcquire(t) PROVE Orderly
  BY <1>9 DEF TryAcquire, TakePermit
<1>10. ASSUME NEW t \in Thread, TryAcquireFails(t) PROVE Orderly
  BY <1>10 DEF TryAcquireFails
<1>11. ASSUME NEW t \in Thread, OnAcquired(t) PROVE Orderly
  BY <1>11 DEF OnAcquired
<1>12. ASSUME NEW t \in Thread, OnRequestFinishedEnter(t) PROVE Orderly
  BY <1>12 DEF OnRequestFinishedEnter, EnterLocked
<1>13. ASSUME NEW t \in Thread, OnRequestFinished(t) PROVE Orderly
  BY <1>13 DEF OnRequestFinished, Removing, WriteRequesting, Contents
<1>14. ASSUME NEW t \in Thread, Escape(t) PROVE Orderly
  BY <1>14 DEF Escape
<1>15. ASSUME NEW t \in Thread, EndInstall(t) PROVE Orderly
  BY <1>15 DEF EndInstall
<1>16. ASSUME NEW t \in Thread, ReleaseUnknown(t) PROVE Orderly
  BY <1>16 DEF ReleaseUnknown
<1>17. ASSUME NEW t \in Thread, Release(t) PROVE Orderly
  BY <1>17 DEF Release
<1>18. ASSUME NEW t \in Thread, OnReleased(t) PROVE Orderly
  BY <1>18 DEF OnReleased
<1>19. ASSUME NEW t \in Thread, OnReleasedThrows(t) PROVE Orderly
  BY <1>19 DEF OnReleasedThrows
<1>20. ASSUME NEW t \in Thread, CleanupMutex(t) PROVE Orderly
  BY <1>20 DEF CleanupMutex
<1>21. CASE Cleanup
  BY <1>21 DEF Cleanup
<1>22. CASE UNCHANGED vars
  BY <1>22 DEF vars
<1>23. QED
  BY <1>1, <1>2, <1>3, <1>4, <1>5, <1>6, <1>7, <1>8, <1>9, <1>10, <1>11, <1>12, <1>13,
     <1>14, <1>15, <1>16, <1>17, <1>18, <1>19, <1>20, <1>21, <1>22
     DEF Next, Acquiring, Releasing

(* The rest of the invariant, while the history is orderly. *)
LEMMA GoodStep ==
  ASSUME TypeOK, TypeOK', Good, Orderly', [Next]_vars
  PROVE  Good'
<1> USE NoneAssumption DEF TypeOK, Goto, sems, history, Good, Holds, InCall, HasPermit, Orderly
<1>1. ASSUME NEW t \in Thread, GetSemaphore(t) PROVE Good'
  <2> PICK s \in Sem : GetSemaphore(t)!2!(s)
    BY <1>1 DEF GetSemaphore
  <2>1. CASE mapped # None
    <3>1. mapped' = mapped /\ ref' = [ref EXCEPT ![t] = mapped]
      BY <2>1
    <3>2. QED
      BY <1>1, <2>1, <3>1 DEF GetSemaphore, Ranges, Monitors, Registered, RefIsMapped, OnePermit
  <2>2. CASE mapped = None
    <3>1. \A u \in Thread : pc[u] \notin InCall \cup {"indicate", "released", "cleanup"} /\ ~Holds(u)
      BY <2>2 DEF Ranges, Monitors, Registered, RefIsMapped, OnePermit
    <3>2. \A u \in Thread : ~HasPermit(u)'
      BY <1>1, <3>1 DEF GetSemaphore, Ranges, Monitors, Registered, RefIsMapped, OnePermit
    <3>3. OnePermit'
      BY <1>1, <2>2, <3>2 DEF GetSemaphore, Ranges, Monitors, Registered, RefIsMapped, OnePermit
    <3>4. Registered' /\ RefIsMapped'
      BY <1>1, <2>2, <3>1 DEF GetSemaphore, Ranges, Monitors, Registered, RefIsMapped, OnePermit
    <3>5. QED
      BY <3>3, <3>4
  <2>3. QED
    BY <2>1, <2>2
<1>2. ASSUME NEW t \in Thread, Indicate(t) PROVE Good'
  <2>0. ref[t] \in Sem
    BY <1>2, RefInSem, Zenon DEF Indicate
  <2>1. requesting' = [requesting EXCEPT ![ref[t]] = requesting[ref[t]] \cup {t}]
    BY <1>2 DEF Indicate, Adding, WriteRequesting, Contents
  <2>2. Registered'
    BY <1>2, <2>0, <2>1 DEF Indicate, Ranges, Monitors, Registered, RefIsMapped, OnePermit
  <2>3. RefIsMapped'
    BY <1>2, <2>0 DEF Indicate, Ranges, Monitors, Registered, RefIsMapped, OnePermit
  <2>4. OnePermit'
    BY <1>2, <2>0 DEF Indicate, Ranges, Monitors, Registered, RefIsMapped, OnePermit
  <2>5. QED
    BY <2>2, <2>3, <2>4
<1>3. ASSUME NEW t \in Thread, OnRequestingEnter(t) PROVE Good'
  <2>0. ref[t] \in Sem
    BY <1>3, RefInSem, Zenon DEF OnRequestingEnter, EnterLocked
  <2>1. Registered'
    BY <1>3, <2>0 DEF OnRequestingEnter, EnterLocked, ReadRequesting, Ranges, Monitors, Registered, RefIsMapped, OnePermit
  <2>2. RefIsMapped'
    BY <1>3, <2>0 DEF OnRequestingEnter, EnterLocked, ReadRequesting, Ranges, Monitors, Registered, RefIsMapped, OnePermit
  <2>3. OnePermit'
    BY <1>3, <2>0 DEF OnRequestingEnter, EnterLocked, ReadRequesting, Ranges, Monitors, Registered, RefIsMapped, OnePermit
  <2>4. QED
    BY <2>1, <2>2, <2>3
<1>4. ASSUME NEW t \in Thread, OnRequesting(t) PROVE Good'
  <2>0. ref[t] \in Sem
    BY <1>4, RefInSem, Zenon DEF OnRequesting
  <2>1. requesting' = [requesting EXCEPT ![ref[t]] = requesting[ref[t]] \cup {t}]
    BY <1>4 DEF OnRequesting, Adding, WriteRequesting, Contents
  <2>2. Registered'
    BY <1>4, <2>0, <2>1 DEF OnRequesting, Ranges, Monitors, Registered, RefIsMapped, OnePermit
  <2>3. RefIsMapped'
    BY <1>4, <2>0 DEF OnRequesting, Ranges, Monitors, Registered, RefIsMapped, OnePermit
  <2>4. OnePermit'
    BY <1>4, <2>0 DEF OnRequesting, Ranges, Monitors, Registered, RefIsMapped, OnePermit
  <2>5. QED
    BY <2>2, <2>3, <2>4
<1>5. ASSUME NEW t \in Thread, Acquire(t) PROVE Good'
  <2>0. ref[t] \in Sem
    BY <1>5, RefInSem, Zenon DEF Acquire
  <2>1. Registered'
    BY <1>5, <2>0 DEF Acquire, TakePermit, Ranges, Monitors, Registered, RefIsMapped, OnePermit
  <2>2. RefIsMapped'
    BY <1>5, <2>0 DEF Acquire, TakePermit, Ranges, Monitors, Registered, RefIsMapped, OnePermit
  <2>3. OnePermit'
    BY <1>5, <2>0 DEF Acquire, TakePermit, Ranges, Monitors, Registered, RefIsMapped, OnePermit
  <2>4. QED
    BY <2>1, <2>2, <2>3
<1>6. ASSUME NEW t \in Thread, AcquireParks(t) PROVE Good'
  <2>0. ref[t] \in Sem
    BY <1>6, RefInSem, Zenon DEF AcquireParks
  <2>1. Registered'
    BY <1>6, <2>0 DEF AcquireParks, Ranges, Monitors, Registered, RefIsMapped, OnePermit
  <2>2. RefIsMapped'
    BY <1>6, <2>0 DEF AcquireParks, Ranges, Monitors, Registered, RefIsMapped, OnePermit
  <2>3. OnePermit'
    BY <1>6, <2>0 DEF AcquireParks, Ranges, Monitors, Registered, RefIsMapped, OnePermit
  <2>4. QED
    BY <2>1, <2>2, <2>3
<1>7. ASSUME NEW t \in Thread, AcquireUnparks(t) PROVE Good'
  <2>0. ref[t] \in Sem
    BY <1>7, RefInSem, Zenon DEF AcquireUnparks
  <2>1. Registered'
    BY <1>7, <2>0 DEF AcquireUnparks, TakePermit, Ranges, Monitors, Registered, RefIsMapped, OnePermit
  <2>2. RefIsMapped'
    BY <1>7, <2>0 DEF AcquireUnparks, TakePermit, Ranges, Monitors, Registered, RefIsMapped, OnePermit
  <2>3. OnePermit'
    BY <1>7, <2>0 DEF AcquireUnparks, TakePermit, Ranges, Monitors, Registered, RefIsMapped, OnePermit
  <2>4. QED
    BY <2>1, <2>2, <2>3
<1>8. ASSUME NEW t \in Thread, Interrupt(t) PROVE Good'
  <2>0. ref[t] \in Sem
    BY <1>8, RefInSem, Zenon DEF Interrupt
  <2>1. /\ pc[t] \in {"permit", "waiting"} /\ pc' = [pc EXCEPT ![t] = "finish"]
        /\ UNCHANGED <<mapped, permits, owners, requesting, monitor, lock, ref, seen>>
        /\ UNCHANGED <<lostUpdate, foreign>>
    BY <1>8 DEF Interrupt
  <2>2. t \notin owners[ref[t]]
    BY <2>0, <2>1 DEF Ranges, Monitors, Registered, RefIsMapped, OnePermit
  <2>3. Registered'
    BY <2>1 DEF Ranges, Monitors, Registered, RefIsMapped, OnePermit
  <2>4. RefIsMapped'
    BY <2>1 DEF Ranges, Monitors, Registered, RefIsMapped, OnePermit
  <2>5. OnePermit'
    BY <2>1, <2>2 DEF Ranges, Monitors, Registered, RefIsMapped, OnePermit
  <2>6. QED
    BY <2>3, <2>4, <2>5
<1>9. ASSUME NEW t \in Thread, TryAcquire(t) PROVE Good'
  <2>0. ref[t] \in Sem
    BY <1>9, RefInSem, Zenon DEF TryAcquire
  <2>1. Registered'
    BY <1>9, <2>0 DEF TryAcquire, TakePermit, Ranges, Monitors, Registered, RefIsMapped, OnePermit
  <2>2. RefIsMapped'
    BY <1>9, <2>0 DEF TryAcquire, TakePermit, Ranges, Monitors, Registered, RefIsMapped, OnePermit
  <2>3. OnePermit'
    BY <1>9, <2>0 DEF TryAcquire, TakePermit, Ranges, Monitors, Registered, RefIsMapped, OnePermit
  <2>4. QED
    BY <2>1, <2>2, <2>3
<1>10. ASSUME NEW t \in Thread, TryAcquireFails(t) PROVE Good'
  <2>0. ref[t] \in Sem
    BY <1>10, RefInSem, Zenon DEF TryAcquireFails
  <2>1. Registered'
    BY <1>10, <2>0 DEF TryAcquireFails, Ranges, Monitors, Registered, RefIsMapped, OnePermit
  <2>2. RefIsMapped'
    BY <1>10, <2>0 DEF TryAcquireFails, Ranges, Monitors, Registered, RefIsMapped, OnePermit
  <2>3. OnePermit'
    BY <1>10, <2>0 DEF TryAcquireFails, Ranges, Monitors, Registered, RefIsMapped, OnePermit
  <2>4. QED
    BY <2>1, <2>2, <2>3
<1>11. ASSUME NEW t \in Thread, OnAcquired(t) PROVE Good'
  <2>0. ref[t] \in Sem
    BY <1>11, RefInSem, Zenon DEF OnAcquired
  <2>1. Registered'
    BY <1>11, <2>0 DEF OnAcquired, Ranges, Monitors, Registered, RefIsMapped, OnePermit
  <2>2. RefIsMapped'
    BY <1>11, <2>0 DEF OnAcquired, Ranges, Monitors, Registered, RefIsMapped, OnePermit
  <2>3. OnePermit'
    BY <1>11, <2>0 DEF OnAcquired, Ranges, Monitors, Registered, RefIsMapped, OnePermit
  <2>4. QED
    BY <2>1, <2>2, <2>3
<1>12. ASSUME NEW t \in Thread, OnRequestFinishedEnter(t) PROVE Good'
  <2>0. ref[t] \in Sem
    BY <1>12, RefInSem, Zenon DEF OnRequestFinishedEnter, EnterLocked
  <2>1. Registered'
    BY <1>12, <2>0 DEF OnRequestFinishedEnter, EnterLocked, ReadRequesting, Ranges, Monitors, Registered, RefIsMapped, OnePermit
  <2>2. RefIsMapped'
    BY <1>12, <2>0 DEF OnRequestFinishedEnter, EnterLocked, ReadRequesting, Ranges, Monitors, Registered, RefIsMapped, OnePermit
  <2>3. OnePermit'
    BY <1>12, <2>0 DEF OnRequestFinishedEnter, EnterLocked, ReadRequesting, Ranges, Monitors, Registered, RefIsMapped, OnePermit
  <2>4. QED
    BY <2>1, <2>2, <2>3
<1>13. ASSUME NEW t \in Thread, OnRequestFinished(t) PROVE Good'
  <2>0. ref[t] \in Sem
    BY <1>13, RefInSem, Zenon DEF OnRequestFinished
  <2>1. requesting' = [requesting EXCEPT ![ref[t]] = requesting[ref[t]] \ {t}]
    BY <1>13 DEF OnRequestFinished, Removing, WriteRequesting, Contents
  <2>2. Registered'
    BY <1>13, <2>0, <2>1 DEF OnRequestFinished, Ranges, Monitors, Registered, RefIsMapped, OnePermit
  <2>3. RefIsMapped'
    BY <1>13, <2>0 DEF OnRequestFinished, Ranges, Monitors, Registered, RefIsMapped, OnePermit
  <2>4. OnePermit'
    BY <1>13, <2>0 DEF OnRequestFinished, Ranges, Monitors, Registered, RefIsMapped, OnePermit
  <2>5. QED
    BY <2>2, <2>3, <2>4
<1>14. ASSUME NEW t \in Thread, Escape(t) PROVE Good'
  <2>1. Registered'
    BY <1>14 DEF Escape, Ranges, Monitors, Registered, RefIsMapped, OnePermit
  <2>2. RefIsMapped'
    BY <1>14 DEF Escape, Ranges, Monitors, Registered, RefIsMapped, OnePermit
  <2>3. OnePermit'
    BY <1>14 DEF Escape, Ranges, Monitors, Registered, RefIsMapped, OnePermit
  <2>4. QED
    BY <2>1, <2>2, <2>3
<1>15. ASSUME NEW t \in Thread, EndInstall(t) PROVE Good'
  <2>1. Registered'
    BY <1>15 DEF EndInstall, Ranges, Monitors, Registered, RefIsMapped, OnePermit
  <2>2. RefIsMapped'
    BY <1>15 DEF EndInstall, Ranges, Monitors, Registered, RefIsMapped, OnePermit
  <2>3. OnePermit'
    BY <1>15 DEF EndInstall, Ranges, Monitors, Registered, RefIsMapped, OnePermit
  <2>4. QED
    BY <2>1, <2>2, <2>3
<1>16. ASSUME NEW t \in Thread, ReleaseUnknown(t) PROVE Good'
  <2>1. Registered'
    BY <1>16 DEF ReleaseUnknown, Ranges, Monitors, Registered, RefIsMapped, OnePermit
  <2>2. RefIsMapped'
    BY <1>16 DEF ReleaseUnknown, Ranges, Monitors, Registered, RefIsMapped, OnePermit
  <2>3. OnePermit'
    BY <1>16 DEF ReleaseUnknown, Ranges, Monitors, Registered, RefIsMapped, OnePermit
  <2>4. QED
    BY <2>1, <2>2, <2>3
<1>17. ASSUME NEW t \in Thread, Release(t) PROVE Good'
  <2>1. mapped \in Sem /\ t \in owners[mapped] /\ ref' = [ref EXCEPT ![t] = mapped]
    BY <1>17 DEF Release, HasMutex, Ranges
  <2>2. HasPermit(t) /\ ref[t] = mapped
    BY <1>17, <2>1 DEF Release, Ranges, Monitors, Registered, RefIsMapped, OnePermit
  <2>3. ref' = ref
    BY <2>1, <2>2 DEF Ranges
  <2>4. permits[mapped] = 0 /\ \A u \in Thread : HasPermit(u) => u = t
    BY <2>1, <2>2 DEF Ranges, Monitors, Registered, RefIsMapped, OnePermit
  <2>5. pc' = [pc EXCEPT ![t] = "released"] /\ UNCHANGED <<mapped, owners, requesting>>
    BY <1>17 DEF Release
  <2>6. Registered' /\ RefIsMapped'
    BY <2>1, <2>3, <2>5 DEF Ranges, Monitors, Registered, RefIsMapped, OnePermit
  <2>7. permits'[mapped] = 1
    BY <1>17, <2>1, <2>4 DEF Release, Ranges
  <2>8. \A u \in Thread : ~HasPermit(u)'
    BY <1>17, <2>3, <2>4, <2>5 DEF Ranges
  <2>9. OnePermit'
    BY <2>1, <2>5, <2>7, <2>8, <2>4 DEF Ranges, Monitors, Registered, RefIsMapped, OnePermit
  <2>10. QED
    BY <2>6, <2>9
<1>18. ASSUME NEW t \in Thread, OnReleased(t) PROVE Good'
  <2>0. ref[t] \in Sem
    BY <1>18, RefInSem, Zenon DEF OnReleased
  <2>1. Registered'
    BY <1>18, <2>0 DEF OnReleased, Ranges, Monitors, Registered, RefIsMapped, OnePermit
  <2>2. RefIsMapped'
    BY <1>18, <2>0 DEF OnReleased, Ranges, Monitors, Registered, RefIsMapped, OnePermit
  <2>3. OnePermit'
    BY <1>18, <2>0 DEF OnReleased, Ranges, Monitors, Registered, RefIsMapped, OnePermit
  <2>4. QED
    BY <2>1, <2>2, <2>3
<1>19. ASSUME NEW t \in Thread, OnReleasedThrows(t) PROVE Good'
  <2>0. ref[t] \in Sem
    BY <1>19, RefInSem, Zenon DEF OnReleasedThrows
  <2>1. Registered'
    BY <1>19, <2>0 DEF OnReleasedThrows, Ranges, Monitors, Registered, RefIsMapped, OnePermit
  <2>2. RefIsMapped'
    BY <1>19, <2>0 DEF OnReleasedThrows, Ranges, Monitors, Registered, RefIsMapped, OnePermit
  <2>3. OnePermit'
    BY <1>19, <2>0 DEF OnReleasedThrows, Ranges, Monitors, Registered, RefIsMapped, OnePermit
  <2>4. QED
    BY <2>1, <2>2, <2>3
<1>20. ASSUME NEW t \in Thread, CleanupMutex(t) PROVE Good'
  <2>1. Registered'
    BY <1>20 DEF CleanupMutex, IsInUse, Ranges, Monitors, Registered, RefIsMapped, OnePermit
  <2>2. RefIsMapped'
    BY <1>20 DEF CleanupMutex, IsInUse, Ranges, Monitors, Registered, RefIsMapped, OnePermit
  <2>3. OnePermit'
    BY <1>20 DEF CleanupMutex, IsInUse, Ranges, Monitors, Registered, RefIsMapped, OnePermit
  <2>4. QED
    BY <2>1, <2>2, <2>3
<1>21. CASE Cleanup
  BY <1>21 DEF Cleanup, IsInUse, Ranges, Monitors, Registered, RefIsMapped, OnePermit
<1>22. CASE UNCHANGED vars
  BY <1>22 DEF vars, Registered, RefIsMapped, OnePermit
<1>23. QED
  BY <1>1, <1>2, <1>3, <1>4, <1>5, <1>6, <1>7, <1>8, <1>9, <1>10, <1>11, <1>12, <1>13,
     <1>14, <1>15, <1>16, <1>17, <1>18, <1>19, <1>20, <1>21, <1>22
     DEF Next, Acquiring, Releasing

(* The inductive invariant holds in every state of the code. *)
THEOREM Invariance == Spec => []IInv
<1>1. IInv /\ [Next]_vars => IInv'
  BY TypeStep, OrderlyStep, GoodStep, Zenon DEF IInv
<1>2. QED
  BY <1>1, InitInv, PTL DEF Spec

(* Ranges, and who is in the monitors of MutexSupport and of a semaphore. *)
THEOREM TypeCorrect == Spec => []TypeOK
<1>1. IInv => TypeOK
  BY DEF IInv
<1>2. QED
  BY <1>1, Invariance, PTL

(* One thread at a time returns from acquireMutex or tryAcquireMutex and    *)
(* has not yet called releaseMutex.                                         *)
THEOREM Exclusion == Spec => []MutualExclusion
<1>1. IInv => MutualExclusion
  <2> SUFFICES ASSUME IInv, Orderly, NEW t \in Thread, NEW u \in Thread,
                      pc[t] = "holding", pc[u] = "holding"
               PROVE  t = u
    BY DEF MutualExclusion, OneHolder
  <2>1. ref[t] = mapped /\ mapped # None
    BY DEF IInv, TypeOK, Monitors, Good, RefIsMapped, Holds
  <2>2. QED
    BY <2>1 DEF IInv, Good, OnePermit, HasPermit, Holds
<1>2. QED
  BY <1>1, Invariance, PTL

(* hasMutex tells the holder so, and its releaseMutex finds its semaphore. *)
THEOREM Registration == Spec => []HolderIsRegistered
<1>1. IInv => HolderIsRegistered
  <2> SUFFICES ASSUME IInv, Orderly, NEW t \in Thread, pc[t] = "holding"
               PROVE  HasMutex(t) /\ mapped = ref[t]
    BY DEF HolderIsRegistered
  <2>1. ref[t] = mapped /\ mapped # None
    BY DEF IInv, TypeOK, Monitors, Good, RefIsMapped, Holds
  <2>2. QED
    BY <2>1 DEF IInv, Good, Registered, Holds, HasMutex
<1>2. QED
  BY <1>1, Invariance, PTL

--------------------------------------------------------------------------------
(* What WaiterIsServed rests on: a permit is not lost, and nobody stands in *)
(* the line who has left it.                                                *)

PermitKept ==
  mapped # None /\ permits[mapped] = 0 => \E t \in Thread : HasPermit(t)

Distinct(q) == \A i, j \in DOMAIN q : q[i] = q[j] => i = j
InLine(t, q) == \E i \in DOMAIN q : q[i] = t

(* The threads parked on the mapped semaphore, once each. *)
LineKept ==
  mapped # None =>
    /\ Distinct(queue[mapped])
    /\ \A t \in Thread : pc[t] = "waiting" <=> InLine(t, queue[mapped])

(* A thread parked in acquire stands in the line of its semaphore, behind   *)
(* threads that are parked too, and the permit is free or somebody has it.  *)
WaiterIsAttended ==
  Orderly => \A t \in Thread : pc[t] = "waiting" =>
    /\ InLine(t, queue[ref[t]])
    /\ \A i \in DOMAIN queue[ref[t]] : pc[queue[ref[t]][i]] = "waiting"
    /\ permits[ref[t]] = 1 \/ \E u \in Thread : HasPermit(u)

LEMMA Joining ==
  ASSUME NEW q \in Seq(Thread), NEW t \in Thread, Distinct(q), ~InLine(t, q)
  PROVE  /\ Distinct(Append(q, t))
         /\ \A u : InLine(u, Append(q, t)) <=> InLine(u, q) \/ u = t
<1>1. /\ DOMAIN Append(q, t) = 1..(Len(q) + 1) /\ DOMAIN q = 1..Len(q) /\ Len(q) \in Nat
      /\ Append(q, t)[Len(q) + 1] = t
      /\ \A i \in 1..Len(q) : Append(q, t)[i] = q[i]
  OBVIOUS
<1>2. QED
  BY <1>1 DEF Distinct, InLine

(* A sequence without its k-th element. *)
LEMMA Removed ==
  ASSUME NEW q \in Seq(Thread), NEW k \in 1..Len(q)
  PROVE  LET r == SubSeq(q, 1, k - 1) \o SubSeq(q, k + 1, Len(q)) IN
         /\ DOMAIN r = 1..(Len(q) - 1)
         /\ \A i \in 1..(Len(q) - 1) : r[i] = IF i < k THEN q[i] ELSE q[i + 1]
<1> DEFINE a == SubSeq(q, 1, k - 1)
           b == SubSeq(q, k + 1, Len(q))
<1>1. Len(q) \in Nat /\ DOMAIN q = 1..Len(q) /\ k \in Nat /\ k <= Len(q) /\ 1 <= k
  OBVIOUS
<1>2. a \in Seq(Thread) /\ Len(a) = k - 1 /\ \A i \in 1..(k - 1) : a[i] = q[i]
  BY <1>1
<1>3. /\ b \in Seq(Thread) /\ Len(b) = Len(q) - k
      /\ \A i \in 1..(Len(q) - k) : b[i] = q[k + i]
  <2>1. /\ k + 1 \in Int /\ Len(q) \in Int /\ \A i \in (k + 1)..Len(q) : q[i] \in Thread
    BY <1>1
  <2>2. /\ b \in Seq(Thread) /\ Len(b) = IF k + 1 <= Len(q) THEN Len(q) - (k + 1) + 1 ELSE 0
        /\ \A i \in 1..(Len(q) - (k + 1) + 1) : b[i] = q[(k + 1) + i - 1]
    BY <2>1, SubSeqProperties
  <2>3. Len(q) - (k + 1) + 1 = Len(q) - k /\ (~(k + 1 <= Len(q)) => Len(q) - k = 0)
    <3>1. \A n, m \in Nat : m <= n => n - (m + 1) + 1 = n - m /\ (~(m + 1 <= n) => n - m = 0)
      OBVIOUS
    <3>2. QED
      BY <1>1, <3>1, Zenon
  <2>4. \A i \in 1..(Len(q) - k) : (k + 1) + i - 1 = k + i
    BY <1>1
  <2> HIDE DEF b
  <2>5. QED
    BY <2>2, <2>3, <2>4
<1>4. ASSUME NEW x \in Seq(Thread), NEW y \in Seq(Thread), Len(x) = k - 1, Len(y) = Len(q) - k
      PROVE  /\ DOMAIN (x \o y) = 1..(Len(q) - 1)
             /\ \A i \in 1..(Len(q) - 1) :
                  (x \o y)[i] = IF i <= k - 1 THEN x[i] ELSE y[i - (k - 1)]
  <2>1. Len(x) + Len(y) = Len(q) - 1
    BY <1>1, <1>4
  <2>2. /\ x \o y \in Seq(Thread) /\ Len(x \o y) = Len(x) + Len(y)
        /\ \A i \in 1..(Len(x) + Len(y)) :
             (x \o y)[i] = IF i <= Len(x) THEN x[i] ELSE y[i - Len(x)]
    BY ConcatProperties
  <2>3. DOMAIN (x \o y) = 1..Len(x \o y)
    BY <2>2
  <2>4. Len(x \o y) = Len(q) - 1
    BY <2>1, <2>2
  <2>5. QED
    BY <2>1, <2>2, <2>3, <2>4, <1>4, Zenon
<1> HIDE DEF a, b
<1>5. /\ DOMAIN (a \o b) = 1..(Len(q) - 1)
      /\ \A i \in 1..(Len(q) - 1) :
           (a \o b)[i] = IF i <= k - 1 THEN a[i] ELSE b[i - (k - 1)]
  BY <1>2, <1>3, <1>4
<1>6. ASSUME NEW i \in 1..(Len(q) - 1), i < k PROVE (a \o b)[i] = q[i]
  <2>1. i <= k - 1 /\ i \in 1..(k - 1)
    BY <1>1, <1>6
  <2>2. QED
    BY <1>2, <1>5, <2>1
<1>7. ASSUME NEW i \in 1..(Len(q) - 1), ~(i < k) PROVE (a \o b)[i] = q[i + 1]
  <2>1. i - (k - 1) \in 1..(Len(q) - k) /\ k + (i - (k - 1)) = i + 1 /\ ~(i <= k - 1)
    BY <1>1, <1>7
  <2>2. (a \o b)[i] = b[i - (k - 1)]
    BY <1>5, <2>1
  <2>3. QED
    BY <1>3, <2>1, <2>2
<1>8. QED
  BY <1>5, <1>6, <1>7 DEF a, b

LEMMA Leaving ==
  ASSUME NEW q \in Seq(Thread), NEW k \in 1..Len(q), Distinct(q)
  PROVE  LET r == SubSeq(q, 1, k - 1) \o SubSeq(q, k + 1, Len(q)) IN
         Distinct(r) /\ \A u : InLine(u, r) <=> InLine(u, q) /\ u # q[k]
<1> DEFINE r == SubSeq(q, 1, k - 1) \o SubSeq(q, k + 1, Len(q))
<1>1. Len(q) \in Nat /\ DOMAIN q = 1..Len(q) /\ k \in Nat /\ k <= Len(q) /\ 1 <= k
  OBVIOUS
<1>2. /\ DOMAIN r = 1..(Len(q) - 1)
      /\ \A i \in 1..(Len(q) - 1) : r[i] = IF i < k THEN q[i] ELSE q[i + 1]
  BY Removed
<1> HIDE DEF r
<1>3. \A i, j \in 1..Len(q) : q[i] = q[j] => i = j
  BY <1>1 DEF Distinct
<1>4. \A i \in 1..(Len(q) - 1) :
        /\ i \in 1..Len(q) /\ i + 1 \in 1..Len(q)
        /\ r[i] = q[IF i < k THEN i ELSE i + 1]
  BY <1>1, <1>2
<1>5. Distinct(r)
  <2>1. SUFFICES ASSUME NEW i \in 1..(Len(q) - 1), NEW j \in 1..(Len(q) - 1), r[i] = r[j] PROVE i = j
    BY <1>2 DEF Distinct
  <2>2. (IF i < k THEN i ELSE i + 1) = (IF j < k THEN j ELSE j + 1)
    BY <1>3, <1>4, <2>1
  <2>3. QED
    BY <1>1, <2>2
<1>6. ASSUME NEW u, InLine(u, r) PROVE InLine(u, q) /\ u # q[k]
  <2>1. PICK i \in 1..(Len(q) - 1) : r[i] = u
    BY <1>2, <1>6 DEF InLine
  <2>2. (IF i < k THEN i ELSE i + 1) \in 1..Len(q) /\ (IF i < k THEN i ELSE i + 1) # k
    BY <1>1
  <2>3. QED
    BY <1>1, <1>3, <1>4, <2>1, <2>2 DEF InLine
<1>7. ASSUME NEW u, InLine(u, q), u # q[k] PROVE InLine(u, r)
  <2>1. PICK i \in 1..Len(q) : q[i] = u /\ i # k
    BY <1>1, <1>7 DEF InLine
  <2>2. CASE i < k
    <3>1. i \in 1..(Len(q) - 1) /\ r[i] = u
      BY <1>1, <1>2, <2>1, <2>2
    <3>2. QED
      BY <1>2, <3>1 DEF InLine
  <2>3. CASE i > k
    <3>1. i - 1 \in 1..(Len(q) - 1) /\ ~(i - 1 < k) /\ (i - 1) + 1 = i
      BY <1>1, <2>1, <2>3
    <3>2. r[i - 1] = u
      BY <1>2, <2>1, <3>1
    <3>3. QED
      BY <1>2, <3>1, <3>2 DEF InLine
  <2>4. QED
    BY <1>1, <2>1, <2>2, <2>3
<1>8. QED
  BY <1>5, <1>6, <1>7 DEF r

LEMMA Serving ==
  ASSUME NEW q \in Seq(Thread), q # <<>>, Distinct(q)
  PROVE  Distinct(Tail(q)) /\ \A u : InLine(u, Tail(q)) <=> InLine(u, q) /\ u # Head(q)
<1>1. Len(q) \in Nat /\ DOMAIN q = 1..Len(q) /\ 1 <= Len(q) /\ Head(q) = q[1]
  OBVIOUS
<1>2. /\ DOMAIN Tail(q) = 1..(Len(q) - 1)
      /\ \A i \in 1..(Len(q) - 1) : Tail(q)[i] = q[i + 1]
  BY <1>1
<1>3. Distinct(Tail(q))
  BY <1>1, <1>2 DEF Distinct
<1>4. ASSUME NEW u, InLine(u, Tail(q)) PROVE InLine(u, q) /\ u # Head(q)
  BY <1>1, <1>2, <1>4 DEF Distinct, InLine
<1>5. ASSUME NEW u, InLine(u, q), u # Head(q) PROVE InLine(u, Tail(q))
  <2>1. PICK i \in 1..Len(q) : q[i] = u /\ i # 1
    BY <1>1, <1>5 DEF InLine
  <2>2. i - 1 \in 1..(Len(q) - 1) /\ Tail(q)[i - 1] = q[(i - 1) + 1] /\ (i - 1) + 1 = i
    BY <1>1, <1>2, <2>1
  <2>3. QED
    BY <1>2, <2>1, <2>2 DEF InLine
<1>6. QED
  BY <1>3, <1>4, <1>5

(* Steps by which nobody parks or leaves the line. *)
LEMMA LineUnmoved ==
  ASSUME LineKept, queue' = queue, mapped' = mapped \/ mapped' = None,
         \A t \in Thread : pc'[t] = "waiting" <=> pc[t] = "waiting"
  PROVE  LineKept'
BY DEF LineKept

LEMMA LineStep ==
  ASSUME TypeOK, TypeOK', Good, Good', LineKept, [Next]_vars
  PROVE  LineKept'
<1> USE DEF TypeOK, Goto, sems, history
<1>1. ASSUME NEW t \in Thread, GetSemaphore(t) PROVE LineKept'
  <2>1. \A u \in Thread : pc'[u] = "waiting" <=> pc[u] = "waiting"
    BY <1>1 DEF GetSemaphore, Ranges
  <2>2. CASE mapped # None
    BY <1>1, <2>1, <2>2, LineUnmoved DEF GetSemaphore
  <2>3. CASE mapped = None
    <3>1. \A u \in Thread : pc[u] # "waiting"
      BY <2>3 DEF Good, RefIsMapped, InCall, Monitors
    <3>2. queue'[mapped'] = <<>>
      BY <1>1, <2>3 DEF GetSemaphore, Ranges
    <3>3. QED
      BY <2>1, <3>1, <3>2 DEF LineKept, Distinct, InLine
  <2>4. QED
    BY <2>2, <2>3
<1>2. ASSUME NEW t \in Thread, AcquireParks(t) PROVE LineKept'
  <2>1. ref[t] = mapped /\ mapped \in Sem
    BY <1>2, RefInSem DEF AcquireParks, Good, RefIsMapped, InCall
  <2>2. /\ queue[mapped] \in Seq(Thread) /\ Distinct(queue[mapped]) /\ ~InLine(t, queue[mapped])
        /\ \A u \in Thread : pc[u] = "waiting" <=> InLine(u, queue[mapped])
    BY <1>2, <2>1, NoneAssumption DEF AcquireParks, LineKept, Ranges
  <2>3. mapped' = mapped /\ queue'[mapped] = Append(queue[mapped], t)
    BY <1>2, <2>1 DEF AcquireParks, Ranges
  <2>4. \A u \in Thread : pc'[u] = "waiting" <=> pc[u] = "waiting" \/ u = t
    BY <1>2 DEF AcquireParks, Ranges
  <2>5. QED
    BY <2>2, <2>3, <2>4, Joining DEF LineKept
<1>3. ASSUME NEW t \in Thread, AcquireUnparks(t) PROVE LineKept'
  <2>1. ref[t] = mapped /\ mapped \in Sem
    BY <1>3, RefInSem DEF AcquireUnparks, Good, RefIsMapped, InCall
  <2>2. /\ queue[mapped] \in Seq(Thread) /\ Distinct(queue[mapped])
        /\ queue[mapped] # <<>> /\ Head(queue[mapped]) = t
        /\ \A u \in Thread : pc[u] = "waiting" <=> InLine(u, queue[mapped])
    BY <1>3, <2>1, NoneAssumption DEF AcquireUnparks, LineKept, Ranges
  <2>3. mapped' = mapped /\ queue'[mapped] = Tail(queue[mapped])
    BY <1>3, <2>1 DEF AcquireUnparks, TakePermit, Ranges
  <2>4. \A u \in Thread : pc'[u] = "waiting" <=> pc[u] = "waiting" /\ u # t
    BY <1>3 DEF AcquireUnparks, TakePermit, Ranges
  <2>5. QED
    BY <2>2, <2>3, <2>4, Serving DEF LineKept
<1>4. ASSUME NEW t \in Thread, Interrupt(t) PROVE LineKept'
  <2>1. mapped' = mapped /\ pc' = [pc EXCEPT ![t] = "finish"]
    BY <1>4 DEF Interrupt
  <2>2. CASE pc[t] = "permit"
    <3>1. queue' = queue
      BY <1>4, <2>2 DEF Interrupt
    <3>2. QED
      BY <2>1, <2>2, <3>1, LineUnmoved DEF Ranges
  <2>3. CASE pc[t] = "waiting"
    <3> DEFINE q == queue[mapped]
    <3>1. ref[t] = mapped /\ mapped \in Sem
      BY <2>3, RefInSem DEF Good, RefIsMapped, InCall
    <3>2. PICK i \in 1..Len(q) :
            q[i] = t /\ queue'[mapped] = SubSeq(q, 1, i - 1) \o SubSeq(q, i + 1, Len(q))
      BY <1>4, <2>3, <3>1 DEF Interrupt, Ranges
    <3>3. /\ q \in Seq(Thread) /\ Distinct(q)
          /\ \A u \in Thread : pc[u] = "waiting" <=> InLine(u, q)
      BY <3>1, NoneAssumption DEF LineKept, Ranges
    <3>4. \A u \in Thread : pc'[u] = "waiting" <=> pc[u] = "waiting" /\ u # t
      BY <2>1 DEF Ranges
    <3> HIDE DEF q
    <3>5. /\ Distinct(queue'[mapped])
          /\ \A u : InLine(u, queue'[mapped]) <=> InLine(u, q) /\ u # t
      BY <3>2, <3>3, Leaving
    <3>6. QED
      BY <2>1, <3>3, <3>4, <3>5 DEF LineKept
  <2>4. QED
    BY <1>4, <2>2, <2>3 DEF Interrupt
<1>5. ASSUME NEW t \in Thread,
             \/ Indicate(t) \/ OnRequestingEnter(t) \/ OnRequesting(t) \/ Acquire(t)
             \/ TryAcquire(t) \/ TryAcquireFails(t) \/ OnAcquired(t)
             \/ OnRequestFinishedEnter(t) \/ OnRequestFinished(t) \/ Escape(t)
             \/ Releasing(t)
      PROVE  LineKept'
  <2>1. queue' = queue /\ (mapped' = mapped \/ mapped' = None)
    BY <1>5 DEF Indicate, OnRequestingEnter, OnRequesting, EnterLocked, Acquire, TakePermit,
       TryAcquire, TryAcquireFails, OnAcquired, OnRequestFinishedEnter, OnRequestFinished, Escape,
       Releasing, EndInstall, ReleaseUnknown, Release, OnReleased, OnReleasedThrows, CleanupMutex
  <2>2. pc[t] # "waiting"
    BY <1>5 DEF Indicate, OnRequestingEnter, OnRequesting, EnterLocked, Acquire,
       TryAcquire, TryAcquireFails, OnAcquired, OnRequestFinishedEnter, OnRequestFinished, Escape,
       Releasing, EndInstall, ReleaseUnknown, Release, OnReleased, OnReleasedThrows, CleanupMutex
  <2>3. \E to \in Pc \ {"waiting"} : pc' = [pc EXCEPT ![t] = to]
    BY <1>5, PcRange DEF Indicate, OnRequestingEnter, OnRequesting, EnterLocked, Acquire, TakePermit,
       TryAcquire, TryAcquireFails, OnAcquired, OnRequestFinishedEnter, OnRequestFinished, Escape,
       Releasing, EndInstall, ReleaseUnknown, Release, OnReleased, OnReleasedThrows, CleanupMutex
  <2>4. QED
    BY <2>1, <2>2, <2>3, LineUnmoved DEF Ranges
<1>6. CASE Cleanup \/ UNCHANGED vars
  BY <1>6, LineUnmoved DEF Cleanup, vars
<1>7. QED
  BY <1>1, <1>2, <1>3, <1>4, <1>5, <1>6 DEF Next, Acquiring

(* The permit changes hands in acquire and in super.release only. *)
LEMMA PermitStep ==
  ASSUME TypeOK, TypeOK', Good, Good', PermitKept, [Next]_vars
  PROVE  PermitKept'
<1> USE DEF TypeOK, Goto, sems, history
<1>1. ASSUME NEW t \in Thread, Acquire(t) \/ AcquireUnparks(t) \/ TryAcquire(t) PROVE PermitKept'
  <2>1. pc'[t] = "acquired"
    BY <1>1 DEF Acquire, AcquireUnparks, TryAcquire, TakePermit, Ranges
  <2>2. QED
    BY <2>1 DEF PermitKept, HasPermit
<1>2. ASSUME NEW t \in Thread, GetSemaphore(t) PROVE PermitKept'
  <2>1. CASE mapped # None
    <3>1. UNCHANGED <<mapped, permits, owners>> /\ pc[t] = "idle" /\ pc' = [pc EXCEPT ![t] = "indicate"]
      BY <1>2, <2>1 DEF GetSemaphore
    <3>2. \A u \in Thread \ {t} : ref'[u] = ref[u]
      BY <1>2 DEF GetSemaphore, Ranges
    <3>3. QED
      BY <3>1, <3>2 DEF PermitKept, HasPermit, Holds, Ranges
  <2>2. CASE mapped = None
    BY <1>2, <2>2 DEF GetSemaphore, PermitKept, Ranges
  <2>3. QED
    BY <2>1, <2>2
<1>3. ASSUME NEW t \in Thread, Release(t) PROVE PermitKept'
  <2>1. mapped \in Sem /\ mapped' = mapped /\ permits' = [permits EXCEPT ![mapped] = @ + 1]
    BY <1>3 DEF Release, Ranges
  <2>2. permits[mapped] \in {0, 1} /\ permits'[mapped] \in {0, 1}
    BY <2>1, NoneAssumption DEF Good, OnePermit
  <2>3. QED
    BY <2>1, <2>2 DEF PermitKept, Ranges
<1>4. ASSUME NEW t \in Thread,
             \/ Indicate(t) \/ OnRequestingEnter(t) \/ OnRequesting(t) \/ AcquireParks(t)
             \/ TryAcquireFails(t) \/ Interrupt(t) \/ Escape(t) \/ EndInstall(t)
             \/ ReleaseUnknown(t) \/ OnRequestFinishedEnter(t)
      PROVE  PermitKept'
  <2>1. UNCHANGED <<mapped, permits, owners>> /\ \A u \in Thread \ {t} : ref'[u] = ref[u] /\ pc'[u] = pc[u]
    BY <1>4 DEF Indicate, OnRequestingEnter, OnRequesting, EnterLocked, AcquireParks,
       TryAcquireFails, Interrupt, Escape, EndInstall, ReleaseUnknown, OnRequestFinishedEnter, Ranges
  <2>2. HasPermit(t) => HasPermit(t)' \/ mapped' = None
    <3>1. CASE EndInstall(t)
      <4>1. pc[t] = "holding" /\ pc'[t] = "release" /\ ref' = ref
        BY <3>1 DEF EndInstall, Ranges
      <4>2. ref[t] # None
        BY <4>1 DEF Monitors
      <4>3. QED
        BY <4>1, <4>2 DEF HasPermit, Holds
    <3>2. CASE OnRequestFinishedEnter(t)
      BY <3>2 DEF OnRequestFinishedEnter, EnterLocked, HasPermit, Holds, Ranges
    <3>3. CASE ReleaseUnknown(t)
      BY <3>3 DEF ReleaseUnknown
    <3>4. CASE ~EndInstall(t) /\ ~OnRequestFinishedEnter(t) /\ ~ReleaseUnknown(t)
      <4>1. pc[t] \in {"indicate", "request", "requesting", "permit", "waiting", "escaped"}
        BY <1>4, <3>4 DEF Indicate, OnRequestingEnter, OnRequesting, EnterLocked, AcquireParks,
           TryAcquireFails, Interrupt, Escape
      <4>2. QED
        BY <4>1 DEF HasPermit, Holds
    <3>5. QED
      BY <3>1, <3>2, <3>3, <3>4
  <2>3. QED
    BY <2>1, <2>2 DEF PermitKept, HasPermit, Holds
<1>5. ASSUME NEW t \in Thread,
             OnAcquired(t) \/ OnRequestFinished(t) \/ OnReleased(t) \/ OnReleasedThrows(t)
      PROVE  PermitKept'
  <2>1. UNCHANGED <<mapped, permits>> /\ \A u \in Thread \ {t} : ref'[u] = ref[u] /\ pc'[u] = pc[u]
    BY <1>5 DEF OnAcquired, OnRequestFinished, OnReleased, OnReleasedThrows, Ranges
  <2>r. ref[t] \in Sem
    BY <1>5, RefInSem DEF OnAcquired, OnRequestFinished, OnReleased, OnReleasedThrows
  <2>2. \A u \in Thread \ {t}, s \in Sem : u \in owners'[s] <=> u \in owners[s]
    <3>1. owners' = owners \/ \E S \in SUBSET Thread :
            owners' = [owners EXCEPT ![ref[t]] = S] /\ \A u \in Thread \ {t} : u \in S <=> u \in owners[ref[t]]
      <4>1. CASE OnAcquired(t)
        BY <4>1, <2>r DEF OnAcquired, Ranges
      <4>2. CASE OnReleased(t)
        BY <4>2, <2>r DEF OnReleased, Ranges
      <4>3. CASE OnRequestFinished(t) \/ OnReleasedThrows(t)
        BY <4>3 DEF OnRequestFinished, OnReleasedThrows
      <4>4. QED
        BY <1>5, <4>1, <4>2, <4>3
    <3>2. QED
      BY <3>1, <2>r DEF Ranges
  <2>3. HasPermit(t) => HasPermit(t)'
    <3>1. CASE OnAcquired(t)
      BY <3>1, <2>r DEF OnAcquired, HasPermit, Holds, Ranges
    <3>2. CASE OnRequestFinished(t)
      BY <3>2, <2>r DEF OnRequestFinished, HasPermit, Holds, Ranges
    <3>3. CASE OnReleased(t) \/ OnReleasedThrows(t)
      BY <3>3 DEF OnReleased, OnReleasedThrows, HasPermit, Holds
    <3>4. QED
      BY <1>5, <3>1, <3>2, <3>3
  <2>4. \A u \in Thread : HasPermit(u) => ref[u] \in Sem
    BY RefInSem DEF HasPermit, Holds, Ranges
  <2>5. QED
    BY <2>1, <2>2, <2>3, <2>4 DEF PermitKept, HasPermit, Holds
<1>6. ASSUME NEW t \in Thread, CleanupMutex(t) PROVE PermitKept'
  <2>1. mapped' = None \/ mapped' = mapped
    BY <1>6 DEF CleanupMutex
  <2>2. \A u \in Thread : HasPermit(u) => HasPermit(u)'
    BY <1>6 DEF CleanupMutex, HasPermit, Holds, Ranges, Monitors
  <2>3. QED
    BY <1>6, <2>1, <2>2 DEF CleanupMutex, PermitKept
<1>7. CASE Cleanup \/ UNCHANGED vars
  BY <1>7 DEF Cleanup, vars, PermitKept, HasPermit, Holds
<1>8. QED
  BY <1>1, <1>2, <1>3, <1>4, <1>5, <1>6, <1>7 DEF Next, Acquiring, Releasing

(* While the calls are orderly, the one permit of a mutex is free or with a *)
(* thread that is to release it, and whoever waits for it is in the line:   *)
(* neither interrupts nor the removal of map entries lose a waiter.         *)
THEOREM NoWaiterIsLost == Spec => []WaiterIsAttended
<1> DEFINE Kept == Orderly => LineKept /\ PermitKept
<1>1. Init => Kept
  BY DEF Init, LineKept, PermitKept
<1>2. IInv /\ IInv' /\ Kept /\ [Next]_vars => Kept'
  BY LineStep, PermitStep, OrderlyStep DEF IInv
<1>3. IInv /\ Kept => WaiterIsAttended
  <2> SUFFICES ASSUME TypeOK, Good, LineKept, PermitKept, NEW t \in Thread, pc[t] = "waiting"
               PROVE  /\ InLine(t, queue[ref[t]])
                      /\ \A i \in DOMAIN queue[ref[t]] : pc[queue[ref[t]][i]] = "waiting"
                      /\ permits[ref[t]] = 1 \/ \E u \in Thread : HasPermit(u)
    BY DEF IInv, WaiterIsAttended
  <2>1. ref[t] = mapped /\ mapped \in Sem /\ mapped # None
    BY RefInSem, NoneAssumption DEF Good, RefIsMapped, InCall
  <2>2. \A i \in DOMAIN queue[mapped] : queue[mapped][i] \in Thread
    BY <2>1 DEF TypeOK, Ranges
  <2>3. QED
    BY <2>1, <2>2 DEF LineKept, PermitKept, Good, OnePermit, InLine
<1>4. QED
  BY <1>1, <1>2, <1>3, Invariance, PTL DEF Spec

================================================================================
