--------------------------- MODULE BasicPool_proofs ---------------------------
(***************************************************************************)
(* Proofs about BasicPool, for any set of threads and of objects.  The     *)
(* invariant adds to OnePlace only that an object that was not made yet    *)
(* was not closed either: whether an object is pooled, in hand or closed   *)
(* follows from where it was, once each of them excludes the others.       *)
(* After the refinement, the safety part of EverythingCloses.              *)
(*                                                                         *)
(* At the end, the proofs about MementoFileWriter.                         *)
(***************************************************************************)
EXTENDS BasicPool, MementoFileWriter, TLAPS

Fresh == \A o \in Object \ made : disposed[o] = 0

IInv == TypeOK /\ Fresh /\ OnePlace

-------------------------------------------------------------------------------
(* The deque without its last element, and with one more. *)

LEMMA FrontIsPrefix ==
  ASSUME NEW S, NEW s \in Seq(S), s # <<>>
  PROVE  /\ Front(s) \in Seq(S) /\ Len(Front(s)) = Len(s) - 1
         /\ DOMAIN Front(s) = 1..(Len(s) - 1)
         /\ \A i \in 1..(Len(s) - 1) : Front(s)[i] = s[i]
         /\ Last(s) = s[Len(s)] /\ Last(s) \in S /\ Len(s) \in DOMAIN s
  <1>1. Len(s) \in Nat /\ Len(s) # 0 /\ DOMAIN s = 1..Len(s)
    OBVIOUS
  <1>2. Len(s) - 1 \in Nat /\ 1 \in 1..Len(s) /\ Len(s) - 1 <= Len(s)
    BY <1>1
  <1>3. Front(s) = SubSeq(s, 1, Len(s) - 1)
    BY DEF Front
  <1>4. /\ SubSeq(s, 1, Len(s) - 1) \in Seq(S)
        /\ Len(SubSeq(s, 1, Len(s) - 1)) = Len(s) - 1
        /\ \A i \in 1..(Len(s) - 1) : SubSeq(s, 1, Len(s) - 1)[i] = s[i]
    BY <1>1, <1>2
  <1>5. DOMAIN Front(s) = 1..(Len(s) - 1)
    BY <1>3, <1>4
  <1>6. Last(s) = s[Len(s)] /\ s[Len(s)] \in S /\ Len(s) \in DOMAIN s
    BY <1>1 DEF Last
  <1> QED BY <1>3, <1>4, <1>5, <1>6

LEMMA AppendAddsOne ==
  ASSUME NEW S, NEW s \in Seq(S), NEW e \in S
  PROVE  /\ Append(s, e) \in Seq(S)
         /\ DOMAIN Append(s, e) = 1..(Len(s) + 1)
         /\ \A i \in 1..Len(s) : Append(s, e)[i] = s[i]
         /\ Append(s, e)[Len(s) + 1] = e
  OBVIOUS

LEMMA ToSetIsPooled ==
  ASSUME TypeOK, NEW o \in Object
  PROVE  o \in ToSet(pool) <=> Pooled(o)
  BY DEF ToSet, Pooled, TypeOK

(* What the closer does to one object. *)
LEMMA Disposed ==
  ASSUME TypeOK, NEW S, Dispose(S)
  PROVE  /\ disposed' \in [Object -> 0..2]
         /\ \A o \in Object : /\ o \notin S => disposed'[o] = disposed[o]
                              /\ o \in S => disposed'[o] > 0
                              /\ o \in S /\ disposed[o] = 0 => disposed'[o] = 1
  BY DEF TypeOK, Dispose

-------------------------------------------------------------------------------
(* The type invariant *)

LEMMA InitType == Init => TypeOK
  <1> SUFFICES ASSUME Init PROVE TypeOK
    OBVIOUS
  <1>1. pool \in Seq(made)
    BY DEF Init
  <1>2. pc \in [Thread -> Pc] /\ disposed \in [Object -> 0..2]
    BY DEF Init, Pc
  <1>3. hand \in [Thread -> made \cup {None}] /\ past \in [Thread -> made \cup {None}]
    BY DEF Init
  <1>4. \A t \in Thread : hand[t] # None <=> pc[t] \in {"checking", "leased"}
    BY DEF Init
  <1>5. made \subseteq Object /\ twice \subseteq made /\ closed \in BOOLEAN
    BY DEF Init
  <1>6. cutShort \in BOOLEAN /\ (cutShort => closed)
    BY DEF Init
  <1>7. calls \in 0..MaxLeases /\ throws \in 0..MaxThrows
    BY BoundAssumption DEF Init
  <1> QED BY <1>1, <1>2, <1>3, <1>4, <1>5, <1>6, <1>7 DEF TypeOK

LEMMA ReturnType ==
  ASSUME TypeOK, NEW o \in made, ReturnLeasee(o), UNCHANGED made
  PROVE  /\ pool' \in Seq(made') /\ closed' = closed
         /\ disposed' \in [Object -> 0..2] /\ throws' \in 0..MaxThrows
  <1>1. CASE closed
    <2>1. UNCHANGED deque /\ Dispose({o}) /\ (CloserReturns \/ CloserThrows)
      BY <1>1 DEF ReturnLeasee
    <2>2. throws' \in 0..MaxThrows
      BY <2>1, BoundAssumption DEF CloserReturns, CloserThrows, TypeOK
    <2>3. disposed' \in [Object -> 0..2]
      BY <2>1, Disposed
    <2> QED BY <2>1, <2>2, <2>3 DEF deque, TypeOK
  <1>2. CASE ~closed
    BY <1>2, AppendAddsOne DEF ReturnLeasee, TypeOK
  <1> QED BY <1>1, <1>2

LEMMA NextType == TypeOK /\ [Next]_vars => TypeOK'
  <1> SUFFICES ASSUME TypeOK, [Next]_vars PROVE TypeOK'
    OBVIOUS
  <1> USE NoneAssumption, BoundAssumption
  <1>1. ASSUME NEW t \in Thread, LeaseObject(t) PROVE TypeOK'
    BY <1>1 DEF TypeOK, LeaseObject, Goes, Pc, deque, history
  <1>2. ASSUME NEW t \in Thread, PollRefused(t) PROVE TypeOK'
    BY <1>2 DEF TypeOK, PollRefused, Goes, Pc, deque, history
  <1>3. ASSUME NEW t \in Thread, Poll(t) PROVE TypeOK'
    BY <1>3, FrontIsPrefix DEF TypeOK, Poll, Goes, Pc, history
  <1>4. ASSUME NEW t \in Thread, PollEmpty(t) PROVE TypeOK'
    BY <1>4 DEF TypeOK, PollEmpty, Goes, Pc, deque, history
  <1>5. ASSUME NEW t \in Thread, Viable(t) PROVE TypeOK'
    BY <1>5 DEF TypeOK, Viable, Goes, Pc, deque, history
  <1>6. ASSUME NEW t \in Thread, NotViable(t) PROVE TypeOK'
    BY <1>6, Disposed DEF TypeOK, NotViable, Goes, Pc, deque, history, CloserReturns, CloserThrows
  <1>7. ASSUME NEW t \in Thread, Supply(t) PROVE TypeOK'
    <2>1. PICK o \in Object \ made : made' = made \cup {o} /\ Goes(t, "leased", o)
      BY <1>7 DEF Supply
    <2>2. pool' \in Seq(made')
      BY <1>7, <2>1 DEF TypeOK, Supply, deque
    <2> QED BY <1>7, <2>1, <2>2 DEF TypeOK, Supply, Goes, Pc, deque, history
  <1>8. ASSUME NEW t \in Thread, SupplyThrows(t) PROVE TypeOK'
    BY <1>8 DEF TypeOK, SupplyThrows, Goes, Pc, deque, history
  <1>9. ASSUME NEW t \in Thread, CloseLease(t) PROVE TypeOK'
    <2>1. hand[t] \in made /\ ReturnLeasee(hand[t]) /\ UNCHANGED made
      BY <1>9 DEF TypeOK, CloseLease
    <2>2. /\ pool' \in Seq(made') /\ closed' = closed
          /\ disposed' \in [Object -> 0..2] /\ throws' \in 0..MaxThrows
      BY <2>1, ReturnType
    <2> QED BY <1>9, <2>1, <2>2 DEF TypeOK, CloseLease, Goes, Pc, history
  <1>10. ASSUME NEW t \in Thread, CloseLeaseAgain(t) PROVE TypeOK'
    <2>1. past[t] \in made /\ ReturnLeasee(past[t]) /\ UNCHANGED made
      BY <1>10 DEF TypeOK, CloseLeaseAgain
    <2>2. /\ pool' \in Seq(made') /\ closed' = closed
          /\ disposed' \in [Object -> 0..2] /\ throws' \in 0..MaxThrows
      BY <2>1, ReturnType
    <2> QED BY <1>10, <2>1, <2>2 DEF TypeOK, CloseLeaseAgain, Pc
  <1>11. ASSUME ClosePool PROVE TypeOK'
    BY <1>11, Disposed DEF TypeOK, ClosePool, client, history, CloserReturns
  <1>12. ASSUME NEW i \in DOMAIN pool, ClosePoolThrows(i) PROVE TypeOK'
    BY <1>12, Disposed DEF TypeOK, ClosePoolThrows, client, CloserThrows
  <1>13. ASSUME UNCHANGED vars PROVE TypeOK'
    BY <1>13 DEF TypeOK, vars, deque, client, history
  <1> QED
    BY <1>1, <1>2, <1>3, <1>4, <1>5, <1>6, <1>7, <1>8, <1>9, <1>10, <1>11, <1>12, <1>13
    DEF Next, Continue

(* The variables keep their ranges, whatever the threads and objects are. *)
THEOREM TypeCorrect == Spec => []TypeOK
  BY InitType, NextType, PTL DEF Spec

-------------------------------------------------------------------------------
(* One place *)

LEMMA InitOnePlace == Init => Fresh /\ OnePlace
  BY DEF Init, Fresh, OnePlace

(* Most steps of leaseObject move no object. *)
LEMMA Unmoved ==
  ASSUME TypeOK, Fresh, OnePlace,
         UNCHANGED <<pool, made, disposed, hand, twice, cutShort>>
  PROVE  Fresh' /\ OnePlace'
  BY DEF Fresh, OnePlace, OnlyPlace, Pooled, InHand

LEMMA PollKeepsOnePlace ==
  ASSUME TypeOK, Fresh, OnePlace, NEW t \in Thread, Poll(t)
  PROVE  Fresh' /\ OnePlace'
  <1>1. /\ pool \in Seq(made) /\ pool # <<>> /\ pool' = Front(pool)
        /\ hand' = [hand EXCEPT ![t] = Last(pool)] /\ ~closed
        /\ UNCHANGED <<made, disposed, twice, cutShort>>
    BY DEF Poll, Goes, TypeOK, history
  <1>2. Fresh'
    BY <1>1 DEF Fresh
  <1> SUFFICES ASSUME NEW o \in made \ twice PROVE OnlyPlace(o)'
    BY <1>1, <1>2 DEF OnePlace
  <1>3. /\ DOMAIN pool' = 1..(Len(pool) - 1) /\ DOMAIN pool = 1..Len(pool)
        /\ \A i \in 1..(Len(pool) - 1) : pool'[i] = pool[i]
        /\ Last(pool) = pool[Len(pool)] /\ Last(pool) \in made
        /\ Len(pool) \in Nat /\ Len(pool) \in DOMAIN pool
    BY <1>1, FrontIsPrefix
  <1>4. OnlyPlace(o) /\ o \in Object /\ o # None
    BY NoneAssumption DEF OnePlace, TypeOK
  <1>5. hand \in [Thread -> made \cup {None}] /\ ~cutShort
    BY <1>1 DEF TypeOK
  <1>6. CASE o = Last(pool)
    <2>1. Pooled(o) /\ ~InHand(o) /\ ~(disposed[o] > 0)
      BY <1>3, <1>4, <1>5, <1>6 DEF OnlyPlace, Pooled
    <2>2. ~Pooled(o)'
      BY <1>3, <1>4, <1>6 DEF OnlyPlace, Pooled
    <2>3. \A u \in Thread : hand'[u] = o <=> u = t
      BY <1>1, <1>5, <1>6, <2>1 DEF InHand
    <2> QED BY <1>1, <1>4, <2>1, <2>2, <2>3 DEF OnlyPlace, Pooled, InHand
  <1>7. CASE o # Last(pool)
    <2>1. Pooled(o)' <=> Pooled(o)
      BY <1>3, <1>7 DEF Pooled
    <2>2. hand[t] = None
      BY DEF Poll, TypeOK
    <2>3. \A u \in Thread : hand'[u] = o <=> hand[u] = o
      BY <1>1, <1>4, <1>5, <1>7, <2>2
    <2>4. \A i, j \in DOMAIN pool' : pool'[i] = o /\ pool'[j] = o => i = j
      BY <1>3, <1>4 DEF OnlyPlace
    <2> QED BY <1>1, <1>4, <2>1, <2>3, <2>4 DEF OnlyPlace, InHand
  <1> QED BY <1>6, <1>7

LEMMA NotViableKeepsOnePlace ==
  ASSUME TypeOK, Fresh, OnePlace, NEW t \in Thread, NotViable(t)
  PROVE  Fresh' /\ OnePlace'
  <1>1. /\ Dispose({hand[t]}) /\ hand' = [hand EXCEPT ![t] = None]
        /\ UNCHANGED <<pool, closed, made, twice, cutShort>>
    BY DEF NotViable, Goes, deque, history
  <1>2. hand[t] \in made /\ hand \in [Thread -> made \cup {None}] /\ made \subseteq Object
    BY DEF NotViable, TypeOK
  <1>3. \A o \in Object : /\ o # hand[t] => disposed'[o] = disposed[o]
                          /\ o = hand[t] => disposed'[o] > 0
                          /\ o = hand[t] /\ disposed[o] = 0 => disposed'[o] = 1
    BY <1>1, Disposed
  <1>4. Fresh'
    BY <1>1, <1>2, <1>3 DEF Fresh
  <1> SUFFICES ASSUME NEW o \in made \ twice PROVE OnlyPlace(o)'
    BY <1>1, <1>4 DEF OnePlace
  <1>5. OnlyPlace(o) /\ o \in Object /\ o # None /\ disposed[o] \in 0..2
    BY NoneAssumption DEF OnePlace, TypeOK
  <1>6. CASE o = hand[t]
    <2>1. InHand(o) /\ ~Pooled(o) /\ disposed[o] = 0 /\ disposed'[o] = 1
      BY <1>3, <1>5, <1>6 DEF OnlyPlace, InHand
    <2>2. \A u \in Thread : hand'[u] # o
      BY <1>1, <1>2, <1>5, <1>6 DEF OnlyPlace
    <2>3. ~Pooled(o)'
      BY <1>1, <2>1 DEF Pooled
    <2> QED BY <1>1, <2>1, <2>2, <2>3 DEF OnlyPlace, Pooled, InHand
  <1>7. CASE o # hand[t]
    <2>1. \A u \in Thread : hand'[u] = o <=> hand[u] = o
      BY <1>1, <1>2, <1>5, <1>7
    <2> QED BY <1>1, <1>3, <1>5, <1>7, <2>1 DEF OnlyPlace, Pooled, InHand
  <1> QED BY <1>6, <1>7

LEMMA SupplyKeepsOnePlace ==
  ASSUME TypeOK, Fresh, OnePlace, NEW t \in Thread, Supply(t)
  PROVE  Fresh' /\ OnePlace'
  <1>1. PICK x \in Object \ made : made' = made \cup {x} /\ hand' = [hand EXCEPT ![t] = x]
    BY DEF Supply, Goes
  <1>2. UNCHANGED <<pool, disposed, twice, cutShort>>
    BY DEF Supply, deque, history
  <1>3. /\ hand \in [Thread -> made \cup {None}] /\ made \subseteq Object
        /\ pool \in Seq(made) /\ hand[t] = None
    BY DEF Supply, TypeOK
  <1>4. ~Pooled(x) /\ ~InHand(x) /\ disposed[x] = 0
    BY <1>1, <1>3, NoneAssumption DEF Pooled, InHand, Fresh
  <1>5. Fresh'
    BY <1>1, <1>2 DEF Fresh
  <1> SUFFICES ASSUME NEW o \in made' \ twice PROVE OnlyPlace(o)'
    BY <1>2, <1>5 DEF OnePlace
  <1>6. CASE o = x
    <2>1. \A u \in Thread : hand'[u] = o <=> u = t
      BY <1>1, <1>3, <1>4, <1>6 DEF InHand
    <2>2. ~Pooled(o)' /\ disposed'[o] = 0
      BY <1>2, <1>4, <1>6 DEF Pooled
    <2> QED BY <2>1, <2>2 DEF OnlyPlace, Pooled, InHand
  <1>7. CASE o # x
    <2>1. OnlyPlace(o) /\ o # None
      BY <1>1, <1>3, <1>7, NoneAssumption DEF OnePlace
    <2>2. \A u \in Thread : hand'[u] = o <=> hand[u] = o
      BY <1>1, <1>3, <1>7, <2>1
    <2> QED BY <1>2, <2>1, <2>2 DEF OnlyPlace, Pooled, InHand
  <1> QED BY <1>6, <1>7

(* An object given back is appended to the deque, or closed. *)
LEMMA Returned ==
  ASSUME TypeOK, NEW x \in made, ReturnLeasee(x), UNCHANGED made
  PROVE  /\ \A o \in Object \ {x} : /\ disposed'[o] = disposed[o]
                                    /\ Pooled(o)' <=> Pooled(o)
                                    /\ (\A i, j \in DOMAIN pool : pool[i] = o /\ pool[j] = o => i = j)
                                        => \A i, j \in DOMAIN pool' : pool'[i] = o /\ pool'[j] = o => i = j
         /\ closed => pool' = pool /\ disposed'[x] > 0 /\ (disposed[x] = 0 => disposed'[x] = 1)
         /\ ~closed => /\ Pooled(x)' /\ disposed' = disposed
                       /\ ~Pooled(x) => \A i, j \in DOMAIN pool' : pool'[i] = x /\ pool'[j] = x => i = j
  <1>1. CASE closed
    <2>1. pool' = pool /\ Dispose({x})
      BY <1>1 DEF ReturnLeasee, deque
    <2> QED BY <1>1, <2>1, Disposed DEF Pooled, TypeOK
  <1>2. CASE ~closed
    <2>1. pool' = Append(pool, x) /\ disposed' = disposed /\ pool \in Seq(made)
      BY <1>2 DEF ReturnLeasee, TypeOK
    <2>2. /\ DOMAIN pool' = 1..(Len(pool) + 1) /\ DOMAIN pool = 1..Len(pool)
          /\ Len(pool) \in Nat
          /\ \A i \in 1..Len(pool) : pool'[i] = pool[i]
          /\ pool'[Len(pool) + 1] = x
      BY <2>1, AppendAddsOne
    <2>3. ASSUME NEW o \in Object \ {x} PROVE Pooled(o)' <=> Pooled(o)
      BY <2>2 DEF Pooled
    <2>4. ASSUME NEW o \in Object \ {x},
                 \A i, j \in DOMAIN pool : pool[i] = o /\ pool[j] = o => i = j,
                 NEW i \in DOMAIN pool', NEW j \in DOMAIN pool', pool'[i] = o, pool'[j] = o
          PROVE  i = j
      <3>1. i \in 1..Len(pool) /\ j \in 1..Len(pool)
        BY <2>2, <2>4
      <3> QED BY <2>2, <2>4, <3>1
    <2>5. Len(pool) + 1 \in DOMAIN pool'
      BY <2>2
    <2>6. Pooled(x)'
      BY <2>2, <2>5 DEF Pooled
    <2>7. ASSUME ~Pooled(x), NEW i \in DOMAIN pool', pool'[i] = x PROVE i = Len(pool) + 1
      BY <2>2, <2>7 DEF Pooled
    <2> QED BY <1>2, <2>1, <2>3, <2>4, <2>6, <2>7
  <1> QED BY <1>1, <1>2

LEMMA CloseLeaseKeepsOnePlace ==
  ASSUME TypeOK, Fresh, OnePlace, NEW t \in Thread, CloseLease(t)
  PROVE  Fresh' /\ OnePlace'
  <1>1. /\ ReturnLeasee(hand[t]) /\ hand' = [hand EXCEPT ![t] = None]
        /\ UNCHANGED <<made, twice, cutShort>>
    BY DEF CloseLease, Goes, history
  <1>2. /\ hand[t] \in made /\ hand \in [Thread -> made \cup {None}] /\ made \subseteq Object
        /\ cutShort => closed
    BY DEF CloseLease, TypeOK
  <1>3. Fresh'
    BY <1>1, <1>2, Returned DEF Fresh
  <1> SUFFICES ASSUME NEW o \in made \ twice PROVE OnlyPlace(o)'
    BY <1>1, <1>3 DEF OnePlace
  <1>4. OnlyPlace(o) /\ o \in Object /\ o # None /\ disposed[o] \in 0..2
    BY NoneAssumption DEF OnePlace, TypeOK
  <1>5. CASE o = hand[t]
    <2>1. InHand(o) /\ ~Pooled(o) /\ disposed[o] = 0
      BY <1>4, <1>5 DEF OnlyPlace, InHand
    <2>2. ~InHand(o)'
      BY <1>1, <1>2, <1>4, <1>5 DEF OnlyPlace, InHand
    <2>3. \A u, v \in Thread : hand'[u] = o /\ hand'[v] = o => u = v
      BY <2>2 DEF InHand
    <2>4. CASE closed
      <3>1. pool' = pool /\ disposed'[o] = 1
        BY <1>1, <1>2, <1>5, <2>1, <2>4, Returned
      <3>2. ~Pooled(o)'
        BY <2>1, <3>1 DEF Pooled
      <3> QED BY <2>2, <2>3, <3>1, <3>2 DEF OnlyPlace, Pooled
    <2>5. CASE ~closed
      <3>1. /\ Pooled(o)' /\ disposed'[o] = 0
            /\ \A i, j \in DOMAIN pool' : pool'[i] = o /\ pool'[j] = o => i = j
        BY <1>1, <1>2, <1>5, <2>1, <2>5, Returned
      <3> QED BY <2>2, <2>3, <3>1 DEF OnlyPlace
    <2> QED BY <2>4, <2>5
  <1>6. CASE o # hand[t]
    <2>1. \A u \in Thread : hand'[u] = o <=> hand[u] = o
      BY <1>1, <1>2, <1>4, <1>6
    <2>2. /\ disposed'[o] = disposed[o] /\ (Pooled(o)' <=> Pooled(o))
          /\ \A i, j \in DOMAIN pool' : pool'[i] = o /\ pool'[j] = o => i = j
      BY <1>1, <1>2, <1>4, <1>6, Returned DEF OnlyPlace
    <2> QED BY <1>1, <1>4, <2>1, <2>2 DEF OnlyPlace, InHand
  <1> QED BY <1>5, <1>6

LEMMA CloseLeaseAgainKeepsOnePlace ==
  ASSUME TypeOK, Fresh, OnePlace, NEW t \in Thread, CloseLeaseAgain(t)
  PROVE  Fresh' /\ OnePlace'
  <1>1. /\ ReturnLeasee(past[t]) /\ twice' = twice \cup {past[t]}
        /\ UNCHANGED <<made, hand, cutShort>>
    BY DEF CloseLeaseAgain
  <1>2. past[t] \in made /\ made \subseteq Object
    BY DEF CloseLeaseAgain, TypeOK
  <1>3. Fresh'
    BY <1>1, <1>2, Returned DEF Fresh
  <1> SUFFICES ASSUME NEW o \in made \ twice, o # past[t] PROVE OnlyPlace(o)'
    BY <1>1, <1>3 DEF OnePlace
  <1>4. OnlyPlace(o) /\ o \in Object
    BY <1>2 DEF OnePlace
  <1>5. /\ disposed'[o] = disposed[o] /\ (Pooled(o)' <=> Pooled(o))
        /\ \A i, j \in DOMAIN pool' : pool'[i] = o /\ pool'[j] = o => i = j
    BY <1>1, <1>2, <1>4, Returned DEF OnlyPlace
  <1> QED BY <1>1, <1>4, <1>5 DEF OnlyPlace, InHand

LEMMA ClosePoolKeepsOnePlace ==
  ASSUME TypeOK, Fresh, OnePlace, ClosePool
  PROVE  Fresh' /\ OnePlace'
  <1>1. Dispose(ToSet(pool)) /\ pool' = <<>> /\ UNCHANGED <<made, hand, twice, cutShort>>
    BY DEF ClosePool, client, history
  <1>2. \A o \in Object : /\ ~Pooled(o) => disposed'[o] = disposed[o]
                          /\ Pooled(o) => disposed'[o] > 0
                          /\ Pooled(o) /\ disposed[o] = 0 => disposed'[o] = 1
    BY <1>1, Disposed, ToSetIsPooled
  <1>3. Fresh'
    <2> SUFFICES ASSUME NEW o \in Object \ made PROVE disposed'[o] = 0
      BY <1>1 DEF Fresh
    <2>1. ~Pooled(o)
      BY DEF Pooled, TypeOK
    <2> QED BY <1>2, <2>1 DEF Fresh
  <1> SUFFICES ASSUME NEW o \in made \ twice PROVE OnlyPlace(o)'
    BY <1>1, <1>3 DEF OnePlace
  <1>4. OnlyPlace(o) /\ o \in Object /\ disposed[o] \in 0..2
    BY DEF OnePlace, TypeOK
  <1>5. ~Pooled(o)' /\ (InHand(o)' <=> InHand(o))
    BY <1>1 DEF Pooled, InHand
  <1> QED BY <1>1, <1>2, <1>4, <1>5 DEF OnlyPlace

LEMMA ClosePoolThrowsKeepsOnePlace ==
  ASSUME TypeOK, Fresh, OnePlace, NEW i \in DOMAIN pool, ClosePoolThrows(i)
  PROVE  Fresh' /\ OnePlace'
  <1>1. /\ Dispose({pool[k] : k \in 1..i}) /\ cutShort'
        /\ UNCHANGED <<pool, made, hand, twice>>
    BY DEF ClosePoolThrows, client
  <1>2. \A k \in 1..i : Pooled(pool[k]) /\ pool[k] \in made
    BY DEF TypeOK, Pooled
  <1>3. \A o \in Object : /\ disposed'[o] = disposed[o] \/ disposed'[o] > 0
                          /\ ~Pooled(o) => disposed'[o] = disposed[o]
    BY <1>1, <1>2, Disposed
  <1>4. Fresh'
    <2> SUFFICES ASSUME NEW o \in Object \ made PROVE disposed'[o] = 0
      BY <1>1 DEF Fresh
    <2>1. ~Pooled(o)
      BY DEF Pooled, TypeOK
    <2> QED BY <1>3, <2>1 DEF Fresh
  <1> SUFFICES ASSUME NEW o \in made \ twice PROVE OnlyPlace(o)'
    BY <1>1, <1>4 DEF OnePlace
  <1>5. OnlyPlace(o) /\ o \in Object
    BY DEF OnePlace, TypeOK
  <1>6. (Pooled(o)' <=> Pooled(o)) /\ (InHand(o)' <=> InHand(o))
    BY <1>1 DEF Pooled, InHand
  <1> QED BY <1>1, <1>3, <1>5, <1>6 DEF OnlyPlace

LEMMA NextOnePlace == IInv /\ [Next]_vars => Fresh' /\ OnePlace'
  <1> SUFFICES ASSUME TypeOK, Fresh, OnePlace, [Next]_vars PROVE Fresh' /\ OnePlace'
    BY DEF IInv
  <1> USE DEF Goes, deque, client, history
  <1>1. ASSUME NEW t \in Thread,
               LeaseObject(t) \/ PollRefused(t) \/ PollEmpty(t) \/ Viable(t) \/ SupplyThrows(t)
        PROVE  Fresh' /\ OnePlace'
    <2>1. hand' = hand
      BY <1>1 DEF TypeOK, LeaseObject, PollRefused, PollEmpty, Viable, SupplyThrows
    <2> QED BY <1>1, <2>1, Unmoved DEF LeaseObject, PollRefused, PollEmpty, Viable, SupplyThrows
  <1>2. ASSUME UNCHANGED vars PROVE Fresh' /\ OnePlace'
    BY <1>2, Unmoved DEF vars
  <1> QED
    BY <1>1, <1>2, PollKeepsOnePlace, NotViableKeepsOnePlace, SupplyKeepsOnePlace,
       CloseLeaseKeepsOnePlace, CloseLeaseAgainKeepsOnePlace, ClosePoolKeepsOnePlace,
       ClosePoolThrowsKeepsOnePlace
    DEF Next, Continue

LEMMA Inductive == Spec => []IInv
  <1>1. Init => IInv
    BY InitType, InitOnePlace DEF IInv
  <1>2. IInv /\ [Next]_vars => IInv'
    BY NextType, NextOnePlace DEF IInv
  <1> QED BY <1>1, <1>2, PTL DEF Spec

(* Whatever threads lease, return and close, an object whose leases are     *)
(* closed once each is in one place (leaseObject, returnLeasee, closePool). *)
THEOREM OneUserOrClosed == Spec => []OnePlace
  <1>1. IInv => OnePlace
    BY DEF IInv
  <1> QED BY <1>1, Inductive, PTL

(* What is not closed when the pool is, somebody has in hand.               *)
NoneLeftBehind ==
  closed /\ ~cutShort =>
    pool = <<>> /\ \A o \in made \ twice : InHand(o) \/ disposed[o] > 0

LEMMA ClosedIsEmpty ==
  ASSUME TypeOK, closed /\ ~cutShort => pool = <<>>, [Next]_vars
  PROVE  (closed /\ ~cutShort => pool = <<>>)'
  <1>1. CASE UNCHANGED <<deque, cutShort>>
    BY <1>1 DEF deque
  <1>2. ASSUME NEW t \in Thread, Poll(t) \/ CloseLease(t) \/ CloseLeaseAgain(t)
        PROVE  UNCHANGED <<closed, cutShort>> /\ (closed => pool' = pool)
    BY <1>2 DEF Poll, CloseLease, CloseLeaseAgain, ReturnLeasee, deque, history
  <1>3. CASE ClosePool
    BY <1>3 DEF ClosePool
  <1>4. ASSUME NEW i \in DOMAIN pool, ClosePoolThrows(i)
        PROVE  cutShort'
    BY <1>4 DEF ClosePoolThrows
  <1>5. QED
    BY <1>1, <1>2, <1>3, <1>4 DEF Next, vars, LeaseObject, Continue, PollRefused, PollEmpty, Viable,
       NotViable, Supply, SupplyThrows, history

(* The pool is empty once it is closed, unless a closer cut that short: an  *)
(* object was closed, or whoever has it closes it on its return.            *)
THEOREM ClosedLeavesNone == Spec => []NoneLeftBehind
  <1> DEFINE Emptied == closed /\ ~cutShort => pool = <<>>
  <1>1. Init => Emptied
    BY DEF Init
  <1>2. IInv /\ Emptied /\ [Next]_vars => Emptied'
    BY ClosedIsEmpty DEF IInv
  <1>3. IInv /\ Emptied => NoneLeftBehind
    BY DEF IInv, OnePlace, OnlyPlace, Pooled, NoneLeftBehind
  <1>4. QED
    BY <1>1, <1>2, <1>3, Inductive, PTL DEF Spec

-------------------------------------------------------------------------------
(* The refinement: StatusOf moves along ObjectLifecycle. *)

Idle == {o \in Object : StatusOf(o) = "idle"}

LEMMA StatusIs ==
  ASSUME TypeOK, OnePlace, NEW o \in Object
  PROVE  /\ o \in twice => StatusOf(o) = "void"
         /\ o \notin made => StatusOf(o) = "absent"
         /\ o \in made \ twice =>
              /\ InHand(o) => StatusOf(o) = "used"
              /\ ~InHand(o) /\ disposed[o] > 0 => StatusOf(o) = "closed"
              /\ ~InHand(o) /\ ~(disposed[o] > 0) => StatusOf(o) = "idle" /\ Pooled(o)
  BY DEF StatusOf, TypeOK, OnePlace, OnlyPlace

(* The status is decided by four facts about the object. *)
LEMMA StatusKept ==
  ASSUME TypeOK, TypeOK', OnePlace, OnePlace', NEW o \in Object,
         o \in twice' <=> o \in twice, o \in made' <=> o \in made,
         InHand(o)' <=> InHand(o), disposed'[o] > 0 <=> disposed[o] > 0
  PROVE  StatusOf(o)' = StatusOf(o)
  BY DEF StatusOf, TypeOK

LEMMA OneChanges ==
  ASSUME NEW x \in Object, NEW st, StatusOf(x)' = st,
         \A o \in Object \ {x} : StatusOf(o)' = StatusOf(o)
  PROVE  [o \in Object |-> StatusOf(o)]' = [[o \in Object |-> StatusOf(o)] EXCEPT ![x] = st]
  OBVIOUS

LEMMA NoneChanges ==
  ASSUME \A o \in Object : StatusOf(o)' = StatusOf(o)
  PROVE  [o \in Object |-> StatusOf(o)]' = [o \in Object |-> StatusOf(o)]
  OBVIOUS

(* Of the threads only t has another object in hand than before. *)
LEMMA HandsChange ==
  ASSUME TypeOK, NEW t \in Thread, NEW x \in Object \cup {None},
         hand' = [hand EXCEPT ![t] = x], NEW o \in Object, o # hand[t], o # x
  PROVE  InHand(o)' <=> InHand(o)
  BY DEF TypeOK, InHand

LEMMA FailedKept ==
  ASSUME TypeOK, throws' = throws \/ throws' = throws + 1
  PROVE  (throws > 0)' \in {throws > 0, TRUE}
  <1>1. CASE throws' = throws
    BY <1>1
  <1>2. CASE throws' = throws + 1
    <2>1. throws + 1 > 0
      BY BoundAssumption DEF TypeOK
    <2>2. (throws' > 0) = TRUE
      BY <1>2, <2>1
    <2> QED BY <2>2
  <1> QED BY <1>1, <1>2

LEMMA InitRefines == Init => Abstract!Init
  BY BoundAssumption DEF Init, Abstract!Init, StatusOf

LEMMA PollRefines ==
  ASSUME TypeOK, TypeOK', OnePlace, OnePlace', NEW t \in Thread, Poll(t)
  PROVE  [Abstract!Next]_(Abstract!vars)
  <1>0. PICK x : x = Last(pool)
    OBVIOUS
  <1>1. /\ hand' = [hand EXCEPT ![t] = x] /\ ~closed /\ hand[t] = None
        /\ UNCHANGED <<closed, made, disposed, twice, throws>>
    BY <1>0 DEF Poll, Goes, TypeOK, history
  <1>2. x \in made /\ x \in Object /\ x # None /\ Pooled(x)
    BY <1>0, FrontIsPrefix, NoneAssumption DEF Poll, TypeOK, Pooled
  <1>3. \A o \in Object \ {x} : StatusOf(o)' = StatusOf(o)
    BY <1>1, <1>2, HandsChange, StatusKept, NoneAssumption
  <1>4. CASE x \in twice
    <2>1. StatusOf(x)' = StatusOf(x)
      BY <1>1, <1>2, <1>4, StatusIs DEF StatusOf
    <2> QED BY <1>1, <1>3, <2>1, NoneChanges DEF Abstract!vars
  <1>5. CASE x \notin twice
    <2>1. ~InHand(x) /\ (cutShort \/ ~(disposed[x] > 0)) /\ ~cutShort
      BY <1>1, <1>2, <1>5 DEF OnePlace, OnlyPlace, TypeOK
    <2>2. StatusOf(x) = "idle"
      BY <1>2, <1>5, <2>1, StatusIs
    <2>3. InHand(x)'
      BY <1>1, <1>2 DEF InHand, TypeOK
    <2>4. StatusOf(x)' = "used"
      BY <1>1, <1>2, <1>5, <2>3 DEF StatusOf
    <2>5. Abstract!Take(x)
      BY <1>1, <1>2, <1>3, <2>2, <2>4, OneChanges DEF Abstract!Take, Abstract!Becomes
    <2> QED BY <1>2, <2>5 DEF Abstract!Next
  <1> QED BY <1>4, <1>5

LEMMA NotViableRefines ==
  ASSUME TypeOK, TypeOK', OnePlace, OnePlace', NEW t \in Thread, NotViable(t)
  PROVE  [Abstract!Next]_(Abstract!vars)
  <1>0. PICK x : x = hand[t]
    OBVIOUS
  <1>1. /\ Dispose({x}) /\ hand' = [hand EXCEPT ![t] = None]
        /\ UNCHANGED <<closed, made, twice>> /\ (throws > 0)' \in {throws > 0, TRUE}
    <2>1. throws' = throws \/ throws' = throws + 1
      BY DEF NotViable, CloserReturns, CloserThrows
    <2>2. (throws > 0)' \in {throws > 0, TRUE}
      BY <2>1, FailedKept
    <2> QED BY <1>0, <2>2 DEF NotViable, Goes, deque, history
  <1>2. x \in made /\ x \in Object /\ x # None /\ InHand(x)
    BY <1>0, NoneAssumption DEF NotViable, TypeOK, InHand
  <1>3. \A o \in Object \ {x} : StatusOf(o)' = StatusOf(o)
    BY <1>0, <1>1, <1>2, HandsChange, StatusKept, Disposed, NoneAssumption
  <1>4. CASE x \in twice
    <2>1. StatusOf(x)' = "void"
      BY <1>1, <1>2, <1>4 DEF StatusOf
    <2>2. Abstract!Misuse(x)
      BY <1>1, <1>2, <1>3, <2>1, OneChanges DEF Abstract!Misuse, Abstract!Becomes
    <2> QED BY <1>2, <2>2 DEF Abstract!Next
  <1>5. CASE x \notin twice
    <2>1. StatusOf(x) = "used"
      BY <1>2, <1>5, StatusIs
    <2>2. disposed'[x] > 0
      BY <1>1, <1>2, Disposed
    <2>3. ~InHand(x)'
      BY <1>1, <1>2, <1>5, <2>2 DEF OnePlace, OnlyPlace
    <2>4. StatusOf(x)' = "closed"
      BY <1>1, <1>2, <1>5, <2>2, <2>3 DEF StatusOf
    <2>5. Abstract!Discard(x)
      BY <1>1, <1>2, <1>3, <2>1, <2>4, OneChanges DEF Abstract!Discard, Abstract!Becomes
    <2> QED BY <1>2, <2>5 DEF Abstract!Next
  <1> QED BY <1>4, <1>5

LEMMA SupplyRefines ==
  ASSUME TypeOK, TypeOK', OnePlace, OnePlace', NEW t \in Thread, Supply(t)
  PROVE  [Abstract!Next]_(Abstract!vars)
  <1>1. PICK x \in Object \ made : made' = made \cup {x} /\ hand' = [hand EXCEPT ![t] = x]
    BY DEF Supply, Goes
  <1>2. UNCHANGED <<closed, disposed, twice, throws>> /\ hand[t] = None /\ x \notin twice
    BY <1>1 DEF Supply, deque, history, TypeOK
  <1>3. \A o \in Object \ {x} : StatusOf(o)' = StatusOf(o)
    BY <1>1, <1>2, HandsChange, StatusKept, NoneAssumption
  <1>4. StatusOf(x) = "absent"
    BY <1>1, StatusIs
  <1>5. InHand(x)'
    BY <1>1 DEF InHand, TypeOK
  <1>6. StatusOf(x)' = "used"
    BY <1>1, <1>2, <1>5 DEF StatusOf
  <1>7. Abstract!Make(x)
    BY <1>1, <1>2, <1>3, <1>4, <1>6, OneChanges DEF Abstract!Make, Abstract!Becomes
  <1> QED BY <1>1, <1>7 DEF Abstract!Next

LEMMA CloseLeaseRefines ==
  ASSUME TypeOK, TypeOK', OnePlace, OnePlace', NEW t \in Thread, CloseLease(t)
  PROVE  [Abstract!Next]_(Abstract!vars)
  <1>0. PICK x : x = hand[t]
    OBVIOUS
  <1>1. /\ ReturnLeasee(x) /\ hand' = [hand EXCEPT ![t] = None]
        /\ UNCHANGED <<made, twice>>
    BY <1>0 DEF CloseLease, Goes, history
  <1>2. x \in made /\ x \in Object /\ x # None /\ InHand(x)
    BY <1>0, NoneAssumption DEF CloseLease, TypeOK, InHand
  <1>3. /\ closed' = closed
        /\ (throws > 0)' \in {throws > 0, TRUE}
        /\ closed \/ throws' = throws
    <2>1. throws' = throws \/ throws' = throws + 1
      BY <1>1 DEF ReturnLeasee, CloserReturns, CloserThrows
    <2>2. (throws > 0)' \in {throws > 0, TRUE}
      BY <2>1, FailedKept
    <2> QED BY <1>1, <2>2 DEF ReturnLeasee, deque
  <1>4. \/ closed /\ Dispose({x})
        \/ ~closed /\ pool' = Append(pool, x) /\ disposed' = disposed
    BY <1>1 DEF ReturnLeasee
  <1>5. \A o \in Object \ {x} : disposed'[o] > 0 <=> disposed[o] > 0
    BY <1>4, Disposed
  <1>6. \A o \in Object \ {x} : StatusOf(o)' = StatusOf(o)
    BY <1>0, <1>1, <1>2, <1>5, HandsChange, StatusKept, NoneAssumption
  <1>7. CASE x \in twice
    <2>1. StatusOf(x)' = "void"
      BY <1>1, <1>2, <1>7 DEF StatusOf
    <2>2. Abstract!Misuse(x)
      BY <1>1, <1>2, <1>3, <1>6, <2>1, OneChanges DEF Abstract!Misuse, Abstract!Becomes
    <2> QED BY <1>2, <2>2 DEF Abstract!Next
  <1>8. CASE x \notin twice
    <2>1. StatusOf(x) = "used"
      BY <1>2, <1>8, StatusIs
    <2>2. ~InHand(x)'
      BY <1>0, <1>1, <1>2, <1>8 DEF OnePlace, OnlyPlace, TypeOK, InHand
    <2>3. CASE closed
      <3>1. disposed'[x] > 0
        BY <1>2, <1>4, <2>3, Disposed
      <3>2. StatusOf(x)' = "closed"
        BY <1>1, <1>2, <1>8, <2>2, <3>1 DEF StatusOf
      <3>3. Abstract!Discard(x)
        BY <1>2, <1>3, <1>6, <2>1, <3>2, OneChanges DEF Abstract!Discard, Abstract!Becomes
      <3> QED BY <1>2, <3>3 DEF Abstract!Next
    <2>4. CASE ~closed
      <3>1. ~(disposed'[x] > 0)
        BY <1>2, <1>4, <1>8, <2>4 DEF OnePlace, OnlyPlace, TypeOK
      <3>2. StatusOf(x)' = "idle"
        BY <1>1, <1>2, <1>8, <2>2, <3>1 DEF StatusOf
      <3>3. Abstract!PutBack(x)
        BY <1>2, <1>3, <1>6, <2>1, <2>4, <3>2, OneChanges DEF Abstract!PutBack, Abstract!Becomes
      <3> QED BY <1>2, <3>3 DEF Abstract!Next
    <2> QED BY <2>3, <2>4
  <1> QED BY <1>7, <1>8

LEMMA CloseLeaseAgainRefines ==
  ASSUME TypeOK, TypeOK', OnePlace, OnePlace', NEW t \in Thread, CloseLeaseAgain(t)
  PROVE  [Abstract!Next]_(Abstract!vars)
  <1>0. PICK x : x = past[t]
    OBVIOUS
  <1>1. /\ ReturnLeasee(x) /\ twice' = twice \cup {x} /\ UNCHANGED <<made, hand>>
    BY <1>0 DEF CloseLeaseAgain
  <1>2. x \in made /\ x \in Object
    BY <1>0 DEF CloseLeaseAgain, TypeOK
  <1>3. closed' = closed /\ (throws > 0)' \in {throws > 0, TRUE}
    <2>1. throws' = throws \/ throws' = throws + 1
      BY <1>1 DEF ReturnLeasee, CloserReturns, CloserThrows
    <2>2. (throws > 0)' \in {throws > 0, TRUE}
      BY <2>1, FailedKept
    <2> QED BY <1>1, <2>2 DEF ReturnLeasee, deque
  <1>4. \A o \in Object \ {x} : disposed'[o] > 0 <=> disposed[o] > 0
    BY <1>1, Disposed DEF ReturnLeasee
  <1>5. \A o \in Object \ {x} : StatusOf(o)' = StatusOf(o)
    BY <1>1, <1>4, StatusKept DEF InHand
  <1>6. StatusOf(x)' = "void"
    BY <1>1, <1>2 DEF StatusOf
  <1>7. Abstract!Misuse(x)
    BY <1>2, <1>3, <1>5, <1>6, OneChanges DEF Abstract!Misuse, Abstract!Becomes
  <1> QED BY <1>2, <1>7 DEF Abstract!Next

(* closePool closes the idle objects of a set S, all of them unless the     *)
(* closer throws.                                                           *)
LEMMA ShutRefines ==
  ASSUME TypeOK, TypeOK', OnePlace, OnePlace', closed' = TRUE,
         UNCHANGED <<made, hand, twice>>,
         NEW D, Dispose(D), D \subseteq ToSet(pool),
         \/ UNCHANGED throws /\ D = ToSet(pool)
         \/ throws' = throws + 1
  PROVE  Abstract!Next
  <1> DEFINE S == {o \in Object : StatusOf(o) = "idle" /\ disposed'[o] > 0}
             A == {o \in Object : StatusOf(o) = "idle"}
  <1>1. \A o \in Object : disposed'[o] = disposed[o] \/ disposed'[o] > 0
    BY Disposed
  <1>2. \A o \in Object : InHand(o)' <=> InHand(o)
    BY DEF InHand
  <1>3. \A o \in Object : StatusOf(o)' = IF o \in S THEN "closed" ELSE StatusOf(o)
    <2> SUFFICES ASSUME NEW o \in Object
                 PROVE StatusOf(o)' = IF o \in S THEN "closed" ELSE StatusOf(o)
      OBVIOUS
    <2>1. CASE o \in twice \/ o \notin made \/ InHand(o)
      BY <2>1, <1>2 DEF StatusOf, TypeOK
    <2>2. CASE o \in made \ twice /\ ~InHand(o) /\ disposed[o] > 0
      <3>1. disposed'[o] > 0
        BY <1>1, <2>2
      <3> QED BY <1>2, <2>2, <3>1 DEF StatusOf
    <2>3. CASE o \in made \ twice /\ ~InHand(o) /\ ~(disposed[o] > 0)
      BY <1>2, <2>3 DEF StatusOf
    <2> QED BY <2>1, <2>2, <2>3
  <1>4. [o \in Object |-> StatusOf(o)]'
          = [o \in Object |-> IF o \in S THEN "closed" ELSE [u \in Object |-> StatusOf(u)][o]]
    BY <1>3
  <1>5. S \in SUBSET {o \in Object : [u \in Object |-> StatusOf(u)][o] = "idle"}
    OBVIOUS
  <1>6. \/ (throws > 0)' = (throws > 0) /\ S = {o \in Object : [u \in Object |-> StatusOf(u)][o] = "idle"}
        \/ (throws > 0)' = TRUE
    <2>1. CASE throws' = throws + 1
      BY <2>1, BoundAssumption DEF TypeOK
    <2>2. CASE UNCHANGED throws /\ D = ToSet(pool)
      <3>1. \A o \in A : o \in D
        BY <2>2, StatusIs DEF StatusOf, OnePlace, OnlyPlace, Pooled, TypeOK, ToSet
      <3>2. \A o \in A : disposed'[o] > 0
        BY <3>1, Disposed
      <3> QED BY <2>2, <3>2
    <2> QED BY <2>1, <2>2
  <1>7. Abstract!Shut
    BY <1>4, <1>5, <1>6 DEF Abstract!Shut
  <1> QED BY <1>7 DEF Abstract!Next

LEMMA NextRefines ==
  ASSUME TypeOK, TypeOK', OnePlace, OnePlace', [Next]_vars
  PROVE  [Abstract!Next]_(Abstract!vars)
  <1>1. ASSUME hand' = hand, UNCHANGED <<closed, made, disposed, throws, twice>>
        PROVE  UNCHANGED Abstract!vars
    <2>1. \A o \in Object : StatusOf(o)' = StatusOf(o)
      BY <1>1 DEF StatusOf, InHand
    <2> QED BY <1>1, <2>1, NoneChanges DEF Abstract!vars
  <1>2. ASSUME NEW t \in Thread,
               LeaseObject(t) \/ PollRefused(t) \/ PollEmpty(t) \/ Viable(t) \/ SupplyThrows(t)
        PROVE  UNCHANGED Abstract!vars
    <2>1. hand' = hand
      BY <1>2 DEF TypeOK, Goes, LeaseObject, PollRefused, PollEmpty, Viable, SupplyThrows
    <2> QED
      BY <1>1, <1>2, <2>1
      DEF LeaseObject, PollRefused, PollEmpty, Viable, SupplyThrows, deque, history
  <1>3. ASSUME UNCHANGED vars PROVE UNCHANGED Abstract!vars
    BY <1>1, <1>3 DEF vars, deque, client, history
  <1>4. CASE ClosePool
    BY <1>4, ShutRefines DEF ClosePool, client, history, CloserReturns
  <1>5. ASSUME NEW i \in DOMAIN pool, ClosePoolThrows(i)
        PROVE  Abstract!Next
    <2>1. {pool[k] : k \in 1..i} \subseteq ToSet(pool)
      BY DEF ToSet, TypeOK
    <2> QED BY <1>5, <2>1, ShutRefines DEF ClosePoolThrows, client, CloserThrows
  <1> QED
    BY <1>2, <1>3, <1>4, <1>5, PollRefines, NotViableRefines, SupplyRefines,
       CloseLeaseRefines, CloseLeaseAgainRefines
    DEF Next, Continue

(* The pool keeps what Pool promises of the objects that it lends: one user *)
(* at a time, idle in between, closed for ever (leaseObject, returnLeasee,  *)
(* closePool).                                                              *)
THEOREM Refinement == Spec => ImplementsLifecycle
  <1>1. IInv /\ IInv' /\ [Next]_vars => [Abstract!Next]_(Abstract!vars)
    BY NextRefines DEF IInv
  <1> QED BY <1>1, InitRefines, Inductive, PTL DEF Spec, ImplementsLifecycle, Abstract!Spec

--------------------------------------------------------------------------------
(* The writer of a memento, for any number of clients, executions, writes   *)
(* and failures                                                             *)

Carries(e) == epc[e] \in {"write", "move"} /\ val[e] # Null

(* What is recorded is the newest memento; what a task carries is not older *)
(* than the file, and if it is not the newest then the newest is recorded.  *)
Ages ==
  /\ requireWrite \in {Null, latest} /\ file <= latest
  /\ \A e \in Execution : Carries(e) =>
       /\ file <= val[e] /\ val[e] <= latest
       /\ val[e] # latest => requireWrite = latest

DeletingIsMarked ==
  \A e \in Execution : epc[e] \in {"unrequire", "deleteFile", "deleteTmp"} => deleted

WriterIInv == WriterTypeOK /\ OneTaskAtATime /\ Ages /\ DeletingIsMarked /\ NewestSurvives

LEMMA WriterInitIInv == WriterInit => WriterIInv
  <1> SUFFICES ASSUME WriterInit PROVE WriterIInv
    OBVIOUS
  <1>1. WriterTypeOK
    <2>1. cpc \in [Client -> ClientPc] /\ epc \in [Execution -> {"idle"} \cup TaskPc \cup ListenerPc]
      BY DEF WriterInit, ClientPc
    <2>2. latest \in 0..MaxWrites /\ failures \in 0..MaxFailures
      BY BoundsAreNatural DEF WriterInit
    <2>3. \A e \in Execution : epc[e] # "move"
      BY DEF WriterInit
    <2>4. QED
      BY <2>1, <2>2, <2>3 DEF WriterInit, WriterTypeOK
  <1>2. \A e \in Execution : ~InTask(e) /\ ~Carries(e)
    BY DEF WriterInit, InTask, Carries, TaskPc
  <1>3. OneTaskAtATime /\ Ages /\ DeletingIsMarked /\ NewestSurvives
    BY <1>2 DEF WriterInit, OneTaskAtATime, Ages, DeletingIsMarked, NewestSurvives, Null, Absent
  <1>4. QED
    BY <1>1, <1>3 DEF WriterIInv

(* Calls of a client that do not reach the compareAndSet.                   *)
LEMMA ClientIInv ==
  ASSUME WriterIInv, NEW c \in Client,
         \/ WriteCall(c) \/ WriteTestRequired(c) \/ WriteTestDeleted(c)
         \/ DeleteCall(c) \/ DeleteTestDeleted(c) \/ DeleteTestRequired(c)
         \/ DeleteRequire(c)
  PROVE  WriterIInv'
  <1> USE BoundsAreNatural DEF WriterIInv, WriterTypeOK, OneTaskAtATime, Ages, Carries,
      DeletingIsMarked, NewestSurvives, Undisturbed, InTask, ClientPc, Memento, Absent,
      Null, ClientAt, disk, flags
  <1>1. CASE WriteCall(c)
    BY <1>1 DEF WriteCall
  <1>2. CASE DeleteRequire(c)
    BY <1>2 DEF DeleteRequire
  <1>3. CASE \/ WriteTestRequired(c) \/ WriteTestDeleted(c) \/ DeleteCall(c)
             \/ DeleteTestDeleted(c) \/ DeleteTestRequired(c)
    <2>1. /\ UNCHANGED <<flags, disk, epc, val, latest, failures, shutdown>>
          /\ cpc' \in [Client -> ClientPc]
      BY <1>3 DEF WriteTestRequired, WriteTestDeleted, DeleteCall, DeleteTestDeleted,
         DeleteTestRequired
    <2>2. QED
      BY <2>1
  <1>4. QED
    BY <1>1, <1>2, <1>3

(* Whoever wins the compareAndSet starts the only task.                     *)
LEMMA CasIInv ==
  ASSUME WriterIInv,
         NEW first \in {"take", "mark"},
         NEW phases \in [Execution -> {"idle"} \cup TaskPc \cup ListenerPc],
         \A e \in Execution : phases[e] = epc[e] \/ (~InTask(e) /\ phases[e] = "idle"),
         CasAndSubmit(first, phases), cpc' \in [Client -> ClientPc],
         UNCHANGED <<requireWrite, requireDelete, deleted, disk, val, latest, failures, shutdown>>
  PROVE  WriterIInv'
  <1> USE DEF WriterIInv, InTask, disk, flags
  <1>1. ASSUME NEW e \in Execution, InTask(e)'
        PROVE  epc'[e] = epc[e] \/ (epc'[e] = first /\ ~executing /\ ~shutdown)
    BY <1>1 DEF CasAndSubmit, TaskPc
  <1>2. \A e \in Execution : InTask(e) => executing /\ executing' /\ epc'[e] = epc[e]
    BY DEF OneTaskAtATime, CasAndSubmit, TaskPc
  <1>3. OneTaskAtATime'
    <2>1. CASE executing
      BY <1>1, <1>2, <2>1 DEF OneTaskAtATime, CasAndSubmit
    <2>2. CASE ~executing /\ shutdown
      BY <1>1, <1>2, <2>2 DEF OneTaskAtATime, CasAndSubmit
    <2>3. CASE ~executing /\ ~shutdown
      BY <1>1, <1>2, <2>3 DEF OneTaskAtATime, CasAndSubmit, TaskPc
    <2>4. QED
      BY <2>1, <2>2, <2>3
  <1>4. WriterTypeOK'
    <2>1. epc' \in [Execution -> {"idle"} \cup TaskPc \cup ListenerPc] /\ executing' \in BOOLEAN
      BY DEF CasAndSubmit, TaskPc, WriterTypeOK
    <2>2. QED
      BY <1>1, <2>1 DEF WriterTypeOK, TaskPc
  <1>5. Ages' /\ DeletingIsMarked' /\ NewestSurvives'
    BY <1>1, <1>2 DEF Ages, Carries, DeletingIsMarked, NewestSurvives, Undisturbed, TaskPc
  <1>6. QED
    BY <1>3, <1>4, <1>5

(* A task takes what is recorded, and only the one task touches the disk.   *)
LEMMA TaskIInv ==
  ASSUME WriterIInv, NEW e \in Execution, Task(e) \/ FailTask(e)
  PROVE  WriterIInv'
  <1> USE BoundsAreNatural DEF WriterIInv, WriterTypeOK, OneTaskAtATime, Ages, Carries, DeletingIsMarked,
      NewestSurvives, Undisturbed, InTask, TaskPc, ListenerPc, Memento, Absent, Null,
      ExecutionAt, disk, flags
  <1>1. CASE TakeMemento(e)
    BY <1>1 DEF TakeMemento
  <1>2. CASE WriteTmp(e)
    BY <1>2 DEF WriteTmp
  <1>3. CASE MoveTmp(e)
    BY <1>3 DEF MoveTmp
  <1>4. CASE FailTask(e)
    BY <1>4 DEF FailTask
  <1>5. CASE MarkDeleted(e)
    BY <1>5 DEF MarkDeleted
  <1>6. CASE Unrequire(e)
    BY <1>6 DEF Unrequire
  <1>7. CASE DeleteFile(e)
    BY <1>7 DEF DeleteFile
  <1>8. CASE DeleteTmp(e)
    BY <1>8 DEF DeleteTmp
  <1>9. QED
    BY <1>1, <1>2, <1>3, <1>4, <1>5, <1>6, <1>7, <1>8 DEF Task

(* The listener releases before it looks for more work.                     *)
LEMMA ListenerIInv ==
  ASSUME WriterIInv, NEW e \in Execution, Release(e) \/ PostTestDelete(e) \/ PostTestWrite(e)
  PROVE  WriterIInv'
  <1> USE BoundsAreNatural DEF WriterIInv, WriterTypeOK, OneTaskAtATime, Ages, Carries, DeletingIsMarked,
      NewestSurvives, Undisturbed, InTask, TaskPc, ListenerPc, Memento, Absent, Null,
      ExecutionAt, disk, flags
  <1>1. CASE Release(e)
    BY <1>1 DEF Release
  <1>2. CASE PostTestDelete(e)
    BY <1>2 DEF PostTestDelete
  <1>3. CASE PostTestWrite(e)
    BY <1>3 DEF PostTestWrite
  <1>4. QED
    BY <1>1, <1>2, <1>3

LEMMA WriterNextIInv == WriterIInv /\ [WriterNext]_writerVars => WriterIInv'
  <1> SUFFICES ASSUME WriterIInv, [WriterNext]_writerVars PROVE WriterIInv'
    OBVIOUS
  <1>1. CASE Shutdown \/ UNCHANGED writerVars
    <2>1. UNCHANGED <<flags, disk, cpc, epc, val, latest, failures>> /\ (shutdown => shutdown')
          /\ shutdown' \in BOOLEAN
      BY <1>1 DEF Shutdown, writerVars, WriterIInv, WriterTypeOK
    <2>2. QED
      BY <2>1 DEF WriterIInv, WriterTypeOK, OneTaskAtATime, Ages, Carries, DeletingIsMarked,
         NewestSurvives, Undisturbed, InTask, disk, flags
  <1>2. ASSUME NEW c \in Client, Write(c) \/ Delete(c)
        PROVE  WriterIInv'
    <2>1. CASE WriteCas(c) \/ DeleteCas(c)
      <3>1. cpc' \in [Client -> ClientPc]
        BY <2>1 DEF WriteCas, DeleteCas, ClientAt, WriterIInv, WriterTypeOK, ClientPc
      <3>2. epc \in [Execution -> {"idle"} \cup TaskPc \cup ListenerPc]
        BY DEF WriterIInv, WriterTypeOK
      <3>3. QED
        BY <2>1, <3>1, <3>2, CasIInv DEF WriteCas, DeleteCas
    <2>2. QED
      BY <1>2, <2>1, ClientIInv DEF Write, Delete
  <1>3. ASSUME NEW e \in Execution, Task(e) \/ FailTask(e) \/ PostExec(e)
        PROVE  WriterIInv'
    <2>1. CASE PostCas(e)
      <3> DEFINE phases == [epc EXCEPT ![e] = "idle"]
      <3>1. phases \in [Execution -> {"idle"} \cup TaskPc \cup ListenerPc]
        BY DEF WriterIInv, WriterTypeOK
      <3>2. \A f \in Execution : phases[f] = epc[f] \/ (~InTask(f) /\ phases[f] = "idle")
        BY <2>1 DEF PostCas, InTask, TaskPc, WriterIInv, WriterTypeOK
      <3>3. cpc' \in [Client -> ClientPc]
        BY <2>1 DEF PostCas, WriterIInv, WriterTypeOK
      <3>4. QED
        BY <2>1, <3>1, <3>2, <3>3, CasIInv DEF PostCas
    <2>2. QED
      BY <1>3, <2>1, TaskIInv, ListenerIInv DEF PostExec
  <1>4. QED
    BY <1>1, <1>2, <1>3 DEF WriterNext

THEOREM WriterInvariance == WriterSpec => []WriterIInv
  BY WriterInitIInv, WriterNextIInv, PTL DEF WriterSpec

(* The ranges of the variables, and that a task about to move the temporary *)
(* file finds in it what it wrote itself.                                   *)
THEOREM WriterTypeCorrect == WriterSpec => []WriterTypeOK
  BY WriterInvariance, PTL DEF WriterIInv

(* The flag executing alone serializes the tasks on a cached thread pool.   *)
THEOREM TasksAreSerial == WriterSpec => []OneTaskAtATime
  BY WriterInvariance, PTL DEF WriterIInv

(* The memento of the last write() is recorded, in the running task's hands *)
(* or on disk, while nothing failed and nothing was deleted.                *)
THEOREM NewestIsNotLost == WriterSpec => []NewestSurvives
  BY WriterInvariance, PTL DEF WriterIInv

(* The file never goes back to an older memento.                            *)
THEOREM FileNeverOlder == WriterSpec => NeverOlder
  <1>1. WriterIInv /\ [WriterNext]_writerVars => ((file \in Memento /\ file' \in Memento) => file' >= file)
    <2> SUFFICES ASSUME WriterIInv, [WriterNext]_writerVars, file \in Memento, file' \in Memento
                 PROVE  file' >= file
      OBVIOUS
    <2>1. CASE file' = file
      BY <2>1 DEF Memento
    <2>2. CASE file' # file
      <3>1. PICK e \in Execution : MoveTmp(e) \/ DeleteFile(e)
        BY <2>2 DEF WriterNext, writerVars, disk, flags, Shutdown, Write, WriteCall, WriteTestRequired,
           WriteTestDeleted, WriteCas, Delete, DeleteCall, DeleteTestDeleted,
           DeleteTestRequired, DeleteRequire, DeleteCas, Task, TakeMemento, WriteTmp,
           MarkDeleted, Unrequire, DeleteTmp, FailTask, PostExec, Release, PostTestDelete,
           PostTestWrite, PostCas
      <3>2. MoveTmp(e)
        BY <3>1, BoundsAreNatural DEF DeleteFile, Memento, Absent
      <3>3. file' = val[e] /\ Carries(e)
        BY <3>2 DEF MoveTmp, ExecutionAt, WriterIInv, WriterTypeOK, Carries, Memento, Null
      <3>4. QED
        BY <3>3, BoundsAreNatural DEF WriterIInv, Ages, Memento, WriterTypeOK
    <2>3. QED
      BY <2>1, <2>2
  <1>2. QED
    BY <1>1, WriterInvariance, PTL DEF WriterSpec, NeverOlder

(* What liveness rests on: somebody will look.                              *)

InWrite(c) == cpc[c] \in {"testRequired", "testDeleted", "casWrite"}

(* A recorded write has a call of write, a task or a listener that has yet  *)
(* to look at it, unless a delete will make it void.                        *)
WriteIsAttended ==
  requireWrite # Null /\ ~requireDelete /\ ~deleted /\ ~shutdown =>
    (\E e \in Execution : epc[e] # "idle") \/ (\E c \in Client : InWrite(c))

(* A recorded delete has its caller, or a task whose listener will look, or *)
(* a listener that has not looked yet or is about to submit it.             *)
DeleteIsAttended ==
  requireDelete /\ ~deleted /\ ~shutdown =>
    \/ \E e \in Execution : InTask(e) \/ epc[e] \in {"testDelete", "recasDelete"}
    \/ \E c \in Client : cpc[c] = "casDelete"

LEMMA InitAttended == WriterInit => WriteIsAttended /\ DeleteIsAttended
  BY DEF WriterInit, WriteIsAttended, DeleteIsAttended

(* Whoever loses the compareAndSet leaves its work to the task that won.    *)
LEMMA CasAttends ==
  ASSUME WriterIInv, NEW first \in {"take", "mark"},
         NEW phases \in [Execution -> {"idle"} \cup TaskPc \cup ListenerPc],
         \A e \in Execution : InTask(e) => phases[e] = epc[e],
         CasAndSubmit(first, phases), UNCHANGED shutdown, ~shutdown
  PROVE  \E e \in Execution : InTask(e)'
  <1>1. CASE executing
    <2>1. PICK e \in Execution : InTask(e)
      BY <1>1 DEF WriterIInv, OneTaskAtATime
    <2>2. QED
      BY <1>1, <2>1 DEF CasAndSubmit, InTask
  <1>2. CASE ~executing
    BY <1>2 DEF CasAndSubmit, InTask, TaskPc
  <1>3. QED
    BY <1>1, <1>2

LEMMA ClientAttends ==
  ASSUME WriterIInv, WriteIsAttended, DeleteIsAttended, NEW c \in Client, Write(c) \/ Delete(c)
  PROVE  WriteIsAttended' /\ DeleteIsAttended'
  <1> USE DEF WriteIsAttended, DeleteIsAttended, WriterIInv, WriterTypeOK, InWrite, InTask, TaskPc,
      ClientAt, flags
  <1>1. CASE WriteCas(c) \/ DeleteCas(c)
    <2>1. UNCHANGED <<requireWrite, requireDelete, deleted, shutdown>>
      BY <1>1 DEF WriteCas, DeleteCas
    <2>2. ~shutdown => \E e \in Execution : InTask(e)'
      BY <1>1, CasAttends DEF WriteCas, DeleteCas
    <2>3. QED
      BY <2>1, <2>2
  <1>2. CASE WriteCall(c)
    BY <1>2 DEF WriteCall
  <1>3. CASE WriteTestRequired(c)
    BY <1>3 DEF WriteTestRequired
  <1>4. CASE WriteTestDeleted(c)
    BY <1>4 DEF WriteTestDeleted
  <1>5. CASE DeleteCall(c) \/ DeleteTestDeleted(c) \/ DeleteTestRequired(c)
    BY <1>5 DEF DeleteCall, DeleteTestDeleted, DeleteTestRequired
  <1>6. CASE DeleteRequire(c)
    BY <1>6 DEF DeleteRequire
  <1>7. QED
    BY <1>1, <1>2, <1>3, <1>4, <1>5, <1>6 DEF Write, Delete

LEMMA ExecutionAttends ==
  ASSUME WriterIInv, WriteIsAttended, DeleteIsAttended, NEW e \in Execution,
         Task(e) \/ FailTask(e) \/ PostExec(e)
  PROVE  WriteIsAttended' /\ DeleteIsAttended'
  <1> USE DEF WriteIsAttended, DeleteIsAttended, WriterIInv, WriterTypeOK, InWrite, InTask, TaskPc,
      ExecutionAt, flags
  <1>1. CASE TakeMemento(e)
    BY <1>1 DEF TakeMemento
  <1>2. CASE WriteTmp(e)
    BY <1>2 DEF WriteTmp
  <1>3. CASE MoveTmp(e)
    BY <1>3 DEF MoveTmp
  <1>4. CASE FailTask(e)
    BY <1>4 DEF FailTask
  <1>5. CASE MarkDeleted(e)
    BY <1>5 DEF MarkDeleted
  <1>6. CASE Unrequire(e)
    BY <1>6 DEF Unrequire, DeletingIsMarked
  <1>7. CASE DeleteFile(e) \/ DeleteTmp(e)
    BY <1>7 DEF DeleteFile, DeleteTmp
  <1>8. CASE Release(e)
    BY <1>8 DEF Release
  <1>9. CASE PostTestDelete(e)
    BY <1>9 DEF PostTestDelete
  <1>10. CASE PostTestWrite(e)
    BY <1>10 DEF PostTestWrite
  <1>11. CASE PostCas(e)
    <2>1. UNCHANGED <<requireWrite, requireDelete, deleted, shutdown>>
      BY <1>11 DEF PostCas
    <2>2. [epc EXCEPT ![e] = "idle"] \in [Execution -> {"idle"} \cup TaskPc \cup ListenerPc]
      OBVIOUS
    <2>3. ~shutdown => \E f \in Execution : InTask(f)'
      BY <1>11, <2>2, CasAttends DEF PostCas
    <2>4. QED
      BY <2>1, <2>3
  <1>12. QED
    BY <1>1, <1>2, <1>3, <1>4, <1>5, <1>6, <1>7, <1>8, <1>9, <1>10, <1>11 DEF Task, PostExec

(* No write and no delete is recorded that nobody will look at: the thread  *)
(* that found executing set and left can rely on the listener of the task.  *)
THEOREM NothingForgotten == WriterSpec => [](WriteIsAttended /\ DeleteIsAttended)
  <1>1. WriterIInv /\ WriteIsAttended /\ DeleteIsAttended /\ [WriterNext]_writerVars
        => WriteIsAttended' /\ DeleteIsAttended'
    <2> SUFFICES ASSUME WriterIInv, WriteIsAttended, DeleteIsAttended, [WriterNext]_writerVars
                 PROVE  WriteIsAttended' /\ DeleteIsAttended'
      OBVIOUS
    <2>1. CASE Shutdown \/ UNCHANGED writerVars
      BY <2>1 DEF Shutdown, writerVars, flags, WriteIsAttended, DeleteIsAttended, InWrite, InTask
    <2>2. QED
      BY <2>1, ClientAttends, ExecutionAttends DEF WriterNext
  <1>2. QED
    BY <1>1, InitAttended, WriterInvariance, PTL DEF WriterSpec

(* The writer implements FileStore.                                         *)

LEMMA WriterInitFiles == WriterInit => Files!Init
  BY DEF WriterInit, Files!Init, Files!Every, StoreRecorded, StoreHand, StoreAsked, StoreFile,
     TakenMemento, Storing

(* There is one task, so its phase says what is in hand.                    *)
HandIs(e) == TakenMemento = IF epc[e] \in {"write", "move"} THEN val[e] ELSE NotTaken
TaskHasHand == \A e \in Execution : InTask(e) => HandIs(e)

LEMMA HandOfTask == WriterIInv => TaskHasHand
  <1> SUFFICES ASSUME WriterIInv, NEW e \in Execution, InTask(e) PROVE HandIs(e)
    BY DEF TaskHasHand
  <1>1. \A f \in Storing : f = e
    BY DEF Storing, WriterIInv, OneTaskAtATime, InTask, TaskPc
  <1>2. CASE epc[e] \in {"write", "move"}
    <2>1. Storing = {e}
      BY <1>1, <1>2 DEF Storing
    <2>2. QED
      BY <1>2, <2>1 DEF TakenMemento, HandIs
  <1>3. CASE epc[e] \notin {"write", "move"}
    <2>1. Storing = {}
      BY <1>1, <1>3 DEF Storing
    <2>2. QED
      BY <1>3, <2>1 DEF TakenMemento, HandIs
  <1>4. QED
    BY <1>2, <1>3

LEMMA SameHand ==
  ASSUME \A e \in Execution : epc'[e] \in {"write", "move"} <=> epc[e] \in {"write", "move"},
         UNCHANGED val
  PROVE  UNCHANGED StoreHand
  <1>1. Storing' = Storing
    BY DEF Storing
  <1>2. QED
    BY <1>1 DEF TakenMemento, StoreHand

LEMMA TaskStores ==
  ASSUME WriterIInv, WriterIInv', NEW e \in Execution, Task(e) \/ FailTask(e)
  PROVE  [Files!Next]_(Files!vars)
  <1> DEFINE i == "memento"
  <1> USE DEF OneItem, StoreRecorded, StoreHand, StoreAsked, StoreFile
  <1>1. /\ InTask(e) /\ InTask(e)'
        /\ epc'[e] # epc[e]
    BY DEF Task, FailTask, TakeMemento, WriteTmp, MoveTmp, MarkDeleted, Unrequire, DeleteFile,
       DeleteTmp, ExecutionAt, InTask, TaskPc, WriterIInv, WriterTypeOK
  <1>2. /\ TakenMemento = IF epc[e] \in {"write", "move"} THEN val[e] ELSE NotTaken
        /\ TakenMemento' = IF epc'[e] \in {"write", "move"} THEN val'[e] ELSE NotTaken
    <2>1. TaskHasHand /\ TaskHasHand'
      BY HandOfTask, PTL
    <2>2. QED
      BY <1>1, <2>1 DEF TaskHasHand, HandIs
  <1>3. val[e] # NotTaken
    BY BoundsAreNatural DEF WriterIInv, WriterTypeOK, Memento, Null, NotTaken
  <1>4. CASE TakeMemento(e)
    <2>1. /\ epc[e] = "take" /\ epc'[e] = "write" /\ val'[e] = requireWrite
          /\ requireWrite' = Null /\ UNCHANGED <<requireDelete, deleted, file>>
      BY <1>4 DEF TakeMemento, ExecutionAt, WriterIInv, WriterTypeOK, disk
    <2>2. Files!Take(i)
      BY <1>2, <2>1 DEF Files!Take
    <2>3. QED
      BY <2>2 DEF Files!Next
  <1>5. CASE WriteTmp(e)
    <2>1. /\ epc[e] = "write" /\ epc'[e] = "move" /\ val' = val
          /\ UNCHANGED <<requireWrite, requireDelete, deleted, file>>
      BY <1>5 DEF WriteTmp, ExecutionAt, WriterIInv, WriterTypeOK, flags
    <2>2. QED
      BY <1>2, <2>1 DEF Files!vars
  <1>6. CASE MoveTmp(e)
    <2>1. /\ epc[e] = "move" /\ epc'[e] = "release" /\ file' = val[e]
          /\ UNCHANGED <<requireWrite, requireDelete, deleted>>
      BY <1>6 DEF MoveTmp, ExecutionAt, WriterIInv, WriterTypeOK, flags
    <2>2. Files!Store(i)
      BY <1>2, <1>3, <2>1 DEF Files!Store, Files!LetGo
    <2>3. QED
      BY <2>2 DEF Files!Next
  <1>7. CASE FailTask(e)
    <2>1. /\ epc[e] \in {"write", "move"} /\ epc'[e] = "release"
          /\ UNCHANGED <<requireWrite, requireDelete, deleted, file>>
      BY <1>7 DEF FailTask, ExecutionAt, WriterIInv, WriterTypeOK, flags, disk
    <2>2. Files!Lose(i)
      BY <1>2, <1>3, <2>1 DEF Files!Lose, Files!LetGo
    <2>3. QED
      BY <2>2 DEF Files!Next
  <1>8. CASE MarkDeleted(e)
    <2>1. /\ epc[e] = "mark" /\ epc'[e] = "unrequire" /\ deleted' = TRUE
          /\ UNCHANGED <<requireWrite, requireDelete, file>>
      BY <1>8 DEF MarkDeleted, ExecutionAt, WriterIInv, WriterTypeOK, disk
    <2>2. Files!Ask(i)
      BY <1>2, <2>1 DEF Files!Ask
    <2>3. QED
      BY <2>2 DEF Files!Next
  <1>9. CASE Unrequire(e)
    <2>1. /\ epc[e] = "unrequire" /\ epc'[e] = "deleteFile" /\ deleted /\ deleted'
          /\ UNCHANGED <<requireWrite, file>>
      BY <1>9 DEF Unrequire, ExecutionAt, WriterIInv, WriterTypeOK, DeletingIsMarked, disk
    <2>2. QED
      BY <1>2, <2>1 DEF Files!vars
  <1>10. CASE DeleteFile(e)
    <2>1. /\ epc[e] = "deleteFile" /\ epc'[e] = "deleteTmp" /\ deleted /\ file' = Absent
          /\ UNCHANGED <<requireWrite, requireDelete, deleted>>
      BY <1>10 DEF DeleteFile, ExecutionAt, WriterIInv, WriterTypeOK, DeletingIsMarked, flags
    <2>2. Files!Remove(i)
      BY <1>2, <2>1 DEF Files!Remove
    <2>3. QED
      BY <2>2 DEF Files!Next
  <1>11. CASE DeleteTmp(e)
    <2>1. /\ epc[e] = "deleteTmp" /\ epc'[e] = "release"
          /\ UNCHANGED <<requireWrite, requireDelete, deleted, file>>
      BY <1>11 DEF DeleteTmp, ExecutionAt, WriterIInv, WriterTypeOK, flags
    <2>2. QED
      BY <1>2, <2>1 DEF Files!vars
  <1>12. QED
    BY <1>4, <1>5, <1>6, <1>7, <1>8, <1>9, <1>10, <1>11 DEF Task

(* Neither a compareAndSet nor a listener changes what is in hand.          *)
LEMMA CasKeepsHand ==
  ASSUME WriterIInv, NEW first \in {"take", "mark"},
         NEW phases \in [Execution -> {"idle"} \cup TaskPc \cup ListenerPc],
         \A e \in Execution : phases[e] = epc[e] \/ (~InTask(e) /\ phases[e] = "idle"),
         CasAndSubmit(first, phases)
  PROVE  \A e \in Execution : epc'[e] \in {"write", "move"} <=> epc[e] \in {"write", "move"}
  BY DEF CasAndSubmit, InTask, TaskPc

LEMMA ClientRecords ==
  ASSUME WriterIInv, NEW c \in Client, Write(c) \/ Delete(c)
  PROVE  [Files!Next]_(Files!vars)
  <1> DEFINE i == "memento"
  <1> USE DEF OneItem, StoreRecorded, StoreAsked, StoreFile
  <1>1. CASE WriteCall(c)
    <2>1. requireWrite' \in Memento
      BY <1>1, BoundsAreNatural DEF WriteCall, Memento, WriterIInv, WriterTypeOK
    <2>2. UNCHANGED <<requireDelete, deleted, file, epc, val>>
      BY <1>1 DEF WriteCall, disk
    <2>3. UNCHANGED StoreHand
      BY <2>2, SameHand
    <2>4. Files!Record(i)
      BY <2>1, <2>2, <2>3 DEF Files!Record
    <2>5. QED
      BY <2>4 DEF Files!Next
  <1>2. CASE DeleteRequire(c)
    <2>1. UNCHANGED <<requireWrite, deleted, file, epc, val>> /\ requireDelete' = TRUE
      BY <1>2 DEF DeleteRequire, disk
    <2>2. UNCHANGED StoreHand
      BY <2>1, SameHand
    <2>3. Files!Ask(i)
      BY <2>1, <2>2 DEF Files!Ask
    <2>4. QED
      BY <2>3 DEF Files!Next
  <1>3. CASE WriteCas(c) \/ DeleteCas(c)
    <2>1. UNCHANGED <<requireWrite, requireDelete, deleted, file, val>>
      BY <1>3 DEF WriteCas, DeleteCas, disk
    <2>2. epc \in [Execution -> {"idle"} \cup TaskPc \cup ListenerPc]
      BY DEF WriterIInv, WriterTypeOK
    <2>3. UNCHANGED StoreHand
      BY <1>3, <2>1, <2>2, CasKeepsHand, SameHand DEF WriteCas, DeleteCas
    <2>4. QED
      BY <2>1, <2>3 DEF Files!vars
  <1>4. CASE \/ WriteTestRequired(c) \/ WriteTestDeleted(c) \/ DeleteCall(c)
             \/ DeleteTestDeleted(c) \/ DeleteTestRequired(c)
    <2>1. UNCHANGED <<requireWrite, requireDelete, deleted, file, epc, val>>
      BY <1>4 DEF WriteTestRequired, WriteTestDeleted, DeleteCall, DeleteTestDeleted,
         DeleteTestRequired, flags, disk
    <2>2. QED
      BY <2>1, SameHand DEF Files!vars
  <1>5. QED
    BY <1>1, <1>2, <1>3, <1>4 DEF Write, Delete

LEMMA ListenerStutters ==
  ASSUME WriterIInv, NEW e \in Execution, PostExec(e)
  PROVE  UNCHANGED Files!vars
  <1>1. UNCHANGED <<requireWrite, requireDelete, deleted, file, val>>
    BY DEF PostExec, Release, PostTestDelete, PostTestWrite, PostCas, flags, disk
  <1>2. \A f \in Execution : epc'[f] \in {"write", "move"} <=> epc[f] \in {"write", "move"}
    <2>1. CASE Release(e) \/ PostTestDelete(e) \/ PostTestWrite(e)
      BY <2>1 DEF Release, PostTestDelete, PostTestWrite, ExecutionAt, WriterIInv, WriterTypeOK
    <2>2. CASE PostCas(e)
      <3> DEFINE phases == [epc EXCEPT ![e] = "idle"]
      <3>1. phases \in [Execution -> {"idle"} \cup TaskPc \cup ListenerPc]
        BY DEF WriterIInv, WriterTypeOK
      <3>2. \A f \in Execution : phases[f] = epc[f] \/ (~InTask(f) /\ phases[f] = "idle")
        BY <2>2 DEF PostCas, InTask, TaskPc, WriterIInv, WriterTypeOK
      <3>3. QED
        BY <2>2, <3>1, <3>2, CasKeepsHand DEF PostCas
    <2>3. QED
      BY <2>1, <2>2 DEF PostExec
  <1>3. QED
    BY <1>1, <1>2, SameHand DEF StoreRecorded, StoreAsked, StoreFile, Files!vars

(* The file is only ever what one task stored whole of what write() had     *)
(* recorded, and it is deleted only between two such tasks and on request,  *)
(* which is visible in requireDelete or deleted from then on (writeNow,     *)
(* deleteNow).                                                              *)
THEOREM WriterStoresWhole == WriterSpec => ImplementsFileStore
  <1>1. WriterIInv /\ WriterIInv' /\ [WriterNext]_writerVars => [Files!Next]_(Files!vars)
    <2> SUFFICES ASSUME WriterIInv, WriterIInv', [WriterNext]_writerVars
                 PROVE  [Files!Next]_(Files!vars)
      OBVIOUS
    <2>1. CASE Shutdown \/ UNCHANGED writerVars
      <3>1. UNCHANGED <<requireWrite, requireDelete, deleted, file, epc, val>>
        BY <2>1 DEF Shutdown, writerVars, flags, disk
      <3>2. QED
        BY <3>1, SameHand DEF StoreRecorded, StoreAsked, StoreFile, Files!vars
    <2>2. QED
      BY <2>1, TaskStores, ClientRecords, ListenerStutters DEF WriterNext
  <1>2. QED
    BY <1>1, WriterInitFiles, WriterInvariance, PTL DEF WriterSpec, ImplementsFileStore, Files!Spec

===============================================================================
