------------------------ MODULE AutoScalerPolicy_proofs ------------------------
(***************************************************************************)
(* Proofs about AutoScalerPolicy for any pool sizes, bounds of the         *)
(* workrate, delays and workrates: the ranges, and that a resize was asked *)
(* for throughout the stabilization delay.  The invariant relates the list *)
(* of recent sizes, which the code keeps and prunes, to the history of the *)
(* sizes that were in force during each of the last ticks.  After it, the  *)
(* safety part of LastDesireIsServed.                                      *)
(*                                                                         *)
(* At the end, the proofs about WebConsole.                                *)
(***************************************************************************)
EXTENDS AutoScalerPolicy, WebConsole, SequenceTheorems, WellFoundedInduction, TLAPS

(* Where values stand that were in force k ticks ago: recorded then or      *)
(* before, and not followed by another before that tick.                    *)
InForceAt(s, k) ==
  {i \in DOMAIN s : s[i].age >= k /\ (i = Len(s) \/ s[i + 1].age <= k)}

ValuesAt(s, k) == {s[i].val : i \in InForceAt(s, k)}

Record == [val : Size, age : 0..(Period + 1)]
Sensor == {"metric", "hot", "cold", "ok"}
Notice == [sensor : Sensor, work : Nat, size : Size]

(* The history asked agrees with the list: a value that was in force during *)
(* one of the last ticks is in the list, and its ages say so.               *)
RecentSound ==
  /\ recent \in Seq(Record)
  /\ \A k \in 0..Period : asked[k] = ValuesAt(recent, k)

(* An executor is shut down while the policy is suspended or is resuming,   *)
(* and every suspension has a new executor after it.                        *)
Controlled ==
  /\ alive <=> control = "running"
  /\ control # "running" => executor <= MaxSuspends
  /\ notice = <<>> \/ \E n \in Notice : notice = <<n>>

IInv == TypeOK /\ RecentSound /\ Controlled

(* The parts of TypeOK that actions change together *)
PoolOK ==
  work \in Work /\ size \in Size /\ up \in BOOLEAN /\ changes \in 0..MaxChanges
ListOK ==
  /\ RecentSound /\ Len(recent) <= MaxValues
  /\ \A i, j \in DOMAIN recent : i < j => recent[i].age >= recent[j].age
  /\ asked \in [0..Period -> SUBSET Size]
  /\ wanted \in BOOLEAN /\ (wanted => recent # <<>>)
ControlOK == control \in Control /\ executor \in Executor /\ alive \in BOOLEAN /\ Controlled
QueueOK ==
  /\ executorQueued \in BOOLEAN
  /\ tasks \subseteq {executor} /\ (tasks # {} => executorQueued /\ alive)
RunOK ==
  phase \in [Executor -> Phase] /\ goal \in [Executor -> Size] /\ failures \in 0..MaxFailures

--------------------------------------------------------------------------------
(* The least and the greatest of a set of numbers *)

LEMMA LeastNatural ==
  ASSUME NEW S \in SUBSET Nat, S # {}
  PROVE  \E x \in S : \A y \in S : x <= y
<1>1. PICK x \in S : \A y \in S : ~(<<y, x>> \in OpToRel(<, Nat))
  BY NatLessThanWellFounded, WFMin
<1>2. \A y \in S : ~(y < x)
  BY <1>1 DEF OpToRel
<1> QED
  BY <1>2

LEMMA MinIsLeast ==
  ASSUME NEW S \in SUBSET Nat, S # {}
  PROVE  Min(S) \in S /\ \A y \in S : Min(S) <= y
<1> QED
  BY LeastNatural DEF Min

LEMMA MaxIsGreatest ==
  ASSUME NEW n \in Nat, NEW S \in SUBSET (0..n), S # {}
  PROVE  Max(S) \in S /\ \A y \in S : Max(S) >= y
<1> DEFINE T == {n - x : x \in S}
<1>0. \A x \in S : x \in 0..n
  OBVIOUS
<1>1. T \in SUBSET Nat /\ T # {}
  <2>1. \A x \in S : n - x \in Nat
    BY <1>0
  <2> QED
    BY <2>1
<1>2. PICK t \in T : \A y \in T : t <= y
  BY <1>1, LeastNatural
<1>3. PICK x \in S : t = n - x
  BY <1>2
<1>4. \A y \in S : x >= y
  BY <1>2, <1>3
<1> QED
  BY <1>4 DEF Max

LEMMA Sizes ==
  /\ Period \in Nat \ {0} /\ UpDelay \in 1..Period /\ DownDelay \in 1..Period
  /\ \A n \in Int : Bounded(n) \in Size
<1>1. Period \in {UpDelay, DownDelay} /\ \A y \in {UpDelay, DownDelay} : Period >= y
  BY DelayAssumption DEF Period, Max
<1>2. ASSUME NEW n \in Int PROVE Bounded(n) \in Size
  <2> DEFINE m == Max({MinPoolSize, n})
  <2>1. m \in {MinPoolSize, n} /\ m >= MinPoolSize
    BY SizeAssumption DEF Max
  <2>2. Min({MaxPoolSize, m}) \in {MaxPoolSize, m} /\ Min({MaxPoolSize, m}) <= MaxPoolSize
    BY <2>1, SizeAssumption DEF Min
  <2> QED
    BY <2>1, <2>2, SizeAssumption DEF Bounded, Size
<1> QED
  BY <1>1, <1>2, DelayAssumption

--------------------------------------------------------------------------------
(* The window *)

LEMMA Quotients ==
  ASSUME NEW a \in Nat, NEW b \in Nat \ {0}
  PROVE  a \div b \in Int /\ CeilDiv(a, b) \in Int
  BY DEF CeilDiv

Sorted(s) == \A i, j \in DOMAIN s : i < j => s[i].age >= s[j].age

(* What is left out is older than the first that is kept, which is the only *)
(* one that may be too old.                                                 *)
LEMMA WindowIs ==
  ASSUME NEW s \in Seq(Record), s # <<>>, NEW d \in Nat
  PROVE  \E n \in 1..Len(s) :
           /\ Window(s, d) = SubSeq(s, n, Len(s))
           /\ n = 1 \/ s[n].age > d
           /\ \A i \in 1..Len(s) : i > n => s[i].age <= d
<1> DEFINE X == Expired(s, d) \cup {1}
           n == Max(X)
<1>1. Len(s) \in Nat \ {0} /\ DOMAIN s = 1..Len(s) /\ \A i \in 1..Len(s) : s[i].age \in Nat
  <2>1. Len(s) \in Nat \ {0} /\ DOMAIN s = 1..Len(s)
    BY LenProperties, EmptySeq
  <2>2. \A i \in 1..Len(s) : s[i] \in Record
    BY ElementOfSeq
  <2> QED
    BY <2>1, <2>2, Sizes DEF Record
<1>2. X \in SUBSET (0..Len(s)) /\ X # {} /\ X \subseteq 1..Len(s)
  BY <1>1 DEF Expired
<1>3. n \in X /\ \A y \in X : n >= y
  BY <1>1, <1>2, MaxIsGreatest
<1>4. n \in 1..Len(s) /\ (n = 1 \/ s[n].age > d)
  BY <1>2, <1>3 DEF Expired
<1>5. ASSUME NEW i \in 1..Len(s), i > n PROVE s[i].age <= d
  <2> HIDE DEF n
  <2>1. ~(s[i].age > d)
    <3>1. i \notin X
      BY <1>3, <1>4, <1>5
    <3> QED
      BY <1>1, <3>1 DEF Expired
  <2> QED
    BY <1>1, <2>1
<1> QED
  BY <1>4, <1>5 DEF Window

--------------------------------------------------------------------------------
(* What is recorded and what was in force *)

LEMMA RecordType ==
  ASSUME NEW s \in Seq(Record)
  PROVE  /\ Len(s) \in Nat /\ DOMAIN s = 1..Len(s)
         /\ \A i \in 1..Len(s) :
              s[i] \in Record /\ s[i].age \in 0..(Period + 1) /\ s[i].val \in Size
<1>1. Len(s) \in Nat /\ DOMAIN s = 1..Len(s)
  BY LenProperties
<1>2. \A i \in 1..Len(s) : s[i] \in Record
  BY ElementOfSeq
<1> QED
  BY <1>1, <1>2 DEF Record

(* A window ends with what was recorded last. *)
LEMMA WindowEnds ==
  ASSUME NEW s \in Seq(Record), s # <<>>, NEW d \in Nat
  PROVE  /\ Window(s, d) \in Seq(Record) /\ Window(s, d) # <<>>
         /\ Last(Window(s, d)) = Last(s)
         /\ Last(s) \in Record /\ Last(s).val \in Values(Window(s, d))
<1> DEFINE w == Window(s, d)
           m == Len(s)
<1>0. m \in Nat \ {0} /\ m \in 1..m /\ s[m] \in Record
  BY RecordType, EmptySeq
<1>1. PICK n \in 1..m : w = SubSeq(s, n, m)
  BY WindowIs
<1>2. w \in Seq(Record) /\ Len(w) = m - n + 1 /\ \A j \in 1..(m - n + 1) : w[j] = s[n + j - 1]
  BY <1>0, <1>1, SubSeqProperties
<1> HIDE DEF w, m
<1>3. m - n + 1 \in 1..(m - n + 1) /\ m - n + 1 # 0 /\ n + (m - n + 1) - 1 = m
  BY <1>0
<1>4. w[m - n + 1] = s[m] /\ DOMAIN w = 1..(m - n + 1)
  BY <1>2, <1>3, RecordType
<1>5. w # <<>> /\ Last(w) = s[m] /\ Last(s) = s[m]
  BY <1>2, <1>3, <1>4, EmptySeq DEF Last, m
<1>6. s[m].val \in Values(w)
  BY <1>3, <1>4 DEF Values
<1> QED
  BY <1>0, <1>2, <1>5, <1>6 DEF w

(* A value that is new is in force now, and changes nothing about the past. *)
LEMMA Appended ==
  ASSUME NEW s \in Seq(Record), NEW r \in Record, r.age = 0
  PROVE  /\ Append(s, r) \in Seq(Record) /\ Append(s, r) # <<>>
         /\ Sorted(s) => Sorted(Append(s, r))
         /\ ValuesAt(Append(s, r), 0) = ValuesAt(s, 0) \cup {r.val}
         /\ \A k \in 1..Period : ValuesAt(Append(s, r), k) = ValuesAt(s, k)
<1> DEFINE t == Append(s, r)
<1>2. /\ t \in Seq(Record) /\ Len(t) = Len(s) + 1 /\ t # <<>>
      /\ \A i \in 1..Len(s) : t[i] = s[i]
      /\ t[Len(s) + 1] = r
  BY AppendProperties
<1>3. /\ Len(s) \in Nat /\ DOMAIN s = 1..Len(s) /\ DOMAIN t = 1..(Len(s) + 1)
      /\ \A i \in 1..Len(s) : s[i].age \in Nat
  BY <1>2, RecordType, Sizes
<1>4. t[Len(s) + 1].age = 0 /\ t[Len(s) + 1].val = r.val
  BY <1>2
<1> HIDE DEF t
<1>5. Sorted(s) => Sorted(t)
  <2> SUFFICES ASSUME Sorted(s), NEW i \in 1..(Len(s) + 1), NEW j \in 1..(Len(s) + 1), i < j
               PROVE  t[i].age >= t[j].age
    BY <1>3 DEF Sorted
  <2>1. i \in 1..Len(s)
    BY <1>3
  <2>2. CASE j = Len(s) + 1
    BY <2>1, <2>2, <1>2, <1>3, <1>4
  <2>3. CASE j \in 1..Len(s)
    BY <2>1, <2>3, <1>2, <1>3 DEF Sorted
  <2> QED
    BY <2>2, <2>3, <1>3
<1>6. ASSUME NEW k \in 0..Period
      PROVE  InForceAt(t, k) = InForceAt(s, k) \cup (IF k = 0 THEN {Len(s) + 1} ELSE {})
  <2>1. ASSUME NEW i \in 1..Len(s) PROVE i \in InForceAt(t, k) <=> i \in InForceAt(s, k)
    <3>1. CASE i = Len(s)
      BY <3>1, <1>2, <1>3, <1>4, Sizes DEF InForceAt
    <3>2. CASE i # Len(s)
      <4>1. i + 1 \in 1..Len(s) /\ i # Len(t)
        <5>1. Len(s) \in Nat /\ Len(t) = Len(s) + 1
          BY <1>2, <1>3
        <5> QED
          BY <3>2, <5>1
      <4> QED
        <5>1. t[i] = s[i] /\ t[i + 1] = s[i + 1]
          BY <4>1, <1>2
        <5> QED
          BY <3>2, <4>1, <5>1, <1>3 DEF InForceAt
    <3> QED
      BY <3>1, <3>2
  <2>2. Len(s) + 1 \in InForceAt(t, k) <=> k = 0
    BY <1>2, <1>3, <1>4, Sizes DEF InForceAt
  <2>3. InForceAt(s, k) \subseteq 1..Len(s) /\ InForceAt(t, k) \subseteq 1..(Len(s) + 1)
    BY <1>3 DEF InForceAt
  <2> QED
    BY <2>1, <2>2, <2>3, <1>3
<1>7. ASSUME NEW k \in 0..Period PROVE {t[i].val : i \in InForceAt(s, k)} = ValuesAt(s, k)
  <2>1. InForceAt(s, k) \subseteq 1..Len(s)
    BY <1>3 DEF InForceAt
  <2>2. \A i \in InForceAt(s, k) : t[i].val = s[i].val
    BY <2>1, <1>2
  <2> QED
    BY <2>2 DEF ValuesAt
<1>8. ValuesAt(t, 0) = ValuesAt(s, 0) \cup {r.val}
  <2>1. 0 \in 0..Period
    BY Sizes
  <2>2. InForceAt(t, 0) = InForceAt(s, 0) \cup {Len(s) + 1}
    BY <1>6, <2>1
  <2>3. ValuesAt(t, 0) = {t[i].val : i \in InForceAt(s, 0)} \cup {t[Len(s) + 1].val}
    BY <2>2 DEF ValuesAt
  <2> QED
    BY <1>4, <1>7, <2>1, <2>3
<1>9. ASSUME NEW k \in 1..Period PROVE ValuesAt(t, k) = ValuesAt(s, k)
  <2>1. k \in 0..Period /\ k # 0
    BY Sizes
  <2>2. InForceAt(t, k) = InForceAt(s, k)
    BY <1>6, <2>1
  <2> QED
    BY <1>7, <2>1, <2>2 DEF ValuesAt
<1> QED
  BY <1>2, <1>5, <1>8, <1>9 DEF t

(* What is pruned was not in force in any of the last ticks. *)
LEMMA PrunedKeeps ==
  ASSUME NEW s \in Seq(Record), s # <<>>, Sorted(s)
  PROVE  /\ Pruned(s) \in Seq(Record) /\ Pruned(s) # <<>> /\ Sorted(Pruned(s))
         /\ \A k \in 0..Period : ValuesAt(Pruned(s), k) = ValuesAt(s, k)
<1> DEFINE t == Pruned(s)
           m == Len(s)
<1>0. /\ m \in Nat \ {0} /\ DOMAIN s = 1..m
      /\ \A i \in 1..m : s[i].age \in Nat
  BY RecordType, EmptySeq, Sizes
<1>1. PICK n \in 1..m : t = SubSeq(s, n, m) /\ (n = 1 \/ s[n].age > Period)
  BY WindowIs, Sizes DEF Pruned
<1>2. /\ t \in Seq(Record) /\ Len(t) = m - n + 1 /\ DOMAIN t = 1..(m - n + 1)
      /\ \A j \in 1..(m - n + 1) : t[j] = s[n + j - 1]
  <2>1. t \in Seq(Record) /\ Len(t) = m - n + 1
    BY <1>0, <1>1, SubSeqProperties
  <2>2. \A j \in 1..(m - n + 1) : t[j] = s[n + j - 1]
    BY <1>0, <1>1, SubSeqProperties
  <2> QED
    BY <2>1, <2>2, RecordType
<1>m. m \in Nat /\ n \in 1..m /\ n \in Nat
  BY <1>0, <1>1
<1> HIDE DEF t, m
<1>3. t # <<>>
  <2>1. m - n + 1 # 0 /\ Len(<<>>) = 0
    BY <1>m
  <2> QED
    BY <2>1, <1>2
<1>4. Sorted(t)
  <2> SUFFICES ASSUME NEW i \in 1..(m - n + 1), NEW j \in 1..(m - n + 1), i < j
               PROVE  t[i].age >= t[j].age
    BY <1>2 DEF Sorted
  <2>1. n + i - 1 \in 1..m /\ n + j - 1 \in 1..m /\ n + i - 1 < n + j - 1
    BY <1>0
  <2> QED
    BY <2>1, <1>0, <1>2 DEF Sorted
<1>5. ASSUME NEW k \in 0..Period PROVE ValuesAt(t, k) = ValuesAt(s, k)
  <2>1. ASSUME NEW j \in InForceAt(t, k) PROVE t[j].val \in ValuesAt(s, k)
    <3>1. j \in 1..(m - n + 1) /\ n + j - 1 \in 1..m
      BY <1>0, <1>2 DEF InForceAt
    <3>2. n + j - 1 \in InForceAt(s, k)
      <4>1. CASE j = m - n + 1
        BY <2>1, <3>1, <4>1, <1>0, <1>2 DEF InForceAt
      <4>2. CASE j # m - n + 1
        <5>1. j + 1 \in 1..(m - n + 1) /\ t[j + 1] = s[n + (j + 1) - 1] /\ n + (j + 1) - 1 = n + j
          <6>1. j + 1 \in 1..(m - n + 1) /\ n + (j + 1) - 1 = n + j
            BY <3>1, <4>2, <1>m
          <6> QED
            BY <6>1, <1>2
        <5>2. t[j].age >= k /\ t[j + 1].age <= k /\ n + j - 1 + 1 = n + j
          BY <2>1, <3>1, <4>2, <1>0, <1>2 DEF InForceAt
        <5> QED
          BY <3>1, <5>1, <5>2, <1>0, <1>2 DEF InForceAt
      <4> QED
        BY <4>1, <4>2
    <3> QED
      BY <3>1, <3>2, <1>2 DEF ValuesAt
  <2>2. ASSUME NEW i \in InForceAt(s, k) PROVE s[i].val \in ValuesAt(t, k)
    <3>0. i \in 1..m /\ s[i].age >= k /\ (i = m \/ s[i + 1].age <= k)
      BY <1>0 DEF InForceAt
    <3>1. i >= n
      <4> SUFFICES ASSUME i < n PROVE FALSE
        BY <3>0, <1>m
      <4>1. i + 1 \in 1..m /\ i + 1 <= n /\ i # m /\ n # 1
        BY <3>0, <1>m
      <4>2. s[i + 1].age >= s[n].age
        BY <4>1, <1>0, <1>m DEF Sorted
      <4>3. s[i + 1].age <= k /\ s[n].age > Period
        BY <3>0, <4>1, <1>1
      <4>4. s[i + 1].age \in Nat /\ s[n].age \in Nat /\ k \in 0..Period /\ Period \in Nat
        BY <4>1, <1>0, <1>m, Sizes
      <4> QED
        BY <4>2, <4>3, <4>4
    <3> DEFINE j == i - n + 1
    <3>2. j \in 1..(m - n + 1) /\ t[j] = s[i] /\ n + j - 1 = i
      <4>1. j \in 1..(m - n + 1) /\ n + j - 1 = i
        BY <3>0, <3>1, <1>m
      <4> QED
        BY <4>1, <1>2
    <3>3. j \in InForceAt(t, k)
      <4>1. CASE i = m
        BY <4>1, <3>0, <3>2, <1>2 DEF InForceAt
      <4>2. CASE i # m
        <5>1. j + 1 \in 1..(m - n + 1) /\ n + (j + 1) - 1 = i + 1
          BY <4>2, <3>0, <3>2, <1>0
        <5> QED
          BY <4>2, <5>1, <3>0, <3>2, <1>2 DEF InForceAt
      <4> QED
        BY <4>1, <4>2
    <3> QED
      BY <3>2, <3>3 DEF ValuesAt
  <2> QED
    BY <2>1, <2>2 DEF ValuesAt
<1> QED
  BY <1>2, <1>3, <1>4, <1>5 DEF t

(* A tick makes everything one tick older; what was last recorded is still  *)
(* in force.                                                                *)
Aged(s) == [i \in DOMAIN s |-> Older(s[i])]

LEMMA AgedBy ==
  ASSUME NEW r \in Record
  PROVE  /\ Older(r) \in Record /\ Older(r).val = r.val
         /\ Older(r).age = IF r.age = Period + 1 THEN Period + 1 ELSE r.age + 1
<1> DEFINE a == Min({Period + 1, r.age + 1})
<1>1. r.age \in 0..(Period + 1) /\ Period \in Nat
  BY Sizes DEF Record
<1>2. a = IF r.age = Period + 1 THEN Period + 1 ELSE r.age + 1
  <2>1. a \in {Period + 1, r.age + 1} /\ a <= Period + 1 /\ a <= r.age + 1
    BY <1>1, MinIsLeast
  <2> HIDE DEF a
  <2> QED
    BY <1>1, <2>1
<1> HIDE DEF a
<1>3. Older(r) = [r EXCEPT !.age = a]
  BY DEF Older, a
<1>4. a \in 0..(Period + 1)
  BY <1>1, <1>2
<1> QED
  BY <1>1, <1>2, <1>3, <1>4 DEF Record

LEMMA AgedKeeps ==
  ASSUME NEW s \in Seq(Record), Sorted(s)
  PROVE  /\ Aged(s) \in Seq(Record) /\ Len(Aged(s)) = Len(s) /\ Sorted(Aged(s))
         /\ \A k \in 1..Period : ValuesAt(Aged(s), k) = ValuesAt(s, k - 1)
         /\ ValuesAt(Aged(s), 0) = IF s = <<>> THEN {} ELSE {Last(s).val}
<1> DEFINE t == Aged(s)
           m == Len(s)
<1>0. m \in Nat /\ DOMAIN s = 1..m /\ Period \in Nat
  BY RecordType, Sizes
<1>1. \A i \in 1..m : s[i] \in Record /\ s[i].age \in 0..(Period + 1)
  BY RecordType
<1>2. t = [i \in 1..m |-> Older(s[i])] /\ t \in Seq(Record) /\ Len(t) = m /\ DOMAIN t = 1..m
  <2>1. t = [i \in 1..m |-> Older(s[i])]
    BY <1>0 DEF Aged
  <2>2. \A i \in 1..m : Older(s[i]) \in Record
    BY <1>1, AgedBy
  <2>3. t \in [1..m -> Record]
    BY <2>1, <2>2
  <2>4. t \in Seq(Record)
    BY <2>3, <1>0, SeqDef
  <2> QED
    BY <2>1, <2>4, <1>0, LenProperties
<1> HIDE DEF t, m
<1>3. ASSUME NEW i \in 1..m
      PROVE  /\ t[i].val = s[i].val
             /\ t[i].age = IF s[i].age = Period + 1 THEN Period + 1 ELSE s[i].age + 1
  BY <1>1, <1>2, AgedBy
<1>4. Sorted(t)
  <2> SUFFICES ASSUME NEW i \in 1..m, NEW j \in 1..m, i < j PROVE t[i].age >= t[j].age
    BY <1>2 DEF Sorted
  <2>1. s[i].age >= s[j].age
    BY <1>0 DEF Sorted
  <2>2. s[i].age \in 0..(Period + 1) /\ s[j].age \in 0..(Period + 1)
    BY <1>1
  <2>3. t[i].age = IF s[i].age = Period + 1 THEN Period + 1 ELSE s[i].age + 1
    BY <1>3
  <2>4. t[j].age = IF s[j].age = Period + 1 THEN Period + 1 ELSE s[j].age + 1
    BY <1>3
  <2> QED
    BY <1>0, <2>1, <2>2, <2>3, <2>4
<1>5. ASSUME NEW k \in 1..Period PROVE ValuesAt(t, k) = ValuesAt(s, k - 1)
  <2>1. ASSUME NEW i \in 1..m
        PROVE  (t[i].age >= k <=> s[i].age >= k - 1) /\ (t[i].age <= k <=> s[i].age <= k - 1)
    <3>1. s[i].age \in 0..(Period + 1)
      BY <1>1
    <3>2. t[i].age = IF s[i].age = Period + 1 THEN Period + 1 ELSE s[i].age + 1
      BY <1>3
    <3> QED
      BY <1>0, <3>1, <3>2
  <2>2. ASSUME NEW i \in 1..m PROVE i \in InForceAt(t, k) <=> i \in InForceAt(s, k - 1)
    <3>1. CASE i = m
      <4>1. t[i].age >= k <=> s[i].age >= k - 1
        BY <2>1
      <4>2. Len(t) = m /\ DOMAIN t = 1..m /\ DOMAIN s = 1..m /\ Len(s) = m
        BY <1>0, <1>2 DEF m
      <4> QED
        BY <3>1, <4>1, <4>2 DEF InForceAt
    <3>2. CASE i # m
      <4>1. i + 1 \in 1..m
        BY <3>2, <1>0
      <4>2. t[i].age >= k <=> s[i].age >= k - 1
        BY <2>1
      <4>3. t[i + 1].age <= k <=> s[i + 1].age <= k - 1
        BY <4>1, <2>1
      <4>4. Len(t) = m /\ DOMAIN t = 1..m /\ DOMAIN s = 1..m /\ Len(s) = m
        BY <1>0, <1>2 DEF m
      <4> QED
        BY <3>2, <4>2, <4>3, <4>4 DEF InForceAt
    <3> QED
      BY <3>1, <3>2
  <2>3. InForceAt(t, k) \subseteq 1..m /\ InForceAt(s, k - 1) \subseteq 1..m
    BY <1>0, <1>2 DEF InForceAt
  <2>4. \A i \in 1..m : t[i].val = s[i].val
    BY <1>3
  <2>5. InForceAt(t, k) = InForceAt(s, k - 1)
    BY <2>2, <2>3
  <2> QED
    BY <2>3, <2>4, <2>5 DEF ValuesAt
<1>6. ASSUME NEW i \in 1..m PROVE i \in InForceAt(t, 0) <=> i = m
  <2>1. \A j \in 1..m : t[j].age \in Nat /\ t[j].age >= 1
    <3> SUFFICES ASSUME NEW j \in 1..m PROVE t[j].age \in Nat /\ t[j].age >= 1
      OBVIOUS
    <3>1. s[j].age \in 0..(Period + 1)
      BY <1>1
    <3>2. t[j].age = IF s[j].age = Period + 1 THEN Period + 1 ELSE s[j].age + 1
      BY <1>3
    <3> QED
      BY <1>0, <3>1, <3>2
  <2>2. CASE i = m
    BY <2>1, <2>2, <1>2 DEF InForceAt
  <2>3. CASE i # m
    <3>1. i + 1 \in 1..m
      BY <2>3, <1>0
    <3>2. ~(t[i + 1].age <= 0)
      BY <2>1, <3>1
    <3> QED
      BY <2>3, <3>2, <1>2 DEF InForceAt
  <2> QED
    BY <2>2, <2>3
<1>7. ValuesAt(t, 0) = IF s = <<>> THEN {} ELSE {Last(s).val}
  <2>1. InForceAt(t, 0) \subseteq 1..m
    BY <1>2 DEF InForceAt
  <2>2. CASE s = <<>>
    <3>1. m = 0
      BY <2>2 DEF m
    <3>2. InForceAt(t, 0) = {}
      BY <2>1, <3>1
    <3> QED
      BY <2>2, <3>2 DEF ValuesAt
  <2>3. CASE s # <<>>
    <3>1. m \in 1..m
      BY <2>3, <1>0, EmptySeq DEF m
    <3>2. InForceAt(t, 0) = {m}
      BY <2>1, <3>1, <1>6
    <3>3. Last(s).val = t[m].val
      BY <3>1, <1>3 DEF Last, m
    <3> QED
      BY <2>3, <3>2, <3>3 DEF ValuesAt
  <2> QED
    BY <2>2, <2>3
<1> QED
  BY <1>2, <1>4, <1>5, <1>7 DEF t, m

--------------------------------------------------------------------------------
(* What the window says is wanted: nothing, or a size that was asked for    *)
(* throughout the delay.                                                    *)

(* The values of a window that is covered, and those in force during it *)
LEMMA Covered ==
  ASSUME TypeOK, RecentSound, NEW d \in 1..Period, ~Uncovered(ValuesInWindow(d), d)
  PROVE  LET V == Values(ValuesInWindow(d))
         IN  /\ V \subseteq Size /\ V # {} /\ asked[d] # {}
             /\ \A k \in 0..(d - 1) : asked[k] \subseteq V
<1> DEFINE s == recent
           m == Len(s)
           w == ValuesInWindow(d)
           V == Values(w)
<1>0. /\ s \in Seq(Record) /\ m \in Nat /\ DOMAIN s = 1..m /\ Period \in Nat /\ d \in Nat
      /\ \A i \in 1..m : s[i].age \in Nat /\ s[i].val \in Size
  BY RecordType, Sizes DEF RecentSound
<1>1. w # <<>> /\ ~(w[1].age < d)
  BY DEF Uncovered
<1>2. s # <<>>
  <2> SUFFICES ASSUME s = <<>> PROVE w = <<>>
    BY <1>1
  <2>1. Expired(s, d) = {} /\ Len(s) = 0
    BY DEF Expired
  <2>2. Max({1}) = 1
    BY DEF Max
  <2>3. w = SubSeq(s, 1, 0)
    BY <2>1, <2>2 DEF ValuesInWindow, Window
  <2> QED
    BY <2>3
<1>3. PICK n \in 1..m :
        w = SubSeq(s, n, m) /\ \A i \in 1..m : i > n => s[i].age <= d
  BY <1>0, <1>2, WindowIs DEF ValuesInWindow
<1>4. /\ n \in Nat /\ Len(w) = m - n + 1 /\ DOMAIN w = 1..(m - n + 1)
      /\ \A j \in 1..(m - n + 1) : w[j] = s[n + j - 1]
  <2>1. w \in Seq(Record) /\ Len(w) = m - n + 1
    BY <1>0, <1>3, SubSeqProperties
  <2>2. \A j \in 1..(m - n + 1) : w[j] = s[n + j - 1]
    BY <1>0, <1>3, SubSeqProperties
  <2> QED
    BY <2>1, <2>2, RecordType, <1>3
<1>s. Sorted(s)
  BY DEF TypeOK, Sorted
<1> HIDE DEF w, m, s
<1>5. s[n].age \in Nat /\ s[n].age >= d
  <2>1. 1 \in 1..(m - n + 1) /\ n + 1 - 1 = n
    BY <1>0, <1>3
  <2>2. w[1] = s[n]
    BY <2>1, <1>4
  <2> QED
    BY <2>2, <1>0, <1>1, <1>3
<1>6. ASSUME NEW i \in 1..m, i >= n PROVE s[i].val \in V
  <2>1. i - n + 1 \in 1..(m - n + 1) /\ n + (i - n + 1) - 1 = i
    BY <1>0, <1>4, <1>6
  <2>2. w[i - n + 1] = s[i]
    BY <2>1, <1>4
  <2> QED
    BY <2>1, <2>2, <1>4 DEF Values
<1>7. V \subseteq Size
  <2> SUFFICES ASSUME NEW j \in 1..(m - n + 1) PROVE w[j].val \in Size
    BY <1>4 DEF Values
  <2>1. n + j - 1 \in 1..m
    BY <1>0, <1>3
  <2> QED
    BY <2>1, <1>0, <1>4
<1>8. V # {}
  <2>1. n >= n
    BY <1>4
  <2> QED
    BY <2>1, <1>3, <1>6
<1>9. asked[d] # {}
  <2> DEFINE J == {i \in 1..m : s[i].age >= d}
  <2>1. J \in SUBSET (0..m) /\ J # {}
    <3>1. 1..m \subseteq 0..m
      BY <1>0
    <3>2. n \in J
      BY <1>3, <1>5
    <3> QED
      BY <3>1, <3>2
  <2>2. Max(J) \in J /\ \A y \in J : Max(J) >= y
    BY <2>1, <1>0, MaxIsGreatest
  <2>3. PICK j \in 1..m : s[j].age >= d /\ \A y \in J : j >= y
    BY <2>2
  <2>4. j = m \/ s[j + 1].age <= d
    <3> SUFFICES ASSUME j # m PROVE s[j + 1].age <= d
      OBVIOUS
    <3>1. j + 1 \in 1..m /\ ~(j >= j + 1)
      BY <1>0
    <3>2. ~(s[j + 1].age >= d)
      BY <2>3, <3>1
    <3>3. s[j + 1].age \in Nat
      BY <3>1, <1>0
    <3> QED
      BY <3>2, <3>3, <1>0
  <2>5. j \in InForceAt(s, d)
    BY <2>3, <2>4, <1>0 DEF InForceAt, m
  <2>6. asked[d] = ValuesAt(s, d)
    BY DEF RecentSound, s
  <2> QED
    BY <2>5, <2>6 DEF ValuesAt
<1>10. ASSUME NEW k \in 0..(d - 1) PROVE asked[k] \subseteq V
  <2>0. k \in 0..Period /\ k < d /\ k \in Nat
    BY <1>0
  <2>1. asked[k] = ValuesAt(s, k)
    BY <2>0 DEF RecentSound, s
  <2> SUFFICES ASSUME NEW i \in InForceAt(s, k) PROVE s[i].val \in V
    BY <2>1 DEF ValuesAt
  <2>2. i \in 1..m /\ (i = m \/ s[i + 1].age <= k)
    BY <1>0 DEF InForceAt, m
  <2>3. i >= n
    <3> SUFFICES ASSUME i < n PROVE FALSE
      BY <2>2, <1>4
    <3>1. i + 1 \in 1..m /\ i # m /\ (i + 1 < n \/ i + 1 = n)
      BY <2>2, <1>0, <1>3
    <3>2. s[i + 1].age >= s[n].age
      <4>1. CASE i + 1 = n
        BY <4>1, <1>5
      <4>2. CASE i + 1 < n
        BY <3>1, <4>2, <1>0, <1>3, <1>s DEF Sorted
      <4> QED
        BY <3>1, <4>1, <4>2
    <3>3. s[i + 1].age \in Nat /\ s[i + 1].age <= k
      BY <2>2, <3>1, <1>0
    <3> QED
      BY <2>0, <3>2, <3>3, <1>0, <1>5
  <2> QED
    BY <2>2, <2>3, <1>6
<1> QED
  BY <1>7, <1>8, <1>9, <1>10 DEF V, w, s

LEMMA MinWanted ==
  ASSUME TypeOK, RecentSound, NEW d \in 1..Period, MinInWindow(d) # IntegerMin
  PROVE  MinInWindow(d) \in Size /\ Throughout(d, LAMBDA v : v >= MinInWindow(d))
<1> DEFINE V == Values(ValuesInWindow(d))
<1>1. ~Uncovered(ValuesInWindow(d), d) /\ MinInWindow(d) = Min(V)
  BY DEF MinInWindow
<1>2. V \subseteq Size /\ V # {} /\ asked[d] # {} /\ \A k \in 0..(d - 1) : asked[k] \subseteq V
  BY <1>1, Covered
<1>3. V \in SUBSET Nat
  BY <1>2, SizeAssumption DEF Size
<1> HIDE DEF V
<1>4. Min(V) \in V /\ \A y \in V : y >= Min(V)
  <2>1. Min(V) \in V /\ \A y \in V : Min(V) <= y
    BY <1>2, <1>3, MinIsLeast
  <2> QED
    BY <2>1, <1>3
<1>5. MinInWindow(d) \in Size
  BY <1>1, <1>2, <1>4
<1>6. \A k \in 0..(d - 1) : \A v \in asked[k] : v >= MinInWindow(d)
  BY <1>1, <1>2, <1>4
<1> QED
  BY <1>2, <1>5, <1>6 DEF Throughout

LEMMA MaxWanted ==
  ASSUME TypeOK, RecentSound, NEW d \in 1..Period, MaxInWindow(d) # IntegerMax
  PROVE  MaxInWindow(d) \in Size /\ Throughout(d, LAMBDA v : v <= MaxInWindow(d))
<1> DEFINE V == Values(ValuesInWindow(d))
<1>1. ~Uncovered(ValuesInWindow(d), d) /\ MaxInWindow(d) = Max(V)
  BY DEF MaxInWindow
<1>2. V \subseteq Size /\ V # {} /\ asked[d] # {} /\ \A k \in 0..(d - 1) : asked[k] \subseteq V
  BY <1>1, Covered
<1>3. V \in SUBSET (0..MaxPoolSize) /\ MaxPoolSize \in Nat
  BY <1>2, SizeAssumption DEF Size
<1> HIDE DEF V
<1>4. Max(V) \in V /\ \A y \in V : y <= Max(V)
  <2>1. Max(V) \in V /\ \A y \in V : Max(V) >= y
    BY <1>2, <1>3, MaxIsGreatest
  <2> QED
    BY <2>1, <1>3
<1>5. MaxInWindow(d) \in Size
  BY <1>1, <1>2, <1>4
<1>6. \A k \in 0..(d - 1) : \A v \in asked[k] : v <= MaxInWindow(d)
  BY <1>1, <1>2, <1>4
<1> QED
  BY <1>2, <1>5, <1>6 DEF Throughout

(* A size that is calculated is a size, and one that the policy was asked   *)
(* for throughout the delay if it is another than the present one.          *)
LEMMA CalculatedIs ==
  ASSUME TypeOK, RecentSound
  PROVE  LET new == CalculatedDesiredPoolSize(size).size
         IN  /\ new \in Size
             /\ new > size => Throughout(UpDelay, LAMBDA v : v >= new)
             /\ new < size => Throughout(DownDelay, LAMBDA v : v <= new)
<1> DEFINE new == CalculatedDesiredPoolSize(size).size
           least == MaxInWindow(DownDelay)
           most == MinInWindow(UpDelay)
<1>0. size \in Size /\ UpDelay \in 1..Period /\ DownDelay \in 1..Period
  BY Sizes DEF TypeOK
<1>t. size \in 1..MaxPoolSize /\ MaxPoolSize \in Nat /\ Size = 1..MaxPoolSize
  BY <1>0, SizeAssumption DEF Size
<1>1. most = IntegerMin \/ (most \in Size /\ Throughout(UpDelay, LAMBDA v : v >= most))
  BY <1>0, MinWanted
<1>2. least = IntegerMax \/ (least \in Size /\ Throughout(DownDelay, LAMBDA v : v <= least))
  BY <1>0, MaxWanted
<1>3. most \in Int /\ least \in Int
  BY <1>1, <1>2, <1>t DEF IntegerMin, IntegerMax
<1>4. CASE size < most
  <2>1. new = most
    <3>1. ~(size >= most)
      BY <1>3, <1>4, <1>t
    <3> QED
      BY <1>4, <3>1 DEF CalculatedDesiredPoolSize
  <2>2. most # IntegerMin
    BY <1>4, <1>t DEF IntegerMin
  <2> HIDE DEF new, most, least
  <2>3. new \in Size /\ ~(new < size)
    BY <1>1, <1>3, <1>4, <1>t, <2>1, <2>2
  <2> QED
    BY <1>1, <2>1, <2>2, <2>3 DEF new, Throughout
<1>5. CASE size >= most /\ size > least
  <2>1. new = least
    <3>1. ~(size < most)
      BY <1>3, <1>5, <1>t
    <3> QED
      BY <1>5, <3>1 DEF CalculatedDesiredPoolSize
  <2>2. least # IntegerMax
    BY <1>5, <1>t DEF IntegerMax
  <2> HIDE DEF new, most, least
  <2>3. new \in Size /\ ~(new > size)
    BY <1>2, <1>3, <1>5, <1>t, <2>1, <2>2
  <2> QED
    BY <1>2, <2>1, <2>2, <2>3 DEF new, Throughout
<1>6. CASE ~(size < most) /\ ~(size >= most /\ size > least)
  <2>1. new = size
    BY <1>6 DEF CalculatedDesiredPoolSize
  <2> QED
    BY <1>t, <2>1
<1> QED
  BY <1>4, <1>5, <1>6

--------------------------------------------------------------------------------
(* The steps *)

LEMMA InitIInv == Init => IInv
<1> SUFFICES ASSUME Init PROVE IInv
  OBVIOUS
<1> USE SizeAssumption, MaxAssumption
<1>1. /\ recent \in Seq(Record) /\ Len(recent) = 0 /\ DOMAIN recent = {}
      /\ Len(notice) = 0
  BY DEF Init
<1>2. asked = [k \in 0..Period |-> {}] /\ \A k \in 0..Period : ValuesAt(recent, k) = {}
  BY <1>1 DEF Init, ValuesAt, InForceAt
<1>3. RecentSound
  BY <1>1, <1>2 DEF RecentSound
<1>4. Controlled
  BY DEF Init, Controlled
<1>5. 1 \in Executor /\ MinPoolSize \in Size
  BY DEF Executor, Size
<1>6. TypeOK
  <2>1. ListOK
    <3>1. Len(recent) <= MaxValues
      BY <1>1
    <3>2. asked \in [0..Period -> SUBSET Size]
      BY <1>2
    <3>3. wanted = FALSE
      BY DEF Init
    <3> QED
      BY <1>1, <1>3, <3>1, <3>2, <3>3 DEF ListOK
  <2>2. PoolOK
    <3>1. 0 \in 0..MaxChanges
      OBVIOUS
    <3> QED
      BY <1>5, <3>1 DEF Init, PoolOK
  <2>3. ControlOK /\ QueueOK
    BY <1>4, <1>5 DEF Init, ControlOK, QueueOK, Control
  <2>4. RunOK
    BY <1>5 DEF Init, RunOK, Phase
  <2> QED
    BY <1>1, <2>1, <2>2, <2>3, <2>4 DEF TypeOK, ListOK, PoolOK, ControlOK, QueueOK, RunOK
<1> QED
  BY <1>3, <1>4, <1>6 DEF IInv

LEMMA Parts == IInv => PoolOK /\ ListOK /\ ControlOK /\ QueueOK /\ RunOK
BY DEF IInv, TypeOK, PoolOK, ListOK, ControlOK, QueueOK, RunOK

LEMMA Whole == PoolOK' /\ ListOK' /\ ControlOK' /\ QueueOK' /\ RunOK' => IInv'
<1> SUFFICES ASSUME PoolOK', ListOK', ControlOK', QueueOK', RunOK' PROVE IInv'
  OBVIOUS
<1>1. recent' \in Seq(Record)
  BY DEF ListOK, RecentSound
<1>2. \A i \in DOMAIN recent' : recent'[i].val \in Size /\ recent'[i].age \in 0..(Period + 1)
  BY <1>1, RecordType
<1>3. Len(notice') <= 1
  BY DEF ControlOK, Controlled
<1>4. TypeOK'
  BY <1>2, <1>3 DEF TypeOK, PoolOK, ListOK, ControlOK, QueueOK, RunOK
<1> QED
  BY <1>4 DEF IInv, ListOK, ControlOK

(* A value that is recorded *)
LEMMA AddList ==
  ASSUME ListOK, NEW v \in Size, Add(v), wanted' \in BOOLEAN
  PROVE  ListOK'
<1> DEFINE r == [val |-> v, age |-> 0]
           t == Append(recent, r)
<1>0. Sorted(recent) /\ recent \in Seq(Record)
  BY DEF ListOK, RecentSound, Sorted
<1>r. r \in Record /\ r.age = 0 /\ r.val = v
  BY Sizes DEF Record
<1>1. /\ t \in Seq(Record) /\ t # <<>> /\ Sorted(t)
      /\ ValuesAt(t, 0) = ValuesAt(recent, 0) \cup {v}
      /\ \A k \in 1..Period : ValuesAt(t, k) = ValuesAt(recent, k)
  <2> HIDE DEF r
  <2> QED
    BY <1>0, <1>r, Appended
<1> HIDE DEF t
<1>2. /\ Pruned(t) \in Seq(Record) /\ Pruned(t) # <<>> /\ Sorted(Pruned(t))
      /\ \A k \in 0..Period : ValuesAt(Pruned(t), k) = ValuesAt(t, k)
  BY <1>1, PrunedKeeps
<1>3. recent' = Pruned(t) /\ Len(recent') <= MaxValues
  BY DEF Add, t, r
<1>4. /\ asked' \in [0..Period -> SUBSET Size] /\ 0 \in 0..Period
      /\ asked'[0] = asked[0] \cup {v} /\ \A k \in 1..Period : asked'[k] = asked[k]
  <2>1. 0 \in 0..Period
    BY Sizes
  <2> QED
    BY <2>1 DEF Add, ListOK
<1>5. \A k \in 0..Period : asked'[k] = ValuesAt(recent', k)
  <2> SUFFICES ASSUME NEW k \in 0..Period PROVE asked'[k] = ValuesAt(recent', k)
    OBVIOUS
  <2>1. asked[k] = ValuesAt(recent, k)
    BY DEF ListOK, RecentSound
  <2>2. ValuesAt(recent', k) = ValuesAt(t, k)
    BY <1>2, <1>3
  <2>3. CASE k = 0
    BY <1>1, <1>4, <2>1, <2>2, <2>3
  <2>4. CASE k # 0
    <3>1. k \in 1..Period
      BY <2>4, Sizes
    <3> QED
      BY <1>1, <1>4, <2>1, <2>2, <3>1
  <2> QED
    BY <2>3, <2>4
<1>6. RecentSound'
  BY <1>2, <1>3, <1>5 DEF RecentSound
<1>7. \A i, j \in DOMAIN recent' : i < j => recent'[i].age >= recent'[j].age
  BY <1>2, <1>3 DEF Sorted
<1> QED
  BY <1>2, <1>3, <1>4, <1>6, <1>7 DEF ListOK

LEMMA ScheduleQueue ==
  ASSUME QueueOK, ControlOK, UNCHANGED policy, ScheduleResize
  PROVE  QueueOK'
BY DEF QueueOK, ControlOK, policy, ScheduleResize, isRunning

(* What is asked for is a size. *)
LEMMA HandleIs ==
  ASSUME PoolOK, NEW n \in Notice, Handle(n)
  PROVE  Ignore \/ \E v \in Size : Resize(v) \/ AbortResize(v)
<1>a. /\ n.work \in Nat /\ n.size \in Size /\ n.size \in Nat \ {0} /\ size \in Nat /\ size \in Size
      /\ LowerBound \in Nat \ {0} /\ UpperBound \in Nat \ {0}
  BY SizeAssumption, BoundAssumption DEF Notice, Size, PoolOK
<1>b. /\ Bounded(CeilDiv(n.work, UpperBound)) \in Size
      /\ Bounded(CeilDiv(n.work, LowerBound)) \in Size
  BY <1>a, Quotients, Sizes
<1>1. CASE OnMetricChanged(n)
  <2> DEFINE activity == size * n.work
             out == Bounded(CeilDiv(activity, n.size * UpperBound))
             floor == Bounded(activity \div (n.size * LowerBound))
             back == IF floor * n.size * UpperBound < activity THEN out ELSE floor
  <2>1. activity \in Nat /\ n.size * UpperBound \in Nat \ {0} /\ n.size * LowerBound \in Nat \ {0}
    BY <1>a
  <2>2. out \in Size /\ floor \in Size
    <3> HIDE DEF activity
    <3>1. /\ CeilDiv(activity, n.size * UpperBound) \in Int
          /\ activity \div (n.size * LowerBound) \in Int
      BY <2>1, Quotients
    <3> QED
      BY <3>1, Sizes
  <2>3. \/ Resize(out) \/ Resize(back) \/ AbortResize(size) \/ Ignore
    BY <1>1 DEF OnMetricChanged
  <2> HIDE DEF out, floor
  <2>4. back \in Size
    BY <2>2
  <2> HIDE DEF back
  <2> QED
    BY <1>a, <2>2, <2>3, <2>4
<1>2. CASE OnPoolHot(n)
  BY <1>a, <1>b, <1>2 DEF OnPoolHot
<1>3. CASE OnPoolCold(n)
  BY <1>a, <1>b, <1>3 DEF OnPoolCold
<1>4. CASE OnPoolOk(n)
  BY <1>a, <1>4 DEF OnPoolOk
<1> QED
  BY <1>1, <1>2, <1>3, <1>4 DEF Handle

LEMMA Handled ==
  ASSUME ListOK, QueueOK, ControlOK, PoolOK, UNCHANGED policy, NEW n \in Notice, Handle(n)
  PROVE  ListOK' /\ QueueOK'
<1>1. ASSUME NEW v \in Size, Resize(v) PROVE ListOK' /\ QueueOK'
  BY <1>1, AddList, ScheduleQueue DEF Resize
<1>2. ASSUME NEW v \in Size, AbortResize(v) PROVE ListOK' /\ QueueOK'
  BY <1>2, AddList DEF AbortResize, QueueOK, policy
<1>3. ASSUME Ignore PROVE ListOK' /\ QueueOK'
  BY <1>3 DEF Ignore, ListOK, RecentSound, QueueOK, policy
<1> QED
  BY <1>1, <1>2, <1>3, HandleIs

LEMMA NextIInv == IInv /\ [Next]_vars => IInv'
<1> SUFFICES ASSUME IInv, [Next]_vars PROVE IInv'
  OBVIOUS
<1>0. /\ PoolOK /\ ListOK /\ ControlOK /\ QueueOK /\ RunOK
      /\ TypeOK /\ RecentSound
  BY Parts DEF IInv
<1> USE SizeAssumption, MaxAssumption
<1>1. CASE OnEvent
  <2>1. PICK n \in Notice : notice = <<n>>
    BY <1>0, <1>1 DEF OnEvent, ControlOK, Controlled
  <2>2. Head(notice) = n /\ Tail(notice) = <<>>
    BY <2>1
  <2>3. ListOK' /\ QueueOK'
    BY <1>0, <1>1, <2>2, Handled DEF OnEvent
  <2>4. PoolOK' /\ ControlOK' /\ RunOK'
    BY <1>0, <1>1, <2>2 DEF OnEvent, pool, policy, run, PoolOK, ControlOK, Controlled, RunOK
  <2> QED
    BY <2>3, <2>4, Whole
<1>2. CASE Suspend
  <2>1. PoolOK' /\ ListOK' /\ RunOK'
    BY <1>0, <1>2 DEF Suspend, pool, run, PoolOK, ListOK, RecentSound, RunOK
  <2>2. ControlOK' /\ QueueOK'
    BY <1>0, <1>2 DEF Suspend, ControlOK, Controlled, Control, QueueOK
  <2> QED
    BY <2>1, <2>2, Whole
<1>3. CASE Resume
  <2>1. PoolOK' /\ ListOK' /\ RunOK'
    BY <1>0, <1>3 DEF Resume, pool, run, PoolOK, ListOK, RecentSound, RunOK
  <2>2. ControlOK' /\ QueueOK'
    BY <1>0, <1>3 DEF Resume, ControlOK, Controlled, Control, QueueOK
  <2> QED
    BY <2>1, <2>2, Whole
<1>4. CASE NewExecutor
  <2>1. PoolOK' /\ ListOK' /\ RunOK'
    BY <1>0, <1>4 DEF NewExecutor, pool, run, PoolOK, ListOK, RecentSound, RunOK
  <2>2. executor <= MaxSuspends /\ ~alive
    BY <1>0, <1>4 DEF NewExecutor, ControlOK, Controlled
  <2>3. ControlOK'
    <3>1. executor + 1 \in Executor
      BY <1>0, <2>2 DEF ControlOK, Executor
    <3> QED
      BY <1>0, <1>4, <3>1 DEF NewExecutor, ControlOK, Controlled, Control
  <2>4. QueueOK'
    BY <1>0, <1>4, <2>2 DEF NewExecutor, QueueOK
  <2> QED
    BY <2>1, <2>3, <2>4, Whole
<1>5. CASE WorkChanges
  <2>1. ListOK' /\ ControlOK' /\ QueueOK' /\ RunOK'
    BY <1>0, <1>5 DEF WorkChanges, policy, run, ListOK, RecentSound, ControlOK, Controlled, QueueOK,
       RunOK
  <2>2. PoolOK'
    BY <1>0, <1>5 DEF WorkChanges, PoolOK
  <2> QED
    BY <2>1, <2>2, Whole
<1>6. CASE ServiceUp
  <2>1. ListOK' /\ ControlOK' /\ QueueOK' /\ RunOK'
    BY <1>0, <1>6 DEF ServiceUp, policy, run, ListOK, RecentSound, ControlOK, Controlled, QueueOK,
       RunOK
  <2>2. PoolOK'
    BY <1>0, <1>6 DEF ServiceUp, PoolOK
  <2> QED
    BY <2>1, <2>2, Whole
<1>7. CASE Emit
  <2>1. PoolOK' /\ ListOK' /\ QueueOK' /\ RunOK'
    BY <1>0, <1>7 DEF Emit, pool, policy, run, PoolOK, ListOK, RecentSound, QueueOK, RunOK
  <2>2. PICK s \in {"metric", Utilization} :
          notice' = <<[sensor |-> s, work |-> work, size |-> size]>>
    BY <1>7 DEF Emit
  <2>3. s \in Sensor /\ work \in Nat /\ size \in Size
    BY <1>0, WorkAssumption DEF Sensor, Utilization, PoolOK
  <2>4. ControlOK'
    <3>1. [sensor |-> s, work |-> work, size |-> size] \in Notice
      BY <2>3 DEF Notice
    <3> QED
      BY <1>0, <1>7, <2>2, <3>1 DEF Emit, policy, ControlOK, Controlled
  <2> QED
    BY <2>1, <2>4, Whole
<1>8. CASE Tick
  <2>1. PoolOK' /\ ControlOK' /\ QueueOK' /\ RunOK'
    BY <1>0, <1>8 DEF Tick, pool, policy, run, PoolOK, ControlOK, Controlled, QueueOK, RunOK
  <2>2. recent' = Aged(recent) /\ wanted' = wanted
    BY <1>8 DEF Tick, Aged
  <2>3. Sorted(recent) /\ recent \in Seq(Record)
    BY <1>0 DEF ListOK, RecentSound, Sorted
  <2>4. /\ Aged(recent) \in Seq(Record) /\ Len(Aged(recent)) = Len(recent) /\ Sorted(Aged(recent))
        /\ \A k \in 1..Period : ValuesAt(Aged(recent), k) = ValuesAt(recent, k - 1)
        /\ ValuesAt(Aged(recent), 0) = IF recent = <<>> THEN {} ELSE {Last(recent).val}
    BY <2>3, AgedKeeps
  <2>5. /\ 0 \in 0..Period /\ Period \in Nat
        /\ \A k \in 0..Period : k # 0 => k \in 1..Period /\ k - 1 \in 0..Period
    BY Sizes
  <2>6. /\ asked'[0] = InForce
        /\ \A k \in 1..Period : asked'[k] = asked[k - 1]
        /\ asked' = [k \in 0..Period |-> IF k = 0 THEN InForce ELSE asked[k - 1]]
    BY <1>8, <2>5 DEF Tick
  <2>7. \A k \in 0..Period : asked'[k] = ValuesAt(recent', k)
    <3>1. asked'[0] = ValuesAt(recent', 0)
      BY <2>2, <2>4, <2>6 DEF InForce
    <3>2. ASSUME NEW k \in 1..Period PROVE asked'[k] = ValuesAt(recent', k)
      <4>1. k - 1 \in 0..Period
        BY <2>5
      <4>2. asked[k - 1] = ValuesAt(recent, k - 1)
        BY <1>0, <4>1 DEF RecentSound
      <4> QED
        BY <2>2, <2>4, <2>6, <4>2
    <3> QED
      BY <2>5, <3>1, <3>2
  <2>8. asked' \in [0..Period -> SUBSET Size]
    <3>1. InForce \in SUBSET Size
      <4>1. CASE recent = <<>>
        BY <4>1 DEF InForce
      <4>2. CASE recent # <<>>
        <5>1. Len(recent) \in 1..Len(recent)
          BY <2>3, <4>2, EmptySeq, LenProperties
        <5>2. recent[Len(recent)].val \in Size
          BY <2>3, <5>1, RecordType
        <5> QED
          BY <4>2, <5>2 DEF InForce, Last
      <4> QED
        BY <4>1, <4>2
    <3>2. ASSUME NEW k \in 0..Period, k # 0 PROVE asked[k - 1] \in SUBSET Size
      BY <1>0, <2>5, <3>2 DEF ListOK
    <3> QED
      BY <2>6, <3>1, <3>2
  <2>9. ListOK'
    <3>1. RecentSound'
      BY <2>2, <2>4, <2>7 DEF RecentSound
    <3>2. recent' # <<>> <=> recent # <<>>
      BY <2>2, <2>3, <2>4, EmptySeq
    <3> QED
      BY <1>0, <2>2, <2>4, <2>8, <3>1, <3>2 DEF ListOK, Sorted
  <2> QED
    BY <2>1, <2>9, Whole
<1>9. ASSUME NEW e \in Executor, Start(e) PROVE IInv'
  <2>1. PoolOK' /\ ListOK' /\ ControlOK'
    BY <1>0, <1>9 DEF Start, pool, policy, PoolOK, ListOK, RecentSound, ControlOK, Controlled
  <2>2. QueueOK'
    BY <1>0, <1>9 DEF Start, policy, QueueOK
  <2>3. RunOK'
    <3>1. MinPoolSize \in Size /\ "calculating" \in Phase
      BY DEF Size, Phase
    <3> QED
      BY <1>0, <1>9, <3>1 DEF Start, Goes, RunOK
  <2> QED
    BY <2>1, <2>2, <2>3, Whole
<1>10. ASSUME NEW e \in Executor, Calculate(e) PROVE IInv'
  <2>1. PoolOK' /\ ListOK' /\ ControlOK'
    BY <1>0, <1>10 DEF Calculate, pool, policy, PoolOK, ListOK, RecentSound, ControlOK, Controlled
  <2>2. QueueOK'
    <3>1. UNCHANGED policy /\ (UNCHANGED <<executorQueued, tasks>> \/ ScheduleResize)
      BY <1>10 DEF Calculate
    <3>2. CASE UNCHANGED <<executorQueued, tasks>>
      BY <1>0, <3>1, <3>2 DEF policy, QueueOK
    <3> QED
      BY <1>0, <3>1, <3>2, ScheduleQueue
  <2>3. RunOK'
    <3>1. MinPoolSize \in Size /\ "idle" \in Phase /\ "resizing" \in Phase
      BY DEF Size, Phase
    <3>2. CalculatedDesiredPoolSize(size).size \in Size
      BY <1>0, CalculatedIs
    <3>3. Ends(e) \/ Goes(e, "resizing", CalculatedDesiredPoolSize(size).size)
      BY <1>10 DEF Calculate
    <3>4. failures' = failures
      BY <1>10 DEF Calculate
    <3> QED
      BY <1>0, <3>1, <3>2, <3>3, <3>4 DEF Ends, Goes, RunOK
  <2> QED
    BY <2>1, <2>2, <2>3, Whole
<1>11. ASSUME NEW e \in Executor, ResizePool(e) PROVE IInv'
  <2>1. ListOK' /\ ControlOK' /\ QueueOK'
    BY <1>0, <1>11 DEF ResizePool, policy, ListOK, RecentSound, ControlOK, Controlled, QueueOK
  <2>2. PoolOK'
    BY <1>0, <1>11 DEF ResizePool, PoolOK, RunOK
  <2>3. RunOK'
    <3>1. MinPoolSize \in Size /\ "idle" \in Phase
      BY DEF Size, Phase
    <3>2. failures' \in 0..MaxFailures
      BY <1>0, <1>11 DEF ResizePool, RunOK
    <3> QED
      BY <1>0, <1>11, <3>1, <3>2 DEF ResizePool, Ends, Goes, RunOK
  <2> QED
    BY <2>1, <2>2, <2>3, Whole
<1>12. CASE UNCHANGED vars
  BY <1>0, <1>12, Whole DEF vars, pool, policy, run, PoolOK, ListOK, RecentSound, ControlOK,
     Controlled, QueueOK, RunOK
<1> QED
  BY <1>1, <1>2, <1>3, <1>4, <1>5, <1>6, <1>7, <1>8, <1>9, <1>10, <1>11, <1>12
     DEF Next, Controls, Run

LEMMA Invariance == Spec => []IInv
<1> QED
  BY InitIInv, NextIInv, PTL DEF Spec

(* The ranges: a resize has a size of the pool as its goal, never a bound   *)
(* that the window gives for want of information, and a run in the queue of *)
(* an executor is announced by executorQueued.                              *)
THEOREM TypeCorrect == Spec => []TypeOK
<1>1. IInv => TypeOK
  BY DEF IInv
<1> QED
  BY <1>1, Invariance, PTL

(* Whatever executor calculates, at whatever time: a resize that begins was *)
(* asked for throughout the stabilization delay of its direction.           *)
THEOREM ResizesAreSustained == Spec => ResizeIsSustained
<1> DEFINE Sustained(e) ==
      /\ goal'[e] > size => Throughout(UpDelay, LAMBDA v : v >= goal'[e])
      /\ goal'[e] < size => Throughout(DownDelay, LAMBDA v : v <= goal'[e])
<1>1. ASSUME IInv, [Next]_vars, NEW e \in Executor, Calculates(e)
      PROVE  Sustained(e)
  <2>0. TypeOK /\ RecentSound /\ phase \in [Executor -> Phase] /\ goal \in [Executor -> Size]
    BY <1>1 DEF IInv, TypeOK
  <2>1. Calculate(e)
    <3>1. phase' # phase
      BY <1>1 DEF Calculates
    <3>2. ~UNCHANGED run
      BY <3>1 DEF run
    <3>3. PICK f \in Executor : Run(f)
      BY <1>1, <3>2 DEF Next, OnEvent, Controls, Suspend, Resume, NewExecutor, WorkChanges,
         ServiceUp, Emit, Tick, vars, run
    <3>4. ~Start(f) /\ ~ResizePool(f)
      BY <1>1, <2>0 DEF Calculates, Start, ResizePool, Ends, Goes
    <3>5. Calculate(f)
      BY <3>3, <3>4 DEF Run
    <3>6. f = e
      BY <1>1, <2>0, <3>5 DEF Calculates, Calculate, Ends, Goes
    <3> QED
      BY <3>5, <3>6
  <2>2. Goes(e, "resizing", CalculatedDesiredPoolSize(size).size)
    BY <1>1, <2>0, <2>1 DEF Calculate, Calculates, Ends, Goes
  <2>3. goal'[e] = CalculatedDesiredPoolSize(size).size
    BY <2>0, <2>2 DEF Goes
  <2> QED
    BY <2>0, <2>3, CalculatedIs DEF Throughout
<1>2. IInv /\ [Next]_vars => [\A e \in Executor : Calculates(e) =>
       /\ goal'[e] > size => Throughout(UpDelay, LAMBDA v : v >= goal'[e])
       /\ goal'[e] < size => Throughout(DownDelay, LAMBDA v : v <= goal'[e])]_vars
  BY <1>1
<1> QED
  BY <1>2, Invariance, PTL DEF Spec, ResizeIsSustained

--------------------------------------------------------------------------------
(* The safety part of LastDesireIsServed *)

Desired == Last(recent).val

FutureIsIdle == \A e \in Executor : e > executor => phase[e] = "idle"

(* There is a run that has yet to calculate, or one that resizes to what is *)
(* asked for, or the size is that.                                          *)
IsPending ==
  \/ tasks # {} \/ phase[1] = "calculating"
  \/ phase[1] = "resizing" /\ goal[1] = Desired
  \/ phase[1] = "idle" /\ size = Desired

(* What was asked for last by scheduleResize is not forgotten, with the     *)
(* exceptions of LastDesireIsServed.                                        *)
DesireIsPending ==
  wanted /\ control = "running" /\ executor = 1 /\ failures = 0 /\ ~Stuck => IsPending

LEMMA LastAdded ==
  ASSUME ListOK, NEW v \in Size, Add(v)
  PROVE  Last(recent').val = v
<1> DEFINE r == [val |-> v, age |-> 0]
           t == Append(recent, r)
<1>0. recent \in Seq(Record)
  BY DEF ListOK, RecentSound
<1>1. r \in Record /\ r.val = v
  BY Sizes DEF Record
<1> HIDE DEF r
<1>2. t \in Seq(Record) /\ t # <<>> /\ Last(t) = r
  <2>1. /\ t \in Seq(Record) /\ t # <<>> /\ Len(t) = Len(recent) + 1
        /\ t[Len(recent) + 1] = r
    BY <1>0, <1>1, AppendProperties
  <2> HIDE DEF t
  <2> QED
    BY <2>1 DEF Last
<1> HIDE DEF t
<1>3. Last(Pruned(t)) = Last(t)
  BY <1>2, WindowEnds, Sizes DEF Pruned
<1> QED
  BY <1>1, <1>2, <1>3 DEF Add, t, r

LEMMA LastAged ==
  ASSUME ListOK, recent # <<>>, Tick
  PROVE  Last(recent').val = Last(recent).val
<1>0. recent \in Seq(Record) /\ Sorted(recent)
  BY DEF ListOK, RecentSound, Sorted
<1>1. recent' = Aged(recent) /\ Len(recent') = Len(recent)
  BY <1>0, AgedKeeps DEF Tick, Aged
<1>2. Len(recent) \in DOMAIN recent /\ recent[Len(recent)] \in Record
  BY <1>0, RecordType, EmptySeq
<1>3. recent'[Len(recent)] = Older(recent[Len(recent)])
  BY <1>1, <1>2 DEF Aged
<1> QED
  BY <1>1, <1>2, <1>3, AgedBy DEF Last

(* A window whose least and greatest value agree has the last value only. *)
LEMMA StableWindow ==
  ASSUME TypeOK, RecentSound, recent # <<>>, NEW d \in 1..Period,
         MinInWindow(d) = MaxInWindow(d)
  PROVE  MinInWindow(d) = Desired /\ Desired \in Size
<1> DEFINE V == Values(ValuesInWindow(d))
<1>1. ~Uncovered(ValuesInWindow(d), d)
  BY SizeAssumption DEF MinInWindow, MaxInWindow, IntegerMin, IntegerMax
<1>2. MinInWindow(d) = Min(V) /\ MaxInWindow(d) = Max(V)
  BY <1>1 DEF MinInWindow, MaxInWindow
<1>3. V \subseteq Size /\ V # {}
  BY <1>1, Covered
<1>4. Desired \in V /\ Desired \in Size
  <2>1. recent \in Seq(Record) /\ d \in Nat
    BY Sizes DEF RecentSound
  <2>2. Last(recent).val \in Values(Window(recent, d))
    BY <2>1, WindowEnds
  <2> QED
    BY <1>3, <2>2 DEF Desired, ValuesInWindow
<1> HIDE DEF V
<1>5. V \in SUBSET Nat /\ V \in SUBSET (0..MaxPoolSize) /\ MaxPoolSize \in Nat
  BY <1>3, SizeAssumption DEF Size
<1>6. Min(V) \in V /\ \A y \in V : Min(V) <= y
  BY <1>3, <1>5, MinIsLeast
<1>7. Max(V) \in V /\ \A y \in V : Max(V) >= y
  BY <1>3, <1>5, MaxIsGreatest
<1>8. Min(V) <= Desired /\ Desired <= Max(V) /\ Min(V) \in Nat /\ Desired \in Nat
  BY <1>4, <1>5, <1>6, <1>7
<1>9. Min(V) = Max(V)
  BY <1>2
<1>10. Min(V) = Desired
  BY <1>8, <1>9
<1> QED
  BY <1>2, <1>4, <1>10

(* When no other run is scheduled, the size that was calculated is the one  *)
(* asked for last.                                                          *)
LEMMA StableIsDesired ==
  ASSUME TypeOK, RecentSound, recent # <<>>, CalculatedDesiredPoolSize(size).stable
  PROVE  CalculatedDesiredPoolSize(size).size = Desired
<1> DEFINE least == MaxInWindow(DownDelay)
           most == MinInWindow(UpDelay)
           shrinking == MinInWindow(DownDelay) = least
           growing == most = MaxInWindow(UpDelay)
           c == CalculatedDesiredPoolSize(size)
<1>0. size \in Size /\ UpDelay \in 1..Period /\ DownDelay \in 1..Period
  BY Sizes DEF TypeOK
<1>1. growing => most = Desired /\ Desired \in Size
  BY <1>0, StableWindow
<1>2. shrinking => least = Desired /\ Desired \in Size
  BY <1>0, StableWindow
<1>3. \/ size < most /\ c.size = most /\ c.stable = growing
      \/ size >= most /\ size > least /\ c.size = least /\ c.stable = shrinking
      \/ /\ ~(size < most) /\ ~(size >= most /\ size > least)
         /\ c.size = size /\ c.stable = (growing /\ shrinking)
  <2>1. \/ size < most /\ c = [size |-> most, stable |-> growing]
        \/ size >= most /\ size > least /\ c = [size |-> least, stable |-> shrinking]
        \/ /\ ~(size < most) /\ ~(size >= most /\ size > least)
           /\ c = [size |-> size, stable |-> growing /\ shrinking]
    <3>1. CASE size < most
      <4>1. ~(size >= most)
        <5>1. most \in Int
          <6>1. most = IntegerMin \/ most \in Size
            BY <1>0, MinWanted
          <6> QED
            BY <6>1, SizeAssumption DEF IntegerMin, Size
        <5> QED
          BY <1>0, <3>1, <5>1, SizeAssumption DEF Size
      <4> QED
        BY <3>1, <4>1 DEF CalculatedDesiredPoolSize
    <3>2. CASE ~(size < most)
      BY <3>2 DEF CalculatedDesiredPoolSize
    <3> QED
      BY <3>1, <3>2
  <2> HIDE DEF c, growing, shrinking, most, least
  <2> QED
    BY <2>1
<1> HIDE DEF c, growing, shrinking, most, least
<1>4. c.stable
  BY DEF c
<1>5. size \in Nat
  BY <1>0, SizeAssumption DEF Size
<1>6. c.size = Desired
  <2>1. CASE size < most /\ c.size = most /\ c.stable = growing
    BY <1>1, <1>4, <2>1
  <2>2. CASE size >= most /\ size > least /\ c.size = least /\ c.stable = shrinking
    BY <1>2, <1>4, <2>2
  <2>3. CASE /\ ~(size < most) /\ ~(size >= most /\ size > least)
             /\ c.size = size /\ c.stable = (growing /\ shrinking)
    <3>1. growing /\ shrinking
      BY <1>4, <2>3, Zenon
    <3>2. most = Desired /\ least = Desired /\ Desired \in Size
      BY <1>1, <1>2, <3>1
    <3>3. Desired \in Nat
      BY <3>2, SizeAssumption DEF Size
    <3> QED
      BY <1>5, <2>3, <3>2, <3>3
  <2> QED
    BY <1>3, <2>1, <2>2, <2>3
<1> QED
  BY <1>6 DEF c

LEMMA NextFutureIsIdle == IInv /\ FutureIsIdle /\ [Next]_vars => FutureIsIdle'
<1> SUFFICES ASSUME IInv, FutureIsIdle, [Next]_vars PROVE FutureIsIdle'
  OBVIOUS
<1>0. executor \in Nat /\ phase \in [Executor -> Phase] /\ Executor \subseteq Nat
  BY MaxAssumption DEF IInv, TypeOK, Executor
<1>1. ASSUME NEW e \in Executor, Run(e) PROVE FutureIsIdle'
  <2>1. ~(e > executor) /\ executor' = executor /\ \A f \in Executor : f # e => phase'[f] = phase[f]
    BY <1>0, <1>1 DEF Run, Start, Calculate, ResizePool, Ends, Goes, policy, FutureIsIdle
  <2> QED
    BY <2>1 DEF FutureIsIdle
<1>2. CASE NewExecutor
  <2>1. executor' = executor + 1 /\ phase' = phase
    BY <1>2 DEF NewExecutor, run
  <2> QED
    BY <1>0, <2>1 DEF FutureIsIdle
<1>3. CASE UNCHANGED <<executor, run>>
  BY <1>3 DEF run, FutureIsIdle
<1> QED
  BY <1>1, <1>2, <1>3 DEF Next, OnEvent, Controls, Suspend, Resume, WorkChanges, ServiceUp, Emit,
     Tick, vars, policy

LEMMA NextDesireIsPending ==
  IInv /\ FutureIsIdle /\ DesireIsPending /\ [Next]_vars => DesireIsPending'
<1> SUFFICES ASSUME IInv, FutureIsIdle, DesireIsPending, [Next]_vars,
                    wanted', control' = "running", executor' = 1, failures' = 0, ~Stuck'
             PROVE  IsPending'
  BY DEF DesireIsPending
<1>0. /\ PoolOK /\ ListOK /\ ControlOK /\ QueueOK /\ RunOK
      /\ TypeOK /\ RecentSound
  BY Parts DEF IInv
<1>t. /\ phase \in [Executor -> Phase] /\ goal \in [Executor -> Size] /\ 1 \in Executor
      /\ executor \in Nat /\ Executor \subseteq Nat /\ failures \in Nat
      /\ wanted => recent # <<>>
  BY <1>0, MaxAssumption DEF TypeOK, Executor
<1>p. wanted /\ control = "running" /\ executor = 1 /\ failures = 0 /\ ~Stuck => IsPending
  BY DEF DesireIsPending
<1>s. ASSUME isRunning, ScheduleResize PROVE tasks' # {}
  <2>1. executorQueued'
    BY <1>s DEF ScheduleResize
  <2> QED
    BY <2>1 DEF Stuck
<1>r. control = "running" => isRunning
  BY DEF isRunning
<1>1. CASE OnEvent
  <2>1. PICK n \in Notice : notice = <<n>>
    BY <1>0, <1>1 DEF OnEvent, ControlOK, Controlled
  <2>2. /\ Handle(n)
        /\ UNCHANGED <<size, control, executor, phase, goal, failures>>
    BY <1>1, <2>1 DEF OnEvent, pool, policy, run
  <2>3. CASE Ignore
    <3>1. UNCHANGED <<recent, wanted, executorQueued, tasks>>
      BY <2>3 DEF Ignore
    <3> QED
      BY <1>p, <2>2, <3>1 DEF IsPending, Desired, Stuck
  <2>4. ASSUME NEW v \in Size, Resize(v) PROVE IsPending'
    BY <1>r, <1>s, <2>2, <2>4 DEF Resize, IsPending
  <2>5. ASSUME NEW v \in Size, AbortResize(v) PROVE FALSE
    BY <2>5 DEF AbortResize
  <2> QED
    BY <1>0, <2>2, <2>3, <2>4, <2>5, HandleIs
<1>2. CASE Suspend \/ Resume
  BY <1>2 DEF Suspend, Resume
<1>3. CASE NewExecutor
  <2>1. executor >= 1
    BY <1>0 DEF TypeOK, Executor
  <2> QED
    BY <1>3, <1>t, <2>1 DEF NewExecutor
<1>4. CASE WorkChanges \/ ServiceUp \/ Emit \/ UNCHANGED vars
  <2>1. UNCHANGED <<size, policy, run, recent, executorQueued, tasks, wanted, failures>>
    BY <1>4 DEF WorkChanges, ServiceUp, Emit, vars, pool
  <2> QED
    BY <1>p, <2>1 DEF policy, run, IsPending, Desired, Stuck
<1>5. CASE Tick
  <2>1. UNCHANGED <<size, control, executor, phase, goal, executorQueued, tasks, wanted, failures>>
    BY <1>5 DEF Tick, pool, policy, run
  <2>2. Desired' = Desired
    BY <1>0, <1>5, <1>t, <2>1, LastAged DEF Desired
  <2> QED
    BY <1>p, <2>1, <2>2 DEF IsPending, Stuck
<1>6. ASSUME NEW e \in Executor, Start(e) PROVE IsPending'
  <2>1. e = 1 /\ phase'[1] = "calculating"
    BY <1>6, <1>t DEF Start, Goes, policy
  <2> QED
    BY <2>1 DEF IsPending
<1>7. ASSUME NEW e \in Executor, Calculate(e) PROVE IsPending'
  <2> DEFINE c == CalculatedDesiredPoolSize(size)
  <2>1. /\ UNCHANGED <<size, control, executor, recent, wanted, failures>>
        /\ phase[e] = "calculating"
    BY <1>7 DEF Calculate, pool, policy
  <2>2. e = 1
    <3>1. ~(e > 1)
      BY <2>1 DEF FutureIsIdle
    <3> QED
      BY <3>1 DEF Executor
  <2>3. CASE c.stable
    <3>1. c.size = Desired
      BY <1>0, <1>t, <2>1, <2>3, StableIsDesired
    <3>2. c.size # size => Goes(1, "resizing", c.size)
      BY <1>7, <2>2, <2>3 DEF Calculate
    <3>3. c.size = size => Ends(1)
      BY <1>7, <2>2 DEF Calculate
    <3> HIDE DEF c
    <3>4. CASE c.size = size
      BY <1>t, <2>1, <3>1, <3>3, <3>4 DEF Ends, Goes, IsPending, Desired
    <3>5. CASE c.size # size
      <4>1. phase'[1] = "resizing" /\ goal'[1] = c.size
        BY <1>t, <3>2, <3>5 DEF Goes
      <4> QED
        BY <2>1, <3>1, <4>1 DEF IsPending, Desired
    <3> QED
      BY <3>4, <3>5
  <2>4. CASE ~c.stable
    <3>1. ScheduleResize
      BY <1>7, <2>4 DEF Calculate
    <3> QED
      BY <1>r, <1>s, <2>1, <3>1 DEF IsPending
  <2> QED
    BY <2>3, <2>4
<1>8. ASSUME NEW e \in Executor, ResizePool(e) PROVE IsPending'
  <2>1. /\ UNCHANGED <<control, executor, recent, executorQueued, tasks, wanted>>
        /\ phase[e] = "resizing" /\ Ends(e)
    BY <1>8 DEF ResizePool, policy
  <2>2. size' = goal[e] /\ failures' = failures
    BY <1>8, <1>t DEF ResizePool
  <2>3. e = 1
    <3>1. ~(e > 1)
      BY <2>1 DEF FutureIsIdle
    <3> QED
      BY <3>1 DEF Executor
  <2>4. tasks # {} \/ goal[1] = Desired
    BY <1>p, <2>1, <2>2, <2>3 DEF IsPending, Stuck
  <2>5. phase'[1] = "idle"
    BY <1>t, <2>1, <2>3 DEF Ends, Goes
  <2> QED
    BY <2>1, <2>2, <2>3, <2>4, <2>5 DEF IsPending, Desired
<1> QED
  BY <1>1, <1>2, <1>3, <1>4, <1>5, <1>6, <1>7, <1>8 DEF Next, Controls, Run

(* "ensure we check again later (due to time-window) even if no additional  *)
(* events have been received": as long as the size is not the one asked for *)
(* last there is a run on its way to it, but for what LastDesireIsServed    *)
(* excepts.  A calculation only ends without another run if the window has  *)
(* no other value.                                                          *)
THEOREM NoDesireIsForgotten == Spec => []DesireIsPending
<1>1. Init => FutureIsIdle /\ DesireIsPending
  BY DEF Init, FutureIsIdle, DesireIsPending
<1>2. IInv /\ FutureIsIdle /\ DesireIsPending /\ [Next]_vars
      => FutureIsIdle' /\ DesireIsPending'
  BY NextFutureIsIdle, NextDesireIsPending
<1> QED
  BY <1>1, <1>2, Invariance, PTL DEF Spec


--------------------------------------------------------------------------------
(* The web console, for any set of tabs and any number of selections.  With *)
(* the ranges ShownTabListens is inductive as it stands; the requests of the *)
(* button need where the list of effectors is and what row is selected.     *)

(* The list is of the selected entity, awaited, or has met with a lapse. *)
ListFollows ==
  /\ row # None => row = content[Effectors]
  /\ selected # None =>
       \/ content[Effectors] = selected \/ <<Effectors, selected>> \in calls
       \/ lapse # "none"

ConsoleIInv == ConsoleTypeOK /\ ShownTabListens /\ ListFollows /\ InvokesOnSelected

LEMMA ConsoleInitIInv == ConsoleInit => ConsoleIInv
<1> SUFFICES ASSUME ConsoleInit PROVE ConsoleIInv
  OBVIOUS
<1> USE TabAssumption, SelectionsAssumption
<1>1. ConsoleTypeOK
  BY DEF ConsoleInit, ConsoleTypeOK, Pane, None, Entities, Lapse
<1>2. ShownTabListens
  BY DEF ConsoleInit, ShownTabListens
<1>3. ListFollows /\ InvokesOnSelected
  BY DEF ConsoleInit, ListFollows, InvokesOnSelected
<1> QED
  BY <1>1, <1>2, <1>3 DEF ConsoleIInv

(* What is asked for is asked for by panes, about an entity of the tree. *)
LEMMA UpdateType ==
  ASSUME NEW S, S \subseteq Pane, NEW e \in 0..MaxSelections, Update(S, e), NEW k \in Nat, e <= k,
         calls \subseteq Pane \X (1..k)
  PROVE  calls' \subseteq Pane \X (1..k)
<1>1. CASE e = None
  BY <1>1 DEF Update
<1>2. CASE e # None
  <2>1. e \in 1..k
    BY <1>2, SelectionsAssumption DEF None
  <2> QED
    BY <1>2, <2>1 DEF Update
<1> QED
  BY <1>1, <1>2

(* The ranges, action by action *)
LEMMA ConsoleNextType == ConsoleTypeOK /\ [ConsoleNext]_consoleVars => ConsoleTypeOK'
<1> SUFFICES ASSUME ConsoleTypeOK, [ConsoleNext]_consoleVars PROVE ConsoleTypeOK'
  OBVIOUS
<1> USE TabAssumption, SelectionsAssumption
<1>s. selected \in 0..MaxSelections /\ selected \in Nat
  BY DEF ConsoleTypeOK, Entities, None
<1>t. /\ listening \subseteq Pane /\ \A p \in Tabs : {p} \subseteq Pane
      /\ calls \subseteq Pane \X (1..selected) /\ selected <= selected
  BY <1>s DEF ConsoleTypeOK, Pane
<1>1. CASE EntitySelected
  <2>1. selected' \in 1..MaxSelections /\ selected <= selected'
    BY <1>1, <1>s DEF EntitySelected
  <2>2. calls \subseteq Pane \X (1..selected')
    BY <2>1, <1>s DEF ConsoleTypeOK
  <2>3. calls' \subseteq Pane \X (1..selected')
    BY <1>1, <2>1, <2>2, UpdateType DEF EntitySelected
  <2>4. content' \in [Pane -> 0..selected'] /\ row' \in 0..selected'
    <3>1. 0..selected \subseteq 0..selected'
      BY <2>1, <1>s
    <3> QED
      BY <1>1, <3>1 DEF EntitySelected, ConsoleTypeOK
  <2>5. invoked' \subseteq [entity : 1..selected', list : 1..selected', unless : Lapse \cup {"awaited"}]
    <3>1. 1..selected \subseteq 1..selected'
      BY <2>1, <1>s
    <3> QED
      BY <1>1, <3>1 DEF EntitySelected, ConsoleTypeOK
  <2> QED
    BY <1>1, <2>1, <2>3, <2>4, <2>5 DEF EntitySelected, ConsoleTypeOK, Entities, None, Lapse
<1>2. ASSUME NEW p \in Pane, TabSelected(p) PROVE ConsoleTypeOK'
  <2>1. calls' \subseteq Pane \X (1..selected)
    BY <1>2, <1>s, UpdateType DEF TabSelected, ConsoleTypeOK, Pane
  <2> QED
    BY <1>2, <2>1 DEF TabSelected, ConsoleTypeOK
<1>3. ASSUME NEW p \in Pane, PauseUpdate(p) PROVE ConsoleTypeOK'
  BY <1>3 DEF PauseUpdate, ConsoleTypeOK
<1>4. CASE UpdateParameters
  BY <1>4 DEF UpdateParameters, ConsoleTypeOK, Pane
<1>5. ASSUME NEW p \in Pane, NEW e \in Entities, Error(p, e) PROVE ConsoleTypeOK'
  BY <1>5 DEF Error, ConsoleTypeOK, Lapse
<1>i. CASE InvokeEffector
  <2>1. row \in 1..selected /\ selected \in 1..selected
    BY <1>i, <1>s DEF InvokeEffector, ConsoleTypeOK, None
  <2>2. invoked' \subseteq [entity : 1..selected, list : 1..selected, unless : Lapse \cup {"awaited"}]
    BY <1>i, <2>1 DEF InvokeEffector, ConsoleTypeOK
  <2> QED
    BY <1>i, <2>2 DEF InvokeEffector, ConsoleTypeOK
<1>6. CASE TriggerUpdateEvent
  <2>1. calls' \subseteq Pane \X (1..selected)
    <3>1. Update(listening, selected) /\ selected' = selected
      BY <1>6 DEF TriggerUpdateEvent
    <3> QED
      BY <3>1, <1>s, <1>t, UpdateType
  <2> QED
    BY <1>6, <2>1 DEF TriggerUpdateEvent, ConsoleTypeOK
<1>7. ASSUME NEW p \in Tabs, NEW last \in BOOLEAN, RebindUpdate(p, last) PROVE ConsoleTypeOK'
  <2>1. calls' \subseteq Pane \X (1..selected)
    <3>1. Update({p}, selected) /\ selected' = selected
      BY <1>7 DEF RebindUpdate
    <3> QED
      BY <3>1, <1>s, <1>t, UpdateType
  <2> QED
    BY <1>7, <2>1 DEF RebindUpdate, ConsoleTypeOK
<1>8. ASSUME NEW p \in Pane, NEW e \in Entities, NEW last \in BOOLEAN, Answer(p, e, last)
      PROVE  ConsoleTypeOK'
  <2>1. e \in 0..selected
    BY <1>8, <1>s DEF Answer, Answered, ConsoleTypeOK, Entities
  <2>2. row' \in 0..selected
    BY <1>8, <1>s DEF Answer, ConsoleTypeOK, None
  <2>3. content' \in [Pane -> 0..selected]
    BY <1>8, <2>1 DEF Answer, Answered, ConsoleTypeOK
  <2>4. calls' \subseteq Pane \X (1..selected)
    BY <1>8 DEF Answer, Answered, ConsoleTypeOK
  <2> QED
    BY <1>8, <2>2, <2>3, <2>4 DEF Answer, Answered, ConsoleTypeOK, Lapse
<1>9. CASE UNCHANGED consoleVars
  BY <1>9 DEF consoleVars, ConsoleTypeOK
<1> QED
  BY <1>1, <1>2, <1>3, <1>4, <1>5, <1>6, <1>7, <1>8, <1>9, <1>i DEF ConsoleNext, User, Fails

LEMMA ConsoleNextIInv == ConsoleIInv /\ [ConsoleNext]_consoleVars => ConsoleIInv'
<1> SUFFICES ASSUME ConsoleIInv, [ConsoleNext]_consoleVars PROVE ConsoleIInv'
  OBVIOUS
<1>1. ConsoleTypeOK'
  BY ConsoleNextType DEF ConsoleIInv
<1>2. ShownTabListens'
  BY DEF ConsoleIInv, ShownTabListens, ConsoleNext, User, Fails, consoleVars, EntitySelected, TabSelected, PauseUpdate,
     UpdateParameters, InvokeEffector, Error, TriggerUpdateEvent, RebindUpdate, Answer, Answered
<1>3. ListFollows'
  <2>0. /\ selected \in Nat /\ content \in [Pane -> 0..selected] /\ Effectors \in Pane
        /\ calls \subseteq Pane \X (1..selected) /\ Effectors \notin Tabs
    BY TabAssumption, SelectionsAssumption DEF ConsoleIInv, ConsoleTypeOK, Pane, Entities, None
  <2>1. CASE EntitySelected
    <3>1. selected' = selected + 1 /\ calls' = calls \cup (Pane \X {selected'})
      BY <2>0, <2>1 DEF EntitySelected, Update, None
    <3> QED
      BY <2>0, <2>1, <3>1 DEF EntitySelected, ConsoleIInv, ListFollows
  <2>2. ASSUME NEW p \in Pane, NEW e \in Entities, NEW last \in BOOLEAN, Answer(p, e, last)
        PROVE  ListFollows'
    <3>1. e \in 1..selected /\ \A q \in Pane : content'[q] = IF q = p THEN e ELSE content[q]
      BY <2>0, <2>2 DEF Answer, Answered
    <3>2. \A c \in calls : c # <<p, e>> => c \in calls'
      BY <2>2 DEF Answer, Answered
    <3>3. CASE p # Effectors
      BY <2>0, <2>2, <3>1, <3>2, <3>3 DEF Answer, Answered, ConsoleIInv, ListFollows
    <3>4. CASE p = Effectors /\ e = selected
      BY <2>0, <2>2, <3>1, <3>4 DEF Answer, Answered, ListFollows
    <3>5. CASE p = Effectors /\ e # selected
      <4>1. row' = None /\ selected' = selected /\ (content[Effectors] = selected => lapse' # "none")
            /\ (lapse # "none" => lapse' # "none")
        BY <2>0, <2>2, <3>1, <3>5 DEF Answer, Answered
      <4> QED
        BY <2>0, <3>2, <3>5, <4>1 DEF ConsoleIInv, ListFollows
    <3> QED
      BY <3>3, <3>4, <3>5
  <2>3. ASSUME NEW p \in Pane, NEW e \in Entities, Error(p, e) PROVE ListFollows'
    BY <2>0, <2>3 DEF Error, ConsoleIInv, ListFollows
  <2>4. CASE UpdateParameters
    BY <2>4 DEF UpdateParameters, ConsoleIInv, ListFollows
  <2>5. CASE UNCHANGED <<row, content, selected, lapse>> /\ calls \subseteq calls'
    BY <2>5 DEF ConsoleIInv, ListFollows
  <2> QED
    BY <2>1, <2>2, <2>3, <2>4, <2>5 DEF ConsoleNext, User, Fails, consoleVars, TabSelected,
       PauseUpdate, InvokeEffector, TriggerUpdateEvent, RebindUpdate, Update
<1>4. InvokesOnSelected'
  <2>1. CASE InvokeEffector
    <3>1. \A q \in invoked' \ invoked :
            /\ q.entity = selected /\ q.list = row
            /\ q.unless = IF <<Effectors, selected>> \in calls THEN "awaited" ELSE lapse
      BY <2>1 DEF InvokeEffector
    <3>2. row # None /\ selected # None
      BY <2>1 DEF InvokeEffector, ConsoleIInv, ConsoleTypeOK, None
    <3> QED
      BY <3>1, <3>2 DEF ConsoleIInv, ListFollows, InvokesOnSelected
  <2>2. CASE UNCHANGED invoked
    BY <2>2 DEF ConsoleIInv, InvokesOnSelected
  <2> QED
    BY <2>1, <2>2 DEF ConsoleNext, User, Fails, consoleVars, EntitySelected, TabSelected, PauseUpdate,
       UpdateParameters, Error, TriggerUpdateEvent, RebindUpdate, Answer
<1> QED
  BY <1>1, <1>2, <1>3, <1>4 DEF ConsoleIInv

LEMMA ConsoleInvariance == ConsoleSpec => []ConsoleIInv
BY ConsoleInitIInv, ConsoleNextIInv, PTL DEF ConsoleSpec

(* The ranges: what is asked for, shown or invoked is of an entity that the *)
(* user has selected, and tabs are only left once there is one.             *)
THEOREM ConsoleTypeCorrect == ConsoleSpec => []ConsoleTypeOK
<1>1. ConsoleIInv => ConsoleTypeOK
  BY DEF ConsoleIInv
<1> QED
  BY <1>1, ConsoleInvariance, PTL

(* The tab that is shown polls, or is paused and will poll again.           *)
THEOREM TabListens == ConsoleSpec => []ShownTabListens
<1>1. ConsoleIInv => ShownTabListens
  BY DEF ConsoleIInv
<1> QED
  BY <1>1, ConsoleInvariance, PTL

(* The button sends the selected entity an effector of its own list, unless *)
(* that list is awaited, has failed, or an older one came after a newer:    *)
(* for any number of selections, answers and requests, in any order.        *)
THEOREM Invokes == ConsoleSpec => []InvokesOnSelected
<1>1. ConsoleIInv => InvokesOnSelected
  BY DEF ConsoleIInv
<1> QED
  BY <1>1, ConsoleInvariance, PTL

================================================================================
