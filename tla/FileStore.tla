------------------------------- MODULE FileStore -------------------------------
(***************************************************************************)
(* What the writers of mementos promise of their files, one for each item  *)
(* that is persisted.  A memento is recorded, taken, and then stored or    *)
(* lost with the task that took it; no item has two in hand.  So a file    *)
(* holds, whole, what was recorded of its item once (or a null, when a     *)
(* task found nothing recorded), and goes back to an older one only when   *)
(* that is recorded again.  It is removed only after somebody asked, which *)
(* is not forgotten, and not while a memento is in hand.  The end of the   *)
(* process leaves the files and nothing else.                              *)
(***************************************************************************)
CONSTANTS
  Item,
  Content,  \* mementos
  Nothing,  \* a null reference
  Absent,   \* no file
  Free      \* no memento in hand

VARIABLES
  recorded,  \* of each item: the memento to be stored next
  hand,      \* the one that a task is storing
  asked,     \* its file is to be removed, or was
  file       \* its file

vars == <<recorded, hand, asked, file>>

Every(value) == [i \in Item |-> value]

Init == recorded = Every(Nothing) /\ hand = Every(Free) /\ asked = Every(FALSE) /\ file = Every(Absent)

Record(i) == /\ recorded'[i] \in Content
             /\ recorded' = [recorded EXCEPT ![i] = recorded'[i]]
             /\ UNCHANGED <<hand, asked, file>>

Take(i) == /\ hand[i] = Free
           /\ hand' = [hand EXCEPT ![i] = recorded[i]]
           /\ recorded' = [recorded EXCEPT ![i] = Nothing]
           /\ UNCHANGED <<asked, file>>

LetGo(i) == hand[i] # Free /\ hand' = [hand EXCEPT ![i] = Free] /\ UNCHANGED <<recorded, asked>>
Store(i) == LetGo(i) /\ file' = [file EXCEPT ![i] = hand[i]]
Lose(i) == LetGo(i) /\ UNCHANGED file

Ask(i) == asked' = [asked EXCEPT ![i] = TRUE] /\ UNCHANGED <<recorded, hand, file>>

Remove(i) == /\ asked[i] /\ hand[i] = Free
             /\ file' = [file EXCEPT ![i] = Absent]
             /\ UNCHANGED <<recorded, hand, asked>>

Crash == /\ recorded' = Every(Nothing) /\ hand' = Every(Free) /\ asked' = Every(FALSE)
         /\ UNCHANGED file

Next == \/ \E i \in Item : Record(i) \/ Take(i) \/ Store(i) \/ Lose(i) \/ Ask(i) \/ Remove(i)
        \/ Crash

Spec == Init /\ [][Next]_vars

================================================================================
