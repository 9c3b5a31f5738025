--------------------------- MODULE ObjectLifecycle ---------------------------
(***************************************************************************)
(* What brooklyn.util.pool.Pool promises of the objects that it lends: an  *)
(* object is made, used by one client at a time, idle in between, and      *)
(* closed for ever.  Closing the pool closes whatever is idle, unless the  *)
(* function that closes an object fails; then nothing idle is used again.  *)
(* Of an object whose lease was closed twice nothing is promised ("void"). *)
(***************************************************************************)
CONSTANT Object

VARIABLES
  status,   \* of each object: see Status
  shut,     \* the pool is closed
  failed    \* closing an object failed

vars == <<status, shut, failed>>

Status == {"absent", "idle", "used", "closed", "void"}

Init == /\ status = [o \in Object |-> "absent"]
        /\ shut = FALSE /\ failed = FALSE

Becomes(o, s) == status' = [status EXCEPT ![o] = s] /\ UNCHANGED shut

Make(o) == status[o] = "absent" /\ Becomes(o, "used") /\ UNCHANGED failed
Take(o) == status[o] = "idle" /\ ~shut /\ Becomes(o, "used") /\ UNCHANGED failed
PutBack(o) == status[o] = "used" /\ ~shut /\ Becomes(o, "idle") /\ UNCHANGED failed
Discard(o) == status[o] = "used" /\ Becomes(o, "closed") /\ failed' \in {failed, TRUE}
Misuse(o) == Becomes(o, "void") /\ failed' \in {failed, TRUE}

Shut == /\ shut' = TRUE
        /\ \E S \in SUBSET {o \in Object : status[o] = "idle"} :
             /\ status' = [o \in Object |-> IF o \in S THEN "closed" ELSE status[o]]
             /\ \/ UNCHANGED failed /\ S = {o \in Object : status[o] = "idle"}
                \/ failed' = TRUE

Next == \/ \E o \in Object : Make(o) \/ Take(o) \/ PutBack(o) \/ Discard(o) \/ Misuse(o)
        \/ Shut

Spec == Init /\ [][Next]_vars

===============================================================================
