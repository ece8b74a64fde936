--------------------------- MODULE ChildOwnership ---------------------------
(***************************************************************************)
(* What the agent supervisor promises about the processes it starts: each  *)
(* has one owner at a time, either the table, under the id the process was *)
(* started for and no other, or one call in progress; it is passed on from *)
(* owner to owner, and it is gone exactly when its owner drops it.         *)
(***************************************************************************)
CONSTANTS Ids, Tasks, Procs, None

VARIABLES
    kept,     \* id -> the slot of the process the table keeps under it
    carried,  \* task -> the slot of the process a call of it carries
    born      \* slot -> the id its process was started for, None when free

vars == <<kept, carried, born>>

Init == /\ kept = [id \in Ids |-> None]
        /\ carried = [t \in Tasks |-> None]
        /\ born = [p \in Procs |-> None]

Freed(b, p) == [q \in Procs |-> IF q = p THEN None ELSE b[q]]

Spawn(t, id, p) ==
    /\ carried[t] = None /\ born[p] = None
    /\ carried' = [carried EXCEPT ![t] = p]
    /\ born' = [born EXCEPT ![p] = id]
    /\ UNCHANGED kept

(* The table gets the process of a call, under the id it was started for;  *)
(* the process it kept there until now is dropped.                         *)
Keep(t) ==
    LET p == carried[t]
    IN  /\ p # None
        /\ kept' = [kept EXCEPT ![born[p]] = p]
        /\ carried' = [carried EXCEPT ![t] = None]
        /\ born' = Freed(born, kept[born[p]])

Take(t, id) ==
    /\ carried[t] = None /\ kept[id] # None
    /\ carried' = [carried EXCEPT ![t] = kept[id]]
    /\ kept' = [kept EXCEPT ![id] = None]
    /\ UNCHANGED born

DropKept(id) ==
    /\ kept[id] # None
    /\ kept' = [kept EXCEPT ![id] = None]
    /\ born' = Freed(born, kept[id])
    /\ UNCHANGED carried

DropCarried(t) ==
    /\ carried[t] # None
    /\ carried' = [carried EXCEPT ![t] = None]
    /\ born' = Freed(born, carried[t])
    /\ UNCHANGED kept

Next == \/ \E t \in Tasks : Keep(t) \/ DropCarried(t)
        \/ \E t \in Tasks, id \in Ids : Take(t, id) \/ \E p \in Procs : Spawn(t, id, p)
        \/ \E id \in Ids : DropKept(id)

Spec == Init /\ [][Next]_vars
=============================================================================
