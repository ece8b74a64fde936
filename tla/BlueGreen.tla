------------------------------ MODULE BlueGreen ------------------------------
(***************************************************************************)
(* What a blue/green deployment promises, without the requests, retries    *)
(* and failures it takes: whatever is prepared, is prepared in the slot    *)
(* that is not active; a version becomes active only when its slot holds   *)
(* it completely; the active slot is only taken away by a removal, and an  *)
(* application is forgotten only when both of its slots are empty.         *)
(***************************************************************************)
CONSTANTS Ids, Versions, None

Colors == {"blue", "green"}

VARIABLES
    slots,     \* id -> color -> the version complete in it, or None
    active,    \* id -> the color and version in service, or None
    removing   \* ids a removal is under way for

deployment == <<slots, active, removing>>

Deployed == [color : Colors, ver : Versions]

Init ==
    /\ slots = [id \in Ids |-> [color \in Colors |-> None]]
    /\ active = [id \in Ids |-> None]
    /\ removing = {}

Spare(id, color) == IF active[id] = None THEN TRUE ELSE active[id].color # color

Prepare(id, color) ==
    /\ Spare(id, color)
    /\ \E content \in Versions \cup {None} :
          slots' = [slots EXCEPT ![id][color] = content]
    /\ UNCHANGED <<active, removing>>

Switch(id) ==
    /\ \E d \in Deployed :
          /\ Spare(id, d.color) /\ slots[id][d.color] = d.ver
          /\ active' = [active EXCEPT ![id] = d]
    /\ UNCHANGED <<slots, removing>>

BeginRemoval(id) ==
    /\ active[id] # None /\ id \notin removing
    /\ removing' = removing \cup {id}
    /\ UNCHANGED <<slots, active>>

(* A removal that fails may have taken the active version away.            *)
Dismantle(id) ==
    /\ id \in removing
    /\ \E colors \in SUBSET Colors :
          slots' = [slots EXCEPT ![id] =
                      [color \in Colors |-> IF color \in colors THEN None ELSE @[color]]]
    /\ removing' \in {removing, removing \ {id}}
    /\ UNCHANGED active

Forget(id) ==
    /\ id \in removing
    /\ \A color \in Colors : slots[id][color] = None
    /\ active' = [active EXCEPT ![id] = None]
    /\ removing' = removing \ {id}
    /\ UNCHANGED slots

Next ==
    \E id \in Ids :
        \/ \E color \in Colors : Prepare(id, color)
        \/ Switch(id) \/ BeginRemoval(id) \/ Dismantle(id) \/ Forget(id)

Spec == Init /\ [][Next]_deployment
=============================================================================
