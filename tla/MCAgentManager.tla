--------------------------- MODULE MCAgentManager ---------------------------
(***************************************************************************)
(* Instances of AgentManager for TLC.  Slots suffice for one process per   *)
(* id and one per task, so that a spawn never waits for a slot.            *)
(***************************************************************************)
EXTENDS AgentManager, FiniteSets, TLC

ASSUME SlotsSuffice == Cardinality(Procs) >= Cardinality(Ids) + Cardinality(Tasks)

Symmetry == Permutations(Procs) \cup Permutations(Callers)

(* A runtime whose agents are installed and running, and which nobody asks *)
(* for anything: each agent with a process of its own that has not         *)
(* answered a probe yet.                                                   *)
Deployed ==
    \E slot \in [Ids -> Procs], c \in Configs :
        /\ \A i, j \in Ids : slot[i] = slot[j] => i = j
        /\ agents = [id \in Ids |-> Started(NewHandle(c), slot[id])]
        /\ procs = [p \in Procs |->
              IF \E id \in Ids : slot[id] = p
              THEN [state |-> "alive", id |-> CHOOSE id \in Ids : slot[id] = p,
                    cfg |-> c, ready |-> FALSE]
              ELSE None]
        /\ call = [t \in Tasks |-> Returned("ok")]
        /\ mon = [pc |-> "idle", ids |-> {}, todo |-> {}, id |-> None,
                  good |-> FALSE]

DeployedSpec == Deployed /\ [][Next]_vars
DeployedFairSpec == DeployedSpec /\ Fairness
=============================================================================
