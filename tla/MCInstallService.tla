-------------------------- MODULE MCInstallService --------------------------
(***************************************************************************)
(* Instances of InstallService for TLC: the second version asks for a port *)
(* of its own, the first for any.                                          *)
(***************************************************************************)
EXTENDS InstallService, TLC

MCVersions == {1, 2}
MCPortOf == <<0, 80>>
MCConfigs == [ver : MCVersions, color : {"blue", "green"}, port : {0, 80, 9000}]

(* A runtime with the first version installed in blue and running, and     *)
(* nobody asking for anything yet.                                         *)
Deployed ==
    \E slot \in [Ids -> Procs] :
        LET cfg == [ver |-> 1, color |-> "blue", port |-> 9000]
        IN  /\ \A i, j \in Ids : slot[i] = slot[j] => i = j
            /\ agents = [id \in Ids |-> Started(NewHandle(cfg), slot[id])]
            /\ procs = [p \in Procs |->
                  IF \E id \in Ids : slot[id] = p
                  THEN [state |-> "alive", id |-> CHOOSE id \in Ids : slot[id] = p,
                        cfg |-> cfg, ready |-> TRUE]
                  ELSE None]
            /\ call = [t \in Tasks |-> Returned("ok")]
            /\ mon = [pc |-> "idle", ids |-> {}, todo |-> {}, id |-> None,
                      good |-> FALSE]
            /\ installed = [id \in Ids |-> [cfg EXCEPT !.port = 0]]
            /\ dirs = [id \in Ids |-> [color \in Colors |->
                          IF color = "blue" THEN 1 ELSE None]]
            /\ progress = [id \in Ids |-> "done"]
            /\ flow = [t \in Callers |-> NoFlow]

DeployedSpec == Deployed /\ [][InstallNext]_allvars

(* The same with requests that come one after the other: only the thread   *)
(* of one that was dropped may still be at work when the next one comes.   *)
OneByOne ==
    \A t, u \in Callers :
        /\ flow[t].op # "none" /\ flow[t].pc \notin Orphaned
        /\ flow[u].id # None \/ call[u].pc # "idle"
        => t = u \/ flow[u].pc \in Orphaned

DeployedOneByOneSpec == Deployed /\ [][InstallNext /\ OneByOne']_allvars

Symmetry == Permutations(Procs)
=============================================================================
