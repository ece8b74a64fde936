--------------------------- MODULE InstallService ---------------------------
(***************************************************************************)
(* The installer of src/install/mod.rs on top of the agent supervisor: the *)
(* blue and green directories, the record of installed applications, and   *)
(* the install, upgrade and uninstall requests, each a long sequence of    *)
(* awaits on the disk, the network and the AgentManager.                   *)
(*                                                                         *)
(* A request that runs such a flow is the same task as the calls it makes: *)
(* flow[t] is where it is in the installer, call[t] where it is in the     *)
(* start or stop it awaits.  While call[t] is not idle the flow waits.     *)
(* Registration is the installer's alone: the agent API starts, stops and  *)
(* restarts what it registered.                                            *)
(***************************************************************************)
EXTENDS AgentManager

CONSTANTS
    Versions,   \* versions the store may offer
    PortOf,     \* version -> port its manifest asks for; 0 asks for any
    IOMayFail   \* downloads, unpacking and directory operations may fail

Colors == {"blue", "green"}
Other(color) == IF color = "blue" THEN "green" ELSE "blue"

AutoPort == 9000   \* what allocate_port finds for a manifest with port 0
Ports == {PortOf[v] : v \in Versions} \cup {AutoPort}

(* What the installer decides of an AgentConfig.                           *)
PackageConfig == [ver : Versions, color : Colors, port : Ports]

ASSUME InstallAssumption ==
    /\ PackageConfig \subseteq Configs
    /\ None \notin Versions
    /\ None \notin PackageConfig /\ None \notin [color : Colors, ver : Versions]
    /\ IOMayFail \in BOOLEAN

VARIABLES
    installed,   \* id -> record of the installed application, or None
    dirs,        \* id -> color -> the version that is complete in it, or None
    progress,    \* id -> phase of InstallProgress, or None
    flow         \* caller -> its position in install, upgrade or uninstall

ivars == <<installed, dirs, progress, flow>>
allvars == <<agents, procs, call, mon, installed, dirs, progress, flow>>

-----------------------------------------------------------------------------
(* An InstalledApp: active_dir follows from color, port is its manifest's. *)
Record == [ver : Versions, color : Colors, port : Ports]

Phases == {"downloading", "extracting", "starting", "done"}

FlowPCs == {"idle", "mkdir", "clear", "download", "unpack", "stop", "stopped",
            "giveup", "unregister", "register", "start", "started", "health",
            "rollback", "reregister", "record", "restart", "restarted",
            "status", "remove", "forget", "clearing", "unpacking", "removing"}

(* The request is gone, and a thread goes on with its work on the disk.    *)
Orphaned == {"clearing", "unpacking", "removing"}

Flow == [op : {"none", "install", "upgrade", "uninstall"}, pc : FlowPCs,
         id : Ids \cup {None}, cfg : PackageConfig \cup {None},
         old : Record \cup {None}]

(* A flow carries the configuration it installs, an upgrade also the record *)
(* it replaces, and only a flow in progress has a position.                 *)
FlowOK(f) ==
    /\ f.op = "none" => f.pc = "idle"
    /\ f.op # "none" => f.id \in Ids
    /\ f.op \in {"install", "upgrade"} => f.cfg \in PackageConfig
    /\ f.op = "upgrade" <=> f.old \in Record

InstallTypeOK ==
    /\ TypeOK
    /\ installed \in [Ids -> Record \cup {None}]
    /\ dirs \in [Ids -> [Colors -> Versions \cup {None}]]
    /\ progress \in [Ids -> Phases \cup {None}]
    /\ flow \in [Callers -> Flow]
    /\ \A t \in Callers : FlowOK(flow[t])

NoFlow == [op |-> "none", pc |-> "idle", id |-> None, cfg |-> None, old |-> None]

InstallInit ==
    /\ Init
    /\ installed = [id \in Ids |-> None]
    /\ dirs = [id \in Ids |-> [color \in Colors |-> None]]
    /\ progress = [id \in Ids |-> None]
    /\ flow = [t \in Callers |-> NoFlow]

-----------------------------------------------------------------------------
(* The flow of t is at pc of operation op, with no call in progress.       *)
In(t, op, pc) == flow[t].op = op /\ flow[t].pc = pc /\ At(t, "idle")

Goto(t, pc) == flow' = [flow EXCEPT ![t].pc = pc]
End(t) == flow' = [flow EXCEPT ![t] = NoFlow]

ShowProgress(id, phase) == progress' = [progress EXCEPT ![id] = phase]

Fill(id, colors, content) ==
    dirs' = [dirs EXCEPT ![id] =
                [color \in Colors |-> IF color \in colors THEN content ELSE @[color]]]

(* A step on the disk that stops half way leaves a directory as it was or  *)
(* without a complete version.                                             *)
FillPartly(id, colors) ==
    \E cs \in SUBSET colors : Fill(id, cs, None)

Succeeded(t) == call[t].res = "ok"

Mutant_DoRegister(t, cfg) ==
    /\ agents' = [agents EXCEPT ![flow[t].id] = NewHandle(cfg)]
    /\ UNCHANGED <<procs, call, mon>>

DoRegister(t, cfg) == Register(t, flow[t].id, cfg)

DoUnregister(t) ==
    \/ Unregister(t, flow[t].id)
    \/ agents[flow[t].id] = None /\ UNCHANGED vars

(* Steps that only call the AgentManager, from one position to the next.   *)
Registers(t, op, from, cfg, to) ==
    /\ In(t, op, from) /\ DoRegister(t, cfg) /\ Goto(t, to)
    /\ UNCHANGED <<installed, dirs, progress>>

Unregisters(t, op, from, to) ==
    /\ In(t, op, from) /\ DoUnregister(t) /\ Goto(t, to)
    /\ UNCHANGED <<installed, dirs, progress>>

Starts(t, op, from, to) ==
    /\ In(t, op, from) /\ Goto(t, to)
    /\ StartSection(t, flow[t].id)
    /\ UNCHANGED <<procs, mon, installed, dirs, progress>>

Stops(t, op, from, to) ==
    /\ In(t, op, from) /\ Goto(t, to)
    /\ StopSection(t, flow[t].id, FALSE)
    /\ UNCHANGED <<mon, installed, dirs, progress>>

(* Only the flow moves, or ends.                                           *)
Moves(t, op, from, to) ==
    /\ In(t, op, from) /\ Goto(t, to)
    /\ UNCHANGED <<vars, installed, dirs, progress>>

Ends(t, op, from) ==
    /\ In(t, op, from) /\ End(t)
    /\ UNCHANGED <<vars, installed, dirs, progress>>

(* stop(&id).await?: an error of the stop ends the flow.                   *)
Checked(t, op, from, to) ==
    \/ Succeeded(t) /\ Moves(t, op, from, to)
    \/ ~Succeeded(t) /\ Ends(t, op, from)

-----------------------------------------------------------------------------
(* download_and_extract into the directory of the flow's color.  The       *)
(* archive is downloaded into that directory too, and removed from it.     *)

Download(t) ==
    /\ flow[t].pc = "download" /\ At(t, "idle")
    /\ ShowProgress(flow[t].id, "downloading")
    /\ Goto(t, "unpack") \/ (IOMayFail /\ End(t))
    /\ UNCHANGED <<vars, installed, dirs>>

Unpack(t) ==
    LET f == flow[t]
    IN  /\ f.pc = "unpack" /\ At(t, "idle")
        /\ ShowProgress(f.id, "extracting")
        /\ \/ /\ Fill(f.id, {f.cfg.color}, f.cfg.ver)
              /\ Goto(t, IF f.op = "install" THEN "register" ELSE "stop")
           \/ IOMayFail /\ FillPartly(f.id, {f.cfg.color}) /\ End(t)
        /\ UNCHANGED <<vars, installed>>

(* wait_for_health polls the healthy flag until its deadline.              *)
SeesHealthy(id) == IF agents[id] = None THEN FALSE ELSE agents[id].healthy

(* A flow begins with the check of the record, which it clones.            *)
Begin(t, f) ==
    /\ In(t, "none", "idle")
    /\ flow' = [flow EXCEPT ![t] = f]
    /\ UNCHANGED <<vars, installed, dirs, progress>>

-----------------------------------------------------------------------------
(* install: unpack into blue, trial run, record, start.                    *)

AllocatedPort(ver) == IF PortOf[ver] = 0 THEN AutoPort ELSE PortOf[ver]

InstallBegin(t, id, ver) ==
    /\ installed[id] = None
    /\ Begin(t, [op |-> "install", pc |-> "mkdir", id |-> id, old |-> None,
                 cfg |-> [ver |-> ver, color |-> "blue",
                          port |-> AllocatedPort(ver)]])

(* create_dir_all keeps what an earlier attempt left in a directory.       *)
InstallMkdir(t) ==
    \/ Moves(t, "install", "mkdir", "download")
    \/ IOMayFail /\ Ends(t, "install", "mkdir")

(* allocate_port, which may find the port taken, and the registration.     *)
InstallRegister(t) ==
    /\ In(t, "install", "register")
    /\ ShowProgress(flow[t].id, "starting")
    /\ \/ DoRegister(t, flow[t].cfg) /\ Goto(t, "start")
       \/ IOMayFail /\ End(t) /\ UNCHANGED vars
    /\ UNCHANGED <<installed, dirs>>

InstallStart(t) == Starts(t, "install", "start", "started")

Mutant_InstallStarted(t) ==
    \/ Succeeded(t) /\ Moves(t, "install", "started", "health")
    \/ ~Succeeded(t) /\ Ends(t, "install", "started")

(* The trial could not be started: unregister and fail.                    *)
InstallStarted(t) ==
    \/ Succeeded(t) /\ Moves(t, "install", "started", "health")
    \/ ~Succeeded(t) /\ Moves(t, "install", "started", "rollback")

(* Not healthy in time: stop, whatever it answers, unregister and fail.    *)
InstallHealth(t) ==
    /\ In(t, "install", "health")
    /\ \/ SeesHealthy(flow[t].id) /\ Moves(t, "install", "health", "stop")
       \/ Stops(t, "install", "health", "rollback")

InstallRollback(t) ==
    /\ In(t, "install", "rollback")
    /\ DoUnregister(t)
    /\ End(t)
    /\ UNCHANGED <<installed, dirs, progress>>

(* Healthy: stop the trial, register again for good, record and start.     *)
InstallStop(t) == Stops(t, "install", "stop", "stopped")
InstallStopped(t) == Checked(t, "install", "stopped", "unregister")
InstallUnregister(t) == Unregisters(t, "install", "unregister", "reregister")
InstallReregister(t) ==
    Registers(t, "install", "reregister", flow[t].cfg, "record")

InstallRecord(t) ==
    LET cfg == flow[t].cfg
    IN  /\ In(t, "install", "record")
        /\ installed' = [installed EXCEPT ![flow[t].id] =
              [ver |-> cfg.ver, color |-> cfg.color, port |-> PortOf[cfg.ver]]]
        /\ Goto(t, "restart")
        /\ UNCHANGED <<vars, dirs, progress>>

InstallRestart(t) == Starts(t, "install", "restart", "restarted")

InstallEnd(t) ==
    /\ In(t, "install", "restarted")
    /\ IF Succeeded(t) THEN ShowProgress(flow[t].id, "done") ELSE UNCHANGED progress
    /\ End(t)
    /\ UNCHANGED <<vars, installed, dirs>>

-----------------------------------------------------------------------------
(* upgrade: unpack into the inactive color, switch, roll back if the new   *)
(* version does not start or is not healthy in time.                       *)

Mutant_UpgradeBegin(t, id, ver) ==
    /\ IF installed[id] = None THEN FALSE ELSE installed[id].ver # ver
    /\ Begin(t, [op |-> "upgrade", pc |-> "clear", id |-> id,
                 old |-> installed[id],
                 cfg |-> [ver |-> ver, color |-> installed[id].color,
                          port |-> installed[id].port]])

UpgradeBegin(t, id, ver) ==
    /\ IF installed[id] = None THEN FALSE ELSE installed[id].ver # ver
    /\ Begin(t, [op |-> "upgrade", pc |-> "clear", id |-> id,
                 old |-> installed[id],
                 cfg |-> [ver |-> ver, color |-> Other(installed[id].color),
                          port |-> installed[id].port]])

UpgradeClear(t) ==
    LET f == flow[t]
    IN  /\ In(t, "upgrade", "clear")
        /\ \/ Fill(f.id, {f.cfg.color}, None) /\ Goto(t, "download")
           \/ IOMayFail /\ FillPartly(f.id, {f.cfg.color}) /\ End(t)
        /\ UNCHANGED <<vars, installed, progress>>

UpgradeStop(t) ==
    /\ In(t, "upgrade", "stop")
    /\ ShowProgress(flow[t].id, "starting")
    /\ StopSection(t, flow[t].id, FALSE)
    /\ Goto(t, "stopped")
    /\ UNCHANGED <<mon, installed, dirs>>

UpgradeStopped(t) == Checked(t, "upgrade", "stopped", "unregister")
UpgradeUnregister(t) == Unregisters(t, "upgrade", "unregister", "register")
UpgradeRegister(t) == Registers(t, "upgrade", "register", flow[t].cfg, "start")
UpgradeStart(t) == Starts(t, "upgrade", "start", "started")

UpgradeStarted(t) ==
    Moves(t, "upgrade", "started", IF Succeeded(t) THEN "health" ELSE "rollback")

UpgradeHealth(t) ==
    /\ In(t, "upgrade", "health")
    /\ \/ SeesHealthy(flow[t].id) /\ Moves(t, "upgrade", "health", "record")
       \/ Stops(t, "upgrade", "health", "giveup")

UpgradeGiveUp(t) == Checked(t, "upgrade", "giveup", "rollback")
UpgradeRollback(t) == Unregisters(t, "upgrade", "rollback", "reregister")

Mutant_UpgradeReregister(t) ==
    Registers(t, "upgrade", "reregister", flow[t].cfg, "restart")

(* The recorded version, with the port of its manifest.                    *)
UpgradeReregister(t) ==
    Registers(t, "upgrade", "reregister", flow[t].old, "restart")

UpgradeRestart(t) == Starts(t, "upgrade", "restart", "restarted")
UpgradeRestarted(t) == Ends(t, "upgrade", "restarted")

Mutant_UpgradeRecord(t) ==
    LET f == flow[t]
    IN  /\ In(t, "upgrade", "record")
        /\ installed' = [installed EXCEPT ![f.id] =
              IF @ = None THEN None
              ELSE [ver |-> f.cfg.ver, color |-> @.color, port |-> PortOf[f.cfg.ver]]]
        /\ ShowProgress(f.id, "done")
        /\ End(t)
        /\ UNCHANGED <<vars, dirs>>

UpgradeRecord(t) ==
    LET f == flow[t]
    IN  /\ In(t, "upgrade", "record")
        /\ installed' = [installed EXCEPT ![f.id] =
              IF @ = None THEN None
              ELSE [ver |-> f.cfg.ver, color |-> f.cfg.color, port |-> PortOf[f.cfg.ver]]]
        /\ ShowProgress(f.id, "done")
        /\ End(t)
        /\ UNCHANGED <<vars, dirs>>

-----------------------------------------------------------------------------
(* uninstall: stop, unregister, remove the files, forget the record.  The  *)
(* data directory is not modelled.                                         *)

Mutant_UninstallBegin(t, id) ==
    /\ installed[id] # None
    /\ Begin(t, [NoFlow EXCEPT !.op = "uninstall", !.pc = "remove", !.id = id])

UninstallBegin(t, id) ==
    /\ installed[id] # None
    /\ Begin(t, [NoFlow EXCEPT !.op = "uninstall", !.pc = "status", !.id = id])

UninstallStatus(t) ==
    /\ In(t, "uninstall", "status")
    /\ Moves(t, "uninstall", "status",
             IF IsRunning(flow[t].id) THEN "stop" ELSE "unregister")

UninstallStop(t) == Stops(t, "uninstall", "stop", "stopped")
UninstallStopped(t) == Checked(t, "uninstall", "stopped", "unregister")
UninstallUnregister(t) == Unregisters(t, "uninstall", "unregister", "remove")

UninstallRemove(t) ==
    /\ In(t, "uninstall", "remove")
    /\ \/ Fill(flow[t].id, Colors, None) /\ Goto(t, "forget")
       \/ IOMayFail /\ FillPartly(flow[t].id, Colors) /\ End(t)
    /\ UNCHANGED <<vars, installed, progress>>

UninstallForget(t) ==
    /\ In(t, "uninstall", "forget")
    /\ installed' = [installed EXCEPT ![flow[t].id] = None]
    /\ End(t)
    /\ UNCHANGED <<vars, dirs, progress>>

-----------------------------------------------------------------------------
(* The flow's future is dropped at the await it is suspended in (there is  *)
(* none after the last start), with the call it awaits.  What was handed   *)
(* to a blocking thread, to unpack or to remove a directory, goes on       *)
(* without it; the flow keeps its place until the thread has ended.        *)
DropFlow(t) ==
    LET f == flow[t]
    IN  /\ RequestsMayBeDropped
        /\ f.op # "none" /\ f.pc \notin Orphaned
        /\ \/ DropRequest(t)
           \/ At(t, "idle") /\ f.pc # "restarted" /\ UNCHANGED vars
        /\ CASE f.pc = "clear"  -> Goto(t, "clearing")
             [] f.pc = "unpack" -> Goto(t, "unpacking")
             [] f.pc = "remove" -> Goto(t, "removing")
             [] OTHER           -> End(t)
        /\ UNCHANGED <<installed, dirs, progress>>

(* The thread writes as long as it likes and ends; nobody waits for it, so *)
(* it may meet any other flow of the application in its directory.  It has *)
(* opened its archive before another can take its place.                   *)
OrphanWrites(t) ==
    LET f == flow[t]
        colors == IF f.pc = "removing" THEN Colors ELSE {f.cfg.color}
    IN  /\ f.pc \in Orphaned
        /\ \/ FillPartly(f.id, colors) /\ (End(t) \/ UNCHANGED flow)
           \/ f.pc = "unpacking" /\ Fill(f.id, colors, f.cfg.ver) /\ End(t)
        /\ UNCHANGED <<vars, installed, progress>>

InstallStep(t) ==
    \/ InstallMkdir(t) \/ InstallRegister(t) \/ InstallStart(t)
    \/ InstallStarted(t) \/ InstallHealth(t) \/ InstallRollback(t)
    \/ InstallStop(t) \/ InstallStopped(t) \/ InstallUnregister(t)
    \/ InstallReregister(t) \/ InstallRecord(t) \/ InstallRestart(t)
    \/ InstallEnd(t)

UpgradeStep(t) ==
    \/ UpgradeClear(t) \/ UpgradeStop(t) \/ UpgradeStopped(t)
    \/ UpgradeUnregister(t) \/ UpgradeRegister(t) \/ UpgradeStart(t)
    \/ UpgradeStarted(t) \/ UpgradeHealth(t) \/ UpgradeGiveUp(t)
    \/ UpgradeRollback(t) \/ UpgradeReregister(t) \/ UpgradeRestart(t)
    \/ UpgradeRestarted(t) \/ UpgradeRecord(t)

UninstallStep(t) ==
    \/ UninstallStatus(t) \/ UninstallStop(t) \/ UninstallStopped(t)
    \/ UninstallUnregister(t) \/ UninstallRemove(t) \/ UninstallForget(t)

FlowStep(t) ==
    Download(t) \/ Unpack(t) \/ InstallStep(t) \/ UpgradeStep(t) \/ UninstallStep(t)

FlowBegin(t) ==
    \E id \in Ids :
        \/ UninstallBegin(t, id)
        \/ \E ver \in Versions : InstallBegin(t, id, ver) \/ UpgradeBegin(t, id, ver)

(* A request that is not a flow: start, stop or restart of an agent.  (The *)
(* store's start and stop look for the record first and then do the same.) *)
PlainRequest(t) ==
    flow[t].op = "none" /\ (ApiCall(t) \/ DropRequest(t))

InstallNext ==
    \/ \E t \in Callers : FlowBegin(t) \/ FlowStep(t) \/ DropFlow(t) \/ OrphanWrites(t)
    \/ (\E t \in Tasks : CallStep(t)) /\ UNCHANGED ivars
    \/ (\E t \in Callers : PlainRequest(t)) /\ UNCHANGED ivars
    \/ (MonitorStep \/ ProcessStep) /\ UNCHANGED ivars

InstallSpec == InstallInit /\ [][InstallNext]_allvars

InstallFairness ==
    /\ \A t \in Callers : WF_allvars(FlowStep(t))
    /\ \A t \in Tasks : WF_allvars(CallStep(t) /\ UNCHANGED ivars)
    /\ \A p \in Procs : WF_allvars(KilledExits(p) /\ UNCHANGED ivars)

InstallFairSpec == InstallSpec /\ InstallFairness

-----------------------------------------------------------------------------
(* Safety.                                                                 *)

Busy(id) == \E t \in Callers : flow[t].id = id \/ call[t].id = id

ProcessesOf(id) == {p \in Procs : IF procs[p] = None THEN FALSE ELSE procs[p].id = id}

(* When no request works on an application that is installed, what is      *)
(* registered and what runs is the recorded version from the recorded      *)
(* directory, whatever installs, upgrades and roll-backs failed before.    *)
ServesRecorded ==
    \A id \in Ids : installed[id] # None /\ ~Busy(id) =>
        /\ agents[id] # None =>
              /\ agents[id].cfg.ver = installed[id].ver
              /\ agents[id].cfg.color = installed[id].color
        /\ \A p \in ProcessesOf(id) :
              agents[id] # None /\ procs[p].cfg = agents[id].cfg

(* A failed or undone installation leaves nothing behind: no handle and no *)
(* process of an application that is not installed.                        *)
NothingLeftBehind ==
    \A id \in Ids : installed[id] = None /\ ~Busy(id) =>
        agents[id] = None /\ ProcessesOf(id) = {}

(* Blue/green: the files of the recorded version stay complete; only an    *)
(* uninstall takes them away.                                              *)
RecordedFilesKept ==
    [][\A id \in Ids :
          /\ installed[id] # None /\ installed'[id] # None
          /\ dirs[id][installed[id].color] = installed[id].ver
          /\ ~\E t \in Callers : flow[t].id = id /\ flow[t].op = "uninstall"
          => dirs'[id][installed'[id].color] = installed'[id].ver]_allvars

(* No step changes a directory under a process that runs from it.          *)
LiveDirUntouched ==
    [][\A p \in Procs : procs[p] # None /\ procs[p].state = "alive" =>
          dirs'[procs[p].id][procs[p].cfg.color] = dirs[procs[p].id][procs[p].cfg.color]
      ]_allvars

(* "新版本健康检查失败，已回滚": an upgrade that ends without recording the   *)
(* new version does not leave it registered.                               *)
UpgradeRollsBack ==
    [][\A t \in Callers :
          /\ flow[t].op = "upgrade" /\ flow'[t].op = "none"
          /\ installed' = installed
          => \/ agents'[flow[t].id] = None
             \/ agents'[flow[t].id].cfg.ver = flow[t].old.ver]_allvars

(* "7. 健康检查", "等待健康检查通过": an upgrade records the new version only   *)
(* when the process it has started has itself answered a probe.            *)
RecordsOnlyHealthy ==
    [][\A id \in Ids :
          /\ installed[id] # None /\ installed'[id] \notin {None, installed[id]}
          /\ IsRunning(id)
          => procs[agents[id].child].ready]_allvars

-----------------------------------------------------------------------------
(* Every step of the installer, of dropped and failed requests too, is a   *)
(* step of a blue/green deployment, or none.                               *)
Deployment ==
    INSTANCE BlueGreen WITH
        slots <- dirs,
        active <- [id \in Ids |->
            IF installed[id] = None THEN None
            ELSE [color |-> installed[id].color, ver |-> installed[id].ver]],
        removing <- {id \in Ids : \E t \in Callers :
                        flow[t].id = id /\ flow[t].op = "uninstall"}

RefinesBlueGreen == Deployment!Spec

-----------------------------------------------------------------------------
(* Every install, upgrade and uninstall comes to an end.                   *)
FlowsEnd == \A t \in Callers : flow[t].op # "none" ~> flow[t].op = "none"
=============================================================================
