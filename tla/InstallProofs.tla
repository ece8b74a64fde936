--------------------------- MODULE InstallProofs ---------------------------
(***************************************************************************)
(* The installer uses the supervisor only as the supervisor allows: every  *)
(* step of InstallService is a step of AgentManager or leaves its state    *)
(* alone, so that what is proved of AgentManager holds under the installer *)
(* as well.  Then what the installer itself promises: that the directories *)
(* are a blue/green deployment, and that record, table, processes and      *)
(* files agree when nobody works on an application.                        *)
(***************************************************************************)
EXTENDS InstallService, AgentManagerProofs

FlowInv ==
    /\ installed \in [Ids -> Record \cup {None}]
    /\ flow \in [Callers -> Flow]
    /\ \A t \in Callers : FlowOK(flow[t])

Supervised == Next \/ UNCHANGED vars

(* Where a flow's own steps take it.                                       *)
Positions == FlowPCs \ Orphaned

Advances(t) ==
    /\ flow[t].op # "none"
    /\ End(t) \/ \E pc \in Positions : Goto(t, pc)

(* A step of a flow that leaves the record alone.                          *)
Plain(t) == Supervised /\ Advances(t) /\ installed' = installed

-----------------------------------------------------------------------------
LEMMA RecordIsConfig == Record = PackageConfig
BY DEF Record, PackageConfig

LEMMA NoRecord == None \notin Record
BY InstallAssumption, RecordIsConfig

LEMMA FlowTyped ==
    ASSUME FlowInv, NEW t \in Callers, flow[t].op # "none"
    PROVE  /\ flow[t].id \in Ids
           /\ flow[t].op \in {"install", "upgrade"} => flow[t].cfg \in PackageConfig
           /\ flow[t].op = "upgrade" => flow[t].old \in Record
BY DEF FlowInv, FlowOK

LEMMA NoFlowOK == NoFlow \in Flow /\ FlowOK(NoFlow)
BY NoRecord DEF NoFlow, Flow, FlowOK, FlowPCs

LEMMA FlowReplaced ==
    ASSUME FlowInv, NEW t \in Callers, NEW f \in Flow, FlowOK(f),
           flow' = [flow EXCEPT ![t] = f]
    PROVE  flow' \in [Callers -> Flow] /\ \A u \in Callers : FlowOK(flow'[u])
BY DEF FlowInv

LEMMA FlowMoved ==
    ASSUME FlowInv, NEW t \in Callers, flow[t].op # "none",
           End(t) \/ \E pc \in FlowPCs : Goto(t, pc)
    PROVE  flow' \in [Callers -> Flow] /\ \A u \in Callers : FlowOK(flow'[u])
<1>1. CASE End(t)
  BY <1>1, NoFlowOK, FlowReplaced DEF End
<1>2. ASSUME NEW pc \in FlowPCs, Goto(t, pc)
      PROVE  flow' \in [Callers -> Flow] /\ \A u \in Callers : FlowOK(flow'[u])
  <2> DEFINE f == [flow[t] EXCEPT !.pc = pc]
  <2>1. flow[t] \in Flow /\ FlowOK(flow[t]) /\ flow[t].op # "none"
    BY DEF FlowInv
  <2>2. f \in Flow
    BY <2>1 DEF Flow
  <2>3. FlowOK(f)
    BY <2>1 DEF FlowOK, Flow
  <2>4. flow' = [flow EXCEPT ![t] = f]
    BY <1>2 DEF Goto
  <2> QED BY <2>2, <2>3, <2>4, FlowReplaced
<1> QED BY <1>1, <1>2

-----------------------------------------------------------------------------
(* The calls of a flow are the supervisor's own actions.                   *)

LEMMA RegisterSupervised ==
    ASSUME FlowInv, NEW t \in Callers, flow[t].op # "none",
           NEW cfg \in PackageConfig, DoRegister(t, cfg)
    PROVE  Supervised
<1>1. flow[t].id \in Ids /\ cfg \in Configs
  BY FlowTyped, InstallAssumption
<1> QED BY <1>1 DEF DoRegister, Supervised, Next, Registration

LEMMA UnregisterSupervised ==
    ASSUME FlowInv, NEW t \in Callers, flow[t].op # "none", DoUnregister(t)
    PROVE  Supervised
<1>1. flow[t].id \in Ids
  BY FlowTyped
<1> QED BY <1>1 DEF DoUnregister, Supervised, Next, Registration

LEMMA StartSupervised ==
    ASSUME FlowInv, NEW t \in Callers, flow[t].op # "none", At(t, "idle"),
           StartSection(t, flow[t].id), UNCHANGED <<procs, mon>>
    PROVE  Supervised
<1>1. flow[t].id \in Ids
  BY FlowTyped
<1> QED BY <1>1 DEF Supervised, Next, ApiCall, ApiStart

LEMMA StopSupervised ==
    ASSUME FlowInv, NEW t \in Callers, flow[t].op # "none", At(t, "idle"),
           StopSection(t, flow[t].id, FALSE), UNCHANGED mon
    PROVE  Supervised
<1>1. flow[t].id \in Ids
  BY FlowTyped
<1> QED BY <1>1 DEF Supervised, Next, ApiCall, ApiStop

Ops == {"install", "upgrade", "uninstall"}

LEMMA RegistersPlain ==
    ASSUME FlowInv, NEW t \in Callers, NEW op \in Ops, NEW from, NEW to \in Positions,
           NEW cfg \in PackageConfig, Registers(t, op, from, cfg, to)
    PROVE  Plain(t)
BY RegisterSupervised DEF Registers, In, Ops, Plain, Advances

LEMMA UnregistersPlain ==
    ASSUME FlowInv, NEW t \in Callers, NEW op \in Ops, NEW from, NEW to \in Positions,
           Unregisters(t, op, from, to)
    PROVE  Plain(t)
BY UnregisterSupervised DEF Unregisters, In, Ops, Plain, Advances

LEMMA StartsPlain ==
    ASSUME FlowInv, NEW t \in Callers, NEW op \in Ops, NEW from, NEW to \in Positions,
           Starts(t, op, from, to)
    PROVE  Plain(t)
BY StartSupervised DEF Starts, In, Ops, Plain, Advances

LEMMA StopsPlain ==
    ASSUME FlowInv, NEW t \in Callers, NEW op \in Ops, NEW from, NEW to \in Positions,
           Stops(t, op, from, to)
    PROVE  Plain(t)
BY StopSupervised DEF Stops, In, Ops, Plain, Advances

LEMMA MovesPlain ==
    ASSUME NEW t \in Callers, NEW op \in Ops, NEW from, NEW to \in Positions,
           Moves(t, op, from, to)
    PROVE  Plain(t)
BY DEF Moves, In, Ops, Plain, Advances, Supervised

LEMMA EndsPlain ==
    ASSUME NEW t \in Callers, NEW op \in Ops, NEW from, Ends(t, op, from)
    PROVE  Plain(t)
BY DEF Ends, In, Ops, Plain, Advances, Supervised

LEMMA CheckedPlain ==
    ASSUME NEW t \in Callers, NEW op \in Ops, NEW from, NEW to \in Positions,
           Checked(t, op, from, to)
    PROVE  Plain(t)
BY MovesPlain, EndsPlain DEF Checked

-----------------------------------------------------------------------------
LEMMA DiskPlain ==
    ASSUME FlowInv, NEW t \in Callers, Download(t) \/ Unpack(t)
    PROVE  Plain(t)
<1>1. flow[t].op # "none"
  BY DEF FlowInv, FlowOK, Download, Unpack
<1>2. Advances(t)
  BY <1>1 DEF Download, Unpack, Advances, Positions, FlowPCs, Orphaned
<1> QED BY <1>2 DEF Download, Unpack, Plain, Supervised

LEMMA InstallPlain ==
    ASSUME FlowInv, NEW t \in Callers, InstallStep(t), ~InstallRecord(t)
    PROVE  Plain(t)
<1> USE DEF Ops, Positions, FlowPCs, Orphaned
<1>1. CASE InstallMkdir(t)
  BY <1>1, MovesPlain, EndsPlain DEF InstallMkdir
<1>2. CASE InstallRegister(t)
  <2>1. flow[t].op = "install" /\ flow[t].cfg \in PackageConfig
    BY <1>2, FlowTyped DEF InstallRegister, In
  <2>2. Supervised
    BY <1>2, <2>1, RegisterSupervised DEF InstallRegister, Supervised
  <2> QED BY <1>2, <2>1, <2>2 DEF InstallRegister, Plain, Advances
<1>3. CASE InstallStart(t)
  BY <1>3, StartsPlain DEF InstallStart
<1>4. CASE InstallStarted(t)
  BY <1>4, MovesPlain DEF InstallStarted
<1>5. CASE InstallHealth(t)
  BY <1>5, MovesPlain, StopsPlain DEF InstallHealth
<1>6. CASE InstallRollback(t)
  BY <1>6, UnregisterSupervised DEF InstallRollback, In, Plain, Advances
<1>7. CASE InstallStop(t)
  BY <1>7, StopsPlain DEF InstallStop
<1>8. CASE InstallStopped(t)
  BY <1>8, CheckedPlain DEF InstallStopped
<1>9. CASE InstallUnregister(t)
  BY <1>9, UnregistersPlain DEF InstallUnregister
<1>10. CASE InstallReregister(t)
  <2>1. flow[t].cfg \in PackageConfig
    BY <1>10, FlowTyped DEF InstallReregister, Registers, In
  <2> QED BY <1>10, <2>1, RegistersPlain DEF InstallReregister
<1>11. CASE InstallRestart(t)
  BY <1>11, StartsPlain DEF InstallRestart
<1>12. CASE InstallEnd(t)
  BY <1>12 DEF InstallEnd, In, Plain, Advances, Supervised
<1> QED
  BY <1>1, <1>2, <1>3, <1>4, <1>5, <1>6, <1>7, <1>8, <1>9, <1>10, <1>11, <1>12
     DEF InstallStep

LEMMA UpgradePlain ==
    ASSUME FlowInv, NEW t \in Callers, UpgradeStep(t), ~UpgradeRecord(t)
    PROVE  Plain(t)
<1> USE DEF Ops, Positions, FlowPCs, Orphaned
<1>1. CASE UpgradeClear(t)
  BY <1>1 DEF UpgradeClear, In, Plain, Advances, Supervised
<1>2. CASE UpgradeStop(t)
  BY <1>2, StopSupervised DEF UpgradeStop, In, Plain, Advances
<1>3. CASE UpgradeStopped(t)
  BY <1>3, CheckedPlain DEF UpgradeStopped
<1>4. CASE UpgradeUnregister(t)
  BY <1>4, UnregistersPlain DEF UpgradeUnregister
<1>5. CASE UpgradeRegister(t)
  <2>1. flow[t].cfg \in PackageConfig
    BY <1>5, FlowTyped DEF UpgradeRegister, Registers, In
  <2> QED BY <1>5, <2>1, RegistersPlain DEF UpgradeRegister
<1>6. CASE UpgradeStart(t)
  BY <1>6, StartsPlain DEF UpgradeStart
<1>7. CASE UpgradeStarted(t)
  BY <1>7, MovesPlain DEF UpgradeStarted
<1>8. CASE UpgradeHealth(t)
  BY <1>8, MovesPlain, StopsPlain DEF UpgradeHealth
<1>9. CASE UpgradeGiveUp(t)
  BY <1>9, CheckedPlain DEF UpgradeGiveUp
<1>10. CASE UpgradeRollback(t)
  BY <1>10, UnregistersPlain DEF UpgradeRollback
<1>11. CASE UpgradeReregister(t)
  <2>1. flow[t].old \in PackageConfig
    BY <1>11, FlowTyped, RecordIsConfig DEF UpgradeReregister, Registers, In
  <2> QED BY <1>11, <2>1, RegistersPlain DEF UpgradeReregister
<1>12. CASE UpgradeRestart(t)
  BY <1>12, StartsPlain DEF UpgradeRestart
<1>13. CASE UpgradeRestarted(t)
  BY <1>13, EndsPlain DEF UpgradeRestarted
<1> QED
  BY <1>1, <1>2, <1>3, <1>4, <1>5, <1>6, <1>7, <1>8, <1>9, <1>10, <1>11, <1>12,
     <1>13 DEF UpgradeStep

LEMMA UninstallPlain ==
    ASSUME FlowInv, NEW t \in Callers, UninstallStep(t), ~UninstallForget(t)
    PROVE  Plain(t)
<1> USE DEF Ops, Positions, FlowPCs, Orphaned
<1>1. CASE UninstallStatus(t)
  BY <1>1, MovesPlain DEF UninstallStatus
<1>2. CASE UninstallStop(t)
  BY <1>2, StopsPlain DEF UninstallStop
<1>3. CASE UninstallStopped(t)
  BY <1>3, CheckedPlain DEF UninstallStopped
<1>4. CASE UninstallUnregister(t)
  BY <1>4, UnregistersPlain DEF UninstallUnregister
<1>5. CASE UninstallRemove(t)
  BY <1>5 DEF UninstallRemove, In, Plain, Advances, Supervised
<1> QED BY <1>1, <1>2, <1>3, <1>4, <1>5 DEF UninstallStep

(* The three steps that write the record.                                  *)
LEMMA Recording ==
    ASSUME FlowInv, NEW t \in Callers,
           InstallRecord(t) \/ UpgradeRecord(t) \/ UninstallForget(t)
    PROVE  Supervised /\ Advances(t) /\ installed' \in [Ids -> Record \cup {None}]
<1>1. Supervised /\ Advances(t)
  BY DEF InstallRecord, UpgradeRecord, UninstallForget, In, Supervised, Advances,
         Positions, FlowPCs, Orphaned
<1>2. installed \in [Ids -> Record \cup {None}] /\ flow[t].id \in Ids
  BY <1>1, FlowTyped DEF FlowInv, Advances
<1>3. CASE UninstallForget(t)
  BY <1>1, <1>2, <1>3 DEF UninstallForget
<1>4. CASE InstallRecord(t) \/ UpgradeRecord(t)
  <2>1. flow[t].cfg \in PackageConfig
    BY <1>4, FlowTyped DEF InstallRecord, UpgradeRecord, In
  <2>2. [ver |-> flow[t].cfg.ver, color |-> flow[t].cfg.color,
         port |-> PortOf[flow[t].cfg.ver]] \in Record
    BY <2>1 DEF PackageConfig, Record, Ports
  <2>3. PICK r \in Record \cup {None} :
           installed' = [installed EXCEPT ![flow[t].id] = r]
    <3>1. CASE InstallRecord(t)
      BY <2>2, <3>1 DEF InstallRecord
    <3>2. CASE UpgradeRecord(t) /\ installed[flow[t].id] = None
      BY <3>2, <1>2 DEF UpgradeRecord
    <3>3. CASE UpgradeRecord(t) /\ installed[flow[t].id] # None
      BY <2>2, <3>3, <1>2 DEF UpgradeRecord
    <3> QED BY <1>4, <3>1, <3>2, <3>3
  <2> QED BY <1>1, <1>2, <2>3
<1> QED BY <1>3, <1>4

LEMMA Beginning ==
    ASSUME FlowInv, NEW t \in Callers, FlowBegin(t)
    PROVE  Supervised /\ FlowInv'
<1>1. \A id \in Ids : installed[id] \in Record \cup {None}
  BY DEF FlowInv
<1>2. \A ver \in Versions : PortOf[ver] \in Ports /\ AllocatedPort(ver) \in Ports
  BY DEF Ports, AllocatedPort, AutoPort
<1>3. ASSUME NEW f \in Flow, FlowOK(f), Begin(t, f) PROVE Supervised /\ FlowInv'
  <2>1. flow' \in [Callers -> Flow] /\ \A u \in Callers : FlowOK(flow'[u])
    BY <1>3, FlowReplaced DEF Begin
  <2> QED BY <1>3, <2>1 DEF Begin, Supervised, FlowInv
<1>4. ASSUME NEW id \in Ids, UninstallBegin(t, id) PROVE Supervised /\ FlowInv'
  <2> DEFINE f == [NoFlow EXCEPT !.op = "uninstall", !.pc = "status", !.id = id]
  <2>1. f \in Flow /\ FlowOK(f)
    BY NoRecord DEF NoFlow, Flow, FlowOK, FlowPCs
  <2> QED BY <1>3, <1>4, <2>1 DEF UninstallBegin
<1>5. ASSUME NEW id \in Ids, NEW ver \in Versions, InstallBegin(t, id, ver)
      PROVE  Supervised /\ FlowInv'
  <2> DEFINE cfg == [ver |-> ver, color |-> "blue", port |-> AllocatedPort(ver)]
             f == [op |-> "install", pc |-> "mkdir", id |-> id, old |-> None,
                   cfg |-> cfg]
  <2>1. cfg \in PackageConfig
    BY <1>2 DEF PackageConfig, Colors
  <2>2. f \in Flow /\ FlowOK(f)
    BY <2>1, NoRecord DEF Flow, FlowOK, FlowPCs
  <2> QED BY <1>3, <1>5, <2>2 DEF InstallBegin
<1>6. ASSUME NEW id \in Ids, NEW ver \in Versions, UpgradeBegin(t, id, ver)
      PROVE  Supervised /\ FlowInv'
  <2> DEFINE cfg == [ver |-> ver, color |-> Other(installed[id].color),
                     port |-> installed[id].port]
             f == [op |-> "upgrade", pc |-> "clear", id |-> id,
                   old |-> installed[id], cfg |-> cfg]
  <2>1. installed[id] \in Record
    BY <1>1, <1>6 DEF UpgradeBegin
  <2>2. cfg \in PackageConfig
    BY <2>1 DEF PackageConfig, Record, Colors, Other
  <2>3. f \in Flow /\ FlowOK(f)
    BY <2>1, <2>2 DEF Flow, FlowOK, FlowPCs
  <2> QED BY <1>3, <1>6, <2>3 DEF UpgradeBegin
<1> QED BY <1>4, <1>5, <1>6 DEF FlowBegin

LEMMA DropFlowPlain ==
    ASSUME FlowInv, NEW t \in Callers, DropFlow(t)
    PROVE  /\ Supervised /\ installed' = installed /\ flow[t].op # "none"
           /\ End(t) \/ \E pc \in FlowPCs : Goto(t, pc)
<1>1. Supervised
  BY DEF DropFlow, Supervised, Next, Tasks
<1> QED BY <1>1 DEF DropFlow, FlowPCs

LEMMA OrphanPlain ==
    ASSUME FlowInv, NEW t \in Callers, OrphanWrites(t)
    PROVE  /\ Supervised /\ installed' = installed /\ flow[t].op # "none"
           /\ UNCHANGED flow \/ End(t)
<1>1. flow[t].op # "none"
  BY DEF FlowInv, FlowOK, OrphanWrites, Orphaned
<1> QED BY <1>1 DEF OrphanWrites, Supervised

-----------------------------------------------------------------------------
LEMMA InstallInitially == InstallInit => Init /\ FlowInv
BY NoFlowOK DEF InstallInit, FlowInv

LEMMA InstallSimulates ==
    FlowInv /\ [InstallNext]_allvars => FlowInv' /\ [Next]_vars
<1> SUFFICES ASSUME FlowInv, [InstallNext]_allvars
             PROVE  FlowInv' /\ [Next]_vars
  OBVIOUS
<1>1. ASSUME NEW t \in Callers, Plain(t) PROVE FlowInv' /\ [Next]_vars
  BY <1>1, FlowMoved DEF Plain, Advances, Positions, Supervised, FlowInv
<1>2. ASSUME NEW t \in Callers, FlowBegin(t) PROVE FlowInv' /\ [Next]_vars
  BY <1>2, Beginning DEF Supervised
<1>3. ASSUME NEW t \in Callers, FlowStep(t) PROVE FlowInv' /\ [Next]_vars
  <2>1. CASE InstallRecord(t) \/ UpgradeRecord(t) \/ UninstallForget(t)
    BY <2>1, Recording, FlowMoved DEF Advances, Positions, Supervised, FlowInv
  <2>2. CASE ~(InstallRecord(t) \/ UpgradeRecord(t) \/ UninstallForget(t))
    BY <1>1, <1>3, <2>2, DiskPlain, InstallPlain, UpgradePlain, UninstallPlain
       DEF FlowStep
  <2> QED BY <2>1, <2>2
<1>4. ASSUME NEW t \in Callers, DropFlow(t) \/ OrphanWrites(t)
      PROVE  FlowInv' /\ [Next]_vars
  <2>1. CASE DropFlow(t)
    BY <2>1, DropFlowPlain, FlowMoved DEF Supervised, FlowInv
  <2>2. CASE OrphanWrites(t)
    BY <2>2, OrphanPlain, FlowMoved DEF Supervised, FlowInv
  <2> QED BY <1>4, <2>1, <2>2
<1>5. ASSUME UNCHANGED ivars,
             \/ \E t \in Tasks : CallStep(t)
             \/ \E t \in Callers : PlainRequest(t)
             \/ MonitorStep \/ ProcessStep
      PROVE  FlowInv' /\ [Next]_vars
  BY <1>5 DEF ivars, FlowInv, PlainRequest, Next, Tasks
<1>6. ASSUME UNCHANGED allvars PROVE FlowInv' /\ [Next]_vars
  BY <1>6 DEF allvars, vars, FlowInv
<1> QED BY <1>2, <1>3, <1>4, <1>5, <1>6 DEF InstallNext

(* Under the installer the supervisor behaves as specified: whatever the   *)
(* installs, upgrades, uninstalls, failures and dropped requests.          *)
THEOREM InstallerRefinesSupervisor == InstallSpec => Spec
BY InstallInitially, InstallSimulates, PTL DEF InstallSpec, Spec

(* So no process is lost or owned twice, however installs and upgrades     *)
(* race with the monitor and with each other.                              *)
THEOREM InstallerKeepsOwners == InstallSpec => []OneOwner
BY InstallerRefinesSupervisor, EveryProcessOwned, PTL

-----------------------------------------------------------------------------
(* The positions of each operation, and the stages of a flow that matter   *)
(* to the disk and the record.                                             *)
PCsOf(op) ==
    CASE op = "install"   -> {"mkdir", "download", "unpack", "unpacking", "register", "start",
                              "started", "health", "rollback", "stop", "stopped",
                              "unregister", "reregister", "record", "restart",
                              "restarted"}
      [] op = "upgrade"   -> {"clear", "clearing", "download", "unpack", "unpacking",
                              "stop", "stopped",
                              "unregister", "register", "start", "started", "health",
                              "giveup", "rollback", "reregister", "restart",
                              "restarted", "record"}
      [] op = "uninstall" -> {"status", "stop", "stopped", "unregister", "remove",
                              "removing", "forget"}
      [] OTHER            -> {"idle"}

Placed == \A t \in Callers : flow[t].pc \in PCsOf(flow[t].op)

Fresh == {"mkdir", "clear", "clearing", "download", "unpack", "unpacking"}
Late == {"restart", "restarted"}

SameStage(op, from, to) ==
    /\ from \in Fresh <=> to \in Fresh
    /\ op = "install" => (from \in Late <=> to \in Late)
    /\ to # "forget"

(* A step of a flow that leaves the disk and the record alone.             *)
Quiet(t) ==
    /\ flow[t].op # "none"
    /\ UNCHANGED <<installed, dirs>>
    /\ \/ End(t)
       \/ \E to \in PCsOf(flow[t].op) :
              SameStage(flow[t].op, flow[t].pc, to) /\ Goto(t, to)

LEMMA QuietMove ==
    ASSUME NEW t \in Callers, NEW op \in Ops, NEW from, NEW to \in PCsOf(op),
           SameStage(op, from, to), In(t, op, from), Goto(t, to),
           UNCHANGED <<installed, dirs>>
    PROVE  Quiet(t)
BY DEF Quiet, In, Ops

LEMMA QuietEnd ==
    ASSUME NEW t \in Callers, NEW op \in Ops, NEW from, In(t, op, from), End(t),
           UNCHANGED <<installed, dirs>>
    PROVE  Quiet(t)
BY DEF Quiet, In, Ops

LEMMA InstallQuiet ==
    ASSUME NEW t \in Callers, InstallStep(t), ~InstallRecord(t)
    PROVE  Quiet(t)
<1> USE QuietMove, QuietEnd DEF Ops, PCsOf, SameStage, Fresh, Late
<1>1. CASE InstallMkdir(t)
  BY <1>1 DEF InstallMkdir, Moves, Ends
<1>2. CASE InstallRegister(t)
  BY <1>2 DEF InstallRegister
<1>3. CASE InstallStart(t)
  BY <1>3 DEF InstallStart, Starts
<1>4. CASE InstallStarted(t)
  BY <1>4 DEF InstallStarted, Moves
<1>5. CASE InstallHealth(t)
  BY <1>5 DEF InstallHealth, Moves, Stops
<1>6. CASE InstallRollback(t)
  BY <1>6 DEF InstallRollback
<1>7. CASE InstallStop(t)
  BY <1>7 DEF InstallStop, Stops
<1>8. CASE InstallStopped(t)
  BY <1>8 DEF InstallStopped, Checked, Moves, Ends
<1>9. CASE InstallUnregister(t)
  BY <1>9 DEF InstallUnregister, Unregisters
<1>10. CASE InstallReregister(t)
  BY <1>10 DEF InstallReregister, Registers
<1>11. CASE InstallRestart(t)
  BY <1>11 DEF InstallRestart, Starts
<1>12. CASE InstallEnd(t)
  BY <1>12 DEF InstallEnd
<1>13. QED
  BY <1>1, <1>2, <1>3, <1>4, <1>5, <1>6, <1>7, <1>8, <1>9, <1>10, <1>11, <1>12
     DEF InstallStep

LEMMA UpgradeQuiet ==
    ASSUME NEW t \in Callers, UpgradeStep(t), ~UpgradeClear(t), ~UpgradeRecord(t)
    PROVE  Quiet(t)
<1> USE QuietMove, QuietEnd DEF Ops, PCsOf, SameStage, Fresh, Late
<1>1. CASE UpgradeStop(t)
  BY <1>1 DEF UpgradeStop
<1>2. CASE UpgradeStopped(t)
  BY <1>2 DEF UpgradeStopped, Checked, Moves, Ends
<1>3. CASE UpgradeUnregister(t)
  BY <1>3 DEF UpgradeUnregister, Unregisters
<1>4. CASE UpgradeRegister(t)
  BY <1>4 DEF UpgradeRegister, Registers
<1>5. CASE UpgradeStart(t)
  BY <1>5 DEF UpgradeStart, Starts
<1>6. CASE UpgradeStarted(t)
  BY <1>6 DEF UpgradeStarted, Moves
<1>7. CASE UpgradeHealth(t)
  BY <1>7 DEF UpgradeHealth, Moves, Stops
<1>8. CASE UpgradeGiveUp(t)
  BY <1>8 DEF UpgradeGiveUp, Checked, Moves, Ends
<1>9. CASE UpgradeRollback(t)
  BY <1>9 DEF UpgradeRollback, Unregisters
<1>10. CASE UpgradeReregister(t)
  BY <1>10 DEF UpgradeReregister, Registers
<1>11. CASE UpgradeRestart(t)
  BY <1>11 DEF UpgradeRestart, Starts
<1>12. CASE UpgradeRestarted(t)
  BY <1>12 DEF UpgradeRestarted, Ends
<1>13. QED
  BY <1>1, <1>2, <1>3, <1>4, <1>5, <1>6, <1>7, <1>8, <1>9, <1>10, <1>11, <1>12
     DEF UpgradeStep

LEMMA UninstallQuiet ==
    ASSUME NEW t \in Callers, UninstallStep(t), ~UninstallRemove(t), ~UninstallForget(t)
    PROVE  Quiet(t)
<1> USE QuietMove, QuietEnd DEF Ops, PCsOf, SameStage, Fresh, Late
<1>1. CASE UninstallStatus(t)
  BY <1>1 DEF UninstallStatus, Moves
<1>2. CASE UninstallStop(t)
  BY <1>2 DEF UninstallStop, Stops
<1>3. CASE UninstallStopped(t)
  BY <1>3 DEF UninstallStopped, Checked, Moves, Ends
<1>4. CASE UninstallUnregister(t)
  BY <1>4 DEF UninstallUnregister, Unregisters
<1>5. QED
  BY <1>1, <1>2, <1>3, <1>4 DEF UninstallStep

LEMMA DownloadQuiet ==
    ASSUME FlowInv, Placed, NEW t \in Callers, Download(t)
    PROVE  Quiet(t)
<1>1. flow[t].op \in {"install", "upgrade"} /\ flow[t].pc = "download"
  BY DEF FlowInv, Flow, Placed, PCsOf, Download
<1>2. QED
  BY <1>1 DEF Download, Quiet, PCsOf, SameStage, Fresh, Late

(* A dropped flow leaves its work on the disk to a thread.                 *)
LEMMA DropQuiet ==
    ASSUME FlowInv, Placed, NEW t \in Callers, DropFlow(t)
    PROVE  Quiet(t)
<1>1. flow[t].op \in {"install", "upgrade", "uninstall"}
      /\ flow[t].pc \in PCsOf(flow[t].op)
  BY DEF FlowInv, Flow, Placed, DropFlow
<1>2. CASE flow[t].pc = "clear"
  <2>1. flow[t].op = "upgrade" /\ Goto(t, "clearing")
    BY <1>1, <1>2 DEF DropFlow, PCsOf
  <2>2. QED
    BY <1>2, <2>1 DEF DropFlow, Quiet, PCsOf, SameStage, Fresh
<1>3. CASE flow[t].pc = "unpack"
  <2>1. flow[t].op \in {"install", "upgrade"} /\ Goto(t, "unpacking")
    BY <1>1, <1>3 DEF DropFlow, PCsOf
  <2>2. QED
    BY <1>3, <2>1 DEF DropFlow, Quiet, PCsOf, SameStage, Fresh, Late
<1>4. CASE flow[t].pc = "remove"
  <2>1. flow[t].op = "uninstall" /\ Goto(t, "removing")
    BY <1>1, <1>4 DEF DropFlow, PCsOf
  <2>2. QED
    BY <1>4, <2>1 DEF DropFlow, Quiet, PCsOf, SameStage, Fresh
<1>5. CASE flow[t].pc \notin {"clear", "unpack", "remove"}
  BY <1>1, <1>5 DEF DropFlow, Quiet
<1>6. QED
  BY <1>2, <1>3, <1>4, <1>5

(* The steps that are not quiet, and what becomes of the flow.             *)
Acts(t) ==
    \/ Unpack(t) \/ InstallRecord(t) \/ UpgradeClear(t) \/ UpgradeRecord(t)
    \/ UninstallRemove(t) \/ UninstallForget(t) \/ OrphanWrites(t)

LEMMA ActsOrQuiet ==
    ASSUME FlowInv, Placed, NEW t \in Callers,
           FlowStep(t) \/ DropFlow(t) \/ OrphanWrites(t)
    PROVE  Acts(t) \/ Quiet(t)
BY DownloadQuiet, InstallQuiet, UpgradeQuiet, UninstallQuiet, DropQuiet
   DEF FlowStep, Acts

LEMMA OrphanMoves ==
    ASSUME FlowInv, Placed, NEW t \in Callers, OrphanWrites(t)
    PROVE  /\ flow[t].op \in {"install", "upgrade", "uninstall"}
           /\ flow[t].pc \in PCsOf(flow[t].op)
           /\ End(t) \/ Goto(t, flow[t].pc)
<1>1. flow[t].op \in {"install", "upgrade", "uninstall"}
      /\ flow[t].pc \in PCsOf(flow[t].op)
  BY DEF FlowInv, Flow, Placed, PCsOf, OrphanWrites, Orphaned
<1>2. ASSUME UNCHANGED flow PROVE Goto(t, flow[t].pc)
  <2>1. [flow[t] EXCEPT !.pc = flow[t].pc] = flow[t]
    BY DEF FlowInv, Flow
  <2>2. [flow EXCEPT ![t].pc = flow[t].pc] = flow
    BY <2>1 DEF FlowInv
  <2>3. QED
    BY <1>2, <2>2 DEF Goto
<1>3. QED
  BY <1>1, <1>2 DEF OrphanWrites

LEMMA ActsMove ==
    ASSUME FlowInv, Placed, NEW t \in Callers, Acts(t) \/ Quiet(t)
    PROVE  /\ flow[t].op \in {"install", "upgrade", "uninstall"} /\ flow[t].id \in Ids
           /\ End(t) \/ \E to \in PCsOf(flow[t].op) : Goto(t, to)
<1>1. flow[t].op \in {"none", "install", "upgrade", "uninstall"}
      /\ flow[t].pc \in PCsOf(flow[t].op)
  BY DEF FlowInv, Flow, Placed
<1>2. flow[t].op # "none"
  BY <1>1 DEF Acts, Quiet, Unpack, InstallRecord, UpgradeClear, UpgradeRecord, In,
              UninstallRemove, UninstallForget, OrphanWrites, Orphaned, PCsOf
<1>3. flow[t].id \in Ids
  BY <1>2, FlowTyped
<1>4. CASE Unpack(t)
  <2>1. flow[t].op \in {"install", "upgrade"}
    BY <1>1, <1>4 DEF Unpack, PCsOf
  <2>2. "register" \in PCsOf("install") /\ "stop" \in PCsOf("upgrade")
    BY DEF PCsOf
  <2>3. QED
    BY <1>3, <1>4, <2>1, <2>2 DEF Unpack
<1>5. CASE InstallRecord(t) \/ UpgradeRecord(t)
  BY <1>1, <1>3, <1>5 DEF InstallRecord, UpgradeRecord, In, PCsOf
<1>6. CASE UpgradeClear(t)
  BY <1>1, <1>3, <1>6 DEF UpgradeClear, In, PCsOf
<1>7. CASE UninstallRemove(t) \/ UninstallForget(t)
  BY <1>1, <1>3, <1>7 DEF UninstallRemove, UninstallForget, In, PCsOf
<1>8. CASE OrphanWrites(t)
  BY <1>3, <1>8, OrphanMoves
<1>9. CASE Quiet(t)
  BY <1>1, <1>2, <1>3, <1>9 DEF Quiet
<1>10. QED
  BY <1>4, <1>5, <1>6, <1>7, <1>8, <1>9 DEF Acts

LEMMA PlacedMove ==
    ASSUME FlowInv, Placed, NEW t \in Callers,
           flow[t].op \in {"install", "upgrade", "uninstall"},
           End(t) \/ \E to \in PCsOf(flow[t].op) : Goto(t, to)
    PROVE  Placed'
<1>1. flow \in [Callers -> Flow]
  BY DEF FlowInv
<1>2. CASE End(t)
  BY <1>1, <1>2 DEF End, NoFlow, Placed, PCsOf
<1>3. ASSUME NEW to \in PCsOf(flow[t].op), Goto(t, to) PROVE Placed'
  <2>1. \A u \in Callers : /\ flow'[u].op = flow[u].op
                           /\ flow'[u].pc = IF u = t THEN to ELSE flow[u].pc
    BY <1>1, <1>3 DEF Goto, Flow
  <2>2. QED
    BY <1>3, <2>1 DEF Placed
<1>4. QED
  BY <1>2, <1>3

LEMMA PlacedBegin ==
    ASSUME FlowInv, Placed, NEW t \in Callers, FlowBegin(t)
    PROVE  Placed'
<1>1. flow \in [Callers -> Flow]
  BY DEF FlowInv
<1>2. ASSUME NEW f, Begin(t, f), f.pc \in PCsOf(f.op) PROVE Placed'
  BY <1>1, <1>2 DEF Begin, Placed
<1>3. ASSUME NEW id \in Ids, UninstallBegin(t, id) PROVE Placed'
  BY <1>2, <1>3 DEF UninstallBegin, NoFlow, PCsOf
<1>4. ASSUME NEW id \in Ids, NEW ver \in Versions,
             InstallBegin(t, id, ver) \/ UpgradeBegin(t, id, ver)
      PROVE  Placed'
  BY <1>2, <1>4 DEF InstallBegin, UpgradeBegin, PCsOf
<1>5. QED
  BY <1>3, <1>4 DEF FlowBegin

(* A step of the installer is one of these.                                *)
LEMMA InstallKinds ==
    ASSUME FlowInv, Placed, [InstallNext]_allvars
    PROVE  \/ \E t \in Callers : FlowBegin(t)
           \/ \E t \in Callers : Acts(t) \/ Quiet(t)
           \/ UNCHANGED ivars
BY ActsOrQuiet DEF InstallNext, allvars, ivars

LEMMA PlacedStep ==
    ASSUME FlowInv, Placed, [InstallNext]_allvars
    PROVE  Placed'
<1>1. CASE UNCHANGED ivars
  BY <1>1 DEF ivars, Placed
<1>2. QED
  BY <1>1, InstallKinds, PlacedBegin, ActsMove, PlacedMove

LEMMA PlacedInit == InstallInit => Placed
BY DEF InstallInit, Placed, PCsOf, NoFlow

-----------------------------------------------------------------------------
(* What is on the disk, and the progress shown.                            *)
DiskInv ==
    /\ dirs \in [Ids -> [Colors -> Versions \cup {None}]]
    /\ progress \in [Ids -> Phases \cup {None}]

LEMMA FillTyped ==
    ASSUME DiskInv, NEW id \in Ids, NEW colors, NEW content \in Versions \cup {None},
           Fill(id, colors, content)
    PROVE  /\ dirs' \in [Ids -> [Colors -> Versions \cup {None}]]
           /\ \A i \in Ids, color \in Colors :
                 dirs'[i][color] = IF i = id /\ color \in colors THEN content
                                                                 ELSE dirs[i][color]
<1>1. [color \in Colors |-> IF color \in colors THEN content ELSE dirs[id][color]]
         \in [Colors -> Versions \cup {None}]
  BY DEF DiskInv
<1>2. QED
  BY <1>1 DEF DiskInv, Fill

LEMMA PartlyTyped ==
    ASSUME DiskInv, NEW id \in Ids, NEW colors, FillPartly(id, colors)
    PROVE  /\ dirs' \in [Ids -> [Colors -> Versions \cup {None}]]
           /\ \A i \in Ids, color \in Colors :
                 i # id \/ color \notin colors => dirs'[i][color] = dirs[i][color]
<1>1. PICK cs \in SUBSET colors : Fill(id, cs, None)
  BY DEF FillPartly
<1>2. QED
  BY <1>1, FillTyped

(* The version a flow unpacks, and where.                                  *)
LEMMA Unpacking ==
    ASSUME FlowInv, Placed, NEW t \in Callers,
           flow[t].pc \in {"clear", "clearing", "unpack", "unpacking"}
    PROVE  /\ flow[t].op \in {"install", "upgrade"} /\ flow[t].id \in Ids
           /\ flow[t].cfg.color \in Colors /\ flow[t].cfg.ver \in Versions
<1>1. flow[t].op \in {"install", "upgrade"}
  BY DEF FlowInv, Flow, Placed, PCsOf
<1>2. flow[t].id \in Ids /\ flow[t].cfg \in PackageConfig
  BY <1>1, FlowTyped
<1>3. QED
  BY <1>1, <1>2 DEF PackageConfig

LEMMA DirsStep ==
    ASSUME FlowInv, Placed, DiskInv, NEW t \in Callers, Acts(t)
    PROVE  dirs' \in [Ids -> [Colors -> Versions \cup {None}]]
<1> USE ActsMove
<1>1. CASE Unpack(t)
  BY <1>1, Unpacking, FillTyped, PartlyTyped DEF Unpack
<1>2. CASE UpgradeClear(t)
  BY <1>2, FillTyped, PartlyTyped DEF UpgradeClear
<1>3. CASE UninstallRemove(t)
  BY <1>3, FillTyped, PartlyTyped DEF UninstallRemove
<1>4. CASE InstallRecord(t) \/ UpgradeRecord(t) \/ UninstallForget(t)
  BY <1>4 DEF InstallRecord, UpgradeRecord, UninstallForget, DiskInv
<1>5. CASE OrphanWrites(t)
  BY <1>5, Unpacking, FillTyped, PartlyTyped DEF OrphanWrites
<1>6. QED
  BY <1>1, <1>2, <1>3, <1>4, <1>5 DEF Acts

LEMMA ProgressStep ==
    ASSUME FlowInv, Placed, DiskInv, NEW t \in Callers, FlowStep(t)
    PROVE  progress' \in [Ids -> Phases \cup {None}]
<1>1. flow[t].id \in Ids
  BY ActsOrQuiet, ActsMove
<1>2. ASSUME NEW phase \in Phases, ShowProgress(flow[t].id, phase)
      PROVE  progress' \in [Ids -> Phases \cup {None}]
  BY <1>1, <1>2 DEF DiskInv, ShowProgress
<1>3. ASSUME UNCHANGED progress PROVE progress' \in [Ids -> Phases \cup {None}]
  BY <1>3 DEF DiskInv
<1>4. CASE Download(t) \/ Unpack(t)
  BY <1>2, <1>4 DEF Download, Unpack, Phases
<1>5. CASE InstallStep(t)
  BY <1>2, <1>3, <1>5
     DEF InstallStep, InstallMkdir, InstallRegister, InstallStart, InstallStarted,
         InstallHealth, InstallRollback, InstallStop, InstallStopped, InstallUnregister,
         InstallReregister, InstallRecord, InstallRestart, InstallEnd, Checked, Moves,
         Ends, Starts, Stops, Registers, Unregisters, Phases
<1>6. CASE UpgradeStep(t)
  BY <1>2, <1>3, <1>6
     DEF UpgradeStep, UpgradeClear, UpgradeStop, UpgradeStopped, UpgradeUnregister,
         UpgradeRegister, UpgradeStart, UpgradeStarted, UpgradeHealth, UpgradeGiveUp,
         UpgradeRollback, UpgradeReregister, UpgradeRestart, UpgradeRestarted,
         UpgradeRecord, Checked, Moves, Ends, Starts, Stops, Registers, Unregisters, Phases
<1>7. CASE UninstallStep(t)
  BY <1>3, <1>7
     DEF UninstallStep, UninstallStatus, UninstallStop, UninstallStopped,
         UninstallUnregister, UninstallRemove, UninstallForget, Checked, Moves, Ends,
         Stops, Unregisters
<1>8. QED
  BY <1>4, <1>5, <1>6, <1>7 DEF FlowStep

LEMMA DiskStep ==
    ASSUME FlowInv, Placed, DiskInv, [InstallNext]_allvars
    PROVE  DiskInv'
<1>1. CASE UNCHANGED ivars
  BY <1>1 DEF ivars, DiskInv
<1>2. ASSUME NEW t \in Callers, FlowBegin(t) PROVE UNCHANGED <<dirs, progress>>
  BY <1>2 DEF FlowBegin, UninstallBegin, InstallBegin, UpgradeBegin, Begin
<1>3. ASSUME NEW t \in Callers, FlowStep(t) \/ DropFlow(t) \/ OrphanWrites(t)
      PROVE  DiskInv'
  <2>1. dirs' \in [Ids -> [Colors -> Versions \cup {None}]]
    BY <1>3, ActsOrQuiet, DirsStep DEF Quiet, DiskInv
  <2>2. progress' \in [Ids -> Phases \cup {None}]
    BY <1>3, ProgressStep DEF DropFlow, OrphanWrites, DiskInv
  <2>3. QED
    BY <2>1, <2>2 DEF DiskInv
<1>4. QED
  BY <1>1, <1>2, <1>3 DEF InstallNext, allvars, ivars, DiskInv

LEMMA DiskInit == InstallInit => DiskInv
BY DEF InstallInit, DiskInv

InstallInv == FlowInv /\ Placed /\ DiskInv

LEMMA InstallInvariant == InstallSpec => []InstallInv
<1>1. InstallInit => InstallInv
  BY InstallInitially, PlacedInit, DiskInit DEF InstallInv
<1>2. InstallInv /\ [InstallNext]_allvars => InstallInv'
  BY InstallSimulates, PlacedStep, DiskStep DEF InstallInv
<1>3. QED
  BY <1>1, <1>2, PTL DEF InstallSpec

(* Type correctness, for any applications, versions and requests.          *)
THEOREM InstallTypeCorrect == InstallSpec => []InstallTypeOK
<1>1. TypeOK /\ InstallInv => InstallTypeOK
  BY DEF InstallInv, FlowInv, DiskInv, InstallTypeOK
<1>2. QED
  BY <1>1, InstallInvariant, InstallerRefinesSupervisor, TypeCorrect, PTL

-----------------------------------------------------------------------------
(* One flow at a time for each application, the thread that a dropped flow *)
(* has left at work on the disk counted as the flow it was.  (With two     *)
(* there is no blue/green deployment: see the run install_orphan.)  What a *)
(* flow has found when it began is still so, and what it has unpacked is   *)
(* there.                                                                  *)
FlowsApart ==
    \A t, u \in Callers :
        flow[t].op # "none" /\ flow[u].op # "none" /\ flow[t].id = flow[u].id => t = u

Prepared(f) ==
    f.op \in {"install", "upgrade"} /\ f.pc \notin Fresh

MatchedBy(f) ==
    /\ f.op = "install" /\ f.pc \notin Late => installed[f.id] = None
    /\ f.op = "upgrade" => /\ installed[f.id] = f.old
                           /\ f.cfg.color = Other(f.old.color)
    /\ Prepared(f) => dirs[f.id][f.cfg.color] = f.cfg.ver
    /\ f.op = "uninstall" => installed[f.id] # None
    /\ f.op = "uninstall" /\ f.pc = "forget" =>
         \A color \in Colors : dirs[f.id][color] = None

Matched == \A t \in Callers : MatchedBy(flow[t])

LEMMA MatchedInit == InstallInit => Matched
BY NoRecord DEF InstallInit, Matched, MatchedBy, Prepared, NoFlow

LEMMA GoneTo ==
    ASSUME FlowInv, NEW t \in Callers, NEW to, Goto(t, to)
    PROVE  /\ flow'[t].pc = to /\ flow'[t].op = flow[t].op /\ flow'[t].id = flow[t].id
           /\ flow'[t].cfg = flow[t].cfg /\ flow'[t].old = flow[t].old
BY DEF FlowInv, Goto, Flow

(* A flow's step touches the application it works on.                      *)
LEMMA ActsApart ==
    ASSUME FlowInv, Placed, DiskInv, NEW t \in Callers, Acts(t) \/ Quiet(t)
    PROVE  /\ flow[t].op # "none" /\ flow[t].id \in Ids
           /\ \A u \in Callers : u # t => flow'[u] = flow[u]
           /\ \A i \in Ids : i # flow[t].id =>
                 installed'[i] = installed[i] /\ dirs'[i] = dirs[i]
<1>1. flow[t].op # "none" /\ flow[t].id \in Ids
  BY ActsMove
<1>2. \A u \in Callers : u # t => flow'[u] = flow[u]
  BY ActsMove DEF End, Goto, FlowInv
<1>3. \A i \in Ids : i # flow[t].id => installed'[i] = installed[i]
  BY <1>1 DEF FlowInv, Acts, Quiet, Unpack, InstallRecord, UpgradeClear, UpgradeRecord,
              UninstallRemove, UninstallForget, OrphanWrites
<1>4. \A i \in Ids : i # flow[t].id => dirs'[i] = dirs[i]
  <2>1. ASSUME NEW colors, NEW content, Fill(flow[t].id, colors, content)
        PROVE  \A i \in Ids : i # flow[t].id => dirs'[i] = dirs[i]
    BY <1>1, <2>1 DEF Fill, DiskInv
  <2>2. ASSUME NEW colors, FillPartly(flow[t].id, colors)
        PROVE  \A i \in Ids : i # flow[t].id => dirs'[i] = dirs[i]
    BY <2>1, <2>2 DEF FillPartly
  <2>3. CASE UNCHANGED dirs
    BY <2>3
  <2>4. QED
    BY <2>1, <2>2, <2>3
    DEF Acts, Quiet, Unpack, InstallRecord, UpgradeClear, UpgradeRecord, UninstallRemove,
        UninstallForget, OrphanWrites
<1>5. QED
  BY <1>1, <1>2, <1>3, <1>4

LEMMA MatchedEnd ==
    ASSUME FlowInv, NEW t \in Callers, End(t)
    PROVE  MatchedBy(flow[t])'
BY DEF FlowInv, End, MatchedBy, Prepared, NoFlow

LEMMA MatchedOne ==
    ASSUME FlowInv, FlowsApart, Matched, NEW t \in Callers, flow[t].op # "none",
           \A u \in Callers : u # t => flow'[u] = flow[u],
           \A i \in Ids : i # flow[t].id =>
              installed'[i] = installed[i] /\ dirs'[i] = dirs[i],
           MatchedBy(flow[t])'
    PROVE  Matched'
<1>1. ASSUME NEW u \in Callers, u # t PROVE MatchedBy(flow[u])'
  <2>1. MatchedBy(flow[u]) /\ flow'[u] = flow[u]
    BY <1>1 DEF Matched
  <2>2. CASE flow[u].op = "none"
    BY <2>1, <2>2 DEF MatchedBy, Prepared
  <2>3. CASE flow[u].op # "none"
    <3>1. flow[u].id \in Ids /\ flow[u].id # flow[t].id
      BY <1>1, <2>3, FlowTyped DEF FlowsApart
    <3>2. QED
      BY <2>1, <3>1 DEF MatchedBy, Prepared
  <2>4. QED
    BY <2>2, <2>3
<1>2. QED
  BY <1>1 DEF Matched

LEMMA OtherColor == \A color \in Colors : Other(color) \in Colors /\ Other(color) # color
BY DEF Colors, Other

LEMMA MatchedStep ==
    ASSUME FlowsApart, InstallInv, Matched, [InstallNext]_allvars
    PROVE  Matched'
<1>0. FlowInv /\ Placed /\ DiskInv
  BY DEF InstallInv
<1>1. CASE UNCHANGED ivars
  BY <1>1 DEF ivars, Matched, MatchedBy, Prepared
<1>2. ASSUME NEW t \in Callers, FlowBegin(t) PROVE Matched'
  <2>1. ASSUME NEW f, Begin(t, f), MatchedBy(f) PROVE Matched'
    <3>1. /\ flow'[t] = f /\ UNCHANGED <<installed, dirs>>
          /\ \A u \in Callers : u # t => flow'[u] = flow[u]
      BY <1>0, <2>1 DEF FlowInv, Begin
    <3>2. QED
      BY <2>1, <3>1 DEF Matched, MatchedBy, Prepared
  <2>2. ASSUME NEW id \in Ids, UninstallBegin(t, id) PROVE Matched'
    BY <2>1, <2>2 DEF UninstallBegin, NoFlow, MatchedBy, Prepared
  <2>3. ASSUME NEW id \in Ids, NEW ver \in Versions, InstallBegin(t, id, ver)
        PROVE  Matched'
    BY <2>1, <2>3 DEF InstallBegin, MatchedBy, Prepared, Fresh
  <2>4. ASSUME NEW id \in Ids, NEW ver \in Versions, UpgradeBegin(t, id, ver)
        PROVE  Matched'
    BY <2>1, <2>4 DEF UpgradeBegin, MatchedBy, Prepared, Fresh
  <2>5. QED
    BY <1>2, <2>2, <2>3, <2>4 DEF FlowBegin
<1>3. ASSUME NEW t \in Callers, Quiet(t) PROVE MatchedBy(flow[t])'
  <2>1. CASE End(t)
    BY <1>0, <2>1, MatchedEnd
  <2>2. ASSUME NEW to \in PCsOf(flow[t].op), SameStage(flow[t].op, flow[t].pc, to),
               Goto(t, to)
        PROVE  MatchedBy(flow[t])'
    <3>1. MatchedBy(flow[t]) /\ UNCHANGED <<installed, dirs>>
      BY <1>3 DEF Matched, Quiet
    <3>2. QED
      BY <1>0, <2>2, <3>1, GoneTo DEF MatchedBy, Prepared, SameStage
  <2>3. QED
    BY <1>3, <2>1, <2>2 DEF Quiet
<1>4. ASSUME NEW t \in Callers, Acts(t) PROVE MatchedBy(flow[t])'
  <2> DEFINE f == flow[t]
  <2>0. MatchedBy(f) /\ f.id \in Ids /\ (End(t) => MatchedBy(flow[t])')
    BY <1>0, <1>4, ActsMove, MatchedEnd DEF Matched
  <2>1. CASE Unpack(t)
    <3>1. /\ f.pc = "unpack" /\ f.op \in {"install", "upgrade"}
          /\ f.cfg.color \in Colors /\ f.cfg.ver \in Versions /\ installed' = installed
      BY <1>0, <2>1, Unpacking DEF Unpack
    <3>2. ASSUME NEW to \in {"register", "stop"}, Goto(t, to),
                 Fill(f.id, {f.cfg.color}, f.cfg.ver)
          PROVE  MatchedBy(flow[t])'
      <4>1. dirs'[f.id][f.cfg.color] = f.cfg.ver
        BY <1>0, <2>0, <3>1, <3>2, FillTyped
      <4>2. QED
        BY <1>0, <2>0, <3>1, <3>2, <4>1, GoneTo DEF MatchedBy, Prepared, Late
    <3>3. QED
      BY <2>0, <2>1, <3>2 DEF Unpack
  <2>2. CASE InstallRecord(t)
    <3>1. /\ f.op = "install" /\ f.pc = "record" /\ Goto(t, "restart") /\ dirs' = dirs
      BY <2>2 DEF InstallRecord, In
    <3>2. QED
      BY <1>0, <2>0, <3>1, GoneTo DEF MatchedBy, Prepared, Fresh, Late
  <2>3. CASE UpgradeClear(t)
    <3>1. f.op = "upgrade" /\ f.pc = "clear" /\ installed' = installed
      BY <2>3 DEF UpgradeClear, In
    <3>2. ASSUME Goto(t, "download") PROVE MatchedBy(flow[t])'
      BY <1>0, <2>0, <3>1, <3>2, GoneTo DEF MatchedBy, Prepared, Fresh
    <3>3. QED
      BY <2>0, <2>3, <3>2 DEF UpgradeClear
  <2>4. CASE UninstallRemove(t)
    <3>1. f.op = "uninstall" /\ f.pc = "remove" /\ installed' = installed
      BY <2>4 DEF UninstallRemove, In
    <3>2. ASSUME Goto(t, "forget"), Fill(f.id, Colors, None) PROVE MatchedBy(flow[t])'
      <4>1. \A color \in Colors : dirs'[f.id][color] = None
        BY <1>0, <2>0, <3>2, FillTyped
      <4>2. QED
        BY <1>0, <2>0, <3>1, <3>2, <4>1, GoneTo DEF MatchedBy, Prepared
    <3>3. QED
      BY <2>0, <2>4, <3>2 DEF UninstallRemove
  <2>5. CASE UpgradeRecord(t) \/ UninstallForget(t)
    BY <2>0, <2>5 DEF UpgradeRecord, UninstallForget
  <2>6. CASE OrphanWrites(t)
    <3>1. /\ f.pc \in Orphaned /\ f.pc \in PCsOf(f.op)
          /\ f.op \in {"install", "upgrade", "uninstall"}
          /\ (End(t) \/ Goto(t, f.pc)) /\ installed' = installed
      BY <1>0, <2>6, OrphanMoves DEF OrphanWrites
    <3>2. ~Prepared(f) /\ f.pc # "forget"
      BY <3>1 DEF Prepared, Fresh, Orphaned, PCsOf
    <3>3. ASSUME Goto(t, f.pc) PROVE MatchedBy(flow[t])'
      BY <1>0, <2>0, <3>1, <3>2, <3>3, GoneTo DEF MatchedBy, Prepared
    <3>4. QED
      BY <2>0, <3>1, <3>3
  <2>7. QED
    BY <1>4, <2>1, <2>2, <2>3, <2>4, <2>5, <2>6 DEF Acts
<1>5. ASSUME NEW t \in Callers, Acts(t) \/ Quiet(t) PROVE Matched'
  BY <1>0, <1>3, <1>4, <1>5, ActsApart, MatchedOne
<1>6. QED
  BY <1>0, <1>1, <1>2, <1>5, InstallKinds

-----------------------------------------------------------------------------
(* The directories are a blue/green deployment.                            *)
Active ==
    [id \in Ids |->
        IF installed[id] = None THEN None
        ELSE [color |-> installed[id].color, ver |-> installed[id].ver]]

Removing == {id \in Ids : \E t \in Callers : flow[t].id = id /\ flow[t].op = "uninstall"}

LEMMA RemovingEnd ==
    ASSUME FlowsApart, FlowInv, NEW t \in Callers, flow[t].op # "none", End(t)
    PROVE  Removing' = IF flow[t].op = "uninstall" THEN Removing \ {flow[t].id}
                                                   ELSE Removing
<1>1. flow'[t].op = "none" /\ \A u \in Callers : u # t => flow'[u] = flow[u]
  BY DEF FlowInv, End, NoFlow
<1>2. ASSUME NEW id \in Ids, id \in Removing'
      PROVE  id \in Removing /\ (flow[t].op = "uninstall" => id # flow[t].id)
  <2>1. PICK u \in Callers : flow'[u].id = id /\ flow'[u].op = "uninstall"
    BY <1>2 DEF Removing
  <2>2. u # t /\ flow[u].id = id /\ flow[u].op = "uninstall"
    BY <1>1, <2>1
  <2>3. QED
    BY <2>2 DEF Removing, FlowsApart
<1>3. ASSUME NEW id \in Ids, id \in Removing, flow[t].op = "uninstall" => id # flow[t].id
      PROVE  id \in Removing'
  <2>1. PICK u \in Callers : flow[u].id = id /\ flow[u].op = "uninstall"
    BY <1>3 DEF Removing
  <2>2. flow'[u] = flow[u]
    BY <1>1, <1>3, <2>1
  <2>3. QED
    BY <2>1, <2>2 DEF Removing
<1>4. QED
  BY <1>2, <1>3 DEF Removing

LEMMA RemovingGoto ==
    ASSUME FlowInv, NEW t \in Callers, NEW to, Goto(t, to)
    PROVE  Removing' = Removing
<1>1. ASSUME NEW u \in Callers PROVE flow'[u].id = flow[u].id /\ flow'[u].op = flow[u].op
  BY GoneTo DEF FlowInv, Goto
<1>2. QED
  BY <1>1 DEF Removing

LEMMA ActiveStays == ASSUME UNCHANGED installed PROVE Active' = Active
BY DEF Active

LEMMA ActiveIs ==
    ASSUME FlowInv, NEW id \in Ids
    PROVE  /\ Active[id] = None <=> installed[id] = None
           /\ installed[id] # None =>
                /\ Active[id] = [color |-> installed[id].color, ver |-> installed[id].ver]
                /\ Active[id] \in Deployment!Deployed
<1>1. installed[id] \in Record \cup {None}
  BY DEF FlowInv
<1>2. installed[id] # None =>
        [color |-> installed[id].color, ver |-> installed[id].ver]
           \in [color : Colors, ver : Versions]
  BY <1>1 DEF Record
<1>3. QED
  BY <1>2, InstallAssumption DEF Active, Deployment!Deployed, Deployment!Colors, Colors

LEMMA Prepares ==
    ASSUME DiskInv, NEW id \in Ids, NEW color \in Colors,
           Deployment!Spare(id, color),
           \/ \E content \in Versions \cup {None} : Fill(id, {color}, content)
           \/ FillPartly(id, {color}),
           UNCHANGED <<installed, Removing>>
    PROVE  [Deployment!Next]_<<dirs, Active, Removing>>
<1>1. Active' = Active
  BY ActiveStays
<1>2. ASSUME NEW content \in Versions \cup {None}, Fill(id, {color}, content)
      PROVE  Deployment!Prepare(id, color)
  <2>1. dirs' = [dirs EXCEPT ![id][color] = content]
    BY <1>2 DEF DiskInv, Fill
  <2>2. QED
    BY <1>1, <2>1 DEF Deployment!Prepare, Active, Removing
<1>3. ASSUME Fill(id, {}, None) PROVE dirs' = dirs
  BY <1>3 DEF DiskInv, Fill
<1>4. CASE FillPartly(id, {color})
  <2>1. PICK cs \in SUBSET {color} : Fill(id, cs, None)
    BY <1>4 DEF FillPartly
  <2>2. cs = {} \/ cs = {color}
    OBVIOUS
  <2>3. QED
    BY <1>1, <1>2, <1>3, <2>1, <2>2 DEF Deployment!Next, Deployment!Colors, Colors
<1>5. QED
  BY <1>2, <1>4 DEF Deployment!Next, Deployment!Colors, Colors

LEMMA Dismantles ==
    ASSUME NEW id \in Removing, NEW cs \in SUBSET Colors, Fill(id, cs, None),
           Removing' \in {Removing, Removing \ {id}}, UNCHANGED installed
    PROVE  [Deployment!Next]_<<dirs, Active, Removing>>
<1>1. Active' = Active /\ id \in Ids
  BY ActiveStays DEF Removing
<1>2. Deployment!Dismantle(id)
  BY <1>1 DEF Deployment!Dismantle, Fill, Active, Removing, Deployment!Colors, Colors
<1>3. QED
  BY <1>1, <1>2 DEF Deployment!Next

(* A removal that ends without having touched anything more.               *)
LEMMA GivesUp ==
    ASSUME DiskInv, NEW id \in Removing, UNCHANGED <<dirs, installed>>,
           Removing' \in {Removing, Removing \ {id}}
    PROVE  [Deployment!Next]_<<dirs, Active, Removing>>
<1>1. id \in Ids
  BY DEF Removing
<1>2. Fill(id, {}, None)
  BY <1>1 DEF DiskInv, Fill
<1>3. QED
  BY <1>2, Dismantles

LEMMA RemovalBegins ==
    ASSUME NEW i \in Ids, Active[i] # None, i \notin Removing,
           Removing' = Removing \cup {i}, UNCHANGED <<dirs, Active>>
    PROVE  Deployment!BeginRemoval(i)
BY DEF Deployment!BeginRemoval, Active, Removing

LEMMA BlueGreenBegins ==
    ASSUME FlowsApart', InstallInv, NEW t \in Callers, FlowBegin(t)
    PROVE  [Deployment!Next]_<<dirs, Active, Removing>>
<1>0. FlowInv
  BY DEF InstallInv
<1>1. /\ flow[t].op = "none" /\ UNCHANGED <<installed, dirs>> /\ Active' = Active
  <2>1. flow[t].op = "none" /\ UNCHANGED <<installed, dirs>>
    BY DEF FlowBegin, UninstallBegin, InstallBegin, UpgradeBegin, Begin, In
  <2>2. QED
    BY <2>1, ActiveStays
<1>2. ASSUME NEW f, Begin(t, f)
      PROVE  /\ flow'[t] = f /\ \A u \in Callers : u # t => flow'[u] = flow[u]
             /\ Removing' = Removing \cup {id \in Ids : f.id = id /\ f.op = "uninstall"}
  <2>1. flow'[t] = f /\ \A u \in Callers : u # t => flow'[u] = flow[u]
    BY <1>0, <1>2 DEF FlowInv, Begin
  <2>2. QED
    BY <1>1, <2>1 DEF Removing
<1>3. ASSUME NEW id \in Ids, UninstallBegin(t, id) PROVE Deployment!BeginRemoval(id)
  <2> DEFINE f == [NoFlow EXCEPT !.op = "uninstall", !.pc = "status", !.id = id]
  <2>1. Begin(t, f) /\ f.id = id /\ f.op = "uninstall"
    BY <1>3 DEF UninstallBegin, NoFlow
  <2> HIDE DEF f
  <2>2. Removing' = Removing \cup {id}
    BY <1>2, <2>1
  <2>3. id \notin Removing
    <3>1. ASSUME NEW u \in Callers, flow[u].id = id, flow[u].op = "uninstall" PROVE FALSE
      BY <1>1, <1>2, <2>1, <3>1 DEF FlowsApart
    <3>2. QED
      BY <3>1 DEF Removing
  <2>4. Active[id] # None
    BY <1>0, <1>3, ActiveIs DEF UninstallBegin
  <2>5. QED
    BY <1>1, <2>2, <2>3, <2>4, RemovalBegins
<1>4. ASSUME NEW id \in Ids, NEW ver \in Versions,
             InstallBegin(t, id, ver) \/ UpgradeBegin(t, id, ver)
      PROVE  Removing' = Removing
  <2>1. PICK f : Begin(t, f) /\ f.op # "uninstall"
    BY <1>4 DEF InstallBegin, UpgradeBegin
  <2>2. QED
    BY <1>2, <2>1
<1>5. QED
  BY <1>1, <1>3, <1>4 DEF FlowBegin, Deployment!Next

LEMMA BlueGreenQuiet ==
    ASSUME FlowsApart, InstallInv, NEW t \in Callers, Quiet(t)
    PROVE  [Deployment!Next]_<<dirs, Active, Removing>>
<1>0. FlowInv /\ DiskInv /\ UNCHANGED <<installed, dirs>> /\ flow[t].op # "none"
  BY DEF InstallInv, Quiet
<1>1. CASE Removing' = Removing
  BY <1>0, <1>1, ActiveStays
<1>2. CASE Removing' # Removing
  <2>1. flow[t].id \in Removing /\ Removing' = Removing \ {flow[t].id}
    BY <1>0, <1>2, RemovingEnd, RemovingGoto DEF Quiet, Removing
  <2>2. QED
    BY <1>0, <2>1, GivesUp
<1>3. QED
  BY <1>1, <1>2

(* Filling the slot a flow prepares.                                       *)
LEMMA BlueGreenFills ==
    ASSUME FlowsApart, InstallInv, Matched, NEW t \in Callers,
           flow[t].pc \in {"clear", "clearing", "unpack", "unpacking"},
           \/ FillPartly(flow[t].id, {flow[t].cfg.color})
           \/ \E content \in Versions \cup {None} :
                 Fill(flow[t].id, {flow[t].cfg.color}, content),
           End(t) \/ \E to : Goto(t, to),
           UNCHANGED installed
    PROVE  [Deployment!Next]_<<dirs, Active, Removing>>
<1> DEFINE f == flow[t]
<1>0. FlowInv /\ Placed /\ DiskInv /\ MatchedBy(f)
  BY DEF InstallInv, Matched
<1>1. /\ f.op \in {"install", "upgrade"} /\ f.id \in Ids /\ f.cfg.color \in Colors
  BY <1>0, Unpacking
<1>2. Removing' = Removing
  BY <1>0, <1>1, RemovingEnd, RemovingGoto
<1>3. Deployment!Spare(f.id, f.cfg.color)
  <2>1. CASE f.op = "install"
    <3>1. installed[f.id] = None
      BY <1>0, <2>1 DEF MatchedBy, Late
    <3>2. QED
      BY <1>0, <1>1, <3>1, ActiveIs DEF Deployment!Spare, Active
  <2>2. CASE f.op = "upgrade"
    <3>1. installed[f.id] = f.old /\ f.cfg.color = Other(f.old.color) /\ f.old \in Record
      BY <1>0, <2>2, FlowTyped DEF MatchedBy
    <3>5. installed[f.id] # None
      BY <3>1, NoRecord
    <3>6. Active[f.id] # None
          /\ Active[f.id] = [color |-> installed[f.id].color, ver |-> installed[f.id].ver]
      BY <1>0, <1>1, <3>5, ActiveIs
    <3>2. Active[f.id] # None /\ Active[f.id].color = f.old.color
      BY <3>1, <3>6
    <3>3. f.old.color # f.cfg.color
      BY <3>1, OtherColor DEF Record
    <3>4. QED
      BY <3>2, <3>3 DEF Deployment!Spare, Active
  <2>3. QED
    BY <1>1, <2>1, <2>2
<1>4. QED
  BY <1>0, <1>1, <1>2, <1>3, Prepares

LEMMA SwitchesTo ==
    ASSUME FlowInv, NEW id \in Ids, NEW r \in Record, Deployment!Spare(id, r.color),
           dirs[id][r.color] = r.ver, installed' = [installed EXCEPT ![id] = r],
           UNCHANGED <<dirs, Removing>>
    PROVE  Deployment!Switch(id)
<1> DEFINE d == [color |-> r.color, ver |-> r.ver]
<1>1. d \in Deployment!Deployed /\ d.color = r.color /\ d.ver = r.ver
  BY DEF Record, Deployment!Deployed, Deployment!Colors, Colors
<1>2. r # None
  BY NoRecord
<1>3. Active' = [Active EXCEPT ![id] = d]
  BY <1>2 DEF FlowInv, Active
<1>4. QED
  BY <1>1, <1>3 DEF Deployment!Switch, Active, Removing

LEMMA BlueGreenRecords ==
    ASSUME FlowsApart, InstallInv, Matched, NEW t \in Callers,
           InstallRecord(t) \/ UpgradeRecord(t)
    PROVE  [Deployment!Next]_<<dirs, Active, Removing>>
<1> DEFINE f == flow[t]
           r == [ver |-> f.cfg.ver, color |-> f.cfg.color, port |-> PortOf[f.cfg.ver]]
<1>0. FlowInv /\ Placed /\ DiskInv /\ MatchedBy(f)
  BY DEF InstallInv, Matched
<1>1. /\ f.op \in {"install", "upgrade"} /\ f.pc = "record" /\ f.id \in Ids
      /\ f.cfg \in PackageConfig /\ dirs' = dirs /\ installed[f.id] \in Record \cup {None}
  BY <1>0, FlowTyped DEF InstallRecord, UpgradeRecord, In, FlowInv
<1>2. r \in Record
  BY <1>1 DEF PackageConfig, Record, Ports
<1>3. dirs[f.id][r.color] = r.ver
  BY <1>0, <1>1 DEF MatchedBy, Prepared, Fresh
<1>4. Removing' = Removing
  BY <1>0, <1>1, RemovingEnd, RemovingGoto DEF InstallRecord, UpgradeRecord
<1>5. CASE InstallRecord(t)
  <2>1. f.op = "install" /\ installed[f.id] = None
    BY <1>0, <1>1, <1>5 DEF InstallRecord, In, MatchedBy, Late
  <2>2. Deployment!Spare(f.id, r.color)
    BY <1>0, <1>1, <2>1, ActiveIs DEF Deployment!Spare, Active
  <2>3. installed' = [installed EXCEPT ![f.id] = r]
    BY <1>5 DEF InstallRecord
  <2>4. QED
    BY <1>0, <1>1, <1>2, <1>3, <1>4, <2>2, <2>3, SwitchesTo DEF Deployment!Next
<1>6. CASE UpgradeRecord(t)
  <2>1. /\ f.op = "upgrade" /\ installed[f.id] = f.old /\ f.cfg.color = Other(f.old.color)
        /\ f.old \in Record
    BY <1>0, <1>1, <1>6, FlowTyped DEF UpgradeRecord, In, MatchedBy
  <2>2. installed[f.id] # None
    BY <2>1, NoRecord
  <2>3. Active[f.id] = [color |-> installed[f.id].color, ver |-> installed[f.id].ver]
    BY <1>0, <1>1, <2>2, ActiveIs
  <2>4. r.color # f.old.color
    BY <2>1, OtherColor DEF Record
  <2>5. Active[f.id].color = f.old.color
    BY <2>1, <2>3
  <2>6. Deployment!Spare(f.id, r.color)
    BY <2>4, <2>5 DEF Deployment!Spare, Active
  <2>7. installed' = [installed EXCEPT ![f.id] = r]
    BY <1>6, <2>2 DEF UpgradeRecord
  <2>8. QED
    BY <1>0, <1>1, <1>2, <1>3, <1>4, <2>6, <2>7, SwitchesTo DEF Deployment!Next
<1>7. QED
  BY <1>5, <1>6

LEMMA BlueGreenRemoves ==
    ASSUME FlowsApart, InstallInv, Matched, NEW t \in Callers, flow[t].op = "uninstall",
           End(t) \/ \E to : Goto(t, to), UNCHANGED installed,
           \/ UNCHANGED dirs
           \/ FillPartly(flow[t].id, Colors)
           \/ Fill(flow[t].id, Colors, None)
    PROVE  [Deployment!Next]_<<dirs, Active, Removing>>
<1>0. FlowInv /\ DiskInv
  BY DEF InstallInv
<1>1. flow[t].id \in Removing
  BY <1>0, FlowTyped DEF Removing
<1>2. Removing' \in {Removing, Removing \ {flow[t].id}}
  BY <1>0, RemovingEnd, RemovingGoto
<1>3. CASE UNCHANGED dirs
  BY <1>0, <1>1, <1>2, <1>3, GivesUp
<1>4. CASE FillPartly(flow[t].id, Colors) \/ Fill(flow[t].id, Colors, None)
  BY <1>1, <1>2, <1>4, Dismantles DEF FillPartly
<1>5. QED
  BY <1>3, <1>4

LEMMA RemovalEnds ==
    ASSUME NEW i \in Ids, i \in Removing, \A color \in Colors : dirs[i][color] = None,
           Active' = [Active EXCEPT ![i] = None], Removing' = Removing \ {i},
           UNCHANGED dirs
    PROVE  Deployment!Forget(i)
BY DEF Deployment!Forget, Active, Removing, Deployment!Colors, Colors

LEMMA BlueGreenForgets ==
    ASSUME FlowsApart, InstallInv, Matched, NEW t \in Callers, UninstallForget(t)
    PROVE  [Deployment!Next]_<<dirs, Active, Removing>>
<1> DEFINE id == flow[t].id
<1>0. FlowInv /\ MatchedBy(flow[t])
  BY DEF InstallInv, Matched
<1>1. /\ flow[t].op = "uninstall" /\ flow[t].pc = "forget" /\ id \in Ids
      /\ installed' = [installed EXCEPT ![id] = None] /\ dirs' = dirs
  BY <1>0, FlowTyped DEF UninstallForget, In
<1>2. id \in Removing /\ Removing' = Removing \ {id}
  BY <1>0, <1>1, RemovingEnd DEF UninstallForget, Removing
<1>3. Active' = [Active EXCEPT ![id] = None]
  BY <1>0, <1>1 DEF FlowInv, Active
<1>4. \A color \in Colors : dirs[id][color] = None
  BY <1>0, <1>1 DEF MatchedBy
<1>5. QED
  BY <1>1, <1>2, <1>3, <1>4, RemovalEnds DEF Deployment!Next

LEMMA BlueGreenOrphans ==
    ASSUME FlowsApart, InstallInv, Matched, NEW t \in Callers, OrphanWrites(t)
    PROVE  [Deployment!Next]_<<dirs, Active, Removing>>
<1> DEFINE f == flow[t]
<1>0. /\ FlowInv /\ Placed /\ DiskInv /\ f.op \in {"install", "upgrade", "uninstall"}
      /\ f.pc \in PCsOf(f.op) /\ f.pc \in Orphaned
      /\ End(t) \/ Goto(t, f.pc)
      /\ installed' = installed
  BY OrphanMoves DEF InstallInv, OrphanWrites
<1>1. CASE f.pc \in {"clearing", "unpacking"}
  <2>1. f.cfg.ver \in Versions
    BY <1>0, <1>1, Unpacking
  <2>2. FillPartly(f.id, {f.cfg.color}) \/ Fill(f.id, {f.cfg.color}, f.cfg.ver)
    BY <1>1 DEF OrphanWrites
  <2>3. QED
    BY <1>0, <1>1, <2>1, <2>2, BlueGreenFills
<1>2. CASE f.pc = "removing"
  <2>1. f.op = "uninstall" /\ FillPartly(f.id, Colors)
    BY <1>0, <1>2 DEF OrphanWrites, PCsOf
  <2>2. QED
    BY <1>0, <2>1, BlueGreenRemoves
<1>3. QED
  BY <1>0, <1>1, <1>2 DEF Orphaned

LEMMA BlueGreenStep ==
    ASSUME FlowsApart, FlowsApart', InstallInv, Matched, [InstallNext]_allvars
    PROVE  [Deployment!Next]_<<dirs, Active, Removing>>
<1>1. CASE UNCHANGED ivars
  BY <1>1 DEF ivars, Active, Removing
<1>2. ASSUME NEW t \in Callers, Acts(t)
      PROVE  [Deployment!Next]_<<dirs, Active, Removing>>
  <2> DEFINE f == flow[t]
  <2>0. /\ FlowInv /\ Placed /\ f.op \in {"install", "upgrade", "uninstall"}
        /\ End(t) \/ \E to : Goto(t, to)
    BY <1>2, ActsMove DEF InstallInv
  <2>1. CASE Unpack(t)
    <3>1. f.pc = "unpack" /\ f.cfg.ver \in Versions
      BY <2>0, <2>1, Unpacking DEF Unpack
    <3>2. QED
      BY <2>0, <2>1, <3>1, BlueGreenFills DEF Unpack
  <2>2. CASE UpgradeClear(t)
    <3>1. f.pc = "clear" /\ f.op = "upgrade"
      BY <2>2 DEF UpgradeClear, In
    <3>2. QED
      BY <2>0, <2>2, <3>1, BlueGreenFills DEF UpgradeClear
  <2>3. CASE InstallRecord(t) \/ UpgradeRecord(t)
    BY <2>3, BlueGreenRecords
  <2>4. CASE UninstallRemove(t)
    BY <2>0, <2>4, BlueGreenRemoves DEF UninstallRemove, In
  <2>5. CASE UninstallForget(t)
    BY <2>5, BlueGreenForgets
  <2>6. CASE OrphanWrites(t)
    BY <2>6, BlueGreenOrphans
  <2>7. QED
    BY <1>2, <2>1, <2>2, <2>3, <2>4, <2>5, <2>6 DEF Acts
<1>3. FlowInv /\ Placed
  BY DEF InstallInv
<1>4. QED
  BY <1>1, <1>2, <1>3, InstallKinds, BlueGreenBegins, BlueGreenQuiet

LEMMA BlueGreenInit == InstallInit => Deployment!Init
BY DEF InstallInit, NoFlow, Deployment!Init, Deployment!Colors, Colors

LEMMA MatchedInvariant == InstallSpec /\ []FlowsApart => [](InstallInv /\ Matched)
<1>1. InstallInit => InstallInv /\ Matched
  BY InstallInitially, PlacedInit, DiskInit, MatchedInit DEF InstallInv
<1>2. InstallInv /\ Matched /\ FlowsApart /\ [InstallNext]_allvars
        => (InstallInv /\ Matched)'
  BY MatchedStep, InstallSimulates, PlacedStep, DiskStep DEF InstallInv
<1>3. QED
  BY <1>1, <1>2, PTL DEF InstallSpec

(* As long as no flow begins on an application while another one, or the   *)
(* thread of a dropped one, is still at it, the directories are a          *)
(* blue/green deployment, however the flows fail and wherever they are     *)
(* dropped, and whatever else is asked of the agents meanwhile.            *)
THEOREM InstallerIsBlueGreen == InstallSpec /\ []FlowsApart => RefinesBlueGreen
<1>1. InstallInit => Deployment!Init
  BY BlueGreenInit
<1>2. InstallInv /\ Matched /\ FlowsApart /\ FlowsApart' /\ [InstallNext]_allvars
         => [Deployment!Next]_<<dirs, Active, Removing>>
  BY BlueGreenStep
<1>3. QED
  BY <1>1, <1>2, MatchedInvariant, PTL
  DEF InstallSpec, RefinesBlueGreen, Deployment!Spec, Deployment!deployment, Active, Removing

-----------------------------------------------------------------------------
(* A step of one request keeps the files of the recorded version.          *)
Kept(id) ==
    /\ installed[id] # None /\ installed'[id] # None
    /\ dirs[id][installed[id].color] = installed[id].ver
    /\ ~\E t \in Callers : flow[t].id = id /\ flow[t].op = "uninstall"
    => dirs'[id][installed'[id].color] = installed'[id].ver

LEMMA KeptFilling ==
    ASSUME InstallInv, Matched, NEW t \in Callers, NEW id \in Ids,
           flow[t].pc \in {"clear", "clearing", "unpack", "unpacking"},
           UNCHANGED installed,
           \/ FillPartly(flow[t].id, {flow[t].cfg.color})
           \/ \E content \in Versions \cup {None} :
                 Fill(flow[t].id, {flow[t].cfg.color}, content)
    PROVE  Kept(id)
<1> DEFINE f == flow[t]
<1> SUFFICES ASSUME installed[id] # None PROVE dirs'[id][installed[id].color]
                                                 = dirs[id][installed[id].color]
  BY DEF Kept
<1>0. FlowInv /\ Placed /\ DiskInv /\ MatchedBy(f)
  BY DEF InstallInv, Matched
<1>1. /\ f.op \in {"install", "upgrade"} /\ f.id \in Ids /\ f.cfg.color \in Colors
      /\ installed[id].color \in Colors
  BY <1>0, Unpacking DEF FlowInv, Record
<1>2. id # f.id \/ installed[id].color # f.cfg.color
  <2>1. CASE f.op = "install"
    BY <1>0, <2>1 DEF MatchedBy, Late
  <2>2. CASE f.op = "upgrade"
    <3>1. installed[f.id] = f.old /\ f.cfg.color = Other(f.old.color) /\ f.old \in Record
      BY <1>0, <2>2, FlowTyped DEF MatchedBy
    <3>2. QED
      BY <3>1, OtherColor DEF Record
  <2>3. QED
    BY <1>1, <2>1, <2>2
<1>3. QED
  BY <1>0, <1>1, <1>2, FillTyped, PartlyTyped

LEMMA KeptStep ==
    ASSUME FlowsApart, InstallInv, Matched, [InstallNext]_allvars, NEW id \in Ids
    PROVE  Kept(id)
<1>0. FlowInv /\ Placed /\ DiskInv
  BY DEF InstallInv
<1>1. ASSUME UNCHANGED <<installed, dirs>> PROVE Kept(id)
  BY <1>1 DEF Kept
<1>2. ASSUME NEW t \in Callers, FlowBegin(t) \/ Quiet(t) PROVE Kept(id)
  BY <1>1, <1>2
     DEF FlowBegin, UninstallBegin, InstallBegin, UpgradeBegin, Begin, Quiet
<1>3. ASSUME NEW t \in Callers, flow[t].op = "uninstall", UNCHANGED installed,
             FillPartly(flow[t].id, Colors) \/ Fill(flow[t].id, Colors, None)
      PROVE  Kept(id)
  <2>1. flow[t].id \in Ids
    BY <1>0, <1>3, FlowTyped
  <2>2. installed[id] # None => installed[id].color \in Colors
    BY <1>0 DEF FlowInv, Record
  <2>3. flow[t].id # id /\ installed[id] # None =>
           dirs'[id][installed[id].color] = dirs[id][installed[id].color]
    BY <1>0, <1>3, <2>1, <2>2, FillTyped, PartlyTyped
  <2>4. QED
    BY <1>3, <2>3 DEF Kept
<1>4. ASSUME NEW t \in Callers, Acts(t) PROVE Kept(id)
  <2> DEFINE f == flow[t]
  <2>1. CASE Unpack(t)
    <3>1. f.pc = "unpack" /\ f.cfg.ver \in Versions
      BY <1>0, <2>1, Unpacking DEF Unpack
    <3>2. QED
      BY <2>1, <3>1, KeptFilling DEF Unpack
  <2>2. CASE UpgradeClear(t)
    BY <2>2, KeptFilling DEF UpgradeClear, In
  <2>3. CASE InstallRecord(t) \/ UpgradeRecord(t)
    <3> DEFINE r == [ver |-> f.cfg.ver, color |-> f.cfg.color, port |-> PortOf[f.cfg.ver]]
    <3>1. /\ f.op \in {"install", "upgrade"} /\ f.pc = "record" /\ dirs' = dirs
          /\ \/ installed' = [installed EXCEPT ![f.id] = r]
             \/ installed' = installed
      BY <1>0, <2>3 DEF InstallRecord, UpgradeRecord, In, FlowInv
    <3>2. dirs[f.id][r.color] = r.ver
      BY <3>1 DEF Matched, MatchedBy, Prepared, Fresh
    <3>3. CASE installed' = [installed EXCEPT ![f.id] = r]
      <4>1. installed'[id] = IF id = f.id THEN r ELSE installed[id]
        BY <1>0, <3>3 DEF FlowInv
      <4>2. QED
        BY <3>1, <3>2, <4>1 DEF Kept
    <3>4. QED
      BY <1>1, <3>1, <3>3
  <2>4. CASE UninstallRemove(t)
    BY <1>3, <2>4 DEF UninstallRemove, In
  <2>5. CASE UninstallForget(t)
    BY <1>0, <2>5 DEF UninstallForget, FlowInv, Kept
  <2>6. CASE OrphanWrites(t)
    <3>1. /\ f.pc \in Orphaned /\ f.pc \in PCsOf(f.op) /\ installed' = installed
          /\ f.op \in {"install", "upgrade", "uninstall"}
      BY <1>0, <2>6, OrphanMoves DEF OrphanWrites
    <3>2. CASE f.pc \in {"clearing", "unpacking"}
      <4>1. f.cfg.ver \in Versions
        BY <1>0, <3>2, Unpacking
      <4>2. FillPartly(f.id, {f.cfg.color}) \/ Fill(f.id, {f.cfg.color}, f.cfg.ver)
        BY <2>6, <3>2 DEF OrphanWrites
      <4>3. QED
        BY <3>1, <3>2, <4>1, <4>2, KeptFilling
    <3>3. CASE f.pc = "removing"
      <4>1. f.op = "uninstall" /\ FillPartly(f.id, Colors)
        BY <2>6, <3>1, <3>3 DEF OrphanWrites, PCsOf
      <4>2. QED
        BY <1>3, <3>1, <4>1
    <3>4. QED
      BY <3>1, <3>2, <3>3 DEF Orphaned
  <2>7. QED
    BY <1>4, <2>1, <2>2, <2>3, <2>4, <2>5, <2>6 DEF Acts
<1>5. QED
  BY <1>0, <1>1, <1>2, <1>4, InstallKinds DEF ivars

(* As long as no flow begins on an application while another one, or the   *)
(* thread of a dropped one, is still at it, none but an uninstall takes    *)
(* away the files of the recorded version, however the flows fail and      *)
(* wherever they are dropped.                                              *)
THEOREM FilesAreKept == InstallSpec /\ []FlowsApart => RecordedFilesKept
<1>1. InstallInv /\ Matched /\ FlowsApart /\ [InstallNext]_allvars
        => [\A id \in Ids :
              /\ installed[id] # None /\ installed'[id] # None
              /\ dirs[id][installed[id].color] = installed[id].ver
              /\ ~\E t \in Callers : flow[t].id = id /\ flow[t].op = "uninstall"
              => dirs'[id][installed'[id].color] = installed'[id].ver]_allvars
  BY KeptStep DEF Kept
<1>2. QED
  BY <1>1, MatchedInvariant, PTL DEF InstallSpec, RecordedFilesKept

-----------------------------------------------------------------------------
(* While a flow works on an application, no other request does.  Flows of  *)
(* other applications, and starts, stops and restarts of applications that *)
(* no flow works on, may overlap in any number.                            *)
Works(t, id) == flow[t].id = id \/ call[t].id = id

Exclusive ==
    \A t, u \in Callers : flow[t].op # "none" /\ Works(u, flow[t].id) => t = u

(* What is then known of an application with handle h, record r and a flow *)
(* f at position pc that has the call c in progress.                       *)
AsRecorded(h, r) == h # None => h.cfg.ver = r.ver /\ h.cfg.color = r.color

AtRest(h, r) == IF r = None THEN h = None ELSE AsRecorded(h, r)

InstallStage(f, pc, h, r, c) ==
    /\ IF pc \in Late THEN r # None /\ AsRecorded(h, r) ELSE r = None
    /\ pc \in {"mkdir", "download", "unpack", "register", "reregister"} => h = None
    /\ pc \in {"health", "stop"} => Runs(h)
    /\ pc = "record" => h # None /\ h.cfg = f.cfg
    /\ pc = "started" /\ c.pc = "idle" /\ c.res = "ok" => Runs(h)
    /\ pc = "stopped" /\ c.pc = "idle" => c.res = "ok"

UpgradeStage(f, pc, h, r, c) ==
    /\ r = f.old /\ f.cfg.color # f.old.color
    /\ pc \in {"clear", "download", "unpack", "stop", "stopped", "unregister"} \cup Late
         => AsRecorded(h, r)
    /\ pc \in {"register", "reregister"} => h = None
    /\ pc \in {"start", "started", "health", "record"} => h # None /\ h.cfg = f.cfg
    /\ pc = "health" => Runs(h)
    /\ pc = "started" /\ c.pc = "idle" /\ c.res = "ok" => Runs(h)
    /\ pc = "giveup" /\ c.pc = "idle" => c.res = "ok"

UninstallStage(pc, h, r) ==
    /\ r # None
    /\ pc \in {"status", "stop", "stopped", "unregister"} => AsRecorded(h, r)
    /\ pc \in {"remove", "forget"} => h = None

(* The calls that each position awaits.                                    *)
AwaitsStart(pc) == pc \in {"started", "restarted"}
AwaitsStop(op, pc) == pc \in {"stopped", "giveup"} \/ (op = "install" /\ pc = "rollback")

CallStage(f, pc, c) ==
    c.pc # "idle" =>
        /\ c.id = f.id /\ ~c.again
        /\ \/ AwaitsStart(pc) /\ c.pc \in {"spawn", "commit"}
           \/ AwaitsStop(f.op, pc) /\ c.pc \in {"wait", "kill", "clear"}

StageAt(f, pc, h, r, c) ==
    /\ f.op = "install" => InstallStage(f, pc, h, r, c)
    /\ f.op = "upgrade" => UpgradeStage(f, pc, h, r, c)
    /\ f.op = "uninstall" => UninstallStage(pc, h, r)
    /\ CallStage(f, pc, c)

Staged ==
    \A t \in Callers : flow[t].op # "none" =>
        StageAt(flow[t], flow[t].pc, agents[flow[t].id], installed[flow[t].id], call[t])

Flowing(id) == \E t \in Callers : flow[t].op # "none" /\ flow[t].id = id

Resting == \A id \in Ids : ~Flowing(id) => AtRest(agents[id], installed[id])

Starting ==
    \A t \in Callers :
        call[t].pc # "idle" => StartsConfig(call[t], agents[call[t].id])

(* What a step of the flow of t leaves behind.                             *)
Lands(t) ==
    LET id == flow[t].id
    IN  /\ OnlyTouches(t, id)
        /\ \A j \in Ids : j # id => installed'[j] = installed[j]
        /\ StartsConfig(call'[t], agents'[id])
        /\ call'[t].pc # "idle" => call'[t].id = id
        /\ \/ End(t) /\ AtRest(agents'[id], installed'[id])
           \/ \E to \in FlowPCs :
                 /\ Goto(t, to)
                 /\ StageAt(flow[t], to, agents'[id], installed'[id], call'[t])

LEMMA MovesLands ==
    ASSUME NEW t \in Callers, At(t, "idle"), UNCHANGED <<agents, call>>
    PROVE  /\ OnlyTouches(t, flow[t].id) /\ StartsConfig(call'[t], agents'[flow[t].id])
           /\ call'[t].pc = "idle" /\ call'[t] = call[t]
           /\ agents'[flow[t].id] = agents[flow[t].id]
BY DEF At, OnlyTouches, StartsConfig

LEMMA DoRegisterEffect ==
    ASSUME TypeOK, FlowInv, NEW t \in Callers, flow[t].op # "none",
           NEW cfg \in PackageConfig, DoRegister(t, cfg)
    PROVE  /\ OnlyTouches(t, flow[t].id) /\ call' = call
           /\ agents'[flow[t].id] # None /\ agents'[flow[t].id].cfg = cfg
<1>1. flow[t].id \in Ids /\ cfg \in Configs /\ t \in Tasks
  BY FlowTyped, InstallAssumption DEF Tasks
<1>2. QED
  BY <1>1, RegisterEffect DEF DoRegister

LEMMA DoUnregisterEffect ==
    ASSUME TypeOK, FlowInv, NEW t \in Callers, flow[t].op # "none", DoUnregister(t)
    PROVE  /\ OnlyTouches(t, flow[t].id) /\ call' = call
           /\ agents'[flow[t].id] = None
<1>1. flow[t].id \in Ids /\ t \in Tasks
  BY FlowTyped DEF Tasks
<1>2. CASE Unregister(t, flow[t].id)
  BY <1>1, <1>2, UnregisterEffect
<1>3. CASE agents[flow[t].id] = None /\ UNCHANGED vars
  BY <1>3 DEF vars, OnlyTouches
<1>4. QED
  BY <1>2, <1>3 DEF DoUnregister

LEMMA FlowStarts ==
    ASSUME TypeOK, FlowInv, NEW t \in Callers, flow[t].op # "none",
           StartSection(t, flow[t].id)
    PROVE  /\ OnlyTouches(t, flow[t].id)
           /\ KeepsConfig(agents[flow[t].id], agents'[flow[t].id])
           /\ StartMoves(call'[t], flow[t].id, agents'[flow[t].id])
           /\ StartsConfig(call'[t], agents'[flow[t].id])
           /\ call'[t].pc # "idle" => call'[t].id = flow[t].id
<1>1. flow[t].id \in Ids /\ t \in Tasks
  BY FlowTyped DEF Tasks
<1>2. QED
  BY <1>1, StartEffect DEF StartMoves, StartsConfig

LEMMA FlowStops ==
    ASSUME TypeOK, FlowInv, NEW t \in Callers, flow[t].op # "none",
           StopSection(t, flow[t].id, FALSE)
    PROVE  /\ OnlyTouches(t, flow[t].id)
           /\ KeepsConfig(agents[flow[t].id], agents'[flow[t].id])
           /\ Runs(agents[flow[t].id]) => call'[t].pc # "idle"
           /\ StartsConfig(call'[t], agents'[flow[t].id])
           /\ call'[t].pc # "idle" => /\ call'[t].pc \in {"wait", "clear"}
                                      /\ call'[t].id = flow[t].id /\ ~call'[t].again
<1>1. flow[t].id \in Ids /\ t \in Tasks
  BY FlowTyped DEF Tasks
<1>2. QED
  BY <1>1, StopEffect DEF StopMoves, StartsConfig

LEMMA InstallLands ==
    ASSUME TypeOK, FlowInv, NEW t \in Callers, flow[t].op = "install", InstallStep(t),
           StageAt(flow[t], flow[t].pc, agents[flow[t].id], installed[flow[t].id], call[t])
    PROVE  Lands(t)
<1> DEFINE id == flow[t].id
<1>0. flow[t].cfg \in PackageConfig /\ id \in Ids /\ flow[t].op # "none"
  BY FlowTyped
<1> USE DEF Lands, StageAt, InstallStage, CallStage, In, At, FlowPCs, Late
<1>1. CASE InstallMkdir(t)
  BY <1>1, MovesLands DEF InstallMkdir, Moves, Ends, vars, AtRest
<1>2. CASE InstallRegister(t)
  <2>1. CASE DoRegister(t, flow[t].cfg) /\ Goto(t, "start")
    BY <1>0, <1>2, <2>1, DoRegisterEffect DEF InstallRegister, StartsConfig
  <2>2. CASE End(t) /\ UNCHANGED vars
    BY <1>2, <2>2, MovesLands DEF InstallRegister, vars, AtRest
  <2>3. QED
    BY <1>2, <2>1, <2>2 DEF InstallRegister
<1>3. CASE InstallStart(t)
  BY <1>0, <1>3, FlowStarts DEF InstallStart, Starts, StartMoves, AwaitsStart
<1>4. CASE InstallStarted(t)
  BY <1>4, MovesLands DEF InstallStarted, Moves, vars, Succeeded
<1>5. CASE InstallHealth(t)
  <2>1. CASE Moves(t, "install", "health", "stop")
    BY <1>5, <2>1, MovesLands DEF Moves, vars
  <2>2. CASE Stops(t, "install", "health", "rollback")
    BY <1>0, <2>2, FlowStops DEF Stops, AwaitsStop
  <2>3. QED
    BY <1>5, <2>1, <2>2 DEF InstallHealth
<1>6. CASE InstallRollback(t)
  BY <1>0, <1>6, DoUnregisterEffect DEF InstallRollback, StartsConfig, AtRest
<1>7. CASE InstallStop(t)
  BY <1>0, <1>7, FlowStops DEF InstallStop, Stops, AwaitsStop
<1>8. CASE InstallStopped(t)
  BY <1>8, MovesLands DEF InstallStopped, Checked, Moves, Ends, vars, Succeeded
<1>9. CASE InstallUnregister(t)
  BY <1>0, <1>9, DoUnregisterEffect DEF InstallUnregister, Unregisters, StartsConfig
<1>10. CASE InstallReregister(t)
  BY <1>0, <1>10, DoRegisterEffect DEF InstallReregister, Registers, StartsConfig
<1>11. CASE InstallRecord(t)
  <2> DEFINE r == [ver |-> flow[t].cfg.ver, color |-> flow[t].cfg.color,
                   port |-> PortOf[flow[t].cfg.ver]]
  <2>1. r # None
    <3>1. r \in Record
      BY <1>0 DEF PackageConfig, Record, Ports
    <3>2. QED
      BY <3>1, NoRecord
  <2>2. installed' = [installed EXCEPT ![id] = r] /\ UNCHANGED vars
    BY <1>11 DEF InstallRecord
  <2>3. r.ver = flow[t].cfg.ver /\ r.color = flow[t].cfg.color
    OBVIOUS
  <2> HIDE DEF r
  <2>4. installed'[id] = r /\ \A j \in Ids : j # id => installed'[j] = installed[j]
    BY <1>0, <2>2 DEF FlowInv
  <2>5. /\ flow[t].pc = "record" /\ Goto(t, "restart") /\ call[t].pc = "idle"
        /\ UNCHANGED <<agents, call>> /\ agents[id].cfg = flow[t].cfg
    BY <1>11, <2>2 DEF InstallRecord, vars
  <2>6. /\ OnlyTouches(t, id) /\ StartsConfig(call'[t], agents'[id])
        /\ call'[t].pc = "idle" /\ agents'[id] = agents[id]
    BY <2>5, MovesLands
  <2>7. AsRecorded(agents'[id], installed'[id])
    BY <2>3, <2>4, <2>5, <2>6 DEF AsRecorded
  <2>8. StageAt(flow[t], "restart", agents'[id], installed'[id], call'[t])
    BY <2>1, <2>4, <2>6, <2>7
  <2>9. QED
    BY <2>4, <2>5, <2>6, <2>8
<1>12. CASE InstallRestart(t)
  BY <1>0, <1>12, FlowStarts
  DEF InstallRestart, Starts, StartMoves, AwaitsStart, KeepsConfig, AsRecorded
<1>13. CASE InstallEnd(t)
  BY <1>13, MovesLands DEF InstallEnd, vars, AtRest
<1>14. QED
  BY <1>1, <1>2, <1>3, <1>4, <1>5, <1>6, <1>7, <1>8, <1>9, <1>10, <1>11, <1>12, <1>13
  DEF InstallStep

LEMMA UpgradeLands ==
    ASSUME TypeOK, FlowInv, NEW t \in Callers, flow[t].op = "upgrade", UpgradeStep(t),
           StageAt(flow[t], flow[t].pc, agents[flow[t].id], installed[flow[t].id], call[t])
    PROVE  Lands(t)
<1> DEFINE id == flow[t].id
<1>0. /\ flow[t].cfg \in PackageConfig /\ id \in Ids /\ flow[t].op # "none"
      /\ flow[t].old \in PackageConfig /\ flow[t].old # None
  BY FlowTyped, RecordIsConfig, NoRecord
<1> USE DEF Lands, StageAt, UpgradeStage, CallStage, In, At, FlowPCs, Late
<1>1. CASE UpgradeClear(t)
  BY <1>0, <1>1, MovesLands DEF UpgradeClear, vars, AtRest
<1>2. CASE UpgradeStop(t)
  BY <1>0, <1>2, FlowStops
  DEF UpgradeStop, AwaitsStop, KeepsConfig, AsRecorded
<1>3. CASE UpgradeStopped(t)
  BY <1>0, <1>3, MovesLands DEF UpgradeStopped, Checked, Moves, Ends, vars, AtRest
<1>4. CASE UpgradeUnregister(t)
  BY <1>0, <1>4, DoUnregisterEffect DEF UpgradeUnregister, Unregisters, StartsConfig
<1>5. CASE UpgradeRegister(t)
  BY <1>0, <1>5, DoRegisterEffect DEF UpgradeRegister, Registers, StartsConfig
<1>6. CASE UpgradeStart(t)
  BY <1>0, <1>6, FlowStarts
  DEF UpgradeStart, Starts, StartMoves, AwaitsStart, KeepsConfig
<1>7. CASE UpgradeStarted(t)
  BY <1>7, MovesLands DEF UpgradeStarted, Moves, vars, Succeeded
<1>8. CASE UpgradeHealth(t)
  <2>1. CASE Moves(t, "upgrade", "health", "record")
    BY <1>8, <2>1, MovesLands DEF Moves, vars
  <2>2. CASE Stops(t, "upgrade", "health", "giveup")
    BY <1>0, <2>2, FlowStops DEF Stops, AwaitsStop
  <2>3. QED
    BY <1>8, <2>1, <2>2 DEF UpgradeHealth
<1>9. CASE UpgradeGiveUp(t)
  BY <1>9, MovesLands DEF UpgradeGiveUp, Checked, Moves, Ends, vars, Succeeded
<1>10. CASE UpgradeRollback(t)
  BY <1>0, <1>10, DoUnregisterEffect DEF UpgradeRollback, Unregisters, StartsConfig
<1>11. CASE UpgradeReregister(t)
  BY <1>0, <1>11, DoRegisterEffect
  DEF UpgradeReregister, Registers, StartsConfig, AsRecorded
<1>12. CASE UpgradeRestart(t)
  BY <1>0, <1>12, FlowStarts
  DEF UpgradeRestart, Starts, StartMoves, AwaitsStart, KeepsConfig, AsRecorded
<1>13. CASE UpgradeRestarted(t)
  BY <1>0, <1>13, MovesLands DEF UpgradeRestarted, Ends, vars, AtRest
<1>14. CASE UpgradeRecord(t)
  <2> DEFINE r == [ver |-> flow[t].cfg.ver, color |-> flow[t].cfg.color,
                   port |-> PortOf[flow[t].cfg.ver]]
  <2>1. installed[id] # None
    BY <1>0
  <2>2. installed' = [installed EXCEPT ![id] = r] /\ UNCHANGED vars
    BY <1>0, <1>14, <2>1 DEF UpgradeRecord, FlowInv
  <2>3. r.ver = flow[t].cfg.ver /\ r.color = flow[t].cfg.color
    OBVIOUS
  <2>4. r # None
    <3>1. r \in Record
      BY <1>0 DEF PackageConfig, Record, Ports
    <3>2. QED
      BY <3>1, NoRecord
  <2> HIDE DEF r
  <2>5. installed'[id] = r /\ \A j \in Ids : j # id => installed'[j] = installed[j]
    BY <1>0, <2>2 DEF FlowInv
  <2>6. At(t, "idle") /\ End(t) /\ agents[id].cfg = flow[t].cfg
    BY <1>14 DEF UpgradeRecord
  <2>7. AtRest(agents[id], r)
    BY <2>3, <2>4, <2>6 DEF AtRest, AsRecorded
  <2>8. QED
    BY <2>2, <2>5, <2>6, <2>7, MovesLands DEF vars
<1>15. QED
  BY <1>1, <1>2, <1>3, <1>4, <1>5, <1>6, <1>7, <1>8, <1>9, <1>10, <1>11, <1>12, <1>13,
     <1>14 DEF UpgradeStep

LEMMA UninstallLands ==
    ASSUME TypeOK, FlowInv, NEW t \in Callers, flow[t].op = "uninstall", UninstallStep(t),
           StageAt(flow[t], flow[t].pc, agents[flow[t].id], installed[flow[t].id], call[t])
    PROVE  Lands(t)
<1> DEFINE id == flow[t].id
<1>0. id \in Ids /\ flow[t].op # "none"
  BY FlowTyped
<1> USE DEF Lands, StageAt, UninstallStage, CallStage, In, At, FlowPCs, Late
<1>1. CASE UninstallStatus(t)
  BY <1>1, MovesLands DEF UninstallStatus, Moves, vars
<1>2. CASE UninstallStop(t)
  BY <1>0, <1>2, FlowStops
  DEF UninstallStop, Stops, AwaitsStop, KeepsConfig, AsRecorded
<1>3. CASE UninstallStopped(t)
  BY <1>3, MovesLands DEF UninstallStopped, Checked, Moves, Ends, vars, AtRest
<1>4. CASE UninstallUnregister(t)
  BY <1>0, <1>4, DoUnregisterEffect DEF UninstallUnregister, Unregisters, StartsConfig
<1>5. CASE UninstallRemove(t)
  BY <1>5, MovesLands DEF UninstallRemove, vars, AtRest, AsRecorded
<1>6. CASE UninstallForget(t)
  <2>1. installed'[id] = None /\ \A j \in Ids : j # id => installed'[j] = installed[j]
    BY <1>0, <1>6 DEF UninstallForget, FlowInv
  <2>2. QED
    BY <1>6, <2>1, MovesLands DEF UninstallForget, vars, AtRest
<1>7. QED
  BY <1>1, <1>2, <1>3, <1>4, <1>5, <1>6 DEF UninstallStep

LEMMA DiskLands ==
    ASSUME FlowInv, Placed, NEW t \in Callers, flow[t].op # "none",
           Download(t) \/ Unpack(t),
           StageAt(flow[t], flow[t].pc, agents[flow[t].id], installed[flow[t].id], call[t])
    PROVE  Lands(t)
<1>0. flow[t].op \in {"install", "upgrade"}
  BY DEF FlowInv, Flow, Placed, PCsOf, Download, Unpack
<1>1. flow[t].op = "upgrade" => flow[t].old # None
  BY FlowTyped, NoRecord
<1> USE DEF Lands, StageAt, InstallStage, UpgradeStage, CallStage, At, FlowPCs, Late
<1>2. CASE Download(t)
  BY <1>0, <1>1, <1>2, MovesLands DEF Download, vars, AtRest, AsRecorded
<1>3. CASE Unpack(t)
  BY <1>0, <1>1, <1>3, MovesLands DEF Unpack, vars, AtRest, AsRecorded
<1>4. QED
  BY <1>2, <1>3

(* An operation's steps are taken by the flows of this operation.          *)
LEMMA FlowLands ==
    ASSUME TypeOK, FlowInv, Placed, NEW t \in Callers, FlowStep(t),
           flow[t].op # "none" => 
             StageAt(flow[t], flow[t].pc, agents[flow[t].id], installed[flow[t].id], call[t])
    PROVE  Lands(t) /\ flow[t].op # "none" /\ flow[t].id \in Ids
<1>1. flow[t].op # "none" /\ flow[t].id \in Ids
  BY ActsOrQuiet, ActsMove
<1>2. InstallStep(t) => flow[t].op = "install"
  BY DEF InstallStep, InstallMkdir, InstallRegister, InstallStart, InstallStarted,
         InstallHealth, InstallRollback, InstallStop, InstallStopped, InstallUnregister,
         InstallReregister, InstallRecord, InstallRestart, InstallEnd, Checked, Moves,
         Ends, Starts, Stops, Registers, Unregisters, In
<1>3. UpgradeStep(t) => flow[t].op = "upgrade"
  BY DEF UpgradeStep, UpgradeClear, UpgradeStop, UpgradeStopped, UpgradeUnregister,
         UpgradeRegister, UpgradeStart, UpgradeStarted, UpgradeHealth, UpgradeGiveUp,
         UpgradeRollback, UpgradeReregister, UpgradeRestart, UpgradeRestarted,
         UpgradeRecord, Checked, Moves, Ends, Starts, Stops, Registers, Unregisters, In
<1>4. UninstallStep(t) => flow[t].op = "uninstall"
  BY DEF UninstallStep, UninstallStatus, UninstallStop, UninstallStopped,
         UninstallUnregister, UninstallRemove, UninstallForget, Checked, Moves, Ends,
         Stops, Unregisters, In
<1>5. QED
  BY <1>1, <1>2, <1>3, <1>4, InstallLands, UpgradeLands, UninstallLands, DiskLands
  DEF FlowStep

(* One caller's step.  Whoever else works on the application it touches    *)
(* is not a flow, and then only its configuration matters, which is kept.  *)
LEMMA CallerStep ==
    ASSUME TypeOK, FlowInv, Staged, Resting, Starting, Exclusive, Exclusive',
           NEW t \in Callers, NEW id \in Ids,
           OnlyTouches(t, id), Works(t, id) \/ Works(t, id)',
           \A j \in Ids : j # id => installed'[j] = installed[j],
           \A u \in Callers : u # t => flow'[u] = flow[u],
           flow[t].op # "none" => flow[t].id = id,
           flow[t].op = "none" /\ flow'[t].op = "none" =>
              KeepsConfig(agents[id], agents'[id]),
           StartsConfig(call'[t], agents'[id]),
           call'[t].pc # "idle" => call'[t].id = id,
           IF flow'[t].op = "none" THEN AtRest(agents'[id], installed'[id])
           ELSE /\ flow'[t].id = id
                /\ StageAt(flow'[t], flow'[t].pc, agents'[id], installed'[id], call'[t])
    PROVE  (Staged /\ Resting /\ Starting)'
<1>1. ASSUME NEW u \in Callers, u # t
      PROVE  /\ flow'[u] = flow[u] /\ call'[u] = call[u]
             /\ flow[u].op # "none" => flow[u].id # id
             /\ call[u].id = id => KeepsConfig(agents[id], agents'[id])
  <2>1. flow'[u] = flow[u] /\ call'[u] = call[u]
    BY <1>1 DEF OnlyTouches, Tasks
  <2>2. flow[u].op # "none" => flow[u].id # id
    BY <1>1, <2>1 DEF Exclusive, Works
  <2>3. call[u].id = id => flow[t].op = "none" /\ flow'[t].op = "none"
    BY <1>1, <2>1 DEF Exclusive, Works
  <2>4. QED
    BY <2>1, <2>2, <2>3
<1>2. ASSUME NEW j \in Ids, j # id
      PROVE  agents'[j] = agents[j] /\ installed'[j] = installed[j]
  BY <1>2 DEF OnlyTouches
<1>3. ASSUME NEW u \in Callers, flow'[u].op # "none"
      PROVE  StageAt(flow'[u], flow'[u].pc, agents'[flow'[u].id],
                     installed'[flow'[u].id], call'[u])
  <2>1. CASE u = t
    BY <1>3, <2>1
  <2>2. CASE u # t
    <3>1. flow[u].id \in Ids /\ flow[u].id # id /\ flow[u].op # "none"
      BY <1>1, <1>3, <2>2, FlowTyped
    <3>2. QED
      BY <1>1, <1>2, <2>2, <3>1 DEF Staged
  <2>3. QED
    BY <2>1, <2>2
<1>4. ASSUME NEW j \in Ids, ~Flowing(j)' PROVE AtRest(agents'[j], installed'[j])
  <2>1. CASE j = id
    BY <1>4, <2>1 DEF Flowing
  <2>2. CASE j # id
    <3>1. ~Flowing(j)
      <4>1. ASSUME NEW u \in Callers, flow[u].op # "none", flow[u].id = j PROVE FALSE
        BY <1>1, <1>4, <2>2, <4>1 DEF Flowing
      <4>2. QED
        BY <4>1 DEF Flowing
    <3>2. QED
      BY <1>2, <2>2, <3>1 DEF Resting
  <2>3. QED
    BY <2>1, <2>2
<1>5. ASSUME NEW u \in Callers, call'[u].pc # "idle"
      PROVE  StartsConfig(call'[u], agents'[call'[u].id])
  <2>1. CASE u = t
    BY <1>5, <2>1
  <2>2. CASE u # t
    <3>1. /\ call[u].id \in Ids /\ call'[u] = call[u]
          /\ StartsConfig(call[u], agents[call[u].id])
      BY <1>1, <1>5, <2>2, CallFacts DEF Tasks, Starting
    <3>2. CASE call[u].id = id
      BY <1>1, <2>2, <3>1, <3>2 DEF StartsConfig, KeepsConfig
    <3>3. CASE call[u].id # id
      BY <1>2, <3>1, <3>3
    <3>4. QED
      BY <3>2, <3>3
  <2>3. QED
    BY <2>1, <2>2
<1>6. QED
  BY <1>3, <1>4, <1>5 DEF Staged, Resting, Starting

(* The stage of a flow depends on its own fields, not on its position.     *)
LEMMA StageMoves ==
    ASSUME FlowInv, NEW t \in Callers, NEW to, Goto(t, to), NEW h, NEW r, NEW c,
           StageAt(flow[t], to, h, r, c)
    PROVE  StageAt(flow'[t], flow'[t].pc, h, r, c)
BY GoneTo DEF StageAt, InstallStage, UpgradeStage, UninstallStage, CallStage

LEMMA FlowStepServes ==
    ASSUME TypeOK, FlowInv, Placed, Staged, Resting, Starting, Exclusive, Exclusive',
           NEW t \in Callers, FlowStep(t)
    PROVE  (Staged /\ Resting /\ Starting)'
<1> DEFINE id == flow[t].id
<1>1. Lands(t) /\ flow[t].op # "none" /\ id \in Ids
  BY FlowLands DEF Staged
<1>2. Works(t, id)
  BY DEF Works
<1>3. CASE End(t) /\ AtRest(agents'[id], installed'[id])
  <2>1. flow'[t].op = "none" /\ \A u \in Callers : u # t => flow'[u] = flow[u]
    BY <1>3 DEF End, NoFlow, FlowInv
  <2>2. QED
    BY <1>1, <1>2, <1>3, <2>1, CallerStep DEF Lands
<1>4. ASSUME NEW to \in FlowPCs, Goto(t, to),
             StageAt(flow[t], to, agents'[id], installed'[id], call'[t])
      PROVE  (Staged /\ Resting /\ Starting)'
  <2>1. /\ flow'[t].op # "none" /\ flow'[t].id = id
        /\ \A u \in Callers : u # t => flow'[u] = flow[u]
    BY <1>1, <1>4, GoneTo DEF Goto, FlowInv
  <2>2. StageAt(flow'[t], flow'[t].pc, agents'[id], installed'[id], call'[t])
    BY <1>4, StageMoves
  <2>3. QED
    BY <1>1, <1>2, <2>1, <2>2, CallerStep DEF Lands
<1>5. QED
  BY <1>1, <1>3, <1>4 DEF Lands

LEMMA FlowBeginServes ==
    ASSUME TypeOK, FlowInv, Staged, Resting, Starting, Exclusive, Exclusive',
           NEW t \in Callers, FlowBegin(t)
    PROVE  (Staged /\ Resting /\ Starting)'
<1>1. ASSUME NEW id \in Ids, NEW f, f.id = id, f.op # "none", Begin(t, f)
      PROVE  /\ ~Flowing(id)
             /\ StageAt(f, f.pc, agents[id], installed[id], call[t])
                  => (Staged /\ Resting /\ Starting)'
  <2>1. /\ flow'[t] = f /\ \A u \in Callers : u # t => flow'[u] = flow[u]
        /\ flow[t].op = "none" /\ call[t].pc = "idle"
        /\ UNCHANGED <<agents, call, installed>>
    BY <1>1 DEF Begin, In, At, vars, FlowInv
  <2>2. Works(t, id)'
    BY <1>1, <2>1 DEF Works
  <2>3. ~Flowing(id)
    <3>1. ASSUME NEW u \in Callers, flow[u].op # "none", flow[u].id = id PROVE FALSE
      <4>1. u # t /\ flow'[u].op # "none" /\ flow'[u].id = id
        BY <2>1, <3>1
      <4>2. QED
        BY <2>2, <4>1 DEF Exclusive
    <3>2. QED
      BY <3>1 DEF Flowing
  <2>4. OnlyTouches(t, id) /\ StartsConfig(call'[t], agents'[id])
    BY <2>1 DEF OnlyTouches, StartsConfig
  <2>5. QED
    BY <1>1, <2>1, <2>2, <2>3, <2>4, CallerStep
<1>2. ASSUME NEW id \in Ids, UninstallBegin(t, id)
      PROVE  (Staged /\ Resting /\ Starting)'
  <2> DEFINE f == [NoFlow EXCEPT !.op = "uninstall", !.pc = "status", !.id = id]
  <2>1. f.op = "uninstall" /\ f.pc = "status" /\ f.id = id
    BY DEF NoFlow
  <2>2. Begin(t, f) /\ installed[id] # None /\ call[t].pc = "idle"
    BY <1>2 DEF UninstallBegin, Begin, In, At
  <2> HIDE DEF f
  <2>3. AtRest(agents[id], installed[id])
    BY <1>1, <2>1, <2>2 DEF Resting
  <2>4. StageAt(f, f.pc, agents[id], installed[id], call[t])
    BY <2>1, <2>2, <2>3 DEF StageAt, UninstallStage, CallStage, AtRest
  <2>5. QED
    BY <1>1, <2>1, <2>2, <2>4
<1>3. ASSUME NEW id \in Ids, NEW ver \in Versions, InstallBegin(t, id, ver)
      PROVE  (Staged /\ Resting /\ Starting)'
  <2> DEFINE f == [op |-> "install", pc |-> "mkdir", id |-> id, old |-> None,
                   cfg |-> [ver |-> ver, color |-> "blue",
                            port |-> AllocatedPort(ver)]]
  <2>1. f.op = "install" /\ f.pc = "mkdir" /\ f.id = id
    OBVIOUS
  <2>2. Begin(t, f) /\ installed[id] = None /\ call[t].pc = "idle"
    BY <1>3 DEF InstallBegin, Begin, In, At
  <2> HIDE DEF f
  <2>3. AtRest(agents[id], installed[id])
    BY <1>1, <2>1, <2>2 DEF Resting
  <2>4. StageAt(f, f.pc, agents[id], installed[id], call[t])
    BY <2>1, <2>2, <2>3 DEF StageAt, InstallStage, CallStage, AtRest, Late
  <2>5. QED
    BY <1>1, <2>1, <2>2, <2>4
<1>4. ASSUME NEW id \in Ids, NEW ver \in Versions, UpgradeBegin(t, id, ver)
      PROVE  (Staged /\ Resting /\ Starting)'
  <2> DEFINE f == [op |-> "upgrade", pc |-> "clear", id |-> id,
                   old |-> installed[id],
                   cfg |-> [ver |-> ver, color |-> Other(installed[id].color),
                            port |-> installed[id].port]]
  <2>1. /\ f.op = "upgrade" /\ f.pc = "clear" /\ f.id = id /\ f.old = installed[id]
        /\ f.cfg.color = Other(installed[id].color)
    OBVIOUS
  <2>2. Begin(t, f) /\ installed[id] # None /\ call[t].pc = "idle"
    BY <1>4 DEF UpgradeBegin, Begin, In, At
  <2>3. f.cfg.color # f.old.color
    BY <2>1, <2>2, OtherColor DEF FlowInv, Record
  <2> HIDE DEF f
  <2>4. AtRest(agents[id], installed[id])
    BY <1>1, <2>1, <2>2 DEF Resting
  <2>5. StageAt(f, f.pc, agents[id], installed[id], call[t])
    BY <2>1, <2>2, <2>3, <2>4 DEF StageAt, UpgradeStage, CallStage, AtRest, Late
  <2>6. QED
    BY <1>1, <2>1, <2>2, <2>5
<1>5. QED
  BY <1>2, <1>3, <1>4 DEF FlowBegin

(* A section of the call that a flow awaits leaves the flow at its stage.  *)
LEMMA StageOfCall ==
    ASSUME NEW f, NEW h, NEW h2, NEW r, NEW c, NEW d,
           f.op \in Ops, c.pc # "idle", StageAt(f, f.pc, h, r, c), StartsConfig(c, h),
           KeepsConfig(h, h2), CallMoves(c, d, h, h2),
           d.pc # "idle" => d.id = c.id
    PROVE  StageAt(f, f.pc, h2, r, d)
<1> USE DEF StageAt, CallStage, AwaitsStart, AwaitsStop, KeepsConfig, CallMoves, Late
<1>1. CallStage(f, f.pc, d)
  OBVIOUS
<1>2. CASE f.op = "install"
  BY <1>1, <1>2 DEF InstallStage, AsRecorded, StartsConfig
<1>3. CASE f.op = "upgrade"
  BY <1>1, <1>3 DEF UpgradeStage, AsRecorded, StartsConfig
<1>4. CASE f.op = "uninstall"
  BY <1>1, <1>4 DEF UninstallStage, AsRecorded
<1>5. QED
  BY <1>2, <1>3, <1>4 DEF Ops

LEMMA CallKeepsConfig ==
    ASSUME TypeOK, TypeOK', NEW t \in Tasks, CallStep(t),
           StartsConfig(call[t], agents[call[t].id])
    PROVE  /\ call'[t].pc # "idle" => call'[t].id = call[t].id
           /\ StartsConfig(call'[t], agents'[call[t].id])
<1>1. call'[t].pc # "idle" => call'[t].id \in Ids
  BY DEF TypeOK, FrameOK
<1>2. call'[t].pc # "idle" => call'[t].id = call[t].id
  BY <1>1, CallIdFate, ConstantsAssumption
<1>3. StartsConfig(call'[t], agents'[call[t].id])
  BY CallEffect DEF CallMoves, StartMoves, StartsConfig, KeepsConfig
<1>4. QED
  BY <1>2, <1>3

(* An application that no flow works on is served as recorded, before and  *)
(* after a step that keeps the configuration of its handle.                *)
LEMMA RestKept ==
    ASSUME NEW h, NEW h2, NEW r, AtRest(h, r), KeepsConfig(h, h2) PROVE AtRest(h2, r)
BY DEF AtRest, AsRecorded, KeepsConfig

LEMMA NobodyElse ==
    ASSUME Exclusive, NEW t \in Callers, NEW id \in Ids, Works(t, id), flow[t].op = "none"
    PROVE  ~Flowing(id)
BY DEF Exclusive, Works, Flowing

LEMMA CallStepServes ==
    ASSUME TypeOK, TypeOK', FlowInv, Staged, Resting, Starting, Exclusive, Exclusive',
           NEW t \in Callers, CallStep(t), UNCHANGED ivars
    PROVE  (Staged /\ Resting /\ Starting)'
<1> DEFINE id == call[t].id
<1>0. t \in Tasks /\ call[t].pc # "idle"
  BY DEF Tasks, CallStep, Spawn, StartCommit, StopReaped, StopTimeout, StopCommit,
         RestartStop, RestartStart, At
<1>1. /\ id \in Ids /\ OnlyTouches(t, id) /\ KeepsConfig(agents[id], agents'[id])
      /\ CallMoves(call[t], call'[t], agents[id], agents'[id])
  BY <1>0, CallEffect
<1>2. StartsConfig(call[t], agents[id])
  BY <1>0 DEF Starting
<1>3. /\ call'[t].pc # "idle" => call'[t].id = id
      /\ StartsConfig(call'[t], agents'[id])
  BY <1>0, <1>2, CallKeepsConfig
<1>4. Works(t, id) /\ flow' = flow /\ installed' = installed
  BY DEF Works, ivars
<1>5. CASE flow[t].op = "none"
  <2>1. AtRest(agents[id], installed[id])
    BY <1>1, <1>4, <1>5, NobodyElse DEF Resting
  <2>2. AtRest(agents'[id], installed'[id])
    BY <1>1, <1>4, <2>1, RestKept
  <2>3. QED
    BY <1>1, <1>3, <1>4, <1>5, <2>2, CallerStep
<1>6. CASE flow[t].op # "none"
  <2>1. flow[t].op \in Ops
    BY <1>6 DEF FlowInv, Flow, Ops
  <2>2. StageAt(flow[t], flow[t].pc, agents[flow[t].id], installed[flow[t].id], call[t])
    BY <1>6 DEF Staged
  <2>3. flow[t].id = id
    BY <1>0, <2>2 DEF StageAt, CallStage
  <2>4. StageAt(flow[t], flow[t].pc, agents'[id], installed[id], call'[t])
    BY <1>0, <1>1, <1>2, <1>3, <2>1, <2>2, <2>3, StageOfCall
  <2>5. QED
    BY <1>1, <1>3, <1>4, <1>6, <2>3, <2>4, CallerStep
<1>7. QED
  BY <1>5, <1>6

LEMMA PlainServes ==
    ASSUME TypeOK, FlowInv, Staged, Resting, Starting, Exclusive, Exclusive',
           NEW t \in Callers, flow[t].op = "none", ApiCall(t), UNCHANGED ivars
    PROVE  (Staged /\ Resting /\ Starting)'
<1>1. PICK id \in Ids : ApiStart(t, id) \/ ApiStop(t, id) \/ ApiRestart(t, id)
  BY DEF ApiCall
<1>2. t \in Tasks /\ flow' = flow /\ installed' = installed
  BY DEF Tasks, ivars
<1>3. /\ OnlyTouches(t, id) /\ KeepsConfig(agents[id], agents'[id])
      /\ StartsConfig(call'[t], agents'[id])
      /\ IF call'[t].pc = "idle" THEN agents' = agents ELSE call'[t].id = id
  BY <1>1, <1>2, ApiEffect
<1>4. CASE call'[t].pc = "idle"
  <2>1. agents' = agents /\ \A u \in Callers : u # t => call'[u] = call[u]
    BY <1>3, <1>4 DEF OnlyTouches, Tasks
  <2>2. Staged'
    BY <1>2, <2>1 DEF Staged
  <2>3. Resting'
    BY <1>2, <2>1 DEF Resting, Flowing
  <2>4. Starting'
    BY <1>4, <2>1 DEF Starting
  <2>5. QED
    BY <2>2, <2>3, <2>4
<1>5. CASE call'[t].pc # "idle"
  <2>1. Works(t, id)'
    BY <1>3, <1>5 DEF Works
  <2>2. ~Flowing(id)
    <3>1. ASSUME NEW u \in Callers, flow[u].op # "none", flow[u].id = id PROVE u = t
      BY <1>2, <2>1, <3>1 DEF Exclusive
    <3>2. QED
      BY <3>1 DEF Flowing
  <2>3. AtRest(agents[id], installed[id])
    BY <2>2 DEF Resting
  <2>4. AtRest(agents'[id], installed'[id])
    BY <1>2, <1>3, <2>3, RestKept
  <2>5. QED
    BY <1>2, <1>3, <2>1, <2>4, CallerStep
<1>6. QED
  BY <1>4, <1>5

LEMMA BackgroundServes ==
    ASSUME TypeOK, FlowInv, Undying, Staged, Resting, Starting,
           MonitorStep \/ ProcessStep, UNCHANGED ivars
    PROVE  (Staged /\ Resting /\ Starting)'
<1>1. call' = call /\ flow' = flow /\ installed' = installed
  BY BackgroundEffect DEF ivars
<1>2. ASSUME NEW id \in Ids
      PROVE  /\ KeepsConfig(agents[id], agents'[id])
             /\ Runs(agents[id]) => Runs(agents'[id])
  BY <1>2, BackgroundEffect
<1>3. ASSUME NEW t \in Callers, flow[t].op # "none"
      PROVE  StageAt(flow[t], flow[t].pc, agents'[flow[t].id], installed[flow[t].id], call[t])
  <2> DEFINE f == flow[t]  h == agents[f.id]  h2 == agents'[f.id]  r == installed[f.id]
  <2>1. f.id \in Ids
    BY <1>3, FlowTyped
  <2>2. KeepsConfig(h, h2) /\ (Runs(h) => Runs(h2)) /\ StageAt(f, f.pc, h, r, call[t])
    BY <1>2, <1>3, <2>1 DEF Staged
  <2> HIDE DEF f, h, h2, r
  <2>3. StageAt(f, f.pc, h2, r, call[t])
    BY <2>2 DEF StageAt, InstallStage, UpgradeStage, UninstallStage, KeepsConfig, AsRecorded
  <2>4. QED
    BY <2>3 DEF f, h2, r
<1>4. Staged'
  BY <1>1, <1>3 DEF Staged
<1>5. Resting'
  BY <1>1, <1>2, RestKept DEF Resting, Flowing
<1>6. Starting'
  <2>1. ASSUME NEW t \in Callers, call[t].pc # "idle"
        PROVE  StartsConfig(call[t], agents'[call[t].id])
    <3>1. call[t].id \in Ids /\ StartsConfig(call[t], agents[call[t].id])
      BY <2>1, CallFacts DEF Tasks, Starting
    <3>2. QED
      BY <1>2, <3>1 DEF StartsConfig, KeepsConfig
  <2>2. QED
    BY <1>1, <2>1 DEF Starting
<1>7. QED
  BY <1>4, <1>5, <1>6

(* Nothing is dropped and no process dies of its own accord.               *)
Uneventful == ~ProcessesMayExit /\ ~RequestsMayBeDropped

(* No flow is dropped, so no thread goes on without one.                   *)
NoOrphans == \A t \in Callers : flow[t].pc \notin Orphaned

LEMMA FlowStepAdvances ==
    ASSUME FlowInv, NEW t \in Callers, FlowStep(t)
    PROVE  Advances(t)
BY Recording, DiskPlain, InstallPlain, UpgradePlain, UninstallPlain DEF FlowStep, Plain

LEMMA NoOrphansStep ==
    ASSUME Uneventful, FlowInv, NoOrphans, [InstallNext]_allvars
    PROVE  NoOrphans'
<1>1. ASSUME NEW t \in Callers, NEW f, f.pc \notin Orphaned,
             flow' = [flow EXCEPT ![t] = f]
      PROVE  NoOrphans'
  BY <1>1 DEF FlowInv, NoOrphans
<1>2. ASSUME NEW t \in Callers, FlowBegin(t) PROVE NoOrphans'
  <2>1. ASSUME NEW f, Begin(t, f), f.pc \notin Orphaned PROVE NoOrphans'
    BY <1>1, <2>1 DEF Begin
  <2>2. ASSUME NEW id \in Ids, UninstallBegin(t, id) PROVE NoOrphans'
    BY <2>1, <2>2 DEF UninstallBegin, NoFlow, Orphaned
  <2>3. ASSUME NEW id \in Ids, NEW ver \in Versions,
               InstallBegin(t, id, ver) \/ UpgradeBegin(t, id, ver)
        PROVE  NoOrphans'
    BY <2>1, <2>3 DEF InstallBegin, UpgradeBegin, Orphaned
  <2>4. QED
    BY <1>2, <2>2, <2>3 DEF FlowBegin
<1>3. ASSUME NEW t \in Callers, FlowStep(t) PROVE NoOrphans'
  <2>1. CASE End(t)
    BY <1>1, <2>1 DEF End, NoFlow, Orphaned
  <2>2. ASSUME NEW pc \in Positions, Goto(t, pc) PROVE NoOrphans'
    <3>1. [flow[t] EXCEPT !.pc = pc].pc = pc
      BY DEF FlowInv, Flow
    <3>2. QED
      BY <1>1, <2>2, <3>1 DEF Goto, Positions
  <2>3. QED
    BY <1>3, <2>1, <2>2, FlowStepAdvances DEF Advances
<1>4. CASE UNCHANGED ivars
  BY <1>4 DEF ivars, NoOrphans
<1>5. \A t \in Callers : ~DropFlow(t) /\ ~OrphanWrites(t)
  BY DEF Uneventful, DropFlow, OrphanWrites, NoOrphans
<1>6. QED
  BY <1>2, <1>3, <1>4, <1>5 DEF InstallNext, allvars, ivars

LEMMA NoOrphansInvariant == Uneventful => (InstallSpec => []NoOrphans)
<1> SUFFICES ASSUME Uneventful PROVE InstallSpec => []NoOrphans
  OBVIOUS
<1>1. InstallInit => NoOrphans
  BY DEF InstallInit, NoFlow, NoOrphans, Orphaned
<1>2. InstallInv /\ NoOrphans /\ [InstallNext]_allvars => NoOrphans'
  BY NoOrphansStep DEF InstallInv
<1>3. QED
  BY <1>1, <1>2, InstallInvariant, PTL DEF InstallSpec

ServingInv == Staged /\ Resting /\ Starting /\ RunsItsConfig

LEMMA MonitorAwaitsNothing ==
    ASSUME TypeOK, Undying, MonFrame
    PROVE  call[Monitor].pc = "idle" /\ call[Monitor].child = None
<1>1. call[Monitor].pc = "idle"
  BY DEF Undying, MonFrame
<1>2. QED
  BY <1>1, CallFacts DEF Tasks, At

LEMMA ServingStep ==
    ASSUME Uneventful, TypeOK, TypeOK', OneOwner, OneOwner', InstallInv, NoOrphans,
           Undying, MonFrame, Exclusive, Exclusive', ServingInv, [InstallNext]_allvars
    PROVE  ServingInv'
<1> USE DEF InstallInv
<1>0. call[Monitor].pc = "idle" /\ FlowInv /\ [Next]_vars
  BY MonitorAwaitsNothing, InstallSimulates
<1>1. RunsItsConfig'
  <2>1. ASSUME NEW t \in Tasks, At(t, "commit")
        PROVE  StartsConfig(call[t], agents[call[t].id])
    BY <1>0, <2>1 DEF At, Tasks, ServingInv, Starting
  <2>2. QED
    BY <1>0, <2>1, RunsItsConfigStep DEF ServingInv
<1>2. (Staged /\ Resting /\ Starting)'
  <2> USE <1>0 DEF ServingInv
  <2>1. CASE UNCHANGED allvars
    BY <2>1 DEF allvars, Staged, Resting, Flowing, Starting
  <2>2. ASSUME NEW t \in Callers, FlowBegin(t)
        PROVE  (Staged /\ Resting /\ Starting)'
    BY <2>2, FlowBeginServes
  <2>3. ASSUME NEW t \in Callers, FlowStep(t)
        PROVE  (Staged /\ Resting /\ Starting)'
    BY <2>3, FlowStepServes
  <2>4. ASSUME NEW t \in Callers, DropFlow(t) \/ DropRequest(t) \/ OrphanWrites(t)
        PROVE  FALSE
    BY <2>4 DEF DropFlow, DropRequest, OrphanWrites, NoOrphans, Uneventful
  <2>5. ASSUME NEW t \in Tasks, CallStep(t), UNCHANGED ivars
        PROVE  (Staged /\ Resting /\ Starting)'
    <3>1. t # Monitor
      BY <2>5 DEF CallStep, Spawn, StartCommit, StopReaped, StopTimeout, StopCommit,
                  RestartStop, RestartStart, At
    <3>2. QED
      BY <2>5, <3>1, CallStepServes DEF Tasks
  <2>6. ASSUME NEW t \in Callers, PlainRequest(t), UNCHANGED ivars
        PROVE  (Staged /\ Resting /\ Starting)'
    BY <2>4, <2>6, PlainServes DEF PlainRequest
  <2>7. CASE (MonitorStep \/ ProcessStep) /\ UNCHANGED ivars
    BY <2>7, BackgroundServes
  <2>8. QED
    BY <2>1, <2>2, <2>3, <2>4, <2>5, <2>6, <2>7 DEF InstallNext
<1>3. QED
  BY <1>1, <1>2 DEF ServingInv

LEMMA ServingInit == InstallInit => ServingInv
BY DEF InstallInit, Init, ServingInv, Staged, Resting, Starting, RunsItsConfig, Flowing,
       AtRest, NoFlow, Returned, Tasks, ChildOf, At

(* All that the theorems below need.                                       *)
Served == /\ TypeOK /\ OwnershipInv /\ InstallInv /\ NoOrphans
          /\ Undying /\ MonFrame /\ Exclusive /\ ServingInv

LEMMA ServingInvariant == Uneventful => (InstallSpec /\ []Exclusive => []Served)
<1> SUFFICES ASSUME Uneventful PROVE InstallSpec /\ []Exclusive => []Served
  OBVIOUS
<1>1. ASSUME TypeOK, TypeOK', OneOwner, OneOwner', InstallInv, NoOrphans, Undying,
             MonFrame, Exclusive, Exclusive', ServingInv, [InstallNext]_allvars
      PROVE  ServingInv'
  BY <1>1, ServingStep
<1>2. TypeOK /\ OneOwner /\ InstallInv /\ NoOrphans /\ Undying /\ MonFrame /\ Exclusive
        /\ ServingInv /\ [InstallNext]_allvars /\ TypeOK' /\ OneOwner' /\ Exclusive'
        => ServingInv'
  BY <1>1
<1>3. Spec => []Undying
  BY UndyingInvariant DEF Uneventful
<1>4. TypeOK /\ OwnershipInv /\ InstallInv /\ NoOrphans /\ Undying /\ MonFrame
        /\ Exclusive /\ ServingInv => Served
  BY DEF Served
<1>5. InstallSpec => []NoOrphans
  BY NoOrphansInvariant
<1>6. QED
  BY <1>2, <1>3, <1>4, <1>5, ServingInit, InstallerRefinesSupervisor, TypeCorrect,
     EveryProcessOwned, OwnershipInvariant, InstallInvariant, MonFrameInvariant, PTL
  DEF InstallSpec

(* Whose process it is: that of the handle, or of the call a caller is in. *)
LEMMA ServedProcess ==
    ASSUME Served, NEW p \in Procs, procs[p] # None
    PROVE  /\ procs[p].id \in Ids
           /\ \/ /\ ChildOf(procs[p].id) = p /\ agents[procs[p].id] # None
                 /\ procs[p].cfg = agents[procs[p].id].cfg
              \/ \E t \in Callers : call[t].id = procs[p].id /\ call[t].pc # "idle"
<1> USE DEF Served
<1>0. p # None
  BY ConstantsAssumption
<1>1. CASE ChildOf(procs[p].id) = p
  BY <1>0, <1>1, ProcessOwner DEF ServingInv, RunsItsConfig, ChildOf
<1>2. ASSUME NEW t \in Tasks, call[t].child = p, call[t].id = procs[p].id
      PROVE  t \in Callers /\ call[t].pc # "idle"
  <2>1. t # Monitor
    BY <1>0, <1>2, MonitorAwaitsNothing
  <2>2. call[t].pc # "idle"
    BY <1>2, CallFacts DEF At
  <2>3. QED
    BY <2>1, <2>2 DEF Tasks
<1>3. QED
  BY <1>1, <1>2, ProcessOwner

(* When no request works on an installed application, a registered agent   *)
(* has the recorded version and directory, and every process runs what is  *)
(* registered, so nothing runs unregistered, whatever failed before: if no *)
(* request is dropped, no process dies by itself, and nobody else works on *)
(* what a flow works on.  Without any one of the three a version that was  *)
(* only tried may stay registered.  That anything is registered, or runs,  *)
(* is not said: a failed start or roll-back may leave nothing.             *)
THEOREM RecordedVersionServed ==
    Uneventful => (InstallSpec /\ []Exclusive => []ServesRecorded)
<1>1. Served => ServesRecorded
  <2> SUFFICES ASSUME Served, NEW id \in Ids, installed[id] # None, ~Busy(id)
               PROVE  /\ agents[id] # None =>
                            /\ agents[id].cfg.ver = installed[id].ver
                            /\ agents[id].cfg.color = installed[id].color
                      /\ \A p \in ProcessesOf(id) :
                            agents[id] # None /\ procs[p].cfg = agents[id].cfg
    BY DEF ServesRecorded
  <2>1. AsRecorded(agents[id], installed[id])
    BY DEF Served, ServingInv, Resting, Flowing, Busy, AtRest
  <2>2. ASSUME NEW p \in ProcessesOf(id)
        PROVE  agents[id] # None /\ procs[p].cfg = agents[id].cfg
    BY <2>2, ServedProcess DEF ProcessesOf, Busy
  <2>3. QED
    BY <2>1, <2>2 DEF AsRecorded
<1>2. QED
  BY <1>1, ServingInvariant, PTL

(* A failed or undone installation leaves no handle and no process behind, *)
(* under the same conditions.                                              *)
THEOREM FailedInstallLeavesNothing ==
    Uneventful => (InstallSpec /\ []Exclusive => []NothingLeftBehind)
<1>1. Served => NothingLeftBehind
  <2> SUFFICES ASSUME Served, NEW id \in Ids, installed[id] = None, ~Busy(id)
               PROVE  agents[id] = None /\ ProcessesOf(id) = {}
    BY DEF NothingLeftBehind
  <2>1. agents[id] = None
    BY DEF Served, ServingInv, Resting, Flowing, Busy, AtRest
  <2>2. ASSUME NEW p \in ProcessesOf(id) PROVE FALSE
    BY <2>1, <2>2, ServedProcess DEF ProcessesOf, Busy
  <2>3. QED
    BY <2>1, <2>2
<1>2. QED
  BY <1>1, ServingInvariant, PTL

(* A process of the application whose flow has no call in progress is the  *)
(* child of its handle.                                                    *)
LEMMA FlowOwnsProcess ==
    ASSUME Served, NEW t \in Callers, flow[t].op # "none", At(t, "idle"),
           NEW p \in Procs, procs[p] # None, procs[p].id = flow[t].id
    PROVE  agents[flow[t].id] # None /\ procs[p].cfg = agents[flow[t].id].cfg
<1>1. ASSUME NEW u \in Callers, call[u].id = procs[p].id, call[u].pc # "idle" PROVE FALSE
  <2>1. u = t
    BY <1>1 DEF Served, Exclusive, Works
  <2>2. QED
    BY <1>1, <2>1 DEF At
<1>2. QED
  BY <1>1, ServedProcess

(* What a step that writes a directory writes, and where its flow is.      *)
LEMMA DirsWritten ==
    ASSUME Uneventful, FlowInv, Placed, DiskInv, NoOrphans, [InstallNext]_allvars,
           dirs' # dirs
    PROVE  \E t \in Callers :
              /\ flow[t].op # "none" /\ At(t, "idle") /\ flow[t].id \in Ids
              /\ \A i \in Ids : i # flow[t].id => dirs'[i] = dirs[i]
              /\ \/ /\ flow[t].op \in {"install", "upgrade"}
                    /\ flow[t].pc \in {"clear", "unpack"}
                    /\ \A color \in Colors : color # flow[t].cfg.color =>
                          dirs'[flow[t].id][color] = dirs[flow[t].id][color]
                 \/ flow[t].op = "uninstall" /\ flow[t].pc = "remove"
<1>1. PICK t \in Callers : FlowStep(t)
  <2>1. ~UNCHANGED ivars /\ ~UNCHANGED allvars
    BY DEF ivars, allvars
  <2>2. \A t \in Callers : ~DropFlow(t) /\ ~OrphanWrites(t) /\ ~FlowBegin(t)
    BY DEF DropFlow, Uneventful, OrphanWrites, NoOrphans, FlowBegin, UninstallBegin,
           InstallBegin, UpgradeBegin, Begin
  <2>3. QED
    BY <2>1, <2>2 DEF InstallNext
<1>2. flow[t].op # "none" /\ flow[t].id \in Ids
  BY <1>1, ActsOrQuiet, ActsMove
<1> DEFINE Keeps(colors) ==
              /\ \A i \in Ids : i # flow[t].id => dirs'[i] = dirs[i]
              /\ \A color \in Colors : color \notin colors =>
                    dirs'[flow[t].id][color] = dirs[flow[t].id][color]
<1>3. ASSUME NEW colors
      PROVE  /\ \A content \in Versions \cup {None} :
                   Fill(flow[t].id, colors, content) => Keeps(colors)
             /\ FillPartly(flow[t].id, colors) => Keeps(colors)
  <2>1. ASSUME NEW cs, cs \subseteq colors, NEW content \in Versions \cup {None},
               Fill(flow[t].id, cs, content)
        PROVE  Keeps(colors)
    <3>1. \A i \in Ids : i # flow[t].id => dirs'[i] = dirs[i]
      BY <1>2, <2>1 DEF Fill, DiskInv
    <3>2. QED
      BY <1>2, <2>1, <3>1, FillTyped
  <2>2. QED
    BY <2>1 DEF FillPartly
<1>4. CASE Unpack(t)
  <2>1. Keeps({flow[t].cfg.color})
    BY <1>3, <1>4, Unpacking DEF Unpack
  <2>2. QED
    BY <1>2, <1>4, <2>1, Unpacking DEF Unpack
<1>5. CASE UpgradeClear(t)
  <2>1. Keeps({flow[t].cfg.color})
    BY <1>3, <1>5 DEF UpgradeClear
  <2>2. QED
    BY <1>2, <1>5, <2>1 DEF UpgradeClear, In
<1>6. CASE UninstallRemove(t)
  <2>1. Keeps(Colors)
    BY <1>3, <1>6 DEF UninstallRemove
  <2>2. QED
    BY <1>2, <1>6, <2>1 DEF UninstallRemove, In
<1>7. QED
  BY <1>1, <1>4, <1>5, <1>6, ActsOrQuiet
  DEF Acts, Quiet, InstallRecord, UpgradeRecord, UninstallForget, OrphanWrites, NoOrphans

(* No step writes into a directory from which a process of the application *)
(* runs: an installation unpacks and an uninstall removes when nothing is  *)
(* registered, an upgrade unpacks into the color that is not recorded.     *)
THEOREM LiveDirectoriesUntouched ==
    Uneventful => (InstallSpec /\ []Exclusive => LiveDirUntouched)
<1> SUFFICES ASSUME Uneventful
             PROVE  InstallSpec /\ []Exclusive => LiveDirUntouched
  OBVIOUS
<1>1. ASSUME Served, [InstallNext]_allvars, NEW p \in Procs, procs[p] # None
      PROVE  dirs'[procs[p].id][procs[p].cfg.color] = dirs[procs[p].id][procs[p].cfg.color]
  <2>1. CASE dirs' = dirs
    BY <2>1
  <2>2. CASE dirs' # dirs
    <3> USE <1>1 DEF Served, InstallInv
    <3>1. PICK t \in Callers :
             /\ flow[t].op # "none" /\ At(t, "idle") /\ flow[t].id \in Ids
             /\ \A i \in Ids : i # flow[t].id => dirs'[i] = dirs[i]
             /\ \/ /\ flow[t].op \in {"install", "upgrade"}
                   /\ flow[t].pc \in {"clear", "unpack"}
                   /\ \A color \in Colors : color # flow[t].cfg.color =>
                         dirs'[flow[t].id][color] = dirs[flow[t].id][color]
                \/ flow[t].op = "uninstall" /\ flow[t].pc = "remove"
      BY <2>2, DirsWritten
    <3> DEFINE id == flow[t].id
    <3>2. CASE procs[p].id # id
      BY <3>1, <3>2, ServedProcess
    <3>3. CASE procs[p].id = id
      <4>1. agents[id] # None /\ procs[p].cfg = agents[id].cfg
        BY <3>1, <3>3, FlowOwnsProcess
      <4>2. StageAt(flow[t], flow[t].pc, agents[id], installed[id], call[t])
        BY <3>1 DEF ServingInv, Staged
      <4>3. /\ flow[t].op = "upgrade" /\ flow[t].pc \in {"clear", "unpack"}
            /\ \A color \in Colors : color # flow[t].cfg.color =>
                  dirs'[id][color] = dirs[id][color]
        BY <3>1, <4>1, <4>2 DEF StageAt, InstallStage, UninstallStage, Placed, PCsOf
      <4>4. /\ agents[id].cfg.color = flow[t].old.color
            /\ flow[t].old.color # flow[t].cfg.color
        BY <4>1, <4>2, <4>3 DEF StageAt, UpgradeStage, AsRecorded
      <4>5. flow[t].old.color \in Colors
        BY <4>3, FlowTyped DEF Record
      <4>6. QED
        BY <3>3, <4>1, <4>3, <4>4, <4>5
    <3>4. QED
      BY <3>2, <3>3
  <2>3. QED
    BY <2>1, <2>2
<1>2. Served /\ [InstallNext]_allvars =>
        [\A p \in Procs : procs[p] # None /\ procs[p].state = "alive" =>
            dirs'[procs[p].id][procs[p].cfg.color] = dirs[procs[p].id][procs[p].cfg.color]
        ]_allvars
  BY <1>1
<1>3. QED
  BY <1>2, ServingInvariant, PTL DEF InstallSpec, LiveDirUntouched

(* "新版本健康检查失败，已回滚": an upgrade that ends without recording the   *)
(* new version has the recorded one registered, or none: under the same    *)
(* conditions.  (A crash during the health check breaks it: see the run of *)
(* UpgradeRollsBack.)                                                      *)
THEOREM FailedUpgradeRollsBack ==
    Uneventful => (InstallSpec /\ []Exclusive => UpgradeRollsBack)
<1> SUFFICES ASSUME Uneventful
             PROVE  InstallSpec /\ []Exclusive => UpgradeRollsBack
  OBVIOUS
<1>1. ASSUME Served, [InstallNext]_allvars, NEW t \in Callers,
             flow[t].op = "upgrade", flow'[t].op = "none", installed' = installed
      PROVE  \/ agents'[flow[t].id] = None
             \/ agents'[flow[t].id].cfg.ver = flow[t].old.ver
  <2> USE <1>1 DEF Served, InstallInv
  <2>1. FlowStep(t)
    <3>1. flow'[t] # flow[t]
      OBVIOUS
    <3>2. ASSUME NEW u \in Callers, FlowBegin(u) \/ FlowStep(u) \/ DropFlow(u)
                                    \/ OrphanWrites(u)
          PROVE  u = t /\ FlowStep(t)
      <4>1. CASE FlowBegin(u)
        <5>1. flow[u].op = "none" /\ \A v \in Callers : v # u => flow'[v] = flow[v]
          BY <4>1 DEF FlowBegin, UninstallBegin, InstallBegin, UpgradeBegin, Begin, In,
                      FlowInv
        <5>2. QED
          BY <3>1, <5>1
      <4>2. CASE FlowStep(u)
        <5>1. \A v \in Callers : v # u => flow'[v] = flow[v]
          BY <4>2, ActsOrQuiet, ActsMove DEF End, Goto, FlowInv
        <5>2. QED
          BY <3>1, <4>2, <5>1
      <4>3. ~DropFlow(u) /\ ~OrphanWrites(u)
        BY DEF DropFlow, Uneventful, OrphanWrites, NoOrphans
      <4>4. QED
        BY <3>2, <4>1, <4>2, <4>3
    <3>3. QED
      BY <3>1, <3>2 DEF InstallNext, allvars, ivars
  <2>2. StageAt(flow[t], flow[t].pc, agents[flow[t].id], installed[flow[t].id], call[t])
    BY DEF ServingInv, Staged
  <2>3. Lands(t)
    BY <2>1, <2>2, FlowLands
  <2>4. AtRest(agents'[flow[t].id], installed[flow[t].id])
    BY <2>3, GoneTo DEF Lands, Goto, FlowInv
  <2>5. installed[flow[t].id] = flow[t].old /\ flow[t].old # None
    BY <2>2, FlowTyped, NoRecord DEF StageAt, UpgradeStage
  <2>6. QED
    BY <2>4, <2>5 DEF AtRest, AsRecorded
<1>2. Served /\ [InstallNext]_allvars =>
        [\A t \in Callers :
            /\ flow[t].op = "upgrade" /\ flow'[t].op = "none"
            /\ installed' = installed
            => \/ agents'[flow[t].id] = None
               \/ agents'[flow[t].id].cfg.ver = flow[t].old.ver]_allvars
  BY <1>1
<1>3. QED
  BY <1>2, ServingInvariant, PTL DEF InstallSpec, UpgradeRollsBack
=============================================================================
