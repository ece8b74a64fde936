----------------------------- MODULE AppManager -----------------------------
(***************************************************************************)
(* The legacy application manager of src/app_manager.rs behind the API of  *)
(* src/api/apps.rs: an install that downloads one binary, a start and a    *)
(* stop of its process, on manifests looked up in the store catalogue.     *)
(*                                                                         *)
(* A child is spawned without kill_on_drop: a process whose Child is       *)
(* dropped runs on, and nothing in the runtime can stop it any more.       *)
(***************************************************************************)
EXTENDS StoreCatalogue

CONSTANTS
    Procs,   \* slots for operating system processes
    None

ASSUME AppManagerAssumption == None \notin Procs /\ None \notin Apps

VARIABLES
    binary,    \* id -> the file the manifest's binary_name names
    table,     \* id -> the process of its RunningApp, or None
    procs,     \* slot -> process, or None
    req,       \* request -> its position in install, start or stop
    doubled,   \* history: ids of which a Child was dropped while its process ran
    rewritten  \* history: ids of which a binary was written over another one

appvars == <<binary, table, procs, req, doubled, rewritten>>
runtimevars == <<source, index, apps, cache, refresh, unsaved,
                 binary, table, procs, req, doubled, rewritten>>

-----------------------------------------------------------------------------
Binary == [content : {"absent", "partial", "whole"}, exec : BOOLEAN]

Process == [app : Apps, state : {"alive", "killed", "exited"}]

ASSUME NoProcessAssumption == None \notin Process

(* gone: the request was dropped, and only its write to the disk goes on.  *)
Request ==
    [pc : {"idle", "mkdir", "download", "write", "chmod",
           "spawn", "insert", "stop", "reap"},
     app : Apps \cup {None}, child : Procs \cup {None}, gone : BOOLEAN]

NoRequest == [pc |-> "idle", app |-> None, child |-> None, gone |-> FALSE]

AppTypeOK ==
    /\ StoreTypeOK
    /\ binary \in [Apps -> Binary]
    /\ table \in [Apps -> Procs \cup {None}]
    /\ procs \in [Procs -> Process \cup {None}]
    /\ req \in [Callers -> Request]
    /\ \A t \in Callers : /\ req[t].pc # "idle" => req[t].app \in Apps
                          /\ req[t].pc \in {"insert", "reap"} <=> req[t].child # None
    /\ doubled \subseteq Apps /\ rewritten \subseteq Apps

InPC(t, pc) == req[t].pc = pc
Goto(t, pc) == req' = [req EXCEPT ![t].pc = pc]
Answer(t) == req' = [req EXCEPT ![t] = NoRequest]

Live(p) ==
    IF p \notin Procs THEN FALSE
    ELSE IF procs[p] = None THEN FALSE ELSE procs[p].state = "alive"
RunsOf(a) == {p \in Procs : IF procs[p] = None THEN FALSE ELSE procs[p].app = a}

(* A process that has exited is reaped when its Child is dropped or waited *)
(* for, one that runs stays.                                               *)
Released(p, ps) ==
    [ps EXCEPT ![p] = IF @ = None THEN None
                      ELSE IF @.state = "exited" THEN None ELSE @]

(* The lock on the table: only stop holds it across an await.              *)
Unlocked == \A t \in Callers : ~InPC(t, "reap")

-----------------------------------------------------------------------------
(* Install and start want a manifest from the store, stop does not.        *)

Accept(t, a, pc) ==
    /\ InPC(t, "idle")
    /\ req' = [req EXCEPT ![t] = [NoRequest EXCEPT !.pc = pc, !.app = a]]
    /\ UNCHANGED <<storevars, binary, table, procs, doubled, rewritten>>

AcceptInstall(t, a) == apps[a] # 0 /\ Accept(t, a, "mkdir")
AcceptStart(t, a) == apps[a] # 0 /\ Accept(t, a, "spawn")
AcceptStop(t, a) == Accept(t, a, "stop")

-----------------------------------------------------------------------------
(* install.  A binary that is there, whatever is in it, is not downloaded  *)
(* again; the app.yml written at the end is read by nobody.                *)

Mkdir(t) ==
    /\ InPC(t, "mkdir")
    /\ \/ binary[req[t].app].content = "absent" /\ Goto(t, "download")
       \/ binary[req[t].app].content # "absent" /\ Answer(t)
       \/ DiskMayFail /\ Answer(t)
    /\ UNCHANGED <<storevars, binary, table, procs, doubled, rewritten>>

DownloadFails(t) ==
    /\ InPC(t, "download") /\ ~req[t].gone
    /\ Answer(t)
    /\ UNCHANGED <<storevars, binary, table, procs, doubled, rewritten>>

Mutant_CreateBinary(t) ==
    LET a == req[t].app
    IN  /\ InPC(t, "download")
        /\ \/ /\ \A p \in RunsOf(a) : ~Live(p)
              /\ binary' = [binary EXCEPT ![a] = [content |-> "partial", exec |-> TRUE]]
              /\ rewritten' = IF binary[a].content = "absent" THEN rewritten ELSE rewritten \cup {a}
              /\ Goto(t, "write")
           \/ /\ DiskMayFail \/ \E p \in RunsOf(a) : Live(p)
              /\ Answer(t)
              /\ UNCHANGED <<binary, rewritten>>
        /\ UNCHANGED <<storevars, table, procs, doubled>>

(* The whole body is in memory, verified and unpacked, before it is        *)
(* written.  tokio::fs::write empties the file first and keeps its mode.   *)
(* The system refuses to open the text of a running process.               *)
CreateBinary(t) ==
    LET a == req[t].app
    IN  /\ InPC(t, "download")
        /\ \/ /\ \A p \in RunsOf(a) : ~Live(p)
              /\ binary' = [binary EXCEPT ![a].content = "partial"]
              /\ rewritten' = IF binary[a].content = "absent" THEN rewritten ELSE rewritten \cup {a}
              /\ Goto(t, "write")
           \/ /\ DiskMayFail \/ \E p \in RunsOf(a) : Live(p)
              /\ Answer(t)
              /\ UNCHANGED <<binary, rewritten>>
        /\ UNCHANGED <<storevars, table, procs, doubled>>

WriteBinary(t) ==
    LET a == req[t].app
    IN  /\ InPC(t, "write")
        /\ \/ /\ binary' = [binary EXCEPT ![a].content = "whole"]
              /\ IF req[t].gone THEN Answer(t) ELSE Goto(t, "chmod")
           \/ /\ DiskMayFail
              /\ Answer(t)
              /\ UNCHANGED binary
        /\ UNCHANGED <<storevars, table, procs, doubled, rewritten>>

(* The outcome of set_permissions is ignored.                              *)
Chmod(t) ==
    /\ InPC(t, "chmod")
    /\ \/ binary' = [binary EXCEPT ![req[t].app].exec = TRUE]
       \/ DiskMayFail /\ UNCHANGED binary
    /\ Answer(t)
    /\ UNCHANGED <<storevars, table, procs, doubled, rewritten>>

-----------------------------------------------------------------------------
(* start: spawned outside the lock, inserted under it.                     *)

SpawnFails(t) ==
    /\ InPC(t, "spawn")
    /\ Answer(t)
    /\ UNCHANGED <<storevars, binary, table, procs, doubled, rewritten>>

SpawnApp(t) ==
    LET b == binary[req[t].app]
    IN  /\ InPC(t, "spawn")
        /\ b.content # "absent" /\ b.exec
        /\ \E p \in Procs :
              /\ procs[p] = None
              /\ procs' = [procs EXCEPT ![p] = [app |-> req[t].app, state |-> "alive"]]
              /\ req' = [req EXCEPT ![t].pc = "insert", ![t].child = p]
        /\ UNCHANGED <<storevars, binary, table, doubled, rewritten>>

(* insert drops the RunningApp it replaces.                                *)
Insert(t) ==
    LET a == req[t].app
    IN  /\ InPC(t, "insert") /\ Unlocked
        /\ table' = [table EXCEPT ![a] = req[t].child]
        /\ procs' = IF table[a] = None THEN procs ELSE Released(table[a], procs)
        /\ doubled' = IF Live(table[a]) THEN doubled \cup {a} ELSE doubled
        /\ Answer(t)
        /\ UNCHANGED <<storevars, binary, rewritten>>

-----------------------------------------------------------------------------
Mutant_Kill(t) ==
    LET a == req[t].app
    IN  /\ InPC(t, "stop") /\ Unlocked
        /\ table' = [table EXCEPT ![a] = None]
        /\ procs' = IF table[a] = None THEN procs ELSE Released(table[a], procs)
        /\ Answer(t)
        /\ UNCHANGED <<storevars, binary, doubled, rewritten>>

Mutant_KillAny(t) ==
    LET a == req[t].app
        p == table[a]
    IN  /\ InPC(t, "stop") /\ Unlocked
        /\ table' = [table EXCEPT ![a] = None]
        /\ procs' = IF p = None THEN procs ELSE [procs EXCEPT ![p].state = "killed"]
        /\ req' = [req EXCEPT ![t].pc = "reap", ![t].child = p]
        /\ UNCHANGED <<storevars, binary, doubled, rewritten>>

(* stop holds the lock until the killed process has exited.  Stopping what *)
(* does not run is a success.                                              *)

Kill(t) ==
    LET a == req[t].app
        p == table[a]
    IN  /\ InPC(t, "stop") /\ Unlocked
        /\ table' = [table EXCEPT ![a] = None]
        /\ IF p = None
           THEN Answer(t) /\ UNCHANGED procs
           ELSE /\ procs' = [procs EXCEPT ![p].state =
                               IF @ = "alive" THEN "killed" ELSE @]
                /\ req' = [req EXCEPT ![t].pc = "reap", ![t].child = p]
        /\ UNCHANGED <<storevars, binary, doubled, rewritten>>

Reap(t) ==
    /\ InPC(t, "reap")
    /\ procs[req[t].child].state = "exited"
    /\ procs' = Released(req[t].child, procs)
    /\ Answer(t)
    /\ UNCHANGED <<storevars, binary, table, doubled, rewritten>>

(* A request is cut off at an await, with the Child it holds; a write that *)
(* was begun, or only handed to a thread, goes on without it.              *)
DropAppRequest(t) ==
    LET r == req[t]
    IN  /\ r.pc \notin {"idle", "spawn"} /\ ~r.gone
        /\ \/ r.pc \in {"download", "write"} /\ req' = [req EXCEPT ![t].gone = TRUE]
           \/ r.pc # "write" /\ Answer(t)
        /\ procs' = IF r.child = None THEN procs ELSE Released(r.child, procs)
        /\ doubled' = IF Live(r.child) THEN doubled \cup {r.app} ELSE doubled
        /\ UNCHANGED <<storevars, binary, table, rewritten>>

-----------------------------------------------------------------------------
(* The operating system.                                                   *)

Held(p) == (\E a \in Apps : table[a] = p) \/ (\E t \in Callers : req[t].child = p)

AppExits(p) ==
    /\ procs[p] # None
    /\ procs[p].state \in {"alive", "killed"}
    /\ procs' = [procs EXCEPT ![p] = IF Held(p) THEN [@ EXCEPT !.state = "exited"]
                                     ELSE None]
    /\ doubled' = {a \in doubled : \E q \in RunsOf(a) \ {p} : Live(q)}
    /\ UNCHANGED <<storevars, binary, table, req, rewritten>>

(* The runtime is killed: its tables are lost, the processes run on, and a *)
(* file that was being written stays as it is.                             *)
Restart ==
    /\ StoreRestart
    /\ table' = [a \in Apps |-> None]
    /\ procs' = [p \in Procs |-> IF Live(p) THEN procs[p] ELSE None]
    /\ req' = [t \in Callers |-> NoRequest]
    /\ doubled' = {a \in Apps : \E p \in RunsOf(a) : Live(p)}
    /\ UNCHANGED <<binary, rewritten>>

-----------------------------------------------------------------------------
RuntimeInit ==
    /\ StoreInit
    /\ binary = [a \in Apps |-> [content |-> "absent", exec |-> FALSE]]
    /\ table = [a \in Apps |-> None]
    /\ procs = [p \in Procs |-> None]
    /\ req = [t \in Callers |-> NoRequest]
    /\ doubled = {} /\ rewritten = {}

InProgress ==
    {t \in Tasks : refresh[t].pc # "idle"} \cup {t \in Callers : ~InPC(t, "idle")}

(* Bound: a request is let in while fewer than MaxBusy tasks are busy.     *)
Free(t) == t \notin InProgress /\ Cardinality(InProgress) < MaxBusy

AppStep(t) ==
    \/ Mkdir(t) \/ DownloadFails(t) \/ CreateBinary(t) \/ WriteBinary(t) \/ Chmod(t)
    \/ SpawnFails(t) \/ SpawnApp(t) \/ Insert(t) \/ Kill(t) \/ Reap(t)

RuntimeNext ==
    \/ SourceStep /\ UNCHANGED appvars
    \/ \E t \in Callers : Free(t) /\ RefreshBegin(t) /\ UNCHANGED appvars
    \/ \E t \in Tasks : (RefreshProgress(t) \/ DropRefresh(t)) /\ UNCHANGED appvars
    \/ \E t \in Callers, a \in Apps :
          Free(t) /\ (AcceptInstall(t, a) \/ AcceptStart(t, a) \/ AcceptStop(t, a))
    \/ \E t \in Callers : AppStep(t) \/ DropAppRequest(t)
    \/ \E p \in Procs : AppExits(p)
    \/ Restart

RuntimeSpec == RuntimeInit /\ [][RuntimeNext]_runtimevars

-----------------------------------------------------------------------------
(* The runtime manages the processes it started: one that runs is in the   *)
(* table or in the hands of a request, but for those of an application     *)
(* that was started over a running process, whose start was dropped at its *)
(* last await, or that outlived the runtime.                               *)
NoStrayProcess ==
    \A p \in Procs : Live(p) => Held(p) \/ procs[p].app \in doubled

(* Only whole binaries are started, whichever writes fail or are cut off:  *)
(* what is not complete is not there, or may not be executed.  That is so  *)
(* only as long as no two installs write over each other.                  *)
OnlyWholeBinariesRun ==
    [][\A t \in Callers :
          InPC(t, "spawn") /\ req'[t].pc = "insert" =>
              binary[req[t].app].content = "whole" \/ req[t].app \in rewritten]_runtimevars
=============================================================================
