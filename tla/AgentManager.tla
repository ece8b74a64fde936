---------------------------- MODULE AgentManager ----------------------------
(***************************************************************************)
(* The agent supervisor of src/agent/mod.rs: a table of agents behind one  *)
(* RwLock, the operating-system processes started for them, the API        *)
(* requests that register, start, stop and restart agents, and the         *)
(* monitor task that detects crashes, restarts and probes health.          *)
(*                                                                         *)
(* One action is one critical section of the lock, or one step between two *)
(* sections (spawn, wait, sleep, HTTP probe).  Whatever other tasks do     *)
(* between two sections of a call is therefore an interleaving here.       *)
(*                                                                         *)
(* A tokio Child is modelled by the slot of the process it owns.  Dropping *)
(* a Child kills the process (kill_on_drop), so a slot is emptied by the   *)
(* step that drops its owner.                                              *)
(***************************************************************************)
EXTENDS Naturals

CONSTANTS
    Ids,                  \* agent ids
    Callers,              \* concurrent API requests
    Monitor,              \* the monitor task
    Procs,                \* slots for processes that are not yet reaped
    Configs,              \* agent configurations
    None,                 \* absent: no handle, no child, no process
    SpawnMayFail,         \* Command::spawn may return an error
    ProcessesMayExit,     \* an agent's process may exit by itself
    RequestsMayBeDropped  \* a request future may be dropped at an await

Tasks == Callers \cup {Monitor}

ASSUME ConstantsAssumption ==
    /\ Monitor \notin Callers
    /\ None \notin Procs \cup Ids
    /\ SpawnMayFail \in BOOLEAN
    /\ ProcessesMayExit \in BOOLEAN
    /\ RequestsMayBeDropped \in BOOLEAN

ErrorThreshold == 5       \* crashes before an agent is in Error
UnhealthyThreshold == 3   \* failed probes before an agent is unhealthy

VARIABLES
    agents,   \* id -> handle, or None when the id is not registered
    procs,    \* slot -> process, or None when the slot is free
    call,     \* task -> frame of the start, stop or restart it executes
    mon       \* the monitor task's position in monitor_tick

vars == <<agents, procs, call, mon>>

-----------------------------------------------------------------------------
Statuses == {"Stopped", "Starting", "Running", "Stopping", "Error"}

Handle == [cfg : Configs, status : Statuses, child : Procs \cup {None},
           crash : 0..ErrorThreshold, healthy : BOOLEAN,
           fails : 0..UnhealthyThreshold]

Process == [state : {"alive", "killed", "exited"}, id : Ids, cfg : Configs,
            ready : BOOLEAN]

ASSUME NoneAssumption == None \notin Handle /\ None \notin Process

StartPCs == {"start", "spawn", "commit"}
StopPCs  == {"stop", "wait", "kill", "clear"}

(* "again": the stop belongs to a restart, which goes on with a start.     *)
Frame == [pc : StartPCs \cup StopPCs \cup {"idle"}, id : Ids \cup {None},
          cfg : Configs \cup {None}, child : Procs \cup {None},
          again : BOOLEAN, res : {"ok", "err"}]

MonitorState == [pc : {"idle", "check", "mark", "count", "backoff", "restart",
                       "health", "probe", "update"},
                 ids : SUBSET Ids, todo : SUBSET Ids, id : Ids \cup {None},
                 good : BOOLEAN]

(* A frame holds what its position needs, and a Child only between the     *)
(* spawn and section 2 of start and while stop waits.                      *)
FrameOK(f) ==
    /\ f.pc # "idle" <=> f.id \in Ids
    /\ f.pc = "spawn" => f.cfg \in Configs
    /\ f.pc \in {"commit", "wait", "kill"} <=> f.child \in Procs

TypeOK ==
    /\ agents \in [Ids -> Handle \cup {None}]
    /\ procs \in [Procs -> Process \cup {None}]
    /\ call \in [Tasks -> Frame]
    /\ \A t \in Tasks : FrameOK(call[t])
    /\ mon \in MonitorState
    /\ mon.pc \notin {"idle", "check", "health"} <=> mon.id \in Ids

-----------------------------------------------------------------------------
(* The handle updates of the code, one operator each.                      *)

Mutant_NewHandle(c) ==
    [cfg |-> c, status |-> "NotInstalled", child |-> None, crash |-> 0,
     healthy |-> FALSE, fails |-> 0]

NewHandle(c) == [cfg |-> c, status |-> "Stopped", child |-> None, crash |-> 0,
                 healthy |-> FALSE, fails |-> 0]

Started(h, p) == [h EXCEPT !.child = p, !.status = "Running",
                           !.crash = 0, !.fails = 0]

Mutant_Stopped(h) == [h EXCEPT !.child = None, !.healthy = FALSE]

Stopped(h) == [h EXCEPT !.status = "Stopped", !.child = None, !.healthy = FALSE]

Min2(a, b) == IF a < b THEN a ELSE b

Mutant_Crashed(h) ==
    LET n == Min2(h.crash + 1, ErrorThreshold)
    IN  [h EXCEPT !.crash = n, !.child = None,
                  !.status = IF n >= ErrorThreshold THEN "Error" ELSE "Stopped"]

(* The counter saturates at the threshold: nothing reads it beyond.        *)
Crashed(h) ==
    LET n == Min2(h.crash + 1, ErrorThreshold)
    IN  [h EXCEPT !.crash = n, !.child = None, !.healthy = FALSE,
                  !.status = IF n >= ErrorThreshold THEN "Error" ELSE "Stopped"]

Probed(h, good) ==
    IF good
    THEN [h EXCEPT !.healthy = TRUE, !.fails = 0]
    ELSE LET n == Min2(h.fails + 1, UnhealthyThreshold)
         IN  [h EXCEPT !.fails = n,
                       !.healthy = h.healthy /\ n < UnhealthyThreshold]

(* Dropping the Child objects that own the slots of S.                     *)
Dropping(S) == procs' = [p \in Procs |-> IF p \in S THEN None ELSE procs[p]]

IsRunning(id) == IF agents[id] = None THEN FALSE ELSE agents[id].status = "Running"

ChildOf(id) == IF agents[id] = None THEN None ELSE agents[id].child

Returned(r) == [pc |-> "idle", id |-> None, cfg |-> None, child |-> None,
                again |-> FALSE, res |-> r]

Return(t, r) == call' = [call EXCEPT ![t] = Returned(r)]

At(t, pc) == call[t].pc = pc

-----------------------------------------------------------------------------
(* register and unregister: one critical section each.  The handle they    *)
(* replace or remove is dropped with its Child.                            *)

SetAgent(id, h) ==
    /\ agents' = [agents EXCEPT ![id] = h]
    /\ Dropping({ChildOf(id)})

Register(t, id, c) ==
    /\ At(t, "idle")
    /\ SetAgent(id, NewHandle(c))
    /\ UNCHANGED <<call, mon>>

Unregister(t, id) ==
    /\ At(t, "idle")
    /\ agents[id] # None
    /\ SetAgent(id, None)
    /\ UNCHANGED <<call, mon>>

-----------------------------------------------------------------------------
(* start: section 1, spawn, section 2.                                     *)

MayStart(id) ==
    IF agents[id] = None THEN FALSE
    ELSE agents[id].status \notin {"Running", "Starting"}

StartSection(t, id) ==
    \/ /\ ~MayStart(id)
       /\ Return(t, "err")
       /\ UNCHANGED agents
    \/ /\ MayStart(id)
       /\ agents' = [agents EXCEPT ![id].status = "Starting"]
       /\ call' = [call EXCEPT ![t] = [Returned("ok") EXCEPT
                      !.pc = "spawn", !.id = id, !.cfg = agents[id].cfg]]

(* A spawn error returns at once: the status stays Starting.               *)
Spawn(t) ==
    /\ At(t, "spawn")
    /\ \/ \E p \in Procs :
             /\ procs[p] = None
             /\ procs' = [procs EXCEPT ![p] =
                   [state |-> "alive", id |-> call[t].id, cfg |-> call[t].cfg,
                    ready |-> FALSE]]
             /\ call' = [call EXCEPT ![t].pc = "commit", ![t].child = p]
       \/ /\ SpawnMayFail
          /\ Return(t, "err")
          /\ UNCHANGED procs
    /\ UNCHANGED <<agents, mon>>

Mutant_StartCommit(t) ==
    LET id == call[t].id  p == call[t].child
    IN  /\ At(t, "commit")
        /\ \/ /\ agents[id] # None
              /\ agents' = [agents EXCEPT ![id] = Started(agents[id], p)]
              /\ Dropping({ChildOf(id)})
           \/ /\ agents[id] = None
              /\ UNCHANGED <<agents, procs>>
        /\ Return(t, "ok")
        /\ UNCHANGED mon

(* The Child already in the handle is dropped when the new one replaces    *)
(* it; the new Child is dropped when the agent is gone.                    *)
StartCommit(t) ==
    LET id == call[t].id  p == call[t].child
    IN  /\ At(t, "commit")
        /\ \/ /\ agents[id] # None
              /\ agents' = [agents EXCEPT ![id] = Started(agents[id], p)]
              /\ Dropping({ChildOf(id)})
           \/ /\ agents[id] = None
              /\ Dropping({p})
              /\ UNCHANGED agents
        /\ Return(t, "ok")
        /\ UNCHANGED mon

-----------------------------------------------------------------------------
(* stop: section 1 with the kill, the bounded wait, the kill().await after *)
(* a timeout, section 2.                                                   *)

Mutant_Kill(p) == UNCHANGED procs

(* start_kill: SIGKILL on Unix, TerminateProcess on Windows.               *)
Kill(p) ==
    procs' = [q \in Procs |->
        IF q = p /\ procs[q] # None /\ procs[q].state = "alive"
        THEN [procs[q] EXCEPT !.state = "killed"] ELSE procs[q]]

StopSection(t, id, again) ==
    \/ /\ ~IsRunning(id)
       /\ Return(t, "err")
       /\ UNCHANGED <<agents, procs>>
    \/ /\ IsRunning(id)
       /\ agents' = [agents EXCEPT ![id].status = "Stopping",
                                   ![id].child = None]
       /\ Kill(ChildOf(id))
       /\ call' = [call EXCEPT ![t] = [Returned("ok") EXCEPT
                      !.pc = IF ChildOf(id) = None THEN "clear" ELSE "wait",
                      !.id = id, !.child = ChildOf(id), !.again = again]]

(* child.wait() returned, before or after the timeout: the Child is        *)
(* dropped and its process reaped.                                         *)
StopReaped(t) ==
    /\ At(t, "wait") \/ At(t, "kill")
    /\ procs[call[t].child].state = "exited"
    /\ Dropping({call[t].child})
    /\ call' = [call EXCEPT ![t].pc = "clear", ![t].child = None]
    /\ UNCHANGED <<agents, mon>>

StopTimeout(t) ==
    /\ At(t, "wait")
    /\ procs[call[t].child].state # "exited"
    /\ Kill(call[t].child)
    /\ call' = [call EXCEPT ![t].pc = "kill"]
    /\ UNCHANGED <<agents, mon>>

(* Section 2 is unconditional: it clears whatever the handle holds now.    *)
StopCommit(t) ==
    LET id == call[t].id
    IN  /\ At(t, "clear")
        /\ \/ /\ agents[id] # None
              /\ agents' = [agents EXCEPT ![id] = Stopped(agents[id])]
              /\ Dropping({ChildOf(id)})
           \/ /\ agents[id] = None
              /\ UNCHANGED <<agents, procs>>
        /\ IF call[t].again
           THEN call' = [call EXCEPT ![t].pc = "start"]
           ELSE Return(t, "ok")
        /\ UNCHANGED mon

-----------------------------------------------------------------------------
(* The API requests.  restart reads the status, then stops and starts in   *)
(* sections of their own.                                                  *)

ApiStart(t, id) ==
    At(t, "idle") /\ StartSection(t, id) /\ UNCHANGED <<procs, mon>>

ApiStop(t, id) ==
    At(t, "idle") /\ StopSection(t, id, FALSE) /\ UNCHANGED mon

ApiRestart(t, id) ==
    /\ At(t, "idle")
    /\ call' = [call EXCEPT ![t] = [Returned("ok") EXCEPT
                   !.pc = IF IsRunning(id) THEN "stop" ELSE "start", !.id = id]]
    /\ UNCHANGED <<agents, procs, mon>>

RestartStop(t) ==
    At(t, "stop") /\ StopSection(t, call[t].id, TRUE) /\ UNCHANGED mon

RestartStart(t) ==
    At(t, "start") /\ StartSection(t, call[t].id) /\ UNCHANGED <<procs, mon>>

Mutant_DropRequest(t) ==
    /\ RequestsMayBeDropped
    /\ t \in Callers
    /\ ~At(t, "idle") /\ ~At(t, "spawn")
    /\ Return(t, "err")
    /\ UNCHANGED <<agents, procs, mon>>

(* The client disconnects or the request times out: the future is dropped  *)
(* at the await it is suspended in, with the Child it holds.  There is no  *)
(* await between section 1 of start and the end of spawn.                  *)
DropRequest(t) ==
    /\ RequestsMayBeDropped
    /\ t \in Callers
    /\ ~At(t, "idle") /\ ~At(t, "spawn")
    /\ Dropping({call[t].child})
    /\ Return(t, "err")
    /\ UNCHANGED <<agents, mon>>

-----------------------------------------------------------------------------
(* monitor_tick.  Phases 2 and 3 walk the ids collected in phase 1; the    *)
(* HashMap's order is arbitrary, so the next id is any that is left.       *)

Mutant_Watched ==
    {id \in Ids : IF IsRunning(id) THEN agents[id].healthy ELSE FALSE}

Watched == {id \in Ids : IsRunning(id)}

MonTick ==
    /\ mon.pc = "idle"
    /\ mon' = [mon EXCEPT !.pc = "check", !.ids = Watched, !.todo = Watched]
    /\ UNCHANGED <<agents, procs, call>>

Mutant_HasExited(id) == ChildOf(id) = None \/ procs[ChildOf(id)].state = "exited"

HasExited(id) == ChildOf(id) # None /\ procs[ChildOf(id)].state = "exited"

Mutant_MonCheck(id) ==
    /\ mon.pc = "check" /\ id \in mon.todo
    /\ mon' = IF ChildOf(id) # None
              THEN [mon EXCEPT !.pc = "mark", !.todo = @ \ {id}, !.id = id]
              ELSE [mon EXCEPT !.todo = @ \ {id}]
    /\ UNCHANGED <<agents, procs, call>>

MonCheck(id) ==
    /\ mon.pc = "check" /\ id \in mon.todo
    /\ mon' = IF HasExited(id)
              THEN [mon EXCEPT !.pc = "mark", !.todo = @ \ {id}, !.id = id]
              ELSE [mon EXCEPT !.todo = @ \ {id}]
    /\ UNCHANGED <<agents, procs, call>>

(* mark_crash looks the agent up again and drops whatever Child it finds.  *)
MarkCrash ==
    /\ mon.pc = "mark"
    /\ \/ /\ agents[mon.id] # None
          /\ agents' = [agents EXCEPT ![mon.id] = Crashed(agents[mon.id])]
          /\ Dropping({ChildOf(mon.id)})
       \/ /\ agents[mon.id] = None
          /\ UNCHANGED <<agents, procs>>
    /\ mon' = [mon EXCEPT !.pc = "count"]
    /\ UNCHANGED call

CrashCount(id) == IF agents[id] = None THEN 0 ELSE agents[id].crash

Mutant_MonCount ==
    /\ mon.pc = "count"
    /\ mon' = IF CrashCount(mon.id) = 0
              THEN [mon EXCEPT !.pc = "backoff"]
              ELSE [mon EXCEPT !.pc = "check", !.id = None]
    /\ UNCHANGED <<agents, procs, call>>

MonCount ==
    /\ mon.pc = "count"
    /\ mon' = IF CrashCount(mon.id) < ErrorThreshold
              THEN [mon EXCEPT !.pc = "backoff"]
              ELSE [mon EXCEPT !.pc = "check", !.id = None]
    /\ UNCHANGED <<agents, procs, call>>

(* After the sleep: start(id), executed by the monitor task itself.        *)
MonRestart ==
    /\ mon.pc = "backoff" /\ At(Monitor, "idle")
    /\ StartSection(Monitor, mon.id)
    /\ mon' = [mon EXCEPT !.pc = "restart"]
    /\ UNCHANGED procs

MonRestarted ==
    /\ mon.pc = "restart" /\ At(Monitor, "idle")
    /\ mon' = [mon EXCEPT !.pc = "check", !.id = None]
    /\ UNCHANGED <<agents, procs, call>>

MonNextPhase ==
    /\ mon.todo = {}
    /\ \/ /\ mon.pc = "check"
          /\ mon' = [mon EXCEPT !.pc = "health", !.todo = mon.ids]
       \/ /\ mon.pc = "health"
          /\ mon' = [mon EXCEPT !.pc = "idle", !.ids = {}]
    /\ UNCHANGED <<agents, procs, call>>

(* Only an agent that is still Running, and has been for 5 s, is probed.   *)
MonSelect(id) ==
    /\ mon.pc = "health" /\ id \in mon.todo
    /\ \/ /\ IsRunning(id)
          /\ mon' = [mon EXCEPT !.pc = "probe", !.todo = @ \ {id}, !.id = id]
       \/ mon' = [mon EXCEPT !.todo = @ \ {id}]
    /\ UNCHANGED <<agents, procs, call>>

Serving(id) ==
    \E p \in Procs : /\ procs[p] # None
                     /\ procs[p].id = id
                     /\ procs[p].state = "alive"
                     /\ procs[p].ready

(* The answer of GET /health/ready: a success needs a serving process; a   *)
(* failure is always possible (timeout, not in the registry).              *)
MonProbe ==
    /\ mon.pc = "probe"
    /\ \E good \in {FALSE, Serving(mon.id)} :
          mon' = [mon EXCEPT !.pc = "update", !.good = good]
    /\ UNCHANGED <<agents, procs, call>>

MonUpdate ==
    /\ mon.pc = "update"
    /\ agents' = [agents EXCEPT ![mon.id] =
                     IF @ = None THEN None ELSE Probed(@, mon.good)]
    /\ mon' = [mon EXCEPT !.pc = "health", !.id = None, !.good = FALSE]
    /\ UNCHANGED <<procs, call>>

-----------------------------------------------------------------------------
(* The operating system and the agents' own programs.                      *)

ProcessExits(p) ==
    /\ ProcessesMayExit
    /\ procs[p] # None
    /\ procs[p].state = "alive"
    /\ procs' = [procs EXCEPT ![p].state = "exited"]
    /\ UNCHANGED <<agents, call, mon>>

KilledExits(p) ==
    /\ procs[p] # None
    /\ procs[p].state = "killed"
    /\ procs' = [procs EXCEPT ![p].state = "exited"]
    /\ UNCHANGED <<agents, call, mon>>

BecomesReady(p) ==
    /\ procs[p] # None
    /\ procs[p].state = "alive" /\ ~procs[p].ready
    /\ procs' = [procs EXCEPT ![p].ready = TRUE]
    /\ UNCHANGED <<agents, call, mon>>

-----------------------------------------------------------------------------
Init ==
    /\ agents = [id \in Ids |-> None]
    /\ procs = [p \in Procs |-> None]
    /\ call = [t \in Tasks |-> Returned("ok")]
    /\ mon = [pc |-> "idle", ids |-> {}, todo |-> {}, id |-> None,
              good |-> FALSE]

CallStep(t) ==
    \/ Spawn(t) \/ StartCommit(t)
    \/ StopReaped(t) \/ StopTimeout(t) \/ StopCommit(t)
    \/ RestartStop(t) \/ RestartStart(t)

ApiCall(t) == \E id \in Ids : ApiStart(t, id) \/ ApiStop(t, id) \/ ApiRestart(t, id)

Registration(t) ==
    \E id \in Ids : Unregister(t, id) \/ \E c \in Configs : Register(t, id, c)

MonitorStep ==
    \/ MonTick \/ MarkCrash \/ MonCount \/ MonRestart \/ MonRestarted
    \/ MonNextPhase \/ MonProbe \/ MonUpdate
    \/ \E id \in Ids : MonCheck(id) \/ MonSelect(id)

ProcessStep == \E p \in Procs : ProcessExits(p) \/ KilledExits(p) \/ BecomesReady(p)

Next ==
    \/ \E t \in Tasks : CallStep(t) \/ DropRequest(t)
    \/ \E t \in Callers : ApiCall(t) \/ Registration(t)
    \/ MonitorStep
    \/ ProcessStep

Spec == Init /\ [][Next]_vars

(* Tokio polls every task that is ready, the interval of the monitor fires *)
(* again and again, and a process that got SIGKILL exits.  Nothing forces  *)
(* a healthy process to exit, a request to arrive or to be dropped.        *)
Fairness ==
    /\ \A t \in Tasks : WF_vars(CallStep(t))
    /\ WF_vars(MonitorStep)
    /\ \A p \in Procs : WF_vars(KilledExits(p))

FairSpec == Spec /\ Fairness

-----------------------------------------------------------------------------
(* Safety.                                                                 *)

Held(p) == (\E id \in Ids : ChildOf(id) = p) \/ (\E t \in Tasks : call[t].child = p)

(* No process is lost and none has two owners: every process that is not   *)
(* reaped is the child of exactly one handle of the table or of exactly    *)
(* one call in progress, whatever re-registrations, dropped requests and   *)
(* stale commits happened.  (agent/mod.rs: child, kill_on_drop.)           *)
OneOwner ==
    /\ \A p \in Procs : procs[p] # None <=> Held(p)
    /\ \A i, j \in Ids : ChildOf(i) = ChildOf(j) => i = j \/ ChildOf(i) = None
    /\ \A t, u \in Tasks :
          call[t].child = call[u].child => t = u \/ call[t].child = None
    /\ \A i \in Ids, t \in Tasks :
          ChildOf(i) = call[t].child => ChildOf(i) = None

(* What the processes are for, kept apart from how they are started and    *)
(* stopped.                                                                *)
Table  == [id \in Ids |-> ChildOf(id)]
Frames == [t \in Tasks |-> call[t].child]
Born   == [p \in Procs |-> IF procs[p] = None THEN None ELSE procs[p].id]

Ownership == INSTANCE ChildOwnership
    WITH kept <- Table, carried <- Frames, born <- Born

(* The supervisor passes each process from call to table and from table to *)
(* call as ChildOwnership says: it enters the table only under the id it   *)
(* was started for, and goes when its one owner drops it.  (agent/mod.rs:  *)
(* start and stop release the lock between the two sections in which they  *)
(* hand the Child over.)                                                   *)
RefinesOwnership == Ownership!Spec

(* "子进程（运行中时存在）": a handle holds a child exactly while it is Running, *)
(* although start, stop and mark_crash each write status and child in a    *)
(* section that does not know what the others did since its first one.     *)
ChildIffRunning ==
    \A id \in Ids : agents[id] # None =>
        (agents[id].child # None <=> agents[id].status = "Running")

-----------------------------------------------------------------------------
(* Liveness.                                                               *)

(* The exit of a registered agent's process is noticed: its handle does    *)
(* not keep the dead child.                                                *)
CrashNoticed ==
    \A id \in Ids : HasExited(id) ~> ~HasExited(id)

(* Left alone, a crashed agent gets a new process.                         *)
CrashRestarted ==
    \A id \in Ids : HasExited(id) ~>
        \E p \in Procs : procs[p] # None /\ procs[p].id = id /\ procs[p].state = "alive"

(* Every start, stop and restart request is answered.                      *)
CallsReturn == \A t \in Tasks : ~At(t, "idle") ~> At(t, "idle")
=============================================================================
