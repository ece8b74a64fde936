---------------------------- MODULE AgentHistory ----------------------------
(***************************************************************************)
(* AgentManager with four history variables, for what one state does not   *)
(* show: how often an agent has crashed in a row, whether the last thing a *)
(* caller was told about it is that it has been stopped, whether a call    *)
(* has left it half way, and whether requests have met the monitor at it.  *)
(* The variables only record; every step is a step of AgentManager.        *)
(***************************************************************************)
EXTENDS AgentManager

VARIABLES
    streak,   \* id -> crashes marked since a healthy probe or an API call
    halted,   \* id -> a stop was answered with ok, and nothing asked since
    stranded, \* id -> a call ended half way since the agent was last settled
    disturbed \* id -> a request has come since the agent was last calm

hvars == <<agents, procs, call, mon, streak, halted, stranded, disturbed>>

(* A caller's request on id arrives.                                       *)
Asked(id) == \E t \in Callers : At(t, "idle") /\ call'[t].id = id

(* A stop of id returns Ok (a dropped request answers nothing).            *)
StopAnswered(id) ==
    \E t \in Callers : /\ At(t, "clear") /\ call[t].id = id
                       /\ call'[t].pc = "idle" /\ call'[t].res = "ok"

(* The monitor has seen a crash of id and has not finished restarting it.  *)
Restarting(id) ==
    mon.id = id /\ mon.pc \in {"mark", "count", "backoff", "restart"}

Quiet(id) == ~Restarting(id) /\ \A t \in Tasks : call[t].id # id

Marked(id)   == Restarting(id) /\ mon.pc = "mark" /\ mon'.pc = "count"
Answered(id) == mon.id = id /\ mon.pc = "update" /\ mon'.pc = "health" /\ mon.good

Transient(id) ==
    IF agents[id] = None THEN FALSE ELSE agents[id].status \in {"Starting", "Stopping"}

(* A failed spawn or a dropped request ends a call between its sections.   *)
LeftHalfWay(id) ==
    \E t \in Tasks :
        /\ call[t].id = id /\ call[t].pc \in {"spawn", "commit", "wait", "kill", "clear"}
        /\ call'[t].pc = "idle" /\ call'[t].res = "err"

(* Nobody is at work on the agent and nothing is claimed about its health. *)
Calm(id) ==
    /\ \A t \in Tasks : call[t].id # id
    /\ mon.id # id
    /\ agents[id] # None => ~agents[id].healthy

(* A request on id begins, goes on, ends, or is a registration.            *)
Requested(id) ==
    \/ \E t \in Callers : call[t].id = id \/ call'[t].id = id
    \/ UNCHANGED <<call, mon>> /\ agents'[id] # agents[id]

HInit ==
    /\ streak = [id \in Ids |-> 0]
    /\ halted = [id \in Ids |-> FALSE]
    /\ stranded = [id \in Ids |-> FALSE]
    /\ disturbed = [id \in Ids |-> FALSE]

HStep ==
    /\ streak' = [id \in Ids |->
          CASE Marked(id)                -> Min2(streak[id] + 1, ErrorThreshold)
            [] Answered(id) \/ Asked(id) -> 0
            [] OTHER                     -> streak[id]]
    /\ halted' = [id \in Ids |->
          /\ ~Asked(id)
          /\ halted[id] \/ (StopAnswered(id) /\ Quiet(id)')]
    /\ stranded' = [id \in Ids |->
          Transient(id)' /\ (stranded[id] \/ LeftHalfWay(id))]
    /\ disturbed' = [id \in Ids |->
          ~Calm(id)' /\ (disturbed[id] \/ Requested(id))]

HNext == Next /\ HStep

HistorySpec == Init /\ HInit /\ [][HNext]_hvars

(* The fairness of AgentManager; the history does not restrict its steps.  *)
HistoryFairness ==
    /\ \A t \in Tasks : WF_hvars(CallStep(t) /\ HStep)
    /\ WF_hvars(MonitorStep /\ HStep)
    /\ \A p \in Procs : WF_hvars(KilledExits(p) /\ HStep)

FairHistorySpec == HistorySpec /\ HistoryFairness

-----------------------------------------------------------------------------
(* A stop that was answered holds: when no other call on the agent and no  *)
(* restart by the monitor was under way, the agent stays Stopped and no    *)
(* process of it exists until somebody asks for it again.  The monitor     *)
(* works from a list of ids collected earlier, so it meets such agents.    *)
StopHolds ==
    \A id \in Ids : halted[id] =>
        /\ agents[id] # None => agents[id].status = "Stopped"
        /\ \A p \in Procs : procs[p] # None => procs[p].id # id

(* A transient status belongs to a call: an agent is Starting only while   *)
(* some start of it is between its sections, Stopping only while a stop    *)
(* is, but for one that a failed spawn or a dropped request has left so.   *)
(* Nothing ever moves a Starting agent again: start, stop and the monitor  *)
(* all pass over it.                                                       *)
TransientInFlight ==
    \A id \in Ids : agents[id] # None /\ ~stranded[id] =>
        /\ agents[id].status = "Starting" =>
              \E t \in Tasks : call[t].id = id /\ call[t].pc \in {"spawn", "commit"}
        /\ agents[id].status = "Stopping" =>
              \E t \in Tasks : call[t].id = id /\ call[t].pc \in {"wait", "kill", "clear"}

(* An agent is healthy because its own process has answered: unless a      *)
(* request has met the monitor at this agent, the flag of a Running agent  *)
(* is never the answer of a process that has been replaced since.          *)
(* (monitor_tick probes, waits, and writes the flag in a later section.)   *)
HealthIsOfTheProcess ==
    \A id \in Ids : IsRunning(id) /\ agents[id].healthy /\ ~disturbed[id] =>
        procs[agents[id].child].ready

(* Crash handling costs a live process its life only where a request has   *)
(* met it: otherwise what mark_crash drops has exited by itself.           *)
MonitorSparesUndisturbed ==
    [][MonitorStep => \A p \in Procs :
          /\ procs[p] # None /\ procs'[p] = None
          /\ procs[p].state # "exited"
          => disturbed[procs[p].id]]_hvars

(* "连续崩溃超过 5 次，标记为 Error": an agent that crashed five times in a    *)
(* row, with no healthy probe between, is in Error.                        *)
CrashLoopReachesError ==
    \A id \in Ids : streak[id] >= ErrorThreshold /\ agents[id] # None =>
        agents[id].status = "Error"
=============================================================================
