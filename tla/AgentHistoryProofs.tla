------------------------- MODULE AgentHistoryProofs -------------------------
(***************************************************************************)
(* Proofs about AgentHistory: a transient status belongs to a call in      *)
(* progress, a stop that was answered holds, and health is a fact about    *)
(* the process an agent runs now.  The lemmas follow one agent at a time:  *)
(* what each step does to the agent j, to the calls on it, to the monitor  *)
(* where it looks at it and to its processes.                              *)
(***************************************************************************)
EXTENDS AgentManagerProofs, AgentHistory

StartsOf(id) == {t \in Tasks : call[t].id = id /\ call[t].pc \in {"spawn", "commit"}}
StopsOf(id)  == {t \in Tasks : call[t].id = id /\ call[t].pc \in {"wait", "kill", "clear"}}

StatusOf(id) == IF agents[id] = None THEN "absent" ELSE agents[id].status

TransientAt(id) == /\ StatusOf(id) = "Starting" => StartsOf(id) # {}
                   /\ StatusOf(id) = "Stopping" => StopsOf(id) # {}

LEMMA TransientPerId ==
    TransientInFlight <=> \A id \in Ids : stranded[id] \/ TransientAt(id)
BY DEF TransientInFlight, TransientAt, StatusOf, StartsOf, StopsOf

(* The three ways a step can treat an agent.                               *)
LEMMA Undisturbed ==
    ASSUME NEW id \in Ids, TransientAt(id), StatusOf(id)' = StatusOf(id),
           StartsOf(id) \subseteq StartsOf(id)', StopsOf(id) \subseteq StopsOf(id)'
    PROVE  TransientAt(id)'
BY DEF TransientAt

LEMMA Settled ==
    ASSUME NEW id \in Ids, StatusOf(id)' \notin {"Starting", "Stopping"}
    PROVE  TransientAt(id)'
BY DEF TransientAt

LEMMA Begun ==
    ASSUME NEW id \in Ids, NEW t \in Tasks,
           \/ StatusOf(id)' = "Starting" /\ t \in StartsOf(id)'
           \/ StatusOf(id)' = "Stopping" /\ t \in StopsOf(id)'
    PROVE  TransientAt(id)'
BY DEF TransientAt

(* A call that is not in flight, or not on this agent, is no witness.      *)
LEMMA FramesKept ==
    ASSUME TypeOK, NEW t \in Tasks, NEW f, call' = [call EXCEPT ![t] = f],
           NEW id \in Ids, t \notin StartsOf(id) \cup StopsOf(id)
    PROVE  StartsOf(id) \subseteq StartsOf(id)' /\ StopsOf(id) \subseteq StopsOf(id)'
BY DEF StartsOf, StopsOf, TypeOK

LEMMA FramesSame ==
    ASSUME call' = call, NEW id \in Ids
    PROVE  StartsOf(id) \subseteq StartsOf(id)' /\ StopsOf(id) \subseteq StopsOf(id)'
BY DEF StartsOf, StopsOf

LEMMA HandleStatus ==
    ASSUME NEW h \in Handle
    PROVE  /\ \A p : Started(h, p).status = "Running"
           /\ Stopped(h).status = "Stopped"
BY DEF Handle, Started, Stopped

LEMMA StatusReplaced ==
    ASSUME TypeOK, NEW id \in Ids, NEW h \in Handle \cup {None},
           agents' = [agents EXCEPT ![id] = h]
    PROVE  /\ h # None => StatusOf(id)' = h.status
           /\ h = None => StatusOf(id)' = "absent"
           /\ \A j \in Ids : j # id => StatusOf(j)' = StatusOf(j)
BY DEF StatusOf, TypeOK

LEMMA StatusSame ==
    ASSUME agents' = agents, NEW id \in Ids
    PROVE  StatusOf(id)' = StatusOf(id)
BY DEF StatusOf

LEMMA StartSectionTransient ==
    ASSUME TypeOK, NEW j \in Ids, TransientAt(j), NEW t \in Tasks, NEW id \in Ids,
           StartSection(t, id), At(t, "idle") \/ At(t, "start")
    PROVE  TransientAt(j)'
<1>1. TransientAt(j) /\ t \notin StartsOf(j) \cup StopsOf(j)
  BY DEF At, StartsOf, StopsOf
<1>2. CASE Return(t, "err") /\ UNCHANGED agents
  BY <1>1, <1>2, FramesKept, StatusSame, Undisturbed DEF Return
<1>3. CASE /\ MayStart(id) /\ agents' = [agents EXCEPT ![id].status = "Starting"]
           /\ call' = [call EXCEPT ![t] = [Returned("ok") EXCEPT
                          !.pc = "spawn", !.id = id, !.cfg = agents[id].cfg]]
  <2> DEFINE h == [agents[id] EXCEPT !.status = "Starting"]
             f == [Returned("ok") EXCEPT !.pc = "spawn", !.id = id,
                                         !.cfg = agents[id].cfg]
  <2>1. agents[id] \in Handle
    BY <1>3, AgentType DEF MayStart
  <2>2. h.status = "Starting"
    BY <2>1 DEF Handle
  <2>9. h \in Handle
    BY <2>1, HandleUpdates DEF Statuses
  <2>3. agents' = [agents EXCEPT ![id] = h] /\ call' = [call EXCEPT ![t] = f]
    BY <1>3
  <2>4. f.pc = "spawn" /\ f.id = id
    BY DEF Returned
  <2> HIDE DEF h, f
  <2>5. h # None
    BY <2>9, NoneAssumption
  <2>6. CASE j = id
    <3>1. StatusOf(id)' = "Starting"
      BY <2>2, <2>3, <2>5, <2>9, StatusReplaced
    <3>2. t \in StartsOf(id)'
      BY <2>3, <2>4 DEF StartsOf, TypeOK
    <3>3. QED
      BY <2>6, <3>1, <3>2, Begun
  <2>7. CASE j # id
    BY <1>1, <2>3, <2>7, <2>9, StatusReplaced, FramesKept, Undisturbed
  <2>8. QED
    BY <2>6, <2>7
<1>4. QED
  BY <1>2, <1>3 DEF StartSection

LEMMA StopSectionTransient ==
    ASSUME TypeOK, NEW j \in Ids, TransientAt(j), NEW t \in Tasks, NEW id \in Ids,
           NEW again \in BOOLEAN, StopSection(t, id, again),
           At(t, "idle") \/ At(t, "stop")
    PROVE  TransientAt(j)'
<1>1. TransientAt(j) /\ t \notin StartsOf(j) \cup StopsOf(j)
  BY DEF At, StartsOf, StopsOf
<1>2. CASE Return(t, "err") /\ UNCHANGED agents
  BY <1>1, <1>2, FramesKept, StatusSame, Undisturbed DEF Return
<1>3. CASE /\ IsRunning(id)
           /\ agents' = [agents EXCEPT ![id].status = "Stopping", ![id].child = None]
           /\ call' = [call EXCEPT ![t] = [Returned("ok") EXCEPT
                          !.pc = IF ChildOf(id) = None THEN "clear" ELSE "wait",
                          !.id = id, !.child = ChildOf(id), !.again = again]]
  <2> DEFINE h == [agents[id] EXCEPT !.status = "Stopping", !.child = None]
             f == [Returned("ok") EXCEPT
                     !.pc = IF ChildOf(id) = None THEN "clear" ELSE "wait",
                     !.id = id, !.child = ChildOf(id), !.again = again]
  <2>1. agents[id] \in Handle
    BY <1>3, AgentType DEF IsRunning
  <2>2. h \in Handle
    BY <2>1, HandleUpdates DEF Statuses
  <2>3. h.status = "Stopping"
    BY <2>1 DEF Handle
  <2>4. agents' = [agents EXCEPT ![id] = h]
    BY <1>3, <2>1 DEF TypeOK, Handle
  <2>5. call' = [call EXCEPT ![t] = f]
    BY <1>3
  <2>6. f.pc \in {"clear", "wait"} /\ f.id = id
    BY DEF Returned
  <2> HIDE DEF h, f
  <2>7. h # None
    BY <2>2, NoneAssumption
  <2>8. CASE j = id
    <3>1. StatusOf(id)' = "Stopping"
      BY <2>2, <2>3, <2>4, <2>7, StatusReplaced
    <3>2. t \in StopsOf(id)'
      BY <2>5, <2>6 DEF StopsOf, TypeOK
    <3>3. QED
      BY <2>8, <3>1, <3>2, Begun
  <2>9. CASE j # id
    BY <1>1, <2>2, <2>4, <2>5, <2>9, StatusReplaced, FramesKept, Undisturbed
  <2>10. QED
    BY <2>8, <2>9
<1>4. QED
  BY <1>2, <1>3 DEF StopSection

(* One step of a call in progress.                                         *)
LEMMA CallStepTransient ==
    ASSUME TypeOK, NEW j \in Ids, TransientAt(j), ~LeftHalfWay(j),
           NEW t \in Tasks, CallStep(t)
    PROVE  TransientAt(j)'
<1>1. CASE Spawn(t) /\ call[t].id # j
  <2>1. t \notin StartsOf(j) \cup StopsOf(j)
    BY <1>1 DEF StartsOf, StopsOf
  <2>2. PICK f : call' = [call EXCEPT ![t] = f]
    <3>1. CASE Return(t, "err")
      BY <3>1 DEF Return
    <3>2. CASE \E p \in Procs : call' = [call EXCEPT ![t].pc = "commit", ![t].child = p]
      BY <3>2
    <3>3. QED
      BY <1>1, <3>1, <3>2 DEF Spawn
  <2>3. QED
    BY <1>1, <2>1, <2>2, FramesKept, StatusSame, Undisturbed DEF Spawn
<1>7. CASE Spawn(t) /\ call[t].id = j
  <2>0. call[t].pc = "spawn" /\ ~(call'[t].pc = "idle" /\ call'[t].res = "err")
    BY <1>7 DEF Spawn, At, LeftHalfWay
  <2>9. ~Return(t, "err")
    BY <2>0 DEF Return, Returned, TypeOK
  <2>1. PICK p \in Procs : call' = [call EXCEPT ![t].pc = "commit", ![t].child = p]
    BY <1>7, <2>9 DEF Spawn
  <2>2. \A u \in Tasks : /\ call'[u].id = call[u].id
                         /\ u # t => call'[u].pc = call[u].pc
    BY <2>1, CallFacts DEF TypeOK, Frame
  <2>3. call[t].pc = "spawn" /\ call'[t].pc = "commit"
    BY <2>0, <2>1, CallFacts DEF TypeOK, Frame
  <2>4. TransientAt(j)'
    <3>1. StartsOf(j) \subseteq StartsOf(j)' /\ StopsOf(j) \subseteq StopsOf(j)'
      BY <2>2, <2>3 DEF StartsOf, StopsOf
    <3>2. QED
      BY <1>7, <3>1, StatusSame, Undisturbed DEF Spawn
  <2>5. QED
    BY <2>4
<1>2. CASE StartCommit(t) \/ StopCommit(t)
  <2> DEFINE id == call[t].id
  <2>1. id \in Ids
    BY <1>2, CallFacts DEF StartCommit, StopCommit, At
  <2>2. PICK f : call' = [call EXCEPT ![t] = f]
    <3>1. CASE StopCommit(t) /\ call[t].again
      BY <3>1 DEF StopCommit
    <3>2. CASE StartCommit(t) \/ ~call[t].again
      BY <1>2, <3>2 DEF StartCommit, StopCommit, Return
    <3>3. QED
      BY <1>2, <3>1, <3>2
  <2>3. PICK h \in Handle \cup {None} :
           /\ agents' = [agents EXCEPT ![id] = h]
           /\ h # None => h.status \in {"Running", "Stopped"}
    <3>1. CASE agents[id] = None
      BY <1>2, <3>1, CallFacts DEF StartCommit, StopCommit, TypeOK, At
    <3>2. CASE agents[id] # None /\ StartCommit(t)
      <4>1. /\ Started(agents[id], call[t].child) \in Handle
            /\ Started(agents[id], call[t].child).status = "Running"
        BY <3>2, CallFacts, AgentType, HandleUpdates, HandleStatus
        DEF StartCommit, At
      <4>2. QED
        BY <3>2, <4>1 DEF StartCommit
    <3>3. CASE agents[id] # None /\ StopCommit(t)
      <4>1. /\ Stopped(agents[id]) \in Handle
            /\ Stopped(agents[id]).status = "Stopped"
        BY <3>3, CallFacts, AgentType, HandleUpdates, HandleStatus
        DEF StopCommit, At
      <4>2. QED
        BY <3>3, <4>1 DEF StopCommit
    <3>4. QED
      BY <1>2, <3>1, <3>2, <3>3
  <2>4. TransientAt(j)'
    <3>1. CASE j = id
      BY <2>1, <2>3, <3>1, StatusReplaced, Settled
    <3>2. CASE j # id
      <4>1. t \notin StartsOf(j) \cup StopsOf(j)
        BY <3>2 DEF StartsOf, StopsOf
      <4>2. QED
        BY <2>1, <2>2, <2>3, <3>2, <4>1, StatusReplaced, FramesKept,
           Undisturbed
    <3>3. QED
      BY <3>1, <3>2
  <2>5. QED
    BY <2>4
<1>3. CASE StopReaped(t) \/ StopTimeout(t)
  <2>1. \A u \in Tasks : /\ call'[u].id = call[u].id
                         /\ u # t => call'[u].pc = call[u].pc
    BY <1>3, CallFacts DEF StopReaped, StopTimeout, TypeOK, Frame
  <2>2. call[t].pc \in {"wait", "kill"} /\ call'[t].pc \in {"clear", "kill"}
    BY <1>3, CallFacts DEF StopReaped, StopTimeout, At, TypeOK, Frame
  <2>3. TransientAt(j)'
    <3>1. StartsOf(j) \subseteq StartsOf(j)' /\ StopsOf(j) \subseteq StopsOf(j)'
      BY <2>1, <2>2 DEF StartsOf, StopsOf
    <3>2. QED
      BY <1>3, <3>1, StatusSame, Undisturbed
      DEF StopReaped, StopTimeout
  <2>4. QED
    BY <2>3
<1>4. CASE RestartStop(t)
  BY <1>4, CallFacts, StopSectionTransient DEF RestartStop, At
<1>5. CASE RestartStart(t)
  BY <1>5, CallFacts, StartSectionTransient DEF RestartStart, At
<1>6. QED
  BY <1>1, <1>2, <1>3, <1>4, <1>5, <1>7 DEF CallStep

(* An update of one entry to a settled status, or to the status it has,    *)
(* with no call touched.                                                   *)
LEMMA EntryTransient ==
    ASSUME TypeOK, NEW j \in Ids, TransientAt(j), NEW id \in Ids,
           NEW h \in Handle \cup {None},
           agents' = [agents EXCEPT ![id] = h], call' = call,
           h # None => \/ h.status \notin {"Starting", "Stopping"}
                       \/ agents[id] # None /\ h.status = agents[id].status
    PROVE  TransientAt(j)'
<1>1. StatusOf(id)' \notin {"Starting", "Stopping"} \/ StatusOf(id)' = StatusOf(id)
  BY StatusReplaced DEF StatusOf
<1>3. CASE j = id
  BY <1>1, <1>3, FramesSame, Settled, Undisturbed
<1>4. CASE j # id
  BY <1>4, StatusReplaced, FramesSame, Undisturbed
<1>5. QED
  BY <1>3, <1>4

LEMMA SameTransient ==
    ASSUME NEW j \in Ids, TransientAt(j), agents' = agents, call' = call
    PROVE  TransientAt(j)'
BY DEF TransientAt, StatusOf, StartsOf, StopsOf

LEMMA RequestTransient ==
    ASSUME TypeOK, NEW j \in Ids, TransientAt(j), ~LeftHalfWay(j), NEW t \in Tasks,
           ApiCall(t) \/ DropRequest(t) \/ Registration(t)
    PROVE  TransientAt(j)'
<1>1. ASSUME NEW id \in Ids, ApiStart(t, id) PROVE TransientAt(j)'
  BY <1>1, StartSectionTransient DEF ApiStart
<1>2. ASSUME NEW id \in Ids, ApiStop(t, id) PROVE TransientAt(j)'
  BY <1>2, StopSectionTransient DEF ApiStop
<1>3. ASSUME NEW id \in Ids, ApiRestart(t, id) PROVE TransientAt(j)'
  <2>1. PICK f : call' = [call EXCEPT ![t] = f]
    BY <1>3 DEF ApiRestart
  <2>2. TransientAt(j)'
    <3>1. t \notin StartsOf(j) \cup StopsOf(j)
      BY <1>3 DEF ApiRestart, At, StartsOf, StopsOf
    <3>2. QED
      BY <1>3, <2>1, <3>1, FramesKept, StatusSame, Undisturbed
      DEF ApiRestart
  <2>3. QED
    BY <2>2
<1>4. ASSUME NEW id \in Ids, Unregister(t, id) PROVE TransientAt(j)'
  BY <1>4, EntryTransient DEF Unregister, SetAgent
<1>5. ASSUME NEW id \in Ids, NEW c \in Configs, Register(t, id, c)
      PROVE  TransientAt(j)'
  <2>1. NewHandle(c) \in Handle /\ NewHandle(c).status = "Stopped"
    BY NewHandleType DEF NewHandle
  <2>2. QED
    BY <1>5, <2>1, EntryTransient DEF Register, SetAgent
<1>6. CASE DropRequest(t)
  <2>1. t \notin StartsOf(j) \cup StopsOf(j)
    BY <1>6 DEF DropRequest, Return, Returned, TypeOK, LeftHalfWay, StartsOf, StopsOf
  <2>2. QED
    BY <1>6, <2>1, FramesKept, StatusSame, Undisturbed DEF DropRequest, Return
<1>7. QED
  BY <1>1, <1>2, <1>3, <1>4, <1>5, <1>6 DEF ApiCall, Registration

LEMMA MonitorTransient ==
    ASSUME TypeOK, NEW j \in Ids, TransientAt(j), MonitorStep
    PROVE  TransientAt(j)'
<1>1. CASE MarkCrash
  <2> DEFINE id == mon.id
  <2>1. id \in Ids /\ call' = call
    BY <1>1 DEF MarkCrash, TypeOK
  <2>2. CASE agents[id] # None
    <3>1. /\ Crashed(agents[id]) \in Handle
          /\ Crashed(agents[id]).status \in {"Error", "Stopped"}
      BY <2>1, <2>2, AgentType, HandleUpdates DEF Crashed, Handle
    <3>2. QED
      BY <1>1, <2>1, <2>2, <3>1, EntryTransient DEF MarkCrash
  <2>3. CASE agents[id] = None
    BY <1>1, <2>1, <2>3, SameTransient DEF MarkCrash
  <2>4. QED
    BY <2>2, <2>3
<1>2. CASE MonRestart
  <2>1. mon.id \in Ids /\ Monitor \in Tasks
    BY <1>2 DEF MonRestart, TypeOK, Tasks
  <2>2. QED
    BY <1>2, <2>1, StartSectionTransient DEF MonRestart
<1>3. CASE MonUpdate
  <2>1. mon.id \in Ids /\ mon.good \in BOOLEAN /\ call' = call
    BY <1>3 DEF MonUpdate, TypeOK, MonitorState
  <2>2. CASE agents[mon.id] # None
    <3>1. Probed(agents[mon.id], mon.good) \in Handle
      BY <2>1, <2>2, AgentType, HandleUpdates
    <3>2. Probed(agents[mon.id], mon.good).status = agents[mon.id].status
      BY <2>1, <2>2, AgentType DEF Probed, Handle
    <3>3. agents' = [agents EXCEPT ![mon.id] = Probed(agents[mon.id], mon.good)]
      BY <1>3, <2>2 DEF MonUpdate
    <3>4. QED
      BY <2>1, <2>2, <3>1, <3>2, <3>3, EntryTransient
  <2>3. CASE agents[mon.id] = None
    BY <1>3, <2>1, <2>3, SameTransient DEF MonUpdate, TypeOK
  <2>4. QED
    BY <2>2, <2>3
<1>4. CASE UNCHANGED <<agents, call>>
  BY <1>4, SameTransient
<1>5. QED
  BY <1>1, <1>2, <1>3, <1>4
  DEF MonitorStep, MonTick, MonCount, MonRestarted, MonNextPhase, MonProbe,
      MonCheck, MonSelect

LEMMA StepTransient ==
    ASSUME TypeOK, NEW j \in Ids, TransientAt(j), ~LeftHalfWay(j), [Next]_vars
    PROVE  TransientAt(j)'
<1>1. CASE UNCHANGED vars
  BY <1>1, SameTransient DEF vars
<1>2. CASE ProcessStep
  BY <1>2, SameTransient DEF ProcessStep, ProcessExits, KilledExits, BecomesReady
<1>3. QED
  BY <1>1, <1>2, CallStepTransient, RequestTransient, MonitorTransient DEF Next, Tasks

LEMMA HistoryOfSpec == HistorySpec => Spec
<1>1. [HNext]_hvars => [Next]_vars
  BY DEF HNext, hvars, vars
<1>2. QED
  BY <1>1, PTL DEF HistorySpec, Spec

(* Starting and Stopping always belong to a call that is still going to    *)
(* leave them: an agent is stuck in a status that start, stop and the      *)
(* monitor all pass over only when a failed spawn or a dropped request has *)
(* left it so.                                                             *)
THEOREM TransientsBelongToCalls == HistorySpec => []TransientInFlight
<1>1. Init /\ HInit => TransientInFlight
  BY DEF Init, HInit, TransientInFlight
<1>2. TypeOK /\ TransientInFlight /\ [HNext]_hvars => TransientInFlight'
  <2> SUFFICES ASSUME TypeOK, TransientInFlight, [HNext]_hvars,
                      NEW j \in Ids, ~stranded'[j]
               PROVE  TransientAt(j)'
    BY TransientPerId DEF TransientInFlight, TransientAt, StatusOf, StartsOf, StopsOf
  <2>1. CASE UNCHANGED hvars
    BY <2>1, SameTransient, TransientPerId DEF hvars
  <2>2. CASE HNext
    <3>1. ~Transient(j)' \/ ~(stranded[j] \/ LeftHalfWay(j))
      BY <2>2 DEF HNext, HStep
    <3>2. CASE ~Transient(j)'
      BY <3>2 DEF Transient, TransientAt, StatusOf
    <3>3. CASE ~(stranded[j] \/ LeftHalfWay(j))
      BY <2>2, <3>3, TransientPerId, StepTransient DEF HNext
    <3>4. QED
      BY <3>1, <3>2, <3>3
  <2>3. QED
    BY <2>1, <2>2
<1>3. QED
  BY <1>1, <1>2, HistoryOfSpec, TypeCorrect, PTL DEF HistorySpec

-----------------------------------------------------------------------------
(* What a step does to the monitor where it looks at an agent.             *)
LEMMA MonitorFate ==
    ASSUME TypeOK, [Next]_vars, mon' # mon, mon'.id \in Ids
    PROVE  /\ mon'.pc = "mark" => HasExited(mon'.id) /\ UNCHANGED <<agents, procs, call>>
           /\ mon'.pc \in {"count", "backoff", "restart"} =>
                 /\ mon'.id = mon.id
                 /\ mon.pc \in {"mark", "count", "backoff"}
           /\ mon'.pc = "probe" => IsRunning(mon'.id) /\ UNCHANGED <<agents, procs, call>>
           /\ mon'.pc = "update" =>
                 /\ mon.pc = "probe" /\ mon'.id = mon.id
                 /\ UNCHANGED <<agents, procs, call>>
                 /\ mon'.good => Serving(mon.id)
<1>1. mon \in MonitorState /\ MonitorStep
  BY DEF TypeOK, Next, vars, CallStep, Spawn, StartCommit, StopReaped, StopTimeout,
     StopCommit, RestartStop, RestartStart, DropRequest, ApiCall, ApiStart, ApiStop,
     ApiRestart, Registration, Register, Unregister, ProcessStep, ProcessExits,
     KilledExits, BecomesReady
<1>2. CASE MonTick \/ MonRestarted \/ MonNextPhase \/ MonUpdate
  BY <1>1, <1>2 DEF MonTick, MonRestarted, MonNextPhase, MonUpdate, MonitorState
<1>3. CASE MarkCrash \/ MonCount \/ MonRestart
  BY <1>1, <1>3 DEF MarkCrash, MonCount, MonRestart, MonitorState
<1>4. CASE MonProbe
  BY <1>1, <1>4 DEF MonProbe, MonitorState
<1>5. ASSUME NEW id \in Ids, MonCheck(id)
      PROVE  (mon'.pc = "mark" /\ HasExited(mon'.id)) \/ mon'.pc = "check"
  BY <1>1, <1>5 DEF MonCheck, MonitorState
<1>6. ASSUME NEW id \in Ids, MonSelect(id)
      PROVE  (mon'.pc = "probe" /\ IsRunning(mon'.id)) \/ mon'.pc = "health"
  BY <1>1, <1>6 DEF MonSelect, MonitorState
<1>7. QED
  BY <1>1, <1>2, <1>3, <1>4, <1>5, <1>6 DEF MonitorStep, MonCheck, MonSelect

-----------------------------------------------------------------------------
(* A stop that was answered holds.                                         *)

(* What must be so while nobody asks: no call on the agent, no restart of  *)
(* it under way, and nothing in its handle that either could start from.   *)
HaltedAt(id) ==
    /\ \A t \in Tasks : call[t].id # id
    /\ ~Restarting(id)
    /\ agents[id] # None => agents[id].status = "Stopped"

LEMMA HaltedKept ==
    ASSUME TypeOK, TypeOK', ChildIffRunning, [Next]_vars,
           NEW j \in Ids, HaltedAt(j), ~Asked(j)
    PROVE  HaltedAt(j)'
<1>0. Monitor \in Tasks /\ j # None
  BY ConstantsAssumption DEF Tasks
<1>1. ASSUME NEW t \in Tasks, call'[t].id = j PROVE FALSE
  <2>1. call'[t] # call[t]
    BY <1>1 DEF HaltedAt
  <2>2. CASE CallStep(t)
    BY <1>0, <1>1, <2>2, CallIdFate DEF HaltedAt
  <2>3. CASE DropRequest(t)
    BY <1>0, <1>1, <2>3 DEF DropRequest, Return, Returned, TypeOK
  <2>4. CASE t \in Callers /\ ApiCall(t)
    BY <1>1, <2>4 DEF ApiCall, ApiStart, ApiStop, ApiRestart, Asked
  <2>5. CASE t = Monitor /\ MonRestart
    BY <1>0, <1>1, <2>5, SectionCall DEF MonRestart, HaltedAt, Restarting
  <2>6. QED
    BY <2>1, <2>2, <2>3, <2>4, <2>5, CallsFate
<1>2. ~Restarting(j)'
  <2>1. CASE mon' = mon
    BY <2>1 DEF HaltedAt, Restarting
  <2>2. CASE mon' # mon /\ mon'.id = j
    <3>1. ~HasExited(j)
      BY <1>0 DEF HaltedAt, ChildIffRunning, HasExited, ChildOf
    <3>2. QED
      BY <2>2, <3>1, MonitorFate DEF HaltedAt, Restarting
  <2>3. QED
    BY <2>1, <2>2 DEF Restarting
<1>3. agents'[j] # None => agents'[j].status = "Stopped"
  <2>1. CASE agents'[j] = agents[j]
    BY <2>1 DEF HaltedAt
  <2>2. CASE \E c \in Configs : agents'[j] = NewHandle(c)
    BY <2>2 DEF NewHandle
  <2>3. CASE MonUpdate /\ mon.id = j /\ agents[j] # None
    <3>1. agents'[j] = Probed(agents[j], mon.good) /\ agents[j] \in Handle
      BY <2>3, AgentType DEF MonUpdate, TypeOK
    <3>2. Probed(agents[j], mon.good).status = agents[j].status
      BY <3>1 DEF Probed, Handle
    <3>3. QED
      BY <2>3, <3>1, <3>2 DEF HaltedAt
  <2>4. CASE MonUpdate /\ mon.id = j /\ agents[j] = None
    BY <2>4 DEF MonUpdate, TypeOK
  <2>5. CASE (MarkCrash \/ MonRestart) /\ mon.id = j
    BY <2>5 DEF MarkCrash, MonRestart, HaltedAt, Restarting
  <2>6. CASE \E t \in Callers : call[t].id = j \/ call'[t].id = j
    BY <1>1, <2>6 DEF HaltedAt, Tasks
  <2>7. CASE call[Monitor].id = j
    BY <1>0, <2>7 DEF HaltedAt
  <2>8. QED
    BY <2>1, <2>2, <2>3, <2>4, <2>5, <2>6, <2>7, AgentsFate DEF AgentFate
<1>4. QED
  BY <1>1, <1>2, <1>3 DEF HaltedAt, Restarting

LEMMA HaltedBegun ==
    ASSUME TypeOK, [Next]_vars, NEW j \in Ids, StopAnswered(j), Quiet(j)'
    PROVE  HaltedAt(j)'
<1>1. PICK t \in Callers : /\ At(t, "clear") /\ call[t].id = j
                          /\ call'[t].pc = "idle" /\ call'[t].res = "ok"
  BY DEF StopAnswered
<1>2. t \in Tasks /\ call'[t] # call[t]
  BY <1>1 DEF At, Tasks
<1>3. ~DropRequest(t)
  BY <1>1, <1>2 DEF DropRequest, Return, Returned, TypeOK
<1>4. StopCommit(t)
  BY <1>1, <1>2, <1>3, CallsFate, ConstantsAssumption
  DEF At, CallStep, Spawn, StartCommit, StopReaped, StopTimeout, RestartStop,
      RestartStart, ApiCall, ApiStart, ApiStop, ApiRestart
<1>5. agents'[j] # None => agents'[j].status = "Stopped"
  <2>1. CASE agents[j] = None
    BY <1>1, <1>4, <2>1 DEF StopCommit
  <2>2. CASE agents[j] # None
    <3>1. agents'[j] = Stopped(agents[j]) /\ agents[j] \in Handle
      BY <1>1, <1>4, <2>2, AgentType DEF StopCommit, TypeOK
    <3>2. QED
      BY <3>1, HandleStatus
  <2>3. QED
    BY <2>1, <2>2
<1>6. QED
  BY <1>5 DEF HaltedAt, Quiet

(* The inductive invariant.                                                *)
HaltedInv == \A id \in Ids : halted[id] => HaltedAt(id)

LEMMA HaltedInvariant == HistorySpec => []HaltedInv
<1>1. Init /\ HInit => HaltedInv
  BY DEF HInit, HaltedInv
<1>2. TypeOK /\ TypeOK' /\ ChildIffRunning /\ HaltedInv /\ [HNext]_hvars => HaltedInv'
  <2> SUFFICES ASSUME TypeOK, TypeOK', ChildIffRunning, HaltedInv, [HNext]_hvars,
                      NEW j \in Ids, halted'[j]
               PROVE  HaltedAt(j)'
    BY DEF HaltedInv, HaltedAt
  <2>1. CASE UNCHANGED hvars
    BY <2>1 DEF hvars, HaltedInv, HaltedAt, Restarting
  <2>2. CASE HNext
    <3>1. Next /\ ~Asked(j) /\ (halted[j] \/ (StopAnswered(j) /\ Quiet(j)'))
      BY <2>2 DEF HNext, HStep
    <3>2. QED
      BY <3>1, HaltedKept, HaltedBegun DEF HaltedInv
  <2>3. QED
    BY <2>1, <2>2
<1>3. QED
  BY <1>1, <1>2, HistoryOfSpec, TypeCorrect, ChildMatchesStatus, PTL DEF HistorySpec

(* A stop that was answered while no other call and no restart by the      *)
(* monitor was in progress on its agent holds: no list of ids that the     *)
(* monitor has collected, no late probe and no call on another agent       *)
(* brings the agent or a process of it back before somebody asks for it.   *)
THEOREM AnsweredStopHolds == HistorySpec => []StopHolds
<1>1. TypeOK /\ ChildIffRunning /\ OwnershipInv /\ HaltedInv => StopHolds
  <2> SUFFICES ASSUME TypeOK, ChildIffRunning, OwnershipInv, HaltedInv,
                      NEW j \in Ids, halted[j]
               PROVE  /\ agents[j] # None => agents[j].status = "Stopped"
                      /\ \A p \in Procs : procs[p] # None => procs[p].id # j
    BY DEF StopHolds
  <2>1. HaltedAt(j) /\ ChildOf(j) = None
    BY DEF HaltedInv, HaltedAt, ChildIffRunning, ChildOf
  <2>2. QED
    BY <2>1, ProcessOwner, ConstantsAssumption DEF HaltedAt
<1>2. QED
  BY <1>1, HaltedInvariant, HistoryOfSpec, TypeCorrect, ChildMatchesStatus,
     OwnershipInvariant, PTL

-----------------------------------------------------------------------------
(* Health.                                                                 *)

(* What holds of an agent while no request has met the monitor at it: the  *)
(* flag is of the process the agent runs now, the monitor's probe and its  *)
(* crash verdict are about this process, and the one call on the agent is  *)
(* the start the monitor executes.                                         *)
Guarded(id) ==
    /\ \A t \in Callers : call[t].id # id
    /\ call[Monitor].id = id => agents[id] # None /\ agents[id].status = "Starting"
    /\ agents[id] # None /\ agents[id].healthy =>
          IsRunning(id) /\ procs[ChildOf(id)].ready
    /\ mon.id = id /\ mon.pc \in {"probe", "update"} => IsRunning(id)
    /\ mon.id = id /\ mon.pc = "update" /\ mon.good => procs[ChildOf(id)].ready
    /\ mon.id = id /\ mon.pc = "mark" => HasExited(id)

LEMMA CalmIsGuarded == \A id \in Ids : Calm(id) => Guarded(id)
BY DEF Calm, Guarded, Tasks

LEMMA ChildrenAreLive ==
    TypeOK /\ OwnershipInv =>
        \A id \in Ids : ChildOf(id) # None => procs[ChildOf(id)] # None
BY ChildIsProcess

LEMMA RunningHasChild ==
    ASSUME TypeOK, ChildIffRunning, OwnershipInv, NEW id \in Ids, IsRunning(id)
    PROVE  ChildOf(id) \in Procs /\ procs[ChildOf(id)] # None
BY ChildIsProcess DEF IsRunning, ChildOf, ChildIffRunning

(* A success that the monitor records is the answer of the child.          *)
LEMMA ServingIsChild ==
    ASSUME TypeOK, OwnershipInv, MonFrame, NEW id \in Ids, Guarded(id),
           mon.pc = "probe", Serving(id)
    PROVE  procs[ChildOf(id)].ready
<1>1. PICK p \in Procs : procs[p] # None /\ procs[p].id = id /\ procs[p].ready
  BY DEF Serving
<1>2. \A t \in Tasks : call[t].id # id
  BY CallFacts, ConstantsAssumption DEF Guarded, MonFrame, Tasks, TypeOK, FrameOK
<1>3. ChildOf(id) = p
  BY <1>1, <1>2, ProcessOwner
<1>4. QED
  BY <1>1, <1>3

(* The agent keeps its handle.                                             *)
LEMMA GuardedSameHandle ==
    ASSUME TypeOK, TypeOK', ChildIffRunning, OwnershipInv, OwnershipInv',
           MonFrame, [Next]_vars,
           NEW j \in Ids, Guarded(j), ~Requested(j), agents'[j] = agents[j]
    PROVE  Guarded(j)'
<1>0. Monitor \in Tasks /\ Monitor \notin Callers /\ j # None
  BY ConstantsAssumption DEF Tasks
<1>1. IsRunning(j)' = IsRunning(j) /\ ChildOf(j)' = ChildOf(j)
  BY DEF IsRunning, ChildOf
<1>2. ASSUME ChildOf(j) # None
      PROVE  /\ procs[ChildOf(j)].ready => procs'[ChildOf(j)].ready
             /\ HasExited(j) => HasExited(j)'
  <2> DEFINE p == ChildOf(j)
  <2>1. p \in Procs /\ procs[p] # None
    BY <1>2, ChildIsProcess
  <2>2. p = ChildOf(j)' /\ procs'[p] # None
    <3>1. (\A id \in Ids : ChildOf(id) # None => procs[ChildOf(id)] # None)'
      BY ChildrenAreLive, PTL
    <3>2. QED
      BY <1>1, <1>2, <3>1
  <2>3. QED
    BY <1>1, <2>1, <2>2, ProcessFate DEF HasExited
<1>3. \A t \in Callers : call'[t].id # j
  BY DEF Requested
<1>4. ASSUME call'[Monitor].id = j
      PROVE  agents'[j] # None /\ agents'[j].status = "Starting"
  <2>1. CASE call'[Monitor] = call[Monitor]
    BY <1>4, <2>1 DEF Guarded
  <2>2. CASE CallStep(Monitor)
    BY <1>0, <1>4, <2>2, CallIdFate DEF Guarded
  <2>3. CASE MonRestart
    <3>1. mon.id = j /\ ~Return(Monitor, "err")
      BY <1>0, <1>4, <2>3, SectionCall DEF MonRestart, Return, Returned, TypeOK
    <3>2. MayStart(j) /\ agents' = [agents EXCEPT ![j].status = "Starting"]
      BY <2>3, <3>1 DEF MonRestart, StartSection
    <3>3. QED
      BY <3>2, AgentType DEF MayStart, TypeOK, Handle
  <2>4. QED
    BY <1>0, <2>1, <2>2, <2>3, CallsFate DEF DropRequest
<1>5. agents'[j] # None /\ agents'[j].healthy => IsRunning(j)' /\ procs'[ChildOf(j)'].ready
  BY <1>1, <1>2, RunningHasChild, ConstantsAssumption DEF Guarded
<1>6. ASSUME mon'.id = j, mon'.pc \in {"probe", "update"} PROVE IsRunning(j)'
  BY <1>1, <1>6, MonitorFate DEF Guarded
<1>7. ASSUME mon'.id = j, mon'.pc = "update", mon'.good PROVE procs'[ChildOf(j)'].ready
  <2>1. CASE mon' = mon
    BY <1>1, <1>2, <1>7, <2>1, RunningHasChild, ConstantsAssumption DEF Guarded
  <2>2. CASE mon' # mon
    BY <1>1, <1>7, <2>2, MonitorFate, ServingIsChild
  <2>3. QED
    BY <2>1, <2>2
<1>8. ASSUME mon'.id = j, mon'.pc = "mark" PROVE HasExited(j)'
  <2>1. CASE mon' = mon
    BY <1>2, <1>8, <2>1 DEF Guarded, HasExited
  <2>2. CASE mon' # mon
    BY <1>1, <1>8, <2>2, MonitorFate DEF HasExited
  <2>3. QED
    BY <2>1, <2>2
<1>9. QED
  BY <1>3, <1>4, <1>5, <1>6, <1>7, <1>8 DEF Guarded

(* The monitor changes the handle.                                         *)
LEMMA GuardedMonitor ==
    ASSUME TypeOK, TypeOK', ChildIffRunning, OwnershipInv, OwnershipInv',
           MonFrame, [Next]_vars,
           NEW j \in Ids, Guarded(j), ~Requested(j), agents'[j] # agents[j]
    PROVE  Guarded(j)'
<1>0. Monitor \in Tasks /\ Monitor \notin Callers /\ j # None /\ mon \in MonitorState
  BY ConstantsAssumption DEF Tasks, TypeOK
<1>1. \A t \in Callers : call'[t].id # j
  BY DEF Requested
<1>2. At(Monitor, "idle") => call[Monitor].id # j
  BY <1>0 DEF TypeOK, FrameOK, At
<1>3. CASE MarkCrash /\ mon.id = j
  <2>1. agents[j] # None /\ agents[j] \in Handle
    BY <1>3, AgentType DEF MarkCrash
  <2>2. agents'[j] = Crashed(agents[j]) /\ mon'.pc = "count" /\ call' = call
    BY <1>0, <1>3, <2>1 DEF MarkCrash, TypeOK, MonitorState
  <2>3. ~agents'[j].healthy
    BY <2>1, <2>2 DEF Crashed, Handle
  <2>4. At(Monitor, "idle")
    BY <1>3 DEF MarkCrash, MonFrame, At
  <2>5. QED
    BY <1>1, <1>2, <2>2, <2>3, <2>4 DEF Guarded
<1>4. CASE MonRestart /\ mon.id = j
  <2>1. /\ MayStart(j) /\ agents' = [agents EXCEPT ![j].status = "Starting"]
        /\ mon'.pc = "restart"
    BY <1>0, <1>4 DEF MonRestart, StartSection, MonitorState
  <2>2. agents[j] # None /\ agents[j] \in Handle /\ ~IsRunning(j)
    BY <2>1, AgentType DEF MayStart, IsRunning
  <2>3. agents'[j] = [agents[j] EXCEPT !.status = "Starting"]
    BY <2>1 DEF TypeOK
  <2>4. agents'[j].status = "Starting" /\ agents'[j].healthy = agents[j].healthy
    BY <2>2, <2>3 DEF Handle
  <2>5. agents'[j] # None /\ ~agents'[j].healthy
    BY <2>2, <2>3, <2>4, HandleUpdates, NoneAssumption DEF Guarded, Statuses
  <2>6. QED
    BY <1>1, <2>1, <2>4, <2>5 DEF Guarded
<1>5. CASE MonUpdate /\ mon.id = j
  <2>1. /\ agents[j] # None /\ agents[j] \in Handle /\ mon.good \in BOOLEAN
        /\ agents'[j] = Probed(agents[j], mon.good) /\ mon'.pc = "health"
        /\ call' = call /\ procs' = procs
    BY <1>0, <1>5, AgentType DEF MonUpdate, TypeOK, MonitorState
  <2>2. /\ agents'[j].status = agents[j].status /\ agents'[j].child = agents[j].child
        /\ agents'[j].healthy => agents[j].healthy \/ mon.good
        /\ agents'[j] # None
    <3>1. agents'[j] \in Handle
      BY <2>1, HandleUpdates
    <3>2. /\ agents'[j].status = agents[j].status /\ agents'[j].child = agents[j].child
          /\ agents'[j].healthy => agents[j].healthy \/ mon.good
      BY <2>1 DEF Probed, Handle
    <3>3. QED
      BY <3>1, <3>2, NoneAssumption
  <2>3. mon.pc = "update" /\ IsRunning(j) /\ At(Monitor, "idle")
    BY <1>5 DEF MonUpdate, Guarded, MonFrame, At
  <2>4. IsRunning(j)' /\ ChildOf(j)' = ChildOf(j)
    BY <2>1, <2>2, <2>3 DEF IsRunning, ChildOf
  <2>5. QED
    BY <1>1, <1>2, <1>5, <2>1, <2>2, <2>3, <2>4 DEF Guarded
<1>6. CASE CallStep(Monitor) /\ call[Monitor].id = j
  <2>1. /\ mon.pc = "restart" /\ call[Monitor].pc \in {"spawn", "commit"}
        /\ agents[j] # None /\ agents[j].status = "Starting" /\ agents[j] \in Handle
    BY <1>2, <1>6, AgentType DEF MonFrame, At, Guarded
  <2>2. StartCommit(Monitor)
    BY <1>6, <2>1 DEF CallStep, At, Spawn, StopReaped, StopTimeout, StopCommit,
       RestartStop, RestartStart
  <2>3. /\ agents'[j] = Started(agents[j], call[Monitor].child) /\ mon' = mon
        /\ call'[Monitor].id = None
    BY <1>0, <1>6, <2>1, <2>2 DEF StartCommit, TypeOK, Return, Returned
  <2>4. ~agents[j].healthy
    BY <2>1 DEF Guarded, IsRunning
  <2>5. ~agents'[j].healthy
    BY <2>1, <2>3, <2>4 DEF Started, Handle
  <2>6. QED
    BY <1>0, <1>1, <2>1, <2>3, <2>5 DEF Guarded
<1>7. QED
  BY <1>3, <1>4, <1>5, <1>6, AgentsFate DEF AgentFate, Requested, Tasks

(* The inductive invariant.  The flag and its process are not enough: the  *)
(* monitor's two verdicts are formed in one section and acted upon in a    *)
(* later one, so the invariant follows them from one to the other.         *)
HealthInv == \A id \in Ids : disturbed[id] \/ Guarded(id)

LEMMA HealthInvariant == HistorySpec => []HealthInv
<1>1. Init /\ HInit => HealthInv
  <2> SUFFICES ASSUME Init, NEW j \in Ids PROVE Guarded(j)
    BY DEF HealthInv
  <2>1. Calm(j)
    BY ConstantsAssumption DEF Init, Calm, Returned
  <2>2. QED
    BY <2>1, CalmIsGuarded
<1>2. /\ TypeOK /\ TypeOK' /\ ChildIffRunning /\ OwnershipInv /\ OwnershipInv' /\ MonFrame
      /\ HealthInv /\ [HNext]_hvars
      => HealthInv'
  <2> SUFFICES ASSUME TypeOK, TypeOK', ChildIffRunning, OwnershipInv, OwnershipInv',
                      MonFrame,
                      HealthInv, [HNext]_hvars, NEW j \in Ids, ~disturbed'[j]
               PROVE  Guarded(j)'
    BY DEF HealthInv, Guarded, IsRunning, ChildOf, HasExited
  <2>1. CASE UNCHANGED hvars
    BY <2>1 DEF hvars, HealthInv, Guarded, IsRunning, ChildOf, HasExited
  <2>2. CASE HNext
    <3>1. Next /\ (Calm(j)' \/ (~disturbed[j] /\ ~Requested(j)))
      BY <2>2 DEF HNext, HStep
    <3>2. CASE Calm(j)'
      <4>1. (\A id \in Ids : Calm(id) => Guarded(id))'
        BY CalmIsGuarded, PTL
      <4>2. QED
        BY <3>2, <4>1
    <3>3. CASE ~disturbed[j] /\ ~Requested(j)
      BY <3>1, <3>3, GuardedSameHandle, GuardedMonitor DEF HealthInv
    <3>4. QED
      BY <3>1, <3>2, <3>3
  <2>3. QED
    BY <2>1, <2>2
<1>3. QED
  BY <1>1, <1>2, HistoryOfSpec, TypeCorrect, ChildMatchesStatus, OwnershipInvariant,
     MonFrameInvariant, PTL DEF HistorySpec

(* An agent is reported healthy because of the process it runs now: only   *)
(* a request that has met the monitor at the agent can leave it with the   *)
(* answer of an earlier process.                                           *)
THEOREM HealthIsCurrent == HistorySpec => []HealthIsOfTheProcess
<1>1. HealthInv => HealthIsOfTheProcess
  BY DEF HealthInv, HealthIsOfTheProcess, Guarded, IsRunning, ChildOf
<1>2. QED
  BY <1>1, HealthInvariant, PTL

(* The monitor's crash handling drops a process that has not exited only   *)
(* where a request has met it: mark_crash acts on a verdict of an earlier  *)
(* section, and nothing but a request can have changed the child since.    *)
THEOREM CrashHandlingSparesLive == HistorySpec => MonitorSparesUndisturbed
<1> DEFINE Spared == MonitorStep => \A p \in Procs :
               /\ procs[p] # None /\ procs'[p] = None
               /\ procs[p].state # "exited"
               => disturbed[procs[p].id]
<1>1. TypeOK /\ OwnershipInv /\ HealthInv /\ [HNext]_hvars => [Spared]_hvars
  <2> SUFFICES ASSUME TypeOK, OwnershipInv, HealthInv, MonitorStep, NEW p \in Procs,
                      procs[p] # None, procs'[p] = None, procs[p].state # "exited",
                      ~disturbed[procs[p].id]
               PROVE  FALSE
    OBVIOUS
  <2>1. MarkCrash /\ p = ChildOf(mon.id) /\ mon.id \in Ids
    BY DEF MonitorStep, MonTick, MarkCrash, MonCount, MonRestart, MonRestarted,
       MonNextPhase, MonProbe, MonUpdate, MonCheck, MonSelect, Dropping, TypeOK
  <2>2. procs[p].id = mon.id
    BY <2>1, ChildIsProcess, ConstantsAssumption
  <2>3. QED
    BY <2>1, <2>2 DEF HealthInv, Guarded, MarkCrash, HasExited
<1>2. QED
  BY <1>1, HealthInvariant, HistoryOfSpec, TypeCorrect, OwnershipInvariant, PTL
  DEF HistorySpec, MonitorSparesUndisturbed
=============================================================================
