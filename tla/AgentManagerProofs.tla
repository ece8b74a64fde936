------------------------- MODULE AgentManagerProofs -------------------------
(***************************************************************************)
(* Proofs about AgentManager, for every set of ids, callers, process slots *)
(* and configurations.                                                     *)
(***************************************************************************)
EXTENDS AgentManager, TLAPS

-----------------------------------------------------------------------------
(* What the handle updates return.                                         *)
LEMMA HandleUpdates ==
    ASSUME NEW h \in Handle
    PROVE  /\ \A p \in Procs : Started(h, p) \in Handle
           /\ Stopped(h) \in Handle
           /\ Crashed(h) \in Handle
           /\ \A good \in BOOLEAN : Probed(h, good) \in Handle
           /\ \A s \in Statuses : [h EXCEPT !.status = s] \in Handle
           /\ \A s \in Statuses :
                 [h EXCEPT !.status = s, !.child = None] \in Handle
<1>1. h.crash \in Nat /\ h.fails \in Nat
  BY DEF Handle, ErrorThreshold, UnhealthyThreshold
<1>0. 0 \in 0..ErrorThreshold /\ 0 \in 0..UnhealthyThreshold
  BY DEF ErrorThreshold, UnhealthyThreshold
<1>2. \A p \in Procs : Started(h, p) \in Handle
  BY <1>0 DEF Handle, Started, Statuses
<1>3. Stopped(h) \in Handle
  BY DEF Handle, Stopped, Statuses
<1>4. Crashed(h) \in Handle
  <2> DEFINE n == Min2(h.crash + 1, ErrorThreshold)
  <2>1. n \in 0..ErrorThreshold
    BY <1>1 DEF Min2, ErrorThreshold
  <2> HIDE DEF n
  <2>2. [h EXCEPT !.crash = n, !.child = None, !.healthy = FALSE,
                  !.status = IF n >= ErrorThreshold THEN "Error" ELSE "Stopped"]
        \in Handle
    BY <2>1 DEF Handle, Statuses
  <2>3. QED
    BY <2>2 DEF Crashed, n
<1>5. ASSUME NEW good \in BOOLEAN PROVE Probed(h, good) \in Handle
  <2> DEFINE n == Min2(h.fails + 1, UnhealthyThreshold)
             b == h.healthy /\ n < UnhealthyThreshold
  <2>1. n \in 0..UnhealthyThreshold
    BY <1>1 DEF Min2, UnhealthyThreshold
  <2>0. b \in BOOLEAN
    OBVIOUS
  <2> HIDE DEF n, b
  <2>2. [h EXCEPT !.fails = n, !.healthy = b] \in Handle
    BY <2>1, <2>0 DEF Handle
  <2>3. [h EXCEPT !.healthy = TRUE, !.fails = 0] \in Handle
    BY <1>0 DEF Handle
  <2>4. QED
    BY <2>2, <2>3 DEF Probed, n, b
<1>6. \A s \in Statuses : /\ [h EXCEPT !.status = s] \in Handle
                          /\ [h EXCEPT !.status = s, !.child = None] \in Handle
  BY DEF Handle
<1>7. QED
  BY <1>2, <1>3, <1>4, <1>5, <1>6

LEMMA NewHandleType == \A c \in Configs : NewHandle(c) \in Handle
BY DEF Handle, NewHandle, Statuses, ErrorThreshold, UnhealthyThreshold

(* The child a handle has after each update, and what Returned contains.   *)
LEMMA HandleChild ==
    ASSUME NEW h \in Handle
    PROVE  /\ \A p \in Procs : Started(h, p).child = p
           /\ Stopped(h).child = None
           /\ Crashed(h).child = None
           /\ \A good \in BOOLEAN : Probed(h, good).child = h.child
BY DEF Handle, Started, Stopped, Crashed, Probed

(* A handle or None: the table's values, told apart by the test # None.    *)
LEMMA AgentType ==
    ASSUME TypeOK, NEW id \in Ids, agents[id] # None
    PROVE  agents[id] \in Handle
BY DEF TypeOK

LEMMA ChildType ==
    ASSUME TypeOK, NEW id \in Ids
    PROVE  ChildOf(id) \in Procs \cup {None}
BY AgentType DEF ChildOf, Handle

LEMMA DroppingType ==
    ASSUME TypeOK, NEW S, Dropping(S)
    PROVE  procs' \in [Procs -> Process \cup {None}]
BY DEF TypeOK, Dropping

LEMMA KillType ==
    ASSUME TypeOK, NEW p, Kill(p)
    PROVE  procs' \in [Procs -> Process \cup {None}]
BY DEF TypeOK, Kill, Process

LEMMA ReturnedFrame ==
    ASSUME NEW r \in {"ok", "err"}
    PROVE  Returned(r) \in Frame /\ FrameOK(Returned(r))
BY ConstantsAssumption DEF Returned, Frame, FrameOK, StartPCs, StopPCs

(* The type of the call table after one frame of it is replaced.           *)
LEMMA FrameReplaced ==
    ASSUME TypeOK, NEW t \in Tasks, NEW f \in Frame, FrameOK(f),
           call' = [call EXCEPT ![t] = f]
    PROVE  /\ call' \in [Tasks -> Frame]
           /\ \A u \in Tasks : FrameOK(call'[u])
BY DEF TypeOK

LEMMA ReturnType ==
    ASSUME TypeOK, NEW t \in Tasks, NEW r \in {"ok", "err"}, Return(t, r)
    PROVE  /\ call' \in [Tasks -> Frame]
           /\ \A u \in Tasks : FrameOK(call'[u])
BY ReturnedFrame, FrameReplaced DEF Return

-----------------------------------------------------------------------------
(* Type correctness.                                                       *)

LEMMA TypeInit == Init => TypeOK
BY ConstantsAssumption, ReturnedFrame DEF Init, TypeOK, MonitorState

LEMMA StartSectionType ==
    ASSUME TypeOK, NEW t \in Tasks, NEW id \in Ids, StartSection(t, id)
    PROVE  /\ agents' \in [Ids -> Handle \cup {None}]
           /\ call' \in [Tasks -> Frame]
           /\ \A u \in Tasks : FrameOK(call'[u])
<1>1. CASE ~MayStart(id) /\ Return(t, "err") /\ UNCHANGED agents
  BY <1>1, ReturnType DEF TypeOK
<1>2. CASE MayStart(id) /\ agents' = [agents EXCEPT ![id].status = "Starting"]
           /\ call' = [call EXCEPT ![t] = [Returned("ok") EXCEPT
                          !.pc = "spawn", !.id = id, !.cfg = agents[id].cfg]]
  <2>1. agents[id] \in Handle
    BY <1>2, AgentType DEF MayStart
  <2>2. [agents[id] EXCEPT !.status = "Starting"] \in Handle
    BY <2>1, HandleUpdates DEF Statuses
  <2>3. agents' \in [Ids -> Handle \cup {None}]
    BY <1>2, <2>2 DEF TypeOK
  <2> DEFINE f == [Returned("ok") EXCEPT !.pc = "spawn", !.id = id,
                                         !.cfg = agents[id].cfg]
  <2>4. f \in Frame /\ FrameOK(f)
    BY <2>1, ConstantsAssumption
    DEF Returned, Frame, FrameOK, StartPCs, StopPCs, Handle
  <2>5. QED
    BY <1>2, <2>3, <2>4, FrameReplaced
<1>3. QED
  BY <1>1, <1>2 DEF StartSection

LEMMA StopSectionType ==
    ASSUME TypeOK, NEW t \in Tasks, NEW id \in Ids, NEW again \in BOOLEAN,
           StopSection(t, id, again)
    PROVE  /\ agents' \in [Ids -> Handle \cup {None}]
           /\ procs' \in [Procs -> Process \cup {None}]
           /\ call' \in [Tasks -> Frame]
           /\ \A u \in Tasks : FrameOK(call'[u])
<1>1. CASE ~IsRunning(id) /\ Return(t, "err") /\ UNCHANGED <<agents, procs>>
  BY <1>1, ReturnType DEF TypeOK
<1>2. CASE /\ IsRunning(id)
           /\ agents' = [agents EXCEPT ![id].status = "Stopping",
                                       ![id].child = None]
           /\ Kill(ChildOf(id))
           /\ call' = [call EXCEPT ![t] = [Returned("ok") EXCEPT
                          !.pc = IF ChildOf(id) = None THEN "clear" ELSE "wait",
                          !.id = id, !.child = ChildOf(id), !.again = again]]
  <2>1. agents[id] \in Handle
    BY <1>2, AgentType DEF IsRunning
  <2>2. [agents[id] EXCEPT !.status = "Stopping", !.child = None] \in Handle
    BY <2>1, HandleUpdates DEF Statuses
  <2>3. agents' = [agents EXCEPT ![id] =
                     [agents[id] EXCEPT !.status = "Stopping", !.child = None]]
    BY <1>2, <2>1 DEF TypeOK, Handle
  <2>4. agents' \in [Ids -> Handle \cup {None}]
    BY <2>2, <2>3 DEF TypeOK
  <2>5. procs' \in [Procs -> Process \cup {None}]
    BY <1>2, KillType
  <2> DEFINE f == [Returned("ok") EXCEPT
                     !.pc = IF ChildOf(id) = None THEN "clear" ELSE "wait",
                     !.id = id, !.child = ChildOf(id), !.again = again]
  <2>6. f \in Frame /\ FrameOK(f)
    BY ChildType, ConstantsAssumption
    DEF Returned, Frame, FrameOK, StartPCs, StopPCs
  <2>7. QED
    BY <1>2, <2>4, <2>5, <2>6, FrameReplaced
<1>3. QED
  BY <1>1, <1>2 DEF StopSection
LEMMA SetAgentType ==
    ASSUME TypeOK, NEW id \in Ids, NEW h \in Handle \cup {None}, SetAgent(id, h)
    PROVE  /\ agents' \in [Ids -> Handle \cup {None}]
           /\ procs' \in [Procs -> Process \cup {None}]
BY DroppingType DEF SetAgent, TypeOK

(* A call is at a position other than idle: its id is an id.               *)
LEMMA CallFacts ==
    ASSUME TypeOK, NEW t \in Tasks
    PROVE  /\ call[t] \in Frame
           /\ call[t].pc # "idle" => call[t].id \in Ids
           /\ At(t, "spawn") => call[t].cfg \in Configs
           /\ At(t, "commit") \/ At(t, "wait") \/ At(t, "kill")
                 <=> call[t].child \in Procs
           /\ call[t].child \in Procs \cup {None}
BY DEF TypeOK, FrameOK, At, Frame

LEMMA CallStepType ==
    ASSUME TypeOK, NEW t \in Tasks, CallStep(t)
    PROVE  TypeOK'
<1> USE CallFacts
<1>1. CASE Spawn(t)
  <2>1. mon' = mon /\ agents' = agents
    BY <1>1 DEF Spawn
  <2>2. ASSUME NEW p \in Procs, procs[p] = None,
               procs' = [procs EXCEPT ![p] =
                   [state |-> "alive", id |-> call[t].id, cfg |-> call[t].cfg,
                    ready |-> FALSE]],
               call' = [call EXCEPT ![t].pc = "commit", ![t].child = p]
        PROVE  TypeOK'
    <3> DEFINE f == [call[t] EXCEPT !.pc = "commit", !.child = p]
    <3>1. f \in Frame /\ FrameOK(f)
      BY <1>1 DEF Spawn, At, Frame, FrameOK, StartPCs
    <3>2. call' = [call EXCEPT ![t] = f]
      BY <2>2, CallFacts DEF TypeOK, Frame
    <3>3. procs' \in [Procs -> Process \cup {None}]
      BY <1>1, <2>2 DEF Spawn, At, TypeOK, Process
    <3>4. QED
      BY <2>1, <3>1, <3>2, <3>3, FrameReplaced DEF TypeOK
  <2>3. CASE Return(t, "err") /\ UNCHANGED procs
    BY <2>1, <2>3, ReturnType DEF TypeOK
  <2>4. QED
    BY <1>1, <2>2, <2>3 DEF Spawn
<1>2. CASE StartCommit(t)
  <2> DEFINE id == call[t].id
             p == call[t].child
  <2>1. id \in Ids /\ p \in Procs
    BY <1>2 DEF StartCommit, At
  <2>2. agents' \in [Ids -> Handle \cup {None}]
    <3>1. CASE agents[id] # None
      <4>1. Started(agents[id], p) \in Handle
        BY <2>1, <3>1, AgentType, HandleUpdates
      <4>2. QED
        BY <1>2, <2>1, <3>1, <4>1 DEF StartCommit, TypeOK
    <3>2. CASE agents[id] = None
      BY <1>2, <3>2 DEF StartCommit, TypeOK
    <3>3. QED
      BY <3>1, <3>2
  <2>3. procs' \in [Procs -> Process \cup {None}]
    BY <1>2, DroppingType DEF StartCommit
  <2>4. QED
    BY <1>2, <2>2, <2>3, ReturnType DEF StartCommit, TypeOK
<1>3. CASE StopReaped(t)
  <2> DEFINE f == [call[t] EXCEPT !.pc = "clear", !.child = None]
  <2>1. f \in Frame /\ FrameOK(f)
    BY <1>3, ConstantsAssumption DEF StopReaped, At, Frame, FrameOK, StopPCs
  <2>2. call' = [call EXCEPT ![t] = f]
    BY <1>3 DEF StopReaped, TypeOK, Frame
  <2>3. procs' \in [Procs -> Process \cup {None}]
    BY <1>3, DroppingType DEF StopReaped
  <2>4. QED
    BY <1>3, <2>1, <2>2, <2>3, FrameReplaced DEF StopReaped, TypeOK
<1>4. CASE StopTimeout(t)
  <2> DEFINE f == [call[t] EXCEPT !.pc = "kill"]
  <2>1. f \in Frame /\ FrameOK(f)
    BY <1>4, ConstantsAssumption DEF StopTimeout, At, Frame, FrameOK, StopPCs
  <2>2. call' = [call EXCEPT ![t] = f]
    BY <1>4 DEF StopTimeout, TypeOK, Frame
  <2>3. procs' \in [Procs -> Process \cup {None}]
    BY <1>4, KillType DEF StopTimeout
  <2>4. QED
    BY <1>4, <2>1, <2>2, <2>3, FrameReplaced DEF StopTimeout, TypeOK
<1>5. CASE StopCommit(t)
  <2> DEFINE id == call[t].id
  <2>1. id \in Ids
    BY <1>5 DEF StopCommit, At
  <2>2. agents' \in [Ids -> Handle \cup {None}]
    <3>1. CASE agents[id] # None
      <4>1. Stopped(agents[id]) \in Handle
        BY <2>1, <3>1, AgentType, HandleUpdates
      <4>2. QED
        BY <1>5, <2>1, <3>1, <4>1 DEF StopCommit, TypeOK
    <3>2. CASE agents[id] = None
      BY <1>5, <3>2 DEF StopCommit, TypeOK
    <3>3. QED
      BY <3>1, <3>2
  <2>3. procs' \in [Procs -> Process \cup {None}]
    BY <1>5, DroppingType DEF StopCommit, TypeOK
  <2>4. CASE call[t].again
    <3> DEFINE f == [call[t] EXCEPT !.pc = "start"]
    <3>1. f \in Frame /\ FrameOK(f)
      BY <1>5, ConstantsAssumption DEF StopCommit, At, Frame, FrameOK, StartPCs
    <3>2. call' = [call EXCEPT ![t] = f]
      BY <1>5, <2>4 DEF StopCommit, TypeOK, Frame
    <3>3. QED
      BY <1>5, <2>2, <2>3, <3>1, <3>2, FrameReplaced DEF StopCommit, TypeOK
  <2>5. CASE ~call[t].again
    BY <1>5, <2>2, <2>3, <2>5, ReturnType DEF StopCommit, TypeOK
  <2>6. QED
    BY <2>4, <2>5
<1>6. CASE RestartStop(t)
  <2>1. call[t].id \in Ids /\ StopSection(t, call[t].id, TRUE)
    BY <1>6 DEF RestartStop, At
  <2>2. QED
    BY <1>6, <2>1, StopSectionType DEF RestartStop, TypeOK
<1>7. CASE RestartStart(t)
  <2>1. call[t].id \in Ids /\ StartSection(t, call[t].id)
    BY <1>7 DEF RestartStart, At
  <2>2. QED
    BY <1>7, <2>1, StartSectionType DEF RestartStart, TypeOK
<1>8. QED
  BY <1>1, <1>2, <1>3, <1>4, <1>5, <1>6, <1>7 DEF CallStep

LEMMA RequestType ==
    ASSUME TypeOK, NEW t \in Tasks,
           ApiCall(t) \/ DropRequest(t) \/ Registration(t)
    PROVE  TypeOK'
<1>1. ASSUME NEW id \in Ids, ApiStart(t, id) PROVE TypeOK'
  BY <1>1, StartSectionType DEF ApiStart, TypeOK
<1>2. ASSUME NEW id \in Ids, ApiStop(t, id) PROVE TypeOK'
  BY <1>2, StopSectionType DEF ApiStop, TypeOK
<1>3. ASSUME NEW id \in Ids, ApiRestart(t, id) PROVE TypeOK'
  <2> DEFINE f == [Returned("ok") EXCEPT
                     !.pc = IF IsRunning(id) THEN "stop" ELSE "start", !.id = id]
  <2>1. f \in Frame /\ FrameOK(f)
    BY ConstantsAssumption DEF Returned, Frame, FrameOK, StartPCs, StopPCs
  <2>2. QED
    BY <1>3, <2>1, FrameReplaced DEF ApiRestart, TypeOK
<1>4. CASE DropRequest(t)
  BY <1>4, DroppingType, ReturnType DEF DropRequest, TypeOK
<1>5. ASSUME NEW id \in Ids, Unregister(t, id) PROVE TypeOK'
  BY <1>5, SetAgentType DEF Unregister, TypeOK
<1>6. ASSUME NEW id \in Ids, NEW c \in Configs, Register(t, id, c) PROVE TypeOK'
  BY <1>6, SetAgentType, NewHandleType DEF Register, TypeOK
<1>7. QED
  BY <1>1, <1>2, <1>3, <1>4, <1>5, <1>6 DEF ApiCall, Registration

LEMMA MonitorType ==
    ASSUME TypeOK, MonitorStep
    PROVE  TypeOK'
<1> DEFINE MonOK == mon' \in MonitorState
                    /\ (mon'.pc \notin {"idle", "check", "health"} <=> mon'.id \in Ids)
<1> USE ConstantsAssumption DEF MonitorState
<1>1. CASE MonTick
  BY <1>1 DEF MonTick, Watched, TypeOK
<1>2. CASE MarkCrash
  <2>1. mon.id \in Ids /\ MonOK
    BY <1>2 DEF MarkCrash, TypeOK
  <2>2. agents' \in [Ids -> Handle \cup {None}]
    <3>1. CASE agents[mon.id] # None
      <4>1. Crashed(agents[mon.id]) \in Handle
        BY <2>1, <3>1, AgentType, HandleUpdates
      <4>2. QED
        BY <1>2, <2>1, <3>1, <4>1 DEF MarkCrash, TypeOK
    <3>2. CASE agents[mon.id] = None
      BY <1>2, <3>2 DEF MarkCrash, TypeOK
    <3>3. QED
      BY <3>1, <3>2
  <2>3. procs' \in [Procs -> Process \cup {None}]
    BY <1>2, DroppingType DEF MarkCrash, TypeOK
  <2>4. QED
    BY <1>2, <2>1, <2>2, <2>3 DEF MarkCrash, TypeOK
<1>3. CASE MonCount
  BY <1>3 DEF MonCount, TypeOK
<1>4. CASE MonRestart
  <2>1. mon.id \in Ids /\ Monitor \in Tasks /\ MonOK
    BY <1>4 DEF MonRestart, TypeOK, Tasks
  <2>2. QED
    BY <1>4, <2>1, StartSectionType DEF MonRestart, TypeOK
<1>5. CASE MonRestarted
  BY <1>5 DEF MonRestarted, TypeOK
<1>6. CASE MonNextPhase
  BY <1>6 DEF MonNextPhase, TypeOK
<1>7. CASE MonProbe
  <2>1. MonOK
    BY <1>7 DEF MonProbe, TypeOK, Serving
  <2>2. QED
    BY <1>7, <2>1 DEF MonProbe, TypeOK
<1>8. CASE MonUpdate
  <2>1. mon.id \in Ids /\ mon.good \in BOOLEAN /\ MonOK
    BY <1>8 DEF MonUpdate, TypeOK
  <2>2. agents[mon.id] # None => Probed(agents[mon.id], mon.good) \in Handle
    BY <2>1, AgentType, HandleUpdates
  <2>3. QED
    BY <1>8, <2>1, <2>2 DEF MonUpdate, TypeOK
<1>9. ASSUME NEW id \in Ids, MonCheck(id) PROVE TypeOK'
  BY <1>9 DEF MonCheck, TypeOK
<1>10. ASSUME NEW id \in Ids, MonSelect(id) PROVE TypeOK'
  <2>1. mon \in MonitorState
    BY DEF TypeOK
  <2>2. CASE mon' = [mon EXCEPT !.pc = "probe", !.todo = @ \ {id}, !.id = id]
    <3>1. MonOK
      BY <2>1, <2>2
    <3>2. QED
      BY <1>10, <3>1 DEF MonSelect, TypeOK
  <2>3. CASE mon' = [mon EXCEPT !.todo = @ \ {id}]
    <3>1. MonOK
      BY <1>10, <2>1, <2>3 DEF MonSelect, TypeOK
    <3>2. QED
      BY <1>10, <3>1 DEF MonSelect, TypeOK
  <2>4. QED
    BY <1>10, <2>2, <2>3 DEF MonSelect
<1>11. QED
  BY <1>1, <1>2, <1>3, <1>4, <1>5, <1>6, <1>7, <1>8, <1>9, <1>10 DEF MonitorStep

LEMMA ProcessType ==
    ASSUME TypeOK, ProcessStep
    PROVE  TypeOK'
<1>1. PICK p \in Procs : ProcessExits(p) \/ KilledExits(p) \/ BecomesReady(p)
  BY DEF ProcessStep
<1>2. procs[p] # None /\ procs[p] \in Process
  BY <1>1 DEF ProcessExits, KilledExits, BecomesReady, TypeOK
<1>3. /\ [procs[p] EXCEPT !.state = "exited"] \in Process
      /\ [procs[p] EXCEPT !.ready = TRUE] \in Process
  BY <1>2 DEF Process
<1>4. procs' \in [Procs -> Process \cup {None}]
  BY <1>1, <1>3 DEF ProcessExits, KilledExits, BecomesReady, TypeOK
<1>5. QED
  BY <1>1, <1>4 DEF ProcessExits, KilledExits, BecomesReady, TypeOK

LEMMA TypeStep == TypeOK /\ [Next]_vars => TypeOK'
<1> SUFFICES ASSUME TypeOK, [Next]_vars PROVE TypeOK'
  OBVIOUS
<1>1. CASE UNCHANGED vars
  BY <1>1 DEF vars, TypeOK
<1>2. CASE Next
  BY <1>2, CallStepType, RequestType, MonitorType, ProcessType
  DEF Next, Tasks
<1>3. QED
  BY <1>1, <1>2

(* Type correctness: every handle, process, call frame and monitor position *)
(* has its type, and a frame holds what its position needs (a child only   *)
(* from the spawn to section 2 of start and while stop waits).             *)
THEOREM TypeCorrect == Spec => []TypeOK
BY TypeInit, TypeStep, PTL DEF Spec
-----------------------------------------------------------------------------
(* What a step may do to the table: it changes at most one entry, by one   *)
(* of the updates below.  mark_crash is the only one that needs to know    *)
(* where the monitor is.                                                   *)
HandleStep(id, old, new) ==
    \/ new = None
    \/ \E c \in Configs : new = NewHandle(c)
    \/ /\ old # None /\ old \in Handle
       /\ \/ /\ old.status \notin {"Running", "Starting"}
             /\ new = [old EXCEPT !.status = "Starting"]
          \/ \E t \in Tasks : /\ StartCommit(t) /\ call[t].id = id
                            /\ call[t].child \in Procs
                            /\ new = Started(old, call[t].child)
          \/ new = [old EXCEPT !.status = "Stopping", !.child = None]
          \/ new = Stopped(old)
          \/ mon.pc = "mark" /\ mon.id = id /\ mon'.pc = "count" /\ new = Crashed(old)
          \/ \E good \in BOOLEAN : new = Probed(old, good)

AgentsStep ==
    \/ UNCHANGED agents
    \/ \E id \in Ids, new \in Handle \cup {None} :
          agents' = [agents EXCEPT ![id] = new] /\ HandleStep(id, agents[id], new)

LEMMA StartSectionStep ==
    ASSUME TypeOK, NEW t \in Tasks, NEW id \in Ids, StartSection(t, id)
    PROVE  AgentsStep
<1>1. CASE UNCHANGED agents
  BY <1>1 DEF AgentsStep
<1>2. CASE MayStart(id) /\ agents' = [agents EXCEPT ![id].status = "Starting"]
  <2> DEFINE new == [agents[id] EXCEPT !.status = "Starting"]
  <2>1. /\ agents[id] # None /\ agents[id] \in Handle
        /\ agents[id].status \notin {"Running", "Starting"}
    BY <1>2, AgentType DEF MayStart
  <2>2. new \in Handle /\ agents' = [agents EXCEPT ![id] = new]
    BY <1>2, <2>1, HandleUpdates DEF Statuses
  <2>3. HandleStep(id, agents[id], new)
    BY <2>1 DEF HandleStep
  <2>4. QED
    BY <2>2, <2>3 DEF AgentsStep
<1>3. QED
  BY <1>1, <1>2 DEF StartSection

LEMMA StopSectionStep ==
    ASSUME TypeOK, NEW t \in Tasks, NEW id \in Ids, NEW again \in BOOLEAN,
           StopSection(t, id, again)
    PROVE  AgentsStep
<1>1. CASE UNCHANGED agents
  BY <1>1 DEF AgentsStep
<1>2. CASE IsRunning(id) /\ agents' = [agents EXCEPT ![id].status = "Stopping",
                                                   ![id].child = None]
  <2> DEFINE new == [agents[id] EXCEPT !.status = "Stopping", !.child = None]
  <2>1. agents[id] # None /\ agents[id] \in Handle
    BY <1>2, AgentType DEF IsRunning
  <2>2. new \in Handle
    BY <2>1, HandleUpdates DEF Statuses
  <2>3. agents' = [agents EXCEPT ![id] = new]
    BY <1>2, <2>1 DEF TypeOK, Handle
  <2>4. HandleStep(id, agents[id], new)
    BY <2>1 DEF HandleStep
  <2>5. QED
    BY <2>2, <2>3, <2>4 DEF AgentsStep
<1>3. QED
  BY <1>1, <1>2 DEF StopSection

LEMMA TableStep == TypeOK /\ [Next]_vars => AgentsStep
<1> SUFFICES ASSUME TypeOK, [Next]_vars PROVE AgentsStep
  OBVIOUS
<1>1. CASE UNCHANGED agents
  BY <1>1 DEF AgentsStep
<1>2. ASSUME NEW t \in Tasks, StartCommit(t) PROVE AgentsStep
  <2> DEFINE id == call[t].id
             p == call[t].child
  <2>1. id \in Ids /\ p \in Procs
    BY <1>2, CallFacts DEF StartCommit, At
  <2>2. CASE agents[id] # None
    <3>1. agents[id] \in Handle /\ Started(agents[id], p) \in Handle
      BY <2>1, <2>2, AgentType, HandleUpdates
    <3>2. agents' = [agents EXCEPT ![id] = Started(agents[id], p)]
      BY <1>2, <2>2 DEF StartCommit
    <3>3. HandleStep(id, agents[id], Started(agents[id], p))
      BY <1>2, <2>1, <2>2, <3>1 DEF HandleStep
    <3>4. QED
      BY <2>1, <3>1, <3>2, <3>3 DEF AgentsStep
  <2>3. CASE agents[id] = None
    BY <1>2, <2>3 DEF StartCommit, AgentsStep
  <2>4. QED
    BY <2>2, <2>3
<1>3. ASSUME NEW t \in Tasks, StopCommit(t) PROVE AgentsStep
  <2> DEFINE id == call[t].id
  <2>1. id \in Ids
    BY <1>3, CallFacts DEF StopCommit, At
  <2>2. CASE agents[id] # None
    <3>1. agents[id] \in Handle /\ Stopped(agents[id]) \in Handle
      BY <2>1, <2>2, AgentType, HandleUpdates
    <3>2. agents' = [agents EXCEPT ![id] = Stopped(agents[id])]
      BY <1>3, <2>2 DEF StopCommit
    <3>3. HandleStep(id, agents[id], Stopped(agents[id]))
      BY <2>2, <3>1 DEF HandleStep
    <3>4. QED
      BY <2>1, <3>1, <3>2, <3>3 DEF AgentsStep
  <2>3. CASE agents[id] = None
    BY <1>3, <2>3 DEF StopCommit, AgentsStep
  <2>4. QED
    BY <2>2, <2>3
<1>4. ASSUME NEW t \in Tasks, RestartStop(t) PROVE AgentsStep
  BY <1>4, CallFacts, StopSectionStep DEF RestartStop, At
<1>5. ASSUME NEW t \in Tasks, RestartStart(t) PROVE AgentsStep
  BY <1>5, CallFacts, StartSectionStep DEF RestartStart, At
<1>6. ASSUME NEW t \in Tasks, NEW id \in Ids, ApiStart(t, id) PROVE AgentsStep
  BY <1>6, StartSectionStep DEF ApiStart
<1>7. ASSUME NEW t \in Tasks, NEW id \in Ids, ApiStop(t, id) PROVE AgentsStep
  BY <1>7, StopSectionStep DEF ApiStop
<1>8. ASSUME NEW t \in Tasks, NEW id \in Ids, Unregister(t, id) PROVE AgentsStep
  BY <1>8 DEF Unregister, SetAgent, AgentsStep, HandleStep
<1>9. ASSUME NEW t \in Tasks, NEW id \in Ids, NEW c \in Configs, Register(t, id, c)
      PROVE  AgentsStep
  BY <1>9, NewHandleType DEF Register, SetAgent, AgentsStep, HandleStep
<1>10. CASE MarkCrash
  <2> DEFINE id == mon.id
  <2>1. id \in Ids /\ mon.pc = "mark" /\ mon'.pc = "count"
    BY <1>10 DEF MarkCrash, TypeOK, MonitorState
  <2>2. CASE agents[id] # None
    <3>1. agents[id] \in Handle /\ Crashed(agents[id]) \in Handle
      BY <2>1, <2>2, AgentType, HandleUpdates
    <3>2. agents' = [agents EXCEPT ![id] = Crashed(agents[id])]
      BY <1>10, <2>2 DEF MarkCrash
    <3>3. HandleStep(id, agents[id], Crashed(agents[id]))
      BY <2>1, <2>2, <3>1 DEF HandleStep
    <3>4. QED
      BY <2>1, <3>1, <3>2, <3>3 DEF AgentsStep
  <2>3. CASE agents[id] = None
    BY <1>10, <2>3 DEF MarkCrash, AgentsStep
  <2>4. QED
    BY <2>2, <2>3
<1>11. CASE MonRestart
  BY <1>11, StartSectionStep DEF MonRestart, TypeOK, MonitorState, Tasks
<1>12. CASE MonUpdate
  <2>1. mon.id \in Ids /\ mon.good \in BOOLEAN
    BY <1>12 DEF MonUpdate, TypeOK, MonitorState
  <2>2. CASE agents[mon.id] # None
    <3>1. agents[mon.id] \in Handle /\ Probed(agents[mon.id], mon.good) \in Handle
      BY <2>1, <2>2, AgentType, HandleUpdates
    <3>2. agents' = [agents EXCEPT ![mon.id] = Probed(agents[mon.id], mon.good)]
      BY <1>12, <2>2 DEF MonUpdate
    <3>3. HandleStep(mon.id, agents[mon.id], Probed(agents[mon.id], mon.good))
      BY <2>1, <2>2, <3>1 DEF HandleStep
    <3>4. QED
      BY <2>1, <3>1, <3>2, <3>3 DEF AgentsStep
  <2>3. CASE agents[mon.id] = None
    BY <1>12, <2>1, <2>3 DEF MonUpdate, AgentsStep, TypeOK
  <2>4. QED
    BY <2>2, <2>3
<1>13. CASE ProcessStep
  BY <1>13, <1>1 DEF ProcessStep, ProcessExits, KilledExits, BecomesReady
<1>14. CASE MonitorStep
  BY <1>14, <1>1, <1>10, <1>11, <1>12
  DEF MonitorStep, MonTick, MonCount, MonRestarted, MonNextPhase, MonProbe,
      MonCheck, MonSelect
<1>15. ASSUME NEW t \in Tasks, CallStep(t) PROVE AgentsStep
  BY <1>15, <1>1, <1>2, <1>3, <1>4, <1>5
  DEF CallStep, Spawn, StopReaped, StopTimeout
<1>16. ASSUME NEW t \in Tasks, ApiCall(t) PROVE AgentsStep
  BY <1>16, <1>1, <1>6, <1>7 DEF ApiCall, ApiRestart
<1>17. ASSUME NEW t \in Tasks, DropRequest(t) PROVE AgentsStep
  BY <1>17, <1>1 DEF DropRequest
<1>18. ASSUME NEW t \in Tasks, Registration(t) PROVE AgentsStep
  BY <1>18, <1>8, <1>9 DEF Registration
<1>19. QED
  BY <1>1, <1>13, <1>14, <1>15, <1>16, <1>17, <1>18
  DEF Next, vars, Tasks

-----------------------------------------------------------------------------
(* Status and child of a handle agree in every value a step may give it.   *)
ChildMatches(h) == h # None => (h.child # None <=> h.status = "Running")

LEMMA HandleMatches ==
    ASSUME NEW id \in Ids, NEW old, NEW new \in Handle \cup {None},
           HandleStep(id, old, new), ChildMatches(old)
    PROVE  ChildMatches(new)
<1> USE ConstantsAssumption DEF ChildMatches
<1>1. CASE \E c \in Configs : new = NewHandle(c)
  BY <1>1 DEF NewHandle
<1>2. ASSUME old # None, old \in Handle, old.status \notin {"Running", "Starting"},
             new = [old EXCEPT !.status = "Starting"]
      PROVE  ChildMatches(new)
  BY <1>2 DEF Handle
<1>3. ASSUME old \in Handle, NEW p \in Procs, new = Started(old, p)
      PROVE  ChildMatches(new)
  BY <1>3 DEF Handle, Started
<1>4. ASSUME old \in Handle, new = [old EXCEPT !.status = "Stopping", !.child = None]
      PROVE  ChildMatches(new)
  BY <1>4 DEF Handle
<1>5. ASSUME old \in Handle, new = Stopped(old) \/ new = Crashed(old)
      PROVE  ChildMatches(new)
  BY <1>5 DEF Handle, Stopped, Crashed
<1>6. ASSUME old # None, old \in Handle, NEW good \in BOOLEAN, new = Probed(old, good)
      PROVE  ChildMatches(new)
  BY <1>6 DEF Probed, Handle
<1>7. QED
  BY <1>1, <1>2, <1>3, <1>4, <1>5, <1>6 DEF HandleStep

(* A handle holds a child exactly while it is Running, for any number of   *)
(* tasks that write status and child in sections of their own.             *)
THEOREM ChildMatchesStatus == Spec => []ChildIffRunning
<1>1. Init => ChildIffRunning
  BY DEF Init, ChildIffRunning
<1>2. ASSUME TypeOK, ChildIffRunning, [Next]_vars PROVE ChildIffRunning'
  <2>1. CASE UNCHANGED agents
    BY <1>2, <2>1 DEF ChildIffRunning
  <2>2. ASSUME NEW id \in Ids, NEW new \in Handle \cup {None},
               agents' = [agents EXCEPT ![id] = new],
               HandleStep(id, agents[id], new)
        PROVE  ChildIffRunning'
    <3>1. ChildMatches(new)
      BY <1>2, <2>2, HandleMatches DEF ChildIffRunning, ChildMatches
    <3>2. agents'[id] = new /\ \A j \in Ids : j # id => agents'[j] = agents[j]
      BY <1>2, <2>2 DEF TypeOK
    <3>3. QED
      BY <1>2, <3>1, <3>2 DEF ChildIffRunning, ChildMatches
  <2>3. QED
    BY <1>2, <2>1, <2>2, TableStep DEF AgentsStep
<1>3. TypeOK /\ ChildIffRunning /\ [Next]_vars => ChildIffRunning'
  BY <1>2
<1>4. QED
  BY <1>1, <1>3, TypeCorrect, PTL DEF Spec

-----------------------------------------------------------------------------
(* Ownership.  A state is seen through the three values of ChildOwnership: *)
(* the child of every handle, the child of every call frame, and the id    *)
(* that each slot in use was started for.                                  *)
Freed(b, p) == [q \in Procs |-> IF q = p THEN None ELSE b[q]]

Owned(c, f, b) ==
    /\ \A p \in Procs :
          b[p] # None <=> (\E id \in Ids : c[id] = p) \/ (\E t \in Tasks : f[t] = p)
    /\ \A i, j \in Ids : c[i] = c[j] => i = j \/ c[i] = None
    /\ \A t, u \in Tasks : f[t] = f[u] => t = u \/ f[t] = None
    /\ \A i \in Ids, t \in Tasks : c[i] = f[t] => c[i] = None
    /\ \A i \in Ids : c[i] # None => b[c[i]] = i

(* The ways a step moves children: not at all; a handle drops its child; a *)
(* frame drops its child; spawn; section 2 of start; section 1 of stop.    *)
Moved(c, f, b, c2, f2, b2) ==
    \/ c2 = c /\ f2 = f /\ b2 = b
    \/ \E id \in Ids :
          c2 = [c EXCEPT ![id] = None] /\ f2 = f /\ b2 = Freed(b, c[id])
    \/ \E t \in Tasks :
          c2 = c /\ f2 = [f EXCEPT ![t] = None] /\ b2 = Freed(b, f[t])
    \/ \E t \in Tasks, p \in Procs, id \in Ids :
          /\ f[t] = None /\ b[p] = None
          /\ c2 = c /\ f2 = [f EXCEPT ![t] = p] /\ b2 = [b EXCEPT ![p] = id]
    \/ \E t \in Tasks, id \in Ids :
          /\ f[t] \in Procs /\ b[f[t]] = id
          /\ c2 = [c EXCEPT ![id] = f[t]]
          /\ f2 = [f EXCEPT ![t] = None]
          /\ b2 = Freed(b, c[id])
    \/ \E t \in Tasks, id \in Ids :
          /\ f[t] = None
          /\ c2 = [c EXCEPT ![id] = None]
          /\ f2 = [f EXCEPT ![t] = c[id]]
          /\ b2 = b

LEMMA MovedKeepsOwned ==
    ASSUME NEW c \in [Ids -> Procs \cup {None}], NEW f \in [Tasks -> Procs \cup {None}],
           NEW b \in [Procs -> Ids \cup {None}], NEW c2, NEW f2, NEW b2,
           Owned(c, f, b), Moved(c, f, b, c2, f2, b2)
    PROVE  Owned(c2, f2, b2)
<1> USE ConstantsAssumption
<1>1. CASE c2 = c /\ f2 = f /\ b2 = b
  BY <1>1
<1>2. ASSUME NEW id \in Ids, c2 = [c EXCEPT ![id] = None], f2 = f, b2 = Freed(b, c[id])
      PROVE  Owned(c2, f2, b2)
  BY <1>2 DEF Owned, Freed
<1>3. ASSUME NEW t \in Tasks, c2 = c, f2 = [f EXCEPT ![t] = None], b2 = Freed(b, f[t])
      PROVE  Owned(c2, f2, b2)
  BY <1>3 DEF Owned, Freed
<1>4. ASSUME NEW t \in Tasks, NEW p \in Procs, NEW id \in Ids, f[t] = None, b[p] = None,
             c2 = c, f2 = [f EXCEPT ![t] = p], b2 = [b EXCEPT ![p] = id]
      PROVE  Owned(c2, f2, b2)
  BY <1>4 DEF Owned
<1>5. ASSUME NEW t \in Tasks, NEW id \in Ids, f[t] \in Procs, b[f[t]] = id,
             c2 = [c EXCEPT ![id] = f[t]], f2 = [f EXCEPT ![t] = None],
             b2 = Freed(b, c[id])
      PROVE  Owned(c2, f2, b2)
  BY <1>5 DEF Owned, Freed
<1>6. ASSUME NEW t \in Tasks, NEW id \in Ids, f[t] = None,
             c2 = [c EXCEPT ![id] = None], f2 = [f EXCEPT ![t] = c[id]], b2 = b
      PROVE  Owned(c2, f2, b2)
  BY <1>6 DEF Owned
<1>7. QED
  BY <1>1, <1>2, <1>3, <1>4, <1>5, <1>6 DEF Moved

(* The child a frame holds is a process of the agent the call is on.       *)
FramesBranded ==
    \A t \in Tasks : call[t].child # None => Born[call[t].child] = call[t].id

OwnershipStep == Moved(Table, Frames, Born, Table', Frames', Born')

(* A Dropping step frees one slot.                                         *)
LEMMA DroppingBorn ==
    ASSUME TypeOK, NEW p, Dropping({p})
    PROVE  Born' = Freed(Born, p)
BY DEF Born, Dropping, TypeOK, Freed

LEMMA KillBorn ==
    ASSUME TypeOK, NEW p, Kill(p)
    PROVE  Born' = Born
<1>1. \A q \in Procs : procs[q] # None =>
          /\ [procs[q] EXCEPT !.state = "killed"] \in Process
          /\ [procs[q] EXCEPT !.state = "killed"].id = procs[q].id
  BY DEF TypeOK, Process
<1>2. \A q \in Procs : /\ procs'[q] # None <=> procs[q] # None
                       /\ procs[q] # None => procs'[q].id = procs[q].id
  BY <1>1, NoneAssumption DEF Kill
<1>3. QED
  BY <1>2 DEF Born

(* How the three values change when one entry of agents or call does.      *)
LEMMA TableReplaced ==
    ASSUME TypeOK, NEW id \in Ids, NEW h \in Handle,
           agents' = [agents EXCEPT ![id] = h]
    PROVE  Table' = [Table EXCEPT ![id] = h.child]
BY NoneAssumption DEF TypeOK, Table, ChildOf

LEMMA TableRemoved ==
    ASSUME TypeOK, NEW id \in Ids, agents' = [agents EXCEPT ![id] = None]
    PROVE  Table' = [Table EXCEPT ![id] = None]
BY DEF TypeOK, Table, ChildOf

LEMMA FramesReplaced ==
    ASSUME TypeOK, NEW t \in Tasks, NEW f, call' = [call EXCEPT ![t] = f]
    PROVE  Frames' = [Frames EXCEPT ![t] = f.child]
BY DEF TypeOK, Frames

LEMMA FramesReturned ==
    ASSUME TypeOK, NEW t \in Tasks, NEW r, Return(t, r)
    PROVE  Frames' = [Frames EXCEPT ![t] = None]
<1>1. Returned(r).child = None
  BY DEF Returned
<1>2. Frames' = [Frames EXCEPT ![t] = Returned(r).child]
  BY FramesReplaced DEF Return
<1>3. QED
  BY <1>1, <1>2

LEMMA ViewTypes ==
    ASSUME TypeOK
    PROVE  /\ Table \in [Ids -> Procs \cup {None}]
           /\ Frames \in [Tasks -> Procs \cup {None}]
           /\ Born \in [Procs -> Ids \cup {None}]
           /\ \A id \in Ids : Table[id] = ChildOf(id)
           /\ \A t \in Tasks : Frames[t] = call[t].child
           /\ \A p \in Procs : /\ procs[p] = None <=> Born[p] = None
                               /\ procs[p] # None => Born[p] = procs[p].id
<1>1. \A p \in Procs : procs[p] # None => procs[p].id \in Ids
  BY DEF TypeOK, Process
<1>2. QED
  BY <1>1, ChildType, CallFacts, ConstantsAssumption DEF Table, Frames, Born

(* Nothing that ownership depends on changes.                              *)
LEMMA NothingMoved ==
    ASSUME Table' = Table, Frames' = Frames, Born' = Born
    PROVE  OwnershipStep
BY DEF OwnershipStep, Moved

LEMMA NoFrameChild ==
    ASSUME TypeOK, NEW t \in Tasks, call[t].pc \notin {"commit", "wait", "kill"}
    PROVE  call[t].child = None
BY CallFacts DEF TypeOK, FrameOK, At

LEMMA StartSectionMoves ==
    ASSUME TypeOK, NEW t \in Tasks, NEW id \in Ids, StartSection(t, id),
           At(t, "idle") \/ At(t, "start"), procs' = procs
    PROVE  OwnershipStep
<1>1. call[t].child = None
  BY NoFrameChild DEF At
<1>2. Frames' = Frames
  <2>1. Frames' = [Frames EXCEPT ![t] = None]
    <3>1. CASE Return(t, "err")
      BY <3>1, FramesReturned
    <3>2. CASE call' = [call EXCEPT ![t] = [Returned("ok") EXCEPT
                          !.pc = "spawn", !.id = id, !.cfg = agents[id].cfg]]
      <4> DEFINE f == [Returned("ok") EXCEPT !.pc = "spawn", !.id = id,
                                             !.cfg = agents[id].cfg]
      <4>1. f.child = None
        BY DEF Returned
      <4>2. call' = [call EXCEPT ![t] = f]
        BY <3>2
      <4> HIDE DEF f
      <4>3. QED
        BY <4>1, <4>2, FramesReplaced
    <3>3. QED
      BY <3>1, <3>2 DEF StartSection
  <2>2. QED
    BY <1>1, <2>1, ViewTypes
<1>3. Table' = Table
  <2>1. CASE UNCHANGED agents
    BY <2>1 DEF Table, ChildOf
  <2>2. CASE MayStart(id) /\ agents' = [agents EXCEPT ![id].status = "Starting"]
    <3> DEFINE h == [agents[id] EXCEPT !.status = "Starting"]
    <3>1. agents[id] # None /\ agents[id] \in Handle
      BY <2>2, AgentType DEF MayStart
    <3>2. h.child = ChildOf(id)
      BY <3>1 DEF Handle, ChildOf
    <3>5. h \in Handle
      BY <3>1, HandleUpdates DEF Statuses
    <3>3. Table' = [Table EXCEPT ![id] = ChildOf(id)]
      <4>1. agents' = [agents EXCEPT ![id] = h]
        BY <2>2
      <4> HIDE DEF h
      <4>2. QED
        BY <3>2, <3>5, <4>1, TableReplaced
    <3>4. QED
      BY <3>3, ViewTypes
  <2>3. QED
    BY <2>1, <2>2 DEF StartSection
<1>4. Born' = Born
  BY DEF Born
<1>5. QED
  BY <1>2, <1>3, <1>4, NothingMoved

LEMMA StopSectionMoves ==
    ASSUME TypeOK, NEW t \in Tasks, NEW id \in Ids, NEW again \in BOOLEAN,
           StopSection(t, id, again), At(t, "idle") \/ At(t, "stop")
    PROVE  OwnershipStep
<1>1. call[t].child = None
  BY NoFrameChild DEF At
<1>2. CASE Return(t, "err") /\ UNCHANGED <<agents, procs>>
  <2>1. Frames' = Frames
    BY <1>1, <1>2, FramesReturned, ViewTypes
  <2>2. Table' = Table /\ Born' = Born
    BY <1>2 DEF Table, ChildOf, Born
  <2>3. QED
    BY <2>1, <2>2, NothingMoved
<1>3. CASE /\ IsRunning(id)
           /\ agents' = [agents EXCEPT ![id].status = "Stopping",
                                       ![id].child = None]
           /\ Kill(ChildOf(id))
           /\ call' = [call EXCEPT ![t] = [Returned("ok") EXCEPT
                          !.pc = IF ChildOf(id) = None THEN "clear" ELSE "wait",
                          !.id = id, !.child = ChildOf(id), !.again = again]]
  <2> DEFINE h == [agents[id] EXCEPT !.status = "Stopping", !.child = None]
  <2>1. agents[id] \in Handle
    BY <1>3, AgentType DEF IsRunning
  <2>2. h.child = None
    BY <2>1 DEF Handle
  <2>8. h \in Handle
    BY <2>1, HandleUpdates DEF Statuses
  <2>3. agents' = [agents EXCEPT ![id] = h]
    BY <1>3, <2>1 DEF TypeOK, Handle
  <2>4. Table' = [Table EXCEPT ![id] = None]
    <3> HIDE DEF h
    <3>1. QED
      BY <2>2, <2>3, <2>8, TableReplaced
  <2>5. Frames' = [Frames EXCEPT ![t] = ChildOf(id)]
    <3> DEFINE f == [Returned("ok") EXCEPT
                       !.pc = IF ChildOf(id) = None THEN "clear" ELSE "wait",
                       !.id = id, !.child = ChildOf(id), !.again = again]
    <3>1. f.child = ChildOf(id)
      BY DEF Returned
    <3>2. call' = [call EXCEPT ![t] = f]
      BY <1>3
    <3> HIDE DEF f
    <3>3. QED
      BY <3>1, <3>2, FramesReplaced
  <2>6. Born' = Born
    BY <1>3, KillBorn
  <2>7. QED
    BY <1>1, <2>4, <2>5, <2>6, ViewTypes DEF OwnershipStep, Moved
<1>4. QED
  BY <1>2, <1>3 DEF StopSection

(* The handle of id loses the child it has, and that child is dropped.     *)
LEMMA HandleDrops ==
    ASSUME TypeOK, NEW id \in Ids, NEW h \in Handle \cup {None},
           agents' = [agents EXCEPT ![id] = h], h # None => h.child = None,
           Dropping({ChildOf(id)}), Frames' = Frames
    PROVE  OwnershipStep
<1>1. Table' = [Table EXCEPT ![id] = None]
  BY TableReplaced, TableRemoved
<1>2. Born' = Freed(Born, ChildOf(id))
  BY DroppingBorn
<1>3. QED
  BY <1>1, <1>2, ViewTypes DEF OwnershipStep, Moved

LEMMA CallStepMoves ==
    ASSUME TypeOK, FramesBranded, NEW t \in Tasks, CallStep(t)
    PROVE  OwnershipStep
<1>1. CASE Spawn(t)
  <2>1. call[t].child = None /\ Table' = Table
    BY <1>1, NoFrameChild DEF Spawn, At, Table, ChildOf
  <2>2. ASSUME NEW p \in Procs, procs[p] = None,
               procs' = [procs EXCEPT ![p] =
                   [state |-> "alive", id |-> call[t].id, cfg |-> call[t].cfg,
                    ready |-> FALSE]],
               call' = [call EXCEPT ![t].pc = "commit", ![t].child = p]
        PROVE  OwnershipStep
    <3>1. call' = [call EXCEPT ![t] = [call[t] EXCEPT !.pc = "commit", !.child = p]]
      BY <2>2, CallFacts DEF TypeOK, Frame
    <3>2. Frames' = [Frames EXCEPT ![t] = p]
      <4> DEFINE f == [call[t] EXCEPT !.pc = "commit", !.child = p]
      <4>1. f.child = p
        BY CallFacts DEF Frame
      <4>3. call' = [call EXCEPT ![t] = f]
        BY <3>1
      <4> HIDE DEF f
      <4>2. QED
        BY <4>1, <4>3, FramesReplaced
    <3>3. /\ call[t].id \in Ids
          /\ [state |-> "alive", id |-> call[t].id, cfg |-> call[t].cfg,
              ready |-> FALSE] \in Process
      BY <1>1, CallFacts DEF Spawn, At, Process
    <3>4. Born' = [Born EXCEPT ![p] = call[t].id] /\ Born[p] = None
      <4> DEFINE new == [state |-> "alive", id |-> call[t].id, cfg |-> call[t].cfg,
                         ready |-> FALSE]
      <4>1. new # None /\ new.id = call[t].id /\ procs' = [procs EXCEPT ![p] = new]
        BY <2>2, <3>3, NoneAssumption
      <4> HIDE DEF new
      <4>2. QED
        BY <2>2, <4>1 DEF Born, TypeOK
    <3>5. QED
      BY <2>1, <3>2, <3>3, <3>4, ViewTypes DEF OwnershipStep, Moved
  <2>3. CASE Return(t, "err") /\ UNCHANGED procs
    BY <2>1, <2>3, FramesReturned, ViewTypes, NothingMoved DEF Born
  <2>4. QED
    BY <1>1, <2>2, <2>3 DEF Spawn
<1>2. CASE StartCommit(t)
  <2> DEFINE id == call[t].id
             p == call[t].child
  <2>1. id \in Ids /\ p \in Procs
    BY <1>2, CallFacts DEF StartCommit, At
  <2>2. Frames' = [Frames EXCEPT ![t] = None]
    BY <1>2, FramesReturned DEF StartCommit
  <2>3. CASE agents[id] # None
    <3>1. Started(agents[id], p) \in Handle /\ Started(agents[id], p).child = p
      BY <2>1, <2>3, AgentType, HandleUpdates, HandleChild
    <3>2. Table' = [Table EXCEPT ![id] = p]
      BY <1>2, <2>1, <2>3, <3>1, TableReplaced DEF StartCommit
    <3>3. Born' = Freed(Born, ChildOf(id))
      BY <1>2, <2>3, DroppingBorn DEF StartCommit
    <3>4. Frames[t] = p /\ Born[p] = id /\ Table[id] = ChildOf(id)
      BY <2>1, ViewTypes, ConstantsAssumption DEF FramesBranded
    <3>5. QED
      BY <2>1, <2>2, <3>2, <3>3, <3>4 DEF OwnershipStep, Moved
  <2>4. CASE agents[id] = None
    <3>1. Table' = Table /\ Born' = Freed(Born, p)
      BY <1>2, <2>4, DroppingBorn DEF StartCommit, Table, ChildOf
    <3>2. QED
      BY <2>2, <3>1, ViewTypes DEF OwnershipStep, Moved
  <2>5. QED
    BY <2>3, <2>4
<1>3. CASE StopReaped(t)
  <2>1. call' = [call EXCEPT ![t] = [call[t] EXCEPT !.pc = "clear", !.child = None]]
    BY <1>3 DEF StopReaped, TypeOK, Frame
  <2>2. Frames' = [Frames EXCEPT ![t] = None]
    <3> DEFINE f == [call[t] EXCEPT !.pc = "clear", !.child = None]
    <3>1. f.child = None
      BY CallFacts DEF Frame
    <3>2. call' = [call EXCEPT ![t] = f]
      BY <2>1
    <3> HIDE DEF f
    <3>3. QED
      BY <3>1, <3>2, FramesReplaced
  <2>3. Table' = Table /\ Born' = Freed(Born, call[t].child)
    BY <1>3, DroppingBorn DEF StopReaped, Table, ChildOf
  <2>4. QED
    BY <2>2, <2>3, ViewTypes DEF OwnershipStep, Moved
<1>4. CASE StopTimeout(t)
  <2>1. call' = [call EXCEPT ![t] = [call[t] EXCEPT !.pc = "kill"]]
    BY <1>4 DEF StopTimeout, TypeOK, Frame
  <2>2. Frames' = Frames
    <3> DEFINE f == [call[t] EXCEPT !.pc = "kill"]
    <3>1. f.child = call[t].child
      BY CallFacts DEF Frame
    <3>2. call' = [call EXCEPT ![t] = f]
      BY <2>1
    <3> HIDE DEF f
    <3>3. Frames' = [Frames EXCEPT ![t] = call[t].child]
      BY <3>1, <3>2, FramesReplaced
    <3>4. QED
      BY <3>3, ViewTypes
  <2>3. Table' = Table /\ Born' = Born
    BY <1>4, KillBorn DEF StopTimeout, Table, ChildOf
  <2>4. QED
    BY <2>2, <2>3, NothingMoved
<1>5. CASE StopCommit(t)
  <2> DEFINE id == call[t].id
  <2>1. id \in Ids /\ call[t].child = None
    BY <1>5, CallFacts, NoFrameChild DEF StopCommit, At
  <2>2. Frames' = Frames
    <3>1. CASE call[t].again
      <4>1. call' = [call EXCEPT ![t] = [call[t] EXCEPT !.pc = "start"]]
        BY <1>5, <3>1 DEF StopCommit, TypeOK, Frame
      <4> DEFINE f == [call[t] EXCEPT !.pc = "start"]
      <4>2. f.child = call[t].child
        BY CallFacts DEF Frame
      <4>3. call' = [call EXCEPT ![t] = f]
        BY <4>1
      <4> HIDE DEF f
      <4>4. Frames' = [Frames EXCEPT ![t] = call[t].child]
        BY <4>2, <4>3, FramesReplaced
      <4>5. QED
        BY <4>4, ViewTypes
    <3>2. CASE ~call[t].again
      BY <1>5, <2>1, <3>2, FramesReturned, ViewTypes DEF StopCommit
    <3>3. QED
      BY <3>1, <3>2
  <2>3. CASE agents[id] # None
    <3>1. Stopped(agents[id]) \in Handle /\ Stopped(agents[id]).child = None
      BY <2>1, <2>3, AgentType, HandleUpdates, HandleChild
    <3>2. QED
      BY <1>5, <2>1, <2>2, <2>3, <3>1, HandleDrops DEF StopCommit
  <2>4. CASE agents[id] = None
    BY <1>5, <2>2, <2>4, NothingMoved DEF StopCommit, Table, ChildOf, Born
  <2>5. QED
    BY <2>3, <2>4
<1>6. CASE RestartStop(t)
  BY <1>6, CallFacts, StopSectionMoves DEF RestartStop, At
<1>7. CASE RestartStart(t)
  BY <1>7, CallFacts, StartSectionMoves DEF RestartStart, At
<1>8. QED
  BY <1>1, <1>2, <1>3, <1>4, <1>5, <1>6, <1>7 DEF CallStep

LEMMA RequestMoves ==
    ASSUME TypeOK, NEW t \in Tasks,
           ApiCall(t) \/ DropRequest(t) \/ Registration(t)
    PROVE  OwnershipStep
<1>1. ASSUME NEW id \in Ids, ApiStart(t, id) PROVE OwnershipStep
  BY <1>1, StartSectionMoves DEF ApiStart
<1>2. ASSUME NEW id \in Ids, ApiStop(t, id) PROVE OwnershipStep
  BY <1>2, StopSectionMoves DEF ApiStop
<1>3. ASSUME NEW id \in Ids, ApiRestart(t, id) PROVE OwnershipStep
  <2>1. call[t].child = None
    BY <1>3, NoFrameChild DEF ApiRestart, At
  <2>2. Frames' = [Frames EXCEPT ![t] = None]
    <3> DEFINE f == [Returned("ok") EXCEPT
                       !.pc = IF IsRunning(id) THEN "stop" ELSE "start", !.id = id]
    <3>1. f.child = None
      BY DEF Returned
    <3>2. call' = [call EXCEPT ![t] = f]
      BY <1>3 DEF ApiRestart
    <3> HIDE DEF f
    <3>3. QED
      BY <3>1, <3>2, FramesReplaced
  <2>3. Table' = Table /\ Born' = Born
    BY <1>3 DEF ApiRestart, Table, ChildOf, Born
  <2>4. QED
    BY <2>1, <2>2, <2>3, ViewTypes, NothingMoved
<1>4. CASE DropRequest(t)
  <2>1. Frames' = [Frames EXCEPT ![t] = None]
    BY <1>4, FramesReturned DEF DropRequest
  <2>2. Table' = Table /\ Born' = Freed(Born, call[t].child)
    BY <1>4, DroppingBorn DEF DropRequest, Table, ChildOf
  <2>3. QED
    BY <2>1, <2>2, ViewTypes DEF OwnershipStep, Moved
<1>5. ASSUME NEW id \in Ids, Unregister(t, id) PROVE OwnershipStep
  BY <1>5, HandleDrops DEF Unregister, SetAgent, Frames
<1>6. ASSUME NEW id \in Ids, NEW c \in Configs, Register(t, id, c)
      PROVE  OwnershipStep
  <2>1. NewHandle(c) \in Handle /\ NewHandle(c).child = None
    BY NewHandleType DEF NewHandle
  <2>2. QED
    BY <1>6, <2>1, HandleDrops DEF Register, SetAgent, Frames
<1>7. QED
  BY <1>1, <1>2, <1>3, <1>4, <1>5, <1>6 DEF ApiCall, Registration

LEMMA MonitorMoves ==
    ASSUME TypeOK, MonitorStep
    PROVE  OwnershipStep
<1>1. CASE MarkCrash
  <2> DEFINE id == mon.id
  <2>1. id \in Ids /\ Frames' = Frames
    BY <1>1 DEF MarkCrash, TypeOK, Frames
  <2>2. CASE agents[id] # None
    <3>1. Crashed(agents[id]) \in Handle /\ Crashed(agents[id]).child = None
      BY <2>1, <2>2, AgentType, HandleUpdates, HandleChild
    <3>2. QED
      BY <1>1, <2>1, <2>2, <3>1, HandleDrops DEF MarkCrash
  <2>3. CASE agents[id] = None
    BY <1>1, <2>1, <2>3, NothingMoved DEF MarkCrash, Table, ChildOf, Born
  <2>4. QED
    BY <2>2, <2>3
<1>2. CASE MonRestart
  <2>1. mon.id \in Ids /\ Monitor \in Tasks
    BY <1>2 DEF MonRestart, TypeOK, Tasks
  <2>2. QED
    BY <1>2, <2>1, StartSectionMoves DEF MonRestart
<1>3. CASE MonUpdate
  <2>1. mon.id \in Ids /\ mon.good \in BOOLEAN
    BY <1>3 DEF MonUpdate, TypeOK, MonitorState
  <2>2. Frames' = Frames /\ Born' = Born
    BY <1>3 DEF MonUpdate, Frames, Born
  <2>3. Table' = Table
    <3>1. CASE agents[mon.id] # None
      <4> DEFINE h == Probed(agents[mon.id], mon.good)
      <4>1. h \in Handle /\ h.child = ChildOf(mon.id)
        BY <2>1, <3>1, AgentType, HandleUpdates, HandleChild DEF ChildOf
      <4>2. agents' = [agents EXCEPT ![mon.id] = h]
        BY <1>3, <3>1 DEF MonUpdate
      <4>3. Table' = [Table EXCEPT ![mon.id] = ChildOf(mon.id)]
        BY <2>1, <4>1, <4>2, TableReplaced
      <4>4. QED
        BY <4>3, ViewTypes
    <3>2. CASE agents[mon.id] = None
      BY <1>3, <2>1, <3>2 DEF MonUpdate, Table, ChildOf, TypeOK
    <3>3. QED
      BY <3>1, <3>2
  <2>4. QED
    BY <2>2, <2>3, NothingMoved
<1>4. CASE UNCHANGED <<agents, procs, call>>
  BY <1>4, NothingMoved DEF Table, ChildOf, Frames, Born
<1>5. QED
  BY <1>1, <1>2, <1>3, <1>4
  DEF MonitorStep, MonTick, MonCount, MonRestarted, MonNextPhase, MonProbe,
      MonCheck, MonSelect

LEMMA ProcessMoves ==
    ASSUME TypeOK, ProcessStep
    PROVE  OwnershipStep
<1>1. PICK p \in Procs : ProcessExits(p) \/ KilledExits(p) \/ BecomesReady(p)
  BY DEF ProcessStep
<1>2. procs[p] # None /\ procs[p] \in Process
  BY <1>1 DEF ProcessExits, KilledExits, BecomesReady, TypeOK
<1>3. /\ [procs[p] EXCEPT !.state = "exited"] \in Process
      /\ [procs[p] EXCEPT !.ready = TRUE] \in Process
  BY <1>2 DEF Process
<1>4. Born' = Born
  <2>1. /\ [procs[p] EXCEPT !.state = "exited"].id = procs[p].id
        /\ [procs[p] EXCEPT !.ready = TRUE].id = procs[p].id
    BY <1>2 DEF Process
  <2>2. PICK new \in Process : procs' = [procs EXCEPT ![p] = new] /\ new.id = procs[p].id
    BY <1>1, <1>3, <2>1 DEF ProcessExits, KilledExits, BecomesReady
  <2>3. QED
    BY <1>2, <2>2, NoneAssumption DEF Born, TypeOK
<1>5. Table' = Table /\ Frames' = Frames
  BY <1>1 DEF ProcessExits, KilledExits, BecomesReady, Table, ChildOf, Frames
<1>6. QED
  BY <1>4, <1>5, NothingMoved

LEMMA StepMoves == TypeOK /\ FramesBranded /\ [Next]_vars => OwnershipStep
<1> SUFFICES ASSUME TypeOK, FramesBranded, [Next]_vars PROVE OwnershipStep
  OBVIOUS
<1>1. CASE UNCHANGED vars
  BY <1>1, NothingMoved DEF vars, Table, ChildOf, Frames, Born
<1>2. QED
  BY <1>1, CallStepMoves, RequestMoves, MonitorMoves, ProcessMoves
  DEF Next, Tasks

(* What a step does to the frame of one task: the child it holds           *)
(* afterwards is the one it held, in a call on the same agent, one that it *)
(* has just spawned for the agent of the call, or one that it took out of  *)
(* the handle of that agent.                                               *)
FrameStep(t, f) ==
    \/ f.child = None
    \/ f.child = call[t].child /\ f.id = call[t].id
    \/ f.child \in Procs /\ Born'[f.child] = f.id
    \/ f.id \in Ids /\ f.child = ChildOf(f.id)

CallsStep ==
    \/ UNCHANGED call
    \/ \E t \in Tasks : \E f \in Frame :
          call' = [call EXCEPT ![t] = f] /\ FrameStep(t, f)

LEMMA ReturnStep ==
    ASSUME TypeOK, NEW t \in Tasks, NEW r \in {"ok", "err"}, Return(t, r)
    PROVE  CallsStep
<1>1. Returned(r).child = None /\ Returned(r) \in Frame
  BY ReturnedFrame DEF Returned
<1>2. QED
  BY <1>1 DEF Return, CallsStep, FrameStep

LEMMA StartSectionFrame ==
    ASSUME TypeOK, NEW t \in Tasks, NEW id \in Ids, StartSection(t, id)
    PROVE  CallsStep
<1>1. CASE Return(t, "err")
  BY <1>1, ReturnStep
<1>2. CASE MayStart(id) /\ call' = [call EXCEPT ![t] = [Returned("ok") EXCEPT
                      !.pc = "spawn", !.id = id, !.cfg = agents[id].cfg]]
  <2> DEFINE f == [Returned("ok") EXCEPT !.pc = "spawn", !.id = id,
                                         !.cfg = agents[id].cfg]
  <2>1. agents[id].cfg \in Configs
    BY <1>2, AgentType DEF MayStart, Handle
  <2>2. f \in Frame /\ f.child = None
    BY <2>1 DEF Returned, Frame, StartPCs, StopPCs
  <2>3. QED
    BY <1>2, <2>2 DEF CallsStep, FrameStep
<1>3. QED
  BY <1>1, <1>2 DEF StartSection

LEMMA StopSectionFrame ==
    ASSUME TypeOK, NEW t \in Tasks, NEW id \in Ids, NEW again \in BOOLEAN,
           StopSection(t, id, again)
    PROVE  CallsStep
<1>1. CASE Return(t, "err")
  BY <1>1, ReturnStep
<1>2. CASE call' = [call EXCEPT ![t] = [Returned("ok") EXCEPT
                      !.pc = IF ChildOf(id) = None THEN "clear" ELSE "wait",
                      !.id = id, !.child = ChildOf(id), !.again = again]]
  <2> DEFINE f == [Returned("ok") EXCEPT
                     !.pc = IF ChildOf(id) = None THEN "clear" ELSE "wait",
                     !.id = id, !.child = ChildOf(id), !.again = again]
  <2>1. f \in Frame /\ f.child = ChildOf(f.id) /\ f.id \in Ids
    BY ChildType DEF Returned, Frame, StartPCs, StopPCs
  <2>2. QED
    BY <1>2, <2>1 DEF CallsStep, FrameStep
<1>3. QED
  BY <1>1, <1>2 DEF StopSection

LEMMA FramesStep == TypeOK /\ [Next]_vars => CallsStep
<1> SUFFICES ASSUME TypeOK, [Next]_vars PROVE CallsStep
  OBVIOUS
<1>1. CASE UNCHANGED call
  BY <1>1 DEF CallsStep
<1>2. ASSUME NEW t \in Tasks, Spawn(t) PROVE CallsStep
  <2>1. ASSUME NEW p \in Procs, procs[p] = None,
               procs' = [procs EXCEPT ![p] =
                   [state |-> "alive", id |-> call[t].id, cfg |-> call[t].cfg,
                    ready |-> FALSE]],
               call' = [call EXCEPT ![t].pc = "commit", ![t].child = p]
        PROVE  CallsStep
    <3> DEFINE f == [call[t] EXCEPT !.pc = "commit", !.child = p]
               new == [state |-> "alive", id |-> call[t].id, cfg |-> call[t].cfg,
                       ready |-> FALSE]
    <3>0. f \in Frame /\ f.child = p /\ f.id = call[t].id
      BY CallFacts DEF Frame, StartPCs
    <3>1. call' = [call EXCEPT ![t] = f]
      BY <2>1, CallFacts DEF TypeOK, Frame
    <3>2. new \in Process /\ new.id = call[t].id
      BY <1>2, CallFacts DEF Spawn, At, Process
    <3>3. Born'[p] = new.id
      <4>1. procs'[p] = new
        BY <2>1 DEF TypeOK
      <4> HIDE DEF new
      <4>2. QED
        BY <3>2, <4>1, NoneAssumption DEF Born
    <3>4. FrameStep(t, f)
      BY <3>0, <3>2, <3>3 DEF FrameStep
    <3>5. QED
      BY <3>0, <3>1, <3>4 DEF CallsStep
  <2>2. QED
    BY <1>2, <2>1, ReturnStep DEF Spawn
<1>3. ASSUME NEW t \in Tasks, StopReaped(t) \/ StopTimeout(t) PROVE CallsStep
  <2>1. CASE StopReaped(t)
    <3> DEFINE f == [call[t] EXCEPT !.pc = "clear", !.child = None]
    <3>1. f \in Frame /\ f.child = None
      BY CallFacts DEF Frame, StopPCs
    <3>2. call' = [call EXCEPT ![t] = f]
      BY <2>1 DEF StopReaped, TypeOK, Frame
    <3>3. QED
      BY <3>1, <3>2 DEF CallsStep, FrameStep
  <2>2. CASE StopTimeout(t)
    <3> DEFINE f == [call[t] EXCEPT !.pc = "kill"]
    <3>1. f \in Frame /\ f.child = call[t].child /\ f.id = call[t].id
      BY CallFacts DEF Frame, StopPCs
    <3>2. call' = [call EXCEPT ![t] = f]
      BY <2>2 DEF StopTimeout, TypeOK, Frame
    <3>3. QED
      BY <3>1, <3>2 DEF CallsStep, FrameStep
  <2>3. QED
    BY <1>3, <2>1, <2>2
<1>4. ASSUME NEW t \in Tasks, StopCommit(t) PROVE CallsStep
  <2>1. CASE call[t].again
    <3> DEFINE f == [call[t] EXCEPT !.pc = "start"]
    <3>1. f \in Frame /\ f.child = call[t].child /\ f.id = call[t].id
      BY CallFacts DEF Frame, StartPCs
    <3>2. call' = [call EXCEPT ![t] = f]
      BY <1>4, <2>1 DEF StopCommit, TypeOK, Frame
    <3>3. QED
      BY <3>1, <3>2 DEF CallsStep, FrameStep
  <2>2. CASE ~call[t].again
    BY <1>4, <2>2, ReturnStep DEF StopCommit
  <2>3. QED
    BY <2>1, <2>2
<1>5. ASSUME NEW t \in Tasks, StartCommit(t) \/ DropRequest(t) PROVE CallsStep
  BY <1>5, ReturnStep DEF StartCommit, DropRequest
<1>6. ASSUME NEW t \in Tasks, RestartStop(t) \/ RestartStart(t) PROVE CallsStep
  BY <1>6, CallFacts, StartSectionFrame, StopSectionFrame
  DEF RestartStop, RestartStart, At
<1>7. ASSUME NEW t \in Tasks, ApiCall(t) PROVE CallsStep
  <2>1. PICK id \in Ids : ApiStart(t, id) \/ ApiStop(t, id) \/ ApiRestart(t, id)
    BY <1>7 DEF ApiCall
  <2>2. CASE ApiRestart(t, id)
    <3> DEFINE f == [Returned("ok") EXCEPT
                       !.pc = IF IsRunning(id) THEN "stop" ELSE "start", !.id = id]
    <3>1. f \in Frame /\ f.child = None
      BY DEF Returned, Frame, StartPCs, StopPCs
    <3>2. QED
      BY <2>2, <3>1 DEF ApiRestart, CallsStep, FrameStep
  <2>3. QED
    BY <2>1, <2>2, StartSectionFrame, StopSectionFrame DEF ApiStart, ApiStop
<1>8. CASE MonRestart
  BY <1>8, StartSectionFrame DEF MonRestart, TypeOK, MonitorState, Tasks
<1>9. CASE MonitorStep \/ ProcessStep \/ (\E t \in Tasks : Registration(t))
  BY <1>9, <1>1, <1>8
  DEF MonitorStep, MonTick, MarkCrash, MonCount, MonRestarted, MonNextPhase, MonProbe,
      MonUpdate, MonCheck, MonSelect, ProcessStep, ProcessExits, KilledExits,
      BecomesReady, Registration, Register, Unregister
<1>10. QED
  BY <1>1, <1>2, <1>3, <1>4, <1>5, <1>6, <1>7, <1>9 DEF Next, CallStep, vars, Tasks

(* A slot stays with the id its process was started for until it is freed. *)
LEMMA BrandKept ==
    ASSUME NEW c, NEW f, NEW b \in [Procs -> Ids \cup {None}], NEW c2, NEW f2, NEW b2,
           Moved(c, f, b, c2, f2, b2), NEW p \in Procs
    PROVE  b[p] # None /\ b2[p] # None => b2[p] = b[p]
BY DEF Moved, Freed

(* Ownership alone is not inductive: that section 2 of start puts a        *)
(* process under its own id needs the call to have carried it for that id. *)
OwnershipInv == Owned(Table, Frames, Born) /\ FramesBranded

LEMMA OwnedIsOneOwner == TypeOK /\ Owned(Table, Frames, Born) => OneOwner
BY ViewTypes DEF OneOwner, Owned, Held

LEMMA OwnershipInit == Init => OwnershipInv
BY ConstantsAssumption
DEF Init, OwnershipInv, Owned, FramesBranded, Table, Frames, Born, ChildOf, Returned

LEMMA OwnershipKept == TypeOK /\ OwnershipInv /\ [Next]_vars => OwnershipInv'
<1> SUFFICES ASSUME TypeOK, OwnershipInv, [Next]_vars PROVE OwnershipInv'
  OBVIOUS
<1>1. TypeOK'
  BY TypeStep
<1>2. Moved(Table, Frames, Born, Table', Frames', Born')
  BY StepMoves DEF OwnershipInv, OwnershipStep
<1>3. Owned(Table', Frames', Born')
  BY <1>2, ViewTypes, MovedKeepsOwned DEF OwnershipInv
<1>0. \A p \in Procs : Born[p] # None /\ Born'[p] # None => Born'[p] = Born[p]
  BY <1>2, BrandKept, ViewTypes
<1>4. ASSUME NEW t \in Tasks, call'[t].child # None
      PROVE  Born'[call'[t].child] = call'[t].id
  <2>1. call'[t].child \in Procs /\ Born'[call'[t].child] # None
    <3>1. call'[t] \in Frame
      BY <1>1 DEF TypeOK
    <3>2. call'[t].child \in Procs
      BY <1>4, <3>1 DEF Frame
    <3>3. Frames'[t] = call'[t].child
      BY DEF Frames
    <3>4. QED
      BY <1>3, <3>2, <3>3 DEF Owned
  <2>2. ASSUME call'[t].child = call[t].child, call'[t].id = call[t].id
        PROVE  Born'[call'[t].child] = call'[t].id
    <3>1. Frames[t] = call[t].child
      BY ViewTypes
    <3>2. Born[call[t].child] = call[t].id /\ Born[call[t].child] # None
      BY <1>4, <2>1, <2>2, <3>1 DEF OwnershipInv, FramesBranded, Owned
    <3>3. QED
      BY <1>0, <2>1, <2>2, <3>2
  <2>3. CASE FrameStep(t, call'[t])
    <3>1. CASE call'[t].child = call[t].child /\ call'[t].id = call[t].id
      BY <2>2, <3>1
    <3>2. CASE call'[t].id \in Ids /\ call'[t].child = ChildOf(call'[t].id)
      BY <1>0, <1>4, <2>1, <3>2, ViewTypes DEF OwnershipInv, Owned
    <3>3. QED
      BY <1>4, <2>3, <3>1, <3>2 DEF FrameStep
  <2>4. QED
    BY <2>2, <2>3, FramesStep DEF CallsStep, TypeOK
<1>5. QED
  BY <1>3, <1>4 DEF OwnershipInv, Owned, FramesBranded

LEMMA OwnershipInvariant == Spec => []OwnershipInv
BY OwnershipInit, OwnershipKept, TypeCorrect, PTL DEF Spec

(* No process is lost or owned twice: each unreaped process is the child   *)
(* of exactly one handle or of exactly one call in progress.  Dropping     *)
(* that owner is then what ends the process, and nothing else can: there   *)
(* is no orphan and no double kill.                                        *)
THEOREM EveryProcessOwned == Spec => []OneOwner
<1>1. TypeOK /\ OwnershipInv => OneOwner
  BY OwnedIsOneOwner DEF OwnershipInv
<1>2. QED
  BY <1>1, OwnershipInvariant, TypeCorrect, PTL

(* The supervisor implements ChildOwnership: whatever calls, dropped       *)
(* requests, monitor restarts and registrations do between the two         *)
(* sections of start and of stop, a process is handed from one owner to    *)
(* the next, is entered in the table only under the id it was started for, *)
(* and is gone in the very step in which its owner drops it.               *)
THEOREM SupervisorRefinesOwnership == Spec => RefinesOwnership
<1>1. Init => Ownership!Init
  BY DEF Init, Ownership!Init, Table, Frames, Born, ChildOf, Returned
<1>2. TypeOK /\ OwnershipInv /\ [Next]_vars => [Ownership!Next]_(Ownership!vars)
  <2> SUFFICES ASSUME TypeOK, OwnershipInv, [Next]_vars
               PROVE  [Ownership!Next]_(Ownership!vars)
    OBVIOUS
  <2> USE DEF Ownership!vars
  <2>1. Moved(Table, Frames, Born, Table', Frames', Born')
    BY StepMoves DEF OwnershipInv, OwnershipStep
  <2>2. CASE Table' = Table /\ Frames' = Frames /\ Born' = Born
    BY <2>2
  <2>3. ASSUME NEW id \in Ids, Table' = [Table EXCEPT ![id] = None],
               Frames' = Frames, Born' = Freed(Born, Table[id])
        PROVE  [Ownership!Next]_(Ownership!vars)
    BY <2>3, ViewTypes, ConstantsAssumption
    DEF Ownership!Next, Ownership!DropKept, Ownership!Freed, Freed
  <2>4. ASSUME NEW t \in Tasks, Frames' = [Frames EXCEPT ![t] = None],
               Table' = Table, Born' = Freed(Born, Frames[t])
        PROVE  [Ownership!Next]_(Ownership!vars)
    BY <2>4, ViewTypes, ConstantsAssumption
    DEF Ownership!Next, Ownership!DropCarried, Ownership!Freed, Freed
  <2>5. ASSUME NEW t \in Tasks, NEW p \in Procs, NEW id \in Ids, Frames[t] = None,
               Born[p] = None, Table' = Table, Frames' = [Frames EXCEPT ![t] = p],
               Born' = [Born EXCEPT ![p] = id]
        PROVE  [Ownership!Next]_(Ownership!vars)
    BY <2>5 DEF Ownership!Next, Ownership!Spawn
  <2>6. ASSUME NEW t \in Tasks, NEW id \in Ids, Frames[t] \in Procs,
               Born[Frames[t]] = id, Table' = [Table EXCEPT ![id] = Frames[t]],
               Frames' = [Frames EXCEPT ![t] = None], Born' = Freed(Born, Table[id])
        PROVE  [Ownership!Next]_(Ownership!vars)
    BY <2>6, ConstantsAssumption
    DEF Ownership!Next, Ownership!Keep, Ownership!Freed, Freed
  <2>7. ASSUME NEW t \in Tasks, NEW id \in Ids, Frames[t] = None,
               Table' = [Table EXCEPT ![id] = None],
               Frames' = [Frames EXCEPT ![t] = Table[id]], Born' = Born
        PROVE  [Ownership!Next]_(Ownership!vars)
    BY <2>7, ViewTypes DEF Ownership!Next, Ownership!Take
  <2>8. QED
    BY <2>1, <2>2, <2>3, <2>4, <2>5, <2>6, <2>7 DEF Moved
<1>3. QED
  BY <1>1, <1>2, TypeCorrect, OwnershipInvariant, PTL
  DEF Spec, RefinesOwnership, Ownership!Spec

-----------------------------------------------------------------------------
(* What a step does to one process, and to one agent.                      *)

ProcsStep ==
    \/ UNCHANGED procs
    \/ \E S : Dropping(S)
    \/ \E q : Kill(q)
    \/ \E q \in Procs : \E new : procs[q] = None /\ procs' = [procs EXCEPT ![q] = new]
    \/ ProcessStep

LEMMA ProcessesStep == TypeOK /\ [Next]_vars => ProcsStep
<1> SUFFICES ASSUME TypeOK, [Next]_vars PROVE ProcsStep
  OBVIOUS
<1>1. CASE UNCHANGED procs
  BY <1>1 DEF ProcsStep
<1>2. ASSUME NEW t \in Tasks, CallStep(t) PROVE ProcsStep
  <2>1. CASE Spawn(t)
    BY <2>1, <1>1 DEF Spawn, ProcsStep
  <2>2. CASE StartCommit(t) \/ StopReaped(t) \/ StopCommit(t)
    BY <2>2, <1>1 DEF StartCommit, StopReaped, StopCommit, ProcsStep
  <2>3. CASE StopTimeout(t) \/ RestartStop(t) \/ RestartStart(t)
    BY <2>3, <1>1 DEF StopTimeout, RestartStop, StopSection, RestartStart, ProcsStep
  <2>4. QED
    BY <1>2, <2>1, <2>2, <2>3 DEF CallStep
<1>3. ASSUME NEW t \in Tasks, ApiCall(t) \/ DropRequest(t) \/ Registration(t)
      PROVE  ProcsStep
  BY <1>3, <1>1
  DEF ApiCall, ApiStart, ApiStop, ApiRestart, StopSection, DropRequest, Registration,
      Register, Unregister, SetAgent, ProcsStep
<1>4. CASE MonitorStep
  BY <1>4, <1>1
  DEF MonitorStep, MonTick, MarkCrash, MonCount, MonRestart, MonRestarted,
      MonNextPhase, MonProbe, MonUpdate, MonCheck, MonSelect, ProcsStep
<1>5. CASE ProcessStep
  BY <1>5 DEF ProcsStep
<1>6. QED
  BY <1>1, <1>2, <1>3, <1>4, <1>5 DEF Next, vars, Tasks

(* As long as it is not reaped, a process keeps its id and configuration,  *)
(* stays ready once ready, and stays exited once exited.                   *)
LEMMA ProcessFate ==
    ASSUME TypeOK, [Next]_vars, NEW p \in Procs, procs[p] # None, procs'[p] # None
    PROVE  /\ procs'[p].id = procs[p].id
           /\ procs'[p].cfg = procs[p].cfg
           /\ procs[p].ready => procs'[p].ready
           /\ procs[p].state = "exited" => procs'[p].state = "exited"
<1>1. procs[p] \in Process
  BY DEF TypeOK
<1>2. CASE \E S : Dropping(S)
  BY <1>2 DEF Dropping
<1>3. CASE \E q : Kill(q)
  BY <1>1, <1>3 DEF Kill, Process
<1>4. CASE \E q \in Procs : \E new : procs[q] = None /\ procs' = [procs EXCEPT ![q] = new]
  BY <1>4 DEF TypeOK
<1>5. CASE ProcessStep
  <2>1. PICK q \in Procs : ProcessExits(q) \/ KilledExits(q) \/ BecomesReady(q)
    BY <1>5 DEF ProcessStep
  <2>2. procs'[p] \in {procs[p], [procs[p] EXCEPT !.state = "exited"],
                       [procs[p] EXCEPT !.ready = TRUE]}
    BY <2>1 DEF ProcessExits, KilledExits, BecomesReady, TypeOK
  <2>3. QED
    BY <1>1, <2>2 DEF Process
<1>6. QED
  BY <1>2, <1>3, <1>4, <1>5, ProcessesStep DEF ProcsStep

(* The handle of an agent changes only by a request on it, by a            *)
(* registration, by the monitor where it looks at this agent, or by the    *)
(* start that the monitor executes for it.                                 *)
AgentFate(id) ==
    \/ agents'[id] = agents[id]
    \/ \E t \in Callers : call[t].id = id \/ call'[t].id = id
    \/ /\ UNCHANGED <<call, mon>>
       /\ agents'[id] = None \/ \E c \in Configs : agents'[id] = NewHandle(c)
    \/ MarkCrash /\ mon.id = id
    \/ MonRestart /\ mon.id = id
    \/ MonUpdate /\ mon.id = id
    \/ CallStep(Monitor) /\ call[Monitor].id = id

LEMMA AgentsFate ==
    ASSUME TypeOK, [Next]_vars, NEW id \in Ids
    PROVE  AgentFate(id)
<1>1. CASE UNCHANGED agents
  BY <1>1 DEF AgentFate
<1>2. ASSUME NEW t \in Tasks, CallStep(t) PROVE AgentFate(id)
  <2>1. CASE call[t].id = id
    BY <1>2, <2>1 DEF AgentFate, Tasks
  <2>2. CASE call[t].id # id
    <3>1. agents'[id] = agents[id]
      <4>1. CASE StartCommit(t) \/ StopCommit(t)
        BY <2>2, <4>1 DEF StartCommit, StopCommit, TypeOK
      <4>2. CASE RestartStop(t)
        BY <2>2, <4>2 DEF RestartStop, StopSection, TypeOK
      <4>3. CASE RestartStart(t)
        BY <2>2, <4>3 DEF RestartStart, StartSection, TypeOK
      <4>4. QED
        BY <1>2, <4>1, <4>2, <4>3 DEF CallStep, Spawn, StopReaped, StopTimeout
    <3>2. QED
      BY <3>1 DEF AgentFate
  <2>3. QED
    BY <2>1, <2>2
<1>3. ASSUME NEW t \in Callers, ApiCall(t) PROVE AgentFate(id)
  <2>1. PICK j \in Ids : ApiStart(t, j) \/ ApiStop(t, j) \/ ApiRestart(t, j)
    BY <1>3 DEF ApiCall
  <2>2. CASE agents'[id] = agents[id]
    BY <2>2 DEF AgentFate
  <2>3. CASE agents'[id] # agents[id] /\ ApiStart(t, j)
    <3>1. /\ agents' = [agents EXCEPT ![j].status = "Starting"]
          /\ call' = [call EXCEPT ![t] = [Returned("ok") EXCEPT
                         !.pc = "spawn", !.id = j, !.cfg = agents[j].cfg]]
      BY <2>3 DEF ApiStart, StartSection
    <3>2. j = id
      BY <2>3, <3>1
    <3>3. call'[t].id = id
      BY <3>1, <3>2 DEF TypeOK, Tasks, Returned
    <3>4. QED
      BY <3>3 DEF AgentFate
  <2>4. CASE agents'[id] # agents[id] /\ ApiStop(t, j)
    <3>1. /\ agents' = [agents EXCEPT ![j].status = "Stopping", ![j].child = None]
          /\ call' = [call EXCEPT ![t] = [Returned("ok") EXCEPT
                         !.pc = IF ChildOf(j) = None THEN "clear" ELSE "wait",
                         !.id = j, !.child = ChildOf(j), !.again = FALSE]]
      BY <2>4 DEF ApiStop, StopSection
    <3>2. j = id
      BY <2>4, <3>1 DEF TypeOK
    <3>3. call'[t].id = id
      BY <3>1, <3>2 DEF TypeOK, Tasks, Returned
    <3>4. QED
      BY <3>3 DEF AgentFate
  <2>5. QED
    BY <2>1, <2>2, <2>3, <2>4 DEF ApiRestart
<1>4. ASSUME NEW t \in Callers, Registration(t) PROVE AgentFate(id)
  BY <1>4 DEF Registration, Register, Unregister, SetAgent, AgentFate, TypeOK
<1>5. CASE MonitorStep
  <2>1. CASE mon.id = id
    BY <1>1, <1>5, <2>1
    DEF MonitorStep, MonTick, MonCount, MonRestarted, MonNextPhase, MonProbe, MonCheck,
        MonSelect, AgentFate
  <2>2. CASE mon.id # id
    <3>1. agents'[id] = agents[id]
      <4>1. CASE MarkCrash \/ MonUpdate
        BY <2>2, <4>1 DEF MarkCrash, MonUpdate, TypeOK
      <4>2. CASE MonRestart
        BY <2>2, <4>2 DEF MonRestart, StartSection, TypeOK
      <4>3. QED
        BY <1>5, <4>1, <4>2
        DEF MonitorStep, MonTick, MonCount, MonRestarted, MonNextPhase, MonProbe,
            MonCheck, MonSelect
    <3>2. QED
      BY <3>1 DEF AgentFate
  <2>3. QED
    BY <2>1, <2>2
<1>6. QED
  BY <1>1, <1>2, <1>3, <1>4, <1>5
  DEF Next, vars, DropRequest, ProcessStep, ProcessExits, KilledExits, BecomesReady

(* The call of a task changes only by a step of it.                        *)
LEMMA CallsFate ==
    ASSUME TypeOK, [Next]_vars, NEW t \in Tasks, call'[t] # call[t]
    PROVE  \/ CallStep(t)
           \/ DropRequest(t)
           \/ t \in Callers /\ ApiCall(t)
           \/ t = Monitor /\ MonRestart
<1>1. ASSUME NEW u \in Tasks, u # t, NEW f, call' = [call EXCEPT ![u] = f]
      PROVE  FALSE
  BY <1>1 DEF TypeOK
<1>2. ASSUME NEW u \in Tasks, u # t, NEW id, StartSection(u, id) PROVE FALSE
  BY <1>1, <1>2 DEF StartSection, Return
<1>3. ASSUME NEW u \in Tasks, u # t, NEW id, NEW again, StopSection(u, id, again)
      PROVE  FALSE
  BY <1>1, <1>3 DEF StopSection, Return
<1>4. ASSUME NEW u \in Tasks, CallStep(u) PROVE u = t
  <2>1. CASE Spawn(u)
    <3>1. \/ Return(u, "err")
          \/ \E p \in Procs : call' = [call EXCEPT ![u].pc = "commit", ![u].child = p]
      BY <2>1 DEF Spawn
    <3>2. QED
      BY <1>1, <3>1 DEF Return
  <2>2. CASE StartCommit(u) \/ StopReaped(u) \/ StopTimeout(u)
    BY <1>1, <2>2 DEF StartCommit, StopReaped, StopTimeout, Return
  <2>3. CASE StopCommit(u)
    BY <1>1, <2>3 DEF StopCommit, Return
  <2>4. CASE RestartStop(u) \/ RestartStart(u)
    BY <1>2, <1>3, <2>4 DEF RestartStop, RestartStart
  <2>5. QED
    BY <1>4, <2>1, <2>2, <2>3, <2>4 DEF CallStep
<1>5. ASSUME NEW u \in Tasks, DropRequest(u) PROVE u = t
  BY <1>1, <1>5 DEF DropRequest, Return
<1>6. ASSUME NEW u \in Callers, ApiCall(u) PROVE u = t
  BY <1>1, <1>2, <1>3, <1>6 DEF ApiCall, ApiStart, ApiStop, ApiRestart, Tasks
<1>7. ASSUME MonRestart PROVE t = Monitor
  BY <1>2, <1>7 DEF MonRestart, Tasks
<1>8. ASSUME NEW u \in Callers, Registration(u) PROVE FALSE
  BY <1>8 DEF Registration, Register, Unregister
<1>9. CASE MonitorStep
  BY <1>7, <1>9
  DEF MonitorStep, MonTick, MarkCrash, MonCount, MonRestarted, MonNextPhase,
      MonProbe, MonUpdate, MonCheck, MonSelect
<1>10. QED
  BY <1>4, <1>5, <1>6, <1>8, <1>9
  DEF Next, vars, ProcessStep, ProcessExits, KilledExits, BecomesReady

(* The call that a section of start or stop leaves behind.                 *)
LEMMA SectionCall ==
    ASSUME TypeOK, NEW t \in Tasks, NEW id
    PROVE  /\ StartSection(t, id) =>
                  \/ call'[t].pc = "idle" /\ call'[t].id = None
                  \/ call'[t].pc = "spawn" /\ call'[t].id = id
           /\ \A again : StopSection(t, id, again) =>
                  \/ call'[t].pc = "idle" /\ call'[t].id = None
                  \/ call'[t].pc \in {"wait", "clear"} /\ call'[t].id = id
<1>1. ASSUME NEW r, Return(t, r) PROVE call'[t].pc = "idle" /\ call'[t].id = None
  BY <1>1 DEF Return, Returned, TypeOK
<1>2. ASSUME StartSection(t, id)
      PROVE  \/ call'[t].pc = "idle" /\ call'[t].id = None
             \/ call'[t].pc = "spawn" /\ call'[t].id = id
  <2> DEFINE f == [Returned("ok") EXCEPT !.pc = "spawn", !.id = id,
                                         !.cfg = agents[id].cfg]
  <2>1. f.pc = "spawn" /\ f.id = id
    BY DEF Returned
  <2>2. Return(t, "err") \/ call' = [call EXCEPT ![t] = f]
    BY <1>2 DEF StartSection
  <2> HIDE DEF f
  <2>3. QED
    BY <1>1, <2>1, <2>2 DEF TypeOK
<1>3. ASSUME NEW again, StopSection(t, id, again)
      PROVE  \/ call'[t].pc = "idle" /\ call'[t].id = None
             \/ call'[t].pc \in {"wait", "clear"} /\ call'[t].id = id
  <2> DEFINE f == [Returned("ok") EXCEPT
                     !.pc = IF ChildOf(id) = None THEN "clear" ELSE "wait",
                     !.id = id, !.child = ChildOf(id), !.again = again]
  <2>1. f.pc \in {"wait", "clear"} /\ f.id = id
    BY DEF Returned
  <2>2. Return(t, "err") \/ call' = [call EXCEPT ![t] = f]
    BY <1>3 DEF StopSection
  <2> HIDE DEF f
  <2>3. QED
    BY <1>1, <2>1, <2>2 DEF TypeOK
<1>4. QED
  BY <1>2, <1>3

(* A call stays with its agent until it returns.                           *)
LEMMA CallIdFate ==
    ASSUME TypeOK, NEW t \in Tasks, CallStep(t)
    PROVE  call'[t].id \in {call[t].id, None}
<1>1. ASSUME NEW r, Return(t, r) PROVE call'[t].id = None
  BY <1>1 DEF Return, Returned, TypeOK
<1>2. CASE Spawn(t)
  <2>1. \/ Return(t, "err")
        \/ \E p \in Procs : call' = [call EXCEPT ![t].pc = "commit", ![t].child = p]
    BY <1>2 DEF Spawn
  <2>2. QED
    BY <1>1, <2>1, CallFacts DEF TypeOK, Frame
<1>3. CASE StopReaped(t) \/ StopTimeout(t)
  BY <1>3, CallFacts DEF StopReaped, StopTimeout, TypeOK, Frame
<1>4. CASE StartCommit(t)
  BY <1>1, <1>4 DEF StartCommit
<1>5. CASE StopCommit(t)
  <2>1. Return(t, "ok") \/ call' = [call EXCEPT ![t].pc = "start"]
    BY <1>5 DEF StopCommit
  <2>2. QED
    BY <1>1, <2>1, CallFacts DEF TypeOK, Frame
<1>6. CASE RestartStop(t)
  BY <1>6, SectionCall DEF RestartStop
<1>7. CASE RestartStart(t)
  BY <1>7, SectionCall DEF RestartStart
<1>8. QED
  BY <1>2, <1>3, <1>4, <1>5, <1>6, <1>7 DEF CallStep

(* The monitor executes a call only while it waits for a restart of the    *)
(* agent it is at, and this call is a start.                               *)
MonFrame ==
    call[Monitor].pc # "idle" =>
        /\ mon.pc = "restart" /\ call[Monitor].id = mon.id
        /\ call[Monitor].pc \in {"spawn", "commit"}

LEMMA MonFrameStep == TypeOK /\ MonFrame /\ [Next]_vars => MonFrame'
<1> SUFFICES ASSUME TypeOK, MonFrame, [Next]_vars PROVE MonFrame'
  OBVIOUS
<1>0. Monitor \in Tasks /\ Monitor \notin Callers /\ mon \in MonitorState
  BY ConstantsAssumption DEF Tasks, TypeOK
<1>1. CASE call'[Monitor] = call[Monitor]
  <2>1. CASE mon' = mon
    BY <1>1, <2>1 DEF MonFrame
  <2>2. CASE mon' # mon /\ call[Monitor].pc # "idle"
    <3>1. mon.pc = "restart" /\ MonitorStep
      BY <2>2 DEF MonFrame, Next, vars, CallStep, Spawn, StartCommit, StopReaped,
         StopTimeout, StopCommit, RestartStop, RestartStart, DropRequest, ApiCall, ApiStart,
         ApiStop, ApiRestart, Registration, Register, Unregister, ProcessStep,
         ProcessExits, KilledExits, BecomesReady
    <3>2. QED
      BY <2>2, <3>1 DEF MonitorStep, MonTick, MarkCrash, MonCount, MonRestart,
         MonRestarted, MonNextPhase, MonProbe, MonUpdate, MonCheck, MonSelect, At
  <2>3. QED
    BY <1>1, <2>1, <2>2 DEF MonFrame
<1>2. CASE CallStep(Monitor) /\ ~(UNCHANGED call)
  <2>1. At(Monitor, "spawn") \/ At(Monitor, "commit")
    BY <1>2 DEF MonFrame, At, CallStep, Spawn, StartCommit, StopReaped, StopTimeout,
       StopCommit, RestartStop, RestartStart
  <2>2. CASE Spawn(Monitor)
    <3>1. \/ Return(Monitor, "err")
          \/ \E p \in Procs : call' = [call EXCEPT ![Monitor].pc = "commit",
                                                  ![Monitor].child = p]
      BY <2>2 DEF Spawn
    <3>2. /\ mon' = mon
          /\ \/ call'[Monitor].pc = "idle"
             \/ call'[Monitor].pc = "commit" /\ call'[Monitor].id = call[Monitor].id
      BY <1>0, <2>2, <3>1, CallFacts DEF Spawn, Return, Returned, TypeOK, Frame
    <3>3. QED
      BY <2>1, <3>2 DEF MonFrame, At
  <2>3. CASE StartCommit(Monitor)
    BY <1>0, <2>3 DEF StartCommit, Return, Returned, TypeOK, MonFrame
  <2>4. QED
    BY <1>2, <2>1, <2>2, <2>3 DEF CallStep, At, StopReaped, StopTimeout, StopCommit,
       RestartStop, RestartStart
<1>3. CASE MonRestart
  <2>1. mon' = [mon EXCEPT !.pc = "restart"] /\ StartSection(Monitor, mon.id)
    BY <1>3 DEF MonRestart
  <2>2. \/ call'[Monitor].pc = "idle"
        \/ call'[Monitor].pc = "spawn" /\ call'[Monitor].id = mon.id
    BY <1>0, <2>1, SectionCall
  <2>3. mon'.pc = "restart" /\ mon'.id = mon.id
    BY <1>0, <2>1 DEF MonitorState
  <2>4. QED
    BY <2>2, <2>3 DEF MonFrame
<1>4. QED
  BY <1>0, <1>1, <1>2, <1>3, CallsFate DEF DropRequest

LEMMA MonFrameInvariant == Spec => []MonFrame
<1>1. Init => MonFrame
  BY DEF Init, MonFrame, Returned, Tasks
<1>2. QED
  BY <1>1, MonFrameStep, TypeCorrect, PTL DEF Spec

(* A process that is not reaped is the child of its agent's handle or of a *)
(* call on its agent.                                                      *)
LEMMA ProcessOwner ==
    ASSUME TypeOK, OwnershipInv, NEW p \in Procs, procs[p] # None
    PROVE  /\ procs[p].id \in Ids
           /\ \/ ChildOf(procs[p].id) = p
              \/ \E t \in Tasks : call[t].child = p /\ call[t].id = procs[p].id
<1>1. procs[p].id \in Ids /\ Born[p] = procs[p].id /\ Born[p] # None
  BY ConstantsAssumption, ViewTypes DEF TypeOK, Process
<1>2. (\E id \in Ids : ChildOf(id) = p) \/ (\E t \in Tasks : call[t].child = p)
  BY <1>1, ViewTypes DEF OwnershipInv, Owned
<1>3. CASE \E id \in Ids : ChildOf(id) = p
  BY <1>1, <1>3, ViewTypes, ConstantsAssumption DEF OwnershipInv, Owned
<1>4. CASE \E t \in Tasks : call[t].child = p
  BY <1>1, <1>4, ConstantsAssumption DEF OwnershipInv, FramesBranded
<1>5. QED
  BY <1>1, <1>2, <1>3, <1>4

(* The child of a handle is a process, of this agent.                      *)
LEMMA ChildIsProcess ==
    ASSUME TypeOK, OwnershipInv, NEW id \in Ids, ChildOf(id) # None
    PROVE  /\ ChildOf(id) \in Procs /\ procs[ChildOf(id)] # None
           /\ procs[ChildOf(id)].id = id
<1>1. ChildOf(id) \in Procs /\ Table[id] = ChildOf(id)
  BY ChildType, ViewTypes
<1>2. Born[ChildOf(id)] = id
  BY <1>1 DEF OwnershipInv, Owned
<1>3. QED
  BY <1>1, <1>2, ViewTypes, ConstantsAssumption

-----------------------------------------------------------------------------
(* What a step does to the child of a handle, and to a live process.       *)

(* A handle has the child it had, with the configuration it had, or the    *)
(* one that section 2 of a start has just brought.                         *)
LEMMA ChildFate ==
    ASSUME TypeOK, [Next]_vars, NEW id \in Ids, ChildOf(id)' # None
    PROVE  /\ agents[id] # None /\ agents'[id] # None
           /\ agents'[id].cfg = agents[id].cfg
           /\ \/ ChildOf(id)' = ChildOf(id)
              \/ \E t \in Tasks : /\ StartCommit(t) /\ call[t].id = id
                                  /\ call[t].child \in Procs
                                  /\ ChildOf(id)' = call[t].child
<1>1. agents'[id] # None /\ ChildOf(id)' = agents'[id].child
  BY DEF ChildOf
<1>2. CASE UNCHANGED agents
  BY <1>1, <1>2 DEF ChildOf
<1>3. ASSUME NEW j \in Ids, NEW new \in Handle \cup {None},
             agents' = [agents EXCEPT ![j] = new], HandleStep(j, agents[j], new)
      PROVE  /\ agents[id] # None /\ agents'[id].cfg = agents[id].cfg
             /\ \/ ChildOf(id)' = ChildOf(id)
                \/ \E t \in Tasks : /\ StartCommit(t) /\ call[t].id = id
                                    /\ call[t].child \in Procs
                                    /\ ChildOf(id)' = call[t].child
  <2>1. CASE j # id
    BY <1>1, <1>3, <2>1 DEF TypeOK, ChildOf
  <2>2. CASE j = id
    <3> DEFINE old == agents[id]
    <3>1. new = agents'[id] /\ new.child # None
      BY <1>1, <1>3, <2>2 DEF TypeOK
    <3>2. \A c \in Configs : new # NewHandle(c)
      BY <3>1 DEF NewHandle
    <3>3. old # None /\ old \in Handle
      BY <1>1, <1>3, <2>2, <3>1, <3>2 DEF HandleStep
    <3>4. new = [old EXCEPT !.status = "Starting"]
             => new.cfg = old.cfg /\ new.child = old.child
      BY <3>3 DEF Handle
    <3>5. \A p \in Procs : new = Started(old, p) => new.cfg = old.cfg /\ new.child = p
      BY <3>3 DEF Handle, Started
    <3>6. \A good \in BOOLEAN :
             new = Probed(old, good) => new.cfg = old.cfg /\ new.child = old.child
      BY <3>3 DEF Handle, Probed
    <3>7. /\ new # [old EXCEPT !.status = "Stopping", !.child = None]
          /\ new # Stopped(old) /\ new # Crashed(old)
      BY <3>1, <3>3 DEF Handle, Stopped, Crashed
    <3>8. QED
      BY <1>1, <1>3, <2>2, <3>1, <3>3, <3>4, <3>5, <3>6, <3>7, <3>2
      DEF HandleStep, ChildOf
  <2>3. QED
    BY <2>1, <2>2
<1>4. QED
  BY <1>1, <1>2, <1>3, TableStep DEF AgentsStep

(* Only a stop kills without reaping: section 1 the child it takes out of  *)
(* the handle, the timeout the child it waits for.                         *)
LEMMA AliveFate ==
    ASSUME TypeOK, [Next]_vars, ~ProcessesMayExit,
           NEW p \in Procs, procs[p] # None, procs[p].state = "alive",
           procs'[p] # None, procs'[p].state # "alive"
    PROVE  \/ \E id \in Ids : ChildOf(id) = p /\ ChildOf(id)' = None
           \/ \E t \in Tasks : call[t].child = p /\ At(t, "wait")
<1>0. procs[p] \in Process
  BY DEF TypeOK
<1>1. ~UNCHANGED procs /\ ~\E S : Dropping(S)
  BY DEF Dropping
<1>2. ASSUME NEW q, Kill(q) PROVE q = p
  BY <1>2, <1>0 DEF Kill, Process
<1>3. ASSUME NEW t \in Tasks, NEW id \in Ids, NEW again, StopSection(t, id, again)
      PROVE  ChildOf(id) = p /\ ChildOf(id)' = None
  <2>1. Kill(ChildOf(id)) /\ agents' = [agents EXCEPT ![id].status = "Stopping",
                                                      ![id].child = None]
        /\ agents[id] # None
    BY <1>1, <1>3 DEF StopSection, IsRunning
  <2>2. agents[id] \in Handle
    BY <2>1, AgentType
  <2>3. agents'[id].child = None
    BY <2>1, <2>2 DEF TypeOK, Handle
  <2>4. QED
    BY <1>2, <2>1, <2>3 DEF ChildOf
<1>4. ASSUME NEW t \in Tasks, CallStep(t)
      PROVE  \/ \E id \in Ids : ChildOf(id) = p /\ ChildOf(id)' = None
             \/ call[t].child = p /\ At(t, "wait")
  <2>1. CASE Spawn(t)
    BY <2>1, <1>1 DEF Spawn, TypeOK
  <2>2. CASE StartCommit(t) \/ StopReaped(t) \/ StopCommit(t) \/ RestartStart(t)
    BY <2>2, <1>1 DEF StartCommit, StopReaped, StopCommit, RestartStart
  <2>3. CASE StopTimeout(t)
    BY <2>3, <1>2 DEF StopTimeout
  <2>4. CASE RestartStop(t)
    BY <2>4, <1>3, CallFacts DEF RestartStop, At
  <2>5. QED
    BY <1>4, <2>1, <2>2, <2>3, <2>4 DEF CallStep
<1>5. ASSUME NEW t \in Tasks, ApiCall(t) \/ DropRequest(t) \/ Registration(t)
      PROVE  \E id \in Ids : ChildOf(id) = p /\ ChildOf(id)' = None
  BY <1>1, <1>3, <1>5
  DEF ApiCall, ApiStart, ApiStop, ApiRestart, DropRequest, Registration, Register,
      Unregister, SetAgent
<1>6. ASSUME MonitorStep PROVE FALSE
  BY <1>1, <1>6
  DEF MonitorStep, MonTick, MarkCrash, MonCount, MonRestart, MonRestarted,
      MonNextPhase, MonProbe, MonUpdate, MonCheck, MonSelect
<1>7. ASSUME ProcessStep PROVE FALSE
  <2>1. PICK q \in Procs : KilledExits(q) \/ BecomesReady(q)
    BY <1>7 DEF ProcessStep, ProcessExits
  <2>2. procs'[p] \in {procs[p], [procs[p] EXCEPT !.ready = TRUE]}
    BY <2>1 DEF KilledExits, BecomesReady, TypeOK
  <2>3. QED
    BY <1>0, <2>2 DEF Process
<1>8. QED
  BY <1>1, <1>4, <1>5, <1>6, <1>7 DEF Next, vars, Tasks

(* The way to section 2 of start is through the spawn.                     *)
LEMMA CommitFate ==
    ASSUME TypeOK, [Next]_vars, NEW t \in Tasks, call'[t].pc = "commit",
           call'[t] # call[t]
    PROVE  /\ call[t].pc = "spawn"
           /\ call'[t].id = call[t].id /\ call'[t].cfg = call[t].cfg
           /\ call'[t].child \in Procs
           /\ procs'[call'[t].child] =
                 [state |-> "alive", id |-> call[t].id, cfg |-> call[t].cfg,
                  ready |-> FALSE]
<1>0. call[t] \in Frame
  BY DEF TypeOK
<1>1. ASSUME NEW r, Return(t, r) PROVE FALSE
  BY <1>1 DEF Return, Returned, TypeOK
<1>2. ASSUME NEW id, StartSection(t, id) PROVE FALSE
  BY <1>2, SectionCall
<1>3. ASSUME NEW id, NEW again, StopSection(t, id, again) PROVE FALSE
  BY <1>3, SectionCall
<1>4. ASSUME CallStep(t) PROVE Spawn(t)
  <2>1. CASE StartCommit(t)
    BY <1>1, <2>1 DEF StartCommit
  <2>2. CASE StopReaped(t)
    BY <1>0, <2>2 DEF StopReaped, TypeOK, Frame
  <2>3. CASE StopTimeout(t)
    BY <1>0, <2>3 DEF StopTimeout, TypeOK, Frame
  <2>4. CASE StopCommit(t)
    <3>1. Return(t, "ok") \/ call' = [call EXCEPT ![t].pc = "start"]
      BY <2>4 DEF StopCommit
    <3>2. QED
      BY <1>0, <1>1, <3>1 DEF TypeOK, Frame
  <2>5. CASE RestartStop(t) \/ RestartStart(t)
    BY <1>2, <1>3, <2>5 DEF RestartStop, RestartStart
  <2>6. QED
    BY <1>4, <2>1, <2>2, <2>3, <2>4, <2>5 DEF CallStep
<1>5. ASSUME t \in Callers, ApiCall(t) PROVE FALSE
  <2>1. PICK id \in Ids : ApiRestart(t, id)
    BY <1>2, <1>3, <1>5 DEF ApiCall, ApiStart, ApiStop
  <2> DEFINE f == [Returned("ok") EXCEPT
                     !.pc = IF IsRunning(id) THEN "stop" ELSE "start", !.id = id]
  <2>2. f.pc # "commit"
    BY DEF Returned
  <2>3. call' = [call EXCEPT ![t] = f]
    BY <2>1 DEF ApiRestart
  <2> HIDE DEF f
  <2>4. QED
    BY <2>2, <2>3 DEF TypeOK
<1>6. Spawn(t)
  BY <1>1, <1>2, <1>4, <1>5, CallsFate DEF DropRequest, MonRestart
<1>7. PICK p \in Procs :
         /\ procs' = [procs EXCEPT ![p] =
                [state |-> "alive", id |-> call[t].id, cfg |-> call[t].cfg,
                 ready |-> FALSE]]
         /\ call' = [call EXCEPT ![t].pc = "commit", ![t].child = p]
  BY <1>1, <1>6 DEF Spawn
<1>8. call'[t] = [call[t] EXCEPT !.pc = "commit", !.child = p]
  BY <1>7 DEF TypeOK
<1>9. call'[t].child = p /\ call'[t].id = call[t].id /\ call'[t].cfg = call[t].cfg
  BY <1>0, <1>8 DEF Frame
<1>10. procs'[p] = [state |-> "alive", id |-> call[t].id, cfg |-> call[t].cfg,
                    ready |-> FALSE]
  BY <1>7 DEF TypeOK
<1>11. QED
  BY <1>6, <1>9, <1>10 DEF Spawn, At

-----------------------------------------------------------------------------
(* As long as no process exits by itself, handles and starts hold live     *)
(* processes only, and the monitor meets no crash.                         *)
Undying ==
    /\ \A id \in Ids : ChildOf(id) # None => procs[ChildOf(id)].state = "alive"
    /\ \A t \in Tasks : At(t, "commit") => procs[call[t].child].state = "alive"
    /\ mon.pc \notin {"mark", "count", "backoff", "restart"}

LEMMA MonitorCalm ==
    ASSUME TypeOK, Undying, [Next]_vars
    PROVE  mon'.pc \notin {"mark", "count", "backoff", "restart"}
<1>1. CASE UNCHANGED mon
  BY <1>1 DEF Undying
<1>2. ASSUME NEW t \in Tasks,
             CallStep(t) \/ DropRequest(t) \/ ApiCall(t) \/ Registration(t)
      PROVE  mon' = mon
  BY <1>2 DEF CallStep, Spawn, StartCommit, StopReaped, StopTimeout, StopCommit,
      RestartStop, RestartStart, DropRequest, ApiCall, ApiStart, ApiStop, ApiRestart,
      Registration, Register, Unregister
<1>3. CASE ProcessStep
  BY <1>1, <1>3 DEF ProcessStep, ProcessExits, KilledExits, BecomesReady
<1>4. CASE MonitorStep
  <2>0. mon \in MonitorState
    BY DEF TypeOK
  <2>1. ASSUME NEW id \in Ids, MonCheck(id) \/ MonSelect(id)
        PROVE  mon'.pc \in {"check", "health", "probe"}
    BY <2>0, <2>1 DEF MonCheck, HasExited, Undying, MonSelect, MonitorState
  <2>2. CASE MonTick \/ MonNextPhase \/ MonUpdate
    BY <2>0, <2>2 DEF MonTick, MonNextPhase, MonUpdate, MonitorState
  <2>3. CASE MonProbe
    BY <2>0, <2>3 DEF MonProbe, MonitorState
  <2>4. ASSUME MarkCrash \/ MonCount \/ MonRestart \/ MonRestarted PROVE FALSE
    BY <2>4 DEF MarkCrash, MonCount, MonRestart, MonRestarted, Undying
  <2>5. QED
    BY <1>4, <2>1, <2>2, <2>3, <2>4 DEF MonitorStep
<1>5. QED
  BY <1>1, <1>2, <1>3, <1>4 DEF Next, vars, Tasks

(* A live process that a handle or a start holds is not killed before it   *)
(* has left their hands.                                                   *)
LEMMA UndyingStep ==
    ASSUME ~ProcessesMayExit, TypeOK, TypeOK', OneOwner, OneOwner', Undying, [Next]_vars
    PROVE  Undying'
<1>1. ASSUME NEW p \in Procs, procs[p] # None, procs[p].state = "alive",
             procs'[p] # None,
             \/ \E id \in Ids : ChildOf(id) = p /\ ChildOf(id)' # None
             \/ \E t \in Tasks : call[t].child = p /\ At(t, "commit")
      PROVE  procs'[p].state = "alive"
  <2>1. p # None
    BY ConstantsAssumption
  <2>2. ASSUME NEW i \in Ids, ChildOf(i) = p, ChildOf(i)' = None PROVE FALSE
    BY <1>1, <2>1, <2>2 DEF OneOwner
  <2>3. ASSUME NEW t \in Tasks, call[t].child = p, At(t, "wait") PROVE FALSE
    BY <1>1, <2>1, <2>3 DEF OneOwner, At
  <2>4. QED
    BY <1>1, <2>2, <2>3, AliveFate
<1>2. ASSUME NEW id \in Ids, ChildOf(id)' # None
      PROVE  procs'[ChildOf(id)'].state = "alive"
  <2>1. ChildOf(id)' \in Procs
    BY <1>2 DEF TypeOK, ChildOf, Handle
  <2>2. procs'[ChildOf(id)'] # None
    BY <2>1 DEF OneOwner, Held
  <2>3. CASE ChildOf(id)' = ChildOf(id)
    BY <1>1, <1>2, <2>1, <2>2, <2>3 DEF OneOwner, Held, Undying
  <2>4. ASSUME NEW t \in Tasks, StartCommit(t), ChildOf(id)' = call[t].child
        PROVE  procs'[ChildOf(id)'].state = "alive"
    BY <1>1, <2>1, <2>2, <2>4 DEF OneOwner, Held, Undying, StartCommit
  <2>5. QED
    BY <1>2, <2>3, <2>4, ChildFate
<1>3. ASSUME NEW t \in Tasks, At(t, "commit")'
      PROVE  procs'[call'[t].child].state = "alive"
  <2>1. CASE call'[t] # call[t]
    <3>1. call'[t].pc = "commit"
      BY <1>3 DEF At
    <3>2. procs'[call'[t].child] =
             [state |-> "alive", id |-> call[t].id, cfg |-> call[t].cfg, ready |-> FALSE]
      BY <2>1, <3>1, CommitFate
    <3>3. QED
      BY <3>2
  <2>2. CASE call'[t] = call[t]
    <3>1. call[t].child \in Procs /\ At(t, "commit")
      BY <1>3, <2>2, CallFacts DEF At
    <3>2. procs[call[t].child] # None /\ procs'[call[t].child] # None
      BY <2>2, <3>1 DEF OneOwner, Held
    <3>3. QED
      BY <1>1, <2>2, <3>1, <3>2 DEF Undying
  <2>3. QED
    BY <2>1, <2>2
<1>4. QED
  BY <1>2, <1>3, MonitorCalm DEF Undying

LEMMA UndyingInvariant == ~ProcessesMayExit => (Spec => []Undying)
<1> SUFFICES ASSUME ~ProcessesMayExit PROVE Spec => []Undying
  OBVIOUS
<1>1. Init => Undying
  BY DEF Init, Undying, ChildOf, At, Returned
<1>2. TypeOK /\ TypeOK' /\ OneOwner /\ OneOwner' /\ Undying /\ [Next]_vars => Undying'
  BY UndyingStep
<1>3. QED
  BY <1>1, <1>2, TypeCorrect, EveryProcessOwned, PTL DEF Spec

(* A process runs the configuration in the handle that holds it, and a     *)
(* start commits a process of the configuration it has read.               *)
RunsItsConfig ==
    /\ \A id \in Ids : ChildOf(id) # None => procs[ChildOf(id)].cfg = agents[id].cfg
    /\ \A t \in Tasks : At(t, "commit") => procs[call[t].child].cfg = call[t].cfg

(* A start under way will commit to a handle with the configuration that   *)
(* it has read.                                                            *)
StartsConfig(c, h) == c.pc \in {"spawn", "commit"} => h # None /\ c.cfg = h.cfg

LEMMA RunsItsConfigStep ==
    ASSUME TypeOK, TypeOK', OneOwner, OneOwner', RunsItsConfig, [Next]_vars,
           \A t \in Tasks : At(t, "commit") => StartsConfig(call[t], agents[call[t].id])
    PROVE  RunsItsConfig'
<1>1. ASSUME NEW id \in Ids, ChildOf(id)' # None
      PROVE  procs'[ChildOf(id)'].cfg = agents'[id].cfg
  <2>1. ChildOf(id)' \in Procs
    BY <1>1 DEF TypeOK, ChildOf, Handle
  <2>2. procs'[ChildOf(id)'] # None
    BY <2>1 DEF OneOwner, Held
  <2>3. CASE ChildOf(id)' = ChildOf(id)
    <3>1. procs[ChildOf(id)] # None
      BY <2>1, <2>3 DEF OneOwner, Held
    <3>2. QED
      BY <1>1, <2>1, <2>2, <2>3, <3>1, ChildFate, ProcessFate DEF RunsItsConfig
  <2>4. ASSUME NEW t \in Tasks, StartCommit(t), call[t].id = id,
               ChildOf(id)' = call[t].child
        PROVE  procs'[ChildOf(id)'].cfg = agents'[id].cfg
    <3>1. procs[call[t].child] # None /\ At(t, "commit")
      BY <2>1, <2>4 DEF OneOwner, Held, StartCommit
    <3>2. procs'[call[t].child].cfg = procs[call[t].child].cfg
      BY <2>1, <2>2, <2>4, <3>1, ProcessFate
    <3>3. procs[call[t].child].cfg = agents[id].cfg
      BY <2>4, <3>1 DEF RunsItsConfig, StartsConfig, At
    <3>4. QED
      BY <1>1, <2>4, <3>2, <3>3, ChildFate
  <2>5. QED
    BY <1>1, <2>3, <2>4, ChildFate
<1>2. ASSUME NEW t \in Tasks, At(t, "commit")'
      PROVE  procs'[call'[t].child].cfg = call'[t].cfg
  <2>1. CASE call'[t] # call[t]
    <3>1. call'[t].pc = "commit"
      BY <1>2 DEF At
    <3>2. procs'[call'[t].child] =
             [state |-> "alive", id |-> call[t].id, cfg |-> call[t].cfg, ready |-> FALSE]
      BY <2>1, <3>1, CommitFate
    <3>3. call'[t].cfg = call[t].cfg
      BY <2>1, <3>1, CommitFate
    <3>4. QED
      BY <3>2, <3>3
  <2>2. CASE call'[t] = call[t]
    <3>1. call[t].child \in Procs /\ At(t, "commit")
      BY <1>2, <2>2, CallFacts DEF At
    <3>2. procs[call[t].child] # None /\ procs'[call[t].child] # None
      BY <2>2, <3>1 DEF OneOwner, Held
    <3>3. QED
      BY <2>2, <3>1, <3>2, ProcessFate DEF RunsItsConfig
  <2>3. QED
    BY <2>1, <2>2
<1>3. QED
  BY <1>1, <1>2 DEF RunsItsConfig

-----------------------------------------------------------------------------
(* What a call does to the handle of its agent and to its own frame, as    *)
(* relations between the handles h and h2 and the frames c and d before    *)
(* and after a step.                                                       *)
Runs(h) == h # None /\ h.status = "Running"

KeepsConfig(h, h2) ==
    /\ h2 # None <=> h # None
    /\ h # None => h2.cfg = h.cfg

(* Only the table's entry of id and the frame of t may change.             *)
OnlyTouches(t, id) ==
    /\ \A j \in Ids : j # id => agents'[j] = agents[j]
    /\ \A u \in Tasks : u # t => call'[u] = call[u]

StartMoves(d, id, h2) ==
    \/ d.pc = "idle" /\ d.res = "err"
    \/ /\ d.pc = "spawn" /\ d.id = id /\ ~d.again
       /\ h2 # None /\ d.cfg = h2.cfg

StopMoves(d, id, again, h) ==
    IF Runs(h) THEN d.pc \in {"wait", "clear"} /\ d.id = id /\ (d.again <=> again)
               ELSE d.pc = "idle" /\ d.res = "err"

CallMoves(c, d, h, h2) ==
    \/ /\ c.pc = "spawn" /\ h2 = h
       /\ \/ d.pc = "commit" /\ d.id = c.id /\ d.cfg = c.cfg /\ d.again = c.again
          \/ d.pc = "idle" /\ d.res = "err"
    \/ c.pc = "commit" /\ d.pc = "idle" /\ (h # None => Runs(h2))
    \/ /\ c.pc \in {"wait", "kill"} /\ h2 = h
       /\ d.pc \in {"kill", "clear"} /\ d.id = c.id /\ d.again = c.again
    \/ c.pc = "clear" /\ ~c.again /\ d.pc = "idle" /\ d.res = "ok"
    \/ c.pc = "clear" /\ c.again /\ d.pc = "start"
    \/ c.pc = "stop" /\ d.pc \in {"idle", "wait", "clear"}
    \/ c.pc = "start" /\ StartMoves(d, c.id, h2)

LEMMA ReturnEffect ==
    ASSUME TypeOK, NEW t \in Tasks, NEW r, Return(t, r)
    PROVE  /\ call'[t] = Returned(r)
           /\ call'[t].pc = "idle" /\ call'[t].res = r
           /\ \A u \in Tasks : u # t => call'[u] = call[u]
BY DEF Return, Returned, TypeOK

LEMMA StartEffect ==
    ASSUME TypeOK, NEW t \in Tasks, NEW id \in Ids, StartSection(t, id)
    PROVE  /\ OnlyTouches(t, id) /\ KeepsConfig(agents[id], agents'[id])
           /\ StartMoves(call'[t], id, agents'[id])
           /\ call'[t].pc = "idle" => agents' = agents
<1>1. CASE Return(t, "err") /\ UNCHANGED agents
  BY <1>1, ReturnEffect DEF OnlyTouches, KeepsConfig, StartMoves
<1>2. CASE ~(Return(t, "err") /\ UNCHANGED agents)
  <2> DEFINE f == [Returned("ok") EXCEPT !.pc = "spawn", !.id = id,
                                         !.cfg = agents[id].cfg]
             h == [agents[id] EXCEPT !.status = "Starting"]
  <2>1. f.pc = "spawn" /\ f.id = id /\ ~f.again /\ f.cfg = agents[id].cfg
    BY DEF Returned
  <2>2. MayStart(id) /\ call' = [call EXCEPT ![t] = f]
        /\ agents' = [agents EXCEPT ![id] = h]
    BY <1>2 DEF StartSection
  <2>3. agents[id] # None /\ agents[id] \in Handle
    BY <2>2, AgentType DEF MayStart
  <2>4. h # None /\ h.cfg = agents[id].cfg
    <3>1. h \in Handle
      BY <2>3, HandleUpdates DEF Statuses
    <3>2. h.cfg = agents[id].cfg
      BY <2>3 DEF Handle
    <3>3. QED
      BY <3>1, <3>2, NoneAssumption
  <2> HIDE DEF f, h
  <2>5. QED
    BY <2>1, <2>2, <2>3, <2>4 DEF TypeOK, OnlyTouches, KeepsConfig, StartMoves
<1>3. QED
  BY <1>1, <1>2

LEMMA StopEffect ==
    ASSUME TypeOK, NEW t \in Tasks, NEW id \in Ids, NEW again \in BOOLEAN,
           StopSection(t, id, again)
    PROVE  /\ OnlyTouches(t, id) /\ KeepsConfig(agents[id], agents'[id])
           /\ StopMoves(call'[t], id, again, agents[id])
           /\ call'[t].pc = "idle" => agents' = agents
<1>0. IsRunning(id) <=> Runs(agents[id])
  BY DEF IsRunning, Runs
<1>1. CASE ~IsRunning(id)
  BY <1>0, <1>1, ReturnEffect DEF StopSection, OnlyTouches, KeepsConfig, StopMoves
<1>2. CASE IsRunning(id)
  <2> DEFINE f == [Returned("ok") EXCEPT
                     !.pc = IF ChildOf(id) = None THEN "clear" ELSE "wait",
                     !.id = id, !.child = ChildOf(id), !.again = again]
             h == [agents[id] EXCEPT !.status = "Stopping", !.child = None]
  <2>1. f.pc \in {"wait", "clear"} /\ f.id = id /\ f.again = again
    BY DEF Returned
  <2>2. agents[id] # None /\ agents[id] \in Handle
    BY <1>0, <1>2, AgentType DEF Runs
  <2>3. call' = [call EXCEPT ![t] = f] /\ agents' = [agents EXCEPT ![id] = h]
    BY <1>2, <2>2 DEF StopSection, TypeOK, Handle
  <2>4. h # None /\ h.cfg = agents[id].cfg
    <3>1. h \in Handle
      BY <2>2, HandleUpdates DEF Statuses
    <3>2. h.cfg = agents[id].cfg
      BY <2>2 DEF Handle
    <3>3. QED
      BY <3>1, <3>2, NoneAssumption
  <2> HIDE DEF f, h
  <2>5. QED
    BY <1>0, <1>2, <2>1, <2>2, <2>3, <2>4 DEF TypeOK, OnlyTouches, KeepsConfig, StopMoves
<1>3. QED
  BY <1>1, <1>2

LEMMA CallEffect ==
    ASSUME TypeOK, NEW t \in Tasks, CallStep(t)
    PROVE  /\ call[t].id \in Ids
           /\ OnlyTouches(t, call[t].id)
           /\ KeepsConfig(agents[call[t].id], agents'[call[t].id])
           /\ CallMoves(call[t], call'[t], agents[call[t].id], agents'[call[t].id])
<1> DEFINE id == call[t].id
           Goal == /\ OnlyTouches(t, id) /\ KeepsConfig(agents[id], agents'[id])
                   /\ CallMoves(call[t], call'[t], agents[id], agents'[id])
<1>0. call[t] \in Frame /\ id \in Ids
  BY CallFacts
  DEF CallStep, Spawn, StartCommit, StopReaped, StopTimeout, StopCommit, RestartStop,
      RestartStart, At
<1>1. CASE Spawn(t)
  <2>1. ASSUME NEW p \in Procs, call' = [call EXCEPT ![t].pc = "commit", ![t].child = p]
        PROVE  Goal
    <3> DEFINE f == [call[t] EXCEPT !.pc = "commit", !.child = p]
    <3>1. call' = [call EXCEPT ![t] = f]
      BY <2>1 DEF TypeOK
    <3>2. f.pc = "commit" /\ f.id = call[t].id /\ f.cfg = call[t].cfg
          /\ f.again = call[t].again
      BY <1>0 DEF Frame
    <3> HIDE DEF f
    <3>3. QED
      BY <1>1, <3>1, <3>2 DEF Spawn, At, TypeOK, OnlyTouches, KeepsConfig, CallMoves
  <2>2. ASSUME Return(t, "err") PROVE Goal
    BY <1>1, <2>2, ReturnEffect DEF Spawn, At, OnlyTouches, KeepsConfig, CallMoves
  <2>3. QED
    BY <1>0, <1>1, <2>1, <2>2 DEF Spawn
<1>2. CASE StartCommit(t)
  <2>1. call[t].child \in Procs /\ Return(t, "ok") /\ call[t].pc = "commit"
    BY <1>2, CallFacts DEF StartCommit, At
  <2>2. CASE agents[id] = None
    BY <1>0, <1>2, <2>1, <2>2, ReturnEffect
    DEF StartCommit, OnlyTouches, KeepsConfig, CallMoves
  <2>3. CASE agents[id] # None
    <3> DEFINE h == Started(agents[id], call[t].child)
    <3>1. agents' = [agents EXCEPT ![id] = h] /\ agents[id] \in Handle
      BY <1>0, <1>2, <2>3, AgentType DEF StartCommit
    <3>2. h # None
      BY <2>1, <3>1, HandleUpdates, NoneAssumption
    <3>3. h.cfg = agents[id].cfg /\ h.status = "Running"
      BY <3>1 DEF Started, Handle
    <3> HIDE DEF h
    <3>4. QED
      BY <1>0, <2>1, <2>3, <3>1, <3>2, <3>3, ReturnEffect
      DEF TypeOK, OnlyTouches, KeepsConfig, CallMoves, Runs
  <2>4. QED
    BY <2>2, <2>3
<1>3. CASE StopReaped(t) \/ StopTimeout(t)
  <2> DEFINE f == call'[t]
  <2>1. /\ f.pc \in {"kill", "clear"} /\ f.id = call[t].id /\ f.again = call[t].again
        /\ \A u \in Tasks : u # t => call'[u] = call[u]
    BY <1>0, <1>3 DEF StopReaped, StopTimeout, TypeOK, Frame
  <2>2. call[t].pc \in {"wait", "kill"} /\ agents' = agents
    BY <1>3 DEF StopReaped, StopTimeout, At
  <2>3. QED
    BY <1>0, <2>1, <2>2 DEF OnlyTouches, KeepsConfig, CallMoves
<1>4. CASE StopCommit(t)
  <2>1. /\ \A j \in Ids : j # id => agents'[j] = agents[j]
        /\ KeepsConfig(agents[id], agents'[id])
    <3>1. CASE agents[id] = None
      BY <1>4, <3>1 DEF StopCommit, KeepsConfig
    <3>2. CASE agents[id] # None
      <4>1. /\ agents' = [agents EXCEPT ![id] = Stopped(agents[id])]
            /\ agents[id] \in Handle
        BY <1>0, <1>4, <3>2, AgentType DEF StopCommit
      <4>2. Stopped(agents[id]) # None /\ Stopped(agents[id]).cfg = agents[id].cfg
        BY <4>1, HandleUpdates, NoneAssumption DEF Stopped, Handle
      <4>3. QED
        BY <1>0, <3>2, <4>1, <4>2 DEF TypeOK, KeepsConfig
    <3>3. QED
      BY <3>1, <3>2
  <2>2. CASE call[t].again
    <3>1. call'[t].pc = "start" /\ \A u \in Tasks : u # t => call'[u] = call[u]
      BY <1>0, <1>4, <2>2 DEF StopCommit, TypeOK, Frame
    <3>2. QED
      BY <1>0, <1>4, <2>1, <2>2, <3>1 DEF StopCommit, At, OnlyTouches, CallMoves
  <2>3. CASE ~call[t].again
    BY <1>0, <1>4, <2>1, <2>3, ReturnEffect DEF StopCommit, At, OnlyTouches, CallMoves
  <2>4. QED
    BY <2>2, <2>3
<1>5. CASE RestartStop(t)
  <2>1. StopMoves(call'[t], id, TRUE, agents[id]) => call'[t].pc \in {"idle", "wait", "clear"}
    BY DEF StopMoves
  <2>2. QED
    BY <1>0, <1>5, <2>1, StopEffect DEF RestartStop, At, CallMoves
<1>6. CASE RestartStart(t)
  BY <1>0, <1>6, StartEffect DEF RestartStart, At, CallMoves
<1>7. QED
  BY <1>0, <1>1, <1>2, <1>3, <1>4, <1>5, <1>6 DEF CallStep

(* A request on agent id: it is either answered at once or a call on id.   *)
LEMMA ApiEffect ==
    ASSUME TypeOK, NEW t \in Tasks, NEW id \in Ids,
           ApiStart(t, id) \/ ApiStop(t, id) \/ ApiRestart(t, id)
    PROVE  /\ OnlyTouches(t, id) /\ KeepsConfig(agents[id], agents'[id])
           /\ StartsConfig(call'[t], agents'[id])
           /\ IF call'[t].pc = "idle" THEN agents' = agents ELSE call'[t].id = id
<1>1. CASE ApiStart(t, id)
  BY <1>1, StartEffect DEF ApiStart, StartMoves, StartsConfig
<1>2. CASE ApiStop(t, id)
  BY <1>2, StopEffect DEF ApiStop, StopMoves, StartsConfig
<1>3. CASE ApiRestart(t, id)
  <2> DEFINE f == [Returned("ok") EXCEPT
                     !.pc = IF IsRunning(id) THEN "stop" ELSE "start", !.id = id]
  <2>1. f.pc \in {"stop", "start"} /\ f.id = id
    BY DEF Returned
  <2>2. call' = [call EXCEPT ![t] = f] /\ agents' = agents
    BY <1>3 DEF ApiRestart
  <2> HIDE DEF f
  <2>3. QED
    BY <2>1, <2>2 DEF TypeOK, OnlyTouches, KeepsConfig, StartsConfig
<1>4. QED
  BY <1>1, <1>2, <1>3

(* The monitor, where it meets no crash, and the processes change no call  *)
(* and of a handle at most its health.                                     *)
LEMMA BackgroundEffect ==
    ASSUME TypeOK, Undying, MonitorStep \/ ProcessStep
    PROVE  /\ call' = call
           /\ \A id \in Ids : /\ KeepsConfig(agents[id], agents'[id])
                              /\ Runs(agents[id]) => Runs(agents'[id])
<1>1. CASE UNCHANGED <<agents, call>>
  BY <1>1 DEF KeepsConfig
<1>2. CASE MonUpdate
  <2>1. mon.id \in Ids /\ mon.good \in BOOLEAN /\ call' = call
    BY <1>2 DEF MonUpdate, TypeOK, MonitorState
  <2>2. ASSUME NEW id \in Ids
        PROVE  /\ KeepsConfig(agents[id], agents'[id])
               /\ Runs(agents[id]) => Runs(agents'[id])
    <3>1. CASE id # mon.id \/ agents[id] = None
      BY <1>2, <3>1 DEF MonUpdate, TypeOK, KeepsConfig
    <3>2. CASE id = mon.id /\ agents[id] # None
      <4>1. agents[id] \in Handle /\ agents'[id] = Probed(agents[id], mon.good)
        BY <1>2, <3>2, AgentType DEF MonUpdate, TypeOK
      <4>2. Probed(agents[id], mon.good) # None
        BY <2>1, <4>1, HandleUpdates, NoneAssumption
      <4>3. /\ Probed(agents[id], mon.good).cfg = agents[id].cfg
            /\ Probed(agents[id], mon.good).status = agents[id].status
        BY <4>1 DEF Probed, Handle
      <4>4. QED
        BY <3>2, <4>1, <4>2, <4>3 DEF KeepsConfig, Runs
    <3>3. QED
      BY <3>1, <3>2
  <2>3. QED
    BY <2>1, <2>2
<1>3. CASE MonitorStep /\ ~MonUpdate
  BY <1>1, <1>3
  DEF MonitorStep, MonTick, MarkCrash, MonCount, MonRestart, MonRestarted,
      MonNextPhase, MonProbe, MonCheck, MonSelect, Undying
<1>4. CASE ProcessStep
  BY <1>1, <1>4 DEF ProcessStep, ProcessExits, KilledExits, BecomesReady
<1>5. QED
  BY <1>2, <1>3, <1>4

(* A registration replaces or removes one handle, and no call notices.     *)
LEMMA RegisterEffect ==
    ASSUME TypeOK, NEW t \in Tasks, NEW id \in Ids, NEW c \in Configs, Register(t, id, c)
    PROVE  /\ OnlyTouches(t, id) /\ call' = call
           /\ agents'[id] # None /\ agents'[id].cfg = c
BY NewHandleType, NoneAssumption DEF Register, SetAgent, NewHandle, OnlyTouches, TypeOK

LEMMA UnregisterEffect ==
    ASSUME TypeOK, NEW t \in Tasks, NEW id \in Ids, Unregister(t, id)
    PROVE  OnlyTouches(t, id) /\ call' = call /\ agents'[id] = None
BY DEF Unregister, SetAgent, OnlyTouches, TypeOK
=============================================================================
