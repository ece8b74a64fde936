-------------------------- MODULE AppManagerProofs --------------------------
(***************************************************************************)
(* Theorems about AppManager on top of StoreCatalogue, for any             *)
(* applications, requests and processes.                                   *)
(***************************************************************************)
EXTENDS AppManager, StoreProofs

(* The steps of the manager; storevars belongs to the catalogue.           *)
LEMMA StepImplementsStore == [RuntimeNext]_runtimevars => [StoreNext]_storevars
<1> SUFFICES ASSUME [RuntimeNext]_runtimevars PROVE [StoreNext]_storevars
  OBVIOUS
<1>1. CASE UNCHANGED runtimevars
  BY <1>1 DEF runtimevars, storevars
<1>2. ASSUME NEW t \in Callers, NEW a \in Apps,
             AcceptInstall(t, a) \/ AcceptStart(t, a) \/ AcceptStop(t, a)
      PROVE  UNCHANGED storevars
  BY <1>2 DEF AcceptInstall, AcceptStart, AcceptStop, Accept
<1>3. ASSUME NEW t \in Callers, AppStep(t) \/ DropAppRequest(t)
      PROVE  UNCHANGED storevars
  BY <1>3 DEF AppStep, DropAppRequest, Mkdir, DownloadFails, CreateBinary, WriteBinary,
              Chmod, SpawnFails, SpawnApp, Insert, Kill, Reap
<1>4. ASSUME NEW p \in Procs, AppExits(p) PROVE UNCHANGED storevars
  BY <1>4 DEF AppExits
<1>5. CASE Restart
  BY <1>5 DEF Restart, StoreNext
<1>6. QED
  BY <1>1, <1>2, <1>3, <1>4, <1>5 DEF RuntimeNext, StoreNext

(* The runtime is an implementation of the store catalogue: the requests   *)
(* of the manager only read it.                                            *)
THEOREM RuntimeImplementsStore == RuntimeSpec => StoreSpec
<1>1. RuntimeInit => StoreInit
  BY DEF RuntimeInit
<1>2. QED
  BY <1>1, StepImplementsStore, PTL DEF RuntimeSpec, StoreSpec

-----------------------------------------------------------------------------
(* Every process in the table or in a request is there, is of the          *)
(* application it stands for, and is there once.                           *)
HeldOnce ==
    /\ \A a \in Apps : table[a] # None =>
          procs[table[a]] # None /\ procs[table[a]].app = a
    /\ \A t \in Callers : req[t].child # None =>
          /\ procs[req[t].child] # None /\ procs[req[t].child].app = req[t].app
          /\ \A a \in Apps : table[a] # req[t].child
          /\ \A u \in Callers \ {t} : req[u].child # req[t].child

(* What is not complete is not executable, and a request that makes a      *)
(* binary executable has completed it.                                     *)
BinaryInv ==
    /\ \A a \in Apps :
          /\ binary[a].content = "absent" => ~binary[a].exec
          /\ binary[a].content = "partial" /\ binary[a].exec => a \in rewritten
    /\ \A t \in Callers :
          /\ InPC(t, "write") \/ InPC(t, "chmod") => binary[req[t].app].content # "absent"
          /\ InPC(t, "chmod") => \/ binary[req[t].app].content = "whole"
                                 \/ req[t].app \in rewritten

RuntimeInv == AppTypeOK /\ HeldOnce /\ NoStrayProcess /\ BinaryInv

-----------------------------------------------------------------------------
LEMMA AppTypes ==
    /\ NoRequest \in Request /\ NoRequest.pc = "idle" /\ NoRequest.child = None
    /\ None \notin Procs /\ None \notin Apps /\ None \notin Process
BY AppManagerAssumption, NoProcessAssumption DEF NoRequest, Request

(* A request's step to another position, or to its end.                    *)
LEMMA Moves ==
    ASSUME AppTypeOK, NEW t \in Callers
    PROVE  /\ Answer(t) => /\ req' \in [Callers -> Request]
                           /\ req'[t] = NoRequest
                           /\ \A u \in Callers \ {t} : req'[u] = req[u]
           /\ \A pc \in {"download", "write", "chmod"} :
                 Goto(t, pc) => /\ req' \in [Callers -> Request]
                                /\ req'[t].pc = pc /\ req'[t].app = req[t].app
                                /\ req'[t].child = req[t].child
                                /\ \A u \in Callers \ {t} : req'[u] = req[u]
<1>1. Answer(t) => /\ req' \in [Callers -> Request]
                   /\ req'[t] = NoRequest
                   /\ \A u \in Callers \ {t} : req'[u] = req[u]
  BY AppTypes DEF Answer, AppTypeOK
<1>2. ASSUME NEW pc \in {"download", "write", "chmod"}, Goto(t, pc)
      PROVE  /\ req' \in [Callers -> Request]
             /\ req'[t].pc = pc /\ req'[t].app = req[t].app
             /\ req'[t].child = req[t].child
             /\ \A u \in Callers \ {t} : req'[u] = req[u]
  <2>1. req[t] \in Request
    BY DEF AppTypeOK
  <2>2. [req[t] EXCEPT !.pc = pc] \in Request
    BY <2>1 DEF Request
  <2>3. req' = [req EXCEPT ![t] = [req[t] EXCEPT !.pc = pc]]
    BY <1>2 DEF Goto
  <2>4. QED
    BY <2>1, <2>2, <2>3 DEF AppTypeOK, Request
<1>3. QED
  BY <1>1, <1>2

(* Releasing a process changes none that runs, and none but it.            *)
LEMMA ReleasedFacts ==
    ASSUME procs \in [Procs -> Process \cup {None}],
           NEW p \in Procs, procs' = Released(p, procs)
    PROVE  /\ procs' \in [Procs -> Process \cup {None}]
           /\ \A q \in Procs : q # p => procs'[q] = procs[q]
           /\ procs'[p] \in {procs[p], None}
           /\ \A q \in Procs : Live(q)' => Live(q) /\ procs'[q] = procs[q]
           /\ \A q \in Procs : Live(q) => Live(q)'
BY NoProcessAssumption DEF Released, Live, Process

(* The position, the application and the child of a request.               *)
LEMMA RequestFacts ==
    ASSUME AppTypeOK, NEW t \in Callers
    PROVE  /\ req[t] \in Request
           /\ ~InPC(t, "idle") => req[t].app \in Apps
           /\ InPC(t, "insert") \/ InPC(t, "reap") => req[t].child \in Procs
           /\ req[t].child # None => /\ req[t].child \in Procs
                                     /\ InPC(t, "insert") \/ InPC(t, "reap")
<1>0. req[t] \in Request
  BY DEF AppTypeOK
<1>1. /\ req[t].pc # "idle" => req[t].app \in Apps
      /\ req[t].pc \in {"insert", "reap"} <=> req[t].child # None
  BY DEF AppTypeOK
<1>2. req[t].child \in Procs \cup {None}
  BY <1>0 DEF Request
<1>3. QED
  BY <1>0, <1>1, <1>2 DEF InPC

(* What every step but Insert, Kill, Reap, a dropped request, an exit and  *)
(* a restart has in common: no Child changes hands.                        *)
Steady(t) ==
    /\ table' = table /\ doubled' = doubled
    /\ req' \in [Callers -> Request]
    /\ \A u \in Callers \ {t} : req'[u] = req[u]
    /\ req'[t].pc # "idle" => req'[t].app \in Apps
    /\ req'[t].pc \in {"insert", "reap"} <=> req'[t].child # None

LEMMA SteadySteps ==
    ASSUME AppTypeOK, NEW t \in Callers,
           \/ \E a \in Apps, pc \in {"mkdir", "spawn", "stop"} : Accept(t, a, pc)
           \/ Mkdir(t) \/ DownloadFails(t) \/ CreateBinary(t) \/ WriteBinary(t)
           \/ Chmod(t) \/ SpawnFails(t)
    PROVE  Steady(t) /\ procs' = procs /\ req'[t].child = None
<1>1. CASE \E a \in Apps, pc \in {"mkdir", "spawn", "stop"} : Accept(t, a, pc)
  <2>1. PICK a \in Apps, pc \in {"mkdir", "spawn", "stop"} : Accept(t, a, pc)
    BY <1>1
  <2> DEFINE f == [NoRequest EXCEPT !.pc = pc, !.app = a]
  <2>2. f \in Request /\ f.pc = pc /\ f.app = a /\ f.child = None
    BY AppTypes DEF Request, NoRequest
  <2>3. QED
    BY <2>1, <2>2 DEF Accept, Steady, AppTypeOK
<1>2. ASSUME ~InPC(t, "idle"), ~InPC(t, "insert"), ~InPC(t, "reap"),
             \/ Answer(t)
             \/ \E pc \in {"download", "write", "chmod"} : Goto(t, pc),
             table' = table, doubled' = doubled
      PROVE  Steady(t) /\ req'[t].child = None
  <2>1. req[t].child = None /\ req[t].app \in Apps
    BY <1>2, RequestFacts
  <2>2. CASE Answer(t)
    BY <1>2, <2>2, Moves, AppTypes DEF Steady
  <2>3. CASE \E pc \in {"download", "write", "chmod"} : Goto(t, pc)
    BY <1>2, <2>1, <2>3, Moves DEF Steady
  <2>4. QED
    BY <1>2, <2>2, <2>3
<1>3. QED
  BY <1>1, <1>2
  DEF Mkdir, DownloadFails, CreateBinary, WriteBinary, Chmod, SpawnFails, InPC

LEMMA BinaryTypeStep ==
    ASSUME AppTypeOK, NEW t \in Callers, CreateBinary(t) \/ WriteBinary(t) \/ Chmod(t)
    PROVE  binary' \in [Apps -> Binary] /\ rewritten' \subseteq Apps
<1>1. req[t].app \in Apps
  BY RequestFacts DEF CreateBinary, WriteBinary, Chmod, InPC
<1>2. \A c \in {"partial", "whole"} : /\ [binary[req[t].app] EXCEPT !.content = c] \in Binary
                                      /\ [binary[req[t].app] EXCEPT !.exec = TRUE] \in Binary
  BY <1>1 DEF AppTypeOK, Binary
<1>3. QED
  BY <1>1, <1>2 DEF CreateBinary, WriteBinary, Chmod, AppTypeOK

LEMMA AppTypeStep ==
    ASSUME AppTypeOK, HeldOnce, [RuntimeNext]_runtimevars
    PROVE  AppTypeOK'
<1>1. StoreTypeOK'
  BY StepImplementsStore, StoreTypeStep DEF AppTypeOK
<1>2. CASE UNCHANGED appvars
  BY <1>1, <1>2 DEF AppTypeOK, appvars
<1>3. ASSUME NEW t \in Callers,
             \/ \E a \in Apps, pc \in {"mkdir", "spawn", "stop"} : Accept(t, a, pc)
             \/ Mkdir(t) \/ DownloadFails(t) \/ CreateBinary(t) \/ WriteBinary(t)
             \/ Chmod(t) \/ SpawnFails(t)
      PROVE  AppTypeOK'
  <2>1. binary' \in [Apps -> Binary] /\ rewritten' \subseteq Apps
    BY <1>3, BinaryTypeStep DEF Accept, Mkdir, DownloadFails, SpawnFails, AppTypeOK
  <2>2. QED
    BY <1>1, <1>3, <2>1, SteadySteps DEF AppTypeOK, Steady
<1>4. ASSUME NEW t \in Callers, SpawnApp(t) PROVE AppTypeOK'
  <2>1. req[t] \in Request /\ req[t].app \in Apps
    BY <1>4, RequestFacts DEF SpawnApp, InPC
  <2>2. PICK p \in Procs :
           /\ procs' = [procs EXCEPT ![p] = [app |-> req[t].app, state |-> "alive"]]
           /\ req' = [req EXCEPT ![t].pc = "insert", ![t].child = p]
    BY <1>4 DEF SpawnApp
  <2>3. /\ [req[t] EXCEPT !.pc = "insert", !.child = p] \in Request
        /\ [app |-> req[t].app, state |-> "alive"] \in Process
    BY <2>1 DEF Request, Process
  <2>4. req' = [req EXCEPT ![t] = [req[t] EXCEPT !.pc = "insert", !.child = p]]
    BY <2>1, <2>2 DEF AppTypeOK
  <2>5. /\ req' \in [Callers -> Request] /\ req'[t].child = p /\ req'[t].pc = "insert"
        /\ req'[t].app = req[t].app /\ \A u \in Callers \ {t} : req'[u] = req[u]
    BY <2>1, <2>3, <2>4 DEF AppTypeOK, Request
  <2>6. QED
    BY <1>1, <1>4, <2>1, <2>2, <2>3, <2>5, AppTypes DEF SpawnApp, AppTypeOK
<1>5. ASSUME NEW t \in Callers, Insert(t) PROVE AppTypeOK'
  <2>1. req[t].app \in Apps /\ req[t].child \in Procs
    BY <1>5, RequestFacts DEF Insert, InPC
  <2>2. procs' \in [Procs -> Process \cup {None}]
    BY <1>5, <2>1, ReleasedFacts DEF Insert, AppTypeOK
  <2>3. QED
    BY <1>1, <1>5, <2>1, <2>2, Moves, AppTypes DEF Insert, AppTypeOK
<1>6. ASSUME NEW t \in Callers, Kill(t) PROVE AppTypeOK'
  <2> DEFINE p == table[req[t].app]
  <2>1. req[t] \in Request /\ req[t].app \in Apps /\ p \in Procs \cup {None}
    BY <1>6, RequestFacts DEF Kill, InPC, AppTypeOK
  <2>2. CASE p = None
    BY <1>1, <1>6, <2>1, <2>2, Moves, AppTypes DEF Kill, AppTypeOK
  <2>3. CASE p # None
    <3>1. p \in Procs /\ procs[p] \in Process
      BY <2>1, <2>3 DEF HeldOnce, AppTypeOK
    <3>2. procs' \in [Procs -> Process \cup {None}]
      <4>1. \E st \in {"alive", "killed", "exited"} :
               procs' = [procs EXCEPT ![p] = [procs[p] EXCEPT !.state = st]]
        BY <1>6, <2>3, <3>1 DEF Kill, Process, AppTypeOK
      <4>2. \A st \in {"alive", "killed", "exited"} :
               [procs[p] EXCEPT !.state = st] \in Process
        BY <3>1 DEF Process
      <4>3. QED
        BY <3>1, <4>1, <4>2 DEF AppTypeOK
    <3>3. /\ req' = [req EXCEPT ![t] = [req[t] EXCEPT !.pc = "reap", !.child = p]]
          /\ [req[t] EXCEPT !.pc = "reap", !.child = p] \in Request
      BY <1>6, <2>1, <2>3, <3>1 DEF Kill, AppTypeOK, Request
    <3>4. /\ req' \in [Callers -> Request] /\ req'[t].child = p /\ req'[t].pc = "reap"
          /\ req'[t].app = req[t].app /\ \A u \in Callers \ {t} : req'[u] = req[u]
      BY <2>1, <3>3 DEF AppTypeOK, Request
    <3>5. QED
      BY <1>1, <1>6, <2>1, <2>3, <3>1, <3>2, <3>4, AppTypes DEF Kill, AppTypeOK
  <2>4. QED
    BY <2>2, <2>3
<1>7. ASSUME NEW t \in Callers, Reap(t) PROVE AppTypeOK'
  <2>1. procs' \in [Procs -> Process \cup {None}]
    BY <1>7, RequestFacts, ReleasedFacts DEF Reap, AppTypeOK
  <2>2. QED
    BY <1>1, <1>7, <2>1, Moves, AppTypes DEF Reap, AppTypeOK
<1>8. ASSUME NEW t \in Callers, DropAppRequest(t) PROVE AppTypeOK'
  <2>1. req[t] \in Request /\ req[t].app \in Apps
    BY <1>8, RequestFacts DEF DropAppRequest, InPC
  <2>2. procs' \in [Procs -> Process \cup {None}]
    BY <1>8, RequestFacts, ReleasedFacts DEF DropAppRequest, AppTypeOK
  <2>3. CASE Answer(t)
    BY <1>1, <1>8, <2>1, <2>2, <2>3, Moves, AppTypes DEF DropAppRequest, AppTypeOK
  <2>4. CASE req' = [req EXCEPT ![t].gone = TRUE]
    <3>1. /\ req' = [req EXCEPT ![t] = [req[t] EXCEPT !.gone = TRUE]]
          /\ [req[t] EXCEPT !.gone = TRUE] \in Request
      BY <2>1, <2>4 DEF AppTypeOK, Request
    <3>2. /\ req' \in [Callers -> Request] /\ req'[t].child = req[t].child
          /\ req'[t].pc = req[t].pc /\ req'[t].app = req[t].app
          /\ \A u \in Callers \ {t} : req'[u] = req[u]
      BY <2>1, <3>1 DEF AppTypeOK, Request
    <3>3. QED
      BY <1>1, <1>8, <2>1, <2>2, <3>2 DEF DropAppRequest, AppTypeOK
  <2>5. QED
    BY <1>8, <2>3, <2>4 DEF DropAppRequest
<1>9. ASSUME NEW p \in Procs, AppExits(p) PROVE AppTypeOK'
  <2>1. procs[p] \in Process /\ [procs[p] EXCEPT !.state = "exited"] \in Process
    BY <1>9 DEF AppExits, AppTypeOK, Process
  <2>2. QED
    BY <1>1, <1>9, <2>1 DEF AppExits, AppTypeOK
<1>10. CASE Restart
  BY <1>1, <1>10, AppTypes DEF Restart, AppTypeOK
<1>11. CASE UNCHANGED runtimevars
  BY <1>2, <1>11 DEF runtimevars, appvars
<1>12. QED
  BY <1>2, <1>3, <1>4, <1>5, <1>6, <1>7, <1>8, <1>9, <1>10, <1>11
  DEF RuntimeNext, AppStep, AcceptInstall, AcceptStart, AcceptStop

(* Type correctness of the catalogue, the binaries, the process table and  *)
(* the requests follows together with HeldOnce.                            *)
LEMMA HeldSteady ==
    ASSUME AppTypeOK, HeldOnce, table' = table, doubled' = doubled,
           NEW t \in Callers, req'[t].child = None,
           \A u \in Callers \ {t} : req'[u] = req[u], procs' = procs
    PROVE  HeldOnce'
BY DEF HeldOnce

LEMMA HeldStep ==
    ASSUME AppTypeOK, AppTypeOK', HeldOnce, [RuntimeNext]_runtimevars
    PROVE  HeldOnce'
<1>1. CASE UNCHANGED <<table, procs, req>>
  BY <1>1 DEF HeldOnce
<1>2. ASSUME NEW t \in Callers,
             \/ \E a \in Apps, pc \in {"mkdir", "spawn", "stop"} : Accept(t, a, pc)
             \/ Mkdir(t) \/ DownloadFails(t) \/ CreateBinary(t) \/ WriteBinary(t)
             \/ Chmod(t) \/ SpawnFails(t)
      PROVE  HeldOnce'
  BY <1>2, SteadySteps, HeldSteady DEF Steady
<1>3. ASSUME NEW t \in Callers, SpawnApp(t) PROVE HeldOnce'
  <2>1. req[t] \in Request /\ req[t].child = None
    BY <1>3, RequestFacts DEF SpawnApp, InPC
  <2>2. PICK p \in Procs :
           /\ procs[p] = None
           /\ procs' = [procs EXCEPT ![p] = [app |-> req[t].app, state |-> "alive"]]
           /\ req' = [req EXCEPT ![t].pc = "insert", ![t].child = p]
    BY <1>3 DEF SpawnApp
  <2>3. /\ req'[t].child = p /\ req'[t].app = req[t].app
        /\ \A u \in Callers \ {t} : req'[u] = req[u]
    BY <2>1, <2>2 DEF AppTypeOK, Request
  <2>4. /\ procs'[p] # None /\ procs'[p].app = req[t].app
        /\ \A q \in Procs : q # p => procs'[q] = procs[q]
    BY <2>2, AppTypes DEF AppTypeOK, Process
  <2>5. /\ \A a \in Apps : table[a] # p /\ table'[a] = table[a]
        /\ \A u \in Callers : req[u].child # p
    BY <1>3, <2>2, AppTypes DEF SpawnApp, HeldOnce
  <2>6. /\ \A a \in Apps : table[a] # None => table[a] \in Procs
        /\ \A u \in Callers : req[u].child # None => req[u].child \in Procs
    BY RequestFacts DEF AppTypeOK
  <2>7. QED
    BY <2>3, <2>4, <2>5, <2>6 DEF HeldOnce
<1>4. ASSUME NEW t \in Callers, Insert(t) PROVE HeldOnce'
  <2> DEFINE a == req[t].app
             p == req[t].child
             q == table[a]
  <2>1. a \in Apps /\ p \in Procs /\ p # None /\ q \in Procs \cup {None} /\ q # p
    BY <1>4, RequestFacts, AppTypes DEF Insert, InPC, AppTypeOK, HeldOnce
  <2>2. table' = [table EXCEPT ![a] = p] /\ req'[t].child = None
    BY <1>4, Moves, AppTypes DEF Insert
  <2>3. \A u \in Callers \ {t} : req'[u] = req[u]
    BY <1>4, Moves DEF Insert
  <2>4. \A o \in Procs : o # q => procs'[o] = procs[o]
    <3>1. CASE q = None
      BY <1>4, <3>1 DEF Insert
    <3>2. CASE q # None
      BY <1>4, <2>1, <3>2, ReleasedFacts DEF Insert, AppTypeOK
    <3>3. QED
      BY <3>1, <3>2
  <2>5. \A b \in Apps : b # a /\ table[b] # None => table[b] \in Procs /\ table[b] # q
    BY <2>1 DEF HeldOnce, AppTypeOK
  <2>6. \A u \in Callers \ {t} : req[u].child # None =>
           req[u].child \in Procs /\ req[u].child # q /\ req[u].child # p
    BY <2>1, RequestFacts DEF HeldOnce
  <2>7. \A b \in Apps : table'[b] = IF b = a THEN p ELSE table[b]
    BY <2>1, <2>2 DEF AppTypeOK
  <2>8. procs[p] # None /\ procs[p].app = a
    BY <2>1 DEF HeldOnce
  <2> HIDE DEF a, p, q
  <2>9. QED
    BY <2>1, <2>2, <2>3, <2>4, <2>5, <2>6, <2>7, <2>8 DEF HeldOnce
<1>5. ASSUME NEW t \in Callers, Kill(t) PROVE HeldOnce'
  <2> DEFINE a == req[t].app
             p == table[a]
  <2>1. req[t] \in Request /\ a \in Apps /\ p \in Procs \cup {None} /\ req[t].child = None
    BY <1>5, RequestFacts DEF Kill, InPC, AppTypeOK
  <2>2. \A b \in Apps : table'[b] = IF b = a THEN None ELSE table[b]
    BY <1>5, <2>1 DEF Kill, AppTypeOK
  <2>3. CASE p = None
    BY <1>5, <2>2, <2>3, Moves, AppTypes DEF Kill, HeldOnce
  <2>4. CASE p # None
    <3>1. /\ p \in Procs /\ procs[p] \in Process /\ procs[p].app = a
      BY <2>1, <2>4 DEF HeldOnce, AppTypeOK
    <3>2. /\ req'[t].child = p /\ req'[t].app = a
          /\ \A u \in Callers \ {t} : req'[u] = req[u]
      BY <1>5, <2>1, <2>4 DEF Kill, AppTypeOK, Request
    <3>3. /\ procs'[p] # None /\ procs'[p].app = a
          /\ \A o \in Procs : o # p => procs'[o] = procs[o]
      BY <1>5, <2>4, <3>1, AppTypes DEF Kill, AppTypeOK, Process
    <3>4. \A u \in Callers : req[u].child # p
      BY <2>1, <2>4 DEF HeldOnce
    <3>5. \A b \in Apps : table[b] = p => b = a
      BY <2>1, <2>4 DEF HeldOnce
    <3>6. /\ \A b \in Apps : table[b] # None => table[b] \in Procs
          /\ \A u \in Callers : req[u].child # None => req[u].child \in Procs
      BY RequestFacts DEF AppTypeOK
    <3> HIDE DEF p, a
    <3>7. QED
      BY <2>1, <2>2, <2>4, <3>1, <3>2, <3>3, <3>4, <3>5, <3>6 DEF HeldOnce
  <2>5. QED
    BY <2>3, <2>4
<1>6. ASSUME NEW t \in Callers, Answer(t), table' = table,
             procs' = IF req[t].child = None THEN procs ELSE Released(req[t].child, procs)
      PROVE  HeldOnce'
  <2> DEFINE p == req[t].child
  <2>1. \A o \in Procs : o # p => procs'[o] = procs[o]
    BY <1>6, RequestFacts, ReleasedFacts DEF AppTypeOK
  <2>2. req'[t].child = None /\ \A u \in Callers \ {t} : req'[u] = req[u]
    BY <1>6, Moves, AppTypes
  <2>3. /\ \A b \in Apps : table[b] # None => table[b] \in Procs /\ table[b] # p
        /\ \A u \in Callers \ {t} : req[u].child # None =>
              req[u].child \in Procs /\ req[u].child # p
    BY RequestFacts DEF HeldOnce, AppTypeOK
  <2> HIDE DEF p
  <2>4. QED
    BY <1>6, <2>1, <2>2, <2>3 DEF HeldOnce
<1>7. ASSUME NEW t \in Callers, Reap(t) PROVE HeldOnce'
  BY <1>6, <1>7, RequestFacts, AppTypes DEF Reap
<1>8. ASSUME NEW t \in Callers, DropAppRequest(t) PROVE HeldOnce'
  <2>1. CASE Answer(t)
    BY <1>6, <1>8, <2>1 DEF DropAppRequest
  <2>2. CASE req[t].pc \in {"download", "write"} /\ req' = [req EXCEPT ![t].gone = TRUE]
    <3>1. req[t] \in Request /\ req[t].child = None
      BY <2>2, RequestFacts DEF InPC
    <3>2. req'[t].child = None /\ \A u \in Callers \ {t} : req'[u] = req[u]
      BY <2>2, <3>1 DEF AppTypeOK, Request
    <3>3. procs' = procs /\ table' = table
      BY <1>8, <3>1 DEF DropAppRequest
    <3>4. QED
      BY <3>2, <3>3 DEF HeldOnce
  <2>3. QED
    BY <1>8, <2>1, <2>2 DEF DropAppRequest
<1>9. ASSUME NEW p \in Procs, AppExits(p) PROVE HeldOnce'
  <2>1. \A o \in Procs : o # p => procs'[o] = procs[o]
    BY <1>9 DEF AppExits, AppTypeOK
  <2>2. CASE Held(p)
    <3>1. procs'[p] # None /\ procs'[p].app = procs[p].app
      BY <1>9, <2>2, AppTypes DEF AppExits, AppTypeOK, Process
    <3>2. QED
      BY <1>9, <2>1, <3>1, RequestFacts DEF AppExits, HeldOnce, AppTypeOK
  <2>3. CASE ~Held(p)
    BY <1>9, <2>1, <2>3, RequestFacts DEF AppExits, HeldOnce, Held, AppTypeOK
  <2>4. QED
    BY <2>2, <2>3
<1>10. CASE Restart
  BY <1>10, AppTypes DEF Restart, HeldOnce
<1>11. QED
  BY <1>1, <1>2, <1>3, <1>4, <1>5, <1>7, <1>8, <1>9, <1>10
  DEF RuntimeNext, AppStep, AcceptInstall, AcceptStart, AcceptStop, runtimevars, appvars

-----------------------------------------------------------------------------
LEMMA StrayStep ==
    ASSUME AppTypeOK, AppTypeOK', HeldOnce, NoStrayProcess, [RuntimeNext]_runtimevars
    PROVE  NoStrayProcess'
<1> SUFFICES ASSUME NEW p \in Procs, Live(p)' PROVE Held(p)' \/ procs'[p].app \in doubled'
  BY DEF NoStrayProcess, Live, Held
(* A process that ran already is where it was, handed over, or abandoned.  *)
<1>1. ASSUME Live(p), procs'[p] = procs[p], doubled \subseteq doubled', Held(p) => Held(p)'
      PROVE  Held(p)' \/ procs'[p].app \in doubled'
  BY <1>1 DEF NoStrayProcess
<1>2. CASE UNCHANGED <<table, procs, req, doubled>>
  BY <1>2 DEF NoStrayProcess, Live, Held
<1>3. ASSUME NEW t \in Callers,
             \/ \E a \in Apps, pc \in {"mkdir", "spawn", "stop"} : Accept(t, a, pc)
             \/ Mkdir(t) \/ DownloadFails(t) \/ CreateBinary(t) \/ WriteBinary(t)
             \/ Chmod(t) \/ SpawnFails(t)
      PROVE  Held(p)' \/ procs'[p].app \in doubled'
  <2>1. procs' = procs /\ table' = table /\ doubled' = doubled
    BY <1>3, SteadySteps DEF Steady
  <2>2. req[t].child = None
    BY <1>3, RequestFacts
    DEF Accept, Mkdir, DownloadFails, CreateBinary, WriteBinary, Chmod, SpawnFails, InPC
  <2>3. \A u \in Callers \ {t} : req'[u] = req[u]
    BY <1>3, SteadySteps DEF Steady
  <2>4. Held(p) => Held(p)'
    BY <2>1, <2>2, <2>3, AppTypes DEF Held
  <2>5. QED
    BY <1>1, <2>1, <2>4 DEF Live
<1>4. ASSUME NEW t \in Callers, SpawnApp(t) PROVE Held(p)' \/ procs'[p].app \in doubled'
  <2>1. req[t] \in Request /\ req[t].child = None
    BY <1>4, RequestFacts DEF SpawnApp, InPC
  <2>2. PICK o \in Procs :
           /\ procs' = [procs EXCEPT ![o] = [app |-> req[t].app, state |-> "alive"]]
           /\ req' = [req EXCEPT ![t].pc = "insert", ![t].child = o]
    BY <1>4 DEF SpawnApp
  <2>3. req'[t].child = o /\ \A u \in Callers \ {t} : req'[u] = req[u]
    BY <2>1, <2>2 DEF AppTypeOK, Request
  <2>4. CASE p = o
    BY <2>3, <2>4 DEF Held
  <2>5. CASE p # o
    <3>1. procs'[p] = procs[p] /\ (Held(p) => Held(p)')
      BY <1>4, <2>1, <2>2, <2>3, <2>5, AppTypes DEF Held, SpawnApp, AppTypeOK
    <3>2. QED
      BY <1>1, <1>4, <3>1 DEF Live, SpawnApp
  <2>6. QED
    BY <2>4, <2>5
<1>5. ASSUME NEW t \in Callers, Insert(t) PROVE Held(p)' \/ procs'[p].app \in doubled'
  <2>1. req[t].app \in Apps /\ req[t].child \in Procs
    BY <1>5, RequestFacts DEF Insert, InPC
  <2>2. Live(p) /\ procs'[p] = procs[p]
    <3>1. CASE table[req[t].app] = None
      BY <1>5, <3>1 DEF Insert, Live
    <3>2. CASE table[req[t].app] # None
      BY <1>5, <2>1, <3>2, ReleasedFacts DEF Insert, AppTypeOK
    <3>3. QED
      BY <3>1, <3>2
  <2>3. CASE p = table[req[t].app]
    BY <1>5, <2>1, <2>2, <2>3, AppTypes DEF Insert, HeldOnce
  <2>4. CASE p # table[req[t].app]
    <3>1. Held(p) => Held(p)'
      BY <1>5, <2>1, <2>4, Moves, AppTypes DEF Insert, Held, AppTypeOK
    <3>2. QED
      BY <1>1, <1>5, <2>2, <3>1 DEF Insert
  <2>5. QED
    BY <2>3, <2>4
<1>6. ASSUME NEW t \in Callers, Kill(t) PROVE Held(p)' \/ procs'[p].app \in doubled'
  <2>1. req[t].app \in Apps /\ req[t].child = None
    BY <1>6, RequestFacts DEF Kill, InPC
  <2>2. CASE table[req[t].app] = None
    <3>1. procs' = procs /\ (Held(p) => Held(p)')
      BY <1>6, <2>1, <2>2, Moves, AppTypes DEF Kill, Held, AppTypeOK
    <3>2. QED
      BY <1>1, <1>6, <3>1 DEF Kill, Live
  <2>3. CASE table[req[t].app] # None
    <3>1. procs[table[req[t].app]] \in Process /\ table[req[t].app] \in Procs
      BY <2>1, <2>3 DEF HeldOnce, AppTypeOK
    <3>2. p # table[req[t].app] /\ procs'[p] = procs[p]
      BY <1>6, <2>3, <3>1 DEF Kill, Live, AppTypeOK, Process
    <3>3. \A u \in Callers \ {t} : req'[u] = req[u]
      BY <1>6, <2>3 DEF Kill, AppTypeOK
    <3>4. Held(p) => Held(p)'
      BY <1>6, <2>1, <3>2, <3>3, AppTypes DEF Kill, Held, AppTypeOK
    <3>5. QED
      BY <1>1, <1>6, <3>2, <3>4 DEF Kill, Live
  <2>4. QED
    BY <2>2, <2>3
<1>7. ASSUME NEW t \in Callers, Reap(t) PROVE Held(p)' \/ procs'[p].app \in doubled'
  <2>1. req[t].child \in Procs /\ ~Live(req[t].child)
    BY <1>7, RequestFacts DEF Reap, Live
  <2>2. Live(p) /\ procs'[p] = procs[p]
    BY <1>7, <2>1, ReleasedFacts DEF Reap, AppTypeOK
  <2>3. Held(p) => Held(p)'
    BY <1>7, <2>1, <2>2, Moves DEF Reap, Held
  <2>4. QED
    BY <1>1, <1>7, <2>2, <2>3 DEF Reap
<1>8. ASSUME NEW t \in Callers, DropAppRequest(t)
      PROVE  Held(p)' \/ procs'[p].app \in doubled'
  <2>1. Live(p) /\ procs'[p] = procs[p]
    <3>1. CASE req[t].child = None
      BY <1>8, <3>1 DEF DropAppRequest, Live
    <3>2. CASE req[t].child # None
      BY <1>8, <3>2, RequestFacts, ReleasedFacts DEF DropAppRequest, AppTypeOK
    <3>3. QED
      BY <3>1, <3>2
  <2>2. CASE p = req[t].child
    BY <1>8, <2>1, <2>2, AppTypes DEF DropAppRequest, HeldOnce
  <2>3. CASE p # req[t].child
    <3>1. \A u \in Callers \ {t} : req'[u] = req[u]
      BY <1>8, Moves DEF DropAppRequest, AppTypeOK
    <3>2. Held(p) => Held(p)'
      BY <1>8, <2>3, <3>1 DEF DropAppRequest, Held
    <3>3. QED
      BY <1>1, <1>8, <2>1, <3>2 DEF DropAppRequest
  <2>4. QED
    BY <2>2, <2>3
<1>9. ASSUME NEW o \in Procs, AppExits(o) PROVE Held(p)' \/ procs'[p].app \in doubled'
  <2>1. p # o /\ procs'[p] = procs[p]
    BY <1>9 DEF AppExits, Live, AppTypeOK, Process
  <2>2. Live(p) /\ p \in RunsOf(procs[p].app) \ {o}
    BY <2>1 DEF Live, RunsOf
  <2>3. Held(p) => Held(p)'
    BY <1>9 DEF AppExits, Held
  <2>4. QED
    BY <1>9, <2>1, <2>2, <2>3 DEF AppExits, NoStrayProcess
<1>10. CASE Restart
  <2>1. Live(p) /\ procs'[p] = procs[p]
    BY <1>10, AppTypes DEF Restart, Live
  <2>2. procs[p].app \in Apps /\ p \in RunsOf(procs[p].app)
    BY <2>1 DEF Live, RunsOf, AppTypeOK, Process
  <2>3. QED
    BY <1>10, <2>1, <2>2 DEF Restart
<1>11. QED
  BY <1>2, <1>3, <1>4, <1>5, <1>6, <1>7, <1>8, <1>9, <1>10
  DEF RuntimeNext, AppStep, AcceptInstall, AcceptStart, AcceptStop, runtimevars, appvars

-----------------------------------------------------------------------------
(* The part of BinaryInv about one request.                                *)
WriterOK(t) ==
    /\ InPC(t, "write") \/ InPC(t, "chmod") => binary[req[t].app].content # "absent"
    /\ InPC(t, "chmod") => \/ binary[req[t].app].content = "whole"
                           \/ req[t].app \in rewritten

LEMMA BinaryStep ==
    ASSUME AppTypeOK, AppTypeOK', BinaryInv, [RuntimeNext]_runtimevars
    PROVE  BinaryInv'
<1> DEFINE FileOK(a) ==
      /\ binary[a].content = "absent" => ~binary[a].exec
      /\ binary[a].content = "partial" /\ binary[a].exec => a \in rewritten
<1>1. BinaryInv <=> (\A a \in Apps : FileOK(a)) /\ (\A t \in Callers : WriterOK(t))
  BY DEF BinaryInv, WriterOK
<1>2. BinaryInv' <=> (\A a \in Apps : FileOK(a)') /\ (\A t \in Callers : WriterOK(t)')
  BY DEF BinaryInv, WriterOK
<1>3. ASSUME binary' = binary, rewritten' = rewritten,
             \A t \in Callers : \/ req'[t].pc = req[t].pc /\ req'[t].app = req[t].app
                              \/ req'[t].pc \notin {"write", "chmod"}
      PROVE  BinaryInv'
  BY <1>1, <1>2, <1>3 DEF WriterOK, InPC
<1>4. ASSUME NEW t \in Callers, binary' = binary, rewritten' = rewritten,
             req'[t].pc \notin {"write", "chmod"},
             \A u \in Callers \ {t} : req'[u] = req[u]
      PROVE  BinaryInv'
  BY <1>3, <1>4
<1>5. CASE UNCHANGED <<binary, rewritten, req>>
  BY <1>3, <1>5
<1>6. ASSUME NEW t \in Callers, NEW a \in Apps, NEW pc \in {"mkdir", "spawn", "stop"},
             Accept(t, a, pc)
      PROVE  BinaryInv'
  <2>1. [NoRequest EXCEPT !.pc = pc, !.app = a].pc = pc
    BY DEF NoRequest
  <2>2. req'[t].pc = pc /\ \A u \in Callers \ {t} : req'[u] = req[u]
    BY <1>6, <2>1 DEF Accept, AppTypeOK
  <2>3. QED
    BY <1>4, <1>6, <2>2 DEF Accept
<1>7. ASSUME NEW t \in Callers, Mkdir(t) \/ DownloadFails(t) \/ SpawnFails(t) \/ Insert(t)
                                 \/ Reap(t)
      PROVE  BinaryInv'
  BY <1>4, <1>7, Moves, AppTypes DEF Mkdir, DownloadFails, SpawnFails, Insert, Reap
<1>8. ASSUME NEW t \in Callers, CreateBinary(t) PROVE BinaryInv'
  <2> DEFINE a == req[t].app
  <2>1. a \in Apps /\ binary[a] \in Binary
    BY <1>8, RequestFacts DEF CreateBinary, InPC, AppTypeOK
  <2>2. CASE Answer(t) /\ UNCHANGED <<binary, rewritten>>
    BY <1>4, <2>2, Moves, AppTypes
  <2>3. CASE /\ binary' = [binary EXCEPT ![a].content = "partial"]
             /\ rewritten' = IF binary[a].content = "absent" THEN rewritten
                             ELSE rewritten \cup {a}
             /\ Goto(t, "write")
    <3>1. /\ binary'[a].content = "partial" /\ binary'[a].exec = binary[a].exec
          /\ \A b \in Apps : b # a => binary'[b] = binary[b]
      BY <2>1, <2>3 DEF AppTypeOK, Binary
    <3>2. /\ rewritten \subseteq rewritten'
          /\ binary[a].content # "absent" => a \in rewritten'
      BY <2>3
    <3>3. \A b \in Apps : FileOK(b)'
      BY <1>1, <2>1, <3>1, <3>2 DEF Binary
    <3>4. ASSUME NEW u \in Callers, u # t PROVE WriterOK(u)'
      <4>1. req'[u] = req[u] /\ WriterOK(u) /\ (~InPC(u, "idle") => req[u].app \in Apps)
        BY <1>1, <2>3, <3>4, Moves, RequestFacts
      <4>2. QED
        BY <3>1, <3>2, <4>1 DEF WriterOK, InPC
    <3>5. WriterOK(t)'
      BY <2>3, <3>1, Moves DEF WriterOK, InPC
    <3>6. QED
      BY <1>2, <3>3, <3>4, <3>5
  <2>4. QED
    BY <1>8, <2>2, <2>3 DEF CreateBinary
<1>9. ASSUME NEW t \in Callers, WriteBinary(t) PROVE BinaryInv'
  <2> DEFINE a == req[t].app
  <2>1. a \in Apps /\ binary[a] \in Binary
    BY <1>9, RequestFacts DEF WriteBinary, InPC, AppTypeOK
  <2>2. CASE Answer(t) /\ UNCHANGED <<binary, rewritten>>
    BY <1>4, <2>2, Moves, AppTypes
  <2>3. CASE /\ binary' = [binary EXCEPT ![a].content = "whole"]
             /\ rewritten' = rewritten
             /\ Answer(t) \/ Goto(t, "chmod")
    <3>1. /\ binary'[a].content = "whole" /\ binary'[a].exec = binary[a].exec
          /\ \A b \in Apps : b # a => binary'[b] = binary[b]
      BY <2>1, <2>3 DEF AppTypeOK, Binary
    <3>2. \A b \in Apps : FileOK(b)'
      BY <1>1, <2>1, <2>3, <3>1
    <3>3. ASSUME NEW u \in Callers, u # t PROVE WriterOK(u)'
      <4>1. req'[u] = req[u] /\ WriterOK(u) /\ (~InPC(u, "idle") => req[u].app \in Apps)
        BY <1>1, <2>3, <3>3, Moves, RequestFacts
      <4>2. QED
        BY <2>3, <3>1, <4>1 DEF WriterOK, InPC
    <3>4. WriterOK(t)'
      BY <2>3, <3>1, Moves, AppTypes DEF WriterOK, InPC
    <3>5. QED
      BY <1>2, <3>2, <3>3, <3>4
  <2>4. QED
    BY <1>9, <2>2, <2>3 DEF WriteBinary
<1>10. ASSUME NEW t \in Callers, Chmod(t) PROVE BinaryInv'
  <2> DEFINE a == req[t].app
  <2>1. a \in Apps /\ binary[a] \in Binary
    BY <1>10, RequestFacts DEF Chmod, InPC, AppTypeOK
  <2>2. Answer(t) /\ rewritten' = rewritten
    BY <1>10 DEF Chmod
  <2>3. CASE binary' = binary
    BY <1>4, <2>2, <2>3, Moves, AppTypes
  <2>4. CASE binary' = [binary EXCEPT ![a].exec = TRUE]
    <3>1. /\ binary'[a].content = binary[a].content
          /\ \A b \in Apps : b # a => binary'[b] = binary[b]
      BY <2>1, <2>4 DEF AppTypeOK, Binary
    <3>2. binary[a].content = "whole" \/ a \in rewritten
      BY <1>1, <1>10 DEF WriterOK, Chmod
    <3>3. binary[a].content # "absent"
      BY <1>1, <1>10 DEF WriterOK, Chmod
    <3>4. \A b \in Apps : FileOK(b)'
      BY <1>1, <2>2, <3>1, <3>2, <3>3
    <3>5. ASSUME NEW u \in Callers, u # t PROVE WriterOK(u)'
      <4>1. req'[u] = req[u] /\ WriterOK(u) /\ (~InPC(u, "idle") => req[u].app \in Apps)
        BY <1>1, <2>2, <3>5, Moves, RequestFacts
      <4>2. QED
        BY <2>2, <3>1, <4>1 DEF WriterOK, InPC
    <3>6. WriterOK(t)'
      BY <2>2, Moves, AppTypes DEF WriterOK, InPC
    <3>7. QED
      BY <1>2, <3>4, <3>5, <3>6
  <2>5. QED
    BY <1>10, <2>3, <2>4 DEF Chmod
<1>11. ASSUME NEW t \in Callers, SpawnApp(t) PROVE BinaryInv'
  <2>1. PICK p \in Procs : req' = [req EXCEPT ![t].pc = "insert", ![t].child = p]
    BY <1>11 DEF SpawnApp
  <2>2. req'[t].pc = "insert" /\ \A u \in Callers \ {t} : req'[u] = req[u]
    BY <2>1 DEF AppTypeOK, Request
  <2>3. QED
    BY <1>4, <1>11, <2>2 DEF SpawnApp
<1>12. ASSUME NEW t \in Callers, Kill(t) PROVE BinaryInv'
  <2>1. req'[t].pc \in {"idle", "reap"} /\ \A u \in Callers \ {t} : req'[u] = req[u]
    BY <1>12, Moves, AppTypes DEF Kill, AppTypeOK, Request
  <2>2. QED
    BY <1>4, <1>12, <2>1 DEF Kill
<1>13. ASSUME NEW t \in Callers, DropAppRequest(t) PROVE BinaryInv'
  <2>1. CASE Answer(t)
    BY <1>4, <1>13, <2>1, Moves, AppTypes DEF DropAppRequest
  <2>2. CASE req' = [req EXCEPT ![t].gone = TRUE]
    <3>1. \A u \in Callers : req'[u].pc = req[u].pc /\ req'[u].app = req[u].app
      BY <2>2 DEF AppTypeOK, Request
    <3>2. QED
      BY <1>3, <1>13, <3>1 DEF DropAppRequest
  <2>3. QED
    BY <1>13, <2>1, <2>2 DEF DropAppRequest
<1>14. CASE Restart
  BY <1>3, <1>14, AppTypes DEF Restart
<1>15. ASSUME NEW p \in Procs, AppExits(p) PROVE BinaryInv'
  BY <1>5, <1>15 DEF AppExits
<1>16. QED
  BY <1>5, <1>6, <1>7, <1>8, <1>9, <1>10, <1>11, <1>12, <1>13, <1>14, <1>15
  DEF RuntimeNext, AppStep, AcceptInstall, AcceptStart, AcceptStop, runtimevars, appvars

-----------------------------------------------------------------------------
LEMMA RuntimeInvInit == RuntimeInit => RuntimeInv
<1> SUFFICES ASSUME RuntimeInit PROVE RuntimeInv
  OBVIOUS
<1>1. AppTypeOK
  BY StoreTypeInit, AppTypes DEF RuntimeInit, AppTypeOK, Binary
<1>2. HeldOnce /\ NoStrayProcess /\ BinaryInv
  BY AppTypes DEF RuntimeInit, HeldOnce, NoStrayProcess, BinaryInv, Live, InPC
<1>3. QED
  BY <1>1, <1>2 DEF RuntimeInv

(* The inductive invariant of the manager.                                 *)
THEOREM RuntimeInvariant == RuntimeSpec => []RuntimeInv
<1>1. RuntimeInv /\ [RuntimeNext]_runtimevars => RuntimeInv'
  BY AppTypeStep, HeldStep, StrayStep, BinaryStep DEF RuntimeInv
<1>2. QED
  BY <1>1, RuntimeInvInit, PTL DEF RuntimeSpec

(* Type correctness of manager and catalogue.                              *)
THEOREM AppTypeCorrect == RuntimeSpec => []AppTypeOK
BY RuntimeInvariant, PTL DEF RuntimeInv

(* A process that runs is in the table or in the hands of a request, but   *)
(* for the ways to lose one that the history names.                        *)
THEOREM ProcessesAreManaged == RuntimeSpec => []NoStrayProcess
BY RuntimeInvariant, PTL DEF RuntimeInv

(* A binary that is not complete is never started, whichever writes fail,  *)
(* unless installs have written over each other.                           *)
THEOREM WholeBinariesRun == RuntimeSpec => OnlyWholeBinariesRun
<1>1. RuntimeInv /\ [RuntimeNext]_runtimevars =>
        [\A t \in Callers :
            InPC(t, "spawn") /\ req'[t].pc = "insert" =>
                binary[req[t].app].content = "whole" \/ req[t].app \in rewritten]_runtimevars
  <2> SUFFICES ASSUME RuntimeInv, RuntimeNext, NEW t \in Callers,
                      InPC(t, "spawn"), req'[t].pc = "insert"
               PROVE  binary[req[t].app].content = "whole" \/ req[t].app \in rewritten
    OBVIOUS
  <2>1. AppTypeOK /\ BinaryInv
    BY DEF RuntimeInv
  <2>2. SpawnApp(t)
    <3>1. \A u \in Callers : Steady(u) /\ req'[u].child = None => FALSE
      BY <2>1 DEF Steady, InPC
    <3>2. ASSUME NEW u \in Callers,
                 \/ \E a \in Apps, pc \in {"mkdir", "spawn", "stop"} : Accept(u, a, pc)
                 \/ Mkdir(u) \/ DownloadFails(u) \/ CreateBinary(u) \/ WriteBinary(u)
                 \/ Chmod(u) \/ SpawnFails(u)
          PROVE  FALSE
      BY <2>1, <3>1, <3>2, SteadySteps
    <3>3. ASSUME NEW u \in Callers, u # t, req'[t] = req[t] PROVE FALSE
      BY <3>3 DEF InPC
    <3>4. ASSUME NEW u \in Callers, Insert(u) \/ Kill(u) \/ Reap(u) PROVE FALSE
      <4>1. u # t
        BY <3>4 DEF Insert, Kill, Reap, InPC
      <4>2. req'[t] = req[t]
        BY <2>1, <3>4, <4>1 DEF Insert, Kill, Reap, Answer, AppTypeOK
      <4>3. QED
        BY <3>3, <4>1, <4>2
    <3>5. ASSUME NEW u \in Callers, DropAppRequest(u) PROVE FALSE
      <4>1. u # t
        BY <3>5 DEF DropAppRequest, InPC
      <4>2. req'[t] = req[t]
        BY <2>1, <3>5, <4>1 DEF DropAppRequest, Answer, AppTypeOK
      <4>3. QED
        BY <3>3, <4>1, <4>2
    <3>6. ASSUME NEW u \in Callers, SpawnApp(u) PROVE u = t
      BY <2>1, <3>3, <3>6 DEF SpawnApp, AppTypeOK
    <3>7. ~Restart /\ req' # req
      BY AppTypes DEF Restart, InPC
    <3>8. \A p \in Procs : ~AppExits(p)
      BY <3>7 DEF AppExits
    <3>9. QED
      BY <3>2, <3>4, <3>5, <3>6, <3>7, <3>8
      DEF RuntimeNext, AppStep, AcceptInstall, AcceptStart, AcceptStop, appvars
  <2>3. req[t].app \in Apps /\ binary[req[t].app] \in Binary
    BY <2>1, <2>2, RequestFacts DEF SpawnApp, InPC, AppTypeOK
  <2>4. QED
    BY <2>1, <2>2, <2>3 DEF SpawnApp, BinaryInv, Binary
<1>2. QED
  BY <1>1, RuntimeInvariant, PTL DEF RuntimeSpec, OnlyWholeBinariesRun

(* With the manager's requests in between, too.                            *)
COROLLARY RuntimeKeepsCatalogue ==
    RuntimeSpec => RefreshKeepsListed /\ RestartKeepsCatalogue
BY RuntimeImplementsStore, RefreshLosesNothing, CatalogueSurvives, PTL
=============================================================================
