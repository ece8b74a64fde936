---------------------------- MODULE StoreProofs ----------------------------
(***************************************************************************)
(* Theorems about StoreCatalogue, for any applications, requests and       *)
(* numbers of publications.  Each is the consequence of one of two         *)
(* invariants: Covered says what a refresh in progress has found so far,   *)
(* SaveInv relates the catalogue to the cache file.                        *)
(***************************************************************************)
EXTENDS StoreCatalogue, TLAPS

(* No manifest is newer than the one the source publishes, and what has    *)
(* been fetched is not older than what it falls back on.                   *)
CoveredBy(r) ==
    /\ \A a \in Apps : r.previous[a] <= source[a] /\ r.found[a] <= source[a]
    /\ r.pc = "fetch" => \A a \in r.listed \ r.todo : r.previous[a] <= r.found[a]

Covered ==
    /\ \A a \in Apps : apps[a] <= source[a] /\ cache.content[a] <= source[a]
    /\ \A t \in Tasks : CoveredBy(refresh[t])

(* A save without company writes the catalogue as it is; when there is     *)
(* none and the last one went well, the file holds the catalogue.          *)
SaveInv ==
    /\ \A t \in Tasks : Saving(t) /\ refresh[t].alone =>
          /\ apps = refresh[t].found
          /\ \A s \in Tasks \ {t} : ~Saving(s)
    /\ Quiet /\ ~unsaved => load_cache = apps

-----------------------------------------------------------------------------
LEMMA RecordTypes ==
    /\ NoApps \in Catalogue
    /\ NotRefreshing \in Refresh /\ Refreshing \in Refresh
    /\ NotRefreshing.pc = "idle" /\ Refreshing.pc = "index"
    /\ \A a \in Apps : NoApps[a] = 0
<1>1. NoApps \in Catalogue /\ \A a \in Apps : NoApps[a] = 0
  BY StoreAssumption DEF NoApps, Catalogue, Manifests
<1>2. NotRefreshing \in Refresh /\ NotRefreshing.pc = "idle"
  BY <1>1 DEF NotRefreshing, Refresh
<1>3. Refreshing \in Refresh /\ Refreshing.pc = "index"
  BY <1>2 DEF Refreshing, Refresh
<1>4. QED
  BY <1>1, <1>2, <1>3

LEMMA CacheTypes ==
    /\ \A c \in Catalogue : Saved(c) \in CacheFile /\ Saved(c).content = c
    /\ \A s \in {"blank", "garbled"} :
          Unreadable(s) \in CacheFile /\ Unreadable(s).content = NoApps
BY RecordTypes DEF Saved, Unreadable, CacheFile

LEMMA LoadType ==
    ASSUME StoreTypeOK
    PROVE  load_cache \in Catalogue
BY RecordTypes DEF StoreTypeOK, CacheFile, load_cache

LEMMA StoreTypeStep ==
    ASSUME StoreTypeOK, [StoreNext]_storevars
    PROVE  StoreTypeOK'
<1> USE DEF StoreTypeOK
<1>1. ASSUME NEW t \in Tasks, NEW r \in Refresh, RefreshStep(t, r)
      PROVE  /\ refresh' \in [Tasks -> Refresh]
             /\ source' = source /\ index' = index
  BY <1>1 DEF RefreshStep
<1>2. CASE SourceStep
  BY <1>2, StoreAssumption DEF SourceStep, Publish, Delist
<1>3. ASSUME NEW t \in Tasks, RefreshBegin(t) \/ IndexFails(t) \/ DropRefresh(t)
      PROVE  StoreTypeOK'
  BY <1>1, <1>3, RecordTypes DEF RefreshBegin, IndexFails, DropRefresh
<1>4. ASSUME NEW t \in Tasks, IndexAnswers(t) PROVE StoreTypeOK'
  <2>1. [refresh[t] EXCEPT !.pc = "fetch", !.listed = index,
                           !.todo = index, !.previous = apps] \in Refresh
    BY DEF Refresh
  <2>2. QED
    BY <1>1, <1>4, <2>1 DEF IndexAnswers
<1>5. ASSUME NEW t \in Tasks, NEW a \in Apps, FetchAnswers(t, a) \/ FetchFails(t, a)
      PROVE  StoreTypeOK'
  <2>1. PICK m \in Manifests : Fetched(t, a, m)
    BY <1>5 DEF FetchAnswers, FetchFails, Manifests, Refresh, Catalogue
  <2>2. [refresh[t] EXCEPT !.todo = @ \ {a}, !.found[a] = m] \in Refresh
    BY <2>1 DEF Refresh, Catalogue
  <2>3. QED
    BY <1>1, <2>1, <2>2 DEF Fetched
<1>6. ASSUME NEW t \in Tasks, Replace(t) PROVE StoreTypeOK'
  <2>1. refresh[t].found \in Catalogue
    BY DEF Refresh
  <2>2. [NotRefreshing EXCEPT !.pc = "open", !.alone = Quiet,
                              !.found = refresh[t].found] \in Refresh
    BY <2>1, RecordTypes DEF Refresh, Quiet
  <2>3. \A s \in Tasks : [refresh[s] EXCEPT !.alone = @ /\ ~Saving(s)] \in Refresh
    BY DEF Refresh, Saving
  <2>4. refresh' \in [Tasks -> Refresh]
    BY <1>6, <2>2, <2>3 DEF Replace
  <2>5. QED
    BY <1>6, <2>1, <2>4 DEF Replace
<1>7. ASSUME NEW t \in Tasks, CacheOpen(t) PROVE StoreTypeOK'
  <2>1. [refresh[t] EXCEPT !.pc = "write"] \in Refresh
    BY DEF Refresh
  <2>2. QED
    BY <1>1, <1>7, <2>1, RecordTypes, CacheTypes DEF CacheOpen
<1>8. ASSUME NEW t \in Tasks, CacheWrite(t) PROVE StoreTypeOK'
  <2>1. refresh[t].found \in Catalogue /\ refresh[t].alone \in BOOLEAN
    BY DEF Refresh
  <2>2. QED
    BY <1>1, <1>8, <2>1, RecordTypes, CacheTypes DEF CacheWrite
<1>9. CASE StoreRestart
  BY <1>9, LoadType, RecordTypes DEF StoreRestart
<1>10. CASE UNCHANGED storevars
  BY <1>10 DEF storevars
<1>11. QED
  BY <1>2, <1>3, <1>4, <1>5, <1>6, <1>7, <1>8, <1>9, <1>10
  DEF StoreNext, RefreshProgress, Tasks

LEMMA StoreTypeInit == StoreInit => StoreTypeOK
<1> SUFFICES ASSUME StoreInit PROVE StoreTypeOK
  OBVIOUS
<1>1. source \in [Apps -> 1..MaxVersion] /\ index \subseteq Apps
  BY StoreAssumption DEF StoreInit
<1>0. unsaved \in BOOLEAN
  BY DEF StoreInit
<1>2. cache \in CacheFile /\ apps \in Catalogue
  BY RecordTypes, CacheTypes DEF StoreInit, load_cache, CacheFile
<1>3. refresh \in [Tasks -> Refresh]
  BY RecordTypes DEF StoreInit
<1>4. QED
  BY <1>0, <1>1, <1>2, <1>3 DEF StoreTypeOK

(* Type correctness, for a catalogue of any size.                          *)
THEOREM StoreTypeCorrect == StoreSpec => []StoreTypeOK
BY StoreTypeInit, StoreTypeStep, PTL DEF StoreSpec

-----------------------------------------------------------------------------
LEMMA CoveredInit == StoreInit => Covered
<1> SUFFICES ASSUME StoreInit PROVE Covered
  OBVIOUS
<1>1. \A a \in Apps : apps[a] <= source[a] /\ cache.content[a] <= source[a]
  BY RecordTypes, CacheTypes DEF StoreInit, load_cache, Unreadable
<1>2. ASSUME NEW t \in Tasks PROVE CoveredBy(refresh[t])
  BY RecordTypes DEF StoreInit, CoveredBy, Refreshing, NotRefreshing
<1>3. QED
  BY <1>1, <1>2 DEF Covered

LEMMA CoveredStep ==
    ASSUME StoreTypeOK, Covered, [StoreNext]_storevars
    PROVE  Covered'
<1>0. /\ CoveredBy(NotRefreshing) /\ CoveredBy(Refreshing)
      /\ CoveredBy(NotRefreshing)' /\ CoveredBy(Refreshing)'
      /\ \A a \in Apps : source[a] \in Nat /\ source'[a] \in Nat
  <2>1. StoreTypeOK'
    BY StoreTypeStep
  <2>2. \A a \in Apps : source[a] \in Nat /\ source'[a] \in Nat
    BY <2>1 DEF StoreTypeOK
  <2>3. QED
    BY <2>2, RecordTypes DEF CoveredBy, NotRefreshing, Refreshing
<1>1. ASSUME NEW t \in Tasks, NEW r, RefreshStep(t, r), CoveredBy(r),
             apps' = apps, \/ cache' = cache
                           \/ \A a \in Apps : cache'.content[a] <= source[a]
      PROVE  Covered'
  <2>1. source' = source /\ refresh' = [refresh EXCEPT ![t] = r]
    BY <1>1 DEF RefreshStep
  <2>2. \A s \in Tasks : CoveredBy(refresh'[s])
    BY <1>1, <2>1 DEF Covered, StoreTypeOK
  <2>3. QED
    BY <1>1, <2>1, <2>2 DEF Covered, CoveredBy
<1>2. CASE SourceStep
  <2>1. \A a \in Apps : source[a] <= source'[a]
    BY <1>2 DEF SourceStep, Publish, Delist, StoreTypeOK
  <2>2. /\ UNCHANGED <<apps, cache, refresh>>
        /\ \A a \in Apps : apps[a] \in Nat /\ cache.content[a] \in Nat
        /\ \A t \in Tasks : refresh[t] \in Refresh
    BY <1>2 DEF SourceStep, Publish, Delist, StoreTypeOK, Catalogue, Manifests, CacheFile
  <2>3. ASSUME NEW t \in Tasks PROVE CoveredBy(refresh[t])'
    <3>1. \A a \in Apps : refresh[t].previous[a] \in Nat /\ refresh[t].found[a] \in Nat
      BY <2>2 DEF Refresh, Catalogue, Manifests
    <3>2. QED
      BY <1>0, <2>1, <2>2, <3>1 DEF Covered, CoveredBy
  <2>4. QED
    BY <1>0, <2>1, <2>2, <2>3 DEF Covered
<1>3. ASSUME NEW t \in Tasks, RefreshBegin(t) \/ IndexFails(t) \/ DropRefresh(t)
      PROVE  Covered'
  BY <1>0, <1>1, <1>3 DEF RefreshBegin, IndexFails, DropRefresh
<1>4. ASSUME NEW t \in Tasks, IndexAnswers(t) PROVE Covered'
  <2> DEFINE r == [refresh[t] EXCEPT !.pc = "fetch", !.listed = index,
                                     !.todo = index, !.previous = apps]
  <2>1. r.found = refresh[t].found /\ r.previous = apps /\ r.listed \ r.todo = {}
    BY DEF StoreTypeOK, Refresh
  <2>2. CoveredBy(r)
    BY <2>1 DEF Covered, CoveredBy
  <2>3. QED
    BY <1>1, <1>4, <2>2 DEF IndexAnswers
<1>5. ASSUME NEW t \in Tasks, NEW a \in Apps, FetchAnswers(t, a) \/ FetchFails(t, a)
      PROVE  Covered'
  <2>1. PICK m \in {source[a], refresh[t].previous[a]} : Fetched(t, a, m)
    BY <1>5 DEF FetchAnswers, FetchFails
  <2> DEFINE r == [refresh[t] EXCEPT !.todo = @ \ {a}, !.found[a] = m]
  <2>2. refresh[t] \in Refresh
    BY DEF StoreTypeOK
  <2>3. /\ r.previous = refresh[t].previous /\ r.listed = refresh[t].listed
        /\ r.pc = "fetch" /\ refresh[t].pc = "fetch"
        /\ r.todo = refresh[t].todo \ {a}
        /\ r.found = [refresh[t].found EXCEPT ![a] = m]
    BY <2>1, <2>2 DEF Refresh, Fetched
  <2>4. /\ refresh[t].previous[a] <= m /\ m <= source[a]
        /\ refresh[t].found \in [Apps -> Nat] /\ refresh[t].previous \in [Apps -> Nat]
    BY <1>0, <2>1, <2>2 DEF Covered, CoveredBy, Refresh, Catalogue, Manifests
  <2>5. CoveredBy(r)
    <3> HIDE DEF r
    <3>1. \A b \in Apps : r.found[b] = IF b = a THEN m ELSE refresh[t].found[b]
      BY <2>3, <2>4
    <3>2. QED
      BY <2>3, <2>4, <3>1 DEF Covered, CoveredBy, StoreTypeOK, Refresh
  <2>6. QED
    BY <1>1, <2>1, <2>5 DEF Fetched
<1>6. ASSUME NEW t \in Tasks, Replace(t) PROVE Covered'
  <2>1. /\ source' = source /\ cache' = cache /\ apps' = refresh[t].found
        /\ refresh' = [s \in Tasks |->
              IF s = t THEN [NotRefreshing EXCEPT !.pc = "open", !.alone = Quiet,
                                                  !.found = refresh[t].found]
              ELSE [refresh[s] EXCEPT !.alone = @ /\ ~Saving(s)]]
    BY <1>6 DEF Replace
  <2>2. CoveredBy(refresh'[t])
    <3>1. /\ refresh'[t].pc = "open" /\ refresh'[t].found = refresh[t].found
          /\ refresh'[t].previous = NoApps
      BY <2>1, RecordTypes DEF NotRefreshing
    <3>2. QED
      BY <1>0, <3>1, RecordTypes DEF Covered, CoveredBy
  <2>3. ASSUME NEW s \in Tasks, s # t PROVE CoveredBy(refresh'[s])
    <3>1. refresh'[s] = [refresh[s] EXCEPT !.alone = @ /\ ~Saving(s)]
      BY <2>1, <2>3
    <3>2. /\ refresh'[s].pc = refresh[s].pc /\ refresh'[s].found = refresh[s].found
          /\ refresh'[s].previous = refresh[s].previous
          /\ refresh'[s].listed = refresh[s].listed /\ refresh'[s].todo = refresh[s].todo
      BY <3>1 DEF StoreTypeOK, Refresh
    <3>3. QED
      BY <3>2 DEF Covered, CoveredBy
  <2>4. QED
    BY <2>1, <2>2, <2>3 DEF Covered, CoveredBy
<1>7. ASSUME NEW t \in Tasks, CacheOpen(t) PROVE Covered'
  <2> DEFINE r == [refresh[t] EXCEPT !.pc = "write"]
  <2>1. r.found = refresh[t].found /\ r.previous = refresh[t].previous /\ r.pc = "write"
    BY DEF StoreTypeOK, Refresh
  <2>2. CoveredBy(r)
    BY <2>1 DEF Covered, CoveredBy
  <2>3. \A a \in Apps : Unreadable("blank").content[a] <= source[a]
    BY <1>0, CacheTypes, RecordTypes
  <2>4. QED
    BY <1>0, <1>1, <1>7, <2>2, <2>3 DEF CacheOpen
<1>8. ASSUME NEW t \in Tasks, CacheWrite(t) PROVE Covered'
  <2>1. /\ Saved(refresh[t].found).content = refresh[t].found
        /\ \A a \in Apps : Unreadable("garbled").content[a] <= source[a]
    BY <1>0, CacheTypes, RecordTypes DEF Saved
  <2>2. \A a \in Apps : cache'.content[a] <= source[a]
    BY <1>8, <2>1 DEF CacheWrite, Covered, CoveredBy
  <2>3. QED
    BY <1>0, <1>1, <1>8, <2>2 DEF CacheWrite
<1>9. CASE StoreRestart
  BY <1>0, <1>9, RecordTypes DEF StoreRestart, load_cache, Covered, CoveredBy
<1>10. CASE UNCHANGED storevars
  BY <1>10 DEF storevars, Covered, CoveredBy
<1>11. QED
  BY <1>2, <1>3, <1>4, <1>5, <1>6, <1>7, <1>8, <1>9, <1>10
  DEF StoreNext, RefreshProgress, Tasks

(* Whichever fetches fail, a refresh during which no other one has changed *)
(* the catalogue brings every application that is listed back in the       *)
(* version it had or a newer one.                                          *)
THEOREM RefreshLosesNothing == StoreSpec => RefreshKeepsListed
<1>1. StoreTypeOK /\ Covered /\ [StoreNext]_storevars =>
        [\A t \in Tasks :
            /\ refresh[t].pc = "fetch" /\ refresh'[t].pc = "open"
            /\ apps = refresh[t].previous
            => \A a \in refresh[t].listed : apps'[a] >= apps[a]]_storevars
  <2> SUFFICES ASSUME StoreTypeOK, Covered, StoreNext, NEW t \in Tasks,
                      refresh[t].pc = "fetch", refresh'[t].pc = "open",
                      apps = refresh[t].previous, NEW a \in refresh[t].listed
               PROVE  apps'[a] >= apps[a]
    OBVIOUS
  <2>1. Replace(t)
    <3>1. ASSUME NEW s \in Tasks, NEW r, RefreshStep(s, r), r.pc # "open" \/ s # t
          PROVE  FALSE
      BY <3>1 DEF RefreshStep, StoreTypeOK
    <3>2. ~SourceStep /\ ~StoreRestart
      BY RecordTypes DEF SourceStep, Publish, Delist, StoreRestart
    <3>3. ASSUME NEW s \in Tasks, Replace(s), s # t PROVE FALSE
      BY <3>3 DEF Replace, StoreTypeOK, Refresh
    <3>4. ASSUME NEW s \in Tasks,
                 RefreshBegin(s) \/ IndexFails(s) \/ DropRefresh(s) \/ CacheWrite(s)
          PROVE  FALSE
      BY <3>1, <3>4, RecordTypes DEF RefreshBegin, IndexFails, DropRefresh, CacheWrite
    <3>5. ASSUME NEW s \in Tasks, IndexAnswers(s) \/ CacheOpen(s) PROVE FALSE
      <4>1. /\ [refresh[s] EXCEPT !.pc = "write"].pc = "write"
            /\ [refresh[s] EXCEPT !.pc = "fetch", !.listed = index,
                                  !.todo = index, !.previous = apps].pc = "fetch"
        BY DEF StoreTypeOK, Refresh
      <4>2. QED
        BY <3>1, <3>5, <4>1, RecordTypes DEF IndexAnswers, CacheOpen
    <3>6. ASSUME NEW s \in Tasks, NEW b \in Apps, NEW m, Fetched(s, b, m) PROVE FALSE
      <4>1. [refresh[s] EXCEPT !.todo = @ \ {b}, !.found[b] = m].pc = "fetch"
        BY <3>6 DEF Fetched, StoreTypeOK, Refresh
      <4>2. QED
        BY <3>1, <3>6, <4>1 DEF Fetched
    <3>7. QED
      BY <3>2, <3>3, <3>4, <3>5, <3>6
      DEF StoreNext, RefreshProgress, FetchAnswers, FetchFails, Tasks
  <2>2. apps' = refresh[t].found /\ a \in refresh[t].listed \ refresh[t].todo
    BY <2>1 DEF Replace
  <2>3. a \in Apps /\ refresh[t].found[a] \in Nat /\ refresh[t].previous[a] \in Nat
    BY DEF StoreTypeOK, Refresh, Catalogue, Manifests
  <2>4. QED
    BY <2>2, <2>3 DEF Covered, CoveredBy
<1>2. QED
  BY <1>1, CoveredInit, CoveredStep, StoreTypeCorrect, PTL
  DEF StoreSpec, RefreshKeepsListed

-----------------------------------------------------------------------------
LEMMA SaveStep ==
    ASSUME StoreTypeOK, SaveInv, [StoreNext]_storevars
    PROVE  SaveInv'
<1>1. ASSUME apps' = apps, cache' = cache, unsaved' = unsaved,
             \A s \in Tasks : refresh'[s] = refresh[s] \/ ~(Saving(s) \/ Saving(s)')
      PROVE  SaveInv'
  BY <1>1 DEF SaveInv, Saving, Quiet, load_cache
<1>2. ASSUME NEW t \in Tasks, NEW r, RefreshStep(t, r), UNCHANGED <<apps, cache, unsaved>>,
             ~Saving(t), r.pc \notin SavingPCs
      PROVE  SaveInv'
  <2>1. \A s \in Tasks : refresh'[s] = IF s = t THEN r ELSE refresh[s]
    BY <1>2 DEF RefreshStep, StoreTypeOK
  <2>2. \A s \in Tasks : refresh'[s] = refresh[s] \/ ~(Saving(s) \/ Saving(s)')
    BY <1>2, <2>1 DEF Saving
  <2>3. apps' = apps /\ cache' = cache /\ unsaved' = unsaved
    BY <1>2
  <2>4. QED
    BY <1>1, <2>2, <2>3, Zenon
<1>3. CASE SourceStep \/ UNCHANGED storevars
  <2>1. apps' = apps /\ cache' = cache /\ unsaved' = unsaved /\ refresh' = refresh
    BY <1>3 DEF SourceStep, Publish, Delist, storevars
  <2>2. QED
    BY <1>1, <2>1, Zenon
<1>4. ASSUME NEW t \in Tasks, RefreshBegin(t) \/ IndexFails(t) \/ DropRefresh(t)
      PROVE  SaveInv'
  BY <1>2, <1>4, RecordTypes DEF RefreshBegin, IndexFails, DropRefresh, Saving, SavingPCs
<1>5. ASSUME NEW t \in Tasks, IndexAnswers(t) PROVE SaveInv'
  <2>1. [refresh[t] EXCEPT !.pc = "fetch", !.listed = index,
                           !.todo = index, !.previous = apps].pc = "fetch"
    BY DEF StoreTypeOK, Refresh
  <2>2. QED
    BY <1>2, <1>5, <2>1 DEF IndexAnswers, Saving, SavingPCs
<1>6. ASSUME NEW t \in Tasks, NEW a \in Apps, NEW m, Fetched(t, a, m) PROVE SaveInv'
  <2>1. [refresh[t] EXCEPT !.todo = @ \ {a}, !.found[a] = m].pc = "fetch"
    BY <1>6 DEF Fetched, StoreTypeOK, Refresh
  <2>2. QED
    BY <1>2, <1>6, <2>1 DEF Fetched, Saving, SavingPCs
<1>7. ASSUME NEW t \in Tasks, Replace(t) PROVE SaveInv'
  <2>1. /\ refresh'[t].pc = "open" /\ refresh'[t].alone = Quiet
        /\ refresh'[t].found = apps'
    BY <1>7, RecordTypes DEF Replace, NotRefreshing
  <2>2. ASSUME NEW s \in Tasks, s # t
        PROVE  /\ refresh'[s].pc = refresh[s].pc
               /\ refresh'[s].alone => ~Saving(s)
    BY <1>7, <2>2 DEF Replace, StoreTypeOK, Refresh
  <2>3. ~Quiet'
    BY <2>1 DEF Quiet, Saving, SavingPCs
  <2>4. ASSUME NEW s \in Tasks, Saving(s)', refresh'[s].alone
        PROVE  s = t /\ Quiet
    BY <2>1, <2>2, <2>4 DEF Saving
  <2>5. QED
    BY <2>1, <2>2, <2>3, <2>4 DEF SaveInv, Quiet, Saving
<1>8. ASSUME NEW t \in Tasks, CacheOpen(t) PROVE SaveInv'
  <2>1. Saving(t) /\ apps' = apps /\ \A s \in Tasks \ {t} : refresh'[s] = refresh[s]
    BY <1>8 DEF CacheOpen, RefreshStep, Saving, SavingPCs, StoreTypeOK
  <2>2. CASE refresh'[t] = NotRefreshing /\ unsaved'
    BY <2>1, <2>2, RecordTypes DEF SaveInv, Saving, SavingPCs, Quiet
  <2>3. CASE refresh'[t] = [refresh[t] EXCEPT !.pc = "write"]
    <3>1. /\ refresh'[t].pc = "write" /\ refresh'[t].alone = refresh[t].alone
          /\ refresh'[t].found = refresh[t].found
      BY <2>3 DEF StoreTypeOK, Refresh
    <3>2. QED
      BY <2>1, <3>1 DEF SaveInv, Saving, SavingPCs, Quiet
  <2>4. QED
    BY <1>8, <2>2, <2>3 DEF CacheOpen, RefreshStep, StoreTypeOK
<1>9. ASSUME NEW t \in Tasks, CacheWrite(t) PROVE SaveInv'
  <2>1. /\ Saving(t) /\ apps' = apps /\ refresh'[t] = NotRefreshing
        /\ \A s \in Tasks \ {t} : refresh'[s] = refresh[s]
    BY <1>9 DEF CacheWrite, RefreshStep, Saving, SavingPCs, StoreTypeOK
  <2>5. unsaved' \/ (refresh[t].alone /\ cache' = Saved(refresh[t].found))
    <3>1. refresh[t].alone \in BOOLEAN
      BY DEF StoreTypeOK, Refresh
    <3>2. QED
      BY <1>9, <3>1 DEF CacheWrite
  <2>2. ~Saving(t)'
    BY <2>1, RecordTypes DEF Saving, SavingPCs
  <2>3. ~unsaved' => load_cache' = apps'
    BY <2>1, <2>5 DEF SaveInv, load_cache, Saved
  <2>4. QED
    BY <2>1, <2>2, <2>3 DEF SaveInv, Saving, Quiet
<1>10. CASE StoreRestart
  BY <1>10, RecordTypes DEF StoreRestart, SaveInv, Saving, SavingPCs, Quiet, load_cache
<1>11. QED
  BY <1>3, <1>4, <1>5, <1>6, <1>7, <1>8, <1>9, <1>10
  DEF StoreNext, RefreshProgress, FetchAnswers, FetchFails, Tasks

(* A runtime that is killed while no save is under way comes back with the *)
(* catalogue it had, unless the last save failed or overlapped.            *)
THEOREM CatalogueSurvives == StoreSpec => RestartKeepsCatalogue
<1>1. StoreInit => SaveInv
  BY RecordTypes DEF StoreInit, SaveInv, Saving, SavingPCs, load_cache, Unreadable
<1>2. SaveInv /\ [StoreNext]_storevars =>
        [StoreRestart /\ Quiet /\ ~unsaved => apps' = apps]_storevars
  BY DEF SaveInv, StoreRestart
<1>3. QED
  BY <1>1, <1>2, SaveStep, StoreTypeCorrect, PTL DEF StoreSpec, RestartKeepsCatalogue
=============================================================================
