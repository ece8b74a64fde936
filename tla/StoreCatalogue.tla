--------------------------- MODULE StoreCatalogue ---------------------------
(***************************************************************************)
(* The store catalogue of src/service/store.rs: refreshes of the whole     *)
(* catalogue from a source that answers for some applications and not for  *)
(* others, the cache file they write, and a restart that reads it back.    *)
(*                                                                         *)
(* main.rs refreshes once in a task of its own when the runtime starts;    *)
(* the API refreshes whenever it is asked to, at the same time if need be. *)
(* A manifest is the number of its publication; 0 stands for none.         *)
(***************************************************************************)
EXTENDS Naturals, FiniteSets

CONSTANTS
    Apps,         \* application ids of the source
    Callers,      \* concurrent API requests
    Boot,         \* the task that refreshes when the runtime starts
    MaxVersion,   \* bound: publications of an application
    DiskMayFail,  \* operations on the disk may fail
    MaxBusy       \* bound: tasks in progress at once

Tasks == Callers \cup {Boot}

ASSUME StoreAssumption ==
    /\ MaxVersion \in Nat \ {0} /\ MaxBusy \in Nat
    /\ DiskMayFail \in BOOLEAN
    /\ Boot \notin Callers

VARIABLES
    source,    \* id -> the manifest the source publishes
    index,     \* the ids its index.json lists
    apps,      \* the catalogue, id -> manifest
    cache,     \* the file store-cache.json
    refresh,   \* task -> its position in refresh_source
    unsaved    \* history: the last save failed, or overlapped with another

storevars == <<source, index, apps, cache, refresh, unsaved>>

-----------------------------------------------------------------------------
Manifests == 0..MaxVersion
Catalogue == [Apps -> Manifests]
NoApps == [a \in Apps |-> 0]

(* blank: not there, or truncated and not yet written.                     *)
CacheFile == [state : {"blank", "garbled", "whole"}, content : Catalogue]
Unreadable(state) == [state |-> state, content |-> NoApps]
Saved(c) == [state |-> "whole", content |-> c]

(* History: alone is whether no other save overlapped with this one so far. *)
Refresh ==
    [pc : {"idle", "index", "fetch", "open", "write"}, listed : SUBSET Apps,
     todo : SUBSET Apps, previous : Catalogue, found : Catalogue, alone : BOOLEAN]

NotRefreshing == [pc |-> "idle", listed |-> {}, todo |-> {}, previous |-> NoApps,
                  found |-> NoApps, alone |-> TRUE]
Refreshing == [NotRefreshing EXCEPT !.pc = "index"]

StoreTypeOK ==
    /\ source \in [Apps -> 1..MaxVersion]
    /\ index \subseteq Apps
    /\ apps \in Catalogue
    /\ cache \in CacheFile
    /\ refresh \in [Tasks -> Refresh]
    /\ unsaved \in BOOLEAN

SavingPCs == {"open", "write"}
Saving(t) == refresh[t].pc \in SavingPCs
Quiet == \A t \in Tasks : ~Saving(t)

-----------------------------------------------------------------------------
(* The source, which belongs to somebody else.                             *)

Publish(a) ==
    /\ source[a] < MaxVersion
    /\ source' = [source EXCEPT ![a] = @ + 1]
    /\ index' = index \cup {a}
    /\ UNCHANGED <<apps, cache, refresh, unsaved>>

Delist(a) ==
    /\ a \in index
    /\ index' = index \ {a}
    /\ UNCHANGED <<source, apps, cache, refresh, unsaved>>

-----------------------------------------------------------------------------
(* refresh_source.                                                         *)

RefreshStep(t, r) ==
    /\ refresh' = [refresh EXCEPT ![t] = r]
    /\ UNCHANGED <<source, index>>

RefreshBegin(t) ==
    /\ refresh[t].pc = "idle"
    /\ RefreshStep(t, Refreshing)
    /\ UNCHANGED <<apps, cache, unsaved>>

(* No index, no refresh: the catalogue stays as it is.                     *)
IndexFails(t) ==
    /\ refresh[t].pc = "index"
    /\ RefreshStep(t, NotRefreshing)
    /\ UNCHANGED <<apps, cache, unsaved>>

(* What a failed fetch falls back on is the catalogue of this moment.      *)
IndexAnswers(t) ==
    /\ refresh[t].pc = "index"
    /\ RefreshStep(t, [refresh[t] EXCEPT !.pc = "fetch", !.listed = index,
                                         !.todo = index, !.previous = apps])
    /\ UNCHANGED <<apps, cache, unsaved>>

Fetched(t, a, m) ==
    /\ refresh[t].pc = "fetch" /\ a \in refresh[t].todo
    /\ RefreshStep(t, [refresh[t] EXCEPT !.todo = @ \ {a}, !.found[a] = m])
    /\ UNCHANGED <<apps, cache, unsaved>>

FetchAnswers(t, a) == Fetched(t, a, source[a])

Mutant_FetchFails(t, a) == Fetched(t, a, 0)

FetchFails(t, a) == Fetched(t, a, refresh[t].previous[a])

Mutant_Replace(t) ==
    /\ refresh[t].pc = "fetch" /\ refresh[t].todo = {}
    /\ apps' = [a \in Apps |-> IF refresh[t].found[a] = 0 THEN apps[a] ELSE refresh[t].found[a]]
    /\ refresh' = [s \in Tasks |->
          IF s = t THEN [NotRefreshing EXCEPT !.pc = "open", !.alone = Quiet,
                                              !.found = refresh[t].found]
          ELSE [refresh[s] EXCEPT !.alone = @ /\ ~Saving(s)]]
    /\ UNCHANGED <<source, index, cache, unsaved>>

(* The whole catalogue is replaced.  Saving it is not under the lock, and  *)
(* needs nothing but what was found.                                       *)
Replace(t) ==
    /\ refresh[t].pc = "fetch" /\ refresh[t].todo = {}
    /\ apps' = refresh[t].found
    /\ refresh' = [s \in Tasks |->
          IF s = t THEN [NotRefreshing EXCEPT !.pc = "open", !.alone = Quiet,
                                              !.found = refresh[t].found]
          ELSE [refresh[s] EXCEPT !.alone = @ /\ ~Saving(s)]]
    /\ UNCHANGED <<source, index, cache, unsaved>>

(* save_cache creates the directory and opens the file, which empties it.  *)
(* A failure is only logged.                                               *)
CacheOpen(t) ==
    /\ refresh[t].pc = "open"
    /\ \/ /\ cache' = Unreadable("blank")
          /\ RefreshStep(t, [refresh[t] EXCEPT !.pc = "write"])
          /\ UNCHANGED unsaved
       \/ /\ DiskMayFail
          /\ RefreshStep(t, NotRefreshing)
          /\ unsaved' = TRUE
          /\ UNCHANGED cache
    /\ UNCHANGED apps

(* Over what another save has written since, a shorter text leaves the end *)
(* of the longer one.                                                      *)
CacheWrite(t) ==
    /\ refresh[t].pc = "write"
    /\ \/ /\ cache' = Saved(refresh[t].found)
          /\ unsaved' = ~refresh[t].alone
       \/ /\ cache.state # "blank" \/ DiskMayFail
          /\ cache' = Unreadable("garbled")
          /\ unsaved' = TRUE
    /\ RefreshStep(t, NotRefreshing)
    /\ UNCHANGED apps

(* A request is cut off at an await; a save has none.                      *)
DropRefresh(t) ==
    /\ t \in Callers
    /\ refresh[t].pc \in {"index", "fetch"}
    /\ RefreshStep(t, NotRefreshing)
    /\ UNCHANGED <<apps, cache, unsaved>>

-----------------------------------------------------------------------------
(* A missing or unreadable file is an empty catalogue.                     *)
load_cache == IF cache.state = "whole" THEN cache.content ELSE NoApps

(* The runtime is killed at any moment and starts again.                   *)
StoreRestart ==
    /\ apps' = load_cache
    /\ refresh' = [t \in Tasks |-> IF t = Boot THEN Refreshing ELSE NotRefreshing]
    /\ UNCHANGED <<source, index, cache, unsaved>>

StoreInit ==
    /\ source = [a \in Apps |-> 1] /\ index = Apps
    /\ cache = Unreadable("blank")
    /\ apps = load_cache
    /\ refresh = [t \in Tasks |-> IF t = Boot THEN Refreshing ELSE NotRefreshing]
    /\ unsaved = FALSE

SourceStep == \E a \in Apps : Publish(a) \/ Delist(a)

RefreshProgress(t) ==
    \/ IndexFails(t) \/ IndexAnswers(t)
    \/ \E a \in Apps : FetchAnswers(t, a) \/ FetchFails(t, a)
    \/ Replace(t) \/ CacheOpen(t) \/ CacheWrite(t)

StoreNext ==
    \/ SourceStep
    \/ \E t \in Callers : RefreshBegin(t)
    \/ \E t \in Tasks : RefreshProgress(t) \/ DropRefresh(t)
    \/ StoreRestart

StoreSpec == StoreInit /\ [][StoreNext]_storevars

-----------------------------------------------------------------------------
(* "单个 app.yml 失败时用它兜底，避免一次网络抖动就把整个商店清空": a refresh   *)
(* loses no application that the index lists and brings no manifest back   *)
(* that was already replaced, whichever fetches fail - as long as no other *)
(* refresh has changed the catalogue since it began.                       *)
RefreshKeepsListed ==
    [][\A t \in Tasks :
          /\ refresh[t].pc = "fetch" /\ refresh'[t].pc = "open"
          /\ apps = refresh[t].previous
          => \A a \in refresh[t].listed : apps'[a] >= apps[a]]_storevars

(* "缓存用于跨重启保留上一次成功获取到的清单": unless the last save failed, or *)
(* overlapped with another, a runtime that is killed while none is under   *)
(* way comes back with the catalogue it had.                               *)
RestartKeepsCatalogue ==
    [][StoreRestart /\ Quiet /\ ~unsaved => apps' = apps]_storevars
=============================================================================
