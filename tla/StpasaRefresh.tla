--------------------------- MODULE StpasaRefresh ---------------------------
(***************************************************************************)
(* The one STPASA download every region shares: stpasa_refresh.py, the     *)
(* per-region stpasa_store.py, and the setup and unload of config entries  *)
(* in __init__.py that create, register, seed, fetch, gate and tear down.  *)
(*                                                                         *)
(* Everything runs on one event loop, so an action is the code between two *)
(* awaits, or less of it.  A store's file is written by an executor thread *)
(* while its save waits, and a thread cannot be cancelled.  The            *)
(* coordination object and the dictionary of stores live in hass.data, but *)
(* an entry keeps the ones it met at its own setup: both are numbered,     *)
(* because the last unload drops them.                                     *)
(***************************************************************************)
EXTENDS Naturals, FiniteSets

CONSTANTS
  Regions,    \* the config entries, one per NEM region
  Removable,  \* those whose entry may be unloaded
  Faulty,     \* those whose file may fail to be written
  MaxShared,  \* bound: shared objects of each kind created
  MaxResult,  \* bound: STPASA results; 1 is the previous session's
  MaxStage    \* bound: how far results age (2: until they expire)

ASSUME SRAssumption ==
  /\ Removable \subseteq Regions /\ Faulty \subseteq Regions /\ IsFiniteSet(Regions)
  /\ MaxShared \in Nat \ {0} /\ MaxResult \in Nat \ {0}
  /\ MaxStage \in 0..2

VARIABLES
  hass,    \* hass.data[DOMAIN]: [coord, stores: number or 0; client: present]
  made,    \* how many of each were ever created
  coord,   \* StpasaRefreshCoordination objects
  stores,  \* stpasa_stores dictionaries: the regions registered
  entry,   \* per region: how far async_setup_entry got
  mine,    \* per region: the coord and stores its closures hold
  latest,  \* per region: StpasaStore._latest, a result (0: None)
  disk,    \* per region: the result on .storage (0: none)
  writing, \* per region: the results executor threads are writing there
  forced,  \* per region: _forced_stale_fetch is asleep
  fetch,   \* per region: its claimed _fetch_and_distribute_stpasa
  refit,   \* per region: the startup refit
  newest,  \* the last result downloaded
  got,     \* per result: the object that downloaded it, the regions in it
  joined,  \* history, per region: newest when its store registered
  stage    \* per result: 0 fresh, 1 stale (> 90 min), 2 expired (> 4 h)

sharedVars == <<hass, made, coord, stores>>
storeVars  == <<latest, disk, writing>>
taskVars   == <<forced, fetch, refit>>
results    == <<newest, got>>
vars == <<sharedVars, storeVars, taskVars, entry, mine, joined, results, stage>>

Ids == 0..MaxShared
Results == 0..MaxResult
SettingUp == {"loading", "seeding", "seeded", "refreshing", "platforms"}
Coords == [inFlight : BOOLEAN, recent : BOOLEAN, requested : BOOLEAN,
           outcome : {"none", "fresh", "failed"}, last : Results]
Fetches == [at : {"none", "download", "saving"}, stores : Ids,
            todo : SUBSET Regions, now : SUBSET Regions, result : Results]

NewCoord == [inFlight |-> FALSE, recent |-> FALSE, requested |-> FALSE,
             outcome |-> "none", last |-> 0]
NoFetch == [at |-> "none", stores |-> 0, todo |-> {}, now |-> {}, result |-> 0]

Usable(n) == n # 0 /\ stage[n] < 2          \* _cache_status is not "expired"
Serves(r) == Usable(latest[r])              \* latest() is not None
MyCoord(r) == coord[mine[r].coord]
Offers(c, r) == Usable(c.last) /\ r \in got[c.last].holds   \* result_for() is of use
Pending(c) == c.requested /\ c.outcome = "none"   \* fetch_pending

Init ==
  /\ hass = [coord |-> 0, stores |-> 0, client |-> FALSE]
  /\ made = [coord |-> 0, stores |-> 0]
  /\ coord = [c \in 1..MaxShared |-> NewCoord]
  /\ stores = [s \in 1..MaxShared |-> {}]
  /\ entry = [r \in Regions |-> "off"]
  /\ mine = [r \in Regions |-> [coord |-> 0, stores |-> 0]]
  /\ latest = [r \in Regions |-> 0]
  /\ disk \in [Regions -> {0, 1}]
  /\ writing = [r \in Regions |-> {}]
  /\ forced = [r \in Regions |-> FALSE]
  /\ fetch = [r \in Regions |-> NoFetch]
  /\ refit = [r \in Regions |-> "none"]
  /\ newest = 1 /\ joined = [r \in Regions |-> 0]
  /\ got = [n \in 1..MaxResult |-> [by |-> 0, holds |-> {}]]
  /\ stage \in {[n \in 1..MaxResult |-> IF n = 1 THEN s ELSE 0] : s \in 0..MaxStage}

-----------------------------------------------------------------------------
(* Time *)

(* Results age in the order they were fetched, and the newest is not an hour *)
(* old while its claim is not ten minutes old.                               *)
Age(n) ==
  /\ n <= newest /\ stage[n] < MaxStage
  /\ \A m \in 1..n - 1 : stage[m] > stage[n]
  /\ n = newest => \A c \in 1..MaxShared : ~coord[c].recent
  /\ stage' = [stage EXCEPT ![n] = @ + 1]
  /\ UNCHANGED <<sharedVars, storeVars, taskVars, entry, mine, joined, results>>

(* MIN_FETCH_INTERVAL has passed since the last claim. *)
WindowPasses(c) ==
  /\ coord[c].recent
  /\ coord' = [coord EXCEPT ![c].recent = FALSE]
  /\ UNCHANGED <<hass, made, stores, storeVars, taskVars, entry, mine, joined, results, stage>>

-----------------------------------------------------------------------------
(* async_setup_entry *)

(* setdefault of the coordination object, then await stpasa_store.load(). *)
SetupStart(r) ==
  /\ entry[r] = "off"
  /\ hass.coord # 0 \/ made.coord < MaxShared
  /\ LET c == IF hass.coord # 0 THEN hass.coord ELSE made.coord + 1
     IN /\ hass' = [hass EXCEPT !.coord = c]
        /\ made' = [made EXCEPT !.coord = IF hass.coord # 0 THEN @ ELSE c]
        /\ mine' = [mine EXCEPT ![r].coord = c]
  /\ entry' = [entry EXCEPT ![r] = "loading"]
  /\ UNCHANGED <<coord, stores, storeVars, taskVars, joined, results, stage>>

SeedsIfNothingOnDisk(r, loaded) == disk[r] = 0 /\ Offers(MyCoord(r), r)

(* seed_from(): a store with nothing to serve takes its part of the last     *)
(* download.                                                                 *)
Seeds(r, loaded) == loaded = 0 /\ Offers(MyCoord(r), r)

(* Register the store where hass.data keeps them now, then seed it: save()   *)
(* keeps the result and waits for the thread that writes it.                 *)
Register(r, loaded) ==
  LET s == IF hass.stores # 0 THEN hass.stores ELSE made.stores + 1
      last == MyCoord(r).last
  IN /\ hass.stores # 0 \/ made.stores < MaxShared
     /\ hass' = [hass EXCEPT !.stores = s]
     /\ made' = [made EXCEPT !.stores = IF hass.stores # 0 THEN @ ELSE s]
     /\ mine' = [mine EXCEPT ![r].stores = s]
     /\ stores' = [stores EXCEPT ![s] = @ \cup {r}]
     /\ latest' = [latest EXCEPT ![r] = IF Seeds(r, loaded) THEN last ELSE loaded]
     /\ writing' = [writing EXCEPT ![r] = IF Seeds(r, loaded) THEN @ \cup {last} ELSE @]
     /\ entry' = [entry EXCEPT ![r] = IF Seeds(r, loaded) THEN "seeding" ELSE "seeded"]
     /\ joined' = [joined EXCEPT ![r] = newest]
     /\ UNCHANGED <<disk, taskVars, results, stage>>

(* load(): a stale or missing cache asks for the immediate fetch. *)
StoreLoaded(r) ==
  /\ entry[r] = "loading"
  /\ LET n == disk[r]
     IN /\ coord' = [coord EXCEPT ![mine[r].coord].requested = @ \/ ~Usable(n) \/ stage[n] = 1]
        /\ Register(r, IF Usable(n) THEN n ELSE 0)

(* The storage read raised: nothing loaded and nothing asked for. *)
StoreLoadRaised(r) ==
  /\ entry[r] = "loading"
  /\ Register(r, 0)
  /\ UNCHANGED coord

SeedSaved(r) ==
  /\ entry[r] = "seeding" /\ MyCoord(r).last \notin writing[r]
  /\ entry' = [entry EXCEPT ![r] = "seeded"]
  /\ UNCHANGED <<sharedVars, storeVars, taskVars, mine, joined, results, stage>>

(* Past the notice store: the shared client exists. *)
ShareClient(r) ==
  /\ entry[r] = "seeded"
  /\ hass' = [hass EXCEPT !.client = TRUE]
  /\ entry' = [entry EXCEPT ![r] = "refreshing"]
  /\ UNCHANGED <<made, coord, stores, storeVars, taskVars, mine, joined, results, stage>>

(* The triggers: a listener on the PD7DAY coordinator and, when a fetch is   *)
(* pending or nothing can be served, the forced fetch five seconds from now. *)
StartTriggers(r) ==
  /\ entry[r] = "refreshing"
  /\ forced' = [forced EXCEPT ![r] = Pending(MyCoord(r)) \/ ~Serves(r)]
  /\ entry' = [entry EXCEPT ![r] = "platforms"]
  /\ UNCHANGED <<sharedVars, storeVars, fetch, refit, mine, joined, results, stage>>

(* Platforms are up; with ten observations the startup refit runs, held back *)
(* while an immediate fetch is pending.                                      *)
FinishSetup(r) ==
  /\ entry[r] = "platforms"
  /\ \E enough \in BOOLEAN :
       refit' = [refit EXCEPT ![r] = IF ~enough THEN "none"
                                     ELSE IF Pending(MyCoord(r)) THEN "waiting" ELSE "running"]
  /\ entry' = [entry EXCEPT ![r] = "loaded"]
  /\ UNCHANGED <<sharedVars, storeVars, forced, fetch, mine, joined, results, stage>>

(* The entry's tasks are cancelled and its objects dropped: a cancelled      *)
(* _fetch_and_distribute_stpasa ends without a mark_fresh() or mark_failed(), *)
(* at the download or in the middle of a save, whose thread writes on.       *)
CancelTasks(r) ==
  /\ entry' = [entry EXCEPT ![r] = "off"]
  /\ latest' = [latest EXCEPT ![r] = 0]
  /\ forced' = [forced EXCEPT ![r] = FALSE]
  /\ fetch' = [fetch EXCEPT ![r] = NoFetch]
  /\ refit' = [refit EXCEPT ![r] = "none"]
  /\ mine' = [mine EXCEPT ![r] = [coord |-> 0, stores |-> 0]]
  /\ joined' = [joined EXCEPT ![r] = 0]
  /\ UNCHANGED <<made, coord, disk, writing, results, stage>>

TearDownKeepingStore(r) == CancelTasks(r) /\ UNCHANGED stores

(* ... and so does _forget_stpasa_store, the on-unload callback. *)
TearDown(r) ==
  /\ stores' = [stores EXCEPT ![mine[r].stores] = @ \ {r}]
  /\ CancelTasks(r)

(* The first refresh raised ConfigEntryNotReady: Home Assistant tries later. *)
SetupFails(r) ==
  /\ entry[r] = "refreshing"
  /\ TearDown(r)
  /\ UNCHANGED hass

(* async_unload_entry: the last LOADED entry also drops the shared objects.  *)
Unload(r) ==
  /\ entry[r] = "loaded" /\ r \in Removable
  /\ hass' = IF \E o \in Regions \ {r} : entry[o] = "loaded" THEN hass
             ELSE [coord |-> 0, stores |-> 0, client |-> FALSE]
  /\ TearDown(r)

-----------------------------------------------------------------------------
(* _fetch_and_distribute_stpasa *)

ClaimWhileInFlight(r) ==
  /\ hass.client /\ hass.stores # 0 /\ stores[hass.stores] # {}
  /\ ~MyCoord(r).recent

(* The early returns, then claim_fetch(). *)
CanClaim(r) ==
  /\ hass.client /\ hass.stores # 0 /\ stores[hass.stores] # {}
  /\ ~MyCoord(r).inFlight /\ ~MyCoord(r).recent

(* Up to the await on the download. *)
Fetch(r) ==
  IF CanClaim(r)
  THEN /\ coord' = [coord EXCEPT ![mine[r].coord].inFlight = TRUE,
                                 ![mine[r].coord].recent = TRUE]
       /\ fetch' = [fetch EXCEPT ![r] = [NoFetch EXCEPT !.at = "download",
                                                        !.stores = hass.stores]]
  ELSE UNCHANGED <<coord, fetch>>

(* The PD7DAY coordinator updated. *)
Update(r) ==
  /\ entry[r] \in {"platforms", "loaded"} /\ CanClaim(r)
  /\ Fetch(r)
  /\ UNCHANGED <<hass, made, stores, storeVars, forced, refit, entry, mine, joined, results, stage>>

ForcedFetch(r) ==
  /\ forced[r] /\ forced' = [forced EXCEPT ![r] = FALSE]
  /\ Fetch(r)
  /\ UNCHANGED <<hass, made, stores, storeVars, refit, entry, mine, joined, results, stage>>

(* mark_fresh() / mark_failed(), then the task ends. *)
Mark(r, outcome, last) ==
  /\ coord' = [coord EXCEPT ![mine[r].coord].inFlight = FALSE,
                            ![mine[r].coord].outcome = outcome,
                            ![mine[r].coord].last = last]
  /\ fetch' = [fetch EXCEPT ![r] = NoFetch]

RaiseUnmarked(r) ==
  /\ fetch[r].at = "download"
  /\ fetch' = [fetch EXCEPT ![r] = NoFetch]
  /\ UNCHANGED <<hass, made, coord, stores, storeVars, forced, refit, entry, mine, joined, results, stage>>

(* The download raised, or the distribution of an empty response forgot the  *)
(* previous one: failed either way.                                          *)
DownloadFails(r) ==
  /\ fetch[r].at = "download"
  /\ \E last \in {MyCoord(r).last, 0} : Mark(r, "failed", last)
  /\ UNCHANGED <<hass, made, stores, storeVars, forced, refit, entry, mine, joined, results, stage>>

(* distribute() keeps the results before its first await.  They are those of *)
(* the regions found in the file, not always every entry's ...               *)
DownloadReturns(r) ==
  /\ fetch[r].at = "download" /\ newest < MaxResult
  /\ newest' = newest + 1
  /\ \E held \in SUBSET Regions :
       /\ got' = [got EXCEPT ![newest + 1] = [by |-> mine[r].coord, holds |-> held]]
       /\ fetch' = [fetch EXCEPT ![r].at = "saving", ![r].todo = held, ![r].result = newest + 1]
  /\ coord' = [coord EXCEPT ![mine[r].coord].last = newest + 1]
  /\ UNCHANGED <<hass, made, stores, storeVars, forced, refit, entry, mine, joined, stage>>

(* ... and looks each region's store up when its turn comes: save() moves    *)
(* _latest, then awaits a thread that writes the file.                       *)
BeginSave(r, s) ==
  /\ fetch[r].at = "saving" /\ fetch[r].now = {}
  /\ s \in fetch[r].todo \cap stores[fetch[r].stores]
  /\ latest' = [latest EXCEPT ![s] = fetch[r].result]
  /\ writing' = [writing EXCEPT ![s] = @ \cup {fetch[r].result}]
  /\ fetch' = [fetch EXCEPT ![r].todo = @ \ {s}, ![r].now = {s}]
  /\ UNCHANGED <<sharedVars, disk, forced, refit, entry, mine, joined, results, stage>>

(* A region with no store registered is passed over. *)
PassOver(r, s) ==
  /\ fetch[r].at = "saving" /\ fetch[r].now = {}
  /\ s \in fetch[r].todo \ stores[fetch[r].stores]
  /\ fetch' = [fetch EXCEPT ![r].todo = @ \ {s}]
  /\ UNCHANGED <<sharedVars, storeVars, forced, refit, entry, mine, joined, results, stage>>

(* The thread ends, whatever became of the save that waits for it or of the  *)
(* entry ...                                                                 *)
WriteEnds(s, n) ==
  /\ n \in writing[s]
  /\ writing' = [writing EXCEPT ![s] = @ \ {n}]
  /\ disk' = [disk EXCEPT ![s] = n]
  /\ UNCHANGED <<sharedVars, latest, taskVars, entry, mine, joined, results, stage>>

(* ... or fails, which Home Assistant logs and the save does not see. *)
WriteFails(s, n) ==
  /\ s \in Faulty /\ n \in writing[s]
  /\ writing' = [writing EXCEPT ![s] = @ \ {n}]
  /\ UNCHANGED <<disk, sharedVars, latest, taskVars, entry, mine, joined, results, stage>>

Written(r) ==
  /\ fetch[r].now # {}
  /\ \A s \in fetch[r].now : fetch[r].result \notin writing[s]

(* save() returns, its listeners told; the loop goes on. *)
SaveReturns(r) ==
  /\ Written(r)
  /\ fetch' = [fetch EXCEPT ![r].now = {}]
  /\ UNCHANGED <<sharedVars, storeVars, forced, refit, entry, mine, joined, results, stage>>

(* A listener raises, after _latest moved; the regions left get nothing. *)
SaveRaises(r) ==
  /\ Written(r)
  /\ Mark(r, "failed", MyCoord(r).last)
  /\ UNCHANGED <<hass, made, stores, storeVars, forced, refit, entry, mine, joined, results, stage>>

Distributed(r) ==
  /\ fetch[r].at = "saving" /\ fetch[r].todo = {} /\ fetch[r].now = {}
  /\ Mark(r, "fresh", MyCoord(r).last)
  /\ UNCHANGED <<hass, made, stores, storeVars, forced, refit, entry, mine, joined, results, stage>>

-----------------------------------------------------------------------------
(* run_refit_when_stpasa_ready, and the refit itself *)

GateOpens(r) ==
  /\ refit[r] = "waiting" /\ MyCoord(r).outcome # "none"
  /\ refit' = [refit EXCEPT ![r] = "running"]
  /\ UNCHANGED <<sharedVars, storeVars, forced, fetch, entry, mine, joined, results, stage>>

(* REFIT_WAIT_TIMEOUT_S *)
GateTimesOut(r) ==
  /\ refit[r] = "waiting" /\ MyCoord(r).outcome = "none"
  /\ refit' = [refit EXCEPT ![r] = "running"]
  /\ UNCHANGED <<sharedVars, storeVars, forced, fetch, entry, mine, joined, results, stage>>

(* _do_refit ends by pushing coordinator.data, which fires the fetch trigger. *)
RefitDone(r) ==
  /\ refit[r] = "running"
  /\ refit' = [refit EXCEPT ![r] = "none"]
  /\ Fetch(r)
  /\ UNCHANGED <<hass, made, stores, storeVars, forced, entry, mine, joined, results, stage>>

-----------------------------------------------------------------------------
Setup(r) ==
  \/ SetupStart(r) \/ StoreLoaded(r) \/ StoreLoadRaised(r) \/ SeedSaved(r) \/ ShareClient(r)
  \/ StartTriggers(r) \/ FinishSetup(r) \/ SetupFails(r)

Fetching(r) ==
  \/ DownloadFails(r) \/ DownloadReturns(r) \/ Distributed(r) \/ SaveReturns(r) \/ SaveRaises(r)
  \/ \E s \in Regions : BeginSave(r, s) \/ PassOver(r, s)

Refitting(r) == GateOpens(r) \/ GateTimesOut(r) \/ RefitDone(r)

Next ==
  \/ \E n \in 1..MaxResult : Age(n)
  \/ \E c \in 1..MaxShared : WindowPasses(c)
  \/ \E r \in Regions, n \in 1..MaxResult : WriteEnds(r, n) \/ WriteFails(r, n)
  \/ \E r \in Regions :
       Setup(r) \/ Unload(r) \/ Update(r) \/ ForcedFetch(r) \/ Fetching(r) \/ Refitting(r)

Spec == Init /\ [][Next]_vars

(* Home Assistant sets every entry up and retries one that was not ready,    *)
(* which succeeds once NEMWEB answers; sleeps, downloads (bounded by their    *)
(* own timeouts and retries), writes and waits end.                          *)
FairSpec ==
  /\ Spec
  /\ \A r \in Regions : WF_vars(Setup(r)) /\ SF_vars(StartTriggers(r))
  /\ \A r \in Regions :
       /\ WF_vars(ForcedFetch(r)) /\ WF_vars(Fetching(r)) /\ WF_vars(Refitting(r))
       /\ WF_vars(\E n \in 1..MaxResult : WriteEnds(r, n))

-----------------------------------------------------------------------------
(* Properties *)

SharedOK ==
  /\ hass \in [coord : Ids, stores : Ids, client : BOOLEAN]
  /\ made \in [coord : Ids, stores : Ids]
  /\ hass.coord <= made.coord /\ hass.stores <= made.stores
  /\ coord \in [1..MaxShared -> Coords] /\ stores \in [1..MaxShared -> SUBSET Regions]

EntriesOK ==
  /\ entry \in [Regions -> SettingUp \cup {"off", "loaded"}]
  /\ mine \in [Regions -> [coord : Ids, stores : Ids]]
  /\ \A r \in Regions :
       /\ entry[r] = "off" <=> mine[r].coord = 0
       /\ entry[r] \in {"off", "loading"} <=> mine[r].stores = 0

StoresOK ==
  /\ latest \in [Regions -> 0..newest] /\ disk \in [Regions -> 0..newest]
  /\ writing \in [Regions -> SUBSET (1..newest)] /\ joined \in [Regions -> 0..newest]
  /\ got \in [1..MaxResult -> [by : Ids, holds : SUBSET Regions]]
  /\ newest \in 1..MaxResult /\ stage \in [1..MaxResult -> 0..2]

FetchesOK ==
  /\ forced \in [Regions -> BOOLEAN] /\ fetch \in [Regions -> Fetches]
  /\ refit \in [Regions -> {"none", "waiting", "running"}]

TypeOK == SharedOK /\ EntriesOK /\ StoresOK /\ FetchesOK

(* However many regions fire in one cycle, and however long a download       *)
(* takes, a coordination object has at most one fetch under way              *)
(* (claim_fetch, #37).                                                       *)
SingleDownload ==
  \A r, o \in Regions :
    r # o /\ fetch[r].at # "none" /\ fetch[o].at # "none" => mine[r].coord # mine[o].coord

(* Neither the central fetch nor a seed begins to write the .storage file of *)
(* a region whose entry is unloaded, even one unloaded in the middle of a    *)
(* distribution or of its own save (#106): what a thread was already writing *)
(* may still land after the unload, nothing else does.                       *)
UnloadedNotSaved ==
  [][\A r \in Regions :
       /\ ~(writing'[r] \subseteq writing[r]) => entry[r] # "off"
       /\ disk'[r] # disk[r] => disk'[r] \in writing[r]]_vars

(* What result n, downloaded with the shared objects, did for a region in it *)
(* that was set up with them: it has something to serve, and n itself if it  *)
(* was registered before n was downloaded, unless an entry left with an      *)
(* earlier, dropped coordination object has put its own download there since. *)
Reached(r, n) ==
  mine[r].coord = hass.coord /\ r \in got[n].holds =>
    /\ latest[r] # 0
    /\ joined[r] < n => latest[r] = n \/ got[latest[r]].by \notin {0, hass.coord}

(* Once a fetch has resolved fresh, and while that download is usable, it    *)
(* has reached every registered store, whatever failed, unloaded or          *)
(* registered meanwhile and however stale what the store had (#346).  A      *)
(* store that registered later was seeded, or keeps the cache it loaded.     *)
FreshReachesEveryStore ==
  hass.coord # 0 /\ hass.stores # 0 =>
    LET c == coord[hass.coord]
    IN c.outcome = "fresh" /\ ~c.inFlight /\ Usable(c.last) =>
         \A r \in stores[hass.stores] : Reached(r, c.last)

(* A wanted immediate fetch resolves one way or the other, whichever region  *)
(* carries it out and whatever the 10 minute window suppressed.              *)
PendingFetchResolves ==
  \A c \in 1..MaxShared : Pending(coord[c]) ~> ~Pending(coord[c])

(* stpasa_refresh.py 160-161: a refused claim means that another region      *)
(* already has this cycle, so a held claim has a fetch behind it.            *)
ClaimHasAHolder ==
  hass.coord # 0 /\ coord[hass.coord].inFlight =>
    \E r \in Regions : mine[r].coord = hass.coord /\ fetch[r].at # "none"

=============================================================================
