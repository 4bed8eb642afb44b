---------------------------- MODULE PublishCycle ----------------------------
(***************************************************************************)
(* One region's PD7DAY run from AEMO's publish slot to the entities: the   *)
(* daily timers (fetch_scheduler.py), the refreshes they and the setup     *)
(* start (__init__.py, coordinator.py), the cache a restart restores       *)
(* (forecast_store.py), and what the entities are told of staleness        *)
(* (coordinator.py, staleness_attributes).                                 *)
(*                                                                         *)
(* A tick stands for the time a timer may be late; a run is the tick of    *)
(* the slot it was published for.  Several refreshes of one coordinator    *)
(* may be under way; each waits for the fetch lock, the store's write lock *)
(* and the notice lock in the order in which they came.                    *)
(***************************************************************************)
EXTENDS Integers, FiniteSets, FiniteSetsExt, SequencesExt

CONSTANTS
  Slots,    \* FETCH_TIMES_NEM, as ticks of the day
  Day,      \* ticks in a day
  Grace,    \* STALE_RUN_GRACE_MIN
  MaxAge,   \* _CACHE_MAX_AGE_S
  MaxTick    \* bound of this model: the last tick

\* What this module assumes of its constants.
PublishAssumption ==
  /\ Slots \subseteq 0..(Day - 1) /\ Slots # {}
  /\ Day \in Nat \ {0} /\ {Grace, MaxAge, MaxTick} \subseteq Nat
  /\ \A s \in Slots : s + Grace <= Day      \* a slot is missed on its own day

Absent == -1

VARIABLES
  clock, newest,     \* the clock, the newest run on NEMWEB
  held,              \* the run the shared fetcher parsed last
  phase,             \* the entry: off, loading, loaded
  pending, halted,   \* DailyFetchScheduler: fire time of each slot's timer
  order, stage, got, \* refreshes in the order they came, how far, with what run
  data, stale,       \* coordinator.data (its run), serving_stale
  firstDone,         \* _first_refresh_done
  cache,             \* the forecast cache: its run and updated_at
  orphan             \* a save under way for a coordinator already unloaded

world == <<clock, newest, held>>
slotTimers == <<pending, halted>>
tasks == <<order, stage, got>>
served == <<data, stale, firstDone>>
publishVars == <<world, phase, slotTimers, tasks, served, cache, orphan>>

SetupRefresh == <<"setup", 0>>
DelayedRefresh == <<"delayed", 0>>
ServiceRefresh == <<"service", 0>>
SlotRefresh(s) == <<"slot", s>>
Refreshes ==
  {SetupRefresh, DelayedRefresh, ServiceRefresh} \union {SlotRefresh(s) : s \in Slots}

NoCache == [run |-> Absent, at |-> 0]
Ticks == 0..MaxTick
Runs == {t \in Ticks : t % Day \in Slots}
Saves == [run : Runs \union {Absent}, at : Ticks]

PublishInit ==
  /\ clock = 0 /\ newest = Absent /\ held = Absent /\ phase = "off"
  /\ pending = [s \in Slots |-> Absent] /\ halted = TRUE
  /\ order = <<>> /\ stage = [k \in Refreshes |-> "idle"]
  /\ got = [k \in Refreshes |-> NoCache]
  /\ data = Absent /\ stale = FALSE /\ firstDone = FALSE
  /\ cache = NoCache /\ orphan = NoCache

-----------------------------------------------------------------------------
(* The world *)

SlotDue(s) == pending[s] # Absent /\ pending[s] <= clock

\* The clock; a timer fires within its tick.
ClockTick ==
  /\ clock < MaxTick /\ \A s \in Slots : ~SlotDue(s)
  /\ clock' = clock + 1
  /\ UNCHANGED <<newest, held, phase, slotTimers, tasks, served, cache, orphan>>

\* AEMO publishes the run of a slot, on time or late.
PublishRun ==
  \E r \in Runs :
    /\ newest < r /\ r <= clock
    /\ newest' = r
    /\ UNCHANGED <<clock, held, phase, slotTimers, tasks, served, cache, orphan>>

-----------------------------------------------------------------------------
(* DailyFetchScheduler *)

\* next_utc_fire(): the slot's next tick, strictly after now.
NextFire(s) == Min({t \in (clock + 1)..(clock + Day) : t % Day = s})

\* _arm(): nothing once cancel_all() was called.
Armed(s) ==
  [pending EXCEPT ![s] = IF halted THEN Absent ELSE NextFire(s)]

\* Stages of a refresh: its turn, fetched, saved (and at the notices).
AskRefresh(k) ==
  /\ order' = Append(order, k)
  /\ stage' = [stage EXCEPT ![k] = "asked"]
  /\ UNCHANGED got

\* As if the slot were armed again only after an action that did not raise.
SlotFiresWithoutFinally(s) ==
  /\ SlotDue(s)
  /\ \E raised \in BOOLEAN :
       IF raised \/ stage[SlotRefresh(s)] # "idle"
       THEN pending' = [pending EXCEPT ![s] = Absent] /\ UNCHANGED tasks
       ELSE pending' = Armed(s) /\ AskRefresh(SlotRefresh(s))
  /\ UNCHANGED <<world, phase, halted, served, cache, orphan>>

\* _on_fire(): the action starts the scheduled fetch, or raises; either way the
\* slot is armed again.  (This model runs one fetch per slot at a time.)
SlotFires(s) ==
  /\ SlotDue(s)
  /\ pending' = Armed(s)
  /\ \E raised \in BOOLEAN :
       IF raised \/ stage[SlotRefresh(s)] # "idle" THEN UNCHANGED tasks
       ELSE AskRefresh(SlotRefresh(s))
  /\ UNCHANGED <<world, phase, halted, served, cache, orphan>>

-----------------------------------------------------------------------------
(* Setup and unload *)

\* ForecastStore.load(): what is on disk, unless it is too old.
Cached == cache.run # Absent /\ clock - cache.at <= MaxAge

\* Phase 1: the cache is served at once and a refresh queued, else setup blocks.
SetUp ==
  /\ phase = "off"
  /\ phase' = "loading" /\ halted' = FALSE
  /\ stale' = FALSE /\ firstDone' = FALSE
  /\ data' = (IF Cached THEN cache.run ELSE Absent)
  /\ AskRefresh(IF Cached THEN DelayedRefresh ELSE SetupRefresh)
  /\ UNCHANGED <<world, pending, cache, orphan>>

\* The platforms are up: every slot is armed and the unload hook registered.
StartScheduler ==
  /\ phase = "loading" /\ stage[SetupRefresh] = "idle" /\ data # Absent
  /\ phase' = "loaded"
  /\ pending' = [s \in Slots |-> NextFire(s)]
  /\ UNCHANGED <<world, halted, tasks, served, cache, orphan>>

\* What unloading leaves: the background tasks are the entry's and die with it;
\* a service call is not, and a result it already has is still saved.
TornDown ==
  /\ phase' = "off" /\ halted' = TRUE
  /\ pending' = [s \in Slots |-> Absent]
  /\ order' = <<>> /\ stage' = [k \in Refreshes |-> "idle"]
  /\ got' = [k \in Refreshes |-> NoCache]
  /\ data' = Absent /\ stale' = FALSE /\ firstDone' = FALSE

UnloadRegion ==
  /\ phase = "loaded"
  /\ TornDown
  /\ orphan' = (IF stage[ServiceRefresh] = "fetched" THEN got[ServiceRefresh] ELSE orphan)
  /\ UNCHANGED <<world, cache>>

\* Home Assistant stops anywhere; what was saved stays.
RegionCrash ==
  /\ phase # "off"
  /\ TornDown
  /\ held' = Absent /\ orphan' = NoCache
  /\ UNCHANGED <<clock, newest, cache>>

-----------------------------------------------------------------------------
(* _async_update_data() *)

PlaceOf(k) == CHOOSE i \in DOMAIN order : order[i] = k
Earlier(k) == {order[i] : i \in 1..(PlaceOf(k) - 1)}
FirstAt(k, st) == stage[k] = st /\ \A j \in Earlier(k) : stage[j] # st

Ended(k) ==
  /\ order' = RemoveAt(order, PlaceOf(k))
  /\ stage' = [stage EXCEPT ![k] = "idle"]
  /\ got' = [got EXCEPT ![k] = NoCache]

\* force_refit refits and then refreshes.
ForceRefit ==
  /\ phase = "loaded" /\ stage[ServiceRefresh] = "idle"
  /\ AskRefresh(ServiceRefresh)
  /\ UNCHANGED <<world, phase, slotTimers, served, cache, orphan>>

\* The shared fetcher answers: the newest run, or within its window the held one.
RunFetched(k) ==
  /\ FirstAt(k, "asked")
  /\ \E run \in {newest, held} \ {Absent} :
       /\ held' = run
       /\ got' = [got EXCEPT ![k] = [run |-> run, at |-> clock]]
  /\ stage' = [stage EXCEPT ![k] = "fetched"]
  /\ stale' = FALSE
  /\ UNCHANGED <<clock, newest, phase, slotTimers, order, data, firstDone, cache, orphan>>

\* The fetch raises: the run held is served and said to be stale; with none to
\* serve UpdateFailed makes the setup fail.
FetchFails(k) ==
  /\ FirstAt(k, "asked")
  /\ Ended(k)
  /\ stale' = (data # Absent)
  /\ phase' = (IF data = Absent THEN "off" ELSE phase)
  /\ halted' = (IF data = Absent THEN TRUE ELSE halted)
  /\ UNCHANGED <<world, pending, data, firstDone, cache, orphan>>

\* The cache is written; the first refresh leaves the notices for later.
CacheSaved(k) ==
  /\ FirstAt(k, "fetched")
  /\ cache' = got[k]
  /\ firstDone' = TRUE
  /\ IF firstDone
     THEN stage' = [stage EXCEPT ![k] = "noticing"] /\ UNCHANGED <<order, got, data>>
     ELSE Ended(k) /\ data' = got[k].run
  /\ UNCHANGED <<world, phase, slotTimers, stale, orphan>>

\* The notices need no lock of their own: whoever has them first returns first.
NoticesUnordered(k) ==
  /\ stage[k] = "noticing"
  /\ data' = got[k].run
  /\ Ended(k)
  /\ UNCHANGED <<world, phase, slotTimers, stale, firstDone, cache, orphan>>

\* The notices are in, or another region's were recent, and the result is served.
Noticed(k) ==
  /\ FirstAt(k, "noticing")
  /\ data' = got[k].run
  /\ Ended(k)
  /\ UNCHANGED <<world, phase, slotTimers, stale, firstDone, cache, orphan>>

\* The save of the unloaded coordinator gets to the disk.
OrphanSaves ==
  /\ orphan # NoCache
  /\ cache' = orphan /\ orphan' = NoCache
  /\ UNCHANGED <<world, phase, slotTimers, tasks, served>>

PublishNext ==
  \/ ClockTick \/ PublishRun \/ SetUp \/ StartScheduler \/ UnloadRegion \/ RegionCrash
  \/ ForceRefit \/ OrphanSaves
  \/ \E s \in Slots : SlotFires(s)
  \/ \E k \in Refreshes : RunFetched(k) \/ FetchFails(k) \/ CacheSaved(k) \/ Noticed(k)

PublishSpec == PublishInit /\ [][PublishNext]_publishVars

-----------------------------------------------------------------------------
(* What the entities say *)

\* Looking only at today's slots forgets a run missed in the evening.
SlotsOfToday ==
  {t \in 0..clock : t % Day \in Slots /\ t \div Day = clock \div Day /\ t + Grace <= clock}

\* _missed_publish_slot(): the slots of today and yesterday whose grace is over.
PastSlots ==
  {t \in 0..clock : t % Day \in Slots /\ t \div Day >= clock \div Day - 1 /\ t + Grace <= clock}

MissedSlot == data # Absent /\ \E t \in PastSlots : data < t

\* staleness_attributes()
IsStale == stale \/ MissedSlot

-----------------------------------------------------------------------------
(* Properties *)

\* The state stays in its domain: a refresh is in the queue until it ends.
PublishTypeOK ==
  /\ {newest, held, data} \subseteq Runs \union {Absent} /\ clock \in Ticks
  /\ phase \in {"off", "loading", "loaded"}
  /\ pending \in [Slots -> Nat \union {Absent}] /\ halted \in BOOLEAN
  /\ stage \in [Refreshes -> {"idle", "asked", "fetched", "noticing"}]
  /\ order \in Seq(Refreshes) /\ IsInjective(order) /\ ToSet(order) = {k \in Refreshes : stage[k] # "idle"}
  /\ got \in [Refreshes -> Saves] /\ {cache, orphan} \subseteq Saves
  /\ stale \in BOOLEAN /\ firstDone \in BOOLEAN

\* While the entry is loaded every slot has a timer ahead of it, whatever its
\* actions did, and none is left once the entry is gone (fetch_scheduler.py).
SlotsStayArmed ==
  \A s \in Slots :
    IF phase = "loaded" THEN pending[s] >= clock ELSE pending[s] = Absent

\* A run that came out and whose grace is over is either the one served (or
\* older than it), or the entities say they are stale: no failure is needed
\* for it, so a fetch that silently never ran is told too (coordinator.py).
MissedRunIsTold ==
  data # Absent /\ ~IsStale =>
    \A r \in Runs : r <= newest /\ r + Grace <= clock => r <= data

\* However the refreshes of a coordinator overlap, the run it serves is never
\* replaced by an older one until it is unloaded (coordinator.py).
ServedRunNeverGoesBack == [][data <= data' \/ phase' = "off"]_publishVars
=============================================================================
