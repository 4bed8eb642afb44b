# nem_pd7day in TLA+

A verification development of the Home Assistant integration in
`src/custom_components/nem_pd7day`, which reads AEMO's electricity market
forecasts (PD7DAY, STPASA, pre-dispatch, dispatch, constraints, market notices)
from NEMWEB, calibrates them against settled prices and publishes them as
sensors, one config entry per market region.

All paths below are relative to `src/custom_components/nem_pd7day/` unless they
start with `src/`. `PROJECT.json` is the index of this directory: the
components, the runs and their properties, the source lines behind every
definition, a bug-like variant of the code for every checked property, the
hazards, the findings and the theorems.

## 1. The system

Everything runs in one Home Assistant process: one event loop, an executor
thread pool for parsing, fitting and forecast building, and `.storage` files
written by `Store` objects, at once or after a delay. Up to five config entries
(one per region) are set up, reloaded and unloaded independently and share
objects through `hass.data`. NEMWEB answers slowly, late, partly or not at all.

| Component | State it keeps | Operations | Talks to |
|---|---|---|---|
| **Calibrated forecast memo** (`calibrated_forecast.py`, `calibration_inputs.py`, `sensor.py`) | one slot per region: key and forecast; the coordinator's STPASA lookup index | warm (build in the executor), re-check and publish, lazy build on the loop, write of an entity's state, entity removal | reads PD7DAY data, fit and fit generation, STPASA result |
| **STPASA refresh and stores** (`stpasa_refresh.py`, `stpasa_store.py`, `__init__.py`) | claim, 10 minute window, wanted fetch and its outcome; per region the last result, its file, its age | load, register, seed, forced fetch, claim, download, distribute with a save per region, startup refit gate | every entry's triggers; the memo |
| **NEMWEB gate, retries, shared PD7DAY fetch** (`nemweb_gate.py`, `nemweb_retry.py`, `pd7day_shared.py`, `pd7day_client.py`) | semaphore, pace lock and next allowed start; fetch lock, last parse, time of last confirmation | acquire, pace, request, back off, give up; list, download, parse, serve | every NEMWEB client; the region coordinators |
| **Dispatch polling and refresh guard** (`coordinator.py`, `shared_dispatch.py`, `refresh_guard.py`, `constraint_coordinator.py`) | one pending timer, the refresh in flight, stop flag; the guard's generation | shared claim at setup, poll, retry until fresh, notify, reschedule, shut down; replace a stuck refresh | entry setup and unload; constraint and pre-dispatch consumers |
| **Observation log** (`observation_log.py`, `actual_recorder.py`, `calibration_store.py`, `predispatch_record.py`) | rows by day, dirty and removed days, running-average accumulator; manifest, day files, the older single file | load, split, record, prune, save, delayed save | actual price service; fit |
| **Actual price service** (`actual_price_service.py`, `tradingis_client.py`) | registered entries, one timer | register, tick | NEMWEB gate; observation logs |
| **Refit service** (`refit_service.py`) | last refit record | refit on request and at startup | calibration store |
| **Market notices** (`notice_store.py`, `market_notice_client.py`) | notices, high-water cursor, fetch window | fetch newer files, withdraw, expire, persist | NEMWEB; sensors |
| **Pre-dispatch and local prices** (`predispatch_*.py`, `local_price*.py`) | the run held, its history and record | choose run, ingest, refresh behind the guard | dispatch polling |
| **Fetch scheduler** (`fetch_scheduler.py`) | one timer per publish slot | arm, fire and re-arm, cancel all | PD7DAY refresh |
| **Forecast store** (`forecast_store.py`) | last forecast on disk | load, save | two-phase startup |
| **Price timeline and hub** (`price_timeline.py`, `region_timeline.py`, `timeline_forecast.py`, `forecast_hub.py`, `price_sources.py`, `amber_forecast.py`) | cached timelines | merge sources, subscribe | sensors |
| **Calibration engine, fitting, serving** (`calibration_engine.py`, `fitting.py`, `serving.py`, ...) | none (pure) | bucket fits, isotonic and OLS stages, band selection | refit, memo |
| **Tariffs** (`tariff_*.py`, `active_tariff.py`) | the active tariff of an entry | choose, price | tariff sensors |
| **NEM time** (`nem_time.py`) | none | interval conversions | all |
| **Other clients** (`stpasa_client.py`, `dispatch_client.py`, `constraint_client.py`) | none worth a state | parse | gate; the urllib fallback of `dispatch_client.py` to DispatchIS goes past it (`nemweb_gate.py:41-48`) |
| **Entities, charts, configuration, diagnostics** | attributes, forms | assembling what others hold | all |

What is hard in it, and what makes each part correct:

* *interleavings* on the event loop at every `await`, and true parallelism
  between the loop and executor threads: a published forecast must come from
  the inputs its key names, a guard must match the refresh it guards;
* *sharing between entries* set up and unloaded in any order: one download, one
  poll chain, nobody served by an object that was shut down under it;
* *failure*: requests, saves, parses and listeners raise, tasks are cancelled at
  any `await`: slots, locks and claims come back, chains go on, waits end;
* *persistence* with delayed saves, several files per save and crashes between
  any two of them: nothing durable is lost, nothing pruned comes back;
* *time*: results expire, windows suppress, deadlines pass while things wait.

`PROJECT.json` lists the hazards line by line with the properties that cover
them, and those nothing covers yet.

## 2. Modules

| Module | Models | Status |
|---|---|---|
| `CalibratedForecast` | the memo of one region, its readers, its threads and its inputs | checked, proved |
| `CalibratedForecast_proofs` | type correctness, the memo's honesty, both action properties, silence of removed entities | |
| `NemwebFetch` | gate, retry ladder and the shared PD7DAY fetch | checked, safety proved |
| `NemwebFetch_proofs` | type correctness, slots, spacing of admissions, one parse per file | |
| `StpasaRefresh` | the shared STPASA download and the entries around it | checked, safety proved |
| `StpasaRefresh_proofs` | type correctness, one download, delivery to every store, silence of unloaded entries | |
| `DispatchPolling` | poll chain, shared claim, refresh guard | checked, proved |
| `DispatchFeed` | which interval a poll publishes, and the runs of a binding constraint | checked |
| `HeldRuns` | the P5MIN and pre-dispatch runs all entries share | checked, proved |
| `NoticeFeed` | the market notices' poll, cursor, store and file | checked, safety proved, refines `SharedPoll` |
| `SharedPoll` | abstract: one poll at a time, none while the answer is fresh | |
| `PublishCycle` | publish slots, overlapping refreshes, the cache of a restart, staleness | checked, proved |
| `Polling_proofs` | of the notices: the refinement of `SharedPoll`, the cursor is honest, withdrawn notices stay retired; of the poll chain: one chain, it goes on, the guard is exact; of the held runs: quiet after shutdown, runs only advance; of the publish cycle: slots stay armed, a missed run is told, the run served never goes back; of the tariffs: the user's choice of sensors stands, what is shown is of now; of the ledger: it is exact; the types of the composed run | |
| `ObservationLog` | daily segments, manifest, delayed saves, split, crash, reload | checked, safety proved |
| `ObservationLog_proofs` | nothing is lost, files keep their names, the accumulator, durable rows | |
| `PredispatchLedger` | the thinned pre-dispatch history and the settled prices it is paired with | checked, proved |
| `ActiveTariff` | the active tariff and the registry of tariff sensors | checked, proved |
| `TariffWrites` | when a tariff sensor writes its state | checked, proved |
| `TariffCatalogue`, `TariffPricing` | codes, defaults and export programs; rates, windows, GST, losses, price caches | checked, proved but for the caches |
| `ConstraintSensors` | what is read of a pre-dispatch run, and the sensors of binding constraints and links | checked |
| `TimeOfDayStats` | the statistics of each slot of the day | checked |
| `ScarcityPremium` | the sampled dispatch prices, the premium built of them and its sensor | checked, proved |
| `ScarcityPremium_proofs` | what is shown is of the moment, held prices are sampled, a crash forgets only the unsaved | |
| `PriceTimeline`, `Day27Seam` | the joining of the four price sources and the hub's memo; the seam to Amber's forecast | checked, proved but for the memo |
| `Lists` | a list comprehension with a condition, as the loop the proofs reason about | |
| `MCPrices` | the instances of the timeline, its seam and the tariffs on a moving clock and enumerated sensors, libraries and tariffs (part of `MCRules`) | |
| `Prices_proofs` | the timeline has no gap, no overlap and no coarser source than need be; the seam loses and doubles nothing; a release moves no default; prices add up | |
| `LocalPrice` | unit, node and zone adjustments and the series of them | checked |
| `IsotonicFit`, `ServedPrice` | the pooled map; what a fit publishes | checked, proved |
| `MCServing` | the instances of these two on enumerated rows, buckets, models and intervals (part of `MCRules`) | |
| `Serving_proofs` | what is served never falls as the forecast rises; the published band and stage 2 are bounded; pooling is optimal | |
| `CalibrationFit` | what a fit learns from | checked |
| `CovariateInputs`, `SharedPrices` | the inputs beside the forecast, learned and served; every publisher of a calibrated price | checked |
| `MC*` | instances of the above for TLC: symmetry sets, data sets and the composed runs | |

Common conventions: an action is the code between two awaits (or, on a thread,
one step that others can observe), named after the method it stands for; a
handler's guards, early returns and error paths are its conjuncts and disjuncts.
Numbers stand for payloads: a PD7DAY run, a STPASA result or a published file is
the number of its publication. Pure rules are operators with the source's names;
a rule's inputs are built by TLC from small sets. Variants of a definition that
no specification uses (`WarmForever`, `ListWithoutLock`, `PlainMedian`, ...) stand
before the definition they vary, under a comment that begins with "As if" or
says what is dropped: each is a plausible bug that `PROJECT.json` names for a
property, and TLC refutes the property when the variant replaces the definition.

### CalibratedForecast

`memo` is `_calibrated_forecast_cache[region]`, a set of at most one
`[key, val]`; a value records *which* runs, STPASA results and calibrations went
into it, so that "computed from" is a set and not a number. `data`, `cal`, `gen`
and `stpasa` are the inputs, moved by `NewData`, `PublishFit`, `AttachOls`,
`StpasaSave` and `StpasaExpire`. `job[c]` is the build of a caller, one interval
per `CalibratePeriod`; `stpasa_index()` is walked step by step by every caller
(`IndexRead` to `IndexKey`), because the loop and the threads run it at the same
time; `IndexMap` stands for the two assignments of the map and of its sorted
keys, which no other caller tells apart. `task[t]` is one warm-then-write task,
of which a sensor may have several: `StartWarm`, `WarmHit`/`WarmMiss`,
`ResumeBuilt`, `RecheckAndPublish`, `WarmAgain`, `ReadyToWrite`,
`WriteHit`/`WriteMiss`, `LazyPublish`. While a handler is on the loop
(`Handling`) no other handler and no input may move; threads may. `pending[e]` is
`_pending_warm_writes`: `ScheduleWrite` adds a task, `Done` discards it, `Remove`
empties it and cancels what it held (`cancelled`). A task resumes only if it is
not cancelled; a cancelled one ends with `CancelledError`, its thread runs on.
`own[e]` is history: the tasks that would write that entity's state.

Not modelled here: the tariffs waiting for a sibling's publish (`TariffWrites`),
the spot price map (`SharedPrices`), and the first write of an entity being added,
which Home Assistant's own add flow awaits and no pending set holds.

### StpasaRefresh

`hass`, `coord` and `stores` are the coordination object and the dictionary of
stores in `hass.data`, numbered because the last unload drops them while
closures of a region that is still setting up hold the old ones (`mine`).
`entry[r]` walks through `async_setup_entry`; `fetch[r]` is that entry's
`_fetch_and_distribute_stpasa`, from the claim through the download, which holds
any subset of the regions (`got`), to the save per region: `BeginSave` looks the
store up and moves `_latest`, a thread of Home Assistant's `Store` writes the file
(`writing`, `WriteEnds`, `WriteFails`) and cannot be cancelled, `SaveReturns` goes
on. Entries unload, register and are seeded at each of these awaits. `stage` is the
age class of a result: fresh, stale, expired. `got[n].by` and `joined` are history.

### NemwebFetch

`slots` is the semaphore, `pacer`/`wake` the pace lock and the sleep of its
holder, `gapLeft` is `_next_allowed - now`; `lock`, `full` and `age` belong to
the shared fetch. `pc[c]` is what a task awaits: lock, semaphore, pace lock,
pacing sleep, request, backoff sleep, parse. `Cancel` may strike at each.
`Others` are tasks of the other clients, which share the gate only. Most take it
for each attempt, as the regions do; those in `Notices` fetch one market notice
and hold their slot across a delay, two attempts and the sleep between them
(`_fetch_guarded`), so only their admission is paced. The dispatch client's urllib
fallback never asks the gate and is no caller here. `sinceAdmitted` is history.
Time is relative and saturates, so behaviours do not end. What a coordinator does
with the outcome of a fetch is in `PublishCycle`.

### DispatchPolling and DispatchFeed

`timers`, `handle`, `refresh`, `stopped` describe each `DispatchCoordinator`
ever created; `shared` and `unsubs` are the slots in `hass.data`; `lock` is the
setup lock. `busy`, `stuck`, `current`, `old` are the `RefreshGuard`: its start
time, whether `STUCK_AFTER_S` have passed, and the refreshes that really run.

`DispatchFeed` looks inside one poll: `PollPrices` is `_async_update_data` with
its retries over what the summary and the DispatchIS file show at each second,
`FetchDispatchPrices` the choice between them; `ReadConstraints` is a read of the
latest DispatchIS file and `Add` the tracker that joins its intervals to the runs
of the constraints that bind.

### HeldRuns

`latest` is the run held of each kind, `reading` what a refresh has read and will
store later, `running` the refreshes under way: the first one, which nobody
guards, and the guard's. `retries` and `retrying` are P5MIN's retry ladder,
`listening` whether the listeners of the dispatch poll are there.

### NoticeFeed and SharedPoll

A notice file is the number of its publication. `pc[r]` is what a coordinator
awaits in `async_fetch_notices`: the lock, the listing, a batch of files (one
`gather`, nobody sees a part of it), the save. `cursor` is the client's
high-water mark, `store` the store's, `disk` the file. `Conclude` ends a poll in
every way it can end; `Cancel` and `FeedCrash` strike anywhere, `FeedReload` (the
last unload and a new setup) between polls. `examined` and `parsed` are history. `SharedPoll` is the
abstract promise of the lock and the stamp together; `OnePollPerWindow` is
`SharedPoll`'s specification with `busy <- fetchLock # Unheld` and
`fresh <- stamp = "recent"`: every step of a poll is a step of it or a stutter.
`AddNotices` says at once what `add_notices` does notice by notice, oldest first:
each new notice withdraws what is stored by then, so what was kept is withdrawn by
any of the new ones, and a new one by those after it.

### PublishCycle

`pending[s]` is the timer of slot `s`; `order` the refreshes of the coordinator
in the order they came, `stage` and `got` how far each is and with what run.
`SlotFires` is a slot's whole callback with its `finally`; `SetUp` restores the cache
or fetches, `UnloadRegion` cancels timers but not the save under way (`orphan`),
`RegionCrash` may happen anywhere. `PastSlots`, `MissedSlot` and `IsStale` are
`staleness_attributes`. A tick is as late as a timer may be.

### ObservationLog

A row is `<<interval, run>>`, filed by day; interval 0 is a row without a usable
time and belongs to the undated segment, which sorts first. `segments`, `accum`,
`gone` and `manDirty` are the memory of the loaded log, `files`, `manifest` and
`legacy` the disk. `delayed[d]` is the list the pending delayed save of day `d`
will write: the code's closure holds the list itself, so later appends are in
it. `orphaned` is the same for a log whose entry was unloaded, which nothing
cancels. Loading reads the manifest, then the segments; without a manifest the
older single file is split day by day, then the manifest is saved, then the file
removed. `Record` is the whole synchronous part of recording an interval: append
or touch, prune whole days, retire accumulator entries, schedule the save;
`RemoveFile` and `FinishSave` are the awaits that follow. `Crash` is enabled
everywhere; `Stop` flushes what is delayed. `owed` and `pruned` are history:
what a reader is entitled to, and what pruning dropped.

Left out: the value of a row (the running average), which runs cover an
interval (any non-empty set may; `CovariateInputs` has the ingest), write errors,
which `Store` logs and swallows, and records in flight while an entry unloads.

### PredispatchLedger

`run` is the pre-dispatch run held, `history` the thinned forecasts per interval,
`log` the observations, `onDisk` what a restart finds of both. `NewRun` is the
record's listener with its thinning (`Keep`, by the run's place in the day),
`Tick` and `Prices` the half-hourly TradingIS fetch around its await, `Stop` and
`Start` an unload and a load, with what was not saved lost.

### ActiveTariff and TariffWrites

`sensors[t]` is a tariff's registry entry: who disabled it, and whether it bears
the integration's marker. A setup resolves the tariff (`Setup`), forwards the
platforms (`Registered`) and syncs the registry (`Forwarded`); the Amber site may
report something else between any of them. `ours` and `kept` are history.

In `TariffWrites` a sensor's state is made of its sources: the PD7DAY run, the fit,
the STPASA result, the P5MIN and pre-dispatch runs, the dispatch price and the
usage fee. `fresh` holds those that have not moved since the last write, `untold`
those that moved since the sensor was last notified of anything: a fit that
`async_refit` publishes in two steps (`RefitPublishes`, `OlsAttached`), a saved
STPASA result and the fee move without a notice, and the push of a refit comes
after a save that may raise (`RefitPushed`, `RefitSaveFails`). Runs, fits and
STPASA results also move the key of the memo (`memoIs`). `memoTask` is the task of
`_write_when_calibrated` waiting for the memo to be published, `p5Wait` the 30
second wait for the P5MIN run. Time is no source: that the forecast starts at the
current interval is `PriceTimeline`'s.

### ScarcityPremium

`quote` is the interval whose price the dispatch coordinator holds, `samples` and
`saved` the sensor's samples in memory and on disk, `due` the delayed save between
them. `wanted` is a refresh that waits for the sensor's lock and `warming` the one
that holds it across the warm of the base forecast, with the time and the samples
it took before: `BeginRefresh` and `EndRefresh` are the two halves of
`_async_refresh`. `Tick` is the clock at second 45, which is what sees the price of
an interval between its end and the next poll. `stalled` and `ended` are history:
whether a warm has held the lock over a tick, and the last interval whose price
dispatch held at its end. A refresh that outlives its sensor is not modelled.

### The rules

`IsotonicFit` counts in fractions so that every mean and interpolation
of the checked inputs is whole. Its two loops are one operator, `Settle`, and the
recursive function `last` in it: the last block merged with one, two, ... of those
before, of which the first that stands apart is taken. `ServedPrice` follows one
interval through the three stage 1 paths; `Admitted` and `Stage2` are the gates and
what passes them, `OrderBand` and `ClampBand` the band. Three of the nine stage 2
features stand for all, and every model that has coefficients has one for each, so the
code's check of their number (`calibration_engine.py:762`) is left out.
In `CalibrationFit` the quantile and least-squares solvers are constant operators:
the properties hold of any answer they give, and the checked instances give
unhelpful ones. `CovariateInputs` has both sides of each lookup: `IngestRun` and
`Observations` for learning, `ServedFeatures`, `GasServed` and `ReadContext` for
serving.
`TimeOfDayStats` extends `CalibrationFit`, with whose observations and fit it counts.
`SharedPrices` extends `CovariateInputs` with everybody who publishes a calibrated price.
`ConstraintSensors` reads a run row by row (`PricingRows`) and follows what is shown
of it, and of the dispatch interval it is compared with, through the writes of a
sensor (`WriteRows` with its memo's `RowsIdentity`). What an identifier says of its
regions and category (`describe_constraint`) is the parameter `Info`.
`PriceTimeline` is a state machine of the clock, the sources and the hub's memo
(`kept`); `LocalPrice`, `Day27Seam`, `DispatchFeed`, `TariffCatalogue` and
`TariffPricing` are functions of what was fetched. What a memo keeps is modelled
with its key, never as the function it caches.

## 3. Runs

Twelve runs. Three of them check several modules: each behaviour of `polling`,
`live` and `rules` chooses a component (or a rule) at the start, and only that one
steps; an invariant of a module then reads `mode = m => ...`. Nothing is shared
between the modes, so the state count is the sum of the components', and
every component is explored exactly as if it had a run of its own.

| Run | Instance | Shows |
|---|---|---|
| `memo` | 2 sensors, one removable, 2 tasks between them; 2 intervals; 1 new data object and 1 two-stage refit, or 1 STPASA result | `TypeOK`, `MemoNamesItsInputs`, `WriteIsCurrent`, `SlotNotOvertaken`, `RemovedNeverWrites` |
| `memo_stpasa` | 2 tasks, 2 STPASA results | *violated*: `MemoNamesItsStpasa` |
| `stpasa` | 2 regions, one unloadable, with a startup refit and a file that may not be written, results aging to expiry | `SingleDownload`, `FreshReachesEveryStore`, `UnloadedNotSaved` |
| `stpasa_leak` | as `stpasa`, no aging | *violated*: `ClaimHasAHolder` |
| `nemweb` | 2 regions, a notice fetch and another client, 2 slots, gap 2, 2 attempts, 2 files | `TypeOK`, `SlotsAccountedFor`, `AdmissionsAreSpaced`, `EachFileParsedOnce`, `EveryRefreshEnds` |
| `dispatch_orphan` | 2 entries | *violated*: `LoadedEntryIsServed` |
| `obslog` | 4 days, 2 runs per interval, cap 3, a single file of 3 days (one undated) | `NothingIsLost`, `DurableRowsStay`, `FilesAreNamed`, `AccumHoldsTheLog` |
| `obslog_reload` | the same with reloads while saves are pending | *violated*: `NothingIsLost` |
| `live` | memo (2 tasks), STPASA (2 regions), dispatch (2 entries), fair | `WantedIsSettled` |
| `polling` | dispatch, notices, publish slots, held runs, tariff registry, tariff writes, pre-dispatch ledger | `TypesOK` and fourteen properties, below |
| `notices_stamp` | 2 regions, 6 files | *violated*: `LastFetchedWasAnswered` |
| `rules` | nineteen builders of inputs | seven conjunctions, below |

`polling`: of `DispatchPolling` (2 entries, 3 coordinators, 2 retries, 2 late
refreshes) `OneChain`, `ChainGoesOn`, `GuardTracksCurrent`; of `NoticeFeed`
(2 regions, 6 files, 2 per batch) `CursorIsHonest`, `WithdrawnStaysRetired`,
`OnePollPerWindow`; of `PublishCycle` (2 slots a day, a day and a half)
`SlotsStayArmed`, `MissedRunIsTold`, `ServedRunNeverGoesBack`; of `HeldRuns`
(three dispatch intervals, one and a half half hours, 1 retry) `QuietOnceShutDown`,
`HeldRunsAdvance`; of `ActiveTariff` (3 tariffs) `UserChoiceStands`; of
`TariffWrites` (2 overlapping refits) `ShownIsCurrent`; of `PredispatchLedger`
(5 half hours, runs of 5 periods, steps 1, 2 and 4) `LedgerIsExact`.

`rules`: one invariant per question, each the conjunction of what the modules
state about it.

| Property of `rules` | Conjoins |
|---|---|
| `FitIsSound` | `PoolingIsBest` of `IsotonicFit`, against every other monotone choice of levels |
| `ServingIsBounded` | `ServedIsMonotone` of `IsotonicFit`; `BandHolds`, `Stage2IsHeld` of `ServedPrice` |
| `LearnedAsServed` | `TrainedWhereServed`, `Stage2LearnsWhatItServes`, `BandCoversTheNext` (50 to 150 rows) of `CalibrationFit`; `LearnedAsServed`, `FloorKeepsMatches`, `EachRunCountsOnce`, `OneEndIsTight` of `CovariateInputs`; `FeaturesAsTrained` of `SharedPrices`; `IntervalsCountOnce` of `TimeOfDayStats` |
| `TimelineIsSeamless` | `TimelineIsSeamless` of `PriceTimeline`, `SeamIsWhole` of `Day27Seam` |
| `PublishedIsTold` | `KnownValueStands`, `StationsVoteOnce` of `LocalPrice`; `PublishedIsServed`, `RunsAreHonest` of `DispatchFeed`; `PricesAgree`, `CalloutsAgree` of `SharedPrices`; `LeanParseIsExact`, `LimitIsItsOwn`, `ListsAgree` of `ConstraintSensors` |
| `TariffsAddUp` | `DefaultIsPinned`, `TakeoverIsSeamless` of `TariffCatalogue`; `PriceAddsUp` of `TariffPricing` |
| `MemosAreCurrent` | `TimelineIsCurrent` of `PriceTimeline`, `SeriesIsKeptByItsKey` of `LocalPrice`, `PricesAreCurrent` of `TariffPricing`, `ContextIsOfItsRun` of `CovariateInputs`; `RowsAreOfTheMoment` of `ConstraintSensors`; `PremiumIsOfTheMoment`, `PremiumNeedsATrigger`, `EndedIsSampled`, `SavedUnlessDue` of `ScarcityPremium` (10 ticks, two to a dispatch interval) |

A conjunction whose parts fail for different reasons has a variant for each of
several parts in `PROJECT.json`.

Why the bounds suffice. Two tasks, regions, entries or callers are enough for
every pairwise race; a third adds only repetitions, and what holds for any
number is proved where a proof exists. `Periods = 2` gives a build a beginning,
a middle and an end between which inputs move. One new data object and one
refit, in two stages, already give four different moments a warm can straddle.
`memo` lets an STPASA result come and expire only while neither the run nor the
fit has moved (the constraint `StpasaMovesAlone` in `MCCalibratedForecast`): the
three at once are beyond TLC, the theorems cover any combination. For the same
reason a sensor is removed there only before the refit and the STPASA result
(`RemovedBeforeRefit`), and in `stpasa` only the unloadable region has a startup refit
(`OneRefits`), whose push is one more `Update` of a claim.
`MaxResult = 2` in STPASA is the previous session's result and a download; with
`MaxShared = 1` every entry shares one coordination object, so the exception
`FreshReachesEveryStore` makes for an earlier, dropped object is exercised by the
proof only.
The gate has fewer slots than callers, so that they contend: two slots for
three callers (the regions' fetch lock lets one of them in), one of which keeps
its slot through a backoff, and a gap longer than one tick. Three dispatch coordinators allow
a reload of a reload. A cap of three rows with up to two per day makes pruning
drop one or several days, and once the newest alone is over the cap. Six notice
files hold one of each kind that matters (a notice, a file that is none, an
update, a cancellation by name of two, one by date) and three batches of two, so
that a cap falls between any two of them. Six ticks of `PublishCycle` are three
publications and a restart between them. Three tariffs are one active, one on by
default and one off. The pre-dispatch bands are crossed by every interval of a
five-period run.

The inputs of `rules`: fits of up to four rows on two days, in which thin and
fully supported steps meet on both sides of the raw range, in fractions (`Unit`) small
enough that every mean of theirs is whole; the market floor two prices below zero
(`Depth`), `OLS_MIN_HORIZON_H` and `OLS_MAX_HORIZON_H` with intervals on either side; 3 maps, 6 bands and
75 stage 2 models, with and without every optional part, for serving; four
observations with the horizon, the clock, the domain and the intervention flag
each on either side of their limits; three STPASA rows anywhere in a run of four
intervals; three sources of different interval lengths over a clock of six
ticks; two local rows in each of three files at each of ten ticks; four
DispatchIS reads in any order; three rows of a run's constraint table, every flow
and pair of limits on either side of the tolerances, and five writes over two runs and a file
that holds none; three observations of an average. `SharedPrices` calls `ServedPrice` through
`MCApplied`, a table of its results over every interval that occurs there
(`Occurring`): looking it up is the same function, evaluated once.

`CHECK_DEADLOCK FALSE` stands where the bounds end a behaviour: when the bounded
inputs are used up, every task is done and every result has expired, the model
has nothing left to do, as the idle program has not; in `rules` an input that is
complete has no next step. `nemweb` and `obslog` have no such end and check
deadlock.

`QuickReload = FALSE` in `obslog` sets an entry up again only once the saves its
unloaded log left pending have been written, five minutes at the most;
`obslog_reload` lifts that and shows what then happens. Symmetry (runs
of an interval, sensors in `memo_stpasa`, regions of the notices) is used with
safety properties only.

### Fairness

* `live`, memo: a handler runs to its next await (`WF` of `LoopStep`), a thread
  that is running goes on (`WF` of `ThreadStep`), and a ready task is resumed
  although handlers keep the loop busy: asyncio's ready queue is FIFO (`SF` of
  `Resume`).
* `live`, STPASA: Home Assistant goes through setup and retries an entry that was
  not ready, which succeeds once NEMWEB answers (`SF` of `StartTriggers`, `WF` of
  `Setup`); sleeps, downloads (timeouts and bounded retries) and waits end (`WF`
  of `ForcedFetch`, `Fetching`, `Refitting`), and so do writes (`WriteEnds`). It is a
  first start, with nothing on disk. No entry is unloaded there: `stpasa_leak` shows
  what unloading does to the claim, and that a fetch can then be wanted for ever.
* `live`, dispatch: timers fire and fetches end (`WF` of each `Chain`), a
  cancelled refresh ends (`WF` of `OldEnds`). A consumer's refresh may hang for
  ever; that is what the guard is for.
* `nemweb`: time passes, requests end (each has a timeout), threads return;
  asyncio's semaphore and locks are FIFO, so a waiter that finds them free again
  and again is not passed over for ever (`SF` per task).

`WantedIsSettled` says of the mode chosen: a state write that is due happens
although warms fail and the key moves under every attempt; an immediate STPASA
fetch that is wanted ends fresh or failed, whichever entry carries it out; a
refresh that hangs is replaced.

## 4. Findings

Each of these is a run that refutes what the repository says of itself.

1. `memo_stpasa`: the STPASA index is published by two assignments on whichever
   thread runs it, so an old map can stand under a new key and be memoised
   (`coordinator.py:541-550`).
2. `stpasa_leak`: unloading the entry whose task is downloading leaves the shared
   claim taken for the rest of the session (`__init__.py:329`).
3. `dispatch_orphan`: unloading the last *loaded* entry shuts down the coordinator
   an entry still in setup already holds (`__init__.py:574`).
4. `obslog_reload`: a reload within five minutes of a record loads the log from
   before it and the two logs overwrite each other (`observation_log.py:246`).
5. `notices_stamp`: a listing that failed answers an empty list, and the poll that
   read nothing is stamped as a fetch that succeeded (`coordinator.py:400`).

These were met while modelling and have no run of their own; where a property
would be broken by one, its comment names the case it leaves out.

6. A file that leaves a region out still marks the fetch fresh (`stpasa_store.py:199`).
7. An entry in setup keeps a dropped coordination object (`__init__.py:589`).
8. The outcome of a session's first STPASA fetch is never cleared, so a later
   stale load is not fetched (`stpasa_refresh.py:140`).
9. A chart saves the spikes of a run at every render, so that from the second on
   the run's own spikes count as seen in a prior one (`camera.py:550`).
10. A seasonal tariff's forecast entries keep the periods of the season its sensor
   was built in (`tariff_sensor.py:567`).
11. A tariff sensor is disabled "only once" only between two changes of the active
   tariff (`active_tariff.py:265`).
12. The options flow stores a region another entry already owns
    (`config_flow.py:493`).
13. A docstring says that every refresh of the pre-dispatch run steps the sensors to
    the next period; it has stopped doing so (`predispatch_coordinator.py:50`).
14. A notice's request starts a fixed delay after its admission, and its retry inside
    the same one unpaced, where the gate promises a gap between the starts of requests
    (`market_notice_client.py:605`).
15. Docstrings of the fit still say that serving and stage 2 key by the hour of the
    clock; all three key by the sun, which `TrainedWhereServed` states
    (`fitting.py:377`).
16. The module's docstring still says that a full bucket keeps its oldest rows; it
    keeps the newest, which `TrainedWhereServed` states too (`fitting.py:164`).
17. The memo of the network context says that a new run invalidates it; one of the
    same length and first time does not, and `ContextIsOfItsRun` leaves it out
    (`calibration_inputs.py:448`).
18. A docstring of the chart says that an uncredible spike is drawn capped; the cap is
    used nowhere, and no gate on the flow of one link is left (`camera.py:516`).

## 5. Proofs

`tlapm` checks the theorems for every value of the constants that satisfies
the module's assumption. Most assumptions only say that the bounds are natural
numbers, the roles distinct, the sets of regions, rows and files what they are.
Those that say more:

* `RunsAssumption`: a half hour is a whole number of dispatch intervals;
* `PublishAssumption`: the slots are times of the day, and the grace of the last
  ends on its own day (`FETCH_TIMES`, the last at 18:00, and half an hour,
  `const.py`); without it `PastSlots`, which looks at today and yesterday, would
  forget a slot between its time and its grace;
* `NoticeAssumption`: the files are numbered in the order of their publication,
  and a notice's text names finitely many periods;
* `PremiumAssumption`: every end of an interval has a price, and the mark of none is
  no number and no refresh;
* `ServingAssumption`: a price has a positive number of fractions, full support takes
  a positive number of days, the other bounds are integers, and the mark of none is
  none of them;
* `LedgerAssumption`: a run is solved within its half hour, the thinning bands
  cover every horizon of a run (the last of `THINNING` is open), and a settled
  price is never the mark of none;
* `TimelineAssumption`: a half hour is a whole number of dispatch intervals;
* `SeamAssumption`: an interval is longer than the push off the seam, a day longer
  than one tick;
* `CatalogueAssumption`: an extension is listed once (`EXTENSIONS` is a dict), and says
  whether it feeds in;
* `PricingAssumption`: default losses are numbers, a month has at least one day.

`NoneIsNoLibrary` and `NoneIsNoRow` of `MCPrices` say that the mark of none is none of
the libraries, tables and rows enumerated.

The theorems on the observation log also assume `~QuickReload`: with a quick
reload `NothingIsLost` is false (finding 4).

Each safety invariant and action property of every passing run but `rules` has a
theorem, and of `rules` what says most about the prices: `FitIsSound`,
`ServingIsBounded`, `TimelineIsSeamless` and `TariffsAddUp`. `TypesOK` of `polling` is the conjunction of seven type invariants, each
with a theorem of its own component; `TypesAreCorrect` carries them over to the
composed run, every step of which is a step or a stutter of each component
(`EachIsItself`).

**The memo** (`CalibratedForecast_proofs`). `MemoNamesItsInputs` is not
inductive: it says nothing of the builds in flight. `IInv` adds

* `ThreadJobs`: a build holds only the run and the fit its key names *for as long
  as they are the current ones* (`Carries`); a build about to be re-checked on
  the loop is complete and its data object is the current one;
* `LazyJob`: the same for the build on the loop, whose inputs cannot move;
* `OneHandler`: one handler at a time is on the loop, so nothing moves between
  a re-check and the publish that follows it;
* `GenNamesCal`: the live generation names the live calibration, because every
  place that changes the fit moves the generation.

The argument is the one the code relies on: a thread may read anything at any
time, but if the key taken before the build is still the key afterwards, and
keys never come back (`gen` only grows, data objects are new), then the inputs
cannot have moved in between. `WritesAreCurrent` and `SlotIsNotOvertaken` follow
from the same invariant. `RemovedAreSilent` has one of its own, `AllKnown`: while
an entity is in hass every task of its own is in its pending set, once it is
removed they are all cancelled, and a cancelled task is never on the loop.

**The gate** (`NemwebFetch_proofs`). `NInv` adds to the types and the slot count

* `PacerSleeps` and `SleepCoversGap`: the pace lock is held exactly across the
  sleep of its holder, which is at least as long as what is left of the gap,
  since nobody else can be admitted meanwhile;
* `GapAddsUp`: the time since the last admission and what is left of the gap add
  up to at least the gap;
* `LockHeld`: the fetch lock is held exactly by a region between its listing and
  its end;
* `FileIsNew`: the file being downloaded or parsed is newer than the one held,
  because only the holder of the lock installs a parse;
* `AttemptsLeft`: a backoff, with or without a slot, is only slept while attempts
  remain.

`AdmissionsAreApart` needs the first three, `FilesAreParsedOnce` the next two,
`SlotsAreNotLeaked` and `TypeCorrect` are conjuncts.

**The held runs** (`Polling_proofs`). `RunsTypeCorrect` rests on `EndOfIsInt`,
`StoredType` and `RequestType`. `QuietAfterShutDown` states `QuietOnceShutDown`,
which is inductive by itself: the only step that schedules a retry without the
listener is `RefreshEnds`, and it needs a retry left; a shutdown leaves none.
Without that reset (`ShutDownTimerOnly`) the property does not even hold. It is
about timers and retries: a refresh running at the shutdown is not cancelled and
runs to its end.
`RunsAdvance` states `HeldRunsAdvance`: every step that stores a run goes through
`Stored`, which compares integers once the types are known.

**The STPASA download** (`StpasaRefresh_proofs`). `IInv` holds every safety
property of the module and adds what makes them inductive:

* `ClaimsAreHeld`: a fetch under way holds the claim of its entry's object; with
  it `SingleDownload` survives a claim, which finds none held;
* `TasksAreOfEntries`: forced fetches, fetches and refits belong to entries past
  their triggers, so an entry that starts has none;
* `RegisteredOnce`: a region is registered exactly where its entry knows it is,
  so `_forget_stpasa_store` removes it everywhere, and a save that finds a store
  finds an entry (`UnloadedAreLeftAlone`);
* `ObjectsWereMade` and `ResultsArePublished`: entries hold objects that exist,
  objects hold results that were published, and a fetch saves what its own object
  downloaded; an object still to be made is nobody's and has resolved nothing;
* `TurnsAreServed`: a distribution goes to the shared stores, the object's last
  result is the one distributed, and it has `Reached` every store whose turn has
  passed, because one that registers later is seeded or has a cache. With no turn
  left this is `FreshReachesEveryStore`. Another fetch cannot undo it: it belongs to
  another object (`SingleDownload`), which the property names.

The invariant names no bound: any number of regions, of shared objects made and
dropped, of results and of unloads during a distribution is covered.

**The poll chain** (`Polling_proofs`). `ChainInv` adds `HandlesAreTimers`
(a coordinator has its handle exactly while it has a timer, so a shutdown finds
what it must cancel), `StoppedWereMade` (only what the last unload finds in
`hass.data` is ever stopped) and `CreatorsHoldTheLock` (nothing is shared while a
coordinator is created, and nobody else can reach the new one).

**The notices** (`Polling_proofs`). `NoticesPolledOnce` is the refinement
`FeedSpec => OnePollPerWindow`: the lock is held exactly between a listing and its
end, and while it is held the stamp is not recent (`HolderFoundItOld`), so a
crash is an abandoned poll, or the stamp ageing, and never both at once.

`CursorIsHonest` and `WithdrawnStaysRetired` need all of `FeedInv`, which adds to
the poll

* `ListingOK`: the day in a file's name never goes back along the listing, so the
  files that are too old to fetch are a beginning of it and passing them leaves no
  gap (`PassedIs`);
* `CursorOK`: all below the client's cursor and the store's is examined, and what
  lies below a file of the batch is examined or in the batch (a batch is the
  oldest of what is wanted, which is what the cap is about), so the end of a batch
  may move the cursor to its last file although some of its files failed;
* `PollAhead`: until a batch ends, the client's cursor is not behind the store's,
  and what a batch fetches is above both; so what it brings is new to the store,
  and a notice is never stored twice;
* `StoresOK`: the store in memory, the copy a save is writing and the file each
  hold a notice of every file read below their own cursor that was not pruned
  (`NothingLost`), each as its text says but for what has withdrawn it (`IsKeptOf`),
  and the withdrawn ones are retired; a crash then swaps one such store for another.

Whether one notice withdraws another is read off their texts (`RetiresByText`),
which no step changes; that is why adding, pruning and reloading a store can only
leave a withdrawn notice retired.

**The publish cycle** (`Polling_proofs`). `ServedRunNeverGoesBack` rests on the
order of a coordinator's overlapping refreshes. `QueueInOrder` says that along
`order` nobody is further than those before it, nor has an older run than those
behind it; each stage takes whoever is first at it (`FirstIsFirst`), so a refresh
keeps its place when it advances (`AdvanceKeepsQueue`), and when one ends the
others close up (`EndedKeepsQueue`). `RunsAreBehind` bounds every run by what
NEMWEB lists, and what is served by what any refresh past its fetch has: whoever
publishes has the oldest run under way (`HeadHasTheOldest`), and none older than
what is served. `PhasesHold` says what may be under way while the entry loads,
where the cache may still be taken. `SlotsStayArmed` is inductive with the types,
since a slot's next time lies within the day ahead (`NextFireIsAhead`, from the
least element of a set of naturals). `MissedRunIsTold` is arithmetic of days and
slots: the last slot past its grace is today's or, before the first of today,
yesterday's last.

**The observation log** (`ObservationLog_proofs`). `LogInv` says, phase by phase,
what the disk and the pending saves hold. What a day's file *will* hold is
`Final(d)`: the list behind its pending save, or else the file.

* `WhenSplitting`: the single file stays until the manifest names files that hold
  all of it, so the manifest's arrival changes nothing a load would find;
* `WhenLive`: every day that is not being removed has its segment as its `Final`,
  what is being removed was pruned, and only the day of the record being saved
  may lack its name in the manifest; a delayed write is therefore always named
  (`FilesAreNamed`) and grows its file, but for pruned rows (`DurableRowsStay`);
* `WhenSaving`: pruning leaves a day (`PruningLeavesADay`, from the least and the
  greatest of a set of naturals), so the manifest a save ends with is not empty,
  and it is only left as it was when it names every day;
* `WhenDown`: what is owed is on disk or in the pending saves of the unloaded log
  (`NothingLeftBehind`); the next load waits for those.

Only `RemoveFile` takes rows off the disk, and only pruned ones. The cap, the
number of days, of intervals and of runs, and the rows of the single file are
arbitrary.

**The tariff sensors** (`Polling_proofs`). `MarksTell`: whatever the integration
disabled, and whatever the user then enabled, carries its mark, so a setup undoes
the one and leaves the other alone (`UserChoiceHolds`). `WaitersWait`: a sensor
whose flag says that it awaits the memo has a task that does, what it does not show
it was not notified of, and only a silent source goes unnotified; a fit does so only
before its refit ends or when the save raised (`ShownIsOfNow`). `WritesTypeCorrect`
also says who may wait: only a sensor that is there has a task or a timer.

**The pre-dispatch ledger** (`Polling_proofs`). `LedgerIsExact` is inductive only
together with what the disk holds, because a stop loses what was not saved and
the same run is then ingested again. `LedgerInv` adds

* `HistoryIsKept`, `LogIsTrue`: what is kept and what is observed is a run's own
  forecast, and the log has one observation of an interval and a run;
* `Covers`, `CoversHeld`: an interval observed at all, in memory or on disk, is
  observed with every run either history has of it and with the run held;
* `DiskIsBehind`, `HeldIsIngested`: a loaded record's history has all that the
  disk's has and the run held, but what was pruned. The price of an interval pairs
  with all of these, and after it no later run forecasts the interval
  (`ObservedBefore`), so covering survives a save of only one of the two files.

`StepsHold` comes from `SlotIsPlace` and `MultiplesApart`: the slot of a run is its
place among the runs, a run is kept in a band only at a multiple of the band's
step, and two multiples of a step are a multiple of it apart. The sequences a run is ingested into and the log recorded from are
those of finite sets (`SetAsSeq`), so no induction over them is needed.

**The scarcity premium** (`ScarcityPremium_proofs`). `PInv` adds to the types

* `EndedHeld`: a price held at its interval's end is sampled, or else dispatch still
  holds it and a refresh that the clock asked for comes before the next tick or
  poll, since no poll comes at an interval's end (`EndsAreEnds`);
* `Shown`: when no refresh is asked for, one that warms has this moment's time and
  samples, and what is shown was built of them, with the base's rows only inside
  the window. Every step that moves the clock or the price asks for a refresh,
  which is why this survives a warm that others overlap;
* `NotAhead`: nothing is sampled before it has ended, which keeps `SavedUnlessDue`
  as samples grow too old.

`ShownIsOfTheMoment` then needs only what `BuildPremium` makes of one moment
(`BuiltIsOfTheMoment`), `HeldPricesAreSampled` is `EndedHeld` after the tick. That a
premium needs a price above the trigger (`PremiumNeedsATrigger`) is a fact about
sums and is model-checked.

**Fitting and serving** (`Serving_proofs`). `ServingIsMonotone` and
`PublishedIsBounded` are about the pure functions, for any rows, bucket, model and
interval; `ServingBounded` says that the inputs the run builds are among them
(`InputsTyped`, the inductive invariant of `ServingSpec`), for every value of the
constants. The rest of what `MCRules` does leaves `ServingIsBounded` alone: its
actions ask other rules.

The loops are functions over `0..n`, and that such a function exists is proved from
the least `n` without one (`Recursion`), so no induction theorem is cited. Then

* the rows in order are the rows (`OrderedIs`): how many come before a row tells
  them apart and takes every value (`RankGrows`, `RanksAreTaken`);
* blocks tile the rows, whatever is merged (`MergedTiles`), and the means rise from
  one to the next (`SettledMeansAre`), so `_pav` gives a monotone map of integers
  (`PavIs`): the ratio of two sums rounded down keeps their order (`RatioGrows`);
* the last step of the served and of the feature map is such a `_pav`, or nothing is
  raw, so both are monotone whatever priors thin steps were pulled toward (`MapsAre`);
* a value interpolated between two training points is between their values
  (`InterpIsBetween`), and a greater forecast lies between later ones (`InterpGrows`).

Where the checked inputs divide evenly the theorem takes any: what is no whole number of
fractions is rounded down, as if the code kept so many decimals.

`PublishedIsBounded` goes path by path. `ClampIs`: whatever the band, clamped around a
price it is in order, contains it and is floored; `OrderedBandIs`: of three values the
n-th smallest does not fall as n rises. The gates that admitted a prediction are then
what `Stage2IsHeld` says of it (`Stage2Is`), with the residual band as wide as its
quantiles when the floor does not cut it. The model's ranges may be anything, and its
solver too.

`PoolingIsOptimal` is the textbook theorem about pooling, for weighted medians and
the loss they minimise, of any rows. What a block must be for it is `Poised`: of any
tail of its rows at least half the weight is at or under the block's level, of any head
less than half is under it, so that no choice that rises within the block is cheaper.
The argument:

* the lower weighted median leaves at most half of the weight on either side
  (`MedianHolds`), which for the block of one row is `Poised` (`RowPoised`);
* two poised blocks whose levels do not rise, merged at their common median, are poised
  again (`MergePoised`): the median lies between the two levels, so a tail within the
  second block and a head within the first stay poised, and longer ones follow from the
  balance of the whole (`PlacedTogether`);
* the stack of blocks is then poised and rising after every merge (`Sound`,
  `SettledMediansAre`, `MedianBlocksAre`), the inductive invariant of the loop;
* a rising choice is moved to a poised block's level one row after another, and what
  each unit of each move costs is counted by `Tilt`; summed by parts over the block
  (`PlacedGains`) the moves cost nothing (`BlockIsBest`);
* the excess of a choice over the pooled levels is the sum over the blocks that tile
  the rows (`ExcessIs`), so it is never negative.

The sums are the community modules' (`SumFunction`), which choose the next element;
that one may be taken out first all the same (`SumWithout`) is proved by the
cardinality of the set (`BySize`). `FitSound` is the instance of it that `FitIsSound`
checks.

**The timeline and its seam** (`Prices_proofs`). What is held of the sources moves with
the clock, and `PricesHeld` is the inductive invariant of that: the dispatch interval and
the runs are on the grid of intervals, the calibrated run on the grid of half hours, and
none begins after now (`HeldStays`, action by action). `SeamlessOfHeld` is the rest, about
the builder in any such state:

* `Chained`: each point starts where the one before it ends, the first spans now, and
  none crosses a half hour. `AddPoint` keeps it although it cuts or drops what it is given
  (`AddPointIs`), because the ends of a series are a length apart and its first spans the
  present (`Steady`, `SteadySeries`): a cut point begins at the cursor, never after it;
* `Reaches` and `AtMost`: after the r-th source there is no point of a later one, and
  none before that source's end; stage by stage (`StageOne`, `StageTwo`, `StageThree`,
  `BuildIs`), and with it `RankedIs`: no instant has a coarser source than one that
  covers it;
* `HalvesHold`: points that do not cross half hours partition them, so the ticks and the
  worth of a half hour are differences of running totals (`SumAlong`), and one of the
  windows compared starts where a whole half hour does.

The length of the runs, of the grid, the ages at which a run is stale and where
the calibrated run ends are any numbers; that a half hour is whole intervals is used
where P5MIN ends inside one. Past the end of the calibrated run nothing is promised, and
the property says so.

`SeamWhole` is about any two or more Amber sensors and any series on the grid. What
is published of it is the series from a cut on (`AmongGridded`), the first of it pushed
off the seam when it falls there, which leaves it in its own half hour (`BaseOf`).

**The tariffs** (`Prices_proofs`). The catalogue's lists are loops over lists, and what
such a loop picks is stated once, with the places it picks from (`AmongIs` of
`Serving_proofs`): the members
of both, in the order of the list. Two sets that agree on a list pick the same
(`AmongSame`), and picking from two lists joined joins what is picked from each
(`AmongJoined`). Then

* `DefaultPinned`, for any two libraries of any codes: the snapshot's codes come first and
  in the snapshot's order (`CodesAre`, `KnownOfCodes`), so a new release changes only
  what follows them;
* `TakeoverSeamless`, for any library and any extensions: the library's table grows by
  the code the extensions' table had at the same place (`OneLacking`, `TableIs`), and the
  feed-in table by a code that an extension listed there already (`ExportsStay`,
  `SupportStays`);
* `PricesAddUp`: the rate a price is computed from and the rate published are found by
  different code: the library's is the first windowed row that has the interval
  (`LibraryRateIs`), an extension's too where no window runs past midnight
  (`ExtensionRateIs`), and what is published is the first such row of those with a rate
  (`LookupIs`). They are the same row because unrated rows are the last of a table
  (`GoodRows`), which the inputs keep to; the arithmetic of GST is then linear
  (`ImportAddsUp`).

`TimelineJoins` and `TariffsAgree` are the invariants `TimelineIsSeamless` and `TariffsAddUp`
of the run, for the inputs it enumerates and every value of the constants.

**Model-checked only**: every liveness property (fairness and ENABLED are out of
the prover's reach), and three of the invariants of `rules`: `LearnedAsServed`,
`PublishedIsTold` and `MemosAreCurrent`, which conjoin what many small rules promise.
Many of those fold a sequence, and what a fold computes for every input needs induction
over data, which has to be built by hand from finite sets as it is for `AmongIs` and the
pooling of a fit; the memos are the next proofs of the plan.

## 6. What is not modelled

* Parsing of AEMO's CSV, ZIP and JSON, beyond which file and which row is chosen;
  the retryable HTTP statuses and the arithmetic of a backoff.
* The quantile and least-squares solvers, the hat matrix and the sun's elevation:
  parameters of `CalibrationFit`. Calibration summaries only describe a fit.
* Drawing (`forecast_chart.py`, `iso_chart.py`) and the rendering of a chart; the
  data drawn and the spikes called out are in `SharedPrices`.
* The state of a tariff sensor between two writes (`native_value`): the price of
  `TariffPricing` on the dispatch price, or on the interval now in.
* Forms, services, catalogues of places and units, diagnostics and timing logs;
  entity attributes, which repeat what other parts hold.

Known weak spots that no property states, because the code does not promise
otherwise or because the effect is bounded by the next cycle:

* a store that registers after a download with a stale but usable cache keeps it
  until the next one (`stpasa_store.py:195`), and an empty STPASA response replaces the last results
  (`stpasa_refresh.py:145`);
* a crash after the split's manifest leaves the single file behind for good, unread
  (`calibration_store.py:224`);
* a TradingIS file that is late is not asked for again (`actual_price_service.py`);
* the Amber site's listener is removed by its own callback and again by the
  unload that follows (`active_tariff.py:343`);
* two renders of one camera run in the executor at once, each saving its spikes;
* a fit is not shown between its publication and the push that follows the save, and
  not at all until something else notifies when the save raises
  (`calibration_store.py:358`, `__init__.py:401`); a result for the STPASA table and a
  usage fee notify nobody, and are shown at the next notification
  (`tariff_sensor.py:224`);
* a refresh of a held run that is under way at a shutdown runs to its end.

## 7. Plan

Done: the core (memo, gate, STPASA, dispatch, log), the notices with their
refinement, the publish slots, the held runs, the observation log and the tariffs
with their proofs, the pre-dispatch ledger, the rules of calibration, prices and
the timeline, one run for liveness, and the proof of every safety property outside
the rules, of a fit, of what it serves and of what is published of it, of the timeline
with its seam and of the tariffs. What is left, the most valuable first:

1. Proofs of the rules' memos, which need no induction over data: `PricesAreCurrent`
   of `TariffPricing`, `TimelineIsCurrent` of `PriceTimeline`, `RowsAreOfTheMoment` of
   `ConstraintSensors`; then `TrainedWhereServed` of `CalibrationFit`.
2. Refinements: `StpasaRefresh` implements "at most one download, its result
   delivered to every registered region"; `ObservationLog` implements a durable
   set of rows that a crash cuts back to what was saved.
3. `PublishCycle` composed with `NemwebFetch`, to bound how long a published file
   stays unseen; the first, unguarded refresh of the constraint consumer in
   `DispatchPolling`.
4. The configuration flows and the services of an entry.

## 8. Running it

```
tlc -workers 2 -config Memo.cfg MCCalibratedForecast.tla
tlapm CalibratedForecast_proofs.tla
```

and likewise for every run and proof module listed in `PROJECT.json`. The longest
runs are `polling`, `rules`, `live`, `stpasa` and `memo` (two to three minutes each); the longest proofs
`Prices_proofs` (about twenty minutes from nothing), `Serving_proofs` (about ten) and
`Polling_proofs` (about seven).
