-------------------------- MODULE PredispatchLedger --------------------------
(***************************************************************************)
(* One region's pre-dispatch forecasts and the settled prices they are     *)
(* paired with: the runs thinned into a history (predispatch_history.py),  *)
(* the record of them (predispatch_record.py, actual_recorder.py) and the  *)
(* half-hourly TradingIS fetch (actual_price_service.py,                   *)
(* tradingis_client.py).                                                   *)
(*                                                                         *)
(* A half hour is Period ticks, its run is solved one tick into it, and    *)
(* an interval is named by its start.  What a run forecasts and an         *)
(* interval settles at are told apart by the run and the interval alone.   *)
(***************************************************************************)
EXTENDS Integers, Sequences, SequencesExt, FiniteSets, FiniteSetsExt

CONSTANTS
  Missing,
  PdPeriod,
  Bands,          \* THINNING: horizon below so many ticks, every so many runs
  Span,           \* the periods of a run
  Forecast(_, _), \* the price a run gives the period of an end
  Settled(_),     \* what an interval settles at
  HistorySpan,    \* PD_HISTORY_DAYS
  MaxHalfHours    \* bound: half hours

\* What this module assumes of its constants.
LedgerAssumption ==
  /\ PdPeriod \in Nat \ {0, 1} /\ Missing \notin Int
  /\ {Span, HistorySpan} \subseteq Nat /\ MaxHalfHours \in Nat \ {0}
  /\ Bands \in Seq([below : Nat, every : Nat \ {0}])
  /\ \A h \in 0..(PdPeriod * Span) : \E i \in DOMAIN Bands : h < Bands[i].below
  /\ \A k \in 1..MaxHalfHours : Settled(PdPeriod * (k - 1)) # Missing

VARIABLES
  time,       \* half hours that have begun
  run,        \* PredispatchCoordinator.latest
  up,         \* the entry is loaded, its record registered and listening
  history,    \* PredispatchRecord._history, interval to entries
  lastRun,    \* PredispatchRecord._last_run
  onDisk,     \* the history and the observations on disk
  log,        \* the observations, [at, run, x, y]
  ticked,     \* the half hour the service fetched in last
  asked       \* the interval whose prices it is fetching

ledgerVars == <<time, run, up, history, lastRun, onDisk, log, ticked, asked>>

RunAt(k) == PdPeriod * k + 1

-----------------------------------------------------------------------------
(* predispatch_history.py *)

\* As if the run's hour were its place.
SlotByHour(at) == at \div (2 * PdPeriod)

\* run_slot(), the same wherever it is asked.
RunSlot(at) == at \div PdPeriod

\* The band of a horizon, the first whose limit is above it.
BandOf(h) == Min({i \in DOMAIN Bands : h < Bands[i].below})

\* keep()
Keep(h, slot) == h >= 0 /\ slot % Bands[BandOf(h)].every = 0

\* A run as published: its periods by their end.
Ends(k) == {PdPeriod * (k + i) : i \in 1..Span}

\* As if the history were keyed by the end of the period, as the run is.
RunForecastByEnd(k) ==
  {[at |-> e, run |-> k, x |-> Forecast(k, e)] :
     e \in {e \in Ends(k) : Keep(e - RunAt(k), RunSlot(RunAt(k)))}}

\* run_forecast(): its periods that are kept, by their start.
RunForecast(k) ==
  {[at |-> e - PdPeriod, run |-> k, x |-> Forecast(k, e)] :
     e \in {e \in Ends(k) : Keep(e - PdPeriod - RunAt(k), RunSlot(RunAt(k)))}}

-----------------------------------------------------------------------------
(* predispatch_record.py *)

\* forecast_history.ingest_run(): an interval keeps a run once.
Ingested(h, k) ==
  LET new(t) == {f \in RunForecast(k) : f.at = t}
      old(t) == IF t \in DOMAIN h THEN h[t] ELSE {}
  IN [t \in DOMAIN h \union {f.at : f \in RunForecast(k)} |->
        IF \E e \in old(t) : e.run = k THEN old(t) ELSE old(t) \union new(t)]

\* prune_history(), to the days kept before now.
PrunedHistory(h) == [t \in {s \in DOMAIN h : s >= RunAt(time) - HistorySpan} |-> h[t]]

\* async_ingest() to its save, of the run the coordinator holds, over a history
\* and the last run ingested into it.
IngestLatest(h, last) ==
  IF run' = Missing \/ (last # Missing /\ run' <= last) THEN history' = h /\ lastRun' = last
  ELSE history' = PrunedHistory(Ingested(h, run')) /\ lastRun' = run'

\* record_actual(): each kept forecast of the interval makes one observation; a
\* pair already observed takes the price into its average, the same price here.
Recorded(t, y) ==
  LET due == IF t \in DOMAIN history THEN history[t] ELSE {}
      observed(e) == \E o \in ToSet(log) : o.at = t /\ o.run = e.run
  IN log \o SetToSeq({[at |-> t, run |-> e.run, x |-> e.x, y |-> y] : e \in {d \in due : ~observed(d)}})

-----------------------------------------------------------------------------
(* tradingis_client.py *)

\* _parse_all_rrp(): the first row of the region whose price is a number.
FirstPrice(rows) ==
  LET S == {i \in DOMAIN rows : rows[i] # Missing} IN IF S = {} THEN Missing ELSE rows[Min(S)]

\* fetch_interval_prices(): no price when the listing fails or lacks the file,
\* when the zip fails, or when no row of the region has a price.
PricesFetched(t) == {Missing, FirstPrice(<<Missing, Settled(t), Settled(t) + 1>>)}

\* closed_interval_start()
ClosedInterval(k) == PdPeriod * (k - 1)

-----------------------------------------------------------------------------
LedgerInit ==
  /\ time = 1 /\ run = Missing /\ up = TRUE
  /\ history = <<>> /\ lastRun = Missing /\ log = <<>>
  /\ onDisk = [history |-> <<>>, log |-> <<>>]
  /\ ticked = 1 /\ asked = Missing

\* A half hour passes; the service has long finished its fetch.
HalfHour ==
  /\ time < MaxHalfHours /\ asked = Missing
  /\ time' = time + 1
  /\ UNCHANGED <<run, up, history, lastRun, onDisk, log, ticked, asked>>

\* The coordinator stores the run of this half hour, and its listeners ingest it.
NewRun ==
  /\ run # time
  /\ run' = time
  /\ IF up THEN IngestLatest(history, lastRun) ELSE UNCHANGED <<history, lastRun>>
  /\ UNCHANGED <<time, up, onDisk, log, ticked, asked>>

\* _on_tradingis_tick() up to its fetch, once in a half hour.
TradingTick ==
  /\ up /\ ticked < time
  /\ ticked' = time /\ asked' = ClosedInterval(time)
  /\ UNCHANGED <<time, run, up, history, lastRun, onDisk, log>>

\* The fetch ends, and whatever record is registered by then has the price.
Prices ==
  /\ asked # Missing /\ asked' = Missing
  /\ \E y \in PricesFetched(asked) : log' = IF up /\ y # Missing THEN Recorded(asked, y) ELSE log
  /\ UNCHANGED <<time, run, up, history, lastRun, onDisk, ticked>>

\* A save of the history, and a delayed save of the log, reach the disk.
HistorySaved ==
  /\ up /\ onDisk.history # history /\ onDisk' = [onDisk EXCEPT !.history = history]
  /\ UNCHANGED <<time, run, up, history, lastRun, log, ticked, asked>>
LogSaved ==
  /\ up /\ onDisk.log # log /\ onDisk' = [onDisk EXCEPT !.log = log]
  /\ UNCHANGED <<time, run, up, history, lastRun, log, ticked, asked>>

\* The entry is unloaded, or Home Assistant stops and forgets the run held too.
RecordStops ==
  /\ up /\ up' = FALSE /\ run' \in {run, Missing}
  /\ history' = <<>> /\ lastRun' = Missing /\ log' = <<>>
  /\ UNCHANGED <<time, onDisk, ticked, asked>>

\* async_load(), then listen(), which ingests the run held, then register().
RecordStarts ==
  /\ ~up /\ up' = TRUE /\ run' = run
  /\ log' = onDisk.log
  /\ IngestLatest(onDisk.history, Missing)
  /\ UNCHANGED <<time, onDisk, ticked, asked>>

LedgerNext ==
  HalfHour \/ NewRun \/ TradingTick \/ Prices \/ HistorySaved \/ LogSaved \/ RecordStops \/ RecordStarts

LedgerSpec == LedgerInit /\ [][LedgerNext]_ledgerVars

-----------------------------------------------------------------------------
(* Properties *)

\* The variables have their types.
LedgerTypeOK ==
  /\ time \in 1..MaxHalfHours /\ ticked \in 1..time /\ up \in BOOLEAN
  /\ {run, lastRun} \subseteq 1..time \union {Missing}
  /\ asked \in {ClosedInterval(k) : k \in 1..time} \union {Missing}
  /\ \A h \in {history, onDisk.history} : \A t \in DOMAIN h : h[t] \subseteq UNION {RunForecast(k) : k \in 1..time}
  /\ \A o \in ToSet(log \o onDisk.log) : o.run \in 1..time

\* Whatever was fetched again, saved late or lost in a restart, an observation
\* pairs a run's forecast of an interval with that interval's price, once.
PairsAreTrue ==
  /\ \A o \in ToSet(log) : o.x = Forecast(o.run, o.at + PdPeriod) /\ o.y = Settled(o.at)
  /\ \A i, j \in DOMAIN log : log[i].at = log[j].at /\ log[i].run = log[j].run => i = j

\* The runs kept of an interval in one band are whole multiples of the band's
\* step apart, however the record was restarted between them.
StepsHold ==
  \A t \in DOMAIN history : \A e, f \in history[t] :
    LET h(k) == t - RunAt(k)
    IN BandOf(h(e.run)) = BandOf(h(f.run)) => (e.run - f.run) % Bands[BandOf(h(e.run))].every = 0

\* An interval whose price was recorded has every run kept of it by then.
NoneIsMissed ==
  \A o \in ToSet(log) : \A e \in (IF o.at \in DOMAIN onDisk.history THEN onDisk.history[o.at] ELSE {}) :
    \E p \in ToSet(log) : p.at = o.at /\ p.run = e.run

LedgerIsExact == PairsAreTrue /\ StepsHold /\ NoneIsMissed
=============================================================================
