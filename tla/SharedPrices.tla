---------------------------- MODULE SharedPrices ----------------------------
(***************************************************************************)
(* Who publishes the calibrated price of an interval, and from what: the   *)
(* forecast sensors' memo and their state (sensor.py), the spot view the   *)
(* tariffs fall back on (calibration_inputs.py, calibrated_forecast.py),   *)
(* and the chart, drawn from the memo or calibrated on its own (camera.py, *)
(* forecast_chart.py).                                                     *)
(*                                                                         *)
(* A run d is [run, periods], a period [start, end, value]; the            *)
(* coordinator's other inputs are w = [stp, series, summary, region].  A   *)
(* store is None or [fit], fit None before the first fit; Applied is what  *)
(* ServedPrice makes of an interval, [price, band, source].  Horizons are  *)
(* whole ticks, so that rounding them to a tenth of an hour is no change.  *)
(***************************************************************************)
EXTENDS CovariateInputs

CONSTANTS
  Applied(_, _),             \* CalibrationResult.apply(): a fit, an interval
  SpikeAt, SpikeGas,         \* SPIKE_THRESHOLD, SPIKE_GAS_THRESHOLD_TJ
  SpikeMinHorizon,           \* SPIKE_COVARIATE_MIN_HORIZON_H
  CalloutAt, CalloutHorizon, \* the 48 h threshold of a callout, and its 48 h
  NearHours, DayHours        \* 6 h and 24 h

-----------------------------------------------------------------------------
(* The features of a run *)

\* _p90_minus_p10(), in tenths: linear between the closest ranks.
Spread(values) ==
  LET s == SortSeq(values, <)
      n == Len(s)
      rank(k) == (k * (n - 1)) \div 10 + 1
      part(k) == (k * (n - 1)) % 10
      pct(k) == IF part(k) = 0 THEN 10 * s[rank(k)]
                ELSE (10 - part(k)) * s[rank(k)] + part(k) * s[rank(k) + 1]
  IN IF n < 2 THEN 0 ELSE pct(9) - pct(1)

Summed(values) == FoldLeft(+, 0, values)

FeaturesFrom(near, day) ==
  [high |-> IF near = <<>> THEN 0 ELSE Max(ToSet(near)),
   mean |-> IF day = <<>> THEN <<0, 1>> ELSE <<Summed(day), Len(day)>>, spread |-> Spread(day)]

\* With the horizon of an interval taken at its end.
RunFeaturesByEnd(d) ==
  LET within(hours) == SelectSeq(d.periods, LAMBDA p : p.end - d.run < hours)
      values(s) == [i \in DOMAIN s |-> s[i].value]
  IN IF d.run = None \/ within(NearHours) \o within(DayHours) = <<>> THEN None
     ELSE FeaturesFrom(values(within(NearHours)), values(within(DayHours)))

\* current_run_features: of the forecasts of the run the coordinator holds.
RunFeatures(d) ==
  LET within(hours) == SelectSeq(d.periods, LAMBDA p : p.start - d.run < hours)
      values(s) == [i \in DOMAIN s |-> s[i].value]
  IN IF d.run = None \/ within(NearHours) \o within(DayHours) = <<>> THEN None
     ELSE FeaturesFrom(values(within(NearHours)), values(within(DayHours)))

\* _compute_run_features(): of the observations a fit has of the run.
TrainedFeatures(obs, run) ==
  LET within(hours) == SelectSeq(obs, LAMBDA o : o.run = run /\ o.h < hours)
      values(s) == [i \in DOMAIN s |-> s[i].x]
  IN IF within(NearHours) \o within(DayHours) = <<>> THEN None
     ELSE FeaturesFrom(values(within(NearHours)), values(within(DayHours)))

-----------------------------------------------------------------------------
(* One interval *)

\* annotate_spike(): whether the covariates support a spike, "unknown" when one
\* is missing and "unasked" below the threshold.
Gate(v) ==
  IF v.x < SpikeAt THEN "unasked"
  ELSE IF None \in {v.gas, v.tight} THEN "unknown"
  ELSE IF v.gas > SpikeGas /\ v.tight THEN "yes" ELSE "no"

\* passthrough_result()
PassedThrough(x) == [price |-> x, band |-> <<None, None, None>>, source |-> "passthrough", gate |-> "unasked"]

\* CalibrationStore.apply_to_price()
ApplyToPrice(store, v) ==
  IF store.fit = None THEN PassedThrough(v.x)
  ELSE LET annotated(r) == [price |-> r.price, band |-> r.band, source |-> r.source, gate |-> Gate(v)]
       IN annotated(Applied(store.fit, v))

\* calibrate_interval()
CalibrateInterval(store, w, d, p) ==
  IF store = None \/ p.value = None THEN None
  ELSE ApplyToPrice(store,
         [x |-> p.value, at |-> p.start, h |-> HorizonHours(d.run, p.start), features |-> RunFeatures(d),
          stpasa |-> ServedFeatures(w.stp, p.start, d.run), gas |-> GasServed(w.summary, p.start),
          tight |-> NetworkTight(NetworkContext(w.series, w.region), p.start)])

-----------------------------------------------------------------------------
(* The forecast sensors *)

\* _published_spike_credible(): the gate is no opinion at short lead.
PublishedFlag(gate, h) == IF gate = "unasked" \/ h < SpikeMinHorizon THEN "unknown" ELSE gate

\* _calibrate_period(): an entry of the memo.
MemoEntry(store, w, d, p) ==
  LET h == HorizonHours(d.run, p.start)
      bare == [start |-> p.start, end |-> p.end, raw |-> p.value, h |-> h, value |-> p.value,
               band |-> <<None, None, None>>, source |-> None, flag |-> "unknown", gate |-> "unasked"]
      entry(cal) == IF cal = None THEN bare
                    ELSE [bare EXCEPT !.value = cal.price, !.band = cal.band, !.source = cal.source,
                            !.flag = PublishedFlag(cal.gate, h), !.gate = cal.gate]
  IN entry(CalibrateInterval(store, w, d, p))

Memo(store, w, d) == [i \in DOMAIN d.periods |-> MemoEntry(store, w, d, d.periods[i])]

\* _current_period(): the one running, else the first.
CurrentPeriod(d, now) ==
  LET running == {i \in DOMAIN d.periods : d.periods[i].start <= now /\ now < d.periods[i].end}
  IN IF d.periods = <<>> THEN None ELSE d.periods[IF running = {} THEN 1 ELSE Min(running)]

Price(cal) == IF cal = None THEN None ELSE cal.price

\* _calibrated_current()
Current(store, w, d, p) ==
  IF store = None THEN p.value ELSE Price(CalibrateInterval(store, w, d, p))

\* native_value: the dispatch price, else the calibrated one of the current period.
StateOf(dispatched, store, w, d, now) ==
  IF dispatched # None THEN dispatched
  ELSE LET p == CurrentPeriod(d, now) IN IF p = None THEN None ELSE Current(store, w, d, p)

\* forecast_entries(): the timeline's points; a PD7DAY one is the memo's entry of
\* that interval, without its gate and from where the timeline has it start.
ForecastEntries(points, memo) ==
  LET held(q) == {i \in DOMAIN memo : q.source = "pd7day" /\ memo[i].end = q.end}
      entry(q) == IF held(q) # {} THEN [memo[Max(held(q))] EXCEPT !.start = q.start, !.gate = "unasked"]
                  ELSE [start |-> q.start, end |-> q.end, raw |-> q.price, h |-> None, value |-> q.price,
                        band |-> q.band, source |-> q.source, flag |-> "unknown", gate |-> "unasked"]
  IN [i \in DOMAIN points |-> entry(points[i])]

-----------------------------------------------------------------------------
(* The tariffs *)

\* calibrated_spot_for_period()
SpotFor(store, w, d, p) == Price(CalibrateInterval(store, w, d, p))

\* CalibratedForecast.spot()
Spot(store, w, d, p) == IF store = None THEN p.value ELSE SpotFor(store, w, d, p)

\* calibrated_spot_map(): by interval, the last of a run that names one twice.
SpotMap(store, w, d) ==
  [t \in {p.start : p \in ToSet(d.periods)} |->
     SpotFor(store, w, d, d.periods[Max({i \in DOMAIN d.periods : d.periods[i].start = t})])]

\* _calibrated_value_memoised(), where the tariff does not find the memo.
SpotMemoised(store, w, d, p) ==
  LET found(map) == IF store # None /\ p.start \in DOMAIN map THEN map[p.start] ELSE Spot(store, w, d, p)
  IN found(SpotMap(store, w, d))

-----------------------------------------------------------------------------
(* The chart *)

\* As it was before #80, of the forecast and the gas and network alone.
ChartEntryBare(store, w, d, p, prior) ==
  LET e == MemoEntry(store, [w EXCEPT !.stp = None], d, p)
  IN [start |-> p.start, end |-> p.end, raw |-> e.raw, h |-> e.h, value |-> e.value, band |-> e.band,
      source |-> e.source, gate |-> e.gate, first |-> p.start \notin prior]

\* _calibrated_chart_entry(), for a chart that calibrates on its own.
ChartEntry(store, w, d, p, prior) ==
  LET bare == [start |-> p.start, end |-> p.end, raw |-> p.value, h |-> HorizonHours(d.run, p.start),
               value |-> p.value, band |-> <<None, None, None>>, source |-> None, gate |-> "unasked",
               first |-> p.start \notin prior]
      entry(cal) == IF cal = None THEN bare
                    ELSE [bare EXCEPT !.value = cal.price, !.band = cal.band, !.source = cal.source,
                            !.gate = cal.gate]
  IN entry(CalibrateInterval(store, w, d, p))

OwnChart(store, w, d, prior) == [i \in DOMAIN d.periods |-> ChartEntry(store, w, d, d.periods[i], prior)]

\* With the flag the sensors publish in place of the gate (#339).
ChartOfFlags(points, memo, run, prior) ==
  LET rows == ForecastEntries(points, memo)
  IN [i \in DOMAIN rows |->
        [start |-> rows[i].start, end |-> rows[i].end, raw |-> rows[i].raw,
         h |-> IF rows[i].h # None THEN rows[i].h ELSE HorizonHours(run, rows[i].start),
         value |-> rows[i].value, band |-> rows[i].band, source |-> rows[i].source,
         gate |-> rows[i].flag, first |-> rows[i].start \notin prior]]

\* _memo_forecast_data(): the published entries with the memo's gate.
MemoChart(points, memo, run, prior) ==
  LET rows == ForecastEntries(points, memo)
      held(i) == {j \in DOMAIN memo : points[i].source = "pd7day" /\ memo[j].end = rows[i].end}
  IN [i \in DOMAIN rows |->
        [start |-> rows[i].start, end |-> rows[i].end, raw |-> rows[i].raw,
         h |-> IF rows[i].h # None THEN rows[i].h ELSE HorizonHours(run, rows[i].start),
         value |-> rows[i].value, band |-> rows[i].band, source |-> rows[i].source,
         gate |-> IF held(i) = {} THEN "unasked" ELSE memo[Max(held(i))].gate,
         first |-> rows[i].start \notin prior]]

\* _save_spike_intervals(): what the next render takes for seen before.
SpikesSeen(entries) ==
  {e.start : e \in {f \in ToSet(entries) : f.raw # None /\ f.raw >= SpikeAt /\ f.gate = "yes"}}

\* _is_spike_callout_eligible(), asked only of what is over the 48 h threshold.
Style(e) == IF e.h >= CalloutHorizon THEN "none" ELSE IF e.first THEN "candidate" ELSE "confirmed"
Callout(e) == IF e.raw = None \/ e.raw < CalloutAt \/ e.gate # "yes" THEN "none" ELSE Style(e)

-----------------------------------------------------------------------------
(* Properties *)

\* Whoever publishes an interval of a run, its price, band and source are the same
\* (#66, #80): the memo, a tariff without it, the chart's own entries, and the
\* state of the sensor when it is the current one and no dispatch price is held.
PricesAgree(store, w, d, prior) ==
  LET same(p, m, c) ==
        /\ m.value = SpotMemoised(store, w, d, p)
        /\ <<m.value, m.band, m.source>> = <<c.value, c.band, c.source>>
        /\ \A now \in p.start..p.end - 1 : StateOf(None, store, w, d, now) = m.value
  IN \A p \in ToSet(d.periods) : same(p, MemoEntry(store, w, d, p), ChartEntry(store, w, d, p, prior))

\* A chart drawn from the memo calls out the spikes that one calibrating on its
\* own would, of the half hours the timeline leaves whole to PD7DAY, and what it
\* remembers of them for the next is the same.
CalloutsAgree(points, store, w, d, prior) ==
  LET same(drawn, own) ==
        \A i \in DOMAIN drawn, j \in DOMAIN own :
          /\ points[i].source = "pd7day"
          /\ drawn[i].start = own[j].start /\ drawn[i].end = own[j].end
          => /\ Callout(drawn[i]) = Callout(own[j])
             /\ drawn[i].start \in SpikesSeen(drawn) <=> own[j].start \in SpikesSeen(own)
  IN same(MemoChart(points, Memo(store, w, d), d.run, prior), OwnChart(store, w, d, prior))

\* Once all of a run has settled, the features of the run a fit learns from are
\* those its prices were served with.
FeaturesAsTrained(d, region) ==
  LET r == [run |-> d.run, region |-> region, summary |-> <<>>, stp |-> None,
            periods |-> [i \in DOMAIN d.periods |-> [at |-> d.periods[i].start, value |-> d.periods[i].value]]]
      history == IngestRun(<<>>, r)
      obs == FoldLeft(LAMBDA acc, p : acc \o Observations(history, p.start, 0, region), <<>>, d.periods)
  IN TrainedFeatures(obs, d.run) = RunFeatures(d)
=============================================================================
