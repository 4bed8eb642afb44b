--------------------------- MODULE CovariateInputs ---------------------------
(***************************************************************************)
(* The inputs a calibrated price has beside the forecast itself, on the    *)
(* two sides that must agree: what an ingested run keeps of them for the   *)
(* fit (forecast_history.py, actual_recorder.py), and what is looked up    *)
(* when an interval is served (calibration_inputs.py).                     *)
(*                                                                         *)
(* Times are ticks; an interval is named by its start.  An STPASA result   *)
(* is None or its rows [end, demand, mw], mw standing for the fields that  *)
(* are logged, None for one that is missing.  A series of a link is its    *)
(* points [at, flow, export, import].  A market summary is days [end, tj]. *)
(***************************************************************************)
EXTENDS Integers, Sequences, SequencesExt, FiniteSets, FiniteSetsExt

CONSTANTS
  None,
  Interval, Day,           \* ticks in half an hour, in a day
  Match,                   \* STPASA_MAX_MATCH_SECONDS, and the coverage margin
  MinHorizon, MaxHorizon,  \* STPASA_MIN_HORIZON_H, STPASA_MAX_HORIZON_H
  ObsHorizon,              \* MAX_HORIZON_HOURS
  DemandFloor,             \* STPASA_DEMAND_FLOOR_MW
  Sign,                    \* REGION_INTERCONNECTOR_SIGN: region to link to 1 or -1
  Share                    \* a link is depressed at one Share-th of its median

Date(t) == t \div Day
Distance(a, b) == IF a < b THEN b - a ELSE a - b

-----------------------------------------------------------------------------
(* STPASA *)

StartOf(row) == row.end - Interval

\* stpasa_feature_values(): None for a row short of a field or of demand.
FeatureValues(row) ==
  IF None \in {row.demand, row.mw} \/ row.demand < DemandFloor THEN None
  ELSE <<row.demand, row.mw>>

\* stpasa_coverage_start()
CoverageStart(stp) == Min({StartOf(row) : row \in ToSet(stp)})

\* The edge of the band without the bridge of one interval below coverage (#67).
BandEdgeAtCoverage(run, stp) ==
  IF run = None THEN MinHorizon ELSE Max({MinHorizon, CoverageStart(stp) - run})

\* stpasa_effective_min_horizon_h(); its second of slack is for rounding.
EffectiveMinHorizon(run, stp) ==
  IF run = None THEN MinHorizon ELSE Max({MinHorizon, CoverageStart(stp) - run - Match})

\* horizon_hours()
HorizonHours(run, t) == IF run = None THEN 0 ELSE Max({0, t - run})

\* The rows of exactly this interval, the last of which is in the index.
Exact(stp, t) == {i \in DOMAIN stp : StartOf(stp[i]) = t}

\* The two neighbours in the list sorted by start, rows of one start in file order.
Before(stp, t) ==
  LET S == {i \in DOMAIN stp : StartOf(stp[i]) < t}
      near == Max({StartOf(stp[i]) : i \in S})
  IN IF S = {} THEN {} ELSE {Max({i \in S : StartOf(stp[i]) = near})}
After(stp, t) ==
  LET S == {i \in DOMAIN stp : StartOf(stp[i]) >= t}
      near == Min({StartOf(stp[i]) : i \in S})
  IN IF S = {} THEN {} ELSE {Min({i \in S : StartOf(stp[i]) = near})}

\* The nearer neighbour, the earlier of two, if it is near enough.
Bridge(stp, t) ==
  LET far(i) == Distance(StartOf(stp[i]), t)
      nearest(S) == {i \in S : \A j \in S : far(i) <= far(j)}
      pick(earlier, later) == IF later # {} /\ earlier \intersect nearest(earlier \union later) = {}
                              THEN later ELSE earlier
  IN {i \in pick(Before(stp, t), After(stp, t)) : far(i) <= Match}

\* stpasa_features_for_interval()
ServedFeatures(stp, t, run) ==
  LET h == HorizonHours(run, t)
      features(row) == IF row = {} THEN None ELSE FeatureValues(stp[CHOOSE i \in row : TRUE])
      exact == Exact(stp, t)
  IN IF \/ h \notin MinHorizon..MaxHorizon \/ stp = None \/ stp = <<>>
        \/ h < EffectiveMinHorizon(run, stp)
     THEN None ELSE features(IF exact # {} THEN {Max(exact)} ELSE Bridge(stp, t))

-----------------------------------------------------------------------------
(* The network of a region *)

\* import_capability()
ImportCapability(point, sign) ==
  LET raw == IF sign > 0 THEN point.export ELSE point.import
  IN IF raw = None THEN None ELSE sign * raw

\* _out_of_service(): held at zero both ways for the whole run.
OutOfService(points) == points # <<>> /\ \A p \in ToSet(points) : p.export = 0 /\ p.import = 0

\* Twice the median of what a link could import over the run.
TwiceMedian(values) ==
  LET s == SortSeq(values, <)
      n == Len(s)
  IN s[(n + 1) \div 2] + s[(n + 2) \div 2]

\* network_context(): the links in service, each with its points and median.
NetworkContext(series, region) ==
  LET links == {k \in DOMAIN Sign[region] : ~OutOfService(series[k])}
      caps(k) == SelectSeq([i \in DOMAIN series[k] |-> ImportCapability(series[k][i], Sign[region][k])],
                           LAMBDA c : c # None)
  IN [k \in links |-> [sign |-> Sign[region][k], points |-> series[k],
                       twice |-> IF caps(k) = <<>> THEN None ELSE TwiceMedian(caps(k))]]

\* network_covariates_for_interval(): unknown unless every link of the region has
\* its point, flow and limit there; then whether it imports over a tight link.
NetworkTight(context, t) ==
  LET at(k) == {i \in DOMAIN context[k].points : context[k].points[i].at = t}
      point(k) == context[k].points[Max(at(k))]
      capability(k) == ImportCapability(point(k), context[k].sign)
      known(k) == at(k) # {} /\ point(k).flow # None /\ capability(k) # None
      depressed(k) == \/ capability(k) <= 0
                      \/ /\ context[k].twice > 0
                         /\ 2 * Share * capability(k) <= context[k].twice
      net == MapThenSumSet(LAMBDA k : context[k].sign * point(k).flow, DOMAIN context)
  IN IF DOMAIN context = {} \/ \E k \in DOMAIN context : ~known(k) THEN None
     ELSE net > 0 /\ \E k \in DOMAIN context : depressed(k)

\* _network_context_cached(): rebuilt when the shape of the series changes.
Stamp(series, region) ==
  [k \in DOMAIN Sign[region] |->
     <<Len(series[k]), IF series[k] = <<>> THEN None ELSE series[k][1].at>>]
ReadContext(cache, series, region) ==
  IF cache # None /\ cache.stamp = Stamp(series, region) THEN cache
  ELSE [stamp |-> Stamp(series, region), context |-> NetworkContext(series, region)]

\* covariates_for_interval(): the gas of the day, the first day of that date.
GasServed(summary, t) ==
  LET S == {i \in DOMAIN summary : Date(summary[i].end) = Date(t)}
  IN IF S = {} THEN None ELSE summary[Min(S)].tj

-----------------------------------------------------------------------------
(* The forecast history *)

\* As if the summary were keyed by the start of its interval.
GasKeptByStart(summary, t) ==
  LET S == {i \in DOMAIN summary : Date(summary[i].end - Interval) = Date(t)}
  IN IF S = {} THEN None ELSE summary[Max(S)].tj

\* _gas_by_date(), keyed by the end of the gas day as it is written.
GasKept(summary, t) ==
  LET S == {i \in DOMAIN summary : Date(summary[i].end) = Date(t)}
  IN IF S = {} THEN None ELSE summary[Max(S)].tj

\* What ingest_run() keeps of a run for one of its intervals.
Entry(r, period) ==
  [run |-> r.run, region |-> r.region, price |-> period.value, gas |-> GasKept(r.summary, period.at),
   stpasa |-> IF r.stp = None \/ Exact(r.stp, period.at) = {} THEN None
              ELSE r.stp[Max(Exact(r.stp, period.at))]]

\* As if a run fetched again were kept again.
IngestAgain(history, r) ==
  FoldLeft(LAMBDA h, p : [t \in DOMAIN h \union {p.at} |->
             IF t # p.at THEN h[t] ELSE IF t \in DOMAIN h THEN Append(h[t], Entry(r, p)) ELSE <<Entry(r, p)>>],
           history, r.periods)

\* ingest_run(): a run is kept once for an interval, as it first came.
IngestRun(history, r) ==
  LET has(h, t) == t \in DOMAIN h /\ \E e \in ToSet(h[t]) : e.run = r.run
      keep(h, p) == [t \in DOMAIN h \union {p.at} |->
                       (IF t \in DOMAIN h THEN h[t] ELSE <<>>) \o
                       (IF t = p.at THEN <<Entry(r, p)>> ELSE <<>>)]
  IN FoldLeft(LAMBDA h, p : IF has(h, p.at) THEN h ELSE keep(h, p), history, r.periods)

\* _horizon_hours() of the recorder: None where the entry makes no observation.
ObservedHorizon(e, t, region) ==
  IF e.region # region \/ t - e.run \notin 0..ObsHorizon THEN None ELSE t - e.run

\* _new_observation(), for each entry of the interval that makes one.
Observations(history, t, actual, region) ==
  IF t \notin DOMAIN history THEN <<>>
  ELSE LET seen == SelectSeq(history[t], LAMBDA e : ObservedHorizon(e, t, region) # None)
       IN [i \in DOMAIN seen |->
             [at |-> t, run |-> seen[i].run, h |-> ObservedHorizon(seen[i], t, region),
              x |-> seen[i].price, y |-> actual, gas |-> seen[i].gas,
              stpasa |-> IF seen[i].stpasa = None THEN None ELSE FeatureValues(seen[i].stpasa)]]

-----------------------------------------------------------------------------
(* Properties *)

\* What an observation says of the weather and the gas of its interval is what
\* serving that interval of that run would have looked up; where it says nothing
\* of the weather, serving has at most a neighbour no further than Match (#67).
LearnedAsServed(r, region) ==
  LET history == IngestRun(<<>>, r)
  IN \A t \in DOMAIN history : \A o \in ToSet(Observations(history, t, 0, region)) :
       LET served == ServedFeatures(r.stp, t, r.run)
       IN /\ o.gas = GasServed(r.summary, t)
          /\ o.h \in MinHorizon..MaxHorizon /\ o.stpasa # None => served = o.stpasa
          /\ served # None /\ served # o.stpasa =>
               /\ Exact(r.stp, t) = {}
               /\ \E row \in ToSet(r.stp) : Distance(StartOf(row), t) <= Match

\* The moving lower edge of the band takes no match away: in the static band, an
\* interval has features exactly when the nearest row within Match has (#68).
FloorKeepsMatches(stp, t, run) ==
  HorizonHours(run, t) \in MinHorizon..MaxHorizon =>
    LET near == {row \in ToSet(stp) : Distance(StartOf(row), t) <= Match}
    IN /\ near = {} => ServedFeatures(stp, t, run) = None
       /\ near # {} /\ (\A row \in near : FeatureValues(row) # None) =>
            ServedFeatures(stp, t, run) # None

\* However often a run is fetched, and whatever came with it later, an interval
\* settles into one observation of it, with what came first.
EachRunCountsOnce(runs, region) ==
  LET history == FoldLeft(IngestRun, <<>>, runs)
  IN \A t \in DOMAIN history :
       LET seen == Observations(history, t, 0, region)
       IN /\ \A i, j \in DOMAIN seen : seen[i].run = seen[j].run => i = j
          /\ \A i \in DOMAIN seen :
               LET first == runs[Min({k \in DOMAIN runs : runs[k].run = seen[i].run
                                                          /\ \E p \in ToSet(runs[k].periods) : p.at = t})]
               IN seen[i] \in ToSet(Observations(IngestRun(<<>>, first), t, 0, region))

\* Of two regions no other links join, at most one is short of imports: the
\* signs of a link at its two ends are opposite.
OneEndIsTight(series, a, b, t) ==
  ~(NetworkTight(NetworkContext(series, a), t) = TRUE /\ NetworkTight(NetworkContext(series, b), t) = TRUE)

\* A context from the cache is that of the run asked about, of runs that differ in
\* where they begin or how long they are: of two that do not, the cache keeps the first.
ContextIsOfItsRun(runs, region) ==
  FoldLeft(LAMBDA acc, s : LET cache == ReadContext(acc.cache, s, region)
                           IN [cache |-> cache, ok |-> acc.ok /\ cache.context = NetworkContext(s, region)],
           [cache |-> None, ok |-> TRUE], runs).ok
=============================================================================
