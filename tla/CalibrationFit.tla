--------------------------- MODULE CalibrationFit ---------------------------
(***************************************************************************)
(* Which observations a fit learns from, in which bucket, and what it      *)
(* learns (fitting.py, calibration_engine.py, refit_service.py).           *)
(*                                                                         *)
(* An observation is [at: the hour its interval starts, or None when that  *)
(* does not parse, hour: its hour of the day, h: its horizon, x: forecast, *)
(* y: actual, run, stpasa: the STPASA features recorded with it, or None,  *)
(* intervention].  The regressions themselves are parameters: what the     *)
(* quantile fit, least squares and the hat matrix return for given rows.   *)
(***************************************************************************)
EXTENDS Integers, Sequences, SequencesExt, FiniteSets, FiniteSetsExt

CONSTANTS
  Unit, FullDays, RawLow, RawHigh, Floor, MinHorizon, MaxHorizon,
  MinStage2, None,        \* see ServedPrice
  Spike,                  \* SPIKE_THRESHOLD
  Edges,                  \* HORIZON_EDGES
  SolarMin,               \* SOLAR_ELEVATION_MIN_DEG
  Elevation(_),           \* of the sun over the region, None without coordinates
  Window,                 \* OBSERVATION_WINDOW_DAYS, in hours
  MinObs, MaxObs,
  QuantileLines(_),       \* _quantile_regression at 0.1, 0.5 and 0.9
  LeastSquares(_),        \* _lstsq: coefficients, or None
  HighLeverage(_),        \* the rows over STAGE2_LEVERAGE_MULTIPLE
  LooScale(_, _)          \* 1 / (1 - leverage) of a row, at most 20

Fits == INSTANCE IsotonicFit
Serving == INSTANCE ServedPrice

-----------------------------------------------------------------------------
(* Buckets *)

Tods == {"shoulder", "morning_ramp", "solar", "peak"}
AllBucketKeys == (DOMAIN Edges) \X Tods

HorizonLabel(h) == Max({1} \union {i \in DOMAIN Edges : Edges[i] <= h})

ClockTod(hour) ==
  IF hour \in 16..20 THEN "peak" ELSE IF hour \in 10..15 THEN "solar" ELSE "shoulder"

SolarTod(at) ==
  LET hour == at % 24
      el == Elevation(at)
  IN IF hour \in 16..20 THEN "peak"
     ELSE IF el = None THEN ClockTod(hour)
     ELSE IF el > SolarMin THEN "solar"
     ELSE IF el > 0 THEN "morning_ramp"
     ELSE "shoulder"

\* The key of before #208, by the hour of the clock alone.
ClockKey(h, hour, at) == <<HorizonLabel(h), ClockTod(hour)>>

\* bucket_key_for(): where serving and stage 2 look.
BucketKeyFor(h, hour, at) ==
  <<HorizonLabel(h), IF at = None THEN ClockTod(hour) ELSE SolarTod(at)>>

-----------------------------------------------------------------------------
(* Stage 1 *)

InWindow(o, now) == o.at = None \/ o.at >= now - Window

\* window_observations(): the fit's observations, one without a time as of now.
Windowed(obs, now) == SelectSeq(obs, LAMBDA o : InWindow(o, now))
TrainedAt(o, now) == IF o.at = None THEN now ELSE o.at

\* Interventions and spikes, on either side, are not fitted.
Trains(o) == ~o.intervention /\ o.x < Spike /\ o.y < Spike

TrainingKey(o, now) == <<HorizonLabel(o.h), SolarTod(TrainedAt(o, now))>>

\* The MaxObs rows of least age; of equal age, the later ones.
Age(o, now) == Max({0, now - TrainedAt(o, now)})
Newest(rows, S, now) ==
  {i \in S : Cardinality({j \in S : \/ Age(rows[j], now) < Age(rows[i], now)
                                    \/ Age(rows[j], now) = Age(rows[i], now) /\ j > i}) < MaxObs}

\* partition_stage1(): the rows of each bucket, as indices.
Partition(rows, now) ==
  [key \in AllBucketKeys |->
     Newest(rows, {i \in DOMAIN rows : Trains(rows[i]) /\ TrainingKey(rows[i], now) = key}, now)]

\* fit_quantile_lines(): the slopes in ascending order, none below zero.
OrderedLines(rows) ==
  LET raw == QuantileLines(rows)
      slopes == SortSeq([i \in 1..3 |-> raw[i][1]], <)
  IN [i \in 1..3 |-> <<Max({0, slopes[i]}), raw[i][2]>>]

\* exp(-DECAY_LAMBDA * age), as a weight that is halved once over the window.
Decay(o, now) == IF 2 * Age(o, now) < Window THEN 2 ELSE 1

\* fit_stage1_bucket()
FitBucket(rows, now) ==
  LET lines == OrderedLines(rows)
      row(o) == [x |-> o.x, y |-> o.y, w |-> Decay(o, now), day |-> TrainedAt(o, now) \div 24,
                 p50 |-> lines[2][1] * Unit * o.x + lines[2][2]]
  IN IF Len(rows) < MinObs THEN [iso |-> None, lines |-> <<None, None, None>>]
     ELSE [iso |-> Fits!Fit([i \in DOMAIN rows |-> row(rows[i])]), lines |-> lines]

\* Stage1Fitter.fit()
Fit(obs, now) ==
  LET rows == Windowed(obs, now)
      part == Partition(rows, now)
      pick(S) == LET s == SetToSortSeq(S, <) IN [i \in DOMAIN s |-> rows[s[i]]]
  IN [at |-> now, models |-> [key \in AllBucketKeys |-> FitBucket(pick(part[key]), now)]]

-----------------------------------------------------------------------------
(* Stage 2 *)

\* _compute_run_features(): here the run's highest forecast of the next six
\* hours; a run is known by its forecasts of the next day.
RunFeature(obs, run) ==
  LET within(hours) == {i \in DOMAIN obs : obs[i].run = run /\ obs[i].h < hours}
  IN IF within(24) = {} THEN None
     ELSE IF within(6) = {} THEN 0
     ELSE Unit * Max({obs[i].x : i \in within(6)})

\* stpasa_feature_map(): keyed by interval and run, the last row counts.
StpasaFeature(obs, o) ==
  LET same == {i \in DOMAIN obs :
                 obs[i].at = o.at /\ obs[i].run = o.run /\ obs[i].stpasa # None}
  IN IF same = {} THEN None ELSE obs[Max(same)].stpasa

\* _stage2_joined()
Joins(obs, o) ==
  /\ Trains(o)
  /\ o.h \in MinHorizon..MaxHorizon
  /\ StpasaFeature(obs, o) # None
  /\ RunFeature(obs, o.run) # None

ServingBucket(fit, o) == fit.models[BucketKeyFor(o.h, o.hour, o.at)]

\* _stage2_row() without its domain check: rows nobody asks the model about.
LearnsBelowDomain(obs, fit, o) == InWindow(o, fit.at) /\ Joins(obs, o)

\* Whether _stage2_row() makes a row of o.
Learns(obs, fit, o) ==
  InWindow(o, fit.at) /\ Joins(obs, o) /\ ~Serving!IsBelowDomain(ServingBucket(fit, o), o.x)

FeaturesOf(obs, fit, o) ==
  Serving!Features(Serving!Stage1(ServingBucket(fit, o), o.x),
                   RunFeature(obs, o.run), StpasaFeature(obs, o))

\* stage2_rows(): a bucket's rows, in the order they came.
Stage2Rows(obs, fit, key) ==
  LET own == SelectSeq(obs, LAMBDA o : BucketKeyFor(o.h, o.hour, o.at) = key /\ Learns(obs, fit, o))
  IN [i \in DOMAIN own |-> [f |-> FeaturesOf(obs, fit, own[i]), y |-> Unit * own[i].y]]

EmptyModel == [coef |-> <<>>, min |-> <<>>, max |-> <<>>, resid |-> None]

\* The plain empirical quantile, one order statistic narrower at each end.
PlainIndex(n, tenths) == Max({1, (tenths * n) \div 10 + (IF tenths >= 5 THEN 0 ELSE 1)})

\* _conformal_index(), from 1: the lower one rounded down, the upper one up.
ConformalIndex(n, tenths) ==
  Max({1, Min({n, IF tenths >= 5 THEN (tenths * (n + 1) + 9) \div 10
                  ELSE (tenths * (n + 1)) \div 10})})

LooResiduals(rows, coef) ==
  [i \in DOMAIN rows |->
     (rows[i].y - Serving!Prediction([coef |-> coef], rows[i].f)) * LooScale(rows, i)]

\* _residual_quantiles()
ResidualQuantiles(rows, coef) ==
  LET loo == SortSeq(LooResiduals(rows, coef), <)
      n == Len(loo)
      at(k) == loo[ConformalIndex(n, k)]
  IN [q10 |-> at(1), q90 |-> at(9), n |-> n,
      q50 |-> (loo[(n + 1) \div 2] + loo[(n + 2) \div 2]) \div 2]

\* The rows that pass the leverage screen.
Screened(rows) ==
  LET keep == SetToSortSeq((DOMAIN rows) \ HighLeverage(rows), <)
  IN [i \in DOMAIN keep |-> rows[keep[i]]]

\* fit_stage2_bucket()
FitStage2Bucket(rows) ==
  LET kept == Screened(rows)
      coef == LeastSquares(kept)
      column(k) == {kept[i].f[k] : i \in DOMAIN kept}
  IN IF Len(rows) < MinStage2 \/ Len(kept) < MinStage2 \/ coef = None THEN EmptyModel
     ELSE [coef |-> coef, resid |-> ResidualQuantiles(kept, coef),
           min |-> [k \in DOMAIN kept[1].f |-> Min(column(k))],
           max |-> [k \in DOMAIN kept[1].f |-> Max(column(k))]]

\* Stage2Fitter.fit() on the stage 1 result being published.
FitStage2(obs, fit) == [key \in AllBucketKeys |-> FitStage2Bucket(Stage2Rows(obs, fit, key))]

-----------------------------------------------------------------------------
(* Properties *)

\* Every observation stage 1 trains on is a row of the bucket its interval is
\* served from, and of no other (#208), unless a full bucket holds only rows
\* at least as recent (#209).
TrainedWhereServed(obs, now) ==
  LET rows == Windowed(obs, now)
      part == Partition(rows, now)
  IN \A i \in DOMAIN rows : rows[i].at # None /\ Trains(rows[i]) =>
       LET key == BucketKeyFor(rows[i].h, rows[i].hour, rows[i].at)
       IN /\ \A other \in AllBucketKeys \ {key} : i \notin part[other]
          /\ i \notin part[key] =>
               /\ Cardinality(part[key]) = MaxObs
               /\ \A j \in part[key] : Age(rows[j], now) <= Age(rows[i], now)

\* Stage 2 learns only from rows it would be asked about (#117, #210), and a row it
\* learned from is inside what it serves (#147).
Stage2LearnsWhatItServes(obs, now) ==
  LET holds(model, kept) ==
        model # EmptyModel => \A i \in DOMAIN kept : Serving!Serves(model, kept[i].f)
      learned(fit, models) ==
        /\ \A o \in ToSet(obs) : Learns(obs, fit, o) /\ models[BucketKeyFor(o.h, o.hour, o.at)] # EmptyModel =>
             Serving!Stage1(ServingBucket(fit, o), o.x).source # "isotonic_below_domain"
        /\ \A key \in AllBucketKeys : holds(models[key], Screened(Stage2Rows(obs, fit, key)))
      asked(fit) == learned(fit, FitStage2(obs, fit))
  IN asked(Fit(obs, now))

\* The band of n residuals keeps its promise to a price not seen yet (#72): of that
\* price's error and the n, in an order that may be any, it lies between the two chosen
\* at least four times in five.
BandCoversTheNext(n) == 10 * (ConformalIndex(n, 9) - ConformalIndex(n, 1)) >= 8 * (n + 1)
=============================================================================
