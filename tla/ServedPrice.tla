---------------------------- MODULE ServedPrice ----------------------------
(***************************************************************************)
(* What a fitted calibration publishes for one interval: the three stage 1 *)
(* paths, the gates a stage 2 (STPASA) prediction has to pass, and the     *)
(* published band (serving.py, calibration_engine.py).                     *)
(*                                                                         *)
(* A bucket is [iso: its IsotonicFit map or NoMap, lines: its p10, p50 and *)
(* p90 lines, each <<slope, intercept>> or None].  A stage 2 model is      *)
(* [coef, min, max, resid]; of its nine features three are kept, the stage *)
(* 1 value, one of the run and one from STPASA.  An interval is [x: its    *)
(* forecast, horizon, run, stpasa].  Prices count fractions, Unit to one.  *)
(***************************************************************************)
EXTENDS Integers, Sequences, SequencesExt, FiniteSets, FiniteSetsExt

CONSTANTS
  Unit, FullDays, RawLow, RawHigh,  \* see IsotonicFit
  Floor,                  \* MARKET_PRICE_FLOOR, in fractions
  MinHorizon, MaxHorizon, \* OLS_MIN_HORIZON_H, OLS_MAX_HORIZON_H
  MinStage2,              \* OLS_MIN_OBS
  None

Fits == INSTANCE IsotonicFit

\* What this module assumes of its constants.
ServingAssumption ==
  /\ Fits!FitAssumption
  /\ {Floor, MinHorizon, MaxHorizon, MinStage2} \subseteq Int
  /\ None \notin Int

NoMap == None

-----------------------------------------------------------------------------
(* Bands: <<p10, p50, p90>>, None where no line was fitted *)

\* _order_band(): the fitted levels in ascending order, None keeping its slot.
OrderBand(band) ==
  LET fitted == {i \in 1..3 : band[i] # None}
      nth(n) == Min({v \in {band[i] : i \in fitted} : Cardinality({i \in fitted : band[i] <= v}) >= n})
  IN [i \in 1..3 |-> IF band[i] = None THEN None ELSE nth(Cardinality({j \in fitted : j <= i}))]

\* _clamp_band(): floored at the market floor, made to contain the price.
ClampBand(price, band) ==
  LET p10 == IF band[1] = None THEN None ELSE Min({Max({Floor, band[1]}), price})
      p90 == IF band[3] = None THEN None ELSE Max({price, band[3]})
      lo == IF p10 = None THEN Min({Floor, price}) ELSE p10
      p50 == IF band[2] = None THEN None
             ELSE Max({lo, IF p90 = None THEN band[2] ELSE Min({p90, band[2]})})
  IN <<p10, p50, p90>>

\* raw_band(): the fitted lines at x.
RawBand(bucket, x) ==
  [i \in 1..3 |-> IF bucket.lines[i] = None THEN None
                  ELSE bucket.lines[i][1] * Unit * x + bucket.lines[i][2]]

-----------------------------------------------------------------------------
(* Stage 1 *)

IsBelowDomain(bucket, x) == bucket.iso # NoMap /\ x < bucket.iso.x[1]

Passthrough(bucket, x) ==
  [price |-> Unit * x, band |-> OrderBand(RawBand(bucket, x)), feature |-> Unit * x,
   source |-> "passthrough", bandFrom |-> "stage1_quantile_unclamped"]

\* The bucket's answer at the smallest forecast it was fitted on.
BelowDomain(bucket) ==
  LET lo == bucket.iso.x[1]
      price == Max({Fits!Predict(bucket.iso, lo), Floor})
      raw == RawBand(bucket, lo)
  IN [price |-> price, band |-> ClampBand(price, raw), feature |-> price,
      source |-> "isotonic_below_domain",
      bandFrom |-> IF raw = <<None, None, None>> THEN "raw_passthrough" ELSE "stage1_quantile"]

Isotonic(bucket, x) ==
  LET price == Max({Fits!Predict(bucket.iso, x), Floor})
  IN [price |-> price, band |-> ClampBand(price, RawBand(bucket, x)),
      feature |-> Max({Fits!PredictFeature(bucket.iso, x), Floor}),
      source |-> "isotonic", bandFrom |-> "stage1_quantile"]

\* BucketModel.apply_all()
Stage1(bucket, x) ==
  IF bucket.iso = NoMap THEN Passthrough(bucket, x)
  ELSE IF IsBelowDomain(bucket, x) THEN BelowDomain(bucket)
  ELSE Isotonic(bucket, x)

-----------------------------------------------------------------------------
(* Stage 2: the model *)

Fitted(ols) == ols.coef # <<>>

\* ResidualQuantiles.is_fitted: enough rows, ordered, and zero inside.
ResidFitted(r) ==
  r # None /\ r.n >= MinStage2 /\ r.q10 <= r.q50 /\ r.q50 <= r.q90 /\ r.q10 <= 0 /\ 0 <= r.q90

\* OlsModel.predict(): the intercept and a weight for each feature.
Prediction(ols, f) ==
  ols.coef[1] + ols.coef[2] * f[1] + ols.coef[3] * f[2] + ols.coef[4] * f[3]

Magnitude(c) == IF c < 0 THEN -c ELSE c

\* extrapolation_cost(): what the part of each feature outside its range adds.
ExtrapolationCost(ols, f) ==
  LET cost(i) == Magnitude(ols.coef[i + 1]) * Max({0, ols.min[i] - f[i], f[i] - ols.max[i]})
  IN cost(1) + cost(2) + cost(3)

\* serves(): no ranges, no cost, or no more than half the residual spread.
Serves(ols, f) ==
  \/ ols.min = <<>> /\ ols.max = <<>>
  \/ /\ Len(ols.min) = Len(f) /\ Len(ols.max) = Len(f)
     /\ \/ ExtrapolationCost(ols, f) = 0
        \/ /\ ResidFitted(ols.resid)
           /\ 2 * ExtrapolationCost(ols, f) <= ols.resid.q90 - ols.resid.q10

-----------------------------------------------------------------------------
(* Stage 2: the gates, in the order of SERVING_GATES *)

InputsAdmit(v) == None \notin {v.stpasa, v.run} /\ v.horizon \in MinHorizon..MaxHorizon

Features(stage1, run, stpasa) == <<stage1.feature, run, stpasa>>

SignAgrees(stage1, p) == (p < 0) = (stage1.price < 0)

\* Stage1BandGate: no p90, nothing to hold stage 2 to.
WithinBand(stage1, p) == stage1.band[3] = None \/ p <= stage1.band[3]

\* Without FeatureDomainGate, as it was before #147.
AdmittedAnywhere(stage1, v, ols) ==
  /\ stage1.source # "isotonic_below_domain" /\ InputsAdmit(v) /\ Fitted(ols)
  /\ LET p == Prediction(ols, Features(stage1, v.run, v.stpasa))
     IN SignAgrees(stage1, p) /\ p >= Floor /\ WithinBand(stage1, p)

Admitted(stage1, v, ols) ==
  /\ stage1.source # "isotonic_below_domain"
  /\ InputsAdmit(v)
  /\ Fitted(ols)
  /\ Serves(ols, Features(stage1, v.run, v.stpasa))
  /\ LET p == Prediction(ols, Features(stage1, v.run, v.stpasa))
     IN SignAgrees(stage1, p) /\ p >= Floor /\ WithinBand(stage1, p)

\* The band of stage 1, as it was clamped around the stage 1 price (#69).
Stage2KeepingBand(stage1, bucket, x, ols, p) ==
  [stage1 EXCEPT !.price = p, !.source = "isotonic+stpasa"]

\* stage2_result(): the residual quantiles around the prediction, or the stage 1
\* lines clamped again.
Stage2(stage1, bucket, x, ols, p) ==
  LET own == ResidFitted(ols.resid)
      raw == IF own THEN <<p + ols.resid.q10, p + ols.resid.q50, p + ols.resid.q90>>
             ELSE RawBand(bucket, x)
  IN [stage1 EXCEPT !.price = p, !.source = "isotonic+stpasa", !.band = ClampBand(p, raw),
        !.bandFrom = IF own THEN "stage2_residual" ELSE "stage1_quantile_reclamped"]

\* CalibrationResult.apply() on the interval's bucket.
Apply(bucket, ols, v) ==
  LET stage1 == Stage1(bucket, v.x)
  IN IF Admitted(stage1, v, ols)
     THEN Stage2(stage1, bucket, v.x, ols, Prediction(ols, Features(stage1, v.run, v.stpasa)))
     ELSE stage1

\* from_storage(): lines and coefficients survive a restart, the map does not.
Restored(bucket) == [bucket EXCEPT !.iso = NoMap]

-----------------------------------------------------------------------------
(* Properties *)

Covers(band, price) ==
  /\ band[1] # None => band[1] <= price
  /\ band[3] # None => price <= band[3]
Ascending(band) ==
  \A i, j \in 1..3 : i < j /\ None \notin {band[i], band[j]} => band[i] <= band[j]

\* Whatever path serves a price, its band is in order and, except on the raw
\* passthrough, contains the price (#69); only what was fitted is in it, and a
\* lower bound under the market floor is the price itself (#114).
BandHolds(bucket, ols, v) ==
  LET r == Apply(bucket, ols, v)
  IN /\ Ascending(r.band)
     /\ r.source # "passthrough" => Covers(r.band, r.price)
     /\ r.band[1] # None /\ r.source # "passthrough" =>
          r.band[1] >= Floor \/ r.band[1] = r.price

\* Stage 2 moves a price only within what stage 1 and its own evidence support:
\* never across zero, below the floor or above the stage 1 p90, never under the
\* fitted domain, and by no more extrapolation than half the band it publishes.
Stage2IsHeld(bucket, ols, v) ==
  LET s == Stage1(bucket, v.x)
      r == Apply(bucket, ols, v)
      f == Features(s, v.run, v.stpasa)
  IN r.source = "isotonic+stpasa" =>
       /\ ~IsBelowDomain(bucket, v.x)
       /\ (r.price < 0) = (s.price < 0)
       /\ s.band[3] # None => r.price <= s.band[3]
       /\ ols.min # <<>> => Len(ols.min) = Len(f)
       /\ ols.min # <<>> /\ ResidFitted(ols.resid) =>
            2 * ExtrapolationCost(ols, f) <= ols.resid.q90 - ols.resid.q10
       /\ r.bandFrom = "stage2_residual" /\ r.price + ols.resid.q10 >= Floor =>
            r.band[3] - r.band[1] = ols.resid.q90 - ols.resid.q10
=============================================================================
