--------------------------- MODULE TimeOfDayStats ---------------------------
(***************************************************************************)
(* The statistics of each slot of the day, over the observations of a      *)
(* store (tod_stats.py, and PD7DayTodSensor of sensor.py).                 *)
(*                                                                         *)
(* Observations are those of CalibrationFit, of intervals whose start      *)
(* parses; x or y may be None here.  A slot is an hour, and a time is      *)
(* Ticks to the slot.                                                      *)
(***************************************************************************)
EXTENDS CalibrationFit

CONSTANT Ticks

SlotsADay == 24

\* The mean of the values that are known, None where none is.
MeanOf(values) ==
  LET known == {k \in DOMAIN values : values[k] # None}
  IN IF known = {} THEN None ELSE MapThenSumSet(LAMBDA k : values[k], known) \div Cardinality(known)
MedianOf(values) ==
  LET ks == SetToSeq(DOMAIN values)
      sorted == SortSeq([i \in DOMAIN ks |-> values[ks[i]]], <)
  IN (sorted[(Len(ks) + 1) \div 2] + sorted[(Len(ks) + 2) \div 2]) \div 2

\* compute(): the actual of each interval, from the first observation that has one.
ActualOf(obs) ==
  LET known == {i \in DOMAIN obs : obs[i].y # None}
  IN [at \in {obs[i].at : i \in known} |-> Unit * obs[Min({i \in known : obs[i].at = at})].y]

\* Its raw and calibrated forecasts, averaged over the runs.
RawOf(obs, at) ==
  LET own == SelectSeq(obs, LAMBDA o : o.at = at /\ o.x # None)
  IN MeanOf([i \in DOMAIN own |-> Unit * own[i].x])
CalibratedOf(obs, fit, at) ==
  LET own == SelectSeq(obs, LAMBDA o : o.at = at /\ o.x # None /\ fit # None)
  IN MeanOf([i \in DOMAIN own |-> Serving!Stage1(ServingBucket(fit, own[i]), own[i].x).price])

\* The intervals S of a slot, each once.
SlotRow(obs, fit, S) ==
  LET paid == [at \in S |-> ActualOf(obs)[at]]
  IN [n |-> Cardinality(S), mean |-> MeanOf(paid), median |-> MedianOf(paid),
      raw |-> MeanOf([at \in S |-> RawOf(obs, at)]),
      calibrated |-> MeanOf([at \in S |-> CalibratedOf(obs, fit, at)])]

Compute(obs, fit) ==
  LET intervals == DOMAIN ActualOf(obs)
  IN [slot \in {at % SlotsADay : at \in intervals} |->
        SlotRow(obs, fit, {at \in intervals : at % SlotsADay = slot})]

\* As if only the time a slot starts were in it (#45).
SlotAtItsStart(stats, time) ==
  IF time % Ticks = 0 /\ (time \div Ticks) % SlotsADay \in DOMAIN stats
  THEN (time \div Ticks) % SlotsADay ELSE None

\* slot_for_now(): the slot a time is in, if it has data.
SlotForNow(stats, time) ==
  IF (time \div Ticks) % SlotsADay \in DOMAIN stats THEN (time \div Ticks) % SlotsADay ELSE None

\* PD7DayTodSensor.native_value
TodValue(stats, time) ==
  IF SlotForNow(stats, time) = None THEN None ELSE stats[SlotForNow(stats, time)].mean

-----------------------------------------------------------------------------
(* Properties *)

\* However many runs forecast an interval, and in whatever order they were recorded,
\* it counts once in its slot, with its price and with what the bucket that learns from
\* it serves for it (#208); and any time in the slot shows it (#45).
IntervalsCountOnce(obs, fit) ==
  LET stats == Compute(obs, fit)
      paid == {o \in ToSet(obs) : o.y # None}
      of(slot) == {o.at : o \in {p \in paid : p.at % SlotsADay = slot}}
      price(at) == (CHOOSE o \in paid : o.at = at).y
      learned(o) == IF fit = None THEN None ELSE Serving!Stage1(fit.models[TrainingKey(o, fit.at)], o.x).price
  IN /\ Compute(Reverse(obs), fit) = stats
     /\ \A slot \in DOMAIN stats :
          /\ stats[slot].n = Cardinality(of(slot))
          /\ stats[slot].mean = (Unit * MapThenSumSet(price, of(slot))) \div Cardinality(of(slot))
     /\ \A at \in {o.at : o \in paid}, tick \in 0..(Ticks - 1) :
          TodValue(stats, Ticks * at + tick) = stats[at % SlotsADay].mean
     /\ \A o \in {p \in paid : p.x # None /\ of(p.at % SlotsADay) = {p.at}} :
          (\A p \in ToSet(obs) : p.at = o.at => p.x \in {None, o.x} /\ p.h = o.h) =>
            stats[o.at % SlotsADay].calibrated = learned(o)
=============================================================================
