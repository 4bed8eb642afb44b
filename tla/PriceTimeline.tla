--------------------------- MODULE PriceTimeline ---------------------------
(***************************************************************************)
(* One region's price timeline: the dispatch price, then P5MIN, then       *)
(* pre-dispatch, then the calibrated PD7DAY forecast, each after the one   *)
(* before it, and the hub that keeps it between the clock's steps          *)
(* (price_timeline.py, region_timeline.py, forecast_hub.py,                *)
(* timeline_forecast.py).                                                  *)
(*                                                                         *)
(* A point is [start, end, source, run, of]: of is the end of the interval *)
(* it is cut from, which with the source's run names the price it carries. *)
(***************************************************************************)
EXTENDS Integers, Sequences, SequencesExt

CONSTANTS
  None,
  Interval, Period,        \* ticks in five minutes, in half an hour
  P5Intervals, PdPeriods,  \* intervals in a P5MIN run, periods in a pre-dispatch run
  CalibratedPeriods,       \* half hours in the calibrated forecast
  P5MaxAge, PdMaxAge,      \* P5_MAX_AGE, PD_MAX_AGE
  Price(_, _, _),          \* of a source's run at an interval
  MaxNow                   \* bound of the clock

TimelineAssumption ==
  /\ None \notin Int
  /\ Interval \in Nat \ {0} /\ Period \in Nat \ {0} /\ Period % Interval = 0
  /\ P5Intervals \in Nat /\ PdPeriods \in Nat /\ CalibratedPeriods \in Nat
  /\ P5MaxAge \in Nat /\ PdMaxAge \in Nat

VARIABLES
  now,
  dispatch,    \* the end of the interval whose dispatch price is held, or None
  latest,      \* the P5MIN and pre-dispatch runs held (HeldRuns), or None
  calibrated,  \* the PD7DAY run calibrated last, by its first half hour's start
  kept         \* the hub's memo: the timeline's identity, and a timeline per key

vars == <<now, dispatch, latest, calibrated, kept>>

\* The end of the interval running at t, and of the period; an end is its own.
EndOf(t, length) == ((t + length - 1) \div length) * length

-----------------------------------------------------------------------------
(* Building *)

\* A timeline is built at a time t.
Cursor(points, t) == IF points = <<>> THEN t ELSE points[Len(points)].end

\* A half hour covered in part, added whole.
AddPointWhole(points, t, end, length, source, run) ==
  IF end <= t \/ end <= Cursor(points, t) THEN points
  ELSE Append(points, [start |-> end - length, end |-> end, source |-> source, run |-> run, of |-> end])

\* _Builder.span_start() and add(): what is left of [start, end) once what is
\* covered, or past, is cut off; the first point may have started already.
AddPoint(points, t, end, length, source, run) ==
  IF end <= t \/ end <= Cursor(points, t) THEN points
  ELSE Append(points, [start |-> IF points = <<>> THEN end - length
                                 ELSE Max({end - length, Cursor(points, t)}),
                       end |-> end, source |-> source, run |-> run, of |-> end])

\* The ends of a series one by one.
AddSeries(points, t, ends, length, source, run) ==
  LET upTo[n \in 0..Len(ends)] ==
        IF n = 0 THEN points ELSE AddPoint(upTo[n - 1], t, ends[n], length, source, run)
  IN upTo[Len(ends)]

\* _add_dispatch()
Dispatched(t) ==
  IF dispatch # None /\ dispatch - Interval <= t /\ t < dispatch
  THEN <<[start |-> dispatch - Interval, end |-> dispatch, source |-> "dispatch",
          run |-> dispatch, of |-> dispatch]>>
  ELSE <<>>

IsStale(run, maxAge, t) == run # None /\ t - run > maxAge
P5Ends(run) == [i \in 1..P5Intervals |-> run + (i - 1) * Interval]
PdEnds(run) == [i \in 1..PdPeriods |-> EndOf(run, Period) + (i - 1) * Period]
CalibratedEnds(run) == [i \in 1..CalibratedPeriods |-> run + i * Period]

\* _add_run(): nothing of a run too old.
AddRun(points, t, run, maxAge, ends, length, source) ==
  IF run = None \/ IsStale(run, maxAge, t) THEN points
  ELSE AddSeries(points, t, ends, length, source, run)

\* build_timeline()
Build(t) ==
  LET withP5 == AddRun(Dispatched(t), t, latest.p5, P5MaxAge, P5Ends(latest.p5), Interval, "p5")
      withPd == AddRun(withP5, t, latest.pd, PdMaxAge, PdEnds(latest.pd), Period, "pd")
  IN IF calibrated = None THEN withPd
     ELSE AddSeries(withPd, t, CalibratedEnds(calibrated), Period, "pd7day", calibrated)

-----------------------------------------------------------------------------
(* Keeping: region_timeline() and ForecastHub.keep() *)

Identity == <<dispatch, latest.p5, latest.pd, calibrated>>

\* The key by the clock alone.
KeyOfClock == <<now \div Interval>>

Key == <<now \div Interval, IsStale(latest.p5, P5MaxAge, now), IsStale(latest.pd, PdMaxAge, now)>>

\* The entries still good: another identity drops them all.
Entries == IF kept.identity = Identity THEN kept.entries ELSE << >>

Serve ==
  /\ Key \notin DOMAIN Entries
  /\ kept' = [identity |-> Identity,
              entries |-> [k \in DOMAIN Entries \union {Key} |->
                             IF k = Key THEN Build(now) ELSE Entries[k]]]
  /\ UNCHANGED <<now, dispatch, latest, calibrated>>

Init ==
  /\ now = 0
  /\ dispatch = None
  /\ latest \in [p5 : {None, 0}, pd : {None, 1 - Period}]
  /\ calibrated = None
  /\ kept = [identity |-> <<>>, entries |-> << >>]

Tick ==
  /\ now < MaxNow
  /\ now' = now + 1
  /\ UNCHANGED <<dispatch, latest, calibrated, kept>>

\* A dispatch poll brings the running interval's price.
Poll ==
  /\ dispatch' = EndOf(now + 1, Interval)
  /\ dispatch' # dispatch
  /\ UNCHANGED <<now, latest, calibrated, kept>>

\* A newer run is held: the running interval's or the one before it, and the
\* running period's or the one before, solved a tick into its period.
Recent == [p5 |-> {EndOf(now + 1, Interval) - late * Interval : late \in 0..1},
           pd |-> {EndOf(now, Period) - (1 + late) * Period + 1 : late \in 0..1}]
HoldRun ==
  /\ \E k \in DOMAIN Recent : \E run \in Recent[k] :
       /\ latest[k] # None => run > latest[k]
       /\ latest' = [latest EXCEPT ![k] = run]
  /\ UNCHANGED <<now, dispatch, calibrated, kept>>

\* A PD7DAY run, starting now or up to a period ago, is calibrated.
Calibrate ==
  /\ calibrated' = EndOf(now, Period) - Period
  /\ calibrated' # calibrated
  /\ UNCHANGED <<now, dispatch, latest, kept>>

Next == Tick \/ Poll \/ HoldRun \/ Calibrate \/ Serve

-----------------------------------------------------------------------------
(* What is read off a timeline (timeline_forecast.py); weights are ticks. *)

ValueOf(p) == Price(p.source, p.run, p.of)
Length(p) == p.end - p.start
Lengths(points) == [i \in DOMAIN points |-> Length(points[i])]
Worths(points) == [i \in DOMAIN points |-> ValueOf(points[i]) * Length(points[i])]

\* half_hour_values(): a point is counted, whole, in the half hour it starts in.
Slot(p) == (p.start \div Period) * Period
InSlot(points, s) == {i \in DOMAIN points : Slot(points[i]) = s}
HalfHours(points) ==
  [s \in {Slot(points[i]) : i \in DOMAIN points} |->
     [ticks |-> SumFunctionOnSet(Lengths(points), InSlot(points, s)),
      worth |-> SumFunctionOnSet(Worths(points), InSlot(points, s))]]

\* cheapest_window(): of the windows of a length that start with a point and
\* are covered without a gap, the first of the lowest average.
WindowAt(points, i, length) ==
  {j \in i..Len(points) : points[j].start < points[i].start + length}
IsCovered(points, i, length) ==
  /\ \A j \in WindowAt(points, i, length) \ {i} : points[j].start = points[j - 1].end
  /\ points[Max(WindowAt(points, i, length))].end >= points[i].start + length
WindowWorth(points, i, length) ==
  SumFunctionOnSet([j \in DOMAIN points |->
                      ValueOf(points[j]) * (Min({points[j].end, points[i].start + length}) - points[j].start)],
                   WindowAt(points, i, length))
CheapestWindow(points, length) ==
  LET whole == {i \in DOMAIN points : IsCovered(points, i, length)}
  IN IF whole = {} THEN None
     ELSE Min({i \in whole : \A j \in whole :
                 WindowWorth(points, i, length) <= WindowWorth(points, j, length)})

-----------------------------------------------------------------------------
(* Properties *)

\* Whatever moved since, the timeline the hub would serve now is the one that
\* would be built now: every input, and every way the clock changes the
\* answer, is in its identity or its key (#338).
TimelineIsCurrent ==
  kept.identity = Identity /\ Key \in DOMAIN kept.entries => kept.entries[Key] = Build(now)

Rank == [dispatch |-> 1, p5 |-> 2, pd |-> 3, pd7day |-> 4]

\* The sources that cover time u now, dispatch and the runs still fresh.
Covering(u) ==
  {s \in DOMAIN Rank :
     \/ s = "dispatch" /\ Dispatched(now) # <<>> /\ dispatch - Interval <= u /\ u < dispatch
     \/ s = "p5" /\ latest.p5 # None /\ ~IsStale(latest.p5, P5MaxAge, now) /\
        latest.p5 - Interval <= u /\ u < latest.p5 + (P5Intervals - 1) * Interval
     \/ s = "pd" /\ latest.pd # None /\ ~IsStale(latest.pd, PdMaxAge, now) /\
        EndOf(latest.pd, Period) - Period <= u /\ u < EndOf(latest.pd, Period) + (PdPeriods - 1) * Period
     \/ s = "pd7day" /\ calibrated <= u /\ u < calibrated + CalibratedPeriods * Period}

\* The timeline runs from now, repeats and skips nothing.
Joined(points) ==
  /\ points # <<>> /\ points[1].start <= now /\ now < points[1].end
  /\ \A i \in 1..(Len(points) - 1) : points[i].end = points[i + 1].start

\* It carries at every time the first source that covers it.
Ranked(points) ==
  \A i \in DOMAIN points : \A u \in points[i].start..(points[i].end - 1) :
    u >= now => \A s \in Covering(u) : Rank[points[i].source] <= Rank[s]

\* Of its half hours those to come are whole up to its end, and no whole one is
\* cheaper than the window that starts at the point best.
Halved(points, halves, best) ==
  \A s \in DOMAIN halves :
    /\ s >= now /\ s + Period <= points[Len(points)].end => halves[s].ticks = Period
    /\ halves[s].ticks = Period =>
         best # None /\ WindowWorth(points, best, Period) <= halves[s].worth

Seamless(points) ==
  Joined(points) /\ Ranked(points) /\ Halved(points, HalfHours(points), CheapestWindow(points, Period))

\* With a calibrated forecast in reach the timeline runs from now, repeats and
\* skips nothing, and carries at every time the first source that covers it;
\* every half hour but the running one and the last is whole, and a window as
\* long as a half hour starts with no point cheaper than the one found (#339).
TimelineIsSeamless ==
  calibrated # None /\ now < calibrated + CalibratedPeriods * Period => Seamless(Build(now))
=============================================================================
