------------------------------ MODULE Day27Seam ------------------------------
(***************************************************************************)
(* Where the day 2-7 series begins: at the end of the Amber forecasts it   *)
(* is summed with, or by the clock (nem_time.py, amber_forecast.py).       *)
(*                                                                         *)
(* Times are ticks from a midnight.  An Amber sensor is None where it is   *)
(* unavailable, or [detailed, starts]: the interval ends of its detailed   *)
(* list, None where one is unreadable, and the starts of its plain one.    *)
(***************************************************************************)
EXTENDS Integers, Sequences, SequencesExt, FiniteSetsExt, Lists

CONSTANTS
  None,
  Interval,                \* ticks in half an hour
  Day,
  ShortFrom, ShortTo,      \* 03:30 and 12:30
  Offset                   \* SEAM_OFFSET

SeamAssumption ==
  /\ None \notin Int
  /\ Interval \in Nat \ {0} /\ Offset \in 1..(Interval - 1)
  /\ Day \in Nat \ {0, 1} /\ ShortFrom \in Nat /\ ShortTo \in Nat

Readable(list) == ToSet(list) \ {None}

\* amber_coverage_end()
AmberCoverageEnd(sensor) ==
  IF Readable(sensor.detailed) # {} THEN Max(Readable(sensor.detailed))
  ELSE IF Readable(sensor.starts) # {} THEN Max(Readable(sensor.starts)) + Interval
  ELSE None

\* _amber_express_cutoff()
AmberExpressCutoff(now) ==
  IF now % Day \in ShortFrom..(ShortTo - 1) THEN now - (now % Day) + ShortFrom + Day ELSE now + Day

\* day27_start_for(): the ends of the sensors present that are still to come.
CurrentEnds(sensors, now) ==
  {e \in {AmberCoverageEnd(s) : s \in ToSet(sensors) \ {None}} : e # None /\ e > now}

\* As if the furthest of the forecasts were followed.
StartAtLast(sensors, now) ==
  LET ends == CurrentEnds(sensors, now)
  IN IF ends # {} THEN [at |-> Max(ends), source |-> "amber"]
     ELSE [at |-> AmberExpressCutoff(now), source |-> "clock"]

\* day27_start()
Day27Start(sensors, now) ==
  LET ends == CurrentEnds(sensors, now)
  IN IF ends # {} THEN [at |-> Min(ends), source |-> "amber"]
     ELSE [at |-> AmberExpressCutoff(now), source |-> "clock"]

\* As if both rules were exclusive.
IncludesAfter(start, t) == t > start.at

\* Day27Start.includes()
Includes(start, t) == IF start.source = "amber" THEN t >= start.at ELSE t > start.at

\* As if the points were published as they are.
PublishAsIs(start, listed) == listed

\* offset_seam_point()
OffsetSeamPoint(start, listed) ==
  IF start.source = "amber" /\ listed # <<>> /\ listed[1] = start.at
  THEN <<start.at + Offset>> \o Tail(listed) ELSE listed

\* The times published, of a series of interval starts.
Published(sensors, now, series) ==
  LET start == Day27Start(sensors, now)
  IN OffsetSeamPoint(start, Among(series, {t \in ToSet(series) : Includes(start, t)}))

-----------------------------------------------------------------------------
(* Properties *)

\* Summed with any Amber forecast still running, the series leaves no interval out;
\* with the shortest it prices none twice, and no point of it falls on Amber's end,
\* where both would be added.  Without one it starts within a day and a half.
SeamIsWhole(sensors, now, series) ==
  LET ends == CurrentEnds(sensors, now)
      times == Published(sensors, now, series)
      interval(u) == u - (u % Interval)
      listed == {interval(u) : u \in ToSet(times)}
  IN /\ \A i, j \in DOMAIN times : i < j => interval(times[i]) < interval(times[j])
     /\ ends # {} => /\ \A t \in ToSet(series) : (t >= Min(ends)) = (t \in listed)
                     /\ \A e \in ends : e = Min(ends) => e \notin ToSet(times)
     /\ ends = {} => /\ \A t \in ToSet(series) : t >= now + Day + Day \div 2 => t \in listed
                     /\ \A t \in listed : t > now
=============================================================================
