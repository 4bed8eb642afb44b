----------------------------- MODULE LocalPrice -----------------------------
(***************************************************************************)
(* Local price adjustments: what the DispatchIS, P5MIN and pre-dispatch    *)
(* files say of a unit (local_price.py, predispatch_local_price.py), of a  *)
(* node (node_price_sensor.py) and of a zone (zones.py, zone_sensor.py),   *)
(* and the hub's key for the series made of them (forecast_hub.py).        *)
(*                                                                         *)
(* A file is its pricing rows and its LOCAL_PRICE rows; a value stands for *)
(* a whole row, and scaling to $/kWh and rounding are left out.            *)
(***************************************************************************)
EXTENDS Integers, Sequences, SequencesExt

CONSTANTS
  None,
  Interval, Period,    \* ticks in five minutes, in half an hour
  MaxAge,              \* of a dispatch or P5MIN file
  PdMaxAge,            \* PD_FALLBACK_MAX_AGE, MAX_AGE of pre-dispatch
  MinMedianStations    \* MIN_MEDIAN_STATIONS

EndOf(t) == ((t + Interval - 1) \div Interval) * Interval

-----------------------------------------------------------------------------
(* Parsing. A pricing row is [region, end, rop, intervention]; a local row  *)
(* [duid, end, adj] (of another run when its end is None). rows is None     *)
(* where the file has no LOCAL_PRICE table.                                 *)

Pricing(file) == {i \in DOMAIN file.solution : file.solution[i].intervention = 0}
LocalRows(file) == IF file.rows = None THEN <<>> ELSE file.rows

\* Rows into a map, the last one of a key winning.
LastOf(rows, S, KeyOf(_), ValueOf(_)) ==
  [k \in {KeyOf(rows[i]) : i \in S} |->
     ValueOf(rows[Max({i \in S : KeyOf(rows[i]) = k})])]
Rop(file) == LastOf(file.solution, Pricing(file), LAMBDA r : <<r.region, r.end>>, LAMBDA r : r.rop)

\* parse_dispatch_local_prices()
ParseDispatch(file) ==
  IF Pricing(file) = {} THEN None
  ELSE LET end == file.solution[Min(Pricing(file))].end
           rows == LocalRows(file)
           mine == {i \in DOMAIN rows : rows[i].end = end}
       IN [end |-> end, present |-> file.rows # None,
           rows |-> LastOf(rows, mine, LAMBDA r : r.duid, LAMBDA r : r.adj),
           rop |-> LastOf(file.solution, Pricing(file), LAMBDA r : r.region, LAMBDA r : r.rop),
           fallback |-> None, conflicts |-> {}]

\* parse_p5min_local_prices(): rows that disagree are a conflict, and dropped.
ParseP5(file) ==
  IF Pricing(file) = {} THEN None
  ELSE LET rows == LocalRows(file)
           keys == {<<rows[i].duid, rows[i].end>> : i \in {j \in DOMAIN rows : rows[j].end # None}}
           Said(k) == {rows[i].adj : i \in {j \in DOMAIN rows : <<rows[j].duid, rows[j].end>> = k}}
           clash == {k \in keys : \E a, b \in Said(k) : a # b}
       IN [run |-> file.run, rop |-> Rop(file), ends |-> {k[2] : k \in DOMAIN Rop(file)},
           rows |-> [k \in keys \ clash |-> CHOOSE v \in Said(k) : TRUE], conflicts |-> clash]

\* A pre-dispatch run as predispatch_client reads it: RRPs, and the last row of a unit.
ParsePd(file) ==
  IF Pricing(file) = {} THEN None
  ELSE LET rows == LocalRows(file)
       IN [run |-> file.run, rop |-> Rop(file), ends |-> {k[2] : k \in DOMAIN Rop(file)},
           rows |-> LastOf(rows, {i \in DOMAIN rows : rows[i].end # None},
                           LAMBDA r : <<r.duid, r.end>>, LAMBDA r : r.adj),
           conflicts |-> {}]

-----------------------------------------------------------------------------
(* The interval the sensors show *)

At(f, end) == [k \in {p[1] : p \in {q \in DOMAIN f : q[2] = end}} |-> f[<<k, end>>]]

\* A conflicting unit's row dropped at the parse only, and read as none here.
P5FallbackForgettingConflicts(run, end) ==
  IF run = None \/ end \notin run.ends \/ end - run.run > MaxAge THEN None
  ELSE [end |-> end, present |-> TRUE, rows |-> At(run.rows, end), rop |-> At(run.rop, end),
        fallback |-> "p5min_fallback", conflicts |-> {}]

\* p5_fallback()
P5Fallback(run, end) ==
  IF run = None \/ end \notin run.ends \/ end - run.run > MaxAge THEN None
  ELSE [end |-> end, present |-> TRUE, rows |-> At(run.rows, end), rop |-> At(run.rop, end),
        fallback |-> "p5min_fallback",
        conflicts |-> {k[1] : k \in {c \in run.conflicts : c[2] = end}}]

\* predispatch_fallback(): the period the interval is in.
PdFallback(run, end) ==
  IF run = None \/ end - run.run > PdMaxAge THEN None
  ELSE LET over == {e \in run.ends : e - Period < end /\ end <= e}
       IN IF over = {} THEN None
          ELSE [end |-> end, present |-> TRUE, rows |-> At(run.rows, Min(over)),
                rop |-> At(run.rop, Min(over)), fallback |-> "predispatch_fallback", conflicts |-> {}]

\* with_fallbacks()
WithFallbacks(prices, p5, pd, now) ==
  IF prices # None /\ now - prices.end <= MaxAge THEN prices
  ELSE IF P5Fallback(p5, EndOf(now)) # None THEN P5Fallback(p5, EndOf(now))
  ELSE IF PdFallback(pd, EndOf(now)) # None THEN PdFallback(pd, EndOf(now))
  ELSE prices

Known == {"published", "zero_by_omission", "dispatch_zero", "p5min_fallback", "predispatch_fallback"}

\* dispatch_status()
Status(prices, duid, now) ==
  CASE prices = None -> "no_data"
    [] prices # None /\ now - prices.end > MaxAge -> "stale"
    [] OTHER ->
         IF prices.fallback # None
         THEN IF duid \in prices.conflicts THEN "conflicting_rows" ELSE prices.fallback
         ELSE IF ~prices.present THEN "dispatch_zero"
         ELSE IF duid \in DOMAIN prices.rows THEN "published" ELSE "zero_by_omission"

\* dispatch_adjustment()
Adjustment(prices, duid, now) ==
  IF Status(prices, duid, now) \notin Known THEN None
  ELSE IF duid \in DOMAIN prices.rows THEN prices.rows[duid] ELSE 0

\* node_adjustment(): what the node's units say together.
NodeAdjustment(prices, duids, now) ==
  LET said == IF prices = None THEN {} ELSE {prices.rows[d] : d \in duids \intersect DOMAIN prices.rows}
  IN IF duids = {} \/ (\E d \in duids : Status(prices, d, now) \notin Known) THEN None
     ELSE IF \E a, b \in said : a # b THEN None
     ELSE IF said = {} THEN 0 ELSE CHOOSE v \in said : TRUE

\* _static_mwh(), _node_price_mwh()
NodePriceMwh(prices, node, now) ==
  IF node.mlf = None \/ NodeAdjustment(prices, node.duids, now) = None
     \/ node.region \notin DOMAIN prices.rop THEN None
  ELSE (prices.rop[node.region] + NodeAdjustment(prices, node.duids, now)) * node.mlf

-----------------------------------------------------------------------------
(* Zones *)

\* _members(): the located nodes within the radius and the city's electrical
\* area, nearest first; the nearest of all where there is none.
Nearest(nodes) == SetToSortSeq(nodes, LAMBDA a, b : a.km < b.km \/ (a.km = b.km /\ a.tni < b.tni))
Members(nodes, radius, outside) ==
  LET inside == {n \in nodes : n.km <= radius /\ n.tni \notin outside}
  IN IF inside # {} THEN Nearest(inside)
     ELSE SubSeq(Nearest(nodes), 1, Min({1, Len(Nearest(nodes))}))

Median(values) ==
  LET s == SortSeq(values, LAMBDA a, b : a < b)
  IN (s[(Len(s) + 1) \div 2] + s[Len(s) \div 2 + 1]) \div 2

\* One vote per connection point.
AdjustmentPerNode(stations, values) ==
  LET known == SelectSeq([i \in DOMAIN values |-> values[i]], LAMBDA v : v # None)
  IN IF known = <<>> THEN None
     ELSE IF Cardinality(Range(stations)) < MinMedianStations THEN Head(known) ELSE Median(known)

\* zone_adjustment(): one vote per station, the median of its nodes' values;
\* the stations' median, or the nearest vote where they are too few.
ZoneAdjustment(stations, values) ==
  LET order == FoldLeft(LAMBDA acc, s : IF Contains(acc, s) THEN acc ELSE Append(acc, s), <<>>, stations)
      Vote(s) == FoldLeft(LAMBDA acc, i : IF stations[i] = s /\ values[i] # None
                                          THEN Append(acc, values[i]) ELSE acc,
                          <<>>, [i \in DOMAIN stations |-> i])
      voting == SelectSeq(order, LAMBDA s : Vote(s) # <<>>)
      votes == [i \in DOMAIN voting |-> Median(Vote(voting[i]))]
  IN IF votes = <<>> THEN None
     ELSE IF Len(order) < MinMedianStations THEN Head(votes) ELSE Median(votes)

Stations(zone) == [i \in DOMAIN zone |-> zone[i].station]

-----------------------------------------------------------------------------
(* Series *)

InOrder(ends) == SetToSortSeq(ends, LAMBDA a, b : a < b)
Ahead(ends, now) == InOrder({e \in ends : e > now})

\* The ends ahead before the first without a value, each with its own.
UpToConflict(ends, value) ==
  LET gaps == {i \in DOMAIN ends : value[ends[i]] = None}
      n == IF gaps = {} THEN Len(ends) ELSE Min(gaps) - 1
  IN [i \in 1..n |-> <<ends[i], value[ends[i]]>>]

\* What every series says first: no run, one too old, or one that is over.
Over(run, maxAge, ends, now) ==
  CASE run = None -> "no_data"
    [] run # None /\ now - run.run > maxAge -> "stale"
    [] run # None /\ now - run.run <= maxAge /\ Ahead(ends, now) = <<>> -> "expired"
    [] OTHER -> "ok"

\* A series of the values at its ends, some of which a row was published for.
Series(run, maxAge, value, published, now) ==
  LET over == Over(run, maxAge, DOMAIN value, now)
      ahead == {e \in DOMAIN value : e > now}
  IN IF over # "ok" THEN [status |-> over, points |-> <<>>]
     ELSE [status |-> IF \E e \in ahead : value[e] = None THEN "conflicting_rows"
                      ELSE IF ahead \intersect published # {} THEN "published"
                      ELSE "zero_by_omission",
           points |-> UpToConflict(InOrder(ahead), value)]

\* p5_adjustment(), and a pre-dispatch period's: the units' common value.
CommonAt(run, duids, end) ==
  LET said == {run.rows[<<d, end>>] : d \in {u \in duids : <<u, end>> \in DOMAIN run.rows}}
  IN IF \E d \in duids : <<d, end>> \in run.conflicts THEN None
     ELSE IF \E a, b \in said : a # b THEN None
     ELSE IF said = {} THEN 0 ELSE CHOOSE v \in said : TRUE

EndsOf(run) == IF run = None THEN {} ELSE run.ends
WithRow(run, duids) == {e \in EndsOf(run) : \E d \in duids : <<d, e>> \in DOMAIN run.rows}
RopEnds(run, region) == IF run = None THEN {} ELSE {k[2] : k \in {q \in DOMAIN run.rop : q[1] = region}}

\* forecast_series(): a unit's P5MIN intervals.
DuidSeries(run, duid, now) ==
  Series(run, MaxAge, [e \in EndsOf(run) |-> CommonAt(run, {duid}, e)], WithRow(run, {duid}), now)

\* predispatch_adjustments(): the units' pre-dispatch periods.
PdSeries(run, duids, now) ==
  Series(run, PdMaxAge, [e \in EndsOf(run) |-> CommonAt(run, duids, e)], WithRow(run, duids), now)

\* node_forecast() and zone_p5_forecast(): the region's intervals, priced with
\* the adjustment of each.
PricedSeries(run, region, mlf, adjust, now) ==
  LET priced(e, adj) == IF adj = None THEN None ELSE (run.rop[<<region, e>>] + adj) * mlf
  IN IF mlf = None THEN [status |-> "unknown_node", points |-> <<>>]
     ELSE Series(run, MaxAge, [e \in DOMAIN adjust |-> priced(e, adjust[e])], DOMAIN adjust, now)
NodeSeries(run, node, now) ==
  PricedSeries(run, node.region, node.mlf,
               [e \in RopEnds(run, node.region) |-> CommonAt(run, node.duids, e)], now)
ZoneAt(run, zone, end) ==
  ZoneAdjustment(Stations(zone), [i \in DOMAIN zone |-> CommonAt(run, zone[i].duids, end)])
ZoneSeries(run, zone, region, mlf, now) ==
  PricedSeries(run, region, mlf, [e \in RopEnds(run, region) |-> ZoneAt(run, zone, e)], now)

\* zone_predispatch(): every period some member still has.
ZonePdSeries(run, zone, now) ==
  LET at(points, e) == IF \E p \in Range(points) : p[1] = e
                       THEN (CHOOSE p \in Range(points) : p[1] = e)[2] ELSE None
      joined(points) ==
        [e \in {p[1] : p \in UNION {Range(points[i]) : i \in DOMAIN zone}} |->
           ZoneAdjustment(Stations(zone), [i \in DOMAIN zone |-> at(points[i], e)])]
  IN joined([i \in DOMAIN zone |-> PdSeries(run, zone[i].duids, now).points])

\* The clock by the first end ahead alone.
WhenByEnd(run, maxAge, now) ==
  IF run = None THEN now ELSE <<{e \in run.ends : e > now /\ \A f \in run.ends : f > now => e <= f}>>

\* ForecastHub._when(): the clock as a series is kept by it.
When(run, maxAge, now) ==
  IF run = None THEN now
  ELSE <<{e \in run.ends : e > now /\ \A f \in run.ends : f > now => e <= f}, now - run.run > maxAge>>

-----------------------------------------------------------------------------
(* Properties *)

\* What a raw file says of a unit at an end.
SaidBy(file, duid, end) ==
  {LocalRows(file)[i].adj : i \in {j \in DOMAIN LocalRows(file) :
     LocalRows(file)[j].duid = duid /\ LocalRows(file)[j].end = end}}

\* A node with a price has one from a file that still stands for now: the
\* dispatch file within its age, else P5MIN's running interval, else the
\* pre-dispatch period it is in; it adds what that file says of the node's
\* units, which must agree there, and nothing only where it says nothing (#309).
\* A node of one unit adds what the unit's own sensor says.
KnownValueStands(files, node, now) ==
  LET source(fallback) == CASE fallback = "p5min_fallback" -> files.p5
                            [] fallback = "predispatch_fallback" -> files.pd
                            [] OTHER -> files.dispatch
      end(prices) == IF prices.fallback = "predispatch_fallback"
                     THEN EndOf(now) + ((Period - EndOf(now)) % Period) ELSE prices.end
      said(prices) == [d \in node.duids |-> SaidBy(source(prices.fallback), d, end(prices))]
      follows(price, prices, rows) ==
        /\ IF prices.fallback = None THEN now - prices.end <= MaxAge ELSE prices.end = EndOf(now)
        /\ \E adj \in (UNION Range(rows)) \union {0} :
             /\ price = (prices.rop[node.region] + adj) * node.mlf
             /\ IF prices.fallback = "p5min_fallback" THEN UNION Range(rows) \subseteq {adj}
                ELSE \A d \in node.duids : rows[d] # {} => adj \in rows[d]
             /\ UNION Range(rows) = {} => adj = 0
      stands(prices) ==
        /\ \A d \in node.duids : NodeAdjustment(prices, {d}, now) = Adjustment(prices, d, now)
        /\ NodePriceMwh(prices, node, now) # None =>
             follows(NodePriceMwh(prices, node, now), prices, said(prices))
  IN stands(WithFallbacks(ParseDispatch(files.dispatch), ParseP5(files.p5), ParsePd(files.pd), now))

\* A series depends on the clock only by what the hub keeps it under, so one
\* kept is the one that would be worked out now (forecast_hub.py:10-22).
SeriesIsKeptByItsKey(files, node, zone, times) ==
  LET kept(run, maxAge, at) ==
        \A a, b \in times : a < b /\ When(run, maxAge, a) = When(run, maxAge, b) => at[a] = at[b]
      p5Series(p5, t) == <<[d \in node.duids |-> DuidSeries(p5, d, t)], NodeSeries(p5, node, t),
                           ZoneSeries(p5, zone, node.region, 1, t)>>
      pdSeries(pd, t) == <<PdSeries(pd, node.duids, t), ZonePdSeries(pd, zone, t)>>
      keptP5(p5) == kept(p5, MaxAge, [t \in times |-> p5Series(p5, t)])
      keptPd(pd) == kept(pd, PdMaxAge, [t \in times |-> pdSeries(pd, t)])
  IN keptP5(ParseP5(files.p5)) /\ keptPd(ParsePd(files.pd))

\* Where most of a zone's stations with a known value agree, that is its
\* adjustment, however many connection points the others have (#314); the
\* zone's is between the least and the greatest known, and none when none is.
StationsVoteOnce(stations, values) ==
  LET known == {i \in DOMAIN values : values[i] # None}
      voting == {stations[i] : i \in known}
      adj == ZoneAdjustment(stations, values)
      For(v) == {s \in voting : \A i \in known : stations[i] = s => values[i] = v}
  IN /\ (adj = None) <=> (known = {})
     /\ known # {} => /\ \E i \in known : values[i] <= adj
                      /\ \E i \in known : values[i] >= adj
     /\ Cardinality(Range(stations)) >= MinMedianStations =>
          \A v \in {values[i] : i \in known} :
            2 * Cardinality(For(v)) > Cardinality(voting) => adj = v
=============================================================================
