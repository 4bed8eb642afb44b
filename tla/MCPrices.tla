------------------------------ MODULE MCPrices ------------------------------
(* The price timeline, its seam to Amber's forecast and the tariffs on      *)
(* enumerated inputs: the timeline moves with the clock, a rule of the      *)
(* others is asked about an input.                                          *)
EXTENDS MCServing

CONSTANTS
  Interval, Period, P5Intervals, PdPeriods, CalibratedPeriods, P5MaxAge, PdMaxAge, MaxNow, \* of PriceTimeline
  SeamInterval, SeamDay, ShortFrom, ShortTo, Offset,                                        \* of Day27Seam
  Codes, Snapshot, Enabled, Programs, Overrides, WithX, Extensions,                         \* of TariffCatalogue
  TariffDay, Months, LibAppliesGst, Default, LossMin, LossMax, MaxCached                    \* of TariffPricing
VARIABLES now, dispatch, latest, calibrated, kept

clock == <<now, dispatch, latest, calibrated, kept>>

-----------------------------------------------------------------------------
(* PriceTimeline: a P5MIN run of three intervals and a pre-dispatch run of  *)
(* two periods of two intervals.                                            *)

MCPrice(source, run, of) == IF source = "dispatch" THEN 1 ELSE (run + 2 * of) % 3
Clock == INSTANCE PriceTimeline WITH Price <- MCPrice
ASSUME TimelineRulesAssumption == Clock!TimelineAssumption

KeepTime ==
  /\ probe.rule = "clock"
  /\ Clock!Next
  /\ UNCHANGED probe

-----------------------------------------------------------------------------
(* Day27Seam: two Amber sensors, and a series that begins before them.      *)

Seam == INSTANCE Day27Seam WITH Interval <- SeamInterval, Day <- SeamDay
ASSUME SeamRulesAssumption == Seam!SeamAssumption

AmberSensors == {None} \union {[detailed |-> d, starts |-> s] :
                   d \in {<<>>, <<None>>, <<4, None, 24>>, <<8, 28>>}, s \in {<<>>, <<4, 16>>}}
JoinAmber ==
  Start /\ \E a, b \in AmberSensors, at \in 0..31 : Ask("seam", [sensors |-> <<a, b>>, at |-> at])

\* TimelineIsSeamless of PriceTimeline and SeamIsWhole of Day27Seam: each interval once,
\* from the finest source that has it, and none lost or doubled where Amber's forecast ends.
TimelineIsSeamless ==
  /\ probe.rule = "clock" => Clock!TimelineIsSeamless
  /\ probe.rule = "seam" => Seam!SeamIsWhole(probe.in.sensors, probe.in.at, [i \in 1..18 |-> SeamInterval * (i - 1)])

-----------------------------------------------------------------------------
(* TariffCatalogue: two releases of a library.                              *)

Tables == {s \in UNION {[1..n -> Codes] : n \in 1..4} : \A i, j \in DOMAIN s : s[i] = s[j] => i = j}
Batteries == {<<>>, <<[imports |-> <<"a", "b">>, exports |-> <<"e", "f">>]>>,
              <<[imports |-> <<"a">>, exports |-> <<"e", "f">>], [imports |-> <<"b">>, exports |-> <<"f">>]>>}
Tariffs == INSTANCE TariffCatalogue
ASSUME CatalogueRulesAssumption == Tariffs!CatalogueAssumption

\* None stands for a library that cannot be imported and a table it has not.
Libraries == [imports : Tables, feedIn : {None, {"aX"}, {"a", "f"}}, battery : Batteries]
ASSUME NoneIsNoLibrary ==
  \A lib \in Libraries : lib # None /\
    \A e \in ToSet(Extensions) : LET later == Tariffs!TakenOver(lib, e)
                                  IN later # None /\ (lib.feedIn # None => later.feedIn # None)

Release ==
  /\ Start
  /\ \E lib \in Libraries, l \in Tables :
       /\ ToSet(lib.imports) \subseteq ToSet(l)
       /\ Ask("release", [lib |-> lib, later |-> [lib EXCEPT !.imports = l]])

-----------------------------------------------------------------------------
(* TariffPricing: days of four intervals, months of a day.                  *)

Prices == INSTANCE TariffPricing WITH Day <- TariffDay
ASSUME PricingRulesAssumption == Prices!PricingAssumption

Win(name, start, end, rate) == [name |-> name, start |-> start, end |-> end, rate |-> rate]
Flat(rows) == <<[months |-> 0..(Months - 1), rows |-> rows]>>
TwoRates == <<Win("peak", 1, 3, 4), Win("night", 3, 1, 1)>>
Tariff(extension, seasons) ==
  [extension |-> extension, seasons |-> seasons,
   feedIn |-> <<[start |-> 0, end |-> 2, months |-> {1}, rate |-> 3], [start |-> 1, end |-> 3, months |-> {0, 1}, rate |-> -1]>>]
TariffSet ==
  {Tariff(FALSE, Flat(r)) : r \in {TwoRates, <<Win("day", 1, 3, 2), Win("off", None, None, 1)>>,
                                   <<Win("day", 0, 2, 2), Win("all", 0, 4, 3), Win("none", 0, 1, None)>>}}
  \union {Tariff(TRUE, Flat(<<Win("low", 0, 2, 1), Win("high", 2, 3, 5)>>)),
          Tariff(FALSE, <<[months |-> {0}, rows |-> TwoRates], [months |-> 1..(Months - 1), rows |-> Tail(TwoRates)]>>)}
ASSUME NoneIsNoRow ==
  \A tariff \in TariffSet : \A i \in DOMAIN tariff.seasons : None \notin ToSet(tariff.seasons[i].rows)
Sensors == {[d |-> d, tariff |-> t, losses |-> Prices!LossesFor(o), export |-> x, madeAt |-> 0] :
              d \in {"g", "n"}, t \in TariffSet, o \in {None, 3, 4}, x \in BOOLEAN}
TariffWrites == {[cal |-> c, fee |-> f, entries |-> e] : c \in 1..2, f \in 0..1,
                   e \in {<<[end |-> 1, spot |-> 2], [end |-> 4, spot |-> None], [end |-> 3, spot |-> -1]>>,
                          <<[end |-> 3, spot |-> 1], [end |-> 4, spot |-> 2], [end |-> 1, spot |-> 2]>>}}

SetPrices ==
  \/ Start /\ \E s \in Sensors : Ask("prices", [sensor |-> s, writes |-> <<>>])
  \/ /\ probe.rule = "prices" /\ Len(probe.in.writes) < 3 /\ probe.in.sensor.losses # Prices!LossesFor(4)
     /\ \E w \in TariffWrites :
          Ask("prices", [probe.in EXCEPT !.writes = Append(@, w)])

\* DefaultIsPinned and TakeoverIsSeamless of TariffCatalogue, PriceAddsUp of
\* TariffPricing: the tariffs offered and what they cost hold together.
TariffsAddUp ==
  /\ probe.rule = "release" => /\ Tariffs!DefaultIsPinned(probe.in.lib, probe.in.later)
                               /\ Tariffs!TakeoverIsSeamless(probe.in.lib)
  /\ probe.rule = "prices" /\ probe.in.writes = <<>> =>
       \A end \in 1..8, spot \in -1..2, fee \in 0..1 : Prices!PriceAddsUp(probe.in.sensor, end, spot, fee)

-----------------------------------------------------------------------------
PricesInit == Clock!Init /\ probe \in {[rule |-> r, in |-> <<>>] : r \in {"none", "clock"}}
PricesNext == ((JoinAmber \/ Release \/ SetPrices) /\ UNCHANGED clock) \/ KeepTime
PricesSpec == PricesInit /\ [][PricesNext]_<<probe, clock>>
=============================================================================
