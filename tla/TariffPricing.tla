--------------------------- MODULE TariffPricing ---------------------------
(***************************************************************************)
(* What a tariff sensor makes of a spot price (tariff_pricing.py,          *)
(* tariff_extensions.py, tariff_forecast.py and the pricing methods of     *)
(* tariff_sensor.py).                                                      *)
(*                                                                         *)
(* Money is whole: a library result is counted in tenths, so that GST is   *)
(* 11 to its 10, and a published price in hundredths; the rounding of a    *)
(* result to six places is left out.  Time is in dispatch intervals, Day   *)
(* of them to a day, and the month is the day's number modulo Months.  A   *)
(* tariff is [lib: its price source has it, rows: per season, feedIn].     *)
(***************************************************************************)
EXTENDS Integers, Sequences, SequencesExt, FiniteSets, Lists

CONSTANTS
  None,
  Day,           \* dispatch intervals to a day
  Months,
  LibAppliesGst, \* LIB_APPLIES_GST
  Default,       \* DEFAULT_LOSSES
  LossMin, LossMax,
  MaxCached

PricingAssumption ==
  /\ None \notin Int
  /\ Day \in Nat \ {0} /\ Months \in Nat \ {0}
  /\ Default \in Int \X Int \X Int /\ LossMin \in Nat /\ LossMax \in Nat /\ MaxCached \in Nat

Month(at) == (at \div Day) % Months

\* losses_for(): a number in range is passed as the first of three factors.
LossesFor(option) ==
  IF option = None \/ option \notin LossMin..LossMax THEN Default ELSE <<option, 1, 1>>
Combined(losses) == losses[1] * losses[2] * losses[3]

-----------------------------------------------------------------------------
(* Periods.  A row is [name, start, end, rate]; a row without a window      *)
(* stands for every time no other row has.                                  *)

RowsIn(tariff, at) == LET s == CHOOSE s \in DOMAIN tariff.seasons : Month(at) \in tariff.seasons[s].months
                      IN tariff.seasons[s].rows

Within(row, t) ==
  \/ row.start <= t /\ t < row.end
  \/ row.start > row.end /\ (t >= row.start \/ t < row.end)
First(rows, Matches(_)) ==
  LET i == SelectInSeq(rows, Matches) IN IF i = 0 THEN None ELSE rows[i]

\* The library's own lookup: five minutes before the interval's end, in the
\* rows of that date, and a row without a window where no other matches.
LibraryRate(tariff, end) ==
  LET rows == RowsIn(tariff, end - 1)
      t == (end - 1) % Day
      row == First(rows, LAMBDA r : r.start # None /\ r.end # None /\ Within(r, t))
      other == First(rows, LAMBDA r : r.start = None \/ r.end = None)
  IN IF row # None THEN row.rate ELSE IF other # None THEN other.rate ELSE None

\* ExtensionTariff.network_rate(): windows that do not run past midnight.
ExtensionRate(tariff, end) ==
  LET t == (end - 1) % Day
      row == First(RowsIn(tariff, end - 1), LAMBDA r : r.start <= t /\ t < r.end)
  IN IF row = None THEN None ELSE row.rate

\* period_attributes()
PeriodAttributes(rows) ==
  Among(rows, {r \in ToSet(rows) : r.rate # None /\ r.start # None /\ r.end # None})

\* TouWindows.lookup(): the row of a forecast entry.
Lookup(periods, end) ==
  LET row == First(periods, LAMBDA r : Within(r, (end - 1) % Day))
  IN IF row = None THEN [name |-> None, rate |-> None] ELSE [name |-> row.name, rate |-> row.rate]

\* feed_in_adjustment(), and feed_in_rows(): the rows in force this month.
FeedInRows(tariff, at) == Among(tariff.feedIn, {r \in ToSet(tariff.feedIn) : Month(at) \in r.months})
FeedInRate(tariff, end) ==
  LET t == (end - 1) % Day
      row == First(FeedInRows(tariff, end - 1), LAMBDA r : r.start <= t /\ t < r.end)
  IN IF row = None THEN 0 ELSE row.rate

-----------------------------------------------------------------------------
(* Prices.                                                                  *)

Spot(losses, spot) == spot * Combined(losses)

\* spot_to_tariff() of the library, which adds GST to the network rate for
\* some distributors, and of an extension, whose table is written in the
\* convention of its distributor.
ImportResult(tariff, d, losses, end, spot) ==
  LET rate == IF tariff.extension THEN ExtensionRate(tariff, end) ELSE LibraryRate(tariff, end)
      gst == IF ~tariff.extension /\ d \in LibAppliesGst THEN 11 ELSE 10
  IN IF rate = None THEN None ELSE 10 * Spot(losses, spot) + rate * gst

\* spot_to_feed_in_tariff()
FeedInResult(tariff, losses, end, spot) ==
  10 * (Spot(losses, spot) + FeedInRate(tariff, end))

\* As if GST were put on the whole result.
GstOnAll(d, losses, result, spot, fee) == (result + 10 * fee) * 11

\* RetailPrice.import_dollars(): the network part is what the spot leaves of
\* the result, its GST is taken out where the library put it, and GST is put
\* on the sum.
ImportDollars(d, losses, result, spot, fee) ==
  LET spotPart == 10 * Spot(losses, spot)
      network == IF d \in LibAppliesGst THEN ((result - spotPart) * 10) \div 11
                 ELSE result - spotPart
  IN (spotPart + network + 10 * fee) * 11

\* RetailPrice.export_dollars(): neither fee nor GST.
ExportDollars(result) == 10 * result

\* A sensor: [d, tariff, losses, export, and the periods it cached when it
\* was made].  _compute_tariff() and _compute_export_tariff() without their
\* one-entry cache: the price of the interval that ends at `end`.
Priced(sensor, end, spot, fee) ==
  IF sensor.export
    THEN ExportDollars(FeedInResult(sensor.tariff, sensor.losses, end, spot))
    ELSE LET result == ImportResult(sensor.tariff, sensor.d, sensor.losses, end, spot)
         IN IF result = None THEN None
            ELSE ImportDollars(sensor.d, sensor.losses, result, spot, fee)

\* The periods a sensor keeps are those in force when it was made.
CachedPeriods(sensor) == PeriodAttributes(RowsIn(sensor.tariff, sensor.madeAt))

\* _lookup_period_info(): an export tariff has none.
PeriodOf(sensor, end) ==
  IF sensor.export THEN [name |-> None, rate |-> None] ELSE Lookup(CachedPeriods(sensor), end)

-----------------------------------------------------------------------------
(* Caches.  A write is [cal: the calibrated forecast it reads, fee, and its *)
(* entries]; an entry is [end, spot], spot None where it could not be       *)
(* calibrated.  What a sensor keeps is [gen, prices, periods, one].         *)

Empty == <<>>
Fresh == [gen |-> None, prices |-> Empty, periods |-> Empty, one |-> None]
With(f, k, v) == [x \in DOMAIN f \union {k} |-> IF x = k THEN v ELSE f[x]]

\* As if the fee were no part of what prices are kept for.
RenewForForecast(kept, w) ==
  IF kept.gen # <<w.cal>> \/ Cardinality(DOMAIN kept.prices) > MaxCached
    THEN [kept EXCEPT !.gen = <<w.cal>>, !.prices = Empty, !.periods = Empty] ELSE kept

\* PriceCache.renew()
Renew(kept, w) ==
  IF kept.gen # <<w.cal, w.fee>> \/ Cardinality(DOMAIN kept.prices) > MaxCached
    THEN [kept EXCEPT !.gen = <<w.cal, w.fee>>, !.prices = Empty, !.periods = Empty] ELSE kept

\* _compute_tariff(): the last price asked for is kept beside its key.
Computed(kept, sensor, e, fee) ==
  LET key == IF sensor.export THEN <<e.end, e.spot>> ELSE <<e.end, e.spot, fee>>
      price == Priced(sensor, e.end, e.spot, fee)
  IN IF kept.one # None /\ kept.one.key = key THEN [price |-> kept.one.price, one |-> kept.one]
     ELSE [price |-> price, one |-> IF price = None THEN kept.one ELSE [key |-> key, price |-> price]]

\* tariff_entries(): one entry more on what the write has made so far.
Entry(sensor, w, made, e) ==
  LET kept == made.kept
      key == <<e.end, e.spot>>
      asked == e.spot # None /\ key \notin DOMAIN kept.prices
      told(after, period) ==
        [kept |-> after,
         out |-> Append(made.out, [end |-> e.end, spot |-> e.spot, period |-> period,
                   value |-> IF e.spot = None THEN None ELSE after.prices[key]])]
      entry(period, got) ==
        told([kept EXCEPT !.periods = With(@, e.end, period),
                          !.prices = IF asked THEN With(@, key, got.price) ELSE @,
                          !.one = IF asked THEN got.one ELSE @], period)
  IN entry(IF e.end \in DOMAIN kept.periods THEN kept.periods[e.end] ELSE PeriodOf(sensor, e.end),
           Computed(kept, sensor, e, w.fee))

\* _tariff_forecast() of one write, on what the sensor kept from the last.
Write(sensor, kept, w) ==
  LET made[n \in 0..Len(w.entries)] ==
        IF n = 0 THEN [kept |-> Renew(kept, w), out |-> <<>>]
        ELSE Entry(sensor, w, made[n - 1], w.entries[n])
  IN made[Len(w.entries)]

-----------------------------------------------------------------------------
\* What is published adds up: a tariff price is GST, once, on the spot price
\* times the published loss factor, the published network rate of its
\* interval and the published fee, whoever prices it and wherever the library
\* puts its GST; a feed-in price is the spot price and the month's adjustment.
\* Two cases are left out: a tariff whose periods follow the season, whose
\* forecast keeps the windows of the day its sensor was made, and an extension
\* of a distributor whose rates carry GST, which there has never been.
PriceAddsUp(sensor, end, spot, fee) ==
  LET spotPart == spot * Combined(sensor.losses)
      rate == PeriodOf(sensor, end).rate
  IN IF sensor.export
       THEN Priced(sensor, end, spot, fee) = 100 * (spotPart + FeedInRate(sensor.tariff, end))
       ELSE /\ rate # None /\ Len(sensor.tariff.seasons) = 1
            /\ ~(sensor.tariff.extension /\ sensor.d \in LibAppliesGst)
            =>
              Priced(sensor, end, spot, fee) = 110 * (spotPart + rate + fee)

\* Every price a write publishes is the one its own fee and forecast give,
\* although most come from a cache of an earlier write.
PricesAreCurrent(sensor, writes) ==
  LET right(e, w) == /\ e.value = (IF e.spot = None THEN None ELSE Priced(sensor, e.end, e.spot, w.fee))
                     /\ e.period = PeriodOf(sensor, e.end)
      told(made, w) == /\ Len(made.out) = Len(w.entries)
                       /\ \A i \in DOMAIN made.out : made.out[i].end = w.entries[i].end /\ right(made.out[i], w)
      judge(made, w, good) == [kept |-> made.kept, good |-> good /\ told(made, w)]
      step(acc, w) == judge(Write(sensor, acc.kept, w), w, acc.good)
  IN FoldLeft(step, [kept |-> Fresh, good |-> TRUE], writes).good
=============================================================================
