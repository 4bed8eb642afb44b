--------------------------- MODULE ScarcityPremium ---------------------------
(***************************************************************************)
(* The premium on recent dispatch prices (scarcity_premium.py) and the     *)
(* sensor that samples them and shows it (scarcity_sensor.py), with the    *)
(* dispatch poll, the clock and the coordinator it refreshes on.           *)
(*                                                                         *)
(* Interval ticks make a dispatch interval, which is named by its end.     *)
(* The clock fires at second 45 of each tick; at an interval's first tick  *)
(* that is before the poll, so the price that ended with it is still held. *)
(* Not modelled: a refresh that outlives the sensor.                       *)
(***************************************************************************)
EXTENDS Integers, FiniteSets, FiniteSetsExt

CONSTANTS
  None,
  Interval, HalfHour, Day,
  Window,       \* SIGNAL_WINDOW
  Freshness,    \* SIGNAL_FRESHNESS
  Open, Close,  \* the application window, in ticks of the day
  Trigger, FloorCap, PremiumCap,
  Price,        \* the dispatch price of each interval
  Bases,        \* what the base sensor may offer: [fresh, rows], a row [at, value]
  Ahead,        \* half hours in the series
  MaxNow        \* bound: ticks

\* The ends of the intervals that dispatch may have a price of.
Ends == {k * Interval : k \in 0..(MaxNow \div Interval + 1)}

PremiumAssumption ==
  /\ {Interval, HalfHour, Day, Window, Freshness, MaxNow} \subseteq Nat \ {0} /\ Ahead \in Nat
  /\ None \notin Int \union [now : Nat, samples : SUBSET Ends]
  /\ Ends \subseteq DOMAIN Price

VARIABLES
  tick,
  quote,     \* the interval whose price the dispatch coordinator holds, or None
  up,        \* the sensor is added
  samples,   \* _samples, by the ends of their intervals
  saved,     \* ... in Home Assistant's storage
  due,       \* a delayed save is pending
  base,      \* what the base sensor and its coordinator hold
  wanted,    \* a refresh was asked for and waits for _lock
  warming,   \* the refresh that holds _lock across its await: [now, samples], or None
  premium,   \* _result
  \* history: the lock was held from one tick to the next since the sensor was added;
  \* the last interval whose price dispatch held at its end, the sensor added
  stalled, ended

vars == <<tick, quote, up, samples, saved, due, base, wanted, warming, premium, stalled, ended>>

-----------------------------------------------------------------------------
(* build_premium() *)

\* recent_samples(): ended, and in the last thirty minutes.
Recent(S, now) == {e \in S : now - Window < e /\ e <= now}

\* signal_mean()
SignalMean(S, now) ==
  IF S = {} \/ now - Max(S) > Freshness THEN None
  ELSE MapThenSumSet(LAMBDA e : Price[e], S) \div Cardinality(S)

InWindow(at) == (at % Day) \in Open..(Close - 1)
SameDay(a, b) == a \div Day = b \div Day

Unavailable(status) == [status |-> status, forecast |-> <<>>]

BuildPremium(now, S, rows, fresh) ==
  LET mean == SignalMean(Recent(S, now), now)
      floor == IF mean = None \/ mean <= Trigger THEN None ELSE Min({mean, FloorCap})
      at(i) == (now \div HalfHour + i) * HalfHour
      applies(i) == InWindow(now) /\ floor # None /\ SameDay(at(i), now) /\ InWindow(at(i))
      of(i) == {row \in rows : row.at = at(i)}
      value(i) == IF applies(i)
                  THEN Min({PremiumCap, Max({0, floor - (CHOOSE row \in of(i) : TRUE).value})}) ELSE 0
  IN IF InWindow(now) /\ mean = None THEN Unavailable("no_recent_dispatch")
     ELSE IF InWindow(now) /\ floor # None /\ ~fresh THEN Unavailable("base_forecast_stale")
     ELSE IF \E p, q \in rows : p # q /\ p.at = q.at THEN Unavailable("duplicate_base_interval")
     ELSE IF \E i \in 0..Ahead : applies(i) /\ of(i) = {} THEN Unavailable("base_forecast_gap")
     ELSE [status |-> IF ~InWindow(now) THEN "outside_window"
                      ELSE IF floor = None THEN "signal_below_threshold" ELSE "active",
           forecast |-> [i \in 0..Ahead |-> [at |-> at(i), value |-> value(i)]]]

-----------------------------------------------------------------------------
Init ==
  /\ tick = 0 /\ quote = None /\ up = FALSE
  /\ samples = {} /\ saved = {} /\ due = FALSE
  /\ base \in Bases /\ wanted = FALSE /\ warming = None
  /\ premium = Unavailable("initialising") /\ stalled = FALSE /\ ended = None

\* As if only dispatch and the coordinator were listened to.
TickUnheard ==
  /\ tick < MaxNow /\ (wanted => warming # None)
  /\ tick' = tick + 1
  /\ stalled' = (stalled \/ warming # None)
  /\ ended' = (IF up /\ quote = tick + 1 THEN quote ELSE ended)
  /\ UNCHANGED <<quote, up, samples, saved, due, base, wanted, warming, premium>>

(* The clock: a refresh, unless one holds the lock, is done before the next. *)
Tick ==
  /\ tick < MaxNow /\ (wanted => warming # None)
  /\ tick' = tick + 1
  /\ wanted' = up
  /\ stalled' = (stalled \/ warming # None)
  /\ ended' = (IF up /\ quote = tick + 1 THEN quote ELSE ended)
  /\ UNCHANGED <<quote, up, samples, saved, due, base, warming, premium>>

(* A dispatch poll, after the clock: the price of the interval that has just *)
(* begun, or of the one before it; its listener asks for a refresh.          *)
PollDispatch ==
  /\ tick % Interval # 0
  /\ \E end \in {(tick \div Interval) * Interval, (tick \div Interval + 1) * Interval} :
       (quote # None => quote < end) /\ quote' = end
  /\ wanted' = up
  /\ UNCHANGED <<tick, up, samples, saved, due, base, warming, premium, stalled, ended>>

(* The base moves on, the coordinator's listeners told or (a new P5MIN run,  *)
(* time that makes it stale) not.                                            *)
BaseMoves ==
  /\ base' \in Bases \ {base}
  /\ wanted' \in {wanted, up}
  /\ UNCHANGED <<tick, quote, up, samples, saved, due, warming, premium, stalled, ended>>

\* What _async_refresh() adds: an interval that has ended, no more than ten minutes ago.
Sampled(S) == S \union (IF quote # None /\ tick - quote \in 0..(2 * Interval) THEN {quote} ELSE {})

(* _async_refresh() takes the lock and the time, and keeps the samples; with *)
(* none, or outside the application window, it shows its result at once.     *)
BeginRefresh ==
  /\ up /\ wanted /\ warming = None
  /\ LET now == Recent(Sampled(Recent(samples, tick)), tick)
         warms == InWindow(tick) /\ now # {}
     IN /\ samples' = now
        /\ due' = (due \/ now # samples)
        /\ warming' = IF warms THEN [now |-> tick, samples |-> now] ELSE None
        /\ premium' = IF warms THEN premium ELSE BuildPremium(tick, now, {}, FALSE)
  /\ wanted' = FALSE
  /\ UNCHANGED <<tick, quote, up, saved, base, stalled, ended>>

(* The await over, or the warm raised: no rows, and not fresh.               *)
EndRefresh ==
  /\ warming # None
  /\ \E failed \in BOOLEAN :
       premium' = BuildPremium(warming.now, warming.samples, IF failed THEN {} ELSE base.rows,
                               ~failed /\ base.fresh)
  /\ warming' = None
  /\ UNCHANGED <<tick, quote, up, samples, saved, due, base, wanted, stalled, ended>>

(* async_delay_save, five seconds on.                                        *)
Save ==
  /\ up /\ due /\ due' = FALSE /\ saved' = samples
  /\ UNCHANGED <<tick, quote, up, samples, base, wanted, warming, premium, stalled, ended>>

(* async_added_to_hass: restored, and refreshed at once.                     *)
Add ==
  /\ ~up /\ up' = TRUE
  /\ samples' = Recent(saved, tick) /\ due' = FALSE
  /\ wanted' = TRUE /\ stalled' = FALSE
  /\ UNCHANGED <<tick, quote, saved, base, warming, premium, ended>>

(* async_will_remove_from_hass                                               *)
Remove ==
  /\ up /\ up' = FALSE
  /\ saved' = samples
  /\ wanted' = FALSE /\ warming' = None /\ due' = FALSE
  /\ premium' = Unavailable("initialising") /\ samples' = {} /\ ended' = None
  /\ UNCHANGED <<tick, quote, base, stalled>>

(* Home Assistant is killed.                                                 *)
Crash ==
  /\ up /\ up' = FALSE
  /\ wanted' = FALSE /\ warming' = None /\ due' = FALSE /\ quote' = None
  /\ premium' = Unavailable("initialising") /\ samples' = {} /\ ended' = None
  /\ UNCHANGED <<tick, saved, base, stalled>>

Next ==
  \/ Tick \/ PollDispatch \/ BaseMoves
  \/ BeginRefresh \/ EndRefresh \/ Save
  \/ Add \/ Remove \/ Crash

Spec == Init /\ [][Next]_vars

-----------------------------------------------------------------------------
(* Properties *)

TypeOK ==
  /\ tick \in 0..MaxNow /\ {quote, ended} \subseteq Ends \union {None}
  /\ {up, due, wanted, stalled} \subseteq BOOLEAN
  /\ samples \subseteq Ends /\ saved \subseteq Ends
  /\ base \in Bases /\ (warming # None => up)

AtRest == up /\ ~wanted /\ warming = None

\* Whatever refreshes, polls, restarts and warms overlap, what is shown once they are
\* over is of this moment: a premium is shown only in today's window, for half hours of
\* it, on ended intervals of which one is recent; outside the window it is zero, with or
\* without prices or a base.
PremiumIsOfTheMoment ==
  AtRest =>
    LET shown == premium.forecast
        known == {e \in samples : tick - Window < e}
    IN /\ \A e \in samples : e <= tick
       /\ ~InWindow(tick) => shown # <<>> /\ \A i \in DOMAIN shown : shown[i].value = 0
       /\ InWindow(tick) /\ shown # <<>> => \E e \in known : tick - e <= Freshness
       /\ \A i \in DOMAIN shown :
            /\ shown[i].at + HalfHour > tick
            /\ shown[i].value > 0 => SameDay(shown[i].at, tick) /\ InWindow(shown[i].at)

\* No premium is shown unless one of the prices still counted was above the trigger.
PremiumNeedsATrigger ==
  AtRest /\ (\E i \in DOMAIN premium.forecast : premium.forecast[i].value > 0) =>
    \E e \in samples : tick - Window < e /\ Price[e] > Trigger

\* The price dispatch held of an interval when it ended was sampled before the next poll
\* could replace it, and is known until it is too old, whatever refreshes overlapped and
\* unless a warm held the lock over a tick.
EndedIsSampled ==
  up /\ ~stalled /\ ended # None /\ tick - Window < ended /\ ended < tick => ended \in samples

\* A crash forgets no price that is not still to be saved.
SavedUnlessDue == up /\ ~due => Recent(samples, tick) \subseteq saved
=============================================================================
