----------------------- MODULE ScarcityPremium_proofs -----------------------
(* What the scarcity sensor samples, saves and shows, however its refreshes, *)
(* the polls, restarts and warms overlap, for any windows and prices.        *)
EXTENDS ScarcityPremium, WellFoundedInduction, TLAPS

-----------------------------------------------------------------------------
(* Numbers *)

LEMMA QuotientIs ==
  ASSUME NEW d \in Nat \ {0}, NEW a \in Nat
  PROVE  a \div d \in Nat /\ d * (a \div d) <= a /\ a < d * (a \div d) + d
<1>1. a \div d \in Nat
  OBVIOUS
<1>2. PICK q \in Nat : q = a \div d
  BY <1>1
<1>3. d * q <= a
  BY <1>2
<1>4. a < d * q + d
  BY <1>2
<1> QED BY <1>2, <1>3, <1>4

\* A later time is not of an earlier interval.
LEMMA QuotientGrows ==
  ASSUME NEW d \in Nat \ {0}, NEW a \in Nat, NEW b \in Nat, a <= b
  PROVE  a \div d <= b \div d
<1>1. PICK p \in Nat : p = a \div d
  BY QuotientIs
<1>2. PICK q \in Nat : q = b \div d
  BY QuotientIs
<1>3. d * p <= a /\ b < d * q + d
  BY <1>1, <1>2, QuotientIs
<1>4. SUFFICES ASSUME p > q PROVE FALSE
  BY <1>1, <1>2
<1>5. PICK t \in Nat : p = q + 1 + t
  <2>1. p - q - 1 \in Nat /\ p = q + 1 + (p - q - 1)
    BY <1>4
  <2> QED BY <2>1
<1>6. d * p = d * q + d + d * t
  BY <1>5
<1>7. PICK x \in Nat : x = d * t
  OBVIOUS
<1>8. PICK y \in Nat : y = d * q
  OBVIOUS
<1>9. y + d + x <= a /\ b < y + d
  BY <1>3, <1>6, <1>7, <1>8
<1> QED BY <1>9

LEMMA LeastExists == ASSUME NEW S \in SUBSET Nat, S # {} PROVE \E x \in S : \A y \in S : x <= y
<1>1. PICK x \in S : \A y \in S : <<y, x>> \notin OpToRel(<, Nat)
  BY WFMin, NatLessThanWellFounded, Zenon
<1>2. \A y \in S : ~(y < x)
  BY <1>1 DEF OpToRel
<1> QED BY <1>2

\* The maximum of integers with a bound is one of them.
LEMMA MaxIsOne ==
  ASSUME NEW n \in Int, NEW S \in SUBSET Int, S # {}, \A x \in S : x <= n
  PROVE  Max(S) \in S
<1> DEFINE T == {n - x : x \in S}
<1>1. \A x \in S : x \in Int /\ n - x \in Nat
  OBVIOUS
<1>2. T \in SUBSET Nat /\ T # {}
  BY <1>1
<1>3. PICK t \in T : \A u \in T : t <= u
  BY <1>2, LeastExists
<1>4. PICK x \in S : t = n - x
  BY <1>3
<1>5. ASSUME NEW y \in S PROVE x >= y
  <2>1. n - x <= n - y
    BY <1>3, <1>4
  <2> QED BY <1>1, <2>1
<1> QED BY <1>4, <1>5 DEF Max

-----------------------------------------------------------------------------
(* The intervals *)

\* What a poll may hold, and the only ticks at which an interval ends.
LEMMA PolledIsAnEnd ==
  ASSUME PremiumAssumption, tick \in 0..MaxNow
  PROVE  (tick \div Interval) * Interval \in Ends /\ (tick \div Interval + 1) * Interval \in Ends
<1>1. /\ Interval \in Nat \ {0} /\ MaxNow \in Nat /\ tick \in Nat /\ tick <= MaxNow
  BY DEF PremiumAssumption
<1>2. tick \div Interval \in Nat /\ MaxNow \div Interval \in Nat /\ tick \div Interval <= MaxNow \div Interval
  BY <1>1, QuotientIs, QuotientGrows
<1> QED BY <1>2 DEF Ends

LEMMA EndsAreEnds ==
  ASSUME PremiumAssumption, NEW e \in Ends
  PROVE  e \in Nat /\ e % Interval = 0
<1>1. Interval \in Nat \ {0} /\ MaxNow \in Nat
  BY DEF PremiumAssumption
<1>2. MaxNow \div Interval \in Nat
  BY <1>1, QuotientIs
<1>3. PICK k \in 0..(MaxNow \div Interval + 1) : e = k * Interval
  BY DEF Ends
<1>4. k \in Nat
  BY <1>2
<1>5. k * Interval \in Nat /\ (k * Interval) % Interval = 0
  BY <1>1, <1>4
<1> QED BY <1>3, <1>5

-----------------------------------------------------------------------------
(* What a refresh builds *)

RowsOf == {{}} \union {b.rows : b \in Bases}

OfTheMoment(shown, S, now) ==
  /\ ~InWindow(now) => shown # <<>> /\ \A i \in DOMAIN shown : shown[i].value = 0
  /\ InWindow(now) /\ shown # <<>> => \E e \in Recent(S, now) : now - e <= Freshness
  /\ \A i \in DOMAIN shown :
       /\ shown[i].at + HalfHour > now
       /\ shown[i].value > 0 => SameDay(shown[i].at, now) /\ InWindow(shown[i].at)

\* A premium built now of recent prices is of now.
LEMMA BuiltIsOfTheMoment ==
  ASSUME PremiumAssumption, NEW now \in Nat, NEW S, S \subseteq Ends, NEW rows, NEW fresh,
         InWindow(now) \/ rows = {},
         NEW shown, shown = BuildPremium(now, S, rows, fresh).forecast
  PROVE  OfTheMoment(shown, S, now)
<1> DEFINE mean == SignalMean(Recent(S, now), now)
           floor == IF mean = None \/ mean <= Trigger THEN None ELSE Min({mean, FloorCap})
           at(i) == (now \div HalfHour + i) * HalfHour
           applies(i) == InWindow(now) /\ floor # None /\ SameDay(at(i), now) /\ InWindow(at(i))
           of(i) == {row \in rows : row.at = at(i)}
           value(i) == IF applies(i)
                       THEN Min({PremiumCap, Max({0, floor - (CHOOSE row \in of(i) : TRUE).value})}) ELSE 0
           series == [i \in 0..Ahead |-> [at |-> at(i), value |-> value(i)]]
<1>1. HalfHour \in Nat \ {0} /\ Ahead \in Nat
  BY DEF PremiumAssumption
<1>2. series # <<>>
  <2>1. 0 \in DOMAIN series
    BY <1>1
  <2>2. 0 \notin DOMAIN <<>>
    OBVIOUS
  <2> QED BY <2>1, <2>2
<1>3. ASSUME NEW i \in 0..Ahead PROVE at(i) + HalfHour > now
  <2>1. PICK q \in Nat : q = now \div HalfHour
    BY <1>1, QuotientIs
  <2>2. now < HalfHour * q + HalfHour
    BY <1>1, <2>1, QuotientIs
  <2>3. i \in Nat /\ HalfHour * i \in Nat
    BY <1>1
  <2>4. (q + i) * HalfHour = HalfHour * q + HalfHour * i
    BY <1>1, <2>1, <2>3
  <2>5. PICK x \in Nat : x = HalfHour * q
    BY <1>1, <2>1
  <2>6. PICK y \in Nat : y = HalfHour * i
    BY <2>3
  <2> QED BY <1>1, <2>1, <2>2, <2>4, <2>5, <2>6
<1>4. shown = <<>> \/ shown = series
  BY DEF BuildPremium, Unavailable
<1>5. InWindow(now) /\ mean = None => shown = <<>>
  BY DEF BuildPremium, Unavailable
<1>6. ~InWindow(now) => shown = series
  BY DEF BuildPremium, Unavailable
<1>7. mean # None => \E e \in Recent(S, now) : now - e <= Freshness
  <2>1. SUFFICES ASSUME mean # None PROVE \E e \in Recent(S, now) : now - e <= Freshness
    OBVIOUS
  <2>2. Recent(S, now) # {} /\ ~(now - Max(Recent(S, now)) > Freshness)
    BY <2>1 DEF SignalMean
  <2>3. Recent(S, now) \in SUBSET Int /\ \A e \in Recent(S, now) : e <= now
    BY EndsAreEnds DEF Recent
  <2>4. Max(Recent(S, now)) \in Recent(S, now)
    <3> HIDE DEF mean
    <3>1. now \in Int
      OBVIOUS
    <3> QED BY <2>2, <2>3, <3>1, MaxIsOne, Zenon
  <2>5. Freshness \in Nat
    BY DEF PremiumAssumption
  <2>6. PICK e \in Recent(S, now) : e = Max(Recent(S, now))
    BY <2>4
  <2>7. ~(now - e > Freshness) /\ e \in Int
    BY <2>2, <2>3, <2>6
  <2> QED BY <2>5, <2>6, <2>7
<1>8. DOMAIN series = 0..Ahead /\ DOMAIN <<>> = {}
  OBVIOUS
<1>9. ASSUME NEW i \in 0..Ahead
      PROVE  series[i].at = at(i) /\ series[i].value = value(i)
  OBVIOUS
<1>10. ASSUME NEW i PROVE ~applies(i) => value(i) = 0
  OBVIOUS
<1>11. ~InWindow(now) => \A i \in 0..Ahead : value(i) = 0
  BY <1>10
<1>12. ASSUME NEW i \in 0..Ahead, value(i) > 0 PROVE SameDay(at(i), now) /\ InWindow(at(i))
  <2>1. applies(i)
    BY <1>10, <1>12
  <2> QED BY <2>1
<1> HIDE DEF series, at, value, applies, floor, mean, of
<1>13. shown = series =>
         \A i \in DOMAIN shown :
            /\ shown[i].at + HalfHour > now
            /\ shown[i].value > 0 => SameDay(shown[i].at, now) /\ InWindow(shown[i].at)
  BY <1>3, <1>8, <1>9, <1>12
<1>14. ~InWindow(now) => shown # <<>> /\ \A i \in DOMAIN shown : shown[i].value = 0
  BY <1>2, <1>6, <1>8, <1>9, <1>11
<1>15. InWindow(now) /\ shown # <<>> => \E e \in Recent(S, now) : now - e <= Freshness
  BY <1>5, <1>7
<1>16. shown = <<>> => DOMAIN shown = {}
  BY <1>8
<1> QED BY <1>4, <1>13, <1>14, <1>15, <1>16 DEF OfTheMoment

-----------------------------------------------------------------------------
(* The inductive invariant *)

Typed ==
  /\ TypeOK
  /\ ~up => ~wanted /\ ended = None

\* Nothing that has not ended is sampled, nor remembered as having been held.
NotAhead ==
  /\ \A e \in samples : e <= tick
  /\ ended # None => ended <= tick

\* A price held at the end of its interval is sampled, or about to be by a refresh
\* that the clock asked for and that is done before the next tick or poll.
EndedHeld ==
  up /\ ~stalled /\ ended # None /\ tick - Window < ended =>
    ended \in samples \/ (ended = tick /\ quote = tick /\ wanted)

\* With no refresh asked for, one that warms is of this moment, and what is shown was
\* built of this moment's samples.
Shown ==
  up /\ ~wanted =>
    IF warming # None
    THEN warming = [now |-> tick, samples |-> samples] /\ InWindow(tick)
    ELSE \E rows \in RowsOf, fresh \in BOOLEAN :
           /\ InWindow(tick) \/ rows = {}
           /\ premium = BuildPremium(tick, samples, rows, fresh)

PInv == Typed /\ NotAhead /\ EndedHeld /\ Shown /\ SavedUnlessDue

-----------------------------------------------------------------------------
(* Each step *)

LEMMA InitHolds == ASSUME PremiumAssumption, Init PROVE PInv
<1>1. 0 \in 0..MaxNow
  BY DEF PremiumAssumption
<1>2. Typed
  BY <1>1 DEF Init, Typed, TypeOK
<1> QED BY <1>2 DEF Init, PInv, NotAhead, EndedHeld, Shown, SavedUnlessDue

LEMMA TickKeeps == ASSUME PremiumAssumption, PInv, Tick PROVE PInv'
<1>1. /\ tick \in Nat /\ tick < MaxNow /\ MaxNow \in Nat /\ tick' = tick + 1 /\ None \notin Int
      /\ Window \in Nat
  BY DEF PInv, Typed, TypeOK, PremiumAssumption, Tick
<1>2. samples \subseteq Nat /\ (ended # None => ended \in Nat) /\ \A e \in Ends : e \in Nat
  BY EndsAreEnds DEF PInv, Typed, TypeOK
<1>3. Typed'
  <2>1. tick' \in 0..MaxNow
    BY <1>1
  <2> QED BY <2>1 DEF PInv, Typed, TypeOK, Tick
<1>4. NotAhead'
  <2>1. \A e \in samples' : e <= tick'
    BY <1>1, <1>2 DEF PInv, NotAhead, Tick
  <2>2. ended' # None => ended' <= tick'
    BY <1>1, <1>2 DEF PInv, NotAhead, Tick
  <2> QED BY <2>1, <2>2 DEF NotAhead
<1>5. EndedHeld'
  <2>1. CASE up /\ quote = tick + 1
    BY <1>1, <2>1 DEF Tick, EndedHeld
  <2>2. CASE ~(up /\ quote = tick + 1)
    <3>1. ended' = ended /\ samples' = samples /\ up' = up
      BY <2>2 DEF Tick
    <3>2. SUFFICES ASSUME up, ~stalled', ended # None, tick' - Window < ended
                   PROVE  ended \in samples
      BY <3>1 DEF EndedHeld
    <3>3. ~stalled /\ warming = None /\ ~wanted
      BY <3>2 DEF Tick, PInv, Typed, TypeOK
    <3>4. tick - Window < ended
      BY <1>1, <1>2, <3>2
    <3> QED BY <3>2, <3>3, <3>4 DEF PInv, EndedHeld
  <2> QED BY <2>1, <2>2
<1>6. Shown'
  BY DEF Tick, Shown, PInv, Typed, TypeOK
<1>7. SavedUnlessDue'
  <2>1. SUFFICES ASSUME up, ~due, NEW e \in samples, tick' - Window < e PROVE e \in saved
    BY DEF Tick, SavedUnlessDue, Recent
  <2>2. e \in Nat /\ e <= tick
    BY <1>2 DEF PInv, NotAhead
  <2>3. tick - Window < e
    BY <1>1, <2>1, <2>2
  <2>4. e \in Recent(samples, tick)
    BY <2>2, <2>3 DEF Recent
  <2> QED BY <2>1, <2>4 DEF PInv, SavedUnlessDue
<1> QED BY <1>3, <1>4, <1>5, <1>6, <1>7 DEF PInv

\* A poll is never at an interval's end, so the price held there has been sampled.
LEMMA PollKeeps == ASSUME PremiumAssumption, PInv, PollDispatch PROVE PInv'
<1>1. tick' = tick /\ quote' \in Ends /\ wanted' = up
  BY PolledIsAnEnd DEF PInv, Typed, TypeOK, PollDispatch
<1>2. UNCHANGED <<up, samples, saved, due, base, warming, premium, stalled, ended>>
  BY DEF PollDispatch
<1>3. ended # tick
  BY EndsAreEnds DEF PInv, Typed, TypeOK, PollDispatch, PremiumAssumption
<1>4. Typed'
  BY <1>1, <1>2 DEF PInv, Typed, TypeOK
<1>5. EndedHeld'
  BY <1>1, <1>2, <1>3 DEF PInv, EndedHeld
<1>6. NotAhead' /\ Shown' /\ SavedUnlessDue'
  BY <1>1, <1>2 DEF PInv, NotAhead, Shown, SavedUnlessDue
<1> QED BY <1>4, <1>5, <1>6 DEF PInv

LEMMA BaseKeeps == ASSUME PInv, BaseMoves PROVE PInv'
<1>1. UNCHANGED <<tick, quote, up, samples, saved, due, warming, premium, stalled, ended>>
  BY DEF BaseMoves
<1>2. base' \in Bases /\ wanted' \in {wanted, up} /\ (wanted => wanted')
  BY DEF BaseMoves, PInv, Typed, TypeOK
<1>3. Typed'
  BY <1>1, <1>2 DEF PInv, Typed, TypeOK
<1>4. EndedHeld'
  BY <1>1, <1>2 DEF PInv, EndedHeld
<1>5. Shown'
  BY <1>1, <1>2 DEF PInv, Shown
<1>6. NotAhead' /\ SavedUnlessDue'
  BY <1>1 DEF PInv, NotAhead, SavedUnlessDue
<1> QED BY <1>3, <1>4, <1>5, <1>6 DEF PInv

\* A refresh keeps what is still recent, with the price at hand, and leaves it to save.
LEMMA BeginKeeps == ASSUME PremiumAssumption, PInv, BeginRefresh PROVE PInv'
<1> DEFINE new == Recent(Sampled(Recent(samples, tick)), tick)
           warms == InWindow(tick) /\ new # {}
<1>1. /\ up /\ wanted /\ warming = None /\ ~wanted'
      /\ UNCHANGED <<tick, quote, up, saved, base, stalled, ended>>
      /\ samples' = new /\ due' = (due \/ new # samples)
      /\ warming' = IF warms THEN [now |-> tick, samples |-> new] ELSE None
      /\ premium' = IF warms THEN premium ELSE BuildPremium(tick, new, {}, FALSE)
  BY DEF BeginRefresh
<1>2. /\ tick \in Nat /\ samples \subseteq Nat /\ (ended # None => ended \in Nat)
      /\ Window \in Nat \ {0} /\ Interval \in Nat \ {0}
  BY EndsAreEnds DEF PInv, Typed, TypeOK, PremiumAssumption
<1>3. new \subseteq Ends
  BY DEF Recent, Sampled, PInv, Typed, TypeOK
<1>4. \A e \in new : e <= tick
  BY DEF Recent
<1>5. ASSUME NEW e \in samples, e <= tick, tick - Window < e PROVE e \in new
  BY <1>5 DEF Recent, Sampled
<1>6. quote = tick => tick \in new
  <2>1. tick - tick \in 0..(2 * Interval) /\ tick - Window < tick /\ tick <= tick
    BY <1>2
  <2>2. quote # None \/ quote # tick
    BY <1>2 DEF PremiumAssumption
  <2> QED BY <2>1, <2>2 DEF Recent, Sampled
<1> HIDE DEF new
<1>7. Typed'
  <2>1. due' \in BOOLEAN /\ wanted' \in BOOLEAN
    BY <1>1 DEF PInv, Typed, TypeOK, BeginRefresh
  <2> QED BY <1>1, <1>3, <2>1 DEF PInv, Typed, TypeOK
<1>8. NotAhead'
  BY <1>1, <1>4 DEF PInv, NotAhead
<1>9. EndedHeld'
  <2>1. SUFFICES ASSUME up, ~stalled, ended # None, tick - Window < ended PROVE ended \in new
    BY <1>1 DEF EndedHeld
  <2>2. ended \in samples \/ (ended = tick /\ quote = tick)
    BY <2>1 DEF PInv, EndedHeld
  <2>3. ended <= tick
    BY <2>1 DEF PInv, NotAhead
  <2> QED BY <1>5, <1>6, <2>1, <2>2, <2>3
<1>10. Shown'
  <2>1. CASE warms
    <3>1. warming' = [now |-> tick', samples |-> samples'] /\ InWindow(tick) /\ tick' = tick
      BY <1>1, <2>1
    <3>2. warming' # None
      BY <1>1, <1>2, <1>3, <3>1 DEF PremiumAssumption
    <3> QED BY <3>1, <3>2 DEF Shown, InWindow
  <2>2. CASE ~warms
    <3>1. warming' = None /\ premium' = BuildPremium(tick', samples', {}, FALSE)
      BY <1>1, <2>2
    <3>2. {} \in RowsOf /\ FALSE \in BOOLEAN
      BY DEF RowsOf
    <3> QED BY <3>1, <3>2 DEF Shown, RowsOf
  <2> QED BY <2>1, <2>2
<1>11. SavedUnlessDue'
  <2>1. SUFFICES ASSUME ~due, new = samples PROVE Recent(new, tick) \subseteq saved
    BY <1>1 DEF SavedUnlessDue
  <2> QED BY <1>1, <2>1 DEF PInv, SavedUnlessDue
<1> QED BY <1>7, <1>8, <1>9, <1>10, <1>11 DEF PInv

LEMMA EndKeeps == ASSUME PInv, EndRefresh PROVE PInv'
<1>1. /\ warming # None /\ warming' = None
      /\ UNCHANGED <<tick, quote, up, samples, saved, due, base, wanted, stalled, ended>>
  BY DEF EndRefresh
<1>2. PICK failed \in BOOLEAN :
        premium' = BuildPremium(warming.now, warming.samples, IF failed THEN {} ELSE base.rows,
                                ~failed /\ base.fresh)
  BY DEF EndRefresh
<1>3. PICK rows : rows = IF failed THEN {} ELSE base.rows
  OBVIOUS
<1>4. PICK fresh : fresh = (~failed /\ base.fresh)
  OBVIOUS
<1>5. rows \in RowsOf
  BY <1>3 DEF RowsOf, PInv, Typed, TypeOK
<1>6. Shown'
  <2>1. SUFFICES ASSUME up, ~wanted
        PROVE  InWindow(tick) /\ premium' = BuildPremium(tick, samples, rows, fresh)
    BY <1>1, <1>4, <1>5 DEF Shown, RowsOf, InWindow
  <2>2. warming = [now |-> tick, samples |-> samples] /\ InWindow(tick)
    BY <1>1, <2>1 DEF PInv, Shown
  <2> QED BY <1>2, <1>3, <1>4, <2>2
<1>7. Typed'
  BY <1>1 DEF PInv, Typed, TypeOK
<1> QED BY <1>1, <1>6, <1>7 DEF PInv, NotAhead, EndedHeld, SavedUnlessDue

LEMMA SaveKeeps == ASSUME PInv, Save PROVE PInv'
<1>1. /\ up /\ ~due' /\ saved' = samples
      /\ UNCHANGED <<tick, quote, up, samples, base, wanted, warming, premium, stalled, ended>>
  BY DEF Save
<1>2. Typed'
  <2>1. due' \in BOOLEAN
    BY DEF Save
  <2> QED BY <1>1, <2>1 DEF PInv, Typed, TypeOK
<1>3. SavedUnlessDue'
  BY <1>1 DEF SavedUnlessDue, Recent
<1>4. NotAhead' /\ EndedHeld' /\ Shown'
  BY <1>1 DEF PInv, NotAhead, EndedHeld, Shown
<1> QED BY <1>2, <1>3, <1>4 DEF PInv

LEMMA AddKeeps == ASSUME PInv, Add PROVE PInv'
<1>1. /\ ~up /\ up' /\ samples' = Recent(saved, tick) /\ ~due' /\ wanted'
      /\ UNCHANGED <<tick, quote, saved, base, warming, premium, ended>>
  BY DEF Add
<1>2. Typed'
  BY <1>1 DEF PInv, Typed, TypeOK, Add, Recent
<1>3. NotAhead' /\ EndedHeld' /\ Shown' /\ SavedUnlessDue'
  BY <1>1 DEF PInv, Typed, NotAhead, EndedHeld, Shown, SavedUnlessDue, Recent
<1> QED BY <1>2, <1>3 DEF PInv

LEMMA LeaveKeeps == ASSUME PInv, Remove \/ Crash PROVE PInv'
<1>1. /\ ~up' /\ ~wanted' /\ ended' = None /\ samples' = {} /\ warming' = None /\ tick' = tick
      /\ saved' \in {saved, samples} /\ quote' \in {quote, None}
      /\ UNCHANGED <<base, stalled>>
  BY DEF Remove, Crash
<1>2. up' \in BOOLEAN /\ wanted' \in BOOLEAN /\ due' \in BOOLEAN
  BY DEF Remove, Crash
<1>3. Typed'
  BY <1>1, <1>2 DEF PInv, Typed, TypeOK
<1>4. NotAhead' /\ EndedHeld' /\ Shown' /\ SavedUnlessDue'
  BY <1>1 DEF NotAhead, EndedHeld, Shown, SavedUnlessDue
<1> QED BY <1>3, <1>4 DEF PInv

LEMMA PInvHolds == ASSUME PremiumAssumption PROVE Spec => []PInv
<1>1. Init => PInv
  BY InitHolds
<1>2. PInv /\ [Next]_vars => PInv'
  <2>1. ASSUME PInv, Next PROVE PInv'
    BY <2>1, TickKeeps, PollKeeps, BaseKeeps, BeginKeeps, EndKeeps, SaveKeeps, AddKeeps, LeaveKeeps
       DEF Next
  <2>2. ASSUME PInv, UNCHANGED vars PROVE PInv'
    BY <2>2 DEF vars, PInv, Typed, TypeOK, NotAhead, EndedHeld, Shown, SavedUnlessDue
  <2> QED BY <2>1, <2>2
<1> QED BY <1>1, <1>2, PTL DEF Spec

-----------------------------------------------------------------------------
(* What they add up to *)

\* The sensor's samples and storage hold ends of intervals, and only an added sensor
\* has a refresh that warms.
THEOREM SamplesAreTyped == ASSUME PremiumAssumption PROVE Spec => []TypeOK
<1>1. PInv => TypeOK
  BY DEF PInv, Typed
<1> QED BY <1>1, PInvHolds, PTL

\* Whatever overlaps, what the sensor shows once its refreshes are over is of this
\* moment: of recent prices that have ended, for half hours of today's window.
THEOREM ShownIsOfTheMoment == ASSUME PremiumAssumption PROVE Spec => []PremiumIsOfTheMoment
<1>1. ASSUME PInv PROVE PremiumIsOfTheMoment
  <2>1. SUFFICES ASSUME AtRest PROVE PremiumIsOfTheMoment
    BY DEF PremiumIsOfTheMoment
  <2>2. PICK rows \in RowsOf, fresh \in BOOLEAN :
          (InWindow(tick) \/ rows = {}) /\ premium = BuildPremium(tick, samples, rows, fresh)
    BY <1>1, <2>1 DEF AtRest, PInv, Shown
  <2>3. tick \in Nat /\ samples \subseteq Ends /\ \A e \in samples : e <= tick
    BY <1>1 DEF PInv, Typed, TypeOK, NotAhead
  <2>4. \A e \in Recent(samples, tick) : e \in samples /\ tick - Window < e
    BY DEF Recent
  <2>5. PICK shown : shown = premium.forecast
    OBVIOUS
  <2>6. OfTheMoment(shown, samples, tick)
    BY <2>2, <2>3, <2>5, BuiltIsOfTheMoment
  <2> QED BY <2>3, <2>4, <2>5, <2>6 DEF OfTheMoment, PremiumIsOfTheMoment
<1> QED BY <1>1, PInvHolds, PTL

\* A price held at its interval's end is sampled before the poll that replaces it, and
\* kept for the window, unless a warm held the lock over a tick.
THEOREM HeldPricesAreSampled == ASSUME PremiumAssumption PROVE Spec => []EndedIsSampled
<1>1. ASSUME PInv PROVE EndedIsSampled
  <2>1. tick \in Nat /\ \A e \in Ends : e \in Nat
    BY <1>1, EndsAreEnds DEF PInv, Typed, TypeOK
  <2> QED BY <1>1, <2>1 DEF PInv, EndedHeld, EndedIsSampled, Typed, TypeOK
<1> QED BY <1>1, PInvHolds, PTL

\* Home Assistant killed with no save pending loses no price still counted.
THEOREM CrashForgetsOnlyTheUnsaved == ASSUME PremiumAssumption PROVE Spec => []SavedUnlessDue
<1>1. PInv => SavedUnlessDue
  BY DEF PInv
<1> QED BY <1>1, PInvHolds, PTL
=============================================================================
