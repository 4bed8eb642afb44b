----------------------------- MODULE MCServing -----------------------------
(* The fit of one bucket and what is served of it, on enumerated inputs: a *)
(* behaviour builds the rows of a fit or chooses what is served of what.   *)
EXTENDS Integers, Sequences, SequencesExt, FiniteSets, FiniteSetsExt, TLC

CONSTANTS
  None,
  Unit, FullDays, RawLow, RawHigh,           \* of IsotonicFit
  MinHorizon, MaxHorizon, MinStage2,         \* of ServedPrice
  Depth                                      \* how far below zero its Floor is
VARIABLE probe

\* A rule is asked about an input.
Ask(rule, input) == probe' = [rule |-> rule, in |-> input]
Start == probe.rule = "none"

-----------------------------------------------------------------------------
(* IsotonicFit: rows are added one by one, or in pairs on two days.         *)

Fits == INSTANCE IsotonicFit

Row(x, y, d) == [x |-> x, y |-> y, w |-> d, day |-> d, p50 |-> Unit * x]
Thin == {<<Row(x, y, d)>> : x \in {-1, 1, 2}, y \in 0..2, d \in 1..2}
Settled == {<<Row(x, y, 1), Row(x, y, 2)>> : x \in {-1, 1, 2}, y \in 0..2}

FitRows ==
  /\ \/ Start /\ \E s \in Thin \union Settled : Ask("fit", s)
     \/ probe.rule = "fit" /\ Len(probe.in) < 3 /\
        \E s \in Thin \union Settled : Ask("fit", probe.in \o s)

\* PoolingIsBest of IsotonicFit: no monotone fit has a smaller loss.
FitIsSound == probe.rule = "fit" => Fits!PoolingIsBest(probe.in)

-----------------------------------------------------------------------------
(* ServedPrice *)

Floor == -Depth
Serving == INSTANCE ServedPrice
ASSUME ServingRulesAssumption == Serving!ServingAssumption

Rows(s) == [i \in DOMAIN s |-> Row(s[i][1], s[i][2], s[i][3])]
Maps == {Fits!Fit(Rows(s)) :
  s \in {<< <<-1, 0, 1>>, <<1, 1, 2>> >>, << <<-1, -3, 1>>, <<-1, -3, 2>>, <<2, 2, 1>> >>,
         << <<0, -1, 1>>, <<1, 2, 1>>, <<1, 2, 2>> >>}}
Bands == {<<None, None, None>>, <<<<1, -Unit>>, <<1, 0>>, <<1, Unit>>>>,
          <<<<0, Unit>>, <<0, 0>>, <<1, 0>>>>, <<<<2, 0>>, None, <<0, 0>>>>,
          <<None, <<0, Unit>>, <<1, -Unit>>>>, <<<<1, -3 * Unit>>, <<0, 0>>, None>>}
Buckets == {[iso |-> m, lines |-> b] : m \in Maps, b \in Bands}
Resid(a, b, c, n) == [q10 |-> a * Unit, q50 |-> b * Unit, q90 |-> c * Unit, n |-> n]
Resids == {None, Resid(-1, 0, 1, 2), Resid(-1, 0, 1, 1), Resid(0, 0, 2, 2), Resid(1, 1, 2, 2)}
Coefs == {<<>>, <<0, 1, 0, 0>>, <<Unit, 1, 0, -1>>, <<-Unit, 2, 1, 0>>, <<0, 0, 0, 2>>}
Ranges == {<<<<>>, <<>>>>, <<<<-Unit, 0, 0>>, <<Unit, Unit, Unit>>>>, <<<<0>>, <<Unit>>>>}
Models == {[coef |-> c, min |-> r[1], max |-> r[2], resid |-> q] :
             c \in Coefs, r \in Ranges, q \in Resids}
Served(x) == {[x |-> x, horizon |-> 24, run |-> r, stpasa |-> s] :
                r \in {0, Unit}, s \in {0, 3 * Unit}}
             \union {[x |-> x, horizon |-> 24, run |-> 0, stpasa |-> None],
                     [x |-> x, horizon |-> 24, run |-> None, stpasa |-> 0],
                     [x |-> x, horizon |-> 21, run |-> 0, stpasa |-> 0]}

Serve ==
  /\ Start
  /\ \E b \in Buckets \union {Serving!Restored(b) : b \in Buckets},
        o \in Models, x \in {-2, -1, 0, 2} :
       \E v \in Served(x) : Ask("serve", [bucket |-> b, ols |-> o, v |-> v])

\* ServedIsMonotone of IsotonicFit, BandHolds and Stage2IsHeld of ServedPrice: what is
\* served never falls as the forecast rises, and whatever stage 2 adds, the price is
\* inside its own band and no further from stage 1 than the trained regime allows.
ServingIsBounded ==
  /\ probe.rule = "fit" => Fits!ServedIsMonotone(probe.in, -2..3)
  /\ probe.rule = "serve" => /\ Serving!BandHolds(probe.in.bucket, probe.in.ols, probe.in.v)
                             /\ Serving!Stage2IsHeld(probe.in.bucket, probe.in.ols, probe.in.v)

-----------------------------------------------------------------------------
ServingInit == probe = [rule |-> "none", in |-> <<>>]
ServingSpec == ServingInit /\ [][FitRows \/ Serve]_probe
=============================================================================
