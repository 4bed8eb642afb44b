---------------------------- MODULE Prices_proofs ----------------------------
(* The price timeline, its seam to Amber's forecast and the tariffs: each    *)
(* interval is priced once, from the finest source that has it, and nothing  *)
(* is lost or doubled at the seam; the tariffs offered survive the releases  *)
(* of the library, and their prices add up, for any constants of the rules.  *)
EXTENDS MCPrices, Serving_proofs

-----------------------------------------------------------------------------
(* The timeline: numbers *)

Of(k, d) == k * d
Multiple(x, d) == \E k \in Int : x = Of(k, d)

\* What the proofs use of the constants of PriceTimeline.
LEMMA TimelineConstants ==
  /\ None \notin Int /\ Interval \in Nat \ {0} /\ Period \in Nat \ {0}
  /\ Period % Interval = 0 /\ Multiple(Period, Interval)
  /\ P5Intervals \in Nat /\ PdPeriods \in Nat /\ CalibratedPeriods \in Nat
  /\ P5MaxAge \in Nat /\ PdMaxAge \in Nat
<1>1. /\ None \notin Int /\ Interval \in Nat \ {0} /\ Period \in Nat \ {0}
      /\ Period % Interval = 0
      /\ P5Intervals \in Nat /\ PdPeriods \in Nat /\ CalibratedPeriods \in Nat
      /\ P5MaxAge \in Nat /\ PdMaxAge \in Nat
  BY TimelineRulesAssumption DEF Clock!TimelineAssumption
<1>2. PICK q \in Int : q = Period \div Interval
  BY <1>1, FloorIs
<1>3. Period = q * Interval
  BY <1>1, <1>2
<1>4. Multiple(Period, Interval)
  BY <1>2, <1>3 DEF Multiple, Of
<1> QED BY <1>1, <1>4

\* Rounded down and up.
LEMMA FloorOf ==
  ASSUME NEW d \in Nat \ {0}, NEW a \in Int
  PROVE  /\ (a \div d) * d \in Int /\ (a \div d) * d <= a /\ a < (a \div d) * d + d
         /\ Multiple((a \div d) * d, d)
<1>1. PICK q \in Int : q = a \div d
  BY FloorIs
<1>2. d * q <= a /\ a < d * q + d
  BY <1>1, FloorIs
<1>3. q * d \in Int /\ q * d = d * q
  OBVIOUS
<1>4. Multiple(q * d, d)
  BY DEF Multiple, Of
<1> QED BY <1>1, <1>2, <1>3, <1>4

\* The end of the slot an instant is in.
LEMMA EndOfIs ==
  ASSUME NEW d \in Nat \ {0}, NEW a \in Int
  PROVE  /\ Clock!EndOf(a, d) \in Int /\ a <= Clock!EndOf(a, d) /\ Clock!EndOf(a, d) < a + d
         /\ Multiple(Clock!EndOf(a, d), d)
<1>1. PICK b \in Int : b = a + d - 1
  OBVIOUS
<1>2. Clock!EndOf(a, d) = (b \div d) * d
  BY <1>1 DEF Clock!EndOf
<1>3. PICK e \in Int : e = (b \div d) * d /\ e <= b /\ b < e + d /\ Multiple(e, d)
  BY FloorOf
<1> QED BY <1>1, <1>2, <1>3

\* Multiples apart are one apart at least.
LEMMA Apart ==
  ASSUME NEW d \in Nat \ {0}, NEW j \in Int, NEW k \in Int, Of(j, d) < Of(k, d)
  PROVE  Of(j, d) + d <= Of(k, d)
<1>0. j * d \in Int /\ k * d \in Int /\ j * d < k * d
  BY DEF Of
<1>1. j < k
  <2> SUFFICES ASSUME k <= j PROVE FALSE
    OBVIOUS
  <2>1. k * d <= j * d
    BY TimesGrows
  <2> QED BY <1>0, <2>1
<1>2. (j + 1) * d <= k * d
  BY <1>1, TimesGrows
<1>3. (j + 1) * d = j * d + d
  OBVIOUS
<1> QED BY <1>2, <1>3 DEF Of

\* Two ends on a grid are a slot apart at least.
LEMMA MultiplesApart ==
  ASSUME NEW d \in Nat \ {0}, NEW a \in Int, NEW b \in Int, Multiple(a, d), Multiple(b, d), a < b
  PROVE  a + d <= b
<1>1. PICK j \in Int : a = Of(j, d)
  BY DEF Multiple
<1>2. PICK k \in Int : b = Of(k, d)
  BY DEF Multiple
<1> QED BY <1>1, <1>2, Apart

LEMMA MultiplesAdd ==
  ASSUME NEW d \in Nat \ {0}, NEW a \in Int, Multiple(a, d), NEW n \in Int
  PROVE  Multiple(a + n * d, d) /\ a + n * d \in Int
<1>1. PICK j \in Int : a = j * d
  BY DEF Multiple, Of
<1>2. a + n * d = (j + n) * d
  BY <1>1
<1>3. j + n \in Int /\ n * d \in Int
  OBVIOUS
<1> QED BY <1>2, <1>3 DEF Multiple, Of

LEMMA NextMultiple ==
  ASSUME NEW d \in Nat \ {0}, NEW a \in Int, Multiple(a, d)
  PROVE  Multiple(a + d, d)
<1>1. PICK j \in Int : a = j * d
  BY DEF Multiple, Of
<1>2. a + d = (j + 1) * d
  BY <1>1
<1> QED BY <1>2 DEF Multiple, Of

\* A grid of half hours is one of intervals.
LEMMA MultiplesOf ==
  ASSUME NEW c \in Nat \ {0}, NEW d \in Nat \ {0}, Multiple(c, d), NEW a \in Int, Multiple(a, c)
  PROVE  Multiple(a, d)
<1>1. PICK j \in Int : a = j * c
  BY DEF Multiple, Of
<1>2. PICK k \in Int : c = k * d
  BY DEF Multiple, Of
<1>3. a = (j * k) * d /\ j * k \in Int
  BY <1>1, <1>2
<1> QED BY <1>3 DEF Multiple, Of

\* The half hour t is in.
HalfOf(t) == (t \div Period) * Period

\* The half hour an instant is in.
LEMMA HalfOfIs ==
  ASSUME NEW t \in Int
  PROVE  HalfOf(t) \in Int /\ HalfOf(t) <= t /\ t < HalfOf(t) + Period /\ Multiple(HalfOf(t), Period)
BY FloorOf, TimelineConstants DEF HalfOf

\* There is one such half hour.
LEMMA HalfIsThat ==
  ASSUME NEW t \in Int, NEW h \in Int, Multiple(h, Period), h <= t, t < h + Period
  PROVE  HalfOf(t) = h
<1>0. Period \in Nat \ {0}
  BY TimelineConstants
<1>1. PICK g \in Int : g = HalfOf(t) /\ g <= t /\ t < g + Period /\ Multiple(g, Period)
  BY HalfOfIs
<1>2. ~(g < h)
  <2> SUFFICES ASSUME g < h PROVE FALSE
    OBVIOUS
  <2>1. g + Period <= h
    BY <1>0, <1>1, MultiplesApart
  <2> QED BY <1>0, <1>1, <2>1
<1>3. ~(h < g)
  <2> SUFFICES ASSUME h < g PROVE FALSE
    OBVIOUS
  <2>1. h + Period <= g
    BY <1>0, <1>1, MultiplesApart
  <2> QED BY <1>0, <1>1, <2>1
<1> QED BY <1>1, <1>2, <1>3

\* An interval of a length that ends at end is inside a half hour.
FitsAt(end, length) == \A t \in Int : end - length <= t /\ t < end => end <= HalfOf(t) + Period

LEMMA IntervalFits ==
  ASSUME NEW end \in Int, Multiple(end, Interval)
  PROVE  FitsAt(end, Interval)
<1>0. Period \in Nat \ {0} /\ Interval \in Nat \ {0} /\ Multiple(Period, Interval)
  BY TimelineConstants
<1> SUFFICES ASSUME NEW t \in Int, end - Interval <= t, t < end PROVE end <= HalfOf(t) + Period
  BY DEF FitsAt
<1>1. PICK h \in Int : h = HalfOf(t) /\ h <= t /\ t < h + Period /\ Multiple(h, Period)
  BY HalfOfIs
<1>2. PICK n \in Int : n = h + Period /\ Multiple(n, Period)
  <2>1. Multiple(h + Period, Period) /\ h + Period \in Int
    BY <1>0, <1>1, NextMultiple
  <2> QED BY <2>1
<1>3. Multiple(n, Interval)
  BY <1>0, <1>2, MultiplesOf
<1>4. ~(n < end)
  <2> SUFFICES ASSUME n < end PROVE FALSE
    OBVIOUS
  <2>1. n + Interval <= end
    BY <1>0, <1>2, <1>3, MultiplesApart
  <2> QED BY <1>0, <1>1, <1>2, <2>1
<1> QED BY <1>1, <1>2, <1>4

LEMMA PeriodFits ==
  ASSUME NEW end \in Int, Multiple(end, Period)
  PROVE  FitsAt(end, Period)
<1>0. Period \in Nat \ {0}
  BY TimelineConstants
<1> SUFFICES ASSUME NEW t \in Int, end - Period <= t, t < end PROVE end <= HalfOf(t) + Period
  BY DEF FitsAt
<1>1. PICK h \in Int : h = HalfOf(t) /\ h <= t /\ t < h + Period /\ Multiple(h, Period)
  BY HalfOfIs
<1>2. ~(h + Period < end)
  <2> SUFFICES ASSUME h + Period < end PROVE FALSE
    OBVIOUS
  <2>2. Multiple(h + Period, Period) /\ h + Period \in Int
    BY <1>0, <1>1, NextMultiple
  <2>3. h + Period + Period <= end
    BY <1>0, <2>2, MultiplesApart
  <2> QED BY <1>0, <1>1, <2>3
<1> QED BY <1>0, <1>1, <1>2

-----------------------------------------------------------------------------
(* The timeline: building *)

Sources == {"dispatch", "p5", "pd", "pd7day"}
PointSet == [start : Int, end : Int, source : Sources, run : Int, of : Int]
RankOf(source) == Clock!Rank[source]
Inside(p) == p.start < p.end /\ p.end <= HalfOf(p.start) + Period

\* Each point starts where the one before it ends, the first at t or before.
Chained(points, t) ==
  /\ points \in Seq(PointSet)
  /\ \A i \in 1..Len(points) : Inside(points[i])
  /\ \A i \in 1..(Len(points) - 1) : points[i].end = points[i + 1].start
  /\ points # <<>> => /\ points[1].start <= t /\ t < points[1].end
                      /\ t < points[Len(points)].end

\* No point is of a source after the r-th.
AtMost(points, r) == \A i \in 1..Len(points) : RankOf(points[i].source) <= r

\* Before c there are only points of the first r sources.
Reaches(points, t, r, c) ==
  c > t => /\ points # <<>> /\ c <= points[Len(points)].end
           /\ \A i \in 1..Len(points) : RankOf(points[i].source) > r => c <= points[i].start

LEMMA PointIs ==
  ASSUME NEW p \in PointSet
  PROVE  p.start \in Int /\ p.end \in Int /\ p.source \in Sources /\ p.run \in Int /\ p.of \in Int
BY DEF PointSet

LEMMA RankIs ==
  /\ RankOf("dispatch") = 1 /\ RankOf("p5") = 2 /\ RankOf("pd") = 3 /\ RankOf("pd7day") = 4
  /\ \A s \in Sources : RankOf(s) \in 1..4
BY DEF RankOf, Sources, Clock!Rank

LEMMA MaxOfTwo ==
  ASSUME NEW a \in Int, NEW b \in Int
  PROVE  Clock!Max({a, b}) = (IF a <= b THEN b ELSE a) /\ Clock!Min({a, b}) = (IF a <= b THEN a ELSE b)
<1>1. CASE a <= b
  <2>1. Clock!Max({a, b}) = b
    BY <1>1 DEF Clock!Max
  <2>2. Clock!Min({a, b}) = a
    BY <1>1 DEF Clock!Min
  <2> QED BY <1>1, <2>1, <2>2
<1>2. CASE ~(a <= b)
  <2>1. Clock!Max({a, b}) = a
    BY <1>2 DEF Clock!Max
  <2>2. Clock!Min({a, b}) = b
    BY <1>2 DEF Clock!Min
  <2> QED BY <1>2, <2>1, <2>2
<1> QED BY <1>1, <1>2

\* The cursor is where the points end, never before now.
LEMMA CursorIs ==
  ASSUME NEW points, NEW t \in Int, Chained(points, t)
  PROVE  /\ Clock!Cursor(points, t) \in Int /\ t <= Clock!Cursor(points, t)
         /\ points # <<>> => t < Clock!Cursor(points, t) /\ Clock!Cursor(points, t) = points[Len(points)].end
         /\ points = <<>> => Clock!Cursor(points, t) = t
<1>1. points \in Seq(PointSet)
  BY DEF Chained
<1>2. CASE points = <<>>
  BY <1>2 DEF Clock!Cursor
<1>3. CASE points # <<>>
  <2>1. points[Len(points)] \in PointSet
    BY <1>1, <1>3
  <2>2. points[Len(points)].end \in Int
    BY <2>1, PointIs
  <2> QED BY <1>3, <2>2 DEF Clock!Cursor, Chained
<1> QED BY <1>2, <1>3

\* A point added.
LEMMA AddPointIs ==
  ASSUME NEW points, NEW t \in Int, Chained(points, t), NEW end \in Int, NEW length \in Nat \ {0},
         NEW source \in Sources, NEW run \in Int, FitsAt(end, length),
         end - length <= Clock!Cursor(points, t)
  PROVE  \/ end <= Clock!Cursor(points, t) /\ Clock!AddPoint(points, t, end, length, source, run) = points
         \/ /\ Clock!Cursor(points, t) < end
            /\ \E p \in PointSet :
                 /\ Clock!AddPoint(points, t, end, length, source, run) = Append(points, p)
                 /\ p.end = end /\ p.source = source /\ Inside(p)
                 /\ IF points = <<>> THEN p.start <= t ELSE p.start = points[Len(points)].end
<1>1. PICK c \in Int : c = Clock!Cursor(points, t)
  BY CursorIs
<1>2. t <= c /\ (points # <<>> => c = points[Len(points)].end) /\ (points = <<>> => c = t)
  BY <1>1, CursorIs
<1>3. CASE end <= c
  BY <1>1, <1>3 DEF Clock!AddPoint
<1>4. CASE ~(end <= c)
  <2>1. PICK start \in Int : start = IF points = <<>> THEN end - length ELSE c
    BY <1>1
  <2>2. PICK p : p = [start |-> start, end |-> end, source |-> source, run |-> run, of |-> end]
    OBVIOUS
  <2>3. p \in PointSet
    BY <2>2 DEF PointSet
  <2>4. points # <<>> => start = Clock!Max({end - length, c})
    <3>1. Clock!Max({end - length, c}) = c
      BY <1>1, MaxOfTwo
    <3> QED BY <2>1, <3>1
  <2>5. Clock!AddPoint(points, t, end, length, source, run) = Append(points, p)
    <3>1. ~(end <= t) /\ ~(end <= Clock!Cursor(points, t))
      BY <1>1, <1>2, <1>4
    <3>2. start = IF points = <<>> THEN end - length ELSE Clock!Max({end - length, Clock!Cursor(points, t)})
      BY <1>1, <2>1, <2>4
    <3> QED BY <2>2, <3>1, <3>2 DEF Clock!AddPoint
  <2>6. p.start = start /\ p.end = end /\ p.source = source
    BY <2>2
  <2>7. end - length <= start /\ start < end /\ (points = <<>> => start <= t)
    BY <1>1, <1>2, <1>4, <2>1
  <2>8. Inside(p)
    BY <2>6, <2>7 DEF Inside, FitsAt
  <2>9. IF points = <<>> THEN p.start <= t ELSE p.start = points[Len(points)].end
    BY <1>2, <2>1, <2>6, <2>7
  <2> QED BY <1>1, <1>4, <2>3, <2>5, <2>6, <2>8, <2>9
<1> QED BY <1>3, <1>4

LEMMA AppendedIs ==
  ASSUME NEW points \in Seq(PointSet), NEW p \in PointSet
  PROVE  /\ Append(points, p) \in Seq(PointSet) /\ Len(Append(points, p)) = Len(points) + 1
         /\ Append(points, p)[Len(points) + 1] = p /\ Append(points, p) # <<>>
         /\ \A i \in 1..Len(points) : Append(points, p)[i] = points[i]
<1>1. Append(points, p) \in Seq(PointSet) /\ Len(Append(points, p)) = Len(points) + 1
  OBVIOUS
<1>2. Append(points, p)[Len(points) + 1] = p /\ \A i \in 1..Len(points) : Append(points, p)[i] = points[i]
  BY SMTT(20)
<1> QED BY <1>1, <1>2

\* Joined on, it leaves the points chained.
LEMMA AppendChains ==
  ASSUME NEW points, NEW t \in Int, Chained(points, t), NEW p \in PointSet, Inside(p),
         Clock!Cursor(points, t) < p.end,
         IF points = <<>> THEN p.start <= t ELSE p.start = points[Len(points)].end
  PROVE  Chained(Append(points, p), t) /\ Clock!Cursor(Append(points, p), t) = p.end
<1>1. PICK q : q = Append(points, p)
  OBVIOUS
<1>2. points \in Seq(PointSet)
  BY DEF Chained
<1>3. PICK m \in Nat : m = Len(points)
  BY <1>2
<1>4. q \in Seq(PointSet) /\ Len(q) = m + 1 /\ q[m + 1] = p /\ q # <<>> /\ \A i \in 1..m : q[i] = points[i]
  BY <1>1, <1>2, <1>3, AppendedIs
<1>5. p.start \in Int /\ p.end \in Int /\ t < p.end
  <2>1. Clock!Cursor(points, t) \in Int /\ t <= Clock!Cursor(points, t)
    BY CursorIs
  <2> QED BY <2>1, PointIs
<1>6. points = <<>> \/ m # 0
  BY <1>2, <1>3
<1>7. \A i \in 1..(m + 1) : Inside(q[i])
  <2> SUFFICES ASSUME NEW i \in 1..(m + 1) PROVE Inside(q[i])
    OBVIOUS
  <2>1. CASE i = m + 1
    BY <1>4, <2>1
  <2>2. CASE i \in 1..m
    BY <1>3, <1>4, <2>2 DEF Chained
  <2> QED BY <2>1, <2>2
<1>8. \A i \in 1..m : q[i].end = q[i + 1].start
  <2> SUFFICES ASSUME NEW i \in 1..m PROVE q[i].end = q[i + 1].start
    OBVIOUS
  <2>1. CASE i = m
    <3>1. points # <<>> /\ q[i] = points[m] /\ q[i + 1] = p
      BY <1>3, <1>4, <2>1
    <3> QED BY <1>3, <3>1
  <2>2. CASE i \in 1..(m - 1)
    <3>1. i + 1 \in 1..m
      BY <2>2
    <3>2. q[i] = points[i] /\ q[i + 1] = points[i + 1]
      BY <1>4, <3>1
    <3>3. points[i].end = points[i + 1].start
      BY <1>3, <2>2 DEF Chained
    <3> QED BY <3>2, <3>3
  <2> QED BY <2>1, <2>2
<1>9. q[1].start <= t /\ t < q[1].end
  <2>1. CASE points = <<>>
    <3>1. q[1] = p
      BY <1>3, <1>4, <2>1
    <3> QED BY <1>5, <2>1, <3>1
  <2>2. CASE points # <<>>
    <3>1. q[1] = points[1]
      BY <1>3, <1>4, <1>6, <2>2
    <3> QED BY <2>2, <3>1 DEF Chained
  <2> QED BY <2>1, <2>2
<1>10. Chained(q, t)
  BY <1>4, <1>5, <1>7, <1>8, <1>9 DEF Chained
<1>11. Clock!Cursor(q, t) = p.end
  BY <1>4 DEF Clock!Cursor
<1> QED BY <1>1, <1>10, <1>11

\* What a point added keeps.
LEMMA AddPointKeeps ==
  ASSUME NEW points, NEW t \in Int, Chained(points, t), NEW end \in Int, NEW length \in Nat \ {0},
         NEW source \in Sources, NEW run \in Int, FitsAt(end, length),
         end - length <= Clock!Cursor(points, t),
         NEW after, after = Clock!AddPoint(points, t, end, length, source, run)
  PROVE  /\ Chained(after, t)
         /\ Clock!Cursor(points, t) <= Clock!Cursor(after, t) /\ end <= Clock!Cursor(after, t)
         /\ AtMost(points, RankOf(source)) => AtMost(after, RankOf(source))
         /\ \A r, c \in Int : r < RankOf(source) /\ Reaches(points, t, r, c) => Reaches(after, t, r, c)
<1>1. PICK cur \in Int : cur = Clock!Cursor(points, t)
  BY CursorIs
<1>2. CASE end <= cur /\ after = points
  BY <1>1, <1>2
<1>3. CASE cur < end /\ \E p \in PointSet :
                 /\ after = Append(points, p)
                 /\ p.end = end /\ p.source = source /\ Inside(p)
                 /\ IF points = <<>> THEN p.start <= t ELSE p.start = points[Len(points)].end
  <2>1. PICK p \in PointSet :
                 /\ after = Append(points, p)
                 /\ p.end = end /\ p.source = source /\ Inside(p)
                 /\ IF points = <<>> THEN p.start <= t ELSE p.start = points[Len(points)].end
    BY <1>3
  <2>2. Chained(after, t) /\ Clock!Cursor(after, t) = end
    BY <1>1, <1>3, <2>1, AppendChains
  <2>3. points \in Seq(PointSet)
    BY DEF Chained
  <2>4. PICK m \in Nat : m = Len(points)
    BY <2>3
  <2>5. after \in Seq(PointSet) /\ Len(after) = m + 1 /\ after[m + 1] = p /\ after # <<>> /\ \A i \in 1..m : after[i] = points[i]
    BY <2>1, <2>3, <2>4, AppendedIs
  <2>6. RankOf(source) \in Int
    BY RankIs
  <2>7. AtMost(points, RankOf(source)) => AtMost(after, RankOf(source))
    <3> SUFFICES ASSUME AtMost(points, RankOf(source)), NEW i \in 1..(m + 1) PROVE RankOf(after[i].source) <= RankOf(source)
      BY <2>5 DEF AtMost
    <3>1. CASE i = m + 1
      BY <2>1, <2>5, <2>6, <3>1
    <3>2. CASE i \in 1..m
      BY <2>4, <2>5, <3>2 DEF AtMost
    <3> QED BY <3>1, <3>2
  <2>8. ASSUME NEW r \in Int, NEW c \in Int, r < RankOf(source), Reaches(points, t, r, c) PROVE Reaches(after, t, r, c)
    <3> SUFFICES ASSUME c > t
                 PROVE  c <= after[m + 1].end /\ \A i \in 1..(m + 1) : RankOf(after[i].source) > r => c <= after[i].start
      BY <2>5 DEF Reaches
    <3>1. points # <<>> /\ c <= points[m].end /\ \A i \in 1..m : RankOf(points[i].source) > r => c <= points[i].start
      BY <2>4, <2>8 DEF Reaches
    <3>2. points[m].end = cur /\ p.start = cur
      BY <1>1, <2>1, <2>4, <3>1, CursorIs
    <3>3. c <= after[m + 1].end
      BY <1>3, <2>1, <2>5, <3>1, <3>2
    <3>4. ASSUME NEW i \in 1..(m + 1), RankOf(after[i].source) > r PROVE c <= after[i].start
      <4>1. CASE i = m + 1
        BY <2>5, <3>1, <3>2, <4>1
      <4>2. CASE i \in 1..m
        BY <2>5, <3>1, <3>4, <4>2
      <4> QED BY <4>1, <4>2
    <3> QED BY <3>3, <3>4
  <2>9. cur <= Clock!Cursor(after, t) /\ end <= Clock!Cursor(after, t)
    BY <1>3, <2>2
  <2> QED BY <1>1, <2>2, <2>7, <2>8, <2>9
<1>4. \/ end <= cur /\ after = points
      \/ /\ cur < end
         /\ \E p \in PointSet :
                 /\ after = Append(points, p)
                 /\ p.end = end /\ p.source = source /\ Inside(p)
                 /\ IF points = <<>> THEN p.start <= t ELSE p.start = points[Len(points)].end
  BY <1>1, AddPointIs
<1> QED BY <1>2, <1>3, <1>4

\* A point is added as one of the builder's, or not at all.
LEMMA AddPointTyped ==
  ASSUME NEW points \in Seq(PointSet), NEW t \in Int, NEW end \in Int, NEW length \in Nat \ {0},
         NEW source \in Sources, NEW run \in Int
  PROVE  Clock!AddPoint(points, t, end, length, source, run) \in Seq(PointSet)
<1>1. PICK c \in Int : c = Clock!Cursor(points, t)
  <2>1. CASE points = <<>>
    BY <2>1 DEF Clock!Cursor
  <2>2. CASE points # <<>>
    <3>1. points[Len(points)] \in PointSet
      BY <2>2
    <3>2. points[Len(points)].end \in Int
      BY <3>1, PointIs
    <3> QED BY <2>2, <3>2 DEF Clock!Cursor
  <2> QED BY <2>1, <2>2
<1>2. PICK start \in Int : start = IF points = <<>> THEN end - length ELSE Clock!Max({end - length, c})
  <2>1. Clock!Max({end - length, c}) \in Int
    BY MaxOfTwo
  <2> QED BY <2>1
<1>3. PICK p : p = [start |-> start, end |-> end, source |-> source, run |-> run, of |-> end]
  OBVIOUS
<1>4. p \in PointSet
  BY <1>3 DEF PointSet
<1>5. Append(points, p) \in Seq(PointSet)
  BY <1>4
<1>6. Clock!AddPoint(points, t, end, length, source, run) \in {points, Append(points, p)}
  BY <1>1, <1>2, <1>3 DEF Clock!AddPoint
<1> QED BY <1>5, <1>6

IsSeries(f, points, t, ends, length, source, run) ==
  f = [n \in 0..Len(ends) |->
         IF n = 0 THEN points ELSE Clock!AddPoint(f[n - 1], t, ends[n], length, source, run)]

\* The loop of add_series, over the ends it is given.
LEMMA SeriesLoop ==
  ASSUME NEW points \in Seq(PointSet), NEW t \in Int, NEW ends \in Seq(Int), NEW length \in Nat \ {0},
         NEW source \in Sources, NEW run \in Int
  PROVE  \E f : /\ IsSeries(f, points, t, ends, length, source, run)
                /\ Clock!AddSeries(points, t, ends, length, source, run) = f[Len(ends)]
<1>1. PICK m \in Nat : m = Len(ends)
  OBVIOUS
<1>2. PICK step : step = [n \in 1..m |-> [b \in Seq(PointSet) |-> Clock!AddPoint(b, t, ends[n], length, source, run)]]
  OBVIOUS
<1>3. ASSUME NEW n \in 1..m, NEW b \in Seq(PointSet) PROVE step[n][b] \in Seq(PointSet)
  <2>1. ends[n] \in Int
    BY <1>1
  <2>2. Clock!AddPoint(b, t, ends[n], length, source, run) \in Seq(PointSet)
    BY <2>1, AddPointTyped
  <2> QED BY <1>2, <2>2
<1>4. PICK f : f = [n \in 0..m |-> IF n = 0 THEN points ELSE step[n][f[n - 1]]] /\ \A n \in 0..m : f[n] \in Seq(PointSet)
  <2>1. \E f : IsRec(f, m, points, step) /\ \A n \in 0..m : f[n] \in Seq(PointSet)
    BY <1>3, Loop
  <2> QED BY <2>1 DEF IsRec
<1>5. ASSUME NEW n \in 1..m PROVE step[n][f[n - 1]] = Clock!AddPoint(f[n - 1], t, ends[n], length, source, run)
  <2>1. f[n - 1] \in Seq(PointSet)
    BY <1>4
  <2> QED BY <1>2, <2>1
<1>6. IsSeries(f, points, t, ends, length, source, run)
  <2>1. ASSUME NEW n \in 0..m
        PROVE  (IF n = 0 THEN points ELSE step[n][f[n - 1]])
                 = (IF n = 0 THEN points ELSE Clock!AddPoint(f[n - 1], t, ends[n], length, source, run))
    <3>1. n # 0 => n \in 1..m
      OBVIOUS
    <3> QED BY <1>5, <3>1
  <2>2. f = [n \in 0..m |-> IF n = 0 THEN points ELSE Clock!AddPoint(f[n - 1], t, ends[n], length, source, run)]
    BY <1>4, <2>1, Zenon
  <2> QED BY <1>1, <2>2 DEF IsSeries
<1>7. PICK g : g = CHOOSE h : IsSeries(h, points, t, ends, length, source, run)
  OBVIOUS
<1>8. IsSeries(g, points, t, ends, length, source, run)
  BY <1>6, <1>7, Zenon
<1>9. Clock!AddSeries(points, t, ends, length, source, run) = g[Len(ends)]
  BY <1>7, Zenon DEF Clock!AddSeries, IsSeries
<1> QED BY <1>8, <1>9

\* Ends a length apart, of a series that has begun at t.
Steady(ends, length, t) ==
  /\ ends \in Seq(Int)
  /\ \A i \in 1..Len(ends) : FitsAt(ends[i], length)
  /\ \A i \in 1..(Len(ends) - 1) : ends[i + 1] - length = ends[i]
  /\ ends # <<>> => ends[1] - length <= t

\* A series added.
LEMMA AddSeriesIs ==
  ASSUME NEW points, NEW t \in Int, Chained(points, t), NEW ends, NEW length \in Nat \ {0},
         NEW source \in Sources, NEW run \in Int, Steady(ends, length, t),
         AtMost(points, RankOf(source)), NEW last \in Int,
         IF ends = <<>> THEN last <= t ELSE last = ends[Len(ends)],
         NEW after, after = Clock!AddSeries(points, t, ends, length, source, run)
  PROVE  /\ Chained(after, t) /\ AtMost(after, RankOf(source)) /\ Reaches(after, t, RankOf(source), last)
         /\ \A r, c \in Int : r < RankOf(source) /\ Reaches(points, t, r, c) => Reaches(after, t, r, c)
<1>1. points \in Seq(PointSet) /\ ends \in Seq(Int)
  BY DEF Chained, Steady
<1>2. PICK m \in Nat : m = Len(ends)
  BY <1>1
<1>3. PICK f : IsSeries(f, points, t, ends, length, source, run) /\ after = f[Len(ends)]
  BY <1>1, SeriesLoop
<1>4. f[0] = points /\ \A n \in 1..m : f[n] = Clock!AddPoint(f[n - 1], t, ends[n], length, source, run)
  BY <1>2, <1>3 DEF IsSeries
<1>5. PICK rank \in Int : rank = RankOf(source)
  BY RankIs
<1> DEFINE Kept(b) == \A r, c \in Int : r < rank /\ Reaches(points, t, r, c) => Reaches(b, t, r, c)
           Q == {n \in 0..m : /\ Chained(f[n], t) /\ AtMost(f[n], rank) /\ Kept(f[n])
                              /\ n # 0 => ends[n] <= Clock!Cursor(f[n], t)}
<1>6. 0 \in Q
  BY <1>4, <1>5
<1>7. ASSUME NEW n \in (0 + 1)..m, n - 1 \in Q PROVE n \in Q
  <2>1. n \in 1..m /\ n \in 0..m
    OBVIOUS
  <2>2. Chained(f[n - 1], t) /\ AtMost(f[n - 1], rank) /\ Kept(f[n - 1])
        /\ (n - 1 # 0 => ends[n - 1] <= Clock!Cursor(f[n - 1], t))
    BY <1>7
  <2>3. ends[n] \in Int /\ FitsAt(ends[n], length)
    BY <1>1, <1>2, <2>1 DEF Steady
  <2>4. ends[n] - length <= Clock!Cursor(f[n - 1], t)
    <3>1. Clock!Cursor(f[n - 1], t) \in Int /\ t <= Clock!Cursor(f[n - 1], t)
      BY <2>2, CursorIs
    <3>2. CASE n = 1
      <4>1. ends[n] - length <= t
        BY <1>1, <1>2, <3>2 DEF Steady
      <4> QED BY <2>3, <3>1, <4>1
    <3>3. CASE n # 1
      <4>1. n - 1 \in 1..(Len(ends) - 1) /\ (n - 1) + 1 = n
        BY <1>2, <2>1, <3>3
      <4>2. ends[n] - length = ends[n - 1]
        BY <4>1 DEF Steady
      <4> QED BY <2>1, <2>2, <3>3, <4>2
    <3> QED BY <3>2, <3>3
  <2>5. f[n] = Clock!AddPoint(f[n - 1], t, ends[n], length, source, run)
    BY <1>4, <2>1
  <2>6. /\ Chained(f[n], t) /\ ends[n] <= Clock!Cursor(f[n], t)
        /\ AtMost(f[n - 1], rank) => AtMost(f[n], rank)
        /\ \A r, c \in Int : r < rank /\ Reaches(f[n - 1], t, r, c) => Reaches(f[n], t, r, c)
    BY <1>5, <2>2, <2>3, <2>4, <2>5, AddPointKeeps
  <2>7. Kept(f[n])
    BY <2>2, <2>6
  <2> QED BY <2>1, <2>2, <2>6, <2>7
<1> HIDE DEF Q
<1>8. m \in Q
  <2>1. \A n \in 0..m : n \in Q
    BY <1>6, <1>7, UpTo
  <2> QED BY <2>1
<1>9. Chained(after, t) /\ AtMost(after, rank) /\ Kept(after) /\ (m # 0 => ends[m] <= Clock!Cursor(after, t))
  BY <1>2, <1>3, <1>8 DEF Q
<1>10. Reaches(after, t, rank, last)
  <2> SUFFICES ASSUME last > t
               PROVE  /\ after # <<>> /\ last <= after[Len(after)].end
                      /\ \A i \in 1..Len(after) : RankOf(after[i].source) > rank => last <= after[i].start
    BY DEF Reaches
  <2>1. m # 0 /\ last = ends[m]
    BY <1>1, <1>2
  <2>2. last <= Clock!Cursor(after, t)
    BY <1>9, <2>1
  <2>3. after # <<>> /\ last <= after[Len(after)].end
    BY <1>9, <2>2, CursorIs
  <2>4. ASSUME NEW i \in 1..Len(after) PROVE ~(RankOf(after[i].source) > rank)
    <3>1. RankOf(after[i].source) <= rank
      BY <1>9 DEF AtMost
    <3>2. RankOf(after[i].source) \in Int
      <4>1. after[i] \in PointSet
        BY <1>9 DEF Chained
      <4> QED BY <4>1, PointIs, RankIs
    <3> QED BY <1>5, <3>1, <3>2
  <2> QED BY <2>3, <2>4
<1> QED BY <1>5, <1>9, <1>10

\* A series given by its first end.
Ends(first, m, length) == [i \in 1..m |-> first + (i - 1) * length]
LastOf(first, m, length) == first + (m - 1) * length

\* The ends of a run are evenly spaced, and one of them spans the present.
LEMMA SteadySeries ==
  ASSUME NEW m \in Nat, NEW length \in Nat \ {0}, NEW first \in Int, Multiple(first, length),
         NEW t \in Int, first - length <= t, \A e \in Int : Multiple(e, length) => FitsAt(e, length)
  PROVE  /\ Steady(Ends(first, m, length), length, t) /\ LastOf(first, m, length) \in Int
         /\ IF Ends(first, m, length) = <<>> THEN LastOf(first, m, length) <= t
            ELSE LastOf(first, m, length) = Ends(first, m, length)[Len(Ends(first, m, length))]
<1>0. PICK ends : ends = Ends(first, m, length) /\ ends = [i \in 1..m |-> first + (i - 1) * length]
  BY DEF Ends
<1>1. ASSUME NEW i \in Int PROVE first + (i - 1) * length \in Int /\ Multiple(first + (i - 1) * length, length)
  <2>1. i - 1 \in Int
    OBVIOUS
  <2> QED BY <2>1, MultiplesAdd
<1>2. ends \in Seq(Int) /\ Len(ends) = m /\ \A i \in 1..m : ends[i] = first + (i - 1) * length
  <2>1. ends \in [1..m -> Int]
    BY <1>0, <1>1
  <2>2. ends \in Seq(Int) /\ Len(ends) = m
    BY <2>1
  <2> QED BY <1>0, <2>2
<1>3. \A i \in 1..Len(ends) : FitsAt(ends[i], length)
  BY <1>1, <1>2
<1>4. ASSUME NEW i \in 1..(m - 1) PROVE ends[i + 1] - length = ends[i]
  <2>1. i \in 1..m /\ i + 1 \in 1..m
    OBVIOUS
  <2>2. ends[i + 1] = first + ((i + 1) - 1) * length /\ ends[i] = first + (i - 1) * length
    BY <1>2, <2>1
  <2>3. ((i + 1) - 1) * length = (i - 1) * length + length
    OBVIOUS
  <2>4. (i - 1) * length \in Int
    OBVIOUS
  <2> QED BY <2>2, <2>3, <2>4
<1>5. m # 0 => ends[1] - length <= t
  <2>1. (1 - 1) * length = 0
    OBVIOUS
  <2> QED BY <1>2, <2>1
<1>6. Steady(ends, length, t)
  BY <1>2, <1>3, <1>4, <1>5 DEF Steady
<1>7. m = 0 => first + (m - 1) * length <= t
  <2>1. (0 - 1) * length = -length
    OBVIOUS
  <2> QED BY <2>1
<1>8. ends = <<>> <=> m = 0
  BY <1>2
<1>9. m # 0 => first + (m - 1) * length = ends[Len(ends)]
  BY <1>2
<1> QED BY <1>0, <1>1, <1>6, <1>7, <1>8, <1>9 DEF LastOf

-----------------------------------------------------------------------------
(* The timeline: what is built *)

\* What the prices held are: each starts on its grid, and has begun.
PricesHeld ==
  /\ now \in Nat
  /\ dispatch = None \/ (dispatch \in Int /\ Multiple(dispatch, Interval))
  /\ latest \in [p5 : Int \cup {None}, pd : Int \cup {None}]
  /\ latest.p5 # None => Multiple(latest.p5, Interval) /\ latest.p5 - Interval <= now
  /\ latest.pd # None => Clock!EndOf(latest.pd, Period) - Period <= now
  /\ calibrated = None \/ (calibrated \in Int /\ Multiple(calibrated, Period) /\ calibrated <= now)

P5Last == latest.p5 + (P5Intervals - 1) * Interval
PdLast == Clock!EndOf(latest.pd, Period) + (PdPeriods - 1) * Period
CalibratedLast == calibrated + CalibratedPeriods * Period

Stage1(points) ==
  /\ Chained(points, now) /\ AtMost(points, 1)
  /\ Clock!Dispatched(now) # <<>> => Reaches(points, now, 1, dispatch)

\* After the dispatch price: at most the interval now in.
LEMMA StageOne == ASSUME PricesHeld PROVE Stage1(Clock!Dispatched(now))
<1>0. Interval \in Nat \ {0} /\ None \notin Int /\ now \in Int
  BY TimelineConstants DEF PricesHeld
<1>1. CASE dispatch # None /\ dispatch - Interval <= now /\ now < dispatch
  <2>1. PICK d \in Int : d = dispatch /\ Multiple(d, Interval)
    BY <1>1 DEF PricesHeld
  <2>2. PICK p : p = [start |-> d - Interval, end |-> d, source |-> "dispatch", run |-> d, of |-> d]
    OBVIOUS
  <2>3. p.start = d - Interval /\ p.end = d /\ p.source = "dispatch"
    BY <2>2
  <2>4. p \in PointSet
    BY <1>0, <2>2 DEF PointSet, Sources
  <2>5. PICK q : q = Clock!Dispatched(now) /\ q = <<p>>
    BY <1>1, <2>1, <2>2 DEF Clock!Dispatched
  <2>6. q \in Seq(PointSet) /\ Len(q) = 1 /\ q[1] = p /\ q # <<>>
    BY <2>4, <2>5
  <2>7. Inside(p)
    <3>1. FitsAt(d, Interval)
      BY <2>1, IntervalFits
    <3>2. d - Interval \in Int /\ d - Interval <= d - Interval /\ d - Interval < d
      BY <1>0
    <3>3. d <= HalfOf(d - Interval) + Period
      BY <3>1, <3>2 DEF FitsAt
    <3> QED BY <2>3, <3>2, <3>3 DEF Inside
  <2>8. Chained(q, now)
    BY <1>0, <1>1, <2>1, <2>3, <2>6, <2>7 DEF Chained
  <2>9. AtMost(q, 1)
    BY <2>3, <2>6, RankIs DEF AtMost
  <2>10. Reaches(q, now, 1, dispatch)
    BY <2>1, <2>3, <2>6, RankIs DEF Reaches
  <2> QED BY <2>5, <2>8, <2>9, <2>10 DEF Stage1
<1>2. CASE ~(dispatch # None /\ dispatch - Interval <= now /\ now < dispatch)
  <2>1. Clock!Dispatched(now) = <<>>
    BY <1>2 DEF Clock!Dispatched
  <2>2. <<>> \in Seq(PointSet) /\ Len(<<>>) = 0
    OBVIOUS
  <2>3. Chained(<<>>, now)
    BY <2>2 DEF Chained
  <2>4. AtMost(<<>>, 1)
    BY <2>2 DEF AtMost
  <2> QED BY <2>1, <2>3, <2>4 DEF Stage1
<1> QED BY <1>1, <1>2

P5Fresh == latest.p5 # None /\ ~Clock!IsStale(latest.p5, P5MaxAge, now)
PdFresh == latest.pd # None /\ ~Clock!IsStale(latest.pd, PdMaxAge, now)

Stage2(points) ==
  /\ Chained(points, now) /\ AtMost(points, 2)
  /\ Clock!Dispatched(now) # <<>> => Reaches(points, now, 1, dispatch)
  /\ P5Fresh => Reaches(points, now, 2, P5Last)

\* A bound on the sources holds for a larger one.
LEMMA AtMostGrows ==
  ASSUME NEW points, NEW t, Chained(points, t), NEW r \in Int, NEW s \in Int, r <= s, AtMost(points, r)
  PROVE  AtMost(points, s)
<1> SUFFICES ASSUME NEW i \in 1..Len(points) PROVE RankOf(points[i].source) <= s
  BY DEF AtMost
<1>1. points[i] \in PointSet
  BY DEF Chained
<1>2. RankOf(points[i].source) \in Int
  BY <1>1, PointIs, RankIs
<1>3. RankOf(points[i].source) <= r
  BY DEF AtMost
<1> QED BY <1>2, <1>3

\* After the five-minute run: up to its last interval when it is fresh.
LEMMA StageTwo ==
  ASSUME PricesHeld, NEW points, Stage1(points),
         NEW after, after = Clock!AddRun(points, now, latest.p5, P5MaxAge, Clock!P5Ends(latest.p5), Interval, "p5")
  PROVE  Stage2(after)
<1>0. Interval \in Nat \ {0} /\ P5Intervals \in Nat /\ None \notin Int /\ now \in Int
  BY TimelineConstants DEF PricesHeld
<1>1. Chained(points, now) /\ AtMost(points, 2)
  BY <1>0, AtMostGrows DEF Stage1
<1>2. CASE ~P5Fresh
  <2>1. after = points
    BY <1>2 DEF P5Fresh, Clock!AddRun
  <2> QED BY <1>1, <1>2, <2>1 DEF Stage1, Stage2
<1>3. CASE P5Fresh
  <2>1. PICK run \in Int : run = latest.p5 /\ Multiple(run, Interval) /\ run - Interval <= now
    BY <1>3 DEF P5Fresh, PricesHeld
  <2>2. PICK ends : ends = Clock!P5Ends(run) /\ ends = Ends(run, P5Intervals, Interval)
    BY DEF Ends, Clock!P5Ends
  <2>3. after = Clock!AddSeries(points, now, ends, Interval, "p5", run)
    BY <1>3, <2>1, <2>2 DEF P5Fresh, Clock!AddRun
  <2>4. \A e \in Int : Multiple(e, Interval) => FitsAt(e, Interval)
    BY IntervalFits
  <2>5. PICK last \in Int : /\ last = LastOf(run, P5Intervals, Interval) /\ Steady(ends, Interval, now)
                            /\ IF ends = <<>> THEN last <= now ELSE last = ends[Len(ends)]
    <3>1. /\ Steady(Ends(run, P5Intervals, Interval), Interval, now) /\ LastOf(run, P5Intervals, Interval) \in Int
          /\ IF Ends(run, P5Intervals, Interval) = <<>> THEN LastOf(run, P5Intervals, Interval) <= now
             ELSE LastOf(run, P5Intervals, Interval)
                    = Ends(run, P5Intervals, Interval)[Len(Ends(run, P5Intervals, Interval))]
      BY <1>0, <2>1, <2>4, SteadySeries
    <3> QED BY <2>2, <3>1
  <2>6. "p5" \in Sources /\ RankOf("p5") = 2
    BY RankIs DEF Sources
  <2>7. /\ Chained(after, now) /\ AtMost(after, 2) /\ Reaches(after, now, 2, last)
        /\ \A r, c \in Int : r < 2 /\ Reaches(points, now, r, c) => Reaches(after, now, r, c)
    BY <1>0, <1>1, <2>3, <2>5, <2>6, AddSeriesIs
  <2>8. Clock!Dispatched(now) # <<>> => Reaches(after, now, 1, dispatch)
    <3>1. Clock!Dispatched(now) # <<>> => dispatch \in Int
      BY DEF Clock!Dispatched, PricesHeld
    <3> QED BY <2>7, <3>1 DEF Stage1
  <2>9. Reaches(after, now, 2, P5Last)
    BY <2>1, <2>5, <2>7 DEF P5Last, LastOf
  <2> QED BY <2>7, <2>8, <2>9 DEF Stage2
<1> QED BY <1>2, <1>3

Stage3(points) ==
  /\ Chained(points, now) /\ AtMost(points, 3)
  /\ Clock!Dispatched(now) # <<>> => Reaches(points, now, 1, dispatch)
  /\ P5Fresh => Reaches(points, now, 2, P5Last)
  /\ PdFresh => Reaches(points, now, 3, PdLast)

LEMMA P5LastIs == ASSUME PricesHeld, P5Fresh PROVE P5Last \in Int
<1>1. PICK run \in Int : run = latest.p5
  BY DEF P5Fresh, PricesHeld
<1>2. (P5Intervals - 1) * Interval \in Int
  BY TimelineConstants
<1> QED BY <1>1, <1>2 DEF P5Last

\* After the pre-dispatch run: up to its last half hour when it is fresh.
LEMMA StageThree ==
  ASSUME PricesHeld, NEW points, Stage2(points),
         NEW after, after = Clock!AddRun(points, now, latest.pd, PdMaxAge, Clock!PdEnds(latest.pd), Period, "pd")
  PROVE  Stage3(after)
<1>0. Period \in Nat \ {0} /\ PdPeriods \in Nat /\ None \notin Int /\ now \in Int
  BY TimelineConstants DEF PricesHeld
<1>1. Chained(points, now) /\ AtMost(points, 3)
  BY <1>0, AtMostGrows DEF Stage2
<1>2. CASE ~PdFresh
  <2>1. after = points
    BY <1>2 DEF PdFresh, Clock!AddRun
  <2> QED BY <1>1, <1>2, <2>1 DEF Stage2, Stage3
<1>3. CASE PdFresh
  <2>1. PICK run \in Int : run = latest.pd /\ Clock!EndOf(run, Period) - Period <= now
    BY <1>3 DEF PdFresh, PricesHeld
  <2>a. PICK first \in Int : first = Clock!EndOf(run, Period) /\ Multiple(first, Period) /\ first - Period <= now
    BY <1>0, <2>1, EndOfIs
  <2>2. PICK ends : ends = Clock!PdEnds(run) /\ ends = Ends(first, PdPeriods, Period)
    BY <2>a DEF Ends, Clock!PdEnds
  <2>3. after = Clock!AddSeries(points, now, ends, Period, "pd", run)
    BY <1>3, <2>1, <2>2 DEF PdFresh, Clock!AddRun
  <2>4. \A e \in Int : Multiple(e, Period) => FitsAt(e, Period)
    BY PeriodFits
  <2>5. PICK last \in Int : /\ last = LastOf(first, PdPeriods, Period) /\ Steady(ends, Period, now)
                            /\ IF ends = <<>> THEN last <= now ELSE last = ends[Len(ends)]
    BY <1>0, <2>a, <2>2, <2>4, SteadySeries
  <2>6. "pd" \in Sources /\ RankOf("pd") = 3
    BY RankIs DEF Sources
  <2>7. /\ Chained(after, now) /\ AtMost(after, 3) /\ Reaches(after, now, 3, last)
        /\ \A r, c \in Int : r < 3 /\ Reaches(points, now, r, c) => Reaches(after, now, r, c)
    BY <1>0, <1>1, <2>3, <2>5, <2>6, AddSeriesIs
  <2>8. Clock!Dispatched(now) # <<>> => Reaches(after, now, 1, dispatch)
    <3>1. Clock!Dispatched(now) # <<>> => dispatch \in Int
      BY DEF Clock!Dispatched, PricesHeld
    <3> QED BY <2>7, <3>1 DEF Stage2
  <2>9. P5Fresh => Reaches(after, now, 2, P5Last)
    BY <2>7, P5LastIs DEF Stage2
  <2>10. Reaches(after, now, 3, PdLast)
    BY <2>1, <2>a, <2>5, <2>7 DEF PdLast, LastOf
  <2> QED BY <2>7, <2>8, <2>9, <2>10 DEF Stage3
<1> QED BY <1>2, <1>3

LEMMA PdLastIs == ASSUME PricesHeld, PdFresh PROVE PdLast \in Int
<1>1. PICK run \in Int : run = latest.pd
  BY DEF PdFresh, PricesHeld
<1>2. Clock!EndOf(run, Period) \in Int /\ (PdPeriods - 1) * Period \in Int
  BY TimelineConstants, EndOfIs
<1> QED BY <1>1, <1>2 DEF PdLast

Built(points) ==
  /\ Chained(points, now)
  /\ Clock!Dispatched(now) # <<>> => Reaches(points, now, 1, dispatch)
  /\ P5Fresh => Reaches(points, now, 2, P5Last)
  /\ PdFresh => Reaches(points, now, 3, PdLast)
  /\ Reaches(points, now, 4, CalibratedLast)

\* The whole builder: the points follow each other to the end of the calibrated run.
LEMMA BuildIs ==
  ASSUME PricesHeld, calibrated # None
  PROVE  Built(Clock!Build(now)) /\ CalibratedLast \in Int
<1>0. Period \in Nat \ {0} /\ CalibratedPeriods \in Nat /\ None \notin Int /\ now \in Int
  BY TimelineConstants DEF PricesHeld
<1>1. PICK p5 : p5 = Clock!AddRun(Clock!Dispatched(now), now, latest.p5, P5MaxAge, Clock!P5Ends(latest.p5), Interval, "p5")
  OBVIOUS
<1>2. PICK points : points = Clock!AddRun(p5, now, latest.pd, PdMaxAge, Clock!PdEnds(latest.pd), Period, "pd")
  OBVIOUS
<1>3. Stage3(points)
  BY <1>1, <1>2, StageOne, StageTwo, StageThree
<1>4. PICK run \in Int : run = calibrated /\ Multiple(run, Period) /\ run <= now
  BY DEF PricesHeld
<1>5. PICK after : after = Clock!AddSeries(points, now, Clock!CalibratedEnds(run), Period, "pd7day", run)
  OBVIOUS
<1>6. Clock!Build(now) = after
  BY <1>1, <1>2, <1>4, <1>5 DEF Clock!Build
<1>7. PICK first \in Int : first = run + Period /\ Multiple(first, Period) /\ first - Period <= now
  BY <1>0, <1>4, NextMultiple
<1>8. PICK ends : ends = Clock!CalibratedEnds(run) /\ ends = Ends(first, CalibratedPeriods, Period)
  <2>1. ASSUME NEW i \in 1..CalibratedPeriods PROVE run + i * Period = first + (i - 1) * Period
    <3>1. (i - 1) * Period = i * Period - Period /\ i * Period \in Int
      BY <1>0
    <3> QED BY <1>0, <1>7, <3>1
  <2> QED BY <2>1 DEF Ends, Clock!CalibratedEnds
<1>9. \A e \in Int : Multiple(e, Period) => FitsAt(e, Period)
  BY PeriodFits
<1>10. PICK last \in Int : /\ last = LastOf(first, CalibratedPeriods, Period) /\ Steady(ends, Period, now)
                           /\ IF ends = <<>> THEN last <= now ELSE last = ends[Len(ends)]
  BY <1>0, <1>7, <1>8, <1>9, SteadySeries
<1>11. last = CalibratedLast
  <2>1. (CalibratedPeriods - 1) * Period = CalibratedPeriods * Period - Period /\ CalibratedPeriods * Period \in Int
    BY <1>0
  <2> QED BY <1>0, <1>4, <1>7, <1>10, <2>1 DEF CalibratedLast, LastOf
<1>12. "pd7day" \in Sources /\ RankOf("pd7day") = 4
  BY RankIs DEF Sources
<1>13. Chained(points, now) /\ AtMost(points, 4)
  BY <1>0, <1>3, AtMostGrows DEF Stage3
<1>14. /\ Chained(after, now) /\ Reaches(after, now, 4, last)
       /\ \A r, c \in Int : r < 4 /\ Reaches(points, now, r, c) => Reaches(after, now, r, c)
  BY <1>0, <1>4, <1>5, <1>8, <1>10, <1>12, <1>13, AddSeriesIs
<1>15. Clock!Dispatched(now) # <<>> => Reaches(after, now, 1, dispatch)
  <2>1. Clock!Dispatched(now) # <<>> => dispatch \in Int
    BY DEF Clock!Dispatched, PricesHeld
  <2> QED BY <1>3, <1>14, <2>1 DEF Stage3
<1>16. (P5Fresh => Reaches(after, now, 2, P5Last)) /\ (PdFresh => Reaches(after, now, 3, PdLast))
  BY <1>3, <1>14, P5LastIs, PdLastIs DEF Stage3
<1> QED BY <1>6, <1>10, <1>11, <1>14, <1>15, <1>16 DEF Built

-----------------------------------------------------------------------------
(* The timeline: its half hours *)

\* Both instances sum alike.
LEMMA ClockSums == \A f, S : Clock!SumFunctionOnSet(f, S) = Fits!SumFunctionOnSet(f, S)
BY DEF Clock!SumFunctionOnSet, Clock!FoldFunctionOnSet, Clock!MapThenFoldSet,
       Fits!SumFunctionOnSet, Fits!FoldFunctionOnSet, Fits!MapThenFoldSet

\* A sum along indices, by what each adds to a total.
Totals(total, h, a, b) ==
  /\ \A i \in a..b : h[i] \in Int /\ total[i] = total[i - 1] + h[i]
  /\ \A i \in (a - 1)..b : total[i] \in Int

\* A sum over a range is the difference of its running totals.
LEMMA SumAlong ==
  ASSUME NEW a \in Int, NEW b \in Int, a <= b, NEW h, NEW total, Totals(total, h, a, b)
  PROVE  Clock!SumFunctionOnSet(h, a..b) = total[b] - total[a - 1]
<1> DEFINE Q == {k \in (a - 1)..b : Fits!SumFunctionOnSet(h, a..k) = total[k] - total[a - 1]}
<1>0. /\ \A i \in a..b : h[i] \in Int /\ total[i] = total[i - 1] + h[i]
      /\ \A i \in (a - 1)..b : total[i] \in Int
  BY DEF Totals
<1>1. ASSUME NEW k \in (a - 1)..b
      PROVE  IsFiniteSet(a..k) /\ \A i \in a..k : h[i] \in Int
  <2>1. k \in Int
    OBVIOUS
  <2>2. IsFiniteSet(a..k)
    BY <2>1, FS_Interval
  <2> QED BY <1>0, <2>2
<1>2. a - 1 \in Q
  <2>1. a..(a - 1) = {} /\ a - 1 \in (a - 1)..b
    OBVIOUS
  <2>2. Fits!SumFunctionOnSet(h, a..(a - 1)) = 0
    BY <1>1, <2>1, SumWithout
  <2>3. total[a - 1] \in Int
    BY <1>0, <2>1
  <2> QED BY <2>1, <2>2, <2>3
<1>3. ASSUME NEW k \in ((a - 1) + 1)..b, k - 1 \in Q PROVE k \in Q
  <2>1. k \in (a - 1)..b /\ k \in a..b /\ k \in a..k /\ (a..k) \ {k} = a..(k - 1) /\ k - 1 \in (a - 1)..b
    OBVIOUS
  <2>2. Fits!SumFunctionOnSet(h, a..k) = h[k] + Fits!SumFunctionOnSet(h, a..(k - 1))
    <3>1. \A x \in a..k : Fits!SumFunctionOnSet(h, a..k) = h[x] + Fits!SumFunctionOnSet(h, (a..k) \ {x})
      BY <1>1, <2>1, SumWithout
    <3> QED BY <2>1, <3>1
  <2>3. Fits!SumFunctionOnSet(h, a..(k - 1)) = total[k - 1] - total[a - 1]
    BY <1>3
  <2>4. total[k] = total[k - 1] + h[k] /\ total[k] \in Int /\ total[k - 1] \in Int /\ total[a - 1] \in Int /\ h[k] \in Int
    BY <1>0, <2>1
  <2>5. Fits!SumFunctionOnSet(h, a..k) = total[k] - total[a - 1]
    BY <2>2, <2>3, <2>4
  <2> QED BY <2>1, <2>5
<1> HIDE DEF Q
<1>4. \A k \in (a - 1)..b : k \in Q
  BY <1>2, <1>3, UpTo
<1>5. b \in Q
  BY <1>4
<1> QED BY <1>5, ClockSums DEF Q

\* Two that agree have one sum.
LEMMA SumSame ==
  ASSUME NEW a \in Int, NEW b \in Int, a <= b, NEW g, NEW h, \A i \in a..b : h[i] \in Int /\ g[i] = h[i]
  PROVE  Clock!SumFunctionOnSet(g, a..b) = Clock!SumFunctionOnSet(h, a..b)
<1>1. PICK total : total = [k \in (a - 1)..b |-> Fits!SumFunctionOnSet(h, a..k)]
  OBVIOUS
<1>2. ASSUME NEW k \in (a - 1)..b
      PROVE  IsFiniteSet(a..k) /\ (\A i \in a..k : h[i] \in Int) /\ total[k] = Fits!SumFunctionOnSet(h, a..k)
  <2>1. k \in Int
    OBVIOUS
  <2>2. IsFiniteSet(a..k)
    BY <2>1, FS_Interval
  <2> QED BY <1>1, <2>2
<1>3. \A k \in (a - 1)..b : total[k] \in Int
  BY <1>2, SumWithout
<1>4. \A k \in a..b : total[k] = total[k - 1] + h[k]
  <2> SUFFICES ASSUME NEW k \in a..b PROVE total[k] = total[k - 1] + h[k]
    OBVIOUS
  <2>1. k \in (a - 1)..b /\ k \in a..k /\ (a..k) \ {k} = a..(k - 1) /\ k - 1 \in (a - 1)..b
    OBVIOUS
  <2>2. Fits!SumFunctionOnSet(h, a..k) = h[k] + Fits!SumFunctionOnSet(h, a..(k - 1))
    BY <1>2, <2>1, SumWithout
  <2>3. total[k] = Fits!SumFunctionOnSet(h, a..k) /\ total[k - 1] = Fits!SumFunctionOnSet(h, a..(k - 1))
    BY <1>2, <2>1
  <2>4. total[k] \in Int /\ total[k - 1] \in Int /\ h[k] \in Int
    BY <1>3, <2>1
  <2> QED BY <2>2, <2>3, <2>4
<1>5. Totals(total, g, a, b) /\ Totals(total, h, a, b)
  BY <1>3, <1>4 DEF Totals
<1> QED BY <1>5, SumAlong

\* What a chain of points is, as a sequence.
LEMMA ChainedIs ==
  ASSUME NEW points, NEW t \in Int, Chained(points, t), NEW n, n = Len(points)
  PROVE  /\ n \in Nat /\ DOMAIN points = 1..n /\ points \in Seq(PointSet)
         /\ \A i \in 1..n : /\ points[i] \in PointSet /\ points[i].start \in Int /\ points[i].end \in Int
                            /\ points[i].start < points[i].end
                            /\ points[i].end <= HalfOf(points[i].start) + Period
         /\ \A i \in 1..(n - 1) : points[i].end = points[i + 1].start
         /\ \A i, j \in 1..n : i < j => points[i].end <= points[j].start
         /\ \A i, j \in 1..n : i <= j => points[i].start <= points[j].start
<1>1. points \in Seq(PointSet) /\ n \in Nat /\ DOMAIN points = 1..n
  BY DEF Chained
<1>2. \A i \in 1..n : points[i] \in PointSet
  BY <1>1
<1>3. \A i \in 1..n : points[i].start \in Int /\ points[i].end \in Int
  BY <1>2, PointIs
<1>4. \A i \in 1..n : points[i].start < points[i].end /\ points[i].end <= HalfOf(points[i].start) + Period
  BY DEF Chained, Inside
<1>5. \A i \in 1..(n - 1) : points[i].end = points[i + 1].start
  BY DEF Chained
<1>6. PICK f : f = [i \in 1..n |-> points[i].start]
  OBVIOUS
<1>7. \A i \in 1..n : f[i] \in Int
  BY <1>3, <1>6
<1>8. ASSUME NEW i \in 1..(n - 1) PROVE f[i] <= f[i + 1]
  <2>1. i \in 1..n /\ i + 1 \in 1..n
    BY <1>1
  <2>2. points[i].start < points[i].end /\ points[i].end = points[i + 1].start /\ points[i].start \in Int /\ points[i].end \in Int
    BY <1>3, <1>4, <1>5, <2>1
  <2> QED BY <1>6, <2>1, <2>2
<1>9. \A i, j \in 1..n : i <= j => f[i] <= f[j]
  <2>1. n \in Int
    BY <1>1
  <2> QED BY <1>7, <1>8, <2>1, Chain
<1>10. \A i, j \in 1..n : i <= j => points[i].start <= points[j].start
  BY <1>6, <1>9
<1>11. ASSUME NEW i \in 1..n, NEW j \in 1..n, i < j PROVE points[i].end <= points[j].start
  <2>1. i \in 1..(n - 1) /\ i + 1 \in 1..n /\ i + 1 <= j
    BY <1>1, <1>11
  <2>2. points[i].end = points[i + 1].start
    BY <1>5, <2>1
  <2>3. points[i + 1].start <= points[j].start
    BY <1>10, <2>1
  <2> QED BY <2>2, <2>3
<1> QED BY <1>1, <1>2, <1>3, <1>4, <1>5, <1>10, <1>11

\* A half hour's points are those between two of them.
LEMMA SlotIs ==
  ASSUME NEW points, NEW t \in Int, Chained(points, t), NEW n, n = Len(points),
         NEW s \in Int, Multiple(s, Period), Clock!InSlot(points, s) # {}
  PROVE  \E a, b \in 1..n :
           /\ a <= b /\ Clock!InSlot(points, s) = a..b
           /\ s <= points[a].start /\ points[b].end <= s + Period
           /\ a = 1 \/ points[a].start = s
           /\ b = n \/ points[b].end = s + Period
<1>0. Period \in Nat \ {0} /\ n \in Nat /\ DOMAIN points = 1..n
  BY TimelineConstants, ChainedIs
<1>1. PICK S : S = Clock!InSlot(points, s)
  OBVIOUS
<1>2. \A i : i \in S <=> i \in 1..n /\ HalfOf(points[i].start) = s
  BY <1>0, <1>1 DEF Clock!InSlot, Clock!Slot, HalfOf
<1>3. S \in SUBSET Int /\ S # {} /\ \A x \in S : 1 <= x /\ x <= n
  BY <1>0, <1>1, <1>2
<1>4. PICK a \in S : a \in 1..n /\ \A x \in S : a <= x
  <2>1. S \in SUBSET Int /\ S # {} /\ 1 \in Int /\ \A x \in S : 1 <= x
    BY <1>3
  <2>2. Min(S) \in S /\ \A x \in S : Min(S) <= x
    BY <2>1, MinIsOne, Zenon
  <2> QED BY <1>2, <2>2
<1>5. PICK b \in S : b \in 1..n /\ \A x \in S : x <= b
  <2>1. S \in SUBSET Int /\ S # {} /\ n \in Int /\ \A x \in S : x <= n
    BY <1>0, <1>3
  <2>2. Max(S) \in S /\ \A x \in S : x <= Max(S)
    BY <2>1, MaxIsOne, Zenon
  <2> QED BY <1>2, <2>2
<1>6. ASSUME NEW i \in 1..n PROVE i \in S <=> s <= points[i].start /\ points[i].start < s + Period
  <2>1. points[i].start \in Int
    BY ChainedIs
  <2>2. i \in S => s <= points[i].start /\ points[i].start < s + Period
    BY <1>2, <2>1, HalfOfIs
  <2>3. s <= points[i].start /\ points[i].start < s + Period => HalfOf(points[i].start) = s
    BY <2>1, HalfIsThat
  <2> QED BY <1>2, <2>2, <2>3
<1>7. S = a..b
  <2>1. \A x \in S : x \in a..b
    BY <1>3, <1>4, <1>5
  <2>2. ASSUME NEW i \in a..b PROVE i \in S
    <3>1. i \in 1..n
      BY <1>0, <1>4, <1>5
    <3>2. points[a].start <= points[i].start /\ points[i].start <= points[b].start
      BY <1>4, <1>5, <3>1, ChainedIs
    <3>3. s <= points[a].start /\ points[b].start < s + Period
      BY <1>4, <1>5, <1>6
    <3>4. points[a].start \in Int /\ points[b].start \in Int /\ points[i].start \in Int
      BY <1>4, <1>5, <3>1, ChainedIs
    <3> QED BY <1>0, <1>6, <3>1, <3>2, <3>3, <3>4
  <2> QED BY <2>1, <2>2
<1>8. a <= b
  BY <1>4
<1>9. s <= points[a].start /\ points[b].end <= s + Period
  <2>1. HalfOf(points[b].start) = s
    BY <1>2
  <2>2. points[b].end <= HalfOf(points[b].start) + Period
    BY <1>5, ChainedIs
  <2> QED BY <1>4, <1>6, <2>1, <2>2
<1>10. a = 1 \/ points[a].start = s
  <2> SUFFICES ASSUME a # 1 PROVE points[a].start = s
    OBVIOUS
  <2>1. PICK c \in 1..n : c = a - 1 /\ c + 1 = a /\ c \in 1..(n - 1)
    BY <1>0, <1>4
  <2>2. c \notin S
    BY <1>4, <2>1
  <2>3. points[c].start \in Int /\ points[c].end \in Int /\ points[c].end = points[a].start
        /\ points[c].start < points[c].end /\ points[c].end <= HalfOf(points[c].start) + Period
    BY <2>1, ChainedIs
  <2>4. points[a].start < s + Period /\ points[a].start \in Int
    BY <1>4, <1>6, ChainedIs
  <2>5. points[c].start < s
    BY <1>0, <1>6, <2>2, <2>3, <2>4
  <2>6. PICK h \in Int : h = HalfOf(points[c].start) /\ h <= points[c].start /\ Multiple(h, Period)
    BY <2>3, HalfOfIs
  <2>7. h + Period <= s
    BY <1>0, <2>3, <2>5, <2>6, MultiplesApart
  <2> QED BY <1>0, <1>9, <2>3, <2>4, <2>6, <2>7
<1>11. b = n \/ points[b].end = s + Period
  <2> SUFFICES ASSUME b # n PROVE points[b].end = s + Period
    OBVIOUS
  <2>1. b + 1 \in 1..n /\ b \in 1..(n - 1)
    BY <1>0, <1>5
  <2>2. b + 1 \notin S
    BY <1>5
  <2>3. points[b].end = points[b + 1].start /\ points[b + 1].start \in Int /\ points[b].start < points[b].end
        /\ points[b].start \in Int
    BY <1>5, <2>1, ChainedIs
  <2>4. s <= points[b].start
    BY <1>5, <1>6
  <2>5. ~(points[b + 1].start < s + Period)
    BY <1>6, <2>1, <2>2, <2>3, <2>4
  <2> QED BY <1>0, <1>9, <2>3, <2>5
<1> QED BY <1>1, <1>4, <1>5, <1>7, <1>8, <1>9, <1>10, <1>11

\* The lengths of points one after the other.
LEMMA LengthsAre ==
  ASSUME NEW points, NEW t \in Int, Chained(points, t), NEW n, n = Len(points),
         NEW a \in 1..n, NEW b \in 1..n, a <= b
  PROVE  Clock!SumFunctionOnSet(Clock!Lengths(points), a..b) = points[b].end - points[a].start
<1>0. n \in Nat /\ DOMAIN points = 1..n
  BY ChainedIs
<1>1. PICK total : total = [i \in (a - 1)..b |-> IF i = a - 1 THEN points[a].start ELSE points[i].end]
  OBVIOUS
<1>2. total[a - 1] = points[a].start /\ \A i \in a..b : total[i] = points[i].end
  BY <1>1
<1>3. PICK h : h = Clock!Lengths(points)
  OBVIOUS
<1>4. ASSUME NEW i \in a..b
      PROVE  /\ i \in 1..n /\ h[i] = points[i].end - points[i].start /\ h[i] \in Int
             /\ points[i].start \in Int /\ points[i].end \in Int
  <2>1. i \in 1..n
    BY <1>0
  <2>2. h[i] = points[i].end - points[i].start
    BY <1>0, <1>3, <2>1 DEF Clock!Lengths, Clock!Length
  <2>3. points[i].start \in Int /\ points[i].end \in Int
    BY <2>1, ChainedIs
  <2> QED BY <2>1, <2>2, <2>3
<1>5. \A i \in (a - 1)..b : total[i] \in Int
  <2> SUFFICES ASSUME NEW i \in (a - 1)..b PROVE total[i] \in Int
    OBVIOUS
  <2>1. i = a - 1 \/ i \in a..b
    OBVIOUS
  <2>2. a \in a..b
    OBVIOUS
  <2> QED BY <1>2, <1>4, <2>1, <2>2
<1>6. ASSUME NEW i \in a..b PROVE total[i] = total[i - 1] + h[i]
  <2>1. total[i - 1] = points[i].start
    <3>1. CASE i = a
      BY <1>2, <3>1
    <3>2. CASE i # a
      <4>1. i - 1 \in a..b /\ i - 1 \in 1..(n - 1) /\ (i - 1) + 1 = i
        BY <1>0, <1>4, <3>2
      <4>2. points[i - 1].end = points[i].start
        BY <4>1, ChainedIs
      <4>3. total[i - 1] = points[i - 1].end
        BY <1>2, <4>1
      <4> QED BY <4>2, <4>3
    <3> QED BY <3>1, <3>2
  <2>2. total[i] = points[i].end
    BY <1>2
  <2>3. h[i] = points[i].end - points[i].start /\ points[i].start \in Int /\ points[i].end \in Int
    BY <1>4
  <2> QED BY <2>1, <2>2, <2>3
<1>7. Clock!SumFunctionOnSet(h, a..b) = total[b] - total[a - 1]
  <2>1. Totals(total, h, a, b)
    BY <1>4, <1>5, <1>6 DEF Totals
  <2> QED BY <2>1, SumAlong
<1> QED BY <1>2, <1>3, <1>7

-----------------------------------------------------------------------------
(* The timeline: its windows *)

LEMMA ValueIs == ASSUME NEW p \in PointSet PROVE Clock!ValueOf(p) \in Nat
<1>1. PICK n \in Int : n = p.run + 2 * p.of
  BY PointIs
<1>2. n % 3 \in 0..2
  OBVIOUS
<1>3. Clock!ValueOf(p) \in {1, n % 3}
  BY <1>1 DEF Clock!ValueOf, MCPrice
<1> QED BY <1>2, <1>3

\* What the points in a window are worth in it.
InWindow(points, i, length) ==
  [j \in DOMAIN points |->
     Clock!ValueOf(points[j]) * (Clock!Min({points[j].end, points[i].start + length}) - points[j].start)]

\* The worth of a window, in points or parts of them, is a number.
LEMMA WindowWorthIs ==
  ASSUME NEW points, NEW t \in Int, Chained(points, t), NEW i \in DOMAIN points, NEW length \in Nat
  PROVE  Clock!WindowWorth(points, i, length) \in Nat
<1>0. PICK n \in Nat : n = Len(points) /\ DOMAIN points = 1..n
  BY ChainedIs
<1>1. PICK S : S = Clock!WindowAt(points, i, length)
  OBVIOUS
<1>2. \A j \in S : j \in 1..n /\ points[j].start < points[i].start + length
  BY <1>0, <1>1 DEF Clock!WindowAt
<1>3. IsFiniteSet(S)
  <2>1. IsFiniteSet(1..n) /\ S \in SUBSET (1..n)
    BY <1>0, <1>2, FS_Interval
  <2> QED BY <2>1, FS_Subset
<1>4. PICK f : f = InWindow(points, i, length)
  OBVIOUS
<1>5. ASSUME NEW j \in S PROVE f[j] \in Nat
  <2>1. j \in 1..n /\ i \in 1..n
    BY <1>0, <1>2
  <2>2. PICK s \in Int, e \in Int : s = points[j].start /\ e = points[j].end /\ s < e
    BY <1>0, <2>1, ChainedIs
  <2>3. PICK u \in Int : u = points[i].start + length /\ s < u
    <3>1. points[i].start \in Int
      BY <1>0, <2>1, ChainedIs
    <3> QED BY <1>2, <2>2, <3>1
  <2>4. PICK m \in Int : m = Clock!Min({e, u}) /\ s < m
    <3>1. Clock!Min({e, u}) \in {e, u}
      BY MaxOfTwo
    <3> QED BY <2>2, <2>3, <3>1
  <2>5. PICK v \in Nat : v = Clock!ValueOf(points[j])
    <3>1. points[j] \in PointSet
      BY <1>0, <2>1, ChainedIs
    <3> QED BY <3>1, ValueIs
  <2>6. f[j] = v * (m - s)
    BY <1>0, <1>4, <2>1, <2>2, <2>3, <2>4, <2>5 DEF InWindow
  <2>7. m - s \in Nat
    BY <2>4
  <2> QED BY <2>6, <2>7
<1>6. Fits!SumFunctionOnSet(f, S) \in Nat
  BY <1>3, <1>5, SumIsNat
<1>7. Clock!WindowWorth(points, i, length) = Clock!SumFunctionOnSet(f, S)
  BY <1>1, <1>4 DEF Clock!WindowWorth, InWindow
<1> QED BY <1>6, <1>7, ClockSums

\* Of the windows covered one is found, and none is cheaper.
LEMMA CheapestIs ==
  ASSUME NEW points, NEW t \in Int, Chained(points, t), NEW length \in Nat,
         NEW i \in DOMAIN points, Clock!IsCovered(points, i, length)
  PROVE  /\ Clock!CheapestWindow(points, length) # None
         /\ Clock!WindowWorth(points, Clock!CheapestWindow(points, length), length)
              <= Clock!WindowWorth(points, i, length)
<1>0. PICK n \in Nat : n = Len(points) /\ DOMAIN points = 1..n
  BY ChainedIs
<1>1. PICK whole : whole = {j \in DOMAIN points : Clock!IsCovered(points, j, length)}
  OBVIOUS
<1>2. \A j \in whole : j \in 1..n /\ Clock!WindowWorth(points, j, length) \in Nat
  BY <1>0, <1>1, WindowWorthIs
<1>3. PICK worths : worths = {Clock!WindowWorth(points, j, length) : j \in whole}
  OBVIOUS
<1>4. i \in whole
  BY <1>1
<1>5. worths \in SUBSET Nat /\ worths # {}
  BY <1>2, <1>3, <1>4
<1>6. PICK w \in worths : \A x \in worths : w <= x
  BY <1>5, LeastExists
<1>7. PICK best : best = {j \in whole : \A k \in whole :
                           Clock!WindowWorth(points, j, length) <= Clock!WindowWorth(points, k, length)}
  OBVIOUS
<1>8. best \in SUBSET Nat /\ best # {}
  <2>1. PICK j \in whole : w = Clock!WindowWorth(points, j, length)
    BY <1>3, <1>6
  <2>2. j \in best
    BY <1>3, <1>6, <1>7, <2>1
  <2> QED BY <1>2, <1>7, <2>2
<1>9. Clock!CheapestWindow(points, length) = Clock!Min(best)
  BY <1>1, <1>4, <1>7 DEF Clock!CheapestWindow
<1>10. Clock!Min(best) \in best
  <2>1. \E x \in best : \A y \in best : x <= y
    BY <1>8, LeastExists
  <2> QED BY <2>1 DEF Clock!Min
<1>11. Clock!Min(best) # None
  <2>1. PICK m \in Nat : m = Clock!Min(best)
    BY <1>8, <1>10
  <2>2. None \notin Int
    BY TimelineConstants
  <2>3. m # None
    BY <2>2
  <2> QED BY <2>1, <2>3
<1> QED BY <1>4, <1>7, <1>9, <1>10, <1>11

\* A half hour covered from its start to its end is a window.
LEMMA HalfIsWindow ==
  ASSUME NEW points, NEW t \in Int, Chained(points, t), NEW n, n = Len(points),
         NEW a \in 1..n, NEW b \in 1..n, a <= b, NEW s \in Int,
         points[a].start = s, points[b].end = s + Period
  PROVE  /\ Clock!IsCovered(points, a, Period)
         /\ Clock!WindowWorth(points, a, Period) = Clock!SumFunctionOnSet(Clock!Worths(points), a..b)
<1>0. n \in Nat /\ DOMAIN points = 1..n /\ Period \in Nat
  BY ChainedIs, TimelineConstants
<1>1. Clock!WindowAt(points, a, Period) = a..b
  <2>1. ASSUME NEW j \in a..n PROVE points[j].start < s + Period <=> j <= b
    <3>1. j \in 1..n /\ points[j].start \in Int
      BY <1>0, ChainedIs
    <3>2. ASSUME j <= b PROVE points[j].start < s + Period
      <4>1. points[j].start <= points[b].start /\ points[b].start < points[b].end
        BY <3>1, <3>2, ChainedIs
      <4>2. points[b].start \in Int /\ points[b].end \in Int
        BY ChainedIs
      <4> QED BY <1>0, <3>1, <4>1, <4>2
    <3>3. ASSUME b < j PROVE ~(points[j].start < s + Period)
      <4>1. points[b].end <= points[j].start
        BY <3>1, <3>3, ChainedIs
      <4> QED BY <1>0, <3>1, <4>1
    <3> QED BY <3>1, <3>2, <3>3
  <2>2. Clock!WindowAt(points, a, Period) = {j \in a..n : points[j].start < s + Period}
    BY DEF Clock!WindowAt
  <2> QED BY <1>0, <2>1, <2>2
<1>2. Clock!IsCovered(points, a, Period)
  <2>1. \A j \in (a..b) \ {a} : points[j].start = points[j - 1].end
    <3> SUFFICES ASSUME NEW j \in (a + 1)..b PROVE points[j].start = points[j - 1].end
      OBVIOUS
    <3>1. j - 1 \in 1..(n - 1) /\ (j - 1) + 1 = j
      BY <1>0
    <3> QED BY <3>1, ChainedIs
  <2>2. Clock!Max(a..b) = b
    <3>1. b \in a..b /\ \A x \in a..b : b >= x
      OBVIOUS
    <3>2. \A x \in a..b : (\A y \in a..b : x >= y) => x = b
      BY <3>1
    <3> QED BY <3>1, <3>2 DEF Clock!Max
  <2>3. points[b].end >= points[a].start + Period
    BY <1>0
  <2> QED BY <1>1, <2>1, <2>2, <2>3 DEF Clock!IsCovered
<1>3. PICK g : g = InWindow(points, a, Period)
  OBVIOUS
<1>4. PICK h : h = Clock!Worths(points)
  OBVIOUS
<1>5. ASSUME NEW j \in a..b PROVE h[j] \in Int /\ g[j] = h[j]
  <2>1. j \in 1..n
    BY <1>0
  <2>2. PICK x \in Int, e \in Int : x = points[j].start /\ e = points[j].end
    BY <2>1, ChainedIs
  <2>3. e <= s + Period
    <3>1. CASE j = b
      BY <1>0, <2>2, <3>1
    <3>2. CASE j < b
      <4>1. points[j].end <= points[b].start /\ points[b].start < points[b].end /\ points[b].start \in Int
        BY <2>1, <3>2, ChainedIs
      <4> QED BY <1>0, <2>2, <4>1
    <3> QED BY <3>1, <3>2
  <2>4. Clock!Min({e, s + Period}) = e
    <3>1. PICK u \in Int : u = s + Period
      BY <1>0
    <3>2. Clock!Min({e, u}) = e
      BY <2>3, <3>1, MaxOfTwo
    <3> QED BY <3>1, <3>2
  <2>5. PICK v \in Nat : v = Clock!ValueOf(points[j])
    <3>1. points[j] \in PointSet
      BY <2>1, ChainedIs
    <3> QED BY <3>1, ValueIs
  <2>6. g[j] = v * (Clock!Min({e, s + Period}) - x)
    BY <1>0, <1>3, <2>1, <2>2, <2>5 DEF InWindow
  <2>7. h[j] = v * (e - x)
    BY <1>0, <1>4, <2>1, <2>2, <2>5 DEF Clock!Worths, Clock!Length
  <2>8. v * (e - x) \in Int
    OBVIOUS
  <2> QED BY <2>4, <2>6, <2>7, <2>8
<1>6. Clock!SumFunctionOnSet(g, a..b) = Clock!SumFunctionOnSet(h, a..b)
  BY <1>5, SumSame
<1>7. Clock!WindowWorth(points, a, Period) = Clock!SumFunctionOnSet(g, a..b)
  BY <1>1, <1>3 DEF Clock!WindowWorth, InWindow
<1> QED BY <1>2, <1>4, <1>6, <1>7

\* The half hours partition what is built, each with the time-weighted price of its points, and the cheapest of the windows is found.
LEMMA HalvesHold ==
  ASSUME NEW points, now \in Int, Chained(points, now), points # <<>>
  PROVE  Clock!Halved(points, Clock!HalfHours(points), Clock!CheapestWindow(points, Period))
<1>0. Period \in Nat \ {0}
  BY TimelineConstants
<1>1. PICK n \in Nat : n = Len(points) /\ DOMAIN points = 1..n
  BY ChainedIs
<1>2. PICK halves : halves = Clock!HalfHours(points)
  OBVIOUS
<1>3. PICK best : best = Clock!CheapestWindow(points, Period)
  OBVIOUS
<1> SUFFICES ASSUME NEW s \in DOMAIN halves
             PROVE  /\ s >= now /\ s + Period <= points[Len(points)].end => halves[s].ticks = Period
                    /\ halves[s].ticks = Period =>
                         best # None /\ Clock!WindowWorth(points, best, Period) <= halves[s].worth
  BY <1>2, <1>3 DEF Clock!Halved
<1>4. PICK k \in 1..n : s = HalfOf(points[k].start)
  BY <1>1, <1>2 DEF Clock!HalfHours, Clock!Slot, HalfOf
<1>5. s \in Int /\ Multiple(s, Period)
  <2>1. points[k].start \in Int
    BY <1>1, ChainedIs
  <2> QED BY <1>4, <2>1, HalfOfIs
<1>6. Clock!InSlot(points, s) # {}
  BY <1>1, <1>4 DEF Clock!InSlot, Clock!Slot, HalfOf
<1>7. PICK a \in 1..n, b \in 1..n :
           /\ a <= b /\ Clock!InSlot(points, s) = a..b
           /\ s <= points[a].start /\ points[b].end <= s + Period
           /\ a = 1 \/ points[a].start = s
           /\ b = n \/ points[b].end = s + Period
  BY <1>1, <1>5, <1>6, SlotIs
<1>8. /\ halves[s].ticks = Clock!SumFunctionOnSet(Clock!Lengths(points), a..b)
      /\ halves[s].worth = Clock!SumFunctionOnSet(Clock!Worths(points), a..b)
  BY <1>2, <1>7 DEF Clock!HalfHours
<1>9. PICK x \in Int, e \in Int : x = points[a].start /\ e = points[b].end
  BY <1>1, ChainedIs
<1>10. halves[s].ticks = e - x
  BY <1>1, <1>7, <1>8, <1>9, LengthsAre
<1>11. s >= now /\ s + Period <= points[Len(points)].end => halves[s].ticks = Period
  <2> SUFFICES ASSUME s >= now, s + Period <= points[n].end PROVE e - x = Period
    BY <1>1, <1>10
  <2>1. x = s
    <3>1. points[1].start <= now
      BY DEF Chained
    <3> QED BY <1>5, <1>7, <1>9, <3>1
  <2>2. e = s + Period
    BY <1>0, <1>5, <1>7, <1>9
  <2> QED BY <1>0, <1>5, <2>1, <2>2
<1>12. ASSUME halves[s].ticks = Period
       PROVE  best # None /\ Clock!WindowWorth(points, best, Period) <= halves[s].worth
  <2>1. x = s /\ e = s + Period
    BY <1>0, <1>5, <1>7, <1>9, <1>10, <1>12
  <2>2. Clock!IsCovered(points, a, Period) /\ Clock!WindowWorth(points, a, Period) = halves[s].worth
    <3>1. points[a].start = s /\ points[b].end = s + Period /\ a <= b
      BY <1>7, <1>9, <2>1
    <3>2. /\ Clock!IsCovered(points, a, Period)
          /\ Clock!WindowWorth(points, a, Period) = Clock!SumFunctionOnSet(Clock!Worths(points), a..b)
      BY <1>1, <1>5, <3>1, HalfIsWindow
    <3> QED BY <1>8, <3>2
  <2> QED BY <1>0, <1>1, <1>3, <2>2, CheapestIs
<1> QED BY <1>11, <1>12

-----------------------------------------------------------------------------
(* The timeline: its sources *)

\* A source reaches to its own end: no coarser one prices an instant before it.
LEMMA FirstSource ==
  ASSUME NEW points, now \in Int, Chained(points, now), NEW r \in Int, NEW c \in Int, Reaches(points, now, r, c),
         NEW i \in DOMAIN points, NEW u \in Int, points[i].start <= u, now <= u, u < c
  PROVE  RankOf(points[i].source) <= r
<1>1. i \in 1..Len(points) /\ points[i].start \in Int /\ points[i] \in PointSet
  BY ChainedIs
<1>2. RankOf(points[i].source) \in Int
  BY <1>1, PointIs, RankIs
<1>3. RankOf(points[i].source) > r => c <= points[i].start
  BY <1>1 DEF Reaches
<1> QED BY <1>1, <1>2, <1>3

\* Each instant is priced by the finest source that has it.
LEMMA RankedIs ==
  ASSUME PricesHeld, calibrated # None, NEW points, Built(points), CalibratedLast \in Int
  PROVE  Clock!Ranked(points)
<1>0. Chained(points, now) /\ now \in Int
  BY DEF Built, PricesHeld
<1> SUFFICES ASSUME NEW i \in DOMAIN points, NEW u \in points[i].start..(points[i].end - 1), u >= now,
                    NEW s \in Clock!Covering(u)
             PROVE  RankOf(points[i].source) <= RankOf(s)
  BY DEF Clock!Ranked, RankOf
<1>1. points[i].start \in Int /\ points[i].end \in Int /\ u \in Int /\ points[i].start <= u
  <2>1. PICK n \in Nat : n = Len(points) /\ DOMAIN points = 1..n
    BY <1>0, ChainedIs
  <2>2. i \in 1..n
    BY <2>1
  <2>3. points[i].start \in Int /\ points[i].end \in Int
    BY <1>0, <2>1, <2>2, ChainedIs
  <2> QED BY <2>3
<1>2. CASE s = "dispatch" /\ Clock!Dispatched(now) # <<>> /\ dispatch - Interval <= u /\ u < dispatch
  <2>1. dispatch \in Int
    BY <1>2 DEF Clock!Dispatched, PricesHeld
  <2>2. Reaches(points, now, 1, dispatch)
    BY <1>2 DEF Built
  <2> QED BY <1>0, <1>1, <1>2, <2>1, <2>2, FirstSource, RankIs
<1>3. CASE s = "p5" /\ P5Fresh /\ u < P5Last
  <2>1. P5Last \in Int
    BY <1>3, P5LastIs
  <2>2. Reaches(points, now, 2, P5Last)
    BY <1>3 DEF Built
  <2> QED BY <1>0, <1>1, <1>3, <2>1, <2>2, FirstSource, RankIs
<1>4. CASE s = "pd" /\ PdFresh /\ u < PdLast
  <2>1. PdLast \in Int
    BY <1>4, PdLastIs
  <2>2. Reaches(points, now, 3, PdLast)
    BY <1>4 DEF Built
  <2> QED BY <1>0, <1>1, <1>4, <2>1, <2>2, FirstSource, RankIs
<1>5. CASE s = "pd7day" /\ u < CalibratedLast
  <2>1. Reaches(points, now, 4, CalibratedLast)
    BY DEF Built
  <2> QED BY <1>0, <1>1, <1>5, <2>1, FirstSource, RankIs
<1> QED BY <1>2, <1>3, <1>4, <1>5 DEF Clock!Covering, P5Fresh, PdFresh, P5Last, PdLast, CalibratedLast

\* The builder joins the sources without a gap, an overlap or a worse source, whatever it holds.
LEMMA SeamlessOfHeld == PricesHeld => Clock!TimelineIsSeamless
<1> SUFFICES ASSUME PricesHeld, calibrated # None, now < CalibratedLast
             PROVE  Clock!Seamless(Clock!Build(now))
  BY DEF Clock!TimelineIsSeamless, CalibratedLast
<1>1. PICK points : points = Clock!Build(now) /\ Built(points)
  BY BuildIs
<1>2. CalibratedLast \in Int /\ now \in Int
  BY BuildIs DEF PricesHeld
<1>3. Chained(points, now) /\ points # <<>>
  <2>1. Chained(points, now) /\ Reaches(points, now, 4, CalibratedLast)
    BY <1>1 DEF Built
  <2> QED BY <1>2, <2>1 DEF Reaches
<1>4. Clock!Joined(points)
  BY <1>3 DEF Clock!Joined, Chained
<1>5. Clock!Ranked(points)
  BY <1>1, <1>2, RankedIs
<1>6. Clock!Halved(points, Clock!HalfHours(points), Clock!CheapestWindow(points, Period))
  BY <1>2, <1>3, HalvesHold
<1> QED BY <1>1, <1>4, <1>5, <1>6 DEF Clock!Seamless

-----------------------------------------------------------------------------
(* The timeline: the clock *)

\* A run of some intervals ago ended on the grid too.
LEMMA BackFrom ==
  ASSUME NEW d \in Nat \ {0}, NEW e \in Int, Multiple(e, d), NEW late \in Int
  PROVE  Multiple(e - late * d, d) /\ e - late * d \in Int
<1>1. PICK j \in Int : e = j * d
  BY DEF Multiple, Of
<1>2. e - late * d = (j - late) * d
  BY <1>1
<1>3. j - late \in Int /\ late * d \in Int
  OBVIOUS
<1> QED BY <1>2, <1>3 DEF Multiple, Of

\* Before anything is fetched nothing is held.
LEMMA HeldAtFirst == Clock!Init => PricesHeld
<1> SUFFICES ASSUME Clock!Init PROVE PricesHeld
  OBVIOUS
<1>0. Period \in Nat \ {0} /\ Interval \in Nat \ {0} /\ None \notin Int
  BY TimelineConstants
<1>1. now = 0 /\ dispatch = None /\ calibrated = None /\ latest \in [p5 : {None, 0}, pd : {None, 1 - Period}]
  BY DEF Clock!Init
<1>2. latest \in [p5 : Int \cup {None}, pd : Int \cup {None}] /\ latest.p5 \in {None, 0} /\ latest.pd \in {None, 1 - Period}
  BY <1>0, <1>1
<1>3. Multiple(0, Interval)
  <2>1. 0 = 0 * Interval
    BY <1>0
  <2> QED BY <2>1 DEF Multiple, Of
<1>4. Clock!EndOf(1 - Period, Period) - Period <= 0
  <2>1. Clock!EndOf(1 - Period, Period) < (1 - Period) + Period /\ Clock!EndOf(1 - Period, Period) \in Int
    BY <1>0, EndOfIs
  <2> QED BY <1>0, <2>1
<1> QED BY <1>0, <1>1, <1>2, <1>3, <1>4 DEF PricesHeld

\* Fetches, stale runs and the clock leave what is held on its grids and never ahead of the clock.
LEMMA HeldStays == PricesHeld /\ [Clock!Next]_clock => PricesHeld'
<1> SUFFICES ASSUME PricesHeld, [Clock!Next]_clock PROVE PricesHeld'
  OBVIOUS
<1>0. Period \in Nat \ {0} /\ Interval \in Nat \ {0} /\ None \notin Int
  BY TimelineConstants
<1>1. ASSUME UNCHANGED <<dispatch, latest, calibrated>>, now' \in Nat, now <= now' PROVE PricesHeld'
  <2>1. latest.p5 # None => latest.p5 \in Int
    BY DEF PricesHeld
  <2>2. latest.pd # None => Clock!EndOf(latest.pd, Period) \in Int
    <3>1. latest.pd # None => latest.pd \in Int
      BY DEF PricesHeld
    <3> QED BY <1>0, <3>1, EndOfIs
  <2>3. latest'.p5 # None => Multiple(latest'.p5, Interval) /\ latest'.p5 - Interval <= now'
    BY <1>0, <1>1, <2>1 DEF PricesHeld
  <2>4. latest'.pd # None => Clock!EndOf(latest'.pd, Period) - Period <= now'
    BY <1>0, <1>1, <2>2 DEF PricesHeld
  <2>5. calibrated' = None \/ (calibrated' \in Int /\ Multiple(calibrated', Period) /\ calibrated' <= now')
    BY <1>1 DEF PricesHeld
  <2>6. dispatch' = None \/ (dispatch' \in Int /\ Multiple(dispatch', Interval))
    BY <1>1 DEF PricesHeld
  <2>7. latest' \in [p5 : Int \cup {None}, pd : Int \cup {None}]
    BY <1>1 DEF PricesHeld
  <2> QED BY <1>1, <2>3, <2>4, <2>5, <2>6, <2>7 DEF PricesHeld, Clock!EndOf
<1>2. now \in Int
  BY DEF PricesHeld
<1>3. CASE Clock!Tick
  BY <1>1, <1>3 DEF Clock!Tick, PricesHeld
<1>4. CASE Clock!Poll
  <2>1. UNCHANGED <<now, latest, calibrated>> /\ dispatch' = Clock!EndOf(now + 1, Interval)
    BY <1>4 DEF Clock!Poll
  <2>2. dispatch' \in Int /\ Multiple(dispatch', Interval)
    BY <1>0, <1>2, <2>1, EndOfIs
  <2> QED BY <2>1, <2>2 DEF PricesHeld, Clock!EndOf
<1>5. CASE Clock!HoldRun
  <2>1. UNCHANGED <<now, dispatch, calibrated>>
    BY <1>5 DEF Clock!HoldRun
  <2>a. PICK k \in {"p5", "pd"} : \E run \in Clock!Recent[k] : latest' = [latest EXCEPT ![k] = run]
    BY <1>5 DEF Clock!HoldRun, Clock!Recent
  <2>2. PICK run \in Clock!Recent[k] : latest' = [latest EXCEPT ![k] = run]
    BY <2>a
  <2>3. CASE k = "p5"
    <3>1. PICK late \in 0..1 : run = Clock!EndOf(now + 1, Interval) - late * Interval
      BY <2>2, <2>3 DEF Clock!Recent
    <3>2. PICK e \in Int : e = Clock!EndOf(now + 1, Interval) /\ e < now + 1 + Interval /\ Multiple(e, Interval)
      BY <1>0, <1>2, EndOfIs
    <3>3. Multiple(run, Interval) /\ run \in Int
      BY <1>0, <3>1, <3>2, BackFrom
    <3>4. run - Interval <= now
      <4>1. late = 0 \/ late = 1
        OBVIOUS
      <4> QED BY <1>0, <1>2, <3>1, <3>2, <4>1
    <3>5. latest'.p5 = run /\ latest'.pd = latest.pd /\ latest' \in [p5 : Int \cup {None}, pd : Int \cup {None}]
      BY <2>2, <2>3, <3>3 DEF PricesHeld
    <3> QED BY <2>1, <3>3, <3>4, <3>5 DEF PricesHeld, Clock!EndOf
  <2>4. CASE k = "pd"
    <3>1. PICK late \in 0..1 : run = Clock!EndOf(now, Period) - (1 + late) * Period + 1
      BY <2>2, <2>4 DEF Clock!Recent
    <3>2. PICK e \in Int : e = Clock!EndOf(now, Period) /\ e < now + Period
      BY <1>0, <1>2, EndOfIs
    <3>3. run \in Int /\ run <= e - Period + 1
      <4>1. late = 0 \/ late = 1
        OBVIOUS
      <4>2. (1 + 0) * Period = Period /\ (1 + 1) * Period = Period + Period
        BY <1>0
      <4> QED BY <1>0, <3>1, <3>2, <4>1, <4>2
    <3>4. Clock!EndOf(run, Period) - Period <= now
      <4>1. Clock!EndOf(run, Period) \in Int /\ Clock!EndOf(run, Period) < run + Period
        BY <1>0, <3>3, EndOfIs
      <4> QED BY <1>0, <1>2, <3>2, <3>3, <4>1
    <3>5. latest'.pd = run /\ latest'.p5 = latest.p5 /\ latest' \in [p5 : Int \cup {None}, pd : Int \cup {None}]
      BY <2>2, <2>4, <3>3 DEF PricesHeld
    <3> QED BY <2>1, <3>4, <3>5 DEF PricesHeld, Clock!EndOf
  <2> QED BY <2>3, <2>4
<1>6. CASE Clock!Calibrate
  <2>1. UNCHANGED <<now, dispatch, latest>> /\ calibrated' = Clock!EndOf(now, Period) - Period
    BY <1>6 DEF Clock!Calibrate
  <2>2. PICK e \in Int : e = Clock!EndOf(now, Period) /\ e < now + Period /\ Multiple(e, Period)
    BY <1>0, <1>2, EndOfIs
  <2>3. Multiple(e - 1 * Period, Period)
    BY <1>0, <2>2, BackFrom
  <2>4. calibrated' \in Int /\ Multiple(calibrated', Period) /\ calibrated' <= now
    BY <1>0, <1>2, <2>1, <2>2, <2>3
  <2> QED BY <2>1, <2>4 DEF PricesHeld, Clock!EndOf
<1>7. CASE Clock!Serve
  BY <1>1, <1>2, <1>7 DEF Clock!Serve, PricesHeld
<1>8. CASE UNCHANGED clock
  BY <1>1, <1>2, <1>8 DEF clock, PricesHeld
<1> QED BY <1>3, <1>4, <1>5, <1>6, <1>7, <1>8 DEF Clock!Next

-----------------------------------------------------------------------------
(* The seam *)

\* What the proofs use of the constants of Day27Seam.
LEMMA SeamConstants ==
  /\ None \notin Int /\ SeamInterval \in Nat \ {0} /\ Offset \in Int /\ 1 <= Offset /\ Offset < SeamInterval
  /\ SeamDay \in Nat /\ SeamDay >= 2 /\ ShortFrom \in Nat /\ ShortTo \in Nat
BY SeamRulesAssumption DEF Seam!SeamAssumption

IsSensor(s) == s.detailed \in Seq(Int \cup {None}) /\ s.starts \in Seq(Int)

\* The last of the readable times is a time.
LEMMA GreatestIs ==
  ASSUME NEW l \in Seq(Int \cup {None}), Seam!Readable(l) # {}
  PROVE  Seam!Max(Seam!Readable(l)) \in Int
<1>0. None \notin Int
  BY SeamConstants
<1>a. PICK S : S = Seam!Readable(l)
  OBVIOUS
<1>b. DOMAIN l = 1..Len(l)
  OBVIOUS
<1>c. S = {l[i] : i \in 1..Len(l)} \ {None}
  BY <1>a, <1>b DEF Seam!Readable, Seam!ToSet
<1>1. S = Seam!Readable(l) /\ \A x : x \in S <=> x # None /\ \E i \in 1..Len(l) : l[i] = x
  BY <1>a, <1>c
<1>2. PICK one \in S : one \in Int
  <2>1. PICK x : x \in S
    BY <1>1
  <2>2. PICK i \in 1..Len(l) : l[i] = x /\ x # None
    BY <1>1, <2>1
  <2> QED BY <2>1, <2>2
<1>3. PICK n \in Nat : n = Len(l) /\ 1 <= n
  <2>1. \E i \in 1..Len(l) : l[i] = one
    BY <1>1
  <2> QED BY <2>1
<1>4. PICK f : f = [i \in 1..n |-> IF l[i] = None THEN one ELSE l[i]]
  OBVIOUS
<1>5. \A i \in 1..n : f[i] \in Int /\ f[i] \in S
  <2> SUFFICES ASSUME NEW i \in 1..n PROVE f[i] \in Int /\ f[i] \in S
    OBVIOUS
  <2>1. l[i] \in Int \cup {None}
    BY <1>3
  <2>2. CASE l[i] = None
    BY <1>2, <1>4, <2>2
  <2>3. CASE l[i] # None
    BY <1>1, <1>3, <1>4, <2>1, <2>3
  <2> QED BY <2>2, <2>3
<1>6. PICK m \in 1..n : \A i \in 1..n : f[i] <= f[m]
  <2>1. 1 \in Int /\ n \in Int /\ 1 <= n /\ \A i \in 1..n : f[i] \in Int
    BY <1>3, <1>5
  <2> QED BY <2>1, Extremes
<1>7. \A x \in S : f[m] >= x /\ x \in Int
  <2> SUFFICES ASSUME NEW x \in S PROVE f[m] >= x /\ x \in Int
    OBVIOUS
  <2>1. PICK i \in 1..n : l[i] = x /\ x # None
    BY <1>1, <1>3
  <2>2. f[i] = x
    BY <1>4, <2>1
  <2> QED BY <1>5, <1>6, <2>2
<1>8. Seam!Max(S) \in S
  <2>1. \E x \in S : \A y \in S : x >= y
    BY <1>5, <1>7
  <2> QED BY <2>1 DEF Seam!Max
<1> QED BY <1>1, <1>7, <1>8

\* amber_coverage_end() is a time or nothing.
LEMMA CoverageIs ==
  ASSUME NEW s, IsSensor(s)
  PROVE  Seam!AmberCoverageEnd(s) \in Int \cup {None}
<1>1. s.starts \in Seq(Int \cup {None}) /\ s.detailed \in Seq(Int \cup {None})
  BY DEF IsSensor
<1>2. Seam!Readable(s.detailed) # {} => Seam!Max(Seam!Readable(s.detailed)) \in Int
  BY <1>1, GreatestIs
<1>3. Seam!Readable(s.starts) # {} => Seam!Max(Seam!Readable(s.starts)) \in Int
  BY <1>1, GreatestIs
<1>4. Seam!Readable(s.starts) # {} => Seam!Max(Seam!Readable(s.starts)) + SeamInterval \in Int
  BY <1>3, SeamConstants
<1> QED BY <1>2, <1>4 DEF Seam!AmberCoverageEnd

AreSensors(sensors) == \A i \in DOMAIN sensors : sensors[i] # None => IsSensor(sensors[i])

\* The ends that count are times to come.
LEMMA EndsAre ==
  ASSUME NEW sensors, AreSensors(sensors), NEW at \in Int
  PROVE  Seam!CurrentEnds(sensors, at) \in SUBSET Int /\ \A e \in Seam!CurrentEnds(sensors, at) : e > at
<1> SUFFICES ASSUME NEW e \in Seam!CurrentEnds(sensors, at) PROVE e \in Int /\ e > at
  OBVIOUS
<1>1. PICK s \in Seam!ToSet(sensors) \ {None} : e = Seam!AmberCoverageEnd(s) /\ e # None /\ e > at
  BY DEF Seam!CurrentEnds
<1>2. IsSensor(s)
  BY DEF AreSensors, Seam!ToSet
<1> QED BY <1>1, <1>2, CoverageIs

\* The cutoff by the clock is within a day and a half.
LEMMA CutoffIs ==
  ASSUME NEW at \in Int
  PROVE  /\ Seam!AmberExpressCutoff(at) \in Int /\ at < Seam!AmberExpressCutoff(at)
         /\ Seam!AmberExpressCutoff(at) < at + SeamDay + SeamDay \div 2
<1>1. PICK d \in Int : d = SeamDay /\ d >= 2
  BY SeamConstants
<1>2. PICK r \in Int : r = at % d /\ 0 <= r /\ r < d
  BY <1>1
<1>3. PICK h \in Int : h = d \div 2 /\ h >= 1
  BY <1>1
<1>4. PICK f \in Nat, u \in Nat : f = ShortFrom /\ u = ShortTo
  BY SeamConstants
<1>5. Seam!AmberExpressCutoff(at) = IF r \in f..(u - 1) THEN at - r + f + d ELSE at + d
  BY <1>1, <1>2, <1>4 DEF Seam!AmberExpressCutoff
<1>6. CASE r \in f..(u - 1)
  <2>1. f <= r
    BY <1>6
  <2>2. Seam!AmberExpressCutoff(at) = at - r + f + d
    BY <1>5, <1>6
  <2> QED BY <1>1, <1>2, <1>3, <2>1, <2>2
<1>7. CASE r \notin f..(u - 1)
  <2>1. Seam!AmberExpressCutoff(at) = at + d
    BY <1>5, <1>7
  <2> QED BY <1>1, <1>3, <2>1
<1> QED BY <1>6, <1>7

\* Interval starts on the grid, each after the one before it.
Gridded(s) ==
  /\ s \in Seq(Int) /\ \A i \in 1..Len(s) : s[i] % SeamInterval = 0
  /\ \A i, j \in 1..Len(s) : i < j => s[i] < s[j]

\* What is picked of a gridded series is one.
LEMMA AmongGridded ==
  ASSUME NEW s, Gridded(s), NEW S
  PROVE  /\ Gridded(Among(s, S))
         /\ \A x : (\E i \in 1..Len(Among(s, S)) : Among(s, S)[i] = x) <=> x \in S /\ \E i \in 1..Len(s) : s[i] = x
<1>1. s \in Seq(Int)
  BY DEF Gridded
<1>2. PICK r \in Seq(Int) : r = Among(s, S)
  BY <1>1, AmongIs
<1>3. PICK g : Picks(r, g, s, S)
  BY <1>1, <1>2, AmongIs
<1>4. PICK n \in Nat, m \in Nat : n = Len(r) /\ m = Len(s)
  BY <1>1
<1>5. \A i \in 1..n : g[i] \in 1..m /\ r[i] = s[g[i]] /\ s[g[i]] \in S
  BY <1>3, <1>4 DEF Picks
<1>6. \A i, j \in 1..n : i < j => g[i] < g[j]
  BY <1>3, <1>4 DEF Picks
<1>7. \A k \in 1..m : s[k] \in S => \E i \in 1..n : g[i] = k
  BY <1>3, <1>4 DEF Picks
<1>8. \A i \in 1..n : r[i] % SeamInterval = 0
  BY <1>4, <1>5 DEF Gridded
<1>9. \A i, j \in 1..n : i < j => r[i] < r[j]
  BY <1>4, <1>5, <1>6 DEF Gridded
<1>10. Gridded(r)
  BY <1>4, <1>8, <1>9 DEF Gridded
<1>11. ASSUME NEW x PROVE (\E i \in 1..n : r[i] = x) <=> x \in S /\ \E i \in 1..m : s[i] = x
  <2>1. ASSUME NEW i \in 1..n, r[i] = x PROVE x \in S /\ \E k \in 1..m : s[k] = x
    BY <1>5, <2>1
  <2>2. ASSUME x \in S, NEW k \in 1..m, s[k] = x PROVE \E i \in 1..n : r[i] = x
    <3>1. PICK i \in 1..n : g[i] = k
      BY <1>7, <2>2
    <3> QED BY <1>5, <2>2, <3>1
  <2> QED BY <2>1, <2>2
<1> QED BY <1>2, <1>4, <1>10, <1>11

\* The instances share the one loop.
LEMMA SameAmong == \A s, S : Seam!Among(s, S) = Among(s, S) /\ Tariffs!Among(s, S) = Among(s, S) /\ Prices!Among(s, S) = Among(s, S)
BY DEF Among, Seam!Among, Tariffs!Among, Prices!Among

\* The members of a list.
LEMMA SetOf == ASSUME NEW T, NEW s \in Seq(T) PROVE \A x : x \in Seam!ToSet(s) <=> \E i \in 1..Len(s) : s[i] = x
<1>1. DOMAIN s = 1..Len(s)
  OBVIOUS
<1> QED BY <1>1 DEF Seam!ToSet

Base(u) == u - (u % SeamInterval)

\* The half hour of an instant, and of one pushed off the seam.
LEMMA BaseOf ==
  ASSUME NEW t \in Int, t % SeamInterval = 0
  PROVE  Base(t) = t /\ Base(t + Offset) = t /\ t + Offset \in Int /\ t + Offset # t
<1>1. PICK d \in Int, o \in Int : d = SeamInterval /\ o = Offset /\ 1 <= o /\ o < d
  BY SeamConstants
<1>2. (t + o) % d = o
  BY <1>1
<1> QED BY <1>1, <1>2 DEF Base

\* What is published of a series: what is after the start, the first point
\* moved where it would be Amber's end.
LEMMA MovedIs ==
  ASSUME NEW l, Gridded(l), NEW start, start.at \in Int, NEW times, times = Seam!OffsetSeamPoint(start, l)
  PROVE  /\ times \in Seq(Int) /\ Len(times) = Len(l)
         /\ \A i \in 1..Len(l) : Base(times[i]) = l[i]
         /\ \A i \in 1..Len(l) :
              times[i] = IF i = 1 /\ start.source = "amber" /\ l[1] = start.at THEN start.at + Offset ELSE l[i]
<1>1. l \in Seq(Int) /\ \A i \in 1..Len(l) : l[i] \in Int /\ l[i] % SeamInterval = 0
  BY DEF Gridded
<1>2. PICK n \in Nat : n = Len(l)
  BY <1>1
<1>3. CASE start.source = "amber" /\ l # <<>> /\ l[1] = start.at
  <2>1. PICK x \in Int : x = start.at + Offset /\ x # start.at /\ Base(x) = l[1]
    <3>1. 1 \in 1..Len(l)
      BY <1>1, <1>3
    <3> QED BY <1>1, <1>3, <3>1, BaseOf
  <2>2. times = <<x>> \o Tail(l)
    BY <1>3, <2>1 DEF Seam!OffsetSeamPoint
  <2>3. n # 0 /\ Tail(l) \in Seq(Int) /\ Len(Tail(l)) = n - 1 /\ \A i \in 1..(n - 1) : Tail(l)[i] = l[i + 1]
    BY <1>1, <1>2, <1>3
  <2>4. times \in Seq(Int) /\ Len(times) = n
    BY <1>2, <2>2, <2>3
  <2>5. times[1] = x /\ \A i \in 2..n : times[i] = l[i]
    BY <1>2, <2>2, <2>3
  <2>6. \A i \in 1..n : i = 1 \/ i \in 2..n
    OBVIOUS
  <2>7. \A i \in 1..n : Base(times[i]) = l[i]
    BY <1>1, <1>2, <2>1, <2>5, <2>6, BaseOf
  <2>8. \A i \in 1..n : times[i] = IF i = 1 /\ start.source = "amber" /\ l[1] = start.at THEN start.at + Offset ELSE l[i]
    BY <1>3, <2>1, <2>5, <2>6
  <2> QED BY <1>2, <2>4, <2>7, <2>8
<1>4. CASE ~(start.source = "amber" /\ l # <<>> /\ l[1] = start.at)
  <2>1. times = l
    BY <1>4 DEF Seam!OffsetSeamPoint
  <2>2. \A i \in 1..n : l # <<>>
    BY <1>2
  <2> QED BY <1>1, <1>2, <1>4, <2>1, <2>2, BaseOf
<1> QED BY <1>3, <1>4

\* Wherever the Amber forecasts end, whatever they list and whenever the series is cut:
\* no interval of the series is lost or published twice, and none falls on the seam
\* (day27_start_for(), Day27Start.includes(), offset_seam_point()).
THEOREM SeamWhole ==
  ASSUME NEW sensors, AreSensors(sensors), NEW at \in Int, NEW series, Gridded(series)
  PROVE  Seam!SeamIsWhole(sensors, at, series)
<1>1. PICK ends : ends = Seam!CurrentEnds(sensors, at)
  OBVIOUS
<1>2. ends \in SUBSET Int /\ \A e \in ends : e \in Int /\ e > at
  BY <1>1, EndsAre
<1>3. PICK start : start = Seam!Day27Start(sensors, at)
  OBVIOUS
<1>4. ends # {} => start.source = "amber" /\ start.at \in ends /\ start.at = Seam!Min(ends) /\ \A e \in ends : start.at <= e
  <2> SUFFICES ASSUME ends # {} PROVE start.source = "amber" /\ start.at \in ends /\ start.at = Seam!Min(ends) /\ \A e \in ends : start.at <= e
    OBVIOUS
  <2>1. start = [at |-> Seam!Min(ends), source |-> "amber"]
    BY <1>1, <1>3 DEF Seam!Day27Start
  <2>2. ends \in SUBSET Int /\ ends # {} /\ at \in Int /\ \A e \in ends : at <= e
    BY <1>2
  <2>3. Min(ends) \in ends /\ \A e \in ends : Min(ends) <= e
    BY <2>2, MinIsOne, Zenon
  <2>4. Seam!Min(ends) = Min(ends)
    BY DEF Seam!Min, Min
  <2> QED BY <2>1, <2>3, <2>4
<1>5. ends = {} => start.source = "clock" /\ start.at = Seam!AmberExpressCutoff(at)
  BY <1>1, <1>3 DEF Seam!Day27Start
<1>6. start.at \in Int
  BY <1>2, <1>4, <1>5, CutoffIs
<1>7. PICK after : after = {t \in Seam!ToSet(series) : Seam!Includes(start, t)}
  OBVIOUS
<1>8. PICK l : l = Among(series, after) /\ Gridded(l)
  BY AmongGridded
<1>9. PICK times : times = Seam!Published(sensors, at, series) /\ times = Seam!OffsetSeamPoint(start, l)
  BY <1>3, <1>7, <1>8, SameAmong DEF Seam!Published
<1>10. PICK n \in Nat : n = Len(l)
  BY <1>8 DEF Gridded
<1>11. /\ times \in Seq(Int) /\ Len(times) = n
       /\ \A i \in 1..n : Base(times[i]) = l[i]
       /\ \A i \in 1..n : times[i] = IF i = 1 /\ start.source = "amber" /\ l[1] = start.at THEN start.at + Offset ELSE l[i]
  BY <1>6, <1>8, <1>9, <1>10, MovedIs
<1>12. PICK given : given = Seam!ToSet(series) /\ \A x : x \in given <=> \E i \in 1..Len(series) : series[i] = x
  BY SetOf DEF Gridded
<1>13. \A x : (\E i \in 1..n : l[i] = x) <=> x \in given /\ Seam!Includes(start, x)
  <2>1. \A x : (\E i \in 1..n : l[i] = x) <=> x \in after /\ x \in given
    BY <1>8, <1>10, <1>12, AmongGridded
  <2> QED BY <1>7, <1>12, <2>1
<1>14. PICK listed : listed = {Base(u) : u \in Seam!ToSet(times)}
  OBVIOUS
<1>15. \A x : x \in Seam!ToSet(times) <=> \E i \in 1..n : times[i] = x
  BY <1>11, SetOf
<1>16. \A x : x \in listed <=> x \in given /\ Seam!Includes(start, x)
  <2>1. \A x : x \in listed <=> \E i \in 1..n : l[i] = x
    <3>1. \A x : x \in listed <=> \E i \in 1..n : Base(times[i]) = x
      BY <1>14, <1>15
    <3> QED BY <1>11, <3>1
  <2> QED BY <1>13, <2>1
<1>17. \A x \in given : x \in Int
  BY <1>12 DEF Gridded
<1>18. \A i, j \in DOMAIN times : i < j => Base(times[i]) < Base(times[j])
  <2>1. DOMAIN times = 1..n
    BY <1>11
  <2>2. \A i, j \in 1..n : i < j => l[i] < l[j]
    BY <1>8, <1>10 DEF Gridded
  <2> QED BY <1>11, <2>1, <2>2
<1>19. ends # {} => \A t \in given : (t >= Seam!Min(ends)) = (t \in listed)
  <2> SUFFICES ASSUME ends # {}, NEW t \in given PROVE (t >= Seam!Min(ends)) <=> (t \in listed)
    OBVIOUS
  <2>1. Seam!Includes(start, t) <=> t >= start.at
    BY <1>4 DEF Seam!Includes
  <2> QED BY <1>4, <1>16, <2>1
<1>20. ends # {} => Seam!Min(ends) \notin Seam!ToSet(times)
  <2> SUFFICES ASSUME ends # {}, NEW i \in 1..n, times[i] = start.at PROVE FALSE
    BY <1>4, <1>15
  <2>1. l[i] \in Int /\ l[1] \in Int /\ 1 \in 1..n /\ l[i] % SeamInterval = 0
    BY <1>8, <1>10 DEF Gridded
  <2>2. Offset \in Int /\ 1 <= Offset
    BY SeamConstants
  <2>3. ~(i = 1 /\ l[1] = start.at)
    BY <1>4, <1>6, <1>11, <2>2
  <2>4. l[i] = start.at
    BY <1>11, <2>3
  <2>5. 1 < i
    BY <2>3, <2>4
  <2>6. l[1] < l[i]
    BY <1>8, <1>10, <2>1, <2>5 DEF Gridded
  <2>7. l[1] >= start.at
    <3>1. Seam!Includes(start, l[1])
      BY <1>13, <2>1
    <3> QED BY <1>4, <3>1 DEF Seam!Includes
  <2> QED BY <1>6, <2>1, <2>4, <2>6, <2>7
<1>21. ends = {} => /\ \A t \in given : t >= at + SeamDay + SeamDay \div 2 => t \in listed
                    /\ \A t \in listed : t > at
  <2> SUFFICES ASSUME ends = {}
               PROVE  /\ \A t \in given : t >= at + SeamDay + SeamDay \div 2 => t \in listed
                      /\ \A t \in listed : t > at
    OBVIOUS
  <2>1. \A t : Seam!Includes(start, t) <=> t > start.at
    BY <1>5 DEF Seam!Includes
  <2>2. PICK c \in Int, w \in Int : c = start.at /\ w = at + SeamDay + SeamDay \div 2 /\ at < c /\ c < w
    <3>1. SeamDay \in Nat
      BY SeamConstants
    <3>2. at + SeamDay + SeamDay \div 2 \in Int
      BY <3>1
    <3> QED BY <1>5, <1>6, <3>2, CutoffIs
  <2> QED BY <1>16, <1>17, <2>1, <2>2
<1> QED BY <1>1, <1>9, <1>12, <1>14, <1>18, <1>19, <1>20, <1>21 DEF Seam!SeamIsWhole, Base

-----------------------------------------------------------------------------
(* The tariffs of a distributor *)

InList(s, x) == \E i \in 1..Len(s) : s[i] = x

LEMMA ListSet == ASSUME NEW T, NEW s \in Seq(T) PROVE \A x : x \in Tariffs!ToSet(s) <=> InList(s, x)
<1>1. DOMAIN s = 1..Len(s)
  OBVIOUS
<1> QED BY <1>1 DEF Tariffs!ToSet, InList

\* What is picked is what is in both.
LEMMA AmongList ==
  ASSUME NEW T, NEW s \in Seq(T), NEW S
  PROVE  Among(s, S) \in Seq(T) /\ \A x : InList(Among(s, S), x) <=> x \in S /\ InList(s, x)
<1>1. PICK r \in Seq(T) : r = Among(s, S)
  BY AmongIs
<1>2. PICK g : Picks(r, g, s, S)
  BY <1>1, AmongIs
<1>3. PICK n \in Nat, m \in Nat : n = Len(r) /\ m = Len(s)
  OBVIOUS
<1>4. \A i \in 1..n : g[i] \in 1..m /\ r[i] = s[g[i]] /\ s[g[i]] \in S
  BY <1>2, <1>3 DEF Picks
<1>5. \A k \in 1..m : s[k] \in S => \E i \in 1..n : g[i] = k
  BY <1>2, <1>3 DEF Picks
<1>6. ASSUME NEW x PROVE InList(r, x) <=> x \in S /\ InList(s, x)
  <2>1. ASSUME NEW i \in 1..n, r[i] = x PROVE x \in S /\ \E k \in 1..m : s[k] = x
    BY <1>4, <2>1
  <2>2. ASSUME x \in S, NEW k \in 1..m, s[k] = x PROVE \E i \in 1..n : r[i] = x
    <3>1. PICK i \in 1..n : g[i] = k
      BY <1>5, <2>2
    <3> QED BY <1>4, <2>2, <3>1
  <2> QED BY <1>3, <2>1, <2>2 DEF InList
<1> QED BY <1>1, <1>6

\* Two lists joined have the members of each.
LEMMA JoinedList ==
  ASSUME NEW T, NEW a \in Seq(T), NEW b \in Seq(T)
  PROVE  a \o b \in Seq(T) /\ \A x : InList(a \o b, x) <=> InList(a, x) \/ InList(b, x)
<1>0. a \o b \in Seq(T)
  OBVIOUS
<1>1. PICK s : s = a \o b /\ s \in Seq(T)
  BY <1>0
<1>2. PICK l \in Nat, m \in Nat : l = Len(a) /\ m = Len(b)
  OBVIOUS
<1>3. Len(s) = l + m /\ (\A n \in 1..l : s[n] = a[n]) /\ (\A n \in 1..m : s[l + n] = b[n])
  BY <1>1, <1>2
<1>4. ASSUME NEW x PROVE InList(s, x) <=> InList(a, x) \/ InList(b, x)
  <2>1. ASSUME NEW i \in 1..(l + m), s[i] = x PROVE (\E k \in 1..l : a[k] = x) \/ (\E k \in 1..m : b[k] = x)
    <3>1. CASE i \in 1..l
      BY <1>3, <2>1, <3>1
    <3>2. CASE i \notin 1..l
      <4>1. i - l \in 1..m /\ l + (i - l) = i
        BY <3>2
      <4>2. b[i - l] = x
        BY <1>3, <2>1, <4>1
      <4> QED BY <4>1, <4>2
    <3> QED BY <3>1, <3>2
  <2>2. ASSUME NEW k \in 1..l, a[k] = x PROVE \E i \in 1..(l + m) : s[i] = x
    <3>1. k \in 1..(l + m) /\ s[k] = x
      BY <1>3, <2>2
    <3> QED BY <3>1
  <2>3. ASSUME NEW k \in 1..m, b[k] = x PROVE \E i \in 1..(l + m) : s[i] = x
    <3>1. l + k \in 1..(l + m) /\ s[l + k] = x
      BY <1>3, <2>3
    <3> QED BY <3>1
  <2> QED BY <1>2, <1>3, <2>1, <2>2, <2>3 DEF InList
<1> QED BY <1>1, <1>4

SeamAsked == probe.rule = "seam" => AreSensors(probe.in.sensors) /\ probe.in.at \in Int

\* The sensors enumerated are sensors.
LEMMA AmberSensorsAre == \A s \in AmberSensors : s # None => IsSensor(s)
<1> SUFFICES ASSUME NEW s \in AmberSensors, s # None PROVE IsSensor(s)
  OBVIOUS
<1>1. PICK d \in {<<>>, <<None>>, <<4, None, 24>>, <<8, 28>>}, t \in {<<>>, <<4, 16>>} : s = [detailed |-> d, starts |-> t]
  BY DEF AmberSensors
<1>2. d \in Seq(Int \cup {None})
  <2>1. 4 \in Int \cup {None} /\ 8 \in Int \cup {None} /\ 24 \in Int \cup {None} /\ 28 \in Int \cup {None} /\ None \in Int \cup {None}
    OBVIOUS
  <2>2. <<>> \in Seq(Int \cup {None}) /\ <<None>> \in Seq(Int \cup {None})
    BY <2>1
  <2>3. <<4, None, 24>> \in Seq(Int \cup {None})
    BY <2>1
  <2>4. <<8, 28>> \in Seq(Int \cup {None})
    BY <2>1
  <2> QED BY <2>2, <2>3, <2>4
<1>3. t \in Seq(Int)
  <2>1. <<>> \in Seq(Int) /\ <<4, 16>> \in Seq(Int)
    OBVIOUS
  <2> QED BY <2>1
<1> QED BY <1>1, <1>2, <1>3 DEF IsSensor

\* The series enumerated is gridded.
LEMMA SeriesIsGridded == Gridded([i \in 1..18 |-> SeamInterval * (i - 1)])
<1>1. PICK k \in Nat \ {0} : k = SeamInterval
  BY SeamConstants
<1>2. PICK s : s = [i \in 1..18 |-> k * (i - 1)]
  OBVIOUS
<1>3. \A i \in 1..18 : s[i] = k * (i - 1) /\ s[i] \in Int
  BY <1>2
<1>4. s \in Seq(Int) /\ Len(s) = 18
  BY <1>2, <1>3
<1>5. \A i \in 1..18 : s[i] % k = 0
  <2> SUFFICES ASSUME NEW i \in 1..18 PROVE s[i] % k = 0
    OBVIOUS
  <2> QED BY <1>3
<1>6. \A i, j \in 1..18 : i < j => s[i] < s[j]
  <2> SUFFICES ASSUME NEW i \in 1..18, NEW j \in 1..18, i < j PROVE s[i] < s[j]
    OBVIOUS
  <2> QED BY <1>3
<1> QED BY <1>1, <1>2, <1>4, <1>5, <1>6 DEF Gridded

\* The two rules together, in every state of the enumeration: the timeline prices each
\* interval once and from the finest source that has it, however the sources came and
\* went (forecast_hub.py, price_timeline.py), and where the day 2-7 series meets Amber's
\* forecast nothing is lost or priced twice (nem_time.py, amber_forecast.py).
THEOREM TimelineJoins == PricesSpec => []TimelineIsSeamless
<1>1. PricesInit => PricesHeld /\ SeamAsked
  <2> SUFFICES ASSUME PricesInit PROVE PricesHeld /\ SeamAsked
    OBVIOUS
  <2>1. PricesHeld
    BY HeldAtFirst DEF PricesInit
  <2>2. PICK r \in {"none", "clock"} : probe = [rule |-> r, in |-> <<>>]
    BY DEF PricesInit
  <2>3. probe.rule # "seam"
    BY <2>2
  <2> QED BY <2>1, <2>3 DEF SeamAsked
<1>2. PricesHeld /\ SeamAsked /\ [PricesNext]_<<probe, clock>> => (PricesHeld /\ SeamAsked)'
  <2> SUFFICES ASSUME PricesHeld, SeamAsked, [PricesNext]_<<probe, clock>>
               PROVE  PricesHeld' /\ SeamAsked'
    OBVIOUS
  <2>1. CASE UNCHANGED <<probe, clock>>
    <3>1. UNCHANGED clock /\ UNCHANGED probe
      BY <2>1
    <3> QED BY <3>1, HeldStays DEF SeamAsked
  <2>2. CASE JoinAmber /\ UNCHANGED clock
    <3>1. PICK a \in AmberSensors, b \in AmberSensors, at \in 0..31 :
            probe' = [rule |-> "seam", in |-> [sensors |-> <<a, b>>, at |-> at]]
      BY <2>2 DEF JoinAmber, Ask
    <3>2. probe'.in.sensors = <<a, b>> /\ probe'.in.at \in Int
      BY <3>1
    <3>3. AreSensors(<<a, b>>)
      BY AmberSensorsAre DEF AreSensors
    <3>4. SeamAsked'
      BY <3>2, <3>3 DEF SeamAsked
    <3> QED BY <2>2, <3>4, HeldStays
  <2>3. CASE Release /\ UNCHANGED clock
    <3>1. probe'.rule = "release"
      BY <2>3 DEF Release, Ask
    <3> QED BY <2>3, <3>1, HeldStays DEF SeamAsked
  <2>4. CASE SetPrices /\ UNCHANGED clock
    <3>1. probe'.rule = "prices"
      BY <2>4 DEF SetPrices, Ask
    <3> QED BY <2>4, <3>1, HeldStays DEF SeamAsked
  <2>5. CASE KeepTime
    <3>1. Clock!Next /\ probe' = probe
      BY <2>5 DEF KeepTime
    <3> QED BY <3>1, HeldStays DEF SeamAsked
  <2> QED BY <2>1, <2>2, <2>3, <2>4, <2>5 DEF PricesNext
<1>3. PricesHeld /\ SeamAsked => TimelineIsSeamless
  <2> SUFFICES ASSUME PricesHeld, SeamAsked PROVE TimelineIsSeamless
    OBVIOUS
  <2>1. Clock!TimelineIsSeamless
    BY SeamlessOfHeld
  <2>2. probe.rule = "seam" => Seam!SeamIsWhole(probe.in.sensors, probe.in.at, [i \in 1..18 |-> SeamInterval * (i - 1)])
    <3> SUFFICES ASSUME probe.rule = "seam"
                 PROVE  Seam!SeamIsWhole(probe.in.sensors, probe.in.at, [i \in 1..18 |-> SeamInterval * (i - 1)])
      OBVIOUS
    <3>1. AreSensors(probe.in.sensors) /\ probe.in.at \in Int
      BY DEF SeamAsked
    <3> QED BY <3>1, SeriesIsGridded, SeamWhole
  <2> QED BY <2>1, <2>2 DEF TimelineIsSeamless
<1> QED BY <1>1, <1>2, <1>3, PTL DEF PricesSpec

AnyCode == Codes \cup Tariffs!ToSet(Snapshot) \cup {e.code : e \in Tariffs!ToSet(Extensions)}
IsLib(lib) ==
  /\ lib # None /\ lib.imports \in Seq(AnyCode)
  /\ lib = [imports |-> lib.imports, feedIn |-> lib.feedIn, battery |-> lib.battery]
Extra == [i \in 1..Len(Extensions) |-> Extensions[i].code]

\* What the proofs use of the constants of TariffCatalogue.
LEMMA CatalogueConstants ==
  /\ Snapshot \in Seq(AnyCode) /\ None \notin Tariffs!ToSet(Snapshot)
  /\ Extensions \in Seq(Tariffs!ToSet(Extensions)) /\ Extra \in Seq(AnyCode) /\ Len(Extra) = Len(Extensions)
  /\ \A i, j \in 1..Len(Extensions) : Extra[i] = Extra[j] => i = j
<1>1. Snapshot \in Seq(Tariffs!ToSet(Snapshot)) /\ Extensions \in Seq(Tariffs!ToSet(Extensions))
  BY CatalogueRulesAssumption DEF Tariffs!CatalogueAssumption
<1>2. Snapshot \in Seq(AnyCode)
  BY <1>1 DEF AnyCode
<1>3. PICK n \in Nat : n = Len(Extensions) /\ DOMAIN Extensions = 1..n
  BY <1>1
<1>4. \A i \in 1..n : Extensions[i] \in Tariffs!ToSet(Extensions)
  BY <1>3 DEF Tariffs!ToSet
<1>5. \A i \in 1..n : Extra[i] = Extensions[i].code /\ Extra[i] \in AnyCode
  BY <1>3, <1>4 DEF Extra, AnyCode
<1>6. Extra \in Seq(AnyCode) /\ Len(Extra) = n
  BY <1>3, <1>5 DEF Extra
<1>7. \A i, j \in 1..n : Extra[i] = Extra[j] => i = j
  BY <1>3, <1>5, CatalogueRulesAssumption DEF Tariffs!CatalogueAssumption
<1> QED BY <1>1, <1>2, <1>3, <1>6, <1>7, CatalogueRulesAssumption DEF Tariffs!CatalogueAssumption

\* A distributor's table: the library's codes and the extensions'.
LEMMA TableIs ==
  ASSUME NEW lib, IsLib(lib)
  PROVE  /\ Tariffs!ImportTable(lib) = lib.imports \o Among(Extra, Tariffs!ToSet(Extra) \ Tariffs!ToSet(lib.imports))
         /\ Tariffs!ImportTable(lib) \in Seq(AnyCode)
         /\ \A x : InList(Tariffs!ImportTable(lib), x) <=> InList(lib.imports, x) \/ InList(Extra, x)
<1>1. PICK n \in Nat : n = Len(Extensions) /\ DOMAIN Extensions = 1..n
  BY CatalogueConstants
<1>2. Extra = [i \in DOMAIN Extensions |-> Extensions[i].code]
  BY <1>1 DEF Extra
<1>3. Tariffs!ImportTable(lib) = lib.imports \o Among(Extra, Tariffs!ToSet(Extra) \ Tariffs!ToSet(lib.imports))
  BY <1>2, SameAmong DEF Tariffs!ImportTable
<1>4. PICK p : p = lib.imports /\ p \in Seq(AnyCode)
  BY DEF IsLib
<1>e. PICK x \in Seq(AnyCode) : x = Extra
  BY CatalogueConstants
<1>s. PICK S : S = Tariffs!ToSet(x) \ Tariffs!ToSet(p)
  OBVIOUS
<1>5. \A y : y \in S <=> InList(x, y) /\ ~InList(p, y)
  <2>1. \A y : y \in Tariffs!ToSet(p) <=> InList(p, y)
    BY <1>4, ListSet
  <2>2. \A y : y \in Tariffs!ToSet(x) <=> InList(x, y)
    BY ListSet
  <2> QED BY <1>s, <2>1, <2>2
<1>6. PICK a : a = Among(x, S) /\ a \in Seq(AnyCode) /\ \A y : InList(a, y) <=> y \in S /\ InList(x, y)
  BY AmongList
<1>7. p \o a \in Seq(AnyCode) /\ \A y : InList(p \o a, y) <=> InList(p, y) \/ InList(a, y)
  BY <1>4, <1>6, JoinedList
<1>8. \A y : InList(p \o a, y) <=> InList(p, y) \/ InList(x, y)
  BY <1>5, <1>6, <1>7
<1> QED BY <1>3, <1>4, <1>e, <1>s, <1>6, <1>7, <1>8

\* What the snapshot has of a library's table, and the rest of the table.
Known(lib) == Among(Snapshot, Tariffs!ToSet(Tariffs!ImportTable(lib)))
Unknown(lib) == Among(Tariffs!ImportTable(lib), Tariffs!ToSet(Tariffs!ImportTable(lib)) \ Tariffs!ToSet(Snapshot))

\* The import codes: the known ones in the snapshot's order, then the others.
LEMMA CodesAre ==
  ASSUME NEW lib, IsLib(lib)
  PROVE  /\ Tariffs!ImportCodes(lib) = Known(lib) \o Unknown(lib)
         /\ Known(lib) \in Seq(AnyCode) /\ Unknown(lib) \in Seq(AnyCode)
         /\ \A x : InList(Unknown(lib), x) => x \notin Tariffs!ToSet(Snapshot)
<1>1. lib # None
  BY DEF IsLib
<1>2. Tariffs!ImportCodes(lib) = Known(lib) \o Unknown(lib)
  BY <1>1, SameAmong DEF Tariffs!ImportCodes, Known, Unknown
<1>3. Known(lib) \in Seq(AnyCode)
  BY CatalogueConstants, AmongList DEF Known
<1>4. Tariffs!ImportTable(lib) \in Seq(AnyCode)
  BY TableIs
<1>5. Unknown(lib) \in Seq(AnyCode)
  BY <1>4, AmongList DEF Unknown
<1>6. \A x : InList(Unknown(lib), x) => x \in Tariffs!ToSet(Tariffs!ImportTable(lib)) \ Tariffs!ToSet(Snapshot)
  BY <1>4, AmongList DEF Unknown
<1> QED BY <1>2, <1>3, <1>5, <1>6

\* Codes of the snapshot are in both tables or in neither.
LEMMA KnownStays ==
  ASSUME NEW lib, IsLib(lib), NEW later, IsLib(later),
         Tariffs!ToSet(lib.imports) \subseteq Tariffs!ToSet(later.imports),
         (Tariffs!ToSet(later.imports) \ Tariffs!ToSet(lib.imports)) \intersect Tariffs!ToSet(Snapshot) = {}
  PROVE  Known(later) = Known(lib)
<1>1. PICK s : s = Snapshot /\ s \in Seq(AnyCode)
  BY CatalogueConstants
<1>2. PICK S, R : S = Tariffs!ToSet(Tariffs!ImportTable(later)) /\ R = Tariffs!ToSet(Tariffs!ImportTable(lib))
  OBVIOUS
<1>3. \A x : x \in S <=> InList(later.imports, x) \/ InList(Extra, x)
  BY <1>2, TableIs, ListSet
<1>4. \A x : x \in R <=> InList(lib.imports, x) \/ InList(Extra, x)
  BY <1>2, TableIs, ListSet
<1>5. \A x \in Tariffs!ToSet(s) : InList(later.imports, x) <=> InList(lib.imports, x)
  <2>1. \A x : x \in Tariffs!ToSet(later.imports) <=> InList(later.imports, x)
    BY ListSet DEF IsLib
  <2>2. \A x : x \in Tariffs!ToSet(lib.imports) <=> InList(lib.imports, x)
    BY ListSet DEF IsLib
  <2> QED BY <1>1, <2>1, <2>2
<1>6. \A x \in Tariffs!ToSet(s) : x \in S <=> x \in R
  BY <1>3, <1>4, <1>5
<1>7. \A n \in 1..Len(s) : s[n] \in S <=> s[n] \in R
  <2>1. \A n \in 1..Len(s) : s[n] \in Tariffs!ToSet(s)
    BY <1>1 DEF Tariffs!ToSet
  <2> QED BY <1>6, <2>1
<1>8. Among(s, S) = Among(s, R)
  BY <1>1, <1>7, AmongSame
<1> QED BY <1>1, <1>2, <1>8 DEF Known

\* The snapshot's codes among the import codes are the known ones.
LEMMA KnownOfCodes ==
  ASSUME NEW lib, IsLib(lib)
  PROVE  Among(Tariffs!ImportCodes(lib), Tariffs!ToSet(Snapshot)) = Among(Known(lib), Tariffs!ToSet(Snapshot))
<1>1. PICK a, b, S : a = Known(lib) /\ b = Unknown(lib) /\ S = Tariffs!ToSet(Snapshot)
                     /\ a \in Seq(AnyCode) /\ b \in Seq(AnyCode)
  BY CodesAre
<1>2. \A x : InList(b, x) => x \notin S
  BY <1>1, CodesAre
<1>3. \A n \in 1..Len(b) : b[n] \notin S
  BY <1>2 DEF InList
<1>4. Among(b, S) = <<>>
  <2>1. b \in Seq(AnyCode)
    BY <1>1
  <2> QED BY <1>3, <2>1, AmongNone
<1>5. Among(a \o b, S) = Among(a, S) \o Among(b, S)
  <2>1. a \in Seq(AnyCode) /\ b \in Seq(AnyCode)
    BY <1>1
  <2> QED BY <2>1, AmongJoined
<1>6. PICK r \in Seq(AnyCode) : r = Among(a, S)
  BY <1>1, AmongList
<1>7. r \o <<>> = r
  OBVIOUS
<1> QED BY <1>1, <1>4, <1>5, <1>6, <1>7, CodesAre

\* The first enabled code is one of the snapshot, or there is none there.
LEMMA DefaultIs ==
  ASSUME NEW lib, IsLib(lib)
  PROVE  /\ Among(Known(lib), Enabled) # <<>> => Tariffs!DefaultTariff(lib) = Head(Among(Known(lib), Enabled))
         /\ Among(Known(lib), Enabled) = <<>> => Tariffs!DefaultTariff(lib) \notin Tariffs!ToSet(Snapshot)
<1>1. PICK a, b : a = Known(lib) /\ b = Unknown(lib) /\ a \in Seq(AnyCode) /\ b \in Seq(AnyCode)
  BY CodesAre
<1>2. PICK on : on = Among(Tariffs!ImportCodes(lib), Enabled)
  OBVIOUS
<1>3. PICK p, q : p = Among(a, Enabled) /\ q = Among(b, Enabled) /\ p \in Seq(AnyCode) /\ q \in Seq(AnyCode)
  BY <1>1, AmongList
<1>4. on = p \o q
  <2>1. a \in Seq(AnyCode) /\ b \in Seq(AnyCode)
    BY <1>1
  <2>2. Among(a \o b, Enabled) = Among(a, Enabled) \o Among(b, Enabled)
    BY <2>1, AmongJoined
  <2>3. Tariffs!ImportCodes(lib) = a \o b
    BY <1>1, CodesAre
  <2> QED BY <1>2, <1>3, <2>2, <2>3
<1>5. Tariffs!DefaultTariff(lib) = IF on = <<>> THEN None ELSE Head(on)
  BY <1>2, SameAmong DEF Tariffs!DefaultTariff
<1>6. CASE p # <<>>
  <2>1. on # <<>> /\ Head(on) = Head(p)
    BY <1>3, <1>4, <1>6
  <2> QED BY <1>1, <1>3, <1>5, <1>6, <2>1
<1>7. CASE p = <<>>
  <2>1. on = q
    BY <1>3, <1>4, <1>7
  <2>2. CASE on = <<>>
    BY <1>1, <1>3, <1>5, <1>7, <2>2, CatalogueConstants
  <2>3. CASE on # <<>>
    <3>1. Len(q) \in Nat /\ Len(q) # 0
      BY <1>3, <2>1, <2>3
    <3>2. 1 \in 1..Len(q)
      BY <3>1
    <3>3. InList(q, Head(q))
      BY <1>3, <3>2 DEF InList
    <3>4. InList(b, Head(q))
      BY <1>1, <1>3, <3>3, AmongList
    <3>5. Head(q) \notin Tariffs!ToSet(Snapshot)
      BY <1>1, <3>4, CodesAre
    <3> QED BY <1>1, <1>3, <1>5, <1>7, <2>1, <2>3, <3>5
  <2> QED BY <2>2, <2>3
<1> QED BY <1>6, <1>7

\* For any two libraries of which the later has all the codes of the earlier and no new
\* one of the snapshot's: the region's default and the order of the snapshot's codes stay
\* (import_tariff_codes(), default_tariff()).
THEOREM DefaultPinned ==
  ASSUME NEW lib, IsLib(lib), NEW later, IsLib(later)
  PROVE  Tariffs!DefaultIsPinned(lib, later)
<1> SUFFICES ASSUME Tariffs!ToSet(lib.imports) \subseteq Tariffs!ToSet(later.imports),
                    (Tariffs!ToSet(later.imports) \ Tariffs!ToSet(lib.imports)) \intersect Tariffs!ToSet(Snapshot) = {},
                    Tariffs!DefaultTariff(lib) \in Tariffs!ToSet(Snapshot)
             PROVE  /\ Tariffs!DefaultTariff(later) = Tariffs!DefaultTariff(lib)
                    /\ Among(Tariffs!ImportCodes(later), Tariffs!ToSet(Snapshot)) = Among(Tariffs!ImportCodes(lib), Tariffs!ToSet(Snapshot))
  BY SameAmong DEF Tariffs!DefaultIsPinned
<1>1. Known(later) = Known(lib)
  BY KnownStays
<1>2. Among(Known(lib), Enabled) # <<>>
  BY DefaultIs
<1>3. Tariffs!DefaultTariff(later) = Tariffs!DefaultTariff(lib)
  BY <1>1, <1>2, DefaultIs
<1> QED BY <1>1, <1>3, KnownOfCodes

\* The extensions a library lacks.
Lacking(lib) == {x \in Tariffs!ToSet(Extensions) : Tariffs!PricedByExtension(lib, x.code, FALSE)}

\* Which extensions a library lacks, by place.
LEMMA LackingIs ==
  ASSUME NEW lib, IsLib(lib)
  PROVE  /\ \A k \in 1..Len(Extensions) : Extensions[k] \in Lacking(lib) <=> ~InList(lib.imports, Extra[k])
         /\ \A x \in Lacking(lib) : \E k \in 1..Len(Extensions) : x = Extensions[k]
<1>1. PICK n \in Nat : n = Len(Extensions) /\ DOMAIN Extensions = 1..n
  BY CatalogueConstants
<1>2. PICK E : E = Tariffs!ToSet(Extensions) /\ E = {Extensions[k] : k \in 1..n}
  BY <1>1 DEF Tariffs!ToSet
<1>5. lib # None /\ \A x : x \in Tariffs!ToSet(lib.imports) <=> InList(lib.imports, x)
  BY ListSet DEF IsLib
<1>6. ASSUME NEW k \in 1..n PROVE Extensions[k] \in Lacking(lib) <=> ~InList(lib.imports, Extra[k])
  <2>1. PICK x : x = Extensions[k] /\ x \in E
    BY <1>2
  <2>2. Extra[k] = x.code
    BY <1>1, <2>1 DEF Extra
  <2>3. x \in Tariffs!ExtensionOf(x.code)
    BY <1>2, <2>1 DEF Tariffs!ExtensionOf
  <2>4. Tariffs!PricedByExtension(lib, x.code, FALSE) <=> x.code \notin Tariffs!ToSet(lib.imports)
    BY <1>5, <2>3 DEF Tariffs!PricedByExtension
  <2>5. x \in Lacking(lib) <=> Tariffs!PricedByExtension(lib, x.code, FALSE)
    BY <1>2, <2>1 DEF Lacking
  <2> QED BY <1>5, <2>1, <2>2, <2>4, <2>5
<1>7. \A x \in Lacking(lib) : \E k \in 1..n : x = Extensions[k]
  BY <1>2 DEF Lacking
<1> QED BY <1>1, <1>6, <1>7

\* When it lacks one, every other extension's code is in its table.
LEMMA OneLacking ==
  ASSUME NEW lib, IsLib(lib), NEW e, Lacking(lib) = {e}
  PROVE  \E k \in 1..Len(Extensions) :
           /\ Extensions[k] = e /\ Extra[k] = e.code
           /\ \A j \in 1..Len(Extensions) : InList(lib.imports, Extra[j]) <=> j # k
<1>3. Lacking(lib) = {e}
  OBVIOUS
<1>4. PICK n \in Nat : n = Len(Extensions) /\ DOMAIN Extensions = 1..n
  BY CatalogueConstants
<1>5. PICK k \in 1..n : e = Extensions[k]
  BY <1>3, <1>4, LackingIs
<1>6. Extra[k] = e.code
  BY <1>4, <1>5 DEF Extra
<1>7. ASSUME NEW j \in 1..n PROVE InList(lib.imports, Extra[j]) <=> j # k
  <2>1. ~InList(lib.imports, Extra[j]) <=> Extensions[j] = e
    BY <1>3, <1>4, LackingIs
  <2>2. Extensions[j] = e => j = k
    <3>1. Extra[j] = Extensions[j].code
      BY <1>4 DEF Extra
    <3> QED BY <1>4, <1>6, <3>1, CatalogueConstants
  <2> QED BY <1>5, <2>1, <2>2
<1> QED BY <1>4, <1>5, <1>6, <1>7

Fed(e) == e.feedIn = TRUE
IsTaken(later, lib, e) ==
  /\ IsLib(lib) /\ e \in Tariffs!ToSet(Extensions) /\ e.code \in AnyCode
  /\ later = Tariffs!TakenOver(lib, e) /\ later # None
  /\ lib.feedIn # None => later.feedIn # None

\* A Boolean field, as a formula.
LEMMA FedIs == \A e \in Tariffs!ToSet(Extensions) : e.feedIn <=> Fed(e)
<1>1. \A e \in Tariffs!ToSet(Extensions) : e.feedIn \in BOOLEAN
  BY CatalogueRulesAssumption DEF Tariffs!CatalogueAssumption
<1> QED BY <1>1, Zenon DEF Fed

\* The library after the takeover, field by field.
LEMMA TakenIs ==
  ASSUME NEW lib, NEW e, NEW later, IsTaken(later, lib, e)
  PROVE  /\ IsLib(later) /\ later.imports = Append(lib.imports, e.code) /\ later.battery = lib.battery
         /\ later.feedIn = IF lib.feedIn = None \/ ~Fed(e) THEN lib.feedIn ELSE lib.feedIn \union {e.code}
<1>1. PICK p, f, b : lib = [imports |-> p, feedIn |-> f, battery |-> b] /\ p = lib.imports /\ f = lib.feedIn /\ b = lib.battery
                     /\ p \in Seq(AnyCode)
  BY DEF IsTaken, IsLib
<1>2. PICK q, g : q = Append(p, e.code) /\ g = IF f = None \/ ~Fed(e) THEN f ELSE f \union {e.code}
  OBVIOUS
<1>a. later = [[lib EXCEPT !.imports = Append(@, e.code)] EXCEPT !.feedIn = IF @ = None \/ ~Fed(e) THEN @ ELSE @ \union {e.code}]
  <2>1. later = [lib EXCEPT !.imports = Append(@, e.code), !.feedIn = IF @ = None \/ ~e.feedIn THEN @ ELSE @ \union {e.code}]
    BY Zenon DEF IsTaken, Tariffs!TakenOver
  <2>2. e.feedIn <=> Fed(e)
    BY FedIs, Zenon DEF IsTaken
  <2> QED BY <2>1, <2>2, Zenon
<1>3. later = [imports |-> q, feedIn |-> g, battery |-> b]
  BY <1>1, <1>2, <1>a
<1>4. later.imports = q /\ later.feedIn = g /\ later.battery = b
  BY <1>3
<1>5. q \in Seq(AnyCode)
  BY <1>1, <1>2 DEF IsTaken
<1>6. IsLib(later)
  BY <1>3, <1>4, <1>5 DEF IsLib, IsTaken
<1> QED BY <1>1, <1>2, <1>4, <1>6

\* The library's table ends where the extension's code was put after it.
LEMMA TableStays ==
  ASSUME NEW lib, NEW e, NEW later, IsTaken(later, lib, e), Lacking(lib) = {e}
  PROVE  Tariffs!ImportTable(later) = Tariffs!ImportTable(lib)
<1>1. PICK n \in Nat : n = Len(Extensions) /\ Len(Extra) = n /\ Extra \in Seq(AnyCode)
  BY CatalogueConstants
<1>2. PICK k \in 1..n : Extra[k] = e.code /\ \A j \in 1..n : InList(lib.imports, Extra[j]) <=> j # k
  BY <1>1, OneLacking DEF IsTaken
<1>3. PICK x, s : x = Extra /\ s = Tariffs!ToSet(x) /\ x \in Seq(AnyCode) /\ Len(x) = n
  BY <1>1
<1>4. \A j \in 1..n : x[j] \in s
  BY <1>3 DEF Tariffs!ToSet
<1>5. PICK p \in Seq(AnyCode) : p = lib.imports
  BY DEF IsTaken, IsLib
<1>6. PICK c \in AnyCode : c = e.code
  BY DEF IsTaken
<1>7. PICK q \in Seq(AnyCode) : q = later.imports /\ q = Append(p, c)
  <2>1. later.imports = Append(lib.imports, e.code)
    BY TakenIs
  <2>2. later.imports = Append(p, c)
    BY <1>5, <1>6, <2>1
  <2>3. Append(p, c) \in Seq(AnyCode)
    OBVIOUS
  <2> QED BY <2>2, <2>3
<1>8. \A y : y \in Tariffs!ToSet(p) <=> InList(p, y)
  BY ListSet
<1>9. \A y : y \in Tariffs!ToSet(q) <=> InList(q, y)
  BY ListSet
<1>10. \A y : InList(q, y) <=> InList(p, y) \/ y = c
  <2>1. q = p \o <<c>> /\ <<c>> \in Seq(AnyCode)
    BY <1>7, AppendJoins
  <2>2. \A y : InList(<<c>>, y) <=> y = c
    BY DEF InList
  <2> QED BY <2>1, <2>2, JoinedList
<1>11. Among(x, s \ Tariffs!ToSet(p)) = <<c>>
  <2>1. \A j \in 1..n : x[j] \in s \ Tariffs!ToSet(p) <=> j = k
    BY <1>2, <1>3, <1>4, <1>5, <1>8
  <2>2. Among(x, s \ Tariffs!ToSet(p)) = <<x[k]>>
    BY <1>3, <2>1, AmongOne
  <2> QED BY <1>2, <1>3, <1>6, <2>2
<1>12. Among(x, s \ Tariffs!ToSet(q)) = <<>>
  <2>1. \A j \in 1..n : x[j] \notin s \ Tariffs!ToSet(q)
    BY <1>2, <1>3, <1>4, <1>5, <1>6, <1>9, <1>10
  <2> QED BY <1>3, <2>1, AmongNone
<1>13. Tariffs!ImportTable(lib) = p \o <<c>>
  <2>1. IsLib(lib)
    BY DEF IsTaken
  <2> QED BY <1>3, <1>5, <1>11, <2>1, TableIs
<1>14. Tariffs!ImportTable(later) = q \o <<>>
  BY <1>3, <1>7, <1>12, TableIs, TakenIs
<1>15. q \o <<>> = q /\ q = p \o <<c>>
  BY <1>7, AppendJoins
<1> QED BY <1>13, <1>14, <1>15

\* What the library lists for feed-in, before and after.
LEMMA FeedInIs ==
  ASSUME NEW lib, NEW e, NEW later, IsTaken(later, lib, e)
  PROVE  /\ lib # None /\ later # None /\ later.battery = lib.battery
         /\ e \in Tariffs!ToSet(Extensions)
         /\ (lib.feedIn = None) = (later.feedIn = None)
         /\ Tariffs!FeedIn(lib) = (IF lib.feedIn = None THEN {} ELSE lib.feedIn)
         /\ Tariffs!FeedIn(later) = (IF later.feedIn = None THEN {} ELSE later.feedIn)
         /\ lib.feedIn # None /\ Fed(e) => later.feedIn = lib.feedIn \union {e.code}
         /\ ~Fed(e) => later.feedIn = lib.feedIn
<1>1. lib # None /\ later # None /\ e \in Tariffs!ToSet(Extensions)
  BY DEF IsTaken, IsLib
<1>2. later.battery = lib.battery /\ later.feedIn = IF lib.feedIn = None \/ ~Fed(e) THEN lib.feedIn ELSE lib.feedIn \union {e.code}
  BY TakenIs
<1>3. lib.feedIn # None => later.feedIn # None
  BY DEF IsTaken
<1>4. lib.feedIn = None => later.feedIn = None
  BY <1>2
<1>5. Tariffs!FeedIn(lib) = (IF lib.feedIn = None THEN {} ELSE lib.feedIn)
  BY <1>1 DEF Tariffs!FeedIn
<1>6. Tariffs!FeedIn(later) = (IF later.feedIn = None THEN {} ELSE later.feedIn)
  BY <1>1 DEF Tariffs!FeedIn
<1> QED BY <1>1, <1>2, <1>3, <1>4, <1>5, <1>6

FedCodes == {x.code : x \in {y \in Tariffs!ToSet(Extensions) : Fed(y)}}

BatteryCodes(battery) == UNION {Tariffs!ToSet(b.exports) : b \in Tariffs!ToSet(battery)}

ExtensionExports == {e.code : e \in {x \in Tariffs!ToSet(Extensions) : x.feedIn}}

\* The export codes: the feed-in table's, the battery tariffs' and the extensions'.
LEMMA ExportCodesAre ==
  ASSUME NEW lib
  PROVE  Tariffs!ExportCodes(lib) = Tariffs!FeedIn(lib) \union BatteryCodes(lib.battery) \union FedCodes
<1>1. {x \in Tariffs!ToSet(Extensions) : x.feedIn} = {y \in Tariffs!ToSet(Extensions) : Fed(y)}
  BY FedIs, Zenon
<1>2. ExtensionExports = FedCodes
  BY <1>1, Zenon DEF FedCodes, ExtensionExports
<1>3. Tariffs!ExportCodes(lib) = Tariffs!FeedIn(lib) \union BatteryCodes(lib.battery) \union ExtensionExports
  BY Zenon DEF Tariffs!ExportCodes, BatteryCodes, ExtensionExports
<1> QED BY <1>2, <1>3

\* The takeover leaves the export codes as they were: the extension listed its own.
LEMMA ExportsStay ==
  ASSUME NEW lib, NEW e, NEW later, IsTaken(later, lib, e)
  PROVE  Tariffs!ExportCodes(later) = Tariffs!ExportCodes(lib)
<1>1. PICK F, G : F = Tariffs!FeedIn(lib) /\ G = Tariffs!FeedIn(later)
  OBVIOUS
<1>2. G = F \/ (Fed(e) /\ G = F \union {e.code})
  BY <1>1, FeedInIs
<1>3. Fed(e) => e.code \in FedCodes
  BY FeedInIs DEF FedCodes
<1>4. PICK B : B = BatteryCodes(lib.battery) /\ B = BatteryCodes(later.battery)
  BY FeedInIs
<1>6. Tariffs!ExportCodes(lib) = F \union B \union FedCodes
  BY <1>1, <1>4, ExportCodesAre
<1>7. Tariffs!ExportCodes(later) = G \union B \union FedCodes
  BY <1>1, <1>4, ExportCodesAre
<1>8. F \union B \union FedCodes = G \union B \union FedCodes
  BY <1>2, <1>3
<1> QED BY <1>6, <1>7, <1>8

\* priced_by_extension() on export.
LEMMA SupportedIs ==
  ASSUME NEW lib, lib # None, NEW c
  PROVE  Tariffs!ExportSupported(lib, c) <=>
           \/ c \in FedCodes /\ c \notin Tariffs!FeedIn(lib)
           \/ lib.feedIn = None \/ c \in lib.feedIn
<1>1. (\E e \in Tariffs!ExtensionOf(c) : TRUE => e.feedIn) <=> c \in FedCodes
  <2>1. \A e \in Tariffs!ExtensionOf(c) : e \in Tariffs!ToSet(Extensions) /\ e.code = c
    BY DEF Tariffs!ExtensionOf
  <2>2. \A e \in Tariffs!ToSet(Extensions) : e.code = c => e \in Tariffs!ExtensionOf(c)
    BY DEF Tariffs!ExtensionOf
  <2>3. (\E e \in Tariffs!ExtensionOf(c) : TRUE => e.feedIn) <=> \E e \in Tariffs!ExtensionOf(c) : Fed(e)
    BY <2>1, FedIs, Zenon
  <2>4. (\E e \in Tariffs!ExtensionOf(c) : Fed(e)) <=> c \in FedCodes
    BY <2>1, <2>2 DEF FedCodes
  <2> QED BY <2>3, <2>4, Zenon
<1>2. Tariffs!PricedByExtension(lib, c, TRUE) <=> c \in FedCodes /\ c \notin Tariffs!FeedIn(lib)
  BY <1>1, Zenon DEF Tariffs!PricedByExtension
<1> QED BY <1>2, Zenon DEF Tariffs!ExportSupported

\* And it leaves each as it was, priceable or not.
LEMMA SupportStays ==
  ASSUME NEW lib, NEW e, NEW later, IsTaken(later, lib, e), NEW c
  PROVE  Tariffs!ExportSupported(later, c) <=> Tariffs!ExportSupported(lib, c)
<1>1. PICK f, g, x : f = lib.feedIn /\ g = later.feedIn /\ x = e.code
  OBVIOUS
<1>2. Fed(e) => x \in FedCodes
  BY <1>1, FeedInIs DEF FedCodes
<1>3. Tariffs!ExportSupported(lib, c) <=>
        \/ c \in FedCodes /\ c \notin (IF f = None THEN {} ELSE f)
        \/ f = None \/ c \in f
  BY <1>1, FeedInIs, SupportedIs
<1>4. Tariffs!ExportSupported(later, c) <=>
        \/ c \in FedCodes /\ c \notin (IF g = None THEN {} ELSE g)
        \/ g = None \/ c \in g
  BY <1>1, FeedInIs, SupportedIs
<1>5. (f = None) = (g = None) /\ (f # None /\ Fed(e) => g = f \union {x}) /\ (~Fed(e) => g = f)
  BY <1>1, FeedInIs
<1> QED BY <1>2, <1>3, <1>4, <1>5

\* For any library that lacks one extension: the release that carries it changes neither
\* the codes, nor their order, nor what they are paired with and whether that is priced
\* (import_tariffs(), export_programs(), unpaired_export_codes(), export_program_supported()).
THEOREM TakeoverSeamless ==
  ASSUME NEW lib, IsLib(lib),
         \A e \in Tariffs!ToSet(Extensions) :
           Tariffs!TakenOver(lib, e) # None /\ (lib.feedIn # None => Tariffs!TakenOver(lib, e).feedIn # None)
  PROVE  Tariffs!TakeoverIsSeamless(lib)
<1> SUFFICES ASSUME NEW e \in Tariffs!ToSet(Extensions), NEW later, later = Tariffs!TakenOver(lib, e), Lacking(lib) = {e}
             PROVE  /\ ~Tariffs!PricedByExtension(later, e.code, FALSE)
                    /\ Tariffs!ImportCodes(later) = Tariffs!ImportCodes(lib)
                    /\ Tariffs!ExportPrograms(later) = Tariffs!ExportPrograms(lib)
                    /\ Tariffs!Unpaired(later) = Tariffs!Unpaired(lib)
                    /\ \A c \in DOMAIN Tariffs!ExportPrograms(lib) :
                         Tariffs!ExportSupported(later, Tariffs!ExportPrograms(lib)[c])
                           <=> Tariffs!ExportSupported(lib, Tariffs!ExportPrograms(lib)[c])
  BY DEF Tariffs!TakeoverIsSeamless, Lacking
<1>1. IsTaken(later, lib, e)
  <2>1. e \in Tariffs!ToSet(Extensions)
    BY DEF Lacking
  <2>2. e.code \in AnyCode
    BY <2>1 DEF AnyCode
  <2>3. e.feedIn \in BOOLEAN
    BY <2>1, CatalogueRulesAssumption DEF Tariffs!CatalogueAssumption
  <2> QED BY <2>1, <2>2, <2>3 DEF IsTaken
<1>2. IsLib(later) /\ lib # None /\ later # None /\ later.battery = lib.battery
  BY <1>1, TakenIs DEF IsTaken, IsLib
<1>3. Tariffs!ImportTable(later) = Tariffs!ImportTable(lib)
  BY <1>1, TableStays
<1>4. Tariffs!ImportCodes(later) = Tariffs!ImportCodes(lib)
  BY <1>2, <1>3 DEF Tariffs!ImportCodes
<1>5. Tariffs!ExportCodes(later) = Tariffs!ExportCodes(lib)
  BY <1>1, ExportsStay
<1>6. \A c : Tariffs!ExportOf(later, c) = Tariffs!ExportOf(lib, c)
  BY <1>2, <1>5 DEF Tariffs!ExportOf
<1>7. Tariffs!ExportPrograms(later) = Tariffs!ExportPrograms(lib)
  BY <1>2, <1>4, <1>6 DEF Tariffs!ExportPrograms
<1>8. Tariffs!Unpaired(later) = Tariffs!Unpaired(lib)
  BY <1>5, <1>7 DEF Tariffs!Unpaired
<1>9. ~Tariffs!PricedByExtension(later, e.code, FALSE)
  <2>1. PICK p \in Seq(AnyCode), c \in AnyCode : c = e.code /\ later.imports = Append(p, c)
    <3>1. later.imports = Append(lib.imports, e.code)
      BY <1>1, TakenIs
    <3>2. e.code \in AnyCode /\ lib.imports \in Seq(AnyCode)
      BY <1>1 DEF IsTaken, IsLib
    <3> QED BY <3>1, <3>2
  <2>2. PICK q \in Seq(AnyCode) : q = later.imports /\ q = Append(p, c)
    BY <2>1
  <2>3. Len(q) \in 1..Len(q) /\ q[Len(q)] = c
    BY <2>2
  <2>4. c \in Tariffs!ToSet(q)
    BY <2>3 DEF Tariffs!ToSet
  <2> QED BY <1>2, <2>1, <2>2, <2>4 DEF Tariffs!PricedByExtension
<1> QED BY <1>1, <1>4, <1>7, <1>8, <1>9, SupportStays

-----------------------------------------------------------------------------
(* What a tariff costs *)

\* What the proofs use of the constants of TariffPricing.
LEMMA PricingConstants ==
  None \notin Int /\ TariffDay \in Nat \ {0} /\ Months \in Nat \ {0}
BY PricingRulesAssumption DEF Prices!PricingAssumption

LEMMA FirstMin == \A S : Prices!Min(S) = Min(S)
BY DEF Min, Prices!Min

Windowed(r) == r.start # None /\ r.end # None
\* Unrated rows are the last of a table.
GoodRows(rows) ==
  /\ rows \in Seq(Prices!ToSet(rows))
  /\ \A i \in 1..Len(rows) : rows[i] # None /\ rows[i].rate \in Int \cup {None}
  /\ \A i, j \in 1..Len(rows) : i < j /\ rows[i].rate = None => rows[j].rate = None
HitsOf(rows, t) == {i \in 1..Len(rows) : Prices!Within(rows[i], t)}
WindowHits(rows, t) == {i \in 1..Len(rows) : Windowed(rows[i]) /\ Prices!Within(rows[i], t)}

\* The library's rate is that of the first windowed row that has the interval.
LEMMA LibraryRateIs ==
  ASSUME NEW tariff, NEW end, NEW rows, rows = Prices!RowsIn(tariff, end - 1), GoodRows(rows),
         NEW I, I = WindowHits(rows, (end - 1) % TariffDay), I # {}
  PROVE  Prices!LibraryRate(tariff, end) = rows[Min(I)].rate
<1>1. PICK n \in Nat : n = Len(rows)
  BY DEF GoodRows
<1>2. I \in SUBSET Int /\ 1 \in Int /\ \A i \in I : 1 <= i
  BY <1>1 DEF WindowHits
<1>3. Min(I) \in I
  BY <1>2, MinIsOne, Zenon
<1>4. Min(I) \in 1..n /\ Min(I) # 0
  BY <1>1, <1>3 DEF WindowHits
<1>5. PICK k : k = Min(I) /\ k = Prices!Min(I)
  BY FirstMin
<1>6. rows[k] # None
  BY <1>1, <1>4, <1>5 DEF GoodRows
<1>7. I = {i \in 1..Len(rows) : rows[i].start # None /\ rows[i].end # None /\ Prices!Within(rows[i], (end - 1) % TariffDay)}
  BY DEF WindowHits, Windowed
<1>8. Prices!First(rows, LAMBDA r : r.start # None /\ r.end # None /\ Prices!Within(r, (end - 1) % TariffDay)) = rows[k]
  BY <1>4, <1>5, <1>7 DEF Prices!First, Prices!SelectInSeq
<1> QED BY <1>5, <1>6, <1>8 DEF Prices!LibraryRate

\* The extension's too, where no window runs past midnight.
LEMMA ExtensionRateIs ==
  ASSUME NEW tariff, NEW end, NEW rows, rows = Prices!RowsIn(tariff, end - 1), GoodRows(rows),
         NEW I, I = WindowHits(rows, (end - 1) % TariffDay), I # {},
         \A i \in 1..Len(rows) : Windowed(rows[i]) /\ rows[i].start \in Int /\ rows[i].end \in Int /\ rows[i].start <= rows[i].end
  PROVE  Prices!ExtensionRate(tariff, end) = rows[Min(I)].rate
<1>1. PICK n \in Nat : n = Len(rows)
  BY DEF GoodRows
<1>2. I \in SUBSET Int /\ 1 \in Int /\ \A i \in I : 1 <= i
  BY <1>1 DEF WindowHits
<1>3. Min(I) \in I
  BY <1>2, MinIsOne, Zenon
<1>4. Min(I) \in 1..n /\ Min(I) # 0
  BY <1>1, <1>3 DEF WindowHits
<1>5. PICK k : k = Min(I) /\ k = Prices!Min(I)
  BY FirstMin
<1>6. rows[k] # None
  BY <1>1, <1>4, <1>5 DEF GoodRows
<1>7. I = {i \in 1..Len(rows) : rows[i].start <= (end - 1) % TariffDay /\ (end - 1) % TariffDay < rows[i].end}
  <2>1. \A i \in 1..Len(rows) : Prices!Within(rows[i], (end - 1) % TariffDay)
                                <=> rows[i].start <= (end - 1) % TariffDay /\ (end - 1) % TariffDay < rows[i].end
    BY DEF Prices!Within
  <2> QED BY <2>1 DEF WindowHits
<1>8. Prices!First(rows, LAMBDA r : r.start <= (end - 1) % TariffDay /\ (end - 1) % TariffDay < r.end) = rows[k]
  BY <1>4, <1>5, <1>7 DEF Prices!First, Prices!SelectInSeq
<1> QED BY <1>5, <1>6, <1>8 DEF Prices!ExtensionRate

\* The period published is the first kept row that has the interval.
LEMMA LookupIs ==
  ASSUME NEW p, \A k \in 1..Len(p) : p[k] # None, Len(p) \in Nat, NEW end, NEW J, J = HitsOf(p, (end - 1) % TariffDay)
  PROVE  Prices!Lookup(p, end).rate = IF J = {} THEN None ELSE p[Min(J)].rate
<1>1. PICK n \in Nat : n = Len(p)
  OBVIOUS
<1>2. J = {i \in 1..Len(p) : Prices!Within(p[i], (end - 1) % TariffDay)}
  BY DEF HitsOf
<1>3. CASE J = {}
  <2>1. Prices!First(p, LAMBDA r : Prices!Within(r, (end - 1) % TariffDay)) = None
    BY <1>2, <1>3 DEF Prices!First, Prices!SelectInSeq
  <2> QED BY <1>3, <2>1 DEF Prices!Lookup
<1>4. CASE J # {}
  <2>1. J \in SUBSET Int /\ 1 \in Int /\ \A i \in J : 1 <= i
    BY <1>1, <1>2
  <2>2. Min(J) \in J
    BY <1>4, <2>1, MinIsOne, Zenon
  <2>3. Min(J) \in 1..n /\ Min(J) # 0
    BY <1>1, <1>2, <2>2
  <2>4. PICK k : k = Min(J) /\ k = Prices!Min(J)
    BY FirstMin
  <2>5. p[k] # None
    BY <1>1, <2>3, <2>4
  <2>6. Prices!First(p, LAMBDA r : Prices!Within(r, (end - 1) % TariffDay)) = p[k]
    BY <1>2, <1>4, <2>3, <2>4 DEF Prices!First, Prices!SelectInSeq
  <2> QED BY <1>4, <2>4, <2>5, <2>6 DEF Prices!Lookup
<1> QED BY <1>3, <1>4

\* The published period is the row the price is made from.
LEMMA PublishedRow ==
  ASSUME NEW rows, GoodRows(rows), NEW t, NEW p, p = Prices!PeriodAttributes(rows),
         NEW I, I = WindowHits(rows, t), NEW J, J = HitsOf(p, t)
  PROVE  /\ Len(p) \in Nat /\ \A k \in 1..Len(p) : p[k] # None
         /\ J # {} => I # {} /\ p[Min(J)] = rows[Min(I)] /\ p[Min(J)].rate \in Int
<1>1. PICK T : T = Prices!ToSet(rows) /\ rows \in Seq(T)
  BY DEF GoodRows
<1>2. PICK S : S = {r \in T : r.rate # None /\ r.start # None /\ r.end # None}
  OBVIOUS
<1>3. p = Among(rows, S)
  BY <1>1, <1>2, SameAmong DEF Prices!PeriodAttributes
<1>4. p \in Seq(T) /\ \E g : Picks(p, g, rows, S)
  BY <1>1, <1>3, AmongIs
<1>5. PICK g : Picks(p, g, rows, S)
  BY <1>4
<1>6. PICK n \in Nat, m \in Nat : n = Len(p) /\ m = Len(rows)
  BY <1>1, <1>4
<1>7. \A k \in 1..n : g[k] \in 1..m /\ p[k] = rows[g[k]] /\ rows[g[k]] \in S
  BY <1>5, <1>6 DEF Picks
<1>8. \A k, l \in 1..n : k < l => g[k] < g[l]
  BY <1>5, <1>6 DEF Picks
<1>9. \A i \in 1..m : rows[i] \in S => \E k \in 1..n : g[k] = i
  BY <1>5, <1>6 DEF Picks
<1>10. \A i \in 1..m : rows[i] \in S <=> rows[i].rate # None /\ Windowed(rows[i])
  BY <1>1, <1>2, <1>6 DEF Windowed, Prices!ToSet
<1>11. \A i \in 1..m : rows[i] # None /\ rows[i].rate \in Int \cup {None}
  BY <1>6 DEF GoodRows
<1>12. \A k \in 1..n : p[k] # None
  BY <1>7, <1>11
<1>13. ASSUME J # {} PROVE I # {} /\ p[Min(J)] = rows[Min(I)] /\ p[Min(J)].rate \in Int
  <2>1. J \in SUBSET Int /\ 1 \in Int /\ \A k \in J : 1 <= k
    BY <1>6 DEF HitsOf
  <2>2. Min(J) \in J /\ \A k \in J : Min(J) <= k
    BY <1>13, <2>1, MinIsOne, Zenon
  <2>3. PICK k \in 1..n : k = Min(J) /\ Prices!Within(p[k], t) /\ \A l \in J : k <= l
    BY <1>6, <2>2 DEF HitsOf
  <2>4. PICK i \in 1..m : i = g[k] /\ p[k] = rows[i] /\ rows[i] \in S
    BY <1>7, <2>3
  <2>5. i \in I
    BY <1>6, <1>10, <2>3, <2>4 DEF WindowHits
  <2>6. I \in SUBSET Int /\ I # {} /\ \A l \in I : 1 <= l
    BY <1>6, <2>5 DEF WindowHits
  <2>7. Min(I) \in I /\ \A l \in I : Min(I) <= l
    BY <2>1, <2>6, MinIsOne, Zenon
  <2>8. PICK j \in 1..m : j = Min(I) /\ Windowed(rows[j]) /\ Prices!Within(rows[j], t) /\ j <= i
    BY <1>6, <2>5, <2>7 DEF WindowHits
  <2>9. rows[j] \in S
    <3>1. rows[i].rate # None
      BY <1>10, <2>4
    <3>2. rows[j].rate # None
      <4>1. CASE j = i
        BY <3>1, <4>1
      <4>2. CASE j # i
        <5>1. j < i
          BY <2>8, <4>2
        <5> QED BY <1>6, <3>1, <5>1 DEF GoodRows
      <4> QED BY <4>1, <4>2
    <3> QED BY <1>10, <2>8, <3>2
  <2>10. PICK l \in 1..n : g[l] = j
    BY <1>9, <2>9
  <2>11. p[l] = rows[j]
    BY <1>7, <2>10
  <2>12. l \in J
    BY <1>6, <2>8, <2>11 DEF HitsOf
  <2>13. k <= l
    BY <2>3, <2>12
  <2>14. i = j
    <3>1. CASE k = l
      BY <2>4, <2>10, <3>1
    <3>2. CASE k # l
      <4>1. k < l
        BY <2>13, <3>2
      <4>2. g[k] < g[l]
        BY <1>8, <4>1
      <4> QED BY <2>4, <2>8, <2>10, <4>2
    <3> QED BY <3>1, <3>2
  <2>15. rows[i].rate \in Int
    BY <1>10, <1>11, <2>4
  <2> QED BY <2>3, <2>4, <2>6, <2>8, <2>14, <2>15
<1> QED BY <1>6, <1>12, <1>13

\* Windows that do not run past midnight.
InDay(rows) ==
  \A i \in 1..Len(rows) : Windowed(rows[i]) /\ rows[i].start \in Int /\ rows[i].end \in Int /\ rows[i].start <= rows[i].end
\* A tariff of one season has it in every month.
IsTariff(tariff) ==
  /\ tariff.extension \in BOOLEAN
  /\ tariff.feedIn \in Seq(Prices!ToSet(tariff.feedIn)) /\ \A r \in Prices!ToSet(tariff.feedIn) : r.rate \in Int
  /\ Len(tariff.seasons) = 1 =>
       /\ DOMAIN tariff.seasons = {1} /\ \A m \in 0..(Months - 1) : m \in tariff.seasons[1].months
       /\ GoodRows(tariff.seasons[1].rows)
       /\ tariff.extension => InDay(tariff.seasons[1].rows)

IsPriceSensor(sensor) ==
  /\ IsTariff(sensor.tariff) /\ sensor.export \in BOOLEAN /\ sensor.madeAt \in Int
  /\ Prices!Combined(sensor.losses) \in Int

\* One season in every month: the rows in force are its rows.
LEMMA RowsAre ==
  ASSUME NEW tariff, IsTariff(tariff), Len(tariff.seasons) = 1, NEW at \in Int
  PROVE  Prices!RowsIn(tariff, at) = tariff.seasons[1].rows
<1>1. DOMAIN tariff.seasons = {1} /\ \A m \in 0..(Months - 1) : m \in tariff.seasons[1].months
  BY DEF IsTariff
<1>2. Prices!Month(at) \in 0..(Months - 1)
  <2>1. PICK d \in Nat \ {0}, m \in Nat \ {0} : d = TariffDay /\ m = Months
    BY PricingConstants
  <2>2. PICK x \in Int : x = at \div d
    BY <2>1
  <2>3. x % m \in 0..(m - 1)
    BY <2>1
  <2> QED BY <2>1, <2>2, <2>3 DEF Prices!Month
<1>3. PICK s : s = CHOOSE i \in DOMAIN tariff.seasons : Prices!Month(at) \in tariff.seasons[i].months
  OBVIOUS
<1>4. 1 \in DOMAIN tariff.seasons /\ Prices!Month(at) \in tariff.seasons[1].months
  BY <1>1, <1>2
<1>5. s \in DOMAIN tariff.seasons
  BY <1>3, <1>4, Zenon
<1>6. s = 1
  BY <1>1, <1>5
<1>7. Prices!RowsIn(tariff, at) = tariff.seasons[s].rows
  BY <1>3, Zenon DEF Prices!RowsIn
<1> QED BY <1>6, <1>7

\* The month's adjustment is a number.
LEMMA FeedInRateIs ==
  ASSUME NEW tariff, IsTariff(tariff), NEW end
  PROVE  Prices!FeedInRate(tariff, end) \in Int
<1>1. PICK f, T : f = tariff.feedIn /\ T = Prices!ToSet(f) /\ f \in Seq(T) /\ \A r \in T : r.rate \in Int
  BY DEF IsTariff
<1>2. PICK rows : rows = Prices!FeedInRows(tariff, end - 1)
  OBVIOUS
<1>3. rows \in Seq(T)
  <2>1. PICK S : S = {r \in T : Prices!Month(end - 1) \in r.months}
    OBVIOUS
  <2>2. rows = Among(f, S)
    BY <1>1, <1>2, <2>1, SameAmong DEF Prices!FeedInRows
  <2> QED BY <1>1, <2>2, AmongIs
<1>4. PICK I : I = {i \in 1..Len(rows) : rows[i].start <= (end - 1) % TariffDay /\ (end - 1) % TariffDay < rows[i].end}
  OBVIOUS
<1>5. PICK row : row = Prices!First(rows, LAMBDA r : r.start <= (end - 1) % TariffDay /\ (end - 1) % TariffDay < r.end)
  OBVIOUS
<1>6. row = None \/ row \in T
  <2>1. CASE I = {}
    BY <1>4, <1>5, <2>1 DEF Prices!First, Prices!SelectInSeq
  <2>2. CASE I # {}
    <3>1. I \in SUBSET Int /\ 1 \in Int /\ \A i \in I : 1 <= i
      BY <1>3, <1>4
    <3>2. Min(I) \in I
      BY <2>2, <3>1, MinIsOne, Zenon
    <3>3. PICK k \in 1..Len(rows) : k = Prices!Min(I) /\ k # 0
      <4>1. Min(I) \in 1..Len(rows) /\ Min(I) # 0
        BY <1>3, <1>4, <3>2
      <4> QED BY <4>1, FirstMin
    <3>4. row = rows[k]
      BY <1>4, <1>5, <2>2, <3>3 DEF Prices!First, Prices!SelectInSeq
    <3> QED BY <1>3, <3>4
  <2> QED BY <2>1, <2>2
<1>7. Prices!FeedInRate(tariff, end) = IF row = None THEN 0 ELSE row.rate
  BY <1>2, <1>5 DEF Prices!FeedInRate
<1> QED BY <1>1, <1>6, <1>7

\* GST comes out of the network rate as it went in.
LEMMA GstIsUndone == ASSUME NEW r \in Int PROVE ((r * 11) * 10) \div 11 = 10 * r
OBVIOUS

\* An import price adds up, through the library or an extension, with the library's GST or without.
LEMMA ImportAddsUp ==
  ASSUME NEW sensor, IsPriceSensor(sensor), ~sensor.export, NEW end \in Int, NEW spot \in Int, NEW fee \in Int,
         NEW rate, rate = Prices!PeriodOf(sensor, end).rate, rate # None, Len(sensor.tariff.seasons) = 1,
         ~(sensor.tariff.extension /\ sensor.d \in LibAppliesGst)
  PROVE  Prices!Priced(sensor, end, spot, fee) = 110 * (spot * Prices!Combined(sensor.losses) + rate + fee)
<1>1. PICK tariff, rows : tariff = sensor.tariff /\ rows = tariff.seasons[1].rows
  OBVIOUS
<1>2. IsTariff(tariff) /\ GoodRows(rows) /\ tariff.extension \in BOOLEAN
  BY <1>1 DEF IsPriceSensor, IsTariff
<1>3. Prices!RowsIn(tariff, end - 1) = rows /\ Prices!RowsIn(tariff, sensor.madeAt) = rows
  <2>1. end - 1 \in Int /\ sensor.madeAt \in Int
    BY DEF IsPriceSensor
  <2> QED BY <1>1, <1>2, <2>1, RowsAre
<1>4. PICK t : t = (end - 1) % TariffDay
  OBVIOUS
<1>5. PICK p : p = Prices!PeriodAttributes(rows)
  OBVIOUS
<1>6. PICK I, J : I = WindowHits(rows, t) /\ J = HitsOf(p, t)
  OBVIOUS
<1>7. rate = Prices!Lookup(p, end).rate
  <2>1. Prices!CachedPeriods(sensor) = p
    BY <1>1, <1>3, <1>5 DEF Prices!CachedPeriods
  <2>2. Prices!PeriodOf(sensor, end) = Prices!Lookup(Prices!CachedPeriods(sensor), end)
    BY Zenon DEF Prices!PeriodOf
  <2> QED BY <2>1, <2>2
<1>8. Len(p) \in Nat /\ \A k \in 1..Len(p) : p[k] # None
  BY <1>2, <1>5, <1>6, PublishedRow
<1>9. rate = IF J = {} THEN None ELSE p[Min(J)].rate
  BY <1>4, <1>6, <1>7, <1>8, LookupIs
<1>10. I # {} /\ rate = rows[Min(I)].rate /\ rate \in Int
  <2>1. J # {} /\ rate = p[Min(J)].rate
    BY <1>9
  <2>2. I # {} /\ p[Min(J)] = rows[Min(I)] /\ p[Min(J)].rate \in Int
    BY <1>2, <1>5, <1>6, <2>1, PublishedRow
  <2> QED BY <2>1, <2>2
<1>11. PICK s \in Int, c \in Int : c = Prices!Combined(sensor.losses) /\ s = spot * c /\ s = Prices!Spot(sensor.losses, spot)
  BY DEF IsPriceSensor, Prices!Spot
<1>12. PICK r \in Int : r = rate
  BY <1>10
<1>13. PICK result : result = Prices!ImportResult(tariff, sensor.d, sensor.losses, end, spot)
  OBVIOUS
<1>14. Prices!Priced(sensor, end, spot, fee) =
         IF result = None THEN None ELSE Prices!ImportDollars(sensor.d, sensor.losses, result, spot, fee)
  BY <1>1, <1>13, Zenon DEF Prices!Priced
<1>15. CASE ~tariff.extension /\ sensor.d \in LibAppliesGst
  <2>1. Prices!LibraryRate(tariff, end) = r
    BY <1>2, <1>3, <1>4, <1>6, <1>10, <1>12, LibraryRateIs
  <2>2. result = IF r = None THEN None ELSE 10 * Prices!Spot(sensor.losses, spot) + r * 11
    BY <1>13, <1>15, <2>1, Zenon DEF Prices!ImportResult
  <2>3. result = 10 * s + r * 11 /\ result \in Int
    BY <1>11, <2>2, PricingConstants
  <2>4. (result - 10 * s) * 10 = (r * 11) * 10
    BY <2>3
  <2>5. ((result - 10 * s) * 10) \div 11 = 10 * r
    BY <2>4, GstIsUndone
  <2>6. Prices!ImportDollars(sensor.d, sensor.losses, result, spot, fee) = (10 * s + 10 * r + 10 * fee) * 11
    BY <1>11, <1>15, <2>5 DEF Prices!ImportDollars
  <2>7. (10 * s + 10 * r + 10 * fee) * 11 = 110 * (s + r + fee)
    OBVIOUS
  <2>8. result # None
    BY <2>3, PricingConstants
  <2> QED BY <1>11, <1>12, <1>14, <2>6, <2>7, <2>8
<1>16. CASE sensor.d \notin LibAppliesGst
  <2>1. result = 10 * s + r * 10
    <3>1. CASE tariff.extension
      <4>1. \A i \in 1..Len(rows) : Windowed(rows[i]) /\ rows[i].start \in Int /\ rows[i].end \in Int /\ rows[i].start <= rows[i].end
        BY <1>1, <1>2, <3>1, Zenon DEF IsTariff, InDay
      <4>2. Prices!ExtensionRate(tariff, end) = r
        BY <1>2, <1>3, <1>4, <1>6, <1>10, <1>12, <4>1, ExtensionRateIs
      <4>3. result = IF r = None THEN None ELSE 10 * Prices!Spot(sensor.losses, spot) + r * 10
        BY <1>13, <1>16, <3>1, <4>2, Zenon DEF Prices!ImportResult
      <4> QED BY <1>11, <4>3, PricingConstants
    <3>2. CASE ~tariff.extension
      <4>1. Prices!LibraryRate(tariff, end) = r
        BY <1>2, <1>3, <1>4, <1>6, <1>10, <1>12, LibraryRateIs
      <4>2. result = IF r = None THEN None ELSE 10 * Prices!Spot(sensor.losses, spot) + r * 10
        BY <1>13, <1>16, <3>2, <4>1, Zenon DEF Prices!ImportResult
      <4> QED BY <1>11, <4>2, PricingConstants
    <3> QED BY <3>1, <3>2, Zenon
  <2>2. result \in Int /\ result - 10 * s = 10 * r
    BY <2>1
  <2>3. Prices!ImportDollars(sensor.d, sensor.losses, result, spot, fee) = (10 * s + 10 * r + 10 * fee) * 11
    BY <1>11, <1>16, <2>2 DEF Prices!ImportDollars
  <2>4. (10 * s + 10 * r + 10 * fee) * 11 = 110 * (s + r + fee)
    OBVIOUS
  <2>5. result # None
    BY <2>2, PricingConstants
  <2> QED BY <1>11, <1>12, <1>14, <2>3, <2>4, <2>5
<1>17. ~tariff.extension \/ sensor.d \notin LibAppliesGst
  BY <1>1, Zenon
<1> QED BY <1>15, <1>16, <1>17, Zenon

\* For any sensor, interval, spot price and fee: the price published is GST, once, on the
\* spot price at the published loss factor, the published rate and the fee; a feed-in
\* price is the spot price and the month's adjustment (RetailPrice, spot_to_tariff()).
THEOREM PricesAddUp ==
  ASSUME NEW sensor, IsPriceSensor(sensor), NEW end \in Int, NEW spot \in Int, NEW fee \in Int
  PROVE  Prices!PriceAddsUp(sensor, end, spot, fee)
<1>1. CASE sensor.export
  <2>1. PICK f \in Int : f = Prices!FeedInRate(sensor.tariff, end)
    BY FeedInRateIs DEF IsPriceSensor
  <2>2. PICK s \in Int : s = spot * Prices!Combined(sensor.losses) /\ s = Prices!Spot(sensor.losses, spot)
    BY DEF IsPriceSensor, Prices!Spot
  <2>3. Prices!Priced(sensor, end, spot, fee) = Prices!ExportDollars(Prices!FeedInResult(sensor.tariff, sensor.losses, end, spot))
    BY <1>1, Zenon DEF Prices!Priced
  <2>4. Prices!FeedInResult(sensor.tariff, sensor.losses, end, spot) = 10 * (s + f)
    BY <2>1, <2>2 DEF Prices!FeedInResult
  <2>5. Prices!Priced(sensor, end, spot, fee) = 100 * (s + f)
    BY <2>3, <2>4 DEF Prices!ExportDollars
  <2>6. Prices!Priced(sensor, end, spot, fee)
          = 100 * (spot * Prices!Combined(sensor.losses) + Prices!FeedInRate(sensor.tariff, end))
    BY <2>1, <2>2, <2>5
  <2> QED BY <1>1, <2>6, Zenon DEF Prices!PriceAddsUp
<1>2. CASE ~sensor.export
  <2>1. ASSUME Prices!PeriodOf(sensor, end).rate # None, Len(sensor.tariff.seasons) = 1,
               ~(sensor.tariff.extension /\ sensor.d \in LibAppliesGst)
        PROVE  Prices!Priced(sensor, end, spot, fee)
                 = 110 * (spot * Prices!Combined(sensor.losses) + Prices!PeriodOf(sensor, end).rate + fee)
    BY <1>2, <2>1, ImportAddsUp
  <2> QED BY <1>2, <2>1, Zenon DEF Prices!PriceAddsUp
<1> QED BY <1>1, <1>2, Zenon

\* A list is one of its own members.
LEMMA OwnList == ASSUME NEW T, NEW s \in Seq(T) PROVE s \in Seq(Prices!ToSet(s))
<1>1. PICK n \in Nat : n = Len(s) /\ DOMAIN s = 1..n
  OBVIOUS
<1>2. \A i \in 1..n : s[i] \in Prices!ToSet(s)
  BY <1>1 DEF Prices!ToSet
<1>3. s = [i \in 1..n |-> s[i]]
  BY <1>1
<1> QED BY <1>1, <1>2, <1>3

\* Rated rows are good rows.
LEMMA TwoRows ==
  ASSUME NEW a, NEW b, a # None, b # None, a.rate \in Int, b.rate \in Int
  PROVE  GoodRows(<<a, b>>)
<1>1. PICK rows : rows = <<a, b>>
  OBVIOUS
<1>2. rows \in Seq({a, b}) /\ Len(rows) = 2 /\ rows[1] = a /\ rows[2] = b
  BY <1>1
<1>3. rows \in Seq(Prices!ToSet(rows))
  BY <1>2, OwnList
<1>4. \A i \in 1..2 : rows[i] # None /\ rows[i].rate \in Int
  <2> SUFFICES ASSUME NEW i \in 1..2 PROVE rows[i] # None /\ rows[i].rate \in Int
    OBVIOUS
  <2>1. i = 1 \/ i = 2
    OBVIOUS
  <2> QED BY <1>2, <2>1
<1>5. \A i \in 1..2 : rows[i].rate # None
  BY <1>4, PricingConstants
<1> QED BY <1>1, <1>2, <1>3, <1>4, <1>5 DEF GoodRows

\* And so they are with an unrated row last.
LEMMA ThreeRows ==
  ASSUME NEW a, NEW b, NEW c, a # None, b # None, c # None, a.rate \in Int, b.rate \in Int, c.rate = None
  PROVE  GoodRows(<<a, b, c>>)
<1>1. PICK rows : rows = <<a, b, c>>
  OBVIOUS
<1>2. rows \in Seq({a, b, c}) /\ Len(rows) = 3 /\ rows[1] = a /\ rows[2] = b /\ rows[3] = c
  BY <1>1
<1>3. rows \in Seq(Prices!ToSet(rows))
  BY <1>2, OwnList
<1>4. \A i \in 1..3 : rows[i] # None /\ rows[i].rate \in Int \cup {None} /\ (rows[i].rate = None => i = 3)
  <2> SUFFICES ASSUME NEW i \in 1..3
               PROVE  rows[i] # None /\ rows[i].rate \in Int \cup {None} /\ (rows[i].rate = None => i = 3)
    OBVIOUS
  <2>1. i = 1 \/ i = 2 \/ i = 3
    OBVIOUS
  <2> QED BY <1>2, <2>1, PricingConstants
<1> QED BY <1>1, <1>2, <1>3, <1>4 DEF GoodRows

LEMMA WinIs ==
  ASSUME NEW name, NEW start, NEW end, NEW rate
  PROVE  Win(name, start, end, rate).start = start /\ Win(name, start, end, rate).end = end /\ Win(name, start, end, rate).rate = rate
BY DEF Win

\* A tariff of one season, or of more.
LEMMA TariffIs ==
  ASSUME NEW x \in BOOLEAN, NEW seasons, NEW tariff, tariff = Tariff(x, seasons),
         Len(seasons) # 1 \/ \E rows : seasons = Flat(rows) /\ GoodRows(rows) /\ (x => InDay(rows))
  PROVE  IsTariff(tariff)
<1>1. tariff.extension \in BOOLEAN /\ tariff.extension = x /\ tariff.seasons = seasons
  BY DEF Tariff
<1>2. tariff.feedIn \in Seq(Prices!ToSet(tariff.feedIn)) /\ \A r \in Prices!ToSet(tariff.feedIn) : r.rate \in Int
  <2>1. PICK a, b : tariff.feedIn = <<a, b>> /\ a.rate = 3 /\ b.rate = -1
    <3>1. tariff.feedIn = <<[start |-> 0, end |-> 2, months |-> {1}, rate |-> 3], [start |-> 1, end |-> 3, months |-> {0, 1}, rate |-> -1]>>
      BY DEF Tariff
    <3> QED BY <3>1
  <2>2. PICK f : f = <<a, b>>
    OBVIOUS
  <2>3. f \in Seq({a, b}) /\ Len(f) = 2 /\ f[1] = a /\ f[2] = b /\ DOMAIN f = 1..2
    BY <2>2
  <2>4. f \in Seq(Prices!ToSet(f))
    BY <2>3, OwnList
  <2>5. \A r \in Prices!ToSet(f) : r = a \/ r = b
    BY <2>3 DEF Prices!ToSet
  <2> QED BY <2>1, <2>2, <2>4, <2>5
<1>3. CASE Len(seasons) # 1
  BY <1>1, <1>2, <1>3, Zenon DEF IsTariff
<1>4. ASSUME NEW rows, seasons = Flat(rows), GoodRows(rows), x => InDay(rows)
      PROVE  IsTariff(tariff)
  <2>1. tariff.seasons = <<[months |-> 0..(Months - 1), rows |-> rows]>>
    BY <1>1, <1>4 DEF Flat
  <2>2. DOMAIN tariff.seasons = {1} /\ tariff.seasons[1].months = 0..(Months - 1) /\ tariff.seasons[1].rows = rows
    BY <2>1
  <2>3. \A m \in 0..(Months - 1) : m \in tariff.seasons[1].months
    BY <2>2
  <2>4. GoodRows(tariff.seasons[1].rows)
    BY <1>4, <2>2
  <2>5. tariff.extension => InDay(tariff.seasons[1].rows)
    <3>1. tariff.extension => x
      BY <1>1, Zenon
    <3> QED BY <1>4, <2>2, <3>1, Zenon
  <2> QED BY <1>1, <1>2, <2>2, <2>3, <2>4, <2>5, Zenon DEF IsTariff
<1> QED BY <1>3, <1>4

\* The tariffs enumerated are tariffs.
LEMMA TariffsAre == \A tariff \in TariffSet : IsTariff(tariff)
<1> SUFFICES ASSUME NEW tariff \in TariffSet PROVE IsTariff(tariff)
  OBVIOUS
<1>0. \A rows : tariff.seasons = Flat(rows) => \A r \in ToSet(rows) : r # None
  <2> SUFFICES ASSUME NEW rows, tariff.seasons = Flat(rows) PROVE None \notin ToSet(rows)
    OBVIOUS
  <2>1. 1 \in DOMAIN tariff.seasons /\ tariff.seasons[1].rows = rows
    BY DEF Flat
  <2> QED BY <2>1, NoneIsNoRow
<1>1. TRUE \in BOOLEAN /\ FALSE \in BOOLEAN
  OBVIOUS
<1>2. ASSUME NEW a, NEW b, tariff.seasons = Flat(<<a, b>>) PROVE a # None /\ b # None
  <2>1. a \in ToSet(<<a, b>>) /\ b \in ToSet(<<a, b>>)
    BY DEF ToSet
  <2> QED BY <1>0, <1>2, <2>1
<1>3. ASSUME NEW a, NEW b, NEW c, tariff.seasons = Flat(<<a, b, c>>) PROVE a # None /\ b # None /\ c # None
  <2>1. a \in ToSet(<<a, b, c>>) /\ b \in ToSet(<<a, b, c>>) /\ c \in ToSet(<<a, b, c>>)
    BY DEF ToSet
  <2> QED BY <1>0, <1>3, <2>1
<1>4. \/ tariff = Tariff(FALSE, Flat(TwoRates))
      \/ tariff = Tariff(FALSE, Flat(<<Win("day", 1, 3, 2), Win("off", None, None, 1)>>))
      \/ tariff = Tariff(FALSE, Flat(<<Win("day", 0, 2, 2), Win("all", 0, 4, 3), Win("none", 0, 1, None)>>))
      \/ tariff = Tariff(TRUE, Flat(<<Win("low", 0, 2, 1), Win("high", 2, 3, 5)>>))
      \/ tariff = Tariff(FALSE, <<[months |-> {0}, rows |-> TwoRates], [months |-> 1..(Months - 1), rows |-> Tail(TwoRates)]>>)
  BY DEF TariffSet
<1>5. \A x, s : Tariff(x, s).seasons = s
  BY DEF Tariff
<1>6. ASSUME NEW a, NEW b, a.rate \in Int, b.rate \in Int, tariff = Tariff(FALSE, Flat(<<a, b>>)) PROVE IsTariff(tariff)
  <2>1. GoodRows(<<a, b>>)
    BY <1>2, <1>5, <1>6, TwoRows
  <2> QED BY <1>1, <1>6, <2>1, TariffIs
<1>7. CASE tariff = Tariff(FALSE, Flat(TwoRates))
  <2>1. PICK a, b : TwoRates = <<a, b>> /\ a = Win("peak", 1, 3, 4) /\ b = Win("night", 3, 1, 1)
    BY DEF TwoRates
  <2>2. a.rate \in Int /\ b.rate \in Int
    BY <2>1, WinIs
  <2> QED BY <1>6, <1>7, <2>1, <2>2
<1>8. CASE tariff = Tariff(FALSE, Flat(<<Win("day", 1, 3, 2), Win("off", None, None, 1)>>))
  <2>1. Win("day", 1, 3, 2).rate \in Int /\ Win("off", None, None, 1).rate \in Int
    BY WinIs
  <2> QED BY <1>6, <1>8, <2>1
<1>9. CASE tariff = Tariff(FALSE, Flat(<<Win("day", 0, 2, 2), Win("all", 0, 4, 3), Win("none", 0, 1, None)>>))
  <2>1. PICK a, b, c : a = Win("day", 0, 2, 2) /\ b = Win("all", 0, 4, 3) /\ c = Win("none", 0, 1, None)
    OBVIOUS
  <2>2. a.rate \in Int /\ b.rate \in Int /\ c.rate = None
    BY <2>1, WinIs
  <2>3. tariff = Tariff(FALSE, Flat(<<a, b, c>>))
    BY <1>9, <2>1
  <2>4. GoodRows(<<a, b, c>>)
    <3>1. tariff.seasons = Flat(<<a, b, c>>)
      BY <1>5, <2>3
    <3>2. a # None /\ b # None /\ c # None
      BY <1>3, <3>1
    <3> QED BY <2>2, <3>2, ThreeRows
  <2> QED BY <1>1, <2>3, <2>4, TariffIs
<1>10. CASE tariff = Tariff(TRUE, Flat(<<Win("low", 0, 2, 1), Win("high", 2, 3, 5)>>))
  <2>1. PICK a, b : a = Win("low", 0, 2, 1) /\ b = Win("high", 2, 3, 5)
    OBVIOUS
  <2>2. a.rate = 1 /\ b.rate = 5 /\ a.start = 0 /\ a.end = 2 /\ b.start = 2 /\ b.end = 3
    BY <2>1, WinIs
  <2>3. tariff = Tariff(TRUE, Flat(<<a, b>>))
    BY <1>10, <2>1
  <2>4. GoodRows(<<a, b>>)
    <3>1. tariff.seasons = Flat(<<a, b>>)
      BY <1>5, <2>3
    <3>2. a # None /\ b # None
      BY <1>2, <3>1
    <3> QED BY <2>2, <3>2, TwoRows
  <2>5. PICK rows : rows = <<a, b>>
    OBVIOUS
  <2>6. InDay(rows)
    <3> SUFFICES ASSUME NEW i \in 1..2
                 PROVE  Windowed(rows[i]) /\ rows[i].start \in Int /\ rows[i].end \in Int /\ rows[i].start <= rows[i].end
      BY <2>5 DEF InDay
    <3>1. rows[i] = a \/ rows[i] = b
      BY <2>5
    <3> QED BY <2>2, <3>1, PricingConstants DEF Windowed
  <2> QED BY <1>1, <2>3, <2>4, <2>5, <2>6, TariffIs
<1>11. CASE tariff = Tariff(FALSE, <<[months |-> {0}, rows |-> TwoRates], [months |-> 1..(Months - 1), rows |-> Tail(TwoRates)]>>)
  <2>1. PICK s : s = <<[months |-> {0}, rows |-> TwoRates], [months |-> 1..(Months - 1), rows |-> Tail(TwoRates)]>>
    OBVIOUS
  <2>2. Len(s) # 1
    BY <2>1
  <2> QED BY <1>1, <1>11, <2>1, <2>2, TariffIs
<1> QED BY <1>4, <1>7, <1>8, <1>9, <1>10, <1>11

\* The sensors enumerated are sensors.
LEMMA SensorsAre == \A s \in Sensors : IsPriceSensor(s)
<1> SUFFICES ASSUME NEW s \in Sensors PROVE IsPriceSensor(s)
  OBVIOUS
<1>1. PICK d \in {"g", "n"}, t \in TariffSet, o \in {None, 3, 4}, x \in BOOLEAN :
        s = [d |-> d, tariff |-> t, losses |-> Prices!LossesFor(o), export |-> x, madeAt |-> 0]
  BY DEF Sensors
<1>2. s.tariff = t /\ s.losses = Prices!LossesFor(o) /\ s.export = x /\ s.madeAt = 0
  BY <1>1
<1>3. Prices!LossesFor(o) \in Int \X Int \X Int
  <2>1. Default \in Int \X Int \X Int /\ None \notin Int
    BY PricingRulesAssumption DEF Prices!PricingAssumption
  <2>2. CASE o = None
    BY <2>1, <2>2 DEF Prices!LossesFor
  <2>3. CASE o # None
    <3>1. o \in Int
      BY <2>3
    <3>2. <<o, 1, 1>> \in Int \X Int \X Int
      BY <3>1
    <3> QED BY <2>1, <3>2 DEF Prices!LossesFor
  <2> QED BY <2>2, <2>3
<1>4. Prices!Combined(s.losses) \in Int
  <2>1. PICK a \in Int, b \in Int, c \in Int : s.losses = <<a, b, c>>
    BY <1>2, <1>3
  <2>2. a * b * c \in Int
    OBVIOUS
  <2> QED BY <2>1, <2>2 DEF Prices!Combined
<1>5. IsTariff(s.tariff) /\ s.export \in BOOLEAN /\ s.madeAt \in Int
  BY <1>2, TariffsAre
<1> QED BY <1>4, <1>5, Zenon DEF IsPriceSensor

\* The libraries enumerated are libraries.
LEMMA LibrariesAre == \A lib \in Libraries : IsLib(lib)
<1> SUFFICES ASSUME NEW lib \in Libraries PROVE IsLib(lib)
  OBVIOUS
<1>1. lib = [imports |-> lib.imports, feedIn |-> lib.feedIn, battery |-> lib.battery] /\ lib.imports \in Tables
  BY DEF Libraries
<1>2. lib.imports \in Seq(AnyCode)
  <2>1. PICK n \in 1..4 : lib.imports \in [1..n -> Codes]
    BY <1>1 DEF Tables
  <2>2. lib.imports \in Seq(Codes)
    BY <2>1
  <2> QED BY <2>2 DEF AnyCode
<1>3. lib # None
  BY NoneIsNoLibrary
<1> QED BY <1>1, <1>2, <1>3 DEF IsLib

\* What the rules of the tariffs have been asked about.
TariffsAsked ==
  /\ probe.rule = "release" => probe.in.lib \in Libraries /\ probe.in.later \in Libraries
  /\ probe.rule = "prices" => \E s \in Sensors : \E w : probe.in = [sensor |-> s, writes |-> w]

\* Whatever release of the library comes, the region's default and the codes it knows
\* keep their places, and the release that takes an extension over changes nothing but
\* who prices it (tariff_catalogue.py, tariff_extensions.py); and for every sensor the
\* price is GST once on spot, published rate and fee, and its state is what its forecast
\* says of the interval now in (tariff_pricing.py, tariff_sensor.py).
THEOREM TariffsAgree == PricesSpec => []TariffsAddUp
<1>1. PricesInit => TariffsAsked
  <2> SUFFICES ASSUME PricesInit PROVE TariffsAsked
    OBVIOUS
  <2>1. PICK r \in {"none", "clock"} : probe = [rule |-> r, in |-> <<>>]
    BY DEF PricesInit
  <2> QED BY <2>1 DEF TariffsAsked
<1>2. TariffsAsked /\ [PricesNext]_<<probe, clock>> => TariffsAsked'
  <2> SUFFICES ASSUME TariffsAsked, [PricesNext]_<<probe, clock>> PROVE TariffsAsked'
    OBVIOUS
  <2>1. CASE probe' = probe
    BY <2>1 DEF TariffsAsked
  <2>2. CASE JoinAmber
    <3>1. probe'.rule = "seam"
      BY <2>2 DEF JoinAmber, Ask
    <3> QED BY <3>1 DEF TariffsAsked
  <2>3. CASE Release
    <3>1. PICK lib \in Libraries, l \in Tables :
            probe' = [rule |-> "release", in |-> [lib |-> lib, later |-> [lib EXCEPT !.imports = l]]]
      BY <2>3 DEF Release, Ask
    <3>2. [lib EXCEPT !.imports = l] \in Libraries
      BY DEF Libraries
    <3> QED BY <3>1, <3>2 DEF TariffsAsked
  <2>4. CASE SetPrices
    <3>1. CASE \E s \in Sensors : Ask("prices", [sensor |-> s, writes |-> <<>>])
      <4>1. PICK s \in Sensors : probe' = [rule |-> "prices", in |-> [sensor |-> s, writes |-> <<>>]]
        BY <3>1 DEF Ask
      <4> QED BY <4>1 DEF TariffsAsked
    <3>2. CASE probe.rule = "prices" /\ \E w \in TariffWrites : Ask("prices", [probe.in EXCEPT !.writes = Append(@, w)])
      <4>1. PICK s \in Sensors : \E w : probe.in = [sensor |-> s, writes |-> w]
        BY <3>2 DEF TariffsAsked
      <4>w. PICK w : probe.in = [sensor |-> s, writes |-> w]
        BY <4>1
      <4>2. PICK x \in TariffWrites : probe' = [rule |-> "prices", in |-> [probe.in EXCEPT !.writes = Append(@, x)]]
        BY <3>2 DEF Ask
      <4>3. probe'.in = [sensor |-> s, writes |-> Append(w, x)] /\ probe'.rule = "prices"
        <5>1. PICK y : y = Append(w, x)
          OBVIOUS
        <5>2. probe.in.writes = w
          BY <4>w
        <5>3. probe' = [rule |-> "prices", in |-> [probe.in EXCEPT !.writes = y]]
          BY <4>2, <5>1, <5>2
        <5>4. [probe.in EXCEPT !.writes = y] = [sensor |-> s, writes |-> y]
          BY <4>w
        <5> QED BY <5>1, <5>3, <5>4
      <4> QED BY <4>3 DEF TariffsAsked
    <3> QED BY <2>4, <3>1, <3>2 DEF SetPrices
  <2>5. CASE KeepTime
    BY <2>1, <2>5 DEF KeepTime
  <2> QED BY <2>1, <2>2, <2>3, <2>4, <2>5 DEF PricesNext
<1>3. TariffsAsked => TariffsAddUp
  <2> SUFFICES ASSUME TariffsAsked PROVE TariffsAddUp
    OBVIOUS
  <2>1. ASSUME probe.rule = "release"
        PROVE  Tariffs!DefaultIsPinned(probe.in.lib, probe.in.later) /\ Tariffs!TakeoverIsSeamless(probe.in.lib)
    <3>1. PICK lib \in Libraries, later \in Libraries : lib = probe.in.lib /\ later = probe.in.later
      BY <2>1 DEF TariffsAsked
    <3>2. IsLib(lib) /\ IsLib(later)
      BY LibrariesAre
    <3>3. \A e \in Tariffs!ToSet(Extensions) :
            Tariffs!TakenOver(lib, e) # None /\ (lib.feedIn # None => Tariffs!TakenOver(lib, e).feedIn # None)
      <4>1. Tariffs!ToSet(Extensions) = ToSet(Extensions)
        BY DEF ToSet, Tariffs!ToSet
      <4> QED BY <4>1, NoneIsNoLibrary
    <3> QED BY <3>1, <3>2, <3>3, DefaultPinned, TakeoverSeamless
  <2>2. ASSUME probe.rule = "prices", NEW end \in 1..8, NEW spot \in -1..2, NEW fee \in 0..1
        PROVE  Prices!PriceAddsUp(probe.in.sensor, end, spot, fee)
    <3>1. PICK s \in Sensors : \E w : probe.in = [sensor |-> s, writes |-> w]
      BY <2>2 DEF TariffsAsked
    <3>2. probe.in.sensor = s /\ IsPriceSensor(s)
      BY <3>1, SensorsAre
    <3>3. end \in Int /\ spot \in Int /\ fee \in Int
      OBVIOUS
    <3> QED BY <3>2, <3>3, PricesAddUp
  <2> QED BY <2>1, <2>2 DEF TariffsAddUp
<1> QED BY <1>1, <1>2, <1>3, PTL DEF PricesSpec
=============================================================================
