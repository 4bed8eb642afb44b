---------------------------- MODULE IsotonicFit ----------------------------
(***************************************************************************)
(* The monotone map one calibration bucket is fitted with                  *)
(* (calibration_engine.py, IsotonicRegression): rows are pooled at their   *)
(* weighted median, steps seen on few days are not served as fitted, and   *)
(* the result is made monotone again.                                      *)
(*                                                                         *)
(* A row is [x: forecast, y: actual, w: decay weight, day, p50: the        *)
(* bucket's median line at x, in fractions].  What is fitted is counted in *)
(* fractions of a price, Unit to one, so that every mean and interpolation *)
(* is whole.                                                               *)
(***************************************************************************)
EXTENDS Integers, Sequences, SequencesExt, FiniteSets, FiniteSetsExt, Functions

CONSTANTS
  Unit,            \* fractions in a price
  FullDays,        \* ISO_FULL_SUPPORT_DAYS
  RawLow, RawHigh  \* ISO_RAW_FALLBACK_RANGE

\* What this module assumes of its constants.
FitAssumption ==
  /\ {Unit, FullDays} \subseteq Nat \ {0} /\ {RawLow, RawHigh} \subseteq Int

\* fit(): rows in order of their forecast, ties as they came.
Ordered(rows) ==
  LET before(i) == {j \in DOMAIN rows : rows[j].x < rows[i].x \/ (rows[j].x = rows[i].x /\ j < i)}
  IN [k \in DOMAIN rows |-> rows[CHOOSE i \in DOMAIN rows : Cardinality(before(i)) = k - 1]]

-----------------------------------------------------------------------------
(* Pool adjacent violators.  A block is the rows from..to, at one level.    *)

\* While the last two blocks are not Apart they become one.
Settle(blocks, Merge(_, _), Apart(_, _)) ==
  LET n == Len(blocks)
      last[k \in 0..(n - 1)] == IF k = 0 THEN blocks[n] ELSE Merge(blocks[n - k], last[k - 1])
      merged == Min({k \in 0..(n - 1) : k = n - 1 \/ Apart(blocks[n - k - 1], last[k])})
  IN Append(SubSeq(blocks, 1, n - merged - 1), last[merged])

WeightOf(rows, S) == SumFunctionOnSet([i \in DOMAIN rows |-> rows[i].w], S)

\* The plain median, as if weights were ignored where blocks merge.
PlainMedian(rows, a, b) ==
  Min({y \in {rows[i].y : i \in a..b} :
         2 * Cardinality({i \in a..b : rows[i].y <= y}) >= b - a + 1})

\* _weighted_median(): the smallest y that holds half the weight of a..b.
WeightedMedian(rows, a, b) ==
  Min({y \in {rows[i].y : i \in a..b} :
         2 * WeightOf(rows, {i \in a..b : rows[i].y <= y}) >= WeightOf(rows, a..b)})

MergeMedians(rows, p, q) ==
  [from |-> p.from, to |-> q.to,
   level |-> IF p.level = q.level THEN q.level ELSE WeightedMedian(rows, p.from, q.to)]

\* _pav_median_blocks()
MedianBlocks(rows) ==
  LET pooled[i \in 0..Len(rows)] ==
        IF i = 0 THEN <<>>
        ELSE Settle(Append(pooled[i - 1], [from |-> i, to |-> i, level |-> rows[i].y]),
                    LAMBDA p, q : MergeMedians(rows, p, q), LAMBDA p, q : p.level < q.level)
  IN pooled[Len(rows)]

\* A row's block.
BlockOf(blocks, i) == CHOOSE b \in ToSet(blocks) : i \in b.from..b.to

MergeMeans(p, q) == [from |-> p.from, to |-> q.to, sum |-> p.sum + q.sum, w |-> p.w + q.w]

\* _pav_blocks()
MeanBlocks(v, rows) ==
  LET pooled[i \in 0..Len(rows)] ==
        IF i = 0 THEN <<>>
        ELSE Settle(Append(pooled[i - 1], [from |-> i, to |-> i, sum |-> v[i] * rows[i].w, w |-> rows[i].w]),
                    MergeMeans, LAMBDA p, q : p.sum * q.w <= q.sum * p.w)
  IN pooled[Len(rows)]

\* _pav(): what each of the values v is fitted to.
Pav(v, rows) ==
  [i \in DOMAIN rows |-> LET b == BlockOf(MeanBlocks(v, rows), i) IN b.sum \div b.w]

-----------------------------------------------------------------------------
(* What a thin step serves *)

DaysOf(rows, b) == Cardinality({rows[i].day : i \in b.from..b.to})
FullySupported(rows, b) == DaysOf(rows, b) >= FullDays

\* A share (num of den, whole by the choice of Unit) of the way from v to u.
Toward(v, u, num, den) == v + ((u - v) \div den) * num

\* The fully supported blocks around a block.
Below(rows, blocks, b) == {c \in ToSet(blocks) : FullySupported(rows, c) /\ c.to < b.from}
Above(rows, blocks, b) == {c \in ToSet(blocks) : FullySupported(rows, c) /\ c.from > b.to}

\* _pull_toward_supported_neighbours(): the line between the supported steps on
\* either side, the lower one's level at the top, else the p50 line.
Prior(rows, blocks, i) ==
  LET b == BlockOf(blocks, i)
      below == Below(rows, blocks, b)
      above == Above(rows, blocks, b)
      lo == CHOOSE c \in below : \A d \in below : d.to <= c.to
      up == CHOOSE c \in above : \A d \in above : c.from <= d.from
      at(c, k) == [x |-> rows[k].x, level |-> Unit * c.level]
      l == at(lo, lo.to)
      u == at(up, up.from)
  IN IF FullySupported(rows, b) \/ below = {} THEN rows[i].p50
     ELSE IF above = {} THEN l.level
     ELSE IF u.x = l.x THEN u.level
     ELSE Toward(l.level, u.level, rows[i].x - l.x, u.x - l.x)

\* The row's level, pulled toward a prior by the days its step lacks.
Pulled(rows, blocks, i, prior) ==
  LET b == BlockOf(blocks, i)
  IN Toward(prior, Unit * b.level, Min({DaysOf(rows, b), FullDays}), FullDays)

IsRaw(rows, blocks, i) ==
  ~FullySupported(rows, BlockOf(blocks, i)) /\ rows[i].x \in RawLow..RawHigh

\* The map stage 2 reads: every thin step pulled toward the p50 line.
FeatureMap(rows, blocks) ==
  Pav([i \in DOMAIN rows |-> Pulled(rows, blocks, i, rows[i].p50)], rows)

\* The raw steps are left where they broke the order of the map.
ServedMapUnpooled(rows, blocks) ==
  LET fitted == Pav([i \in DOMAIN rows |-> Pulled(rows, blocks, i, Prior(rows, blocks, i))], rows)
  IN [i \in DOMAIN rows |-> IF IsRaw(rows, blocks, i) THEN Unit * rows[i].x ELSE fitted[i]]

\* _served_map(): the published map; raw at ordinary prices, then monotone again.
ServedMap(rows, blocks) ==
  LET fitted == Pav([i \in DOMAIN rows |-> Pulled(rows, blocks, i, Prior(rows, blocks, i))], rows)
  IN IF \E i \in DOMAIN rows : IsRaw(rows, blocks, i)
     THEN Pav([i \in DOMAIN rows |-> IF IsRaw(rows, blocks, i) THEN Unit * rows[i].x ELSE fitted[i]],
              rows)
     ELSE fitted

\* fit(), with days and a p50 line.
Fit(rows) ==
  LET r == Ordered(rows)
      blocks == MedianBlocks(r)
  IN [x |-> [i \in DOMAIN r |-> r[i].x],
      served |-> ServedMap(r, blocks),
      feature |-> FeatureMap(r, blocks)]

-----------------------------------------------------------------------------
(* predict(): np.interp over the training points, clipped at the ends; of    *)
(* equal forecasts the last one counts.                                      *)

Interp(xs, ys, x) ==
  LET upTo == {i \in DOMAIN xs : xs[i] <= x}
      i == Max(upTo)
  IN IF upTo = {} THEN ys[1]
     ELSE IF i = Len(xs) \/ xs[i] = x THEN ys[i]
     ELSE Toward(ys[i], ys[i + 1], x - xs[i], xs[i + 1] - xs[i])

Predict(m, x) == Interp(m.x, m.served, x)
PredictFeature(m, x) == Interp(m.x, m.feature, x)

-----------------------------------------------------------------------------
(* Properties *)

Off(row, x) == row.w * (IF x > row.y THEN x - row.y ELSE row.y - x)
Loss(rows, v) == SumFunction([i \in DOMAIN rows |-> Off(rows[i], v[i])])

Monotone(v) == \A i, j \in DOMAIN v : i < j => v[i] <= v[j]

\* The pooled levels rise from block to block, and no monotone choice of the
\* actuals as levels has a smaller weighted absolute loss (#247).
PoolingIsBest(rows) ==
  LET r == Ordered(rows)
      blocks == MedianBlocks(r)
      level == [i \in DOMAIN r |-> BlockOf(blocks, i).level]
      ys == {r[i].y : i \in DOMAIN r}
  IN /\ \A k \in 1..(Len(blocks) - 1) : blocks[k].level < blocks[k + 1].level
     /\ \A v \in [DOMAIN r -> ys] : Monotone(v) => Loss(r, level) <= Loss(r, v)

\* What is served never falls as the forecast rises, at the training points,
\* between them and outside them, however steps are thinned and served raw.
ServedIsMonotone(rows, forecasts) ==
  LET m == Fit(rows)
  IN /\ Monotone(m.served) /\ Monotone(m.feature)
     /\ \A a, b \in forecasts : a <= b => Predict(m, a) <= Predict(m, b)
=============================================================================
