----------------------------- MODULE VectorOps ------------------------------
(***************************************************************************)
(* What the query engine computes on vectors and matrices                  *)
(* (internal/promql/funcs.go, funcs_helpers.go): the functions over a      *)
(* range of points, the aggregations, the binary operators with their      *)
(* matching, and the quantiles.                                            *)
(*                                                                         *)
(* A label set (model.Labels) is a function from names to values; an empty *)
(* value and a missing label are different labels that Get does not tell   *)
(* apart.  The string of a label set, which the code uses as a map key,    *)
(* stands for the set itself.  An instant vector is a sequence of          *)
(* [metric, t, v], a matrix one of [metric, points], points one of [t, v]. *)
(* A result that may be missing (a value and an ok flag in the code) is a  *)
(* sequence of at most one value.                                          *)
(***************************************************************************)
EXTENDS GoSort, Floats, TLC

CONSTANTS
    Numeral,        \* the texts strconv.ParseFloat accepts -> the value
    Math(_, _),     \* the functions of package math that leave the rationals
    Second,         \* ticks of a timestamp in a second (1000)
    BadInt          \* what converting NaN or an infinity to an int yields

MetricName == "__name__"
NoLabels == <<>>

Get(l, name) == IF name \in DOMAIN l THEN l[name] ELSE ""
projectKeep(l, names) == [n \in DOMAIN l \cap names |-> l[n]]
dropLabels(l, names) == [n \in DOMAIN l \ names |-> l[n]]
dropMetricName(l) == dropLabels(l, {MetricName})
setLabel(l, name, val) == (name :> val) @@ l
setOrDeleteLabel(l, name, val) ==
    IF val = "" THEN dropLabels(l, {name}) ELSE setLabel(l, name, val)

Sample(metric, t, v) == [metric |-> metric, t |-> t, v |-> v]
ValuesOf(s) == [i \in DOMAIN s |-> s[i].v]

\* A group per key, in the order in which the keys first appear.
Groups(s, Key(_)) ==
    LET keys == FoldLeft(LAMBDA ks, x : IF Contains(ks, Key(x)) THEN ks ELSE Append(ks, Key(x)), <<>>, s)
    IN  [i \in DOMAIN keys |->
            [key |-> keys[i], members |-> SelectSeq(s, LAMBDA x : Key(x) = keys[i])]]

\* Conversion of a float64 to an int, towards zero.
IntOf(x) ==
    IF x.d = 0 THEN BadInt ELSE IF x.n < 0 THEN -((-x.n) \div x.d) ELSE x.n \div x.d

\* A number of ticks in seconds.
Seconds(ticks) == Frac(ticks, Second)

-----------------------------------------------------------------------------
(* Functions over the points of one series *)

Steps(pts) == 2 .. Len(pts)
CountSteps(pts, P(_, _)) == Q(Cardinality({i \in Steps(pts) : P(pts[i].v, pts[i - 1].v)}))

\* Mutant: a reset counts as the (negative) difference.
increaseNoReset(cur, prev) == Sub(cur, prev)

\* The increment of a counter from prev to cur; after a reset, all of cur.
increase(cur, prev) == IF Geq(cur, prev) THEN Sub(cur, prev) ELSE cur

counterDelta(pts) ==
    IF Len(pts) < 2 THEN <<>>
    ELSE <<Sum([i \in 1 .. Len(pts) - 1 |-> increase(pts[i + 1].v, pts[i].v)])>>

\* delta, per second from one point to another.
PerSecond(delta, from, to) ==
    IF to.t <= from.t THEN <<>> ELSE <<Div(delta, Seconds(to.t - from.t))>>

rateValue(pts) ==
    IF Len(pts) < 2 THEN <<>> ELSE PerSecond(counterDelta(pts)[1], Head(pts), Last(pts))

\* The increment, or all of cur where it is negative.
irateDelta(d, cur) == IF Lt(d, Zero) THEN cur.v ELSE d

irateValue(pts) ==
    IF Len(pts) < 2 THEN <<>>
    ELSE LET cur == Last(pts)
             prev == pts[Len(pts) - 1]
         IN  PerSecond(irateDelta(Sub(cur.v, prev.v), cur), prev, cur)

simpleDelta(pts) == IF Len(pts) < 2 THEN <<>> ELSE <<Sub(Last(pts).v, Head(pts).v)>>
idelta(pts) == IF Len(pts) < 2 THEN <<>> ELSE <<Sub(Last(pts).v, pts[Len(pts) - 1].v)>>

\* Two NaN are no change.
changes(pts) == IF pts = <<>> THEN <<>> ELSE <<CountSteps(pts, LAMBDA cur, prev : cur # prev)>>
resets(pts) == IF pts = <<>> THEN <<>> ELSE <<CountSteps(pts, Lt)>>

Count(s) == Q(Len(s))
Mean(vals) == Div(Sum(vals), Count(vals))

\* The least and the greatest value, starting from init: NaN is never less.
Least(init, vals) == FoldLeft(LAMBDA m, x : IF Lt(x, m) THEN x ELSE m, init, vals)
Greatest(init, vals) == FoldLeft(LAMBDA m, x : IF Gt(x, m) THEN x ELSE m, init, vals)

Square(x) == Mul(x, x)
Products(xs, ys) == [i \in DOMAIN xs |-> Mul(xs[i], ys[i])]

meanSquare(vals, mean) == Mean([i \in DOMAIN vals |-> Square(Sub(vals[i], mean))])
variance(vals) == IF vals = <<>> THEN Zero ELSE meanSquare(vals, Mean(vals))

overTime(name, vals) ==
    CASE vals = <<>> -> <<>>
      [] vals # <<>> /\ name = "count_over_time" -> <<Count(vals)>>
      [] vals # <<>> /\ name = "sum_over_time" -> <<Sum(vals)>>
      [] vals # <<>> /\ name = "avg_over_time" -> <<Mean(vals)>>
      [] vals # <<>> /\ name = "min_over_time" -> <<Least(Inf, vals)>>
      [] vals # <<>> /\ name = "max_over_time" -> <<Greatest(NegInf, vals)>>
      [] vals # <<>> /\ name = "stddev_over_time" -> <<Math("sqrt", variance(vals))>>
      [] vals # <<>> /\ name = "stdvar_over_time" -> <<variance(vals)>>

\* The sum of products of which the parts have these sums, about their means.
Centred(sumXY, sumX, sumY, n) == Sub(sumXY, Div(Mul(sumX, sumY), n))

Slope(cov, varX) == IF varX = Zero THEN Zero ELSE Div(cov, varX)

\* The line with this slope through the mean point.
Line(slope, sumX, sumY, n) ==
    [slope |-> slope, intercept |-> Sub(Div(sumY, n), Div(Mul(slope, sumX), n))]

leastSquares(xs, ys, sumX, sumY, n) ==
    IF n = Zero THEN [slope |-> Zero, intercept |-> NaN]
    ELSE Line(Slope(Centred(Sum(Products(xs, ys)), sumX, sumY, n),
                    Centred(Sum(Products(xs, xs)), sumX, sumX, n)), sumX, sumY, n)

regression(xs, ys) == leastSquares(xs, ys, Sum(xs), Sum(ys), Count(xs))

\* Least squares, with x in seconds relative to interceptTime.
linearRegression(pts, interceptTime) ==
    regression([i \in DOMAIN pts |-> Seconds(pts[i].t - interceptTime)], ValuesOf(pts))

rangeFuncValue(name, pts, ts) ==
    CASE name = "rate" -> rateValue(pts)
      [] name = "increase" -> counterDelta(pts)
      [] name = "irate" -> irateValue(pts)
      [] name = "delta" -> simpleDelta(pts)
      [] name = "idelta" -> idelta(pts)
      [] name = "deriv" -> IF Len(pts) < 2 THEN <<>> ELSE <<linearRegression(pts, ts).slope>>
      [] name = "changes" -> changes(pts)
      [] name = "resets" -> resets(pts)
      [] name = "last_over_time" -> IF pts = <<>> THEN <<>> ELSE <<Last(pts).v>>
      [] name = "present_over_time" -> IF pts = <<>> THEN <<>> ELSE <<One>>
      [] OTHER -> overTime(name, ValuesOf(pts))

\* A sample for the value, if there is one.
SampleOf(metric, ts, value) == [j \in DOMAIN value |-> Sample(metric, ts, value[j])]

\* A sample for every series whose points have a value.
EachSeries(m, ts, Metric(_), Value(_)) ==
    FlattenSeq([i \in DOMAIN m |-> SampleOf(Metric(m[i].metric), ts, Value(m[i].points))])

\* The name is kept by last_over_time only.
applyRangeFunc(name, m, ts) ==
    EachSeries(m, ts, LAMBDA l : IF name = "last_over_time" THEN l ELSE dropMetricName(l),
                      LAMBDA pts : rangeFuncValue(name, pts, ts))

-----------------------------------------------------------------------------
(* Quantiles *)

\* sort.Float64s: NaN first.
Ascending(vals) == StableSort(vals, LAMBDA x, y : Lt(x, y) \/ (IsNaN(x) /\ ~IsNaN(y)))

Interpolated(x, y, weight) == Add(Mul(x, Sub(One, weight)), Mul(y, weight))

AtRank(s, rank) ==
    Interpolated(s[IntOf(Floor(rank)) + 1], s[IntOf(Ceil(rank)) + 1], Sub(rank, Floor(rank)))

\* The q-quantile, interpolated.  A rank that is NaN is QuantilePanics below.
quantile(q, vals) ==
    CASE vals = <<>> -> NaN
      [] vals # <<>> /\ Lt(q, Zero) -> NegInf
      [] vals # <<>> /\ Gt(q, One) -> Inf
      [] OTHER -> AtRank(Ascending(vals), Mul(q, Q(Len(vals) - 1)))

\* quantile indexes its slice with a NaN that it has converted to an int.
QuantilePanics(q, vals) == IsNaN(q) /\ vals # <<>> /\ BadInt \notin 0 .. Len(vals) - 1

\* Mutant: counts that decrease are not repaired.
NotRepaired(buckets) == buckets

\* The cumulative counts, made monotone: bucket counters scraped at different
\* moments may decrease.
Repaired(buckets) ==
    FoldLeft(LAMBDA bs, b :
                 Append(bs, IF bs # <<>> /\ Lt(b.count, Last(bs).count)
                            THEN [b EXCEPT !.count = Last(bs).count] ELSE b),
             <<>>, buckets)

\* The point between two buckets whose count would be rank.
Linear(start, end, rank) ==
    IF Eq(end.count, start.count) THEN start.upperBound
    ELSE Add(start.upperBound,
             Div(Mul(Sub(end.upperBound, start.upperBound), Sub(rank, start.count)),
                 Sub(end.count, start.count)))

\* The first bucket whose count reaches rank: sort.Search never asks the last one.
BucketOf(bs, rank) == Search(Len(bs) - 1, LAMBDA i : Geq(bs[i + 1].count, rank)) + 1

InBucket(bs, b, rank) ==
    IF b = Len(bs) THEN bs[b - 1].upperBound
    ELSE IF b = 1 /\ Leq(bs[1].upperBound, Zero) THEN bs[1].upperBound
    ELSE Linear(IF b > 1 THEN bs[b - 1] ELSE [upperBound |-> Zero, count |-> Zero], bs[b], rank)

AtCount(bs, rank) == InBucket(bs, BucketOf(bs, rank), rank)

OfBuckets(q, bs) ==
    IF Len(bs) < 2 \/ Last(bs).upperBound # Inf \/ Last(bs).count = Zero THEN NaN
    ELSE AtCount(bs, Mul(q, Last(bs).count))

\* The quantile of a histogram: linear in the bucket that the rank falls into.
\* sort.Slice may order equal bounds otherwise when there are more than a dozen.
bucketQuantile(q, buckets) ==
    CASE IsNaN(q) -> NaN
      [] Lt(q, Zero) -> NegInf
      [] Gt(q, One) -> Inf
      [] OTHER -> OfBuckets(q, Repaired(StableSort(buckets,
                                    LAMBDA b, c : Lt(b.upperBound, c.upperBound))))
=============================================================================
