----------------------------- MODULE QueryLaws ------------------------------
(***************************************************************************)
(* What the answers of module Query should satisfy, whatever the storage   *)
(* holds: the properties are stated from the samples themselves, or relate *)
(* the answers of several queries, and do not follow the code that         *)
(* computes them.                                                          *)
(*                                                                         *)
(* A world names the laws to judge, and the selectors to judge them on.    *)
(***************************************************************************)
EXTENDS Query

\* The trees of queries.
Selector(matchers) == P!VectorSelector(matchers)
Window(matchers, rng) == P!MatrixSelector(Selector(matchers), rng)
Over(func, matchers, rng) == P!Call(func, <<Window(matchers, rng)>>)
Num(v) == P!NumberLiteral(v)

\* The answer of an instant query; a vector as a set of [metric, v].
At(e, ts) == InstantQuery(db, e, ts)
ValueSet(vec) == {[metric |-> s.metric, v |-> s.v] : s \in ToSet(vec)}
ValuesAt(e, ts) == ValueSet(At(e, ts).vector)

\* The times to look at, and the series that match with their samples in a window
\* (a closed one).
Times == 0 .. now
Whole == commits = <<>>
Judged(law) == Whole /\ law \in world.laws /\ range = <<>> /\ answer.request = NoRequest
Windowed(matchers, from, to) ==
    LET inside(i) == SelectSeq(db[i].samples, LAMBDA s : from <= s.t /\ s.t <= to)
    IN  {[metric |-> db[i].labels, pts |-> inside(i)] :
            i \in {j \in DOMAIN db : MatchesAll(db[j].labels, matchers) /\ inside(j) # <<>>}}

Total(set, F(_)) == MapThenFoldSet(Add, Zero, F, LAMBDA S : CHOOSE x \in S : TRUE, set)

-----------------------------------------------------------------------------
(* What a query reads *)

\* The tree with the bounds of the query for start() and end().
RECURSIVE Bound(_, _, _)
Bound(e, start, end) ==
    LET of(inner) == Bound(inner, start, end)
        all(inners) == [i \in DOMAIN inners |-> of(inners[i])]
        pinned(x) == [x EXCEPT !.at = CASE @.kind = "start" -> [kind |-> "time", ts |-> start]
                                        [] @.kind = "end" -> [kind |-> "time", ts |-> end]
                                        [] OTHER -> @]
    IN  CASE e.node \in {"number", "string"} -> e
          [] e.node \in {"vector", "matrix"} -> pinned(e)
          [] e.node = "subquery" -> pinned([e EXCEPT !.expr = of(@)])
          [] e.node \in {"paren", "unary"} -> [e EXCEPT !.expr = of(@)]
          [] e.node = "call" -> [e EXCEPT !.args = all(@)]
          [] e.node = "aggregate" -> [e EXCEPT !.expr = of(@), !.param = all(@)]
          [] e.node = "binary" -> [e EXCEPT !.lhs = of(@), !.rhs = of(@)]

Grid(start, end, step) == {t \in start .. end : (t - start) % step = 0}

\* The windows of a tree without start() and end() at ts: the series that match,
\* between two times.
RECURSIVE Reads(_, _)
Reads(e, ts) ==
    LET anchor == (IF e.at.kind = "time" THEN e.at.ts ELSE ts) - e.offset
        all(inners) == UNION {Reads(inners[i], ts) : i \in DOMAIN inners}
        window(matchers, length) ==
            {[matchers |-> matchers, from |-> anchor - length, to |-> anchor]}
    IN  CASE e.node \in {"number", "string"} -> {}
          [] e.node = "vector" -> window(e.matchers, Lookback)
          [] e.node = "matrix" -> window(e.vs.matchers, e.range)
          [] e.node = "subquery" ->
                UNION {Reads(e.expr, t) : t \in Grid(anchor - e.range, anchor,
                                                     IF e.step > 0 THEN e.step ELSE DefaultStep)}
          [] e.node \in {"paren", "unary"} -> Reads(e.expr, ts)
          [] e.node = "call" -> all(e.args)
          [] e.node = "aggregate" -> Reads(e.expr, ts) \cup all(e.param)
          [] e.node = "binary" -> Reads(e.lhs, ts) \cup Reads(e.rhs, ts)

\* One of the changed samples lies in a window of the tree.
Touched(e, ts, changed) ==
    \E w \in Reads(e, ts) : \E c \in changed :
        w.from <= c.t /\ c.t <= w.to /\ MatchesAll(c.labels, w.matchers)

LocalAt(e, ts, changed) ==
    InstantQuery(db', e, ts) # InstantQuery(db, e, ts) => Touched(e, ts, changed)

\* A sample that comes, late or ahead of the clock, or that retention drops,
\* changes the answer of a query at a time only if one of the query's selectors
\* matches its series and has it in its window.  Where offset and @ do not point
\* ahead, what is ingested for a time changes nothing before it (engine.go,
\* selectInstant, selectRange, evalSubquery; head.go, samplesInRange).
AnswersAreLocal ==
    [][db' # db => \A request \in world.requests : request.path = "query" =>
          LET parsed == P!Parse(request.query)
          IN  parsed.ok => \A ts \in Times :
                  LocalAt(Bound(parsed.val, ts, ts), ts, Changed(db, db'))]_vars

-----------------------------------------------------------------------------
(* A range query *)

\* What a range query keeps of an instant answer, and what it has at a time.
Kept(r) == IF r.kind = "scalar" THEN {[metric |-> NoLabels, v |-> r.scalar]} ELSE ValueSet(r.vector)
PointsAt(matrix, t) ==
    UNION {{[metric |-> s.metric, v |-> p.v] : p \in {q \in ToSet(s.points) : q.t = t}} :
              s \in ToSet(matrix)}

\* r is the result of the instant answers on the grid; those at the times of moved
\* may have been different ones.
Composed(r, grid, instant, moved) ==
    CASE r.kind = "matrix" ->
            /\ \A t \in grid \ moved : PointsAt(r.matrix, t) = Kept(instant[t])
            /\ \A s \in ToSet(r.matrix) :
                  /\ \A p \in ToSet(s.points) : p.t \in grid
                  /\ \A i, j \in DOMAIN s.points : i < j => s.points[i].t < s.points[j].t
      [] r.kind = "error" -> \E t \in grid : instant[t].kind \notin {"scalar", "vector"}
      [] OTHER -> \E t \in grid : t \in moved \/ instant[t].kind = "panic"

ComposedOn(tree, grid, result, changed) ==
    Composed(result, grid, [t \in grid |-> At(tree, t)], {t \in grid : Touched(tree, t, changed)})

\* A range query evaluates its query at every step as an instant query would, no
\* matter what is ingested or dropped meanwhile: at each step that reads no sample
\* that came or went since it began, it has the points that an instant query gives
\* now (an error if one of them is an error), and it has no points between the
\* steps.  start() and end() are the bounds of the range, at every step and inside
\* a subquery (engine.go, RangeQuery).
RangeIsInstants ==
    answer.request.path = "query_range" =>
        \/ answer.result = Failed /\ rangeQuery(answer.request) = <<>>
        \/ LET r == rangeQuery(answer.request)[1]
           IN  ComposedOn(Bound(r.expr, r.start, r.end), Grid(r.start, r.end, r.step),
                          answer.result, answer.changed)

-----------------------------------------------------------------------------
(* Selectors and windows *)

\* Queries on a selector, and their answers at some times.
WindowQueries(e, ms, r) ==
    LET count == Over("count_over_time", ms, r)
    IN  [plain |-> e, count |-> count, last |-> Over("last_over_time", ms, Lookback),
         shifted |-> [e EXCEPT !.offset = r],
         pinned |-> [e EXCEPT !.at = [kind |-> "time", ts |-> r]],
         sub |-> P!SubqueryExpr(count, 3, r),
         absent |-> P!Call("absent", <<e>>),
         absentOver |-> P!Call("absent_over_time", <<Window(ms, r)>>)]

WindowAnswers(queries) == [name \in DOMAIN queries, t \in Int |-> At(queries[name], t)]

SubqueryValues(points, ts, k) == {p.v : p \in {q \in ToSet(points) : q.t = ts - 3 + k}}

WindowLaw(ms, ts, r, answers) ==
    LET values(name, t) == ValueSet(answers[name, t].vector)
    IN  /\ values("count", ts) =
              {[metric |-> dropMetricName(w.metric), v |-> Count(w.pts)] :
                  w \in Windowed(ms, ts - r, ts)}
        /\ answers["plain", ts] = answers["last", ts]
        /\ values("shifted", ts) = values("plain", ts - r)
        /\ values("pinned", ts) = values("plain", r)
        /\ \A w \in ToSet(answers["sub", ts].matrix) : \A k \in 0 .. 3 :
              SubqueryValues(w.points, ts, k) = {s.v : s \in {v \in values("count", ts - 3 + k) :
                                                          k % r = 0 /\ v.metric = w.metric}}
        /\ values("absent", ts) = {} <=> values("plain", ts) # {}
        /\ values("absentOver", ts) = {} <=> Windowed(ms, ts - r, ts) # {}

\* The window of a range selector is closed at both ends; an instant selector
\* takes the last sample of the lookback window; offset and @ shift the time; a
\* subquery evaluates at start, start + step, ... up to the end of its window;
\* absent holds where there is nothing (engine.go, tsdb Select).
WindowLaws ==
    Judged("windows") => \A ms \in world.selectors : \A r \in 1 .. 3 : \A ts \in Times :
        WindowLaw(ms, ts, r, WindowAnswers(WindowQueries(Selector(ms), ms, r)))

-----------------------------------------------------------------------------
(* Functions of the points of a series *)

\* value[func] is what func gives for the series with these points.
CounterLaw(pts, value) ==
    LET n == Len(pts)
        lost == {i \in 2 .. n : Lt(pts[i].v, pts[i - 1].v)}
        gained == Add(Sub(pts[n].v, pts[1].v), Total(lost, LAMBDA i : pts[i - 1].v))
        elapsed == Seconds(pts[n].t - pts[1].t)
        mean == Div(Total(DOMAIN pts, LAMBDA i : pts[i].v), Q(n))
        squares == Total(DOMAIN pts, LAMBDA i : Mul(pts[i].v, pts[i].v))
    IN  IF n = 1
        THEN \A func \in {"increase", "rate", "irate", "delta", "idelta", "deriv"} : value[func] = {}
        ELSE /\ value["increase"] = {gained}
             /\ Geq(gained, Zero)
             /\ value["rate"] = {Div(gained, elapsed)}
             /\ value["delta"] = {Sub(pts[n].v, pts[1].v)}
             /\ value["resets"] = {Q(Cardinality(lost))}
             /\ value["changes"] = {Q(Cardinality({i \in 2 .. n : pts[i].v # pts[i - 1].v}))}
             /\ value["avg_over_time"] = {mean}
             /\ value["stdvar_over_time"] = {Sub(Div(squares, Q(n)), Mul(mean, mean))}
             /\ \A low \in value["min_over_time"], high \in value["max_over_time"] :
                   /\ \A i \in 1 .. n : Leq(low, pts[i].v) /\ Leq(pts[i].v, high)
                   /\ \A d \in value["deriv"] :      \* the line passes the mean point
                         Leq(Mul(d, elapsed), Sub(high, low)) \/ n > 2

\* increase is what a counter gained, over its resets: the difference of its ends
\* and what it had before each reset.  So it is additive, no less than delta and
\* at least 0; rate is increase per second; averages, variances and regressions
\* follow from sums; the order statistics stay between the extremes
\* (funcs.go, rangeFuncValue).
CounterLaws ==
    Judged("counters") => \A ms \in world.selectors : \A ts \in Times : \A r \in 1 .. 3 :
        \A w \in Windowed(ms, ts - r, ts) :
            CounterLaw(w.pts, [func \in rangeFuncs |->
                {s.v : s \in {v \in ValuesAt(Over(func, ms, r), ts) :
                                 v.metric = dropMetricName(w.metric)}}])

-----------------------------------------------------------------------------
(* Aggregations *)

Agg(op, param, e, names, without) ==
    P!AggregateExpr(op, param, e, [without |-> without, labels |-> SetToSeq(names)])

Aggregated(e, names, without) ==
    [op \in {"sum", "count", "avg", "min", "max", "stdvar", "group"} |->
        ValuesAt(Agg(op, <<>>, e, names, without), now)]
AggregatedBy(op, param, e, names) == ValuesAt(Agg(op, <<param>>, e, names, FALSE), now)

TotalOf(set) == Total(set, LAMBDA s : s.v)
GroupOf(g, in, names) == {s \in in : \A l \in names : Get(s.metric, l) = Get(g.metric, l)}

\* by the names, and without the other labels.
GroupingLaw(names, in, by, without) ==
    /\ by = without
    /\ \A op \in DOMAIN by :
          /\ \A g, h \in by[op] : g.metric = h.metric => g = h
          /\ \A g \in by[op] : MetricName \notin DOMAIN g.metric
    /\ TotalOf(by["count"]) = Q(Cardinality(in))
    /\ TotalOf(by["sum"]) = TotalOf(in)
    /\ \A g \in by["sum"] : g.v = TotalOf(GroupOf(g, in, names))
    /\ \A g \in by["count"] : g.v = Q(Cardinality(GroupOf(g, in, names)))

\* The quantiles of the samples, and of the negated ones, by phi.
ExtremesLaw(names, in, by, quantiles, mirrored) ==
    /\ \A g \in by["min"] : \A s \in GroupOf(g, in, names) : Leq(g.v, s.v)
    /\ \A g \in by["max"] : \A s \in GroupOf(g, in, names) : Geq(g.v, s.v)
    /\ quantiles[Zero] = by["min"] /\ quantiles[One] = by["max"]
    /\ \A q \in DOMAIN quantiles : \A g \in quantiles[q] :
          [g EXCEPT !.v = Neg(@)] \in mirrored[Sub(One, q)]

\* kept are the k best.
TopLaw(names, in, k, kept, NoWorse(_, _)) ==
    /\ kept \subseteq in
    /\ \A s \in in :
          /\ Cardinality(kept \cap GroupOf(s, in, names))
                = Min({k, Cardinality(GroupOf(s, in, names))})
          /\ s \notin kept => \A r \in kept \cap GroupOf(s, in, names) : NoWorse(r.v, s.v)

Quantiles(e, names) ==
    [q \in {Zero, Frac(1, 4), Frac(1, 2), Frac(3, 4), One} |->
        AggregatedBy("quantile", Num(q), e, names)]

AggregationLaw(e, names, in) ==
    /\ LET by == Aggregated(e, names, FALSE)
       IN  /\ GroupingLaw(names, in, by, Aggregated(e, world.labels \ names, TRUE))
           /\ (\A s \in in : ~IsNaN(s.v)) =>
                  ExtremesLaw(names, in, by, Quantiles(e, names), Quantiles(P!UnaryExpr(e), names))
    /\ TotalOf(AggregatedBy("count_values", P!StringLiteral("v"), e, names)) = Q(Cardinality(in))
    /\ (\A s \in in : ~IsNaN(s.v)) => \A k \in 1 .. 2 :
          /\ TopLaw(names, in, k, AggregatedBy("topk", Num(Q(k)), e, names), Geq)
          /\ TopLaw(names, in, k, AggregatedBy("bottomk", Num(Q(k)), e, names), Leq)

\* Grouping partitions the samples: every group is aggregated from its own
\* samples; by() and without() of the other labels agree; the groups' sums and
\* counts make up the whole; the quantiles of the negated samples mirror theirs;
\* topk and bottomk keep the k best of every group with their labels
\* (funcs.go, aggregate).
AggregationLaws ==
    Judged("aggregation") => \A ms \in world.selectors : \A names \in SUBSET world.labels :
        AggregationLaw(Selector(ms), names, ValuesAt(Selector(ms), now))

-----------------------------------------------------------------------------
(* Binary operators *)

Bin(op, lhs, rhs, m, returnBool) == P!BinaryExpr(op, lhs, rhs, m, returnBool)
Card(m, card) == [m EXCEPT !.card = card]

BinaryAnswers(l, r, m) ==
    [name \in {"and", "unless", "or", ">", "<=", "+", "-"} |->
        ValuesAt(Bin(name, l, r, m, FALSE), now)]

\* group_left, and group_right with the sides swapped.
GroupedAnswers(l, r, m) ==
    [swapped \in BOOLEAN |->
        ValuesAt(IF swapped THEN Bin("*", r, l, Card(m, "one-to-many"), FALSE)
                 ELSE Bin("*", l, r, Card(m, "many-to-one"), FALSE), now)]

\* The labels that the two sides must share.
KeyOf(s, m) ==
    [n \in IF m.kind = "on" THEN ToSet(m.labels) ELSE world.labels \ ToSet(m.labels) |->
        Get(s.metric, n)]
Keyed(set, m) == {[key |-> KeyOf(s, m), v |-> s.v] : s \in set}
Mates(s, set, m) == {o \in set : KeyOf(o, m) = KeyOf(s, m)}
UniqueIn(set, m) == \A s \in set : Mates(s, set, m) = {s}
Matched(left, right, m) == {s \in left : Mates(s, right, m) # {}}

\* What a set operator matches on without a clause includes the name.
Alike(s, set, m) == IF m.kind = "none" THEN {o \in set : o.metric = s.metric} ELSE Mates(s, set, m)

SetLaw(left, right, m, op) ==
    /\ op["and"] = {s \in left : Alike(s, right, m) # {}}
    /\ op["unless"] = left \ op["and"]
    /\ op["or"] = left \cup {s \in right : Alike(s, left, m) = {}}

PairLaw(left, right, m, op, plusSwapped) ==
    LET numbers == \A s \in left \cup right : ~IsNaN(s.v)
    IN  /\ op[">"] \cup op["<="] \subseteq Matched(left, right, m)
        /\ numbers => op[">"] \cap op["<="] = {}
        /\ UniqueIn(left, m) /\ UniqueIn(right, m) =>
              /\ Keyed(op["+"], m) = Keyed(plusSwapped, m)
              /\ Cardinality(op["-"]) = Cardinality(Matched(left, right, m))
              /\ numbers =>
                    /\ op[">"] \cup op["<="] = Matched(left, right, m)
                    /\ op[">"] = {s \in left : \E o \in Mates(s, right, m) : Gt(s.v, o.v)}

GroupLaw(left, right, m, joined) ==
    UniqueIn(right, m) =>
        /\ joined[TRUE] = joined[FALSE]
        /\ Cardinality({s.metric : s \in joined[FALSE]})
              = Cardinality({dropMetricName(s.metric) : s \in Matched(left, right, m)})

MatchingLaw(l, r, left, right, m) ==
    /\ LET op == BinaryAnswers(l, r, m)
       IN  /\ SetLaw(left, right, m, op)
           /\ PairLaw(left, right, m, op, ValuesAt(Bin("+", r, l, m, FALSE), now))
    /\ GroupLaw(left, right, m, GroupedAnswers(l, r, m))

\* "and" and "unless" partition their left side, "or" adds what does not match;
\* a comparison keeps the samples for which it holds, its complement the rest of
\* what matches; a matching by no label but the listed ones (or all but these,
\* and never the name) pairs the same samples from either side
\* (funcs.go, vectorSetOp and vectorVectorOp).
MatchingLaws ==
    Judged("matching") => \A ls, rs \in world.selectors : \A m \in world.clauses :
        MatchingLaw(Selector(ls), Selector(rs),
                    ValuesAt(Selector(ls), now), ValuesAt(Selector(rs), now), m)

-----------------------------------------------------------------------------
(* Histograms *)

BoundOf(s) == Numeral[s.metric["le"]]
HistogramOf(s) == dropLabels(s.metric, {MetricName, "le"})
Most(set) == FoldSet(LAMBDA s, c : MaxOf(s.v, c), Zero, set)
UpTo(buckets, x) == {s \in buckets : Leq(BoundOf(s), x)}

\* value is the quantile of these buckets for rank.
InItsBucket(value, buckets, finite, rank) ==
    /\ \A x \in finite : Lt(x, value) => Leq(Most(UpTo(buckets, x)), rank)
    /\ \A x \in finite : Lt(value, x) => Leq(rank, Most(UpTo(buckets, x)))
    /\ \E x \in finite : Leq(value, x)

\* values[i] is the set of quantiles for phis[i].
HistogramLaw(buckets, finite, total, phis, values) ==
    IF Cardinality(finite) = Cardinality(buckets) \/ Cardinality(buckets) < 2 \/ total = Zero
    THEN \A i \in DOMAIN phis : values[i] = {NaN}
    ELSE \A i \in DOMAIN phis :
            /\ Cardinality(values[i]) = 1
            /\ \A v \in values[i] :
                  /\ InItsBucket(v, buckets, finite, Mul(phis[i], total))
                  /\ \A j \in 1 .. i : \A u \in values[j] : Leq(u, v)

Phis == <<Zero, Frac(1, 4), Frac(1, 2), One>>

HistogramsLaw(samples, answers) ==
    \A k \in {HistogramOf(s) : s \in samples} :
        LET buckets == {s \in samples : HistogramOf(s) = k}
        IN  HistogramLaw(buckets, {BoundOf(s) : s \in buckets} \ {Inf}, Most(buckets), Phis,
                [i \in DOMAIN Phis |-> {s.v : s \in {q \in answers[i] : q.metric = k}}])

\* A quantile of a histogram grows with phi, and lies in the bucket that the rank
\* falls into when the counts are read as never decreasing; a histogram that
\* does not end with +Inf, or is empty, has none; the buckets of one histogram are
\* told from those of another by their labels without le and the name
\* (funcs_helpers.go, bucketQuantile).
HistogramLaws ==
    Judged("histograms") => \A ms \in world.selectors :
        HistogramsLaw({s \in ValuesAt(Selector(ms), now) : Get(s.metric, "le") \in DOMAIN Numeral},
            [i \in DOMAIN Phis |->
                ValuesAt(P!Call("histogram_quantile", <<Num(Phis[i]), Selector(ms)>>), now)])

-----------------------------------------------------------------------------
(* Errors, and listings *)

\* The arguments that a function takes when n are given: their kinds, of the first
\* ones; more are ignored.
Signature(func, n) ==
    CASE func \in rangeFuncs \cup {"absent_over_time"} -> <<"matrix">>
      [] func = "predict_linear" -> <<"matrix", "scalar">>
      [] func = "quantile_over_time" -> <<"scalar", "matrix">>
      [] func = "histogram_quantile" -> <<"scalar", "vector">>
      [] func = "label_replace" -> <<"vector", "string", "string", "string", "string">>
      [] func = "label_join" -> [i \in 1 .. IF n < 3 THEN 3 ELSE n |-> IF i = 1 THEN "vector" ELSE "string"]
      [] func \in {"clamp_max", "clamp_min"} -> <<"vector", "scalar">>
      [] func = "clamp" -> <<"vector", "scalar", "scalar">>
      [] func = "round" -> IF n = 1 THEN <<"vector">> ELSE <<"vector", "scalar">>
      [] func = "vector" -> <<"scalar">>
      [] func = "time" -> <<>>
      [] func \in timeFuncs -> IF n = 0 THEN <<>> ELSE <<"vector">>
      [] OTHER -> <<"vector">>

\* What a query gives, told from its tree: a kind, or "error".
RECURSIVE KindOf(_)
KindOf(e) ==
    LET kinds == [i \in DOMAIN e.args |-> KindOf(e.args[i])]
        within(inner) == IF inner \in {"scalar", "vector"} THEN inner ELSE "error"
    IN  CASE e.node = "number" -> "scalar"
          [] e.node = "string" -> "string"
          [] e.node = "paren" -> KindOf(e.expr)
          [] e.node = "unary" -> within(KindOf(e.expr))
          [] e.node = "vector" -> "vector"
          [] e.node = "matrix" -> "matrix"
          [] e.node = "subquery" -> IF within(KindOf(e.expr)) = "error" THEN "error" ELSE "matrix"
          [] e.node = "aggregate" ->
                IF /\ KindOf(e.expr) = "vector"
                   /\ e.param # <<>> => KindOf(e.param[1]) \in {"scalar", "string"}
                THEN "vector" ELSE "error"
          [] e.node = "call" ->
                IF ~IsPrefix(Signature(e.func, Len(e.args)), kinds) THEN "error"
                ELSE IF e.func \in {"scalar", "time"} THEN "scalar" ELSE "vector"
          [] e.node = "binary" ->
                LET l == KindOf(e.lhs)
                    r == KindOf(e.rhs)
                IN  CASE within(l) = "error" \/ within(r) = "error" -> "error"
                      [] l = "vector" /\ r = "vector" -> "vector"
                      [] l = "scalar" /\ r = "scalar" ->
                            IF e.op \in {"and", "or", "unless"} \/ (isComparison(e.op) /\ ~e.bool)
                            THEN "error" ELSE "scalar"
                      [] OTHER -> IF e.op \in {"and", "or", "unless"} THEN "error" ELSE "vector"

\* Whether a query fails does not depend on the data: it gives the kind that its
\* tree tells.  (Where the code panics, see the README.)  Otherwise a dashboard
\* would fail only at the steps with some data (engine.go, evalExpr).
KindIsStatic ==
    LET parsed == P!Parse(answer.request.query)
    IN  answer.request.path = "query" =>
            answer.result.kind = IF parsed.ok /\ parseTimeParam(answer.request.time, <<now>>) # <<>>
                                 THEN KindOf(parsed.val) ELSE "error"

\* The clock, or the time of the latest sample if that is ahead of it.
Latest == Max({now} \cup UNION {{s.t : s \in ToSet(db[i].samples)} : i \in DOMAIN db})

\* The label sets that one of the selectors finds in a window.
SelectedBy(parsed, from, to) ==
    UNION {{s.metric : s \in ValuesAt(Over("last_over_time", parsed[k].val, to - from), to)} :
              k \in DOMAIN parsed}

ListingOf(request, labelSets) ==
    CASE request.path = "series" -> labelSets
      [] request.path = "labels" -> UNION {DOMAIN l : l \in labelSets}
      [] request.path = "values" ->
            {l[request.name] : l \in {k \in labelSets : request.name \in DOMAIN k}}

ListingLaw(request, result, parsed, from, to) ==
    IF \E k \in DOMAIN parsed : ~parsed[k].ok THEN result = Failed
    ELSE request.matches # <<>> =>
            LET listing == ListingOf(request, SelectedBy(parsed, from, to))
            IN  /\ listing \subseteq result.set
                /\ Whole \/ request.path = "series" => listing = result.set

\* The listings agree with the queries: /series lists the label sets that one of
\* its selectors finds in its window, and what /labels and /values offer are the
\* names and values of these, for a window of all times; they may know more while
\* a batch is applied, never less, and nothing of a series that retention has
\* removed (api.go, handleSeries, handleLabels).
ListingsAgree ==
    LET request == answer.request
    IN  request.path \in {"series", "labels", "values"} =>
            ListingLaw(request, answer.result, parsedMatches(request.matches),
                       IF request.path = "series" THEN parseTimeParam(request.start, <<0>>)[1] ELSE 0,
                       IF request.path = "series" THEN parseTimeParam(request.end, <<Latest>>)[1] ELSE Latest)

\* From engine.go:23-24: "maxResolution caps the number of points a range query
\* may produce, bounding CPU/memory per request".
ResolutionCapped == range # <<>> => range[1].n + 1 <= MaxResolution
=============================================================================
