------------------------------- MODULE Engine -------------------------------
(***************************************************************************)
(* The query engine (internal/promql/engine.go, funcs_lib.go): it          *)
(* evaluates the syntax tree of a query at a timestamp, or at every step   *)
(* of a range, on the series of the storage.                               *)
(*                                                                         *)
(* A tree is built of the records that module Parser names; its node field *)
(* says which.  The storage is a sequence of [labels, samples] in the      *)
(* order of Select (that of the label strings); module HeadIndex shows     *)
(* that Select finds the series it should.  A result is [kind, ...]:       *)
(* "scalar", "vector", "matrix" or "string", "error" for an error          *)
(* returned, "panic" where the code panics.                                *)
(*                                                                         *)
(* A request whose context is done gets an error from the next node that   *)
(* is evaluated; that is left out.                                         *)
(***************************************************************************)
EXTENDS Aggregation

CONSTANTS
    Language,           \* the texts regexp.Compile accepts -> the strings it matches
    Expand(_, _, _),    \* regexp.ExpandString(template, pattern, text)
    Join(_, _),         \* strings.Join(parts, separator)
    Calendar(_, _),     \* the component of a Unix time that package time computes
    Lookback,           \* Engine.lookback (5 minutes)
    DefaultStep,        \* defaultSubqueryStep (1 minute)
    MaxResolution,      \* maxResolution (11 000)
    MaxInt              \* the greatest int64

\* Go's division of ints, and its wrap-around.
Quo(i, j) == IntOf(Frac(i, j))
Wrap(i) == ((i + MaxInt + 1) % (2 * MaxInt + 2)) - MaxInt - 1

Matrix(m) == [kind |-> "matrix", matrix |-> m]
String(s) == [kind |-> "string", str |-> s]
Panicked == [kind |-> "panic"]

\* F(r) if r is of the kind that is required here.
Given(r, kind, F(_)) ==
    IF r.kind = kind THEN F(r) ELSE IF r.kind = "panic" THEN r ELSE Failed

-----------------------------------------------------------------------------
(* The storage *)

Accepts(m, text) ==
    CASE m.type = "=" -> text = m.value
      [] m.type = "!=" -> text # m.value
      [] m.type = "=~" -> text \in Language[m.value]
      [] m.type = "!~" -> text \notin Language[m.value]

MatchesAll(l, matchers) == \A i \in DOMAIN matchers : Accepts(matchers[i], Get(l, matchers[i].name))

\* Mutant: the window is open at its left end.
SelectOpen(db, mint, maxt, matchers) ==
    LET found == [i \in DOMAIN db |->
                     [labels |-> db[i].labels,
                      samples |-> SelectSeq(db[i].samples, LAMBDA s : mint < s.t /\ s.t <= maxt)]]
    IN  SelectSeq(found, LAMBDA s : MatchesAll(s.labels, matchers) /\ s.samples # <<>>)

\* Mutant: the window has no right end.
SelectAhead(db, mint, maxt, matchers) ==
    LET found == [i \in DOMAIN db |->
                     [labels |-> db[i].labels,
                      samples |-> SelectSeq(db[i].samples, LAMBDA s : mint <= s.t)]]
    IN  SelectSeq(found, LAMBDA s : MatchesAll(s.labels, matchers) /\ s.samples # <<>>)

\* The series that match, with their samples from mint to maxt, if any.
Select(db, mint, maxt, matchers) ==
    LET found == [i \in DOMAIN db |->
                     [labels |-> db[i].labels,
                      samples |-> SelectSeq(db[i].samples, LAMBDA s : mint <= s.t /\ s.t <= maxt)]]
    IN  SelectSeq(found, LAMBDA s : MatchesAll(s.labels, matchers) /\ s.samples # <<>>)

\* The time a selector reads at: env holds the storage and the query's bounds.
resolveTime(at, ts, env) ==
    CASE at.kind = "none" -> ts
      [] at.kind = "time" -> at.ts
      [] at.kind = "start" -> env.start
      [] at.kind = "end" -> env.end

\* The latest sample of the lookback window, with its own timestamp.
selectInstant(vs, ts, env) ==
    LET selTs == Wrap(resolveTime(vs.at, ts, env) - vs.offset)
        found == Select(env.db, Wrap(selTs - Lookback), selTs, vs.matchers)
    IN  [i \in DOMAIN found |->
            Sample(found[i].labels, Last(found[i].samples).t, Last(found[i].samples).v)]

selectRange(ms, ts, env) ==
    LET selTs == Wrap(resolveTime(ms.at, ts, env) - ms.offset)
        found == Select(env.db, Wrap(selTs - ms.range), selTs, ms.vs.matchers)
    IN  [i \in DOMAIN found |-> [metric |-> found[i].labels, points |-> found[i].samples]]

-----------------------------------------------------------------------------
(* A matrix made of the results of several steps *)

AddPoint(m, metric, t, v) ==
    IF \E i \in DOMAIN m : m[i].metric = metric
    THEN [i \in DOMAIN m |-> IF m[i].metric # metric THEN m[i]
                             ELSE [m[i] EXCEPT !.points = Append(@, [t |-> t, v |-> v])]]
    ELSE Append(m, [metric |-> metric, points |-> <<[t |-> t, v |-> v]>>])

\* m, after the result r of the step at t.
AddStep(m, t, r) ==
    CASE r.kind = "scalar" -> Matrix(AddPoint(m, NoLabels, t, r.scalar))
      [] r.kind = "vector" ->
            Matrix(FoldLeft(LAMBDA mm, s : AddPoint(mm, s.metric, t, s.v), m, r.vector))
      [] r.kind = "panic" -> r
      [] OTHER -> Failed

\* AddStep for start, start + step, ..., n steps after it: At(t) is the result at t.
Stepwise(start, step, n, At(_)) ==
    FoldLeft(LAMBDA r, i : LET t == Wrap(start + i * step)
                           IN  Given(r, "matrix", LAMBDA rr : AddStep(rr.matrix, t, At(t))),
             Matrix(<<>>), [k \in 1 .. n + 1 |-> k - 1])

-----------------------------------------------------------------------------
(* Helpers of the calls *)

\* The samples of vec with values F, at ts and without the name.
Mapped(vec, ts, F(_)) ==
    Vector([i \in DOMAIN vec |-> Sample(dropMetricName(vec[i].metric), ts, F(vec[i]))])

\* The samples of vec with labels F, at ts.
Relabelled(vec, ts, F(_)) == Vector([i \in DOMAIN vec |-> Sample(F(vec[i].metric), ts, vec[i].v)])

sgn(v) == IF IsNaN(v) THEN v ELSE IF Gt(v, Zero) THEN One ELSE IF Lt(v, Zero) THEN Neg(One) ELSE Zero

simpleFuncs == {"abs", "ceil", "floor", "exp", "ln", "log2", "log10", "sqrt", "sgn"}
simpleFunc(name, v) ==
    CASE name = "abs" -> IF Lt(v, Zero) THEN Neg(v) ELSE v
      [] name = "ceil" -> Ceil(v)
      [] name = "floor" -> Floor(v)
      [] name = "sgn" -> sgn(v)
      [] OTHER -> Math(name, v)

rangeFuncs == {"rate", "irate", "increase", "delta", "idelta", "deriv", "changes", "resets",
    "sum_over_time", "avg_over_time", "min_over_time", "max_over_time", "count_over_time",
    "stddev_over_time", "stdvar_over_time", "last_over_time", "present_over_time"}

timeFuncs == {"day_of_month", "day_of_week", "day_of_year", "days_in_month", "hour", "minute",
              "month", "year"}

\* sort and sort_desc: NaN last, either way.
sorted(vec, desc) ==
    StableSort(vec, LAMBDA s, r :
        ~IsNaN(s.v) /\ (IsNaN(r.v) \/ IF desc THEN Gt(s.v, r.v) ELSE Lt(s.v, r.v)))

\* What absent() knows of the labels of the series that is not there: those its
\* argument requires with "=", of two for one name the last.
absentLabels(arg) ==
    LET matchers == CASE arg.node = "vector" -> arg.matchers
                      [] arg.node = "matrix" -> arg.vs.matchers
                      [] OTHER -> <<>>
        equal == SelectSeq(matchers, LAMBDA m : m.type = "=" /\ m.name # MetricName)
    IN  FoldLeft(LAMBDA l, m : setLabel(l, m.name, m.value), NoLabels, equal)

Absent(arg, ts) == Vector(<<Sample(absentLabels(arg), ts, One)>>)

labelReplace(l, dst, repl, src, pattern) ==
    IF Get(l, src) \in Language[pattern]
    THEN setOrDeleteLabel(l, dst, Expand(repl, pattern, Get(l, src))) ELSE l

\* The buckets of every histogram in vec; a sample whose le is no number is none.
Histograms(vec) ==
    LET bucketed == SelectSeq(vec, LAMBDA s : Get(s.metric, "le") \in DOMAIN Numeral)
    IN  Groups(bucketed, LAMBDA s : dropLabels(s.metric, {MetricName, "le"}))

Bucket(s) == [upperBound |-> Numeral[s.metric["le"]], count |-> s.v]

histogramQuantile(phi, vec, ts) ==
    LET groups == Histograms(vec)
        buckets(g) == [i \in DOMAIN g.members |-> Bucket(g.members[i])]
    IN  [i \in DOMAIN groups |-> Sample(groups[i].key, ts, bucketQuantile(phi, buckets(groups[i])))]
-----------------------------------------------------------------------------
(* Evaluation *)

RECURSIVE evalExpr(_, _, _)

\* F of the value of argument i, if it is there and of that kind.
WithArg(c, i, ts, env, kind, F(_)) ==
    IF i > Len(c.args) THEN Failed ELSE Given(evalExpr(c.args[i], ts, env), kind, F)

argVector(c, i, ts, env, F(_)) == WithArg(c, i, ts, env, "vector", LAMBDA r : F(r.vector))
argScalar(c, i, ts, env, F(_)) == WithArg(c, i, ts, env, "scalar", LAMBDA r : F(r.scalar))
argMatrix(c, i, ts, env, F(_)) == WithArg(c, i, ts, env, "matrix", LAMBDA r : F(r.matrix))

\* The arguments from i to j are string literals; these are not evaluated.
argStrings(c, i, j) == Len(c.args) >= j /\ \A k \in i .. j : c.args[k].node = "string"

callRangeFunc(c, ts, env) ==
    argMatrix(c, 1, ts, env, LAMBDA m : Vector(applyRangeFunc(c.func, m, ts)))

callSimple(c, ts, env) ==
    IF c.func \notin simpleFuncs THEN Failed
    ELSE argVector(c, 1, ts, env,
                   LAMBDA vec : Mapped(vec, ts, LAMBDA s : simpleFunc(c.func, s.v)))

\* Without an argument, of the evaluation time.
callTimeFunc(c, ts, env) ==
    IF c.args = <<>> THEN Vector(<<Sample(NoLabels, ts, Calendar(c.func, IntOf(Seconds(ts))))>>)
    ELSE argVector(c, 1, ts, env,
                   LAMBDA vec : Mapped(vec, ts, LAMBDA s : Calendar(c.func, IntOf(s.v))))

callClamp(c, ts, env) ==
    argVector(c, 1, ts, env, LAMBDA vec :
        argScalar(c, 2, ts, env, LAMBDA mn :
            argScalar(c, 3, ts, env, LAMBDA mx :
                IF Gt(mn, mx) THEN Vector(<<>>)
                ELSE Mapped(vec, ts, LAMBDA s : MaxOf(mn, MinOf(mx, s.v))))))

callClampMaxMin(c, ts, env) ==
    argVector(c, 1, ts, env, LAMBDA vec :
        argScalar(c, 2, ts, env, LAMBDA lim :
            Mapped(vec, ts, LAMBDA s : IF c.func = "clamp_max" THEN MinOf(s.v, lim) ELSE MaxOf(s.v, lim))))

roundTo(v, unit) == Mul(Floor(Add(Div(v, unit), Frac(1, 2))), unit)

\* To a multiple of the second argument; without one, or for zero, of one.
callRound(c, ts, env) ==
    argVector(c, 1, ts, env, LAMBDA vec :
        Given(IF Len(c.args) = 1 THEN Scalar(One) ELSE evalExpr(c.args[2], ts, env), "scalar",
            LAMBDA to : Mapped(vec, ts, LAMBDA s :
                            roundTo(s.v, IF to.scalar = Zero THEN One ELSE to.scalar))))

\* Mutant: a vector of other than one sample is an error.
callScalarStrict(c, ts, env) ==
    argVector(c, 1, ts, env, LAMBDA vec : IF Len(vec) = 1 THEN Scalar(vec[1].v) ELSE Failed)

callScalar(c, ts, env) ==
    argVector(c, 1, ts, env, LAMBDA vec : Scalar(IF Len(vec) = 1 THEN vec[1].v ELSE NaN))

callVector(c, ts, env) ==
    argScalar(c, 1, ts, env, LAMBDA v : Vector(<<Sample(NoLabels, ts, v)>>))

callTimestamp(c, ts, env) ==
    argVector(c, 1, ts, env, LAMBDA vec : Mapped(vec, ts, LAMBDA s : Seconds(s.t)))

callSort(c, ts, env) ==
    argVector(c, 1, ts, env, LAMBDA vec : Vector(sorted(vec, c.func = "sort_desc")))

callAbsent(c, ts, env) ==
    argVector(c, 1, ts, env,
              LAMBDA vec : IF vec # <<>> THEN Vector(<<>>) ELSE Absent(c.args[1], ts))

callAbsentOverTime(c, ts, env) ==
    argMatrix(c, 1, ts, env, LAMBDA m :
        IF \E i \in DOMAIN m : m[i].points # <<>> THEN Vector(<<>>) ELSE Absent(c.args[1], ts))

ValueOn(line, x) == Add(Mul(line.slope, x), line.intercept)

callPredictLinear(c, ts, env) ==
    argMatrix(c, 1, ts, env, LAMBDA m :
        argScalar(c, 2, ts, env, LAMBDA secs :
            Vector(EachSeries(m, ts, dropMetricName, LAMBDA pts :
                IF Len(pts) < 2 THEN <<>> ELSE <<ValueOn(linearRegression(pts, ts), secs)>>))))

callQuantileOverTime(c, ts, env) ==
    argScalar(c, 1, ts, env, LAMBDA phi :
        argMatrix(c, 2, ts, env, LAMBDA m :
            IF \E i \in DOMAIN m : QuantilePanics(phi, m[i].points) THEN Panicked
            ELSE Vector(EachSeries(m, ts, dropMetricName, LAMBDA pts :
                    IF pts = <<>> THEN <<>> ELSE <<quantile(phi, ValuesOf(pts))>>))))

\* Arguments: the vector, then destination, replacement, source and pattern.
callLabelReplace(c, ts, env) ==
    argVector(c, 1, ts, env, LAMBDA vec :
        IF argStrings(c, 2, 5) /\ c.args[5].str \in DOMAIN Language
        THEN Relabelled(vec, ts, LAMBDA l :
                 labelReplace(l, c.args[2].str, c.args[3].str, c.args[4].str, c.args[5].str))
        ELSE Failed)

\* Arguments: the vector, then destination, separator and the sources.
callLabelJoin(c, ts, env) ==
    argVector(c, 1, ts, env, LAMBDA vec :
        IF argStrings(c, 2, IF Len(c.args) < 3 THEN 3 ELSE Len(c.args))
        THEN LET parts(l) == [i \in 1 .. Len(c.args) - 3 |-> Get(l, c.args[i + 3].str)]
             IN  Relabelled(vec, ts, LAMBDA l :
                     setOrDeleteLabel(l, c.args[2].str, Join(parts(l), c.args[3].str)))
        ELSE Failed)

callHistogramQuantile(c, ts, env) ==
    argScalar(c, 1, ts, env, LAMBDA phi :
        argVector(c, 2, ts, env, LAMBDA vec : Vector(histogramQuantile(phi, vec, ts))))

evalCall(c, ts, env) ==
    CASE c.func \in rangeFuncs -> callRangeFunc(c, ts, env)
      [] c.func = "predict_linear" -> callPredictLinear(c, ts, env)
      [] c.func = "quantile_over_time" -> callQuantileOverTime(c, ts, env)
      [] c.func = "histogram_quantile" -> callHistogramQuantile(c, ts, env)
      [] c.func = "label_replace" -> callLabelReplace(c, ts, env)
      [] c.func = "label_join" -> callLabelJoin(c, ts, env)
      [] c.func = "scalar" -> callScalar(c, ts, env)
      [] c.func = "vector" -> callVector(c, ts, env)
      [] c.func = "time" -> Scalar(Seconds(ts))
      [] c.func = "timestamp" -> callTimestamp(c, ts, env)
      [] c.func \in {"sort", "sort_desc"} -> callSort(c, ts, env)
      [] c.func = "absent" -> callAbsent(c, ts, env)
      [] c.func = "absent_over_time" -> callAbsentOverTime(c, ts, env)
      [] c.func = "clamp" -> callClamp(c, ts, env)
      [] c.func \in {"clamp_max", "clamp_min"} -> callClampMaxMin(c, ts, env)
      [] c.func = "round" -> callRound(c, ts, env)
      [] c.func \in timeFuncs -> callTimeFunc(c, ts, env)
      [] OTHER -> callSimple(c, ts, env)

negated(r) ==
    CASE r.kind = "scalar" -> Scalar(Neg(r.scalar))
      [] r.kind = "vector" ->
            Vector([i \in DOMAIN r.vector |->
                Sample(dropMetricName(r.vector[i].metric), r.vector[i].t, Neg(r.vector[i].v))])
      [] r.kind = "panic" -> r
      [] OTHER -> Failed

evalUnary(n, ts, env) == negated(evalExpr(n.expr, ts, env))

\* The steps start at the left end of the window.  A subquery keeps the bounds
\* of the query for the start() and end() inside it.
evalSubquery(sq, ts, env) ==
    LET step == IF sq.step <= 0 THEN DefaultStep ELSE sq.step
        start == Wrap(resolveTime(sq.at, ts, env) - sq.offset - sq.range)
        n == Quo(sq.range, step)
    IN  IF Wrap(n + 1) > MaxResolution THEN Failed
        ELSE Stepwise(start, step, n, LAMBDA t : evalExpr(sq.expr, t, env))

aggregated(a, vec, ts, param, paramStr) ==
    IF a.op = "quantile" /\ QuantilePanics(param, vec) THEN Panicked
    ELSE Vector(aggregate(a.op, vec, ToSet(a.grouping), a.without, ts, param, paramStr))

\* A string parameter is one of count_values, and for the others the empty one.
withParam(a, vec, ts, p) ==
    IF p.kind \notin {"scalar", "string"} THEN (IF p.kind = "panic" THEN p ELSE Failed)
    ELSE aggregated(a, vec, ts, IF p.kind = "scalar" THEN p.scalar ELSE Zero,
                                IF p.kind = "string" THEN p.str ELSE "")

\* The parameter is evaluated after the vector.
evalAggregate(a, ts, env) ==
    Given(evalExpr(a.expr, ts, env), "vector", LAMBDA inner :
        withParam(a, inner.vector, ts,
                  IF a.param = <<>> THEN Scalar(Zero) ELSE evalExpr(a.param[1], ts, env)))

operated(b, l, r) ==
    IF l.kind \in {"error", "panic"} THEN l
    ELSE IF r.kind \in {"error", "panic"} THEN r
    ELSE applyBinary(b, l, r)

evalBinary(b, ts, env) == operated(b, evalExpr(b.lhs, ts, env), evalExpr(b.rhs, ts, env))

evalExpr(e, ts, env) ==
    CASE e.node = "number" -> Scalar(e.num)
      [] e.node = "string" -> String(e.str)
      [] e.node = "paren" -> evalExpr(e.expr, ts, env)
      [] e.node = "unary" -> evalUnary(e, ts, env)
      [] e.node = "vector" -> Vector(selectInstant(e, ts, env))
      [] e.node = "matrix" -> Matrix(selectRange(e, ts, env))
      [] e.node = "subquery" -> evalSubquery(e, ts, env)
      [] e.node = "call" -> evalCall(e, ts, env)
      [] e.node = "aggregate" -> evalAggregate(e, ts, env)
      [] e.node = "binary" -> evalBinary(e, ts, env)

-----------------------------------------------------------------------------
(* Queries *)

\* A vector is reported at ts.
reportedAt(r, ts) == IF r.kind = "vector" THEN Vector(AtTime(ts, r.vector)) ELSE r

\* InstantQuery, of a parsed query.
InstantQuery(db, e, ts) ==
    reportedAt(evalExpr(e, ts, [db |-> db, start |-> ts, end |-> ts]), ts)

\* The number of steps of a range query after the first one, as RangeQuery
\* computes it, or <<>> where it refuses the range.
RangeSteps(start, end, step) ==
    LET span == Wrap(end - start)
    IN  IF step <= 0 \/ end < start \/ span < 0 \/ Wrap(span \div step + 1) > MaxResolution
        THEN <<>> ELSE <<span \div step>>
=============================================================================
