---------------------------- MODULE Aggregation -----------------------------
(***************************************************************************)
(* The aggregations and the binary operators of the query engine           *)
(* (internal/promql/funcs.go, with the matching of funcs_helpers.go).      *)
(***************************************************************************)
EXTENDS VectorOps

\* Mutant: by() keeps the metric name.
groupLabelsNamed(l, names, without) ==
    IF without THEN dropLabels(l, names) ELSE projectKeep(l, names)

\* The group of a label set: the labels listed, or all the others but the name.
groupLabels(l, names, without) ==
    IF without THEN dropLabels(l, names \cup {MetricName}) ELSE projectKeep(l, names)

reduce(op, vals, param) ==
    CASE op = "sum" -> Sum(vals)
      [] op = "avg" -> Mean(vals)
      [] op = "min" -> Least(vals[1], vals)
      [] op = "max" -> Greatest(vals[1], vals)
      [] op = "count" -> Count(vals)
      [] op = "group" -> One
      [] op = "stddev" -> Math("sqrt", variance(vals))
      [] op = "stdvar" -> variance(vals)
      [] op = "quantile" -> quantile(param, vals)

better(op, s, r) == IF op = "topk" THEN Gt(s.v, r.v) ELSE Lt(s.v, r.v)
FirstOf(s, k) == SubSeq(s, 1, IF k > Len(s) THEN Len(s) ELSE k)

AtTime(ts, samples) == [i \in DOMAIN samples |-> Sample(samples[i].metric, ts, samples[i].v)]

\* topk and bottomk: the k first of every group, with the labels they had.
aggregateTopk(op, groups, ts, k) ==
    AtTime(ts, FlattenSeq([i \in DOMAIN groups |->
        FirstOf(StableSort(groups[i].members, LAMBDA s, r : better(op, s, r)), k)]))

\* strconv.FormatFloat.
TextOf(v) == CHOOSE text \in DOMAIN Numeral : Numeral[text] = v

\* A sample per group, F of its members.
PerGroup(groups, ts, F(_)) ==
    [i \in DOMAIN groups |-> Sample(groups[i].key, ts, F(groups[i].members))]

\* A sample per group and distinct value, whose text becomes a label.
aggregateCountValues(in, names, without, ts, label) ==
    PerGroup(Groups(in, LAMBDA s : setLabel(groupLabels(s.metric, names, without), label, TextOf(s.v))),
             ts, Count)

grouped(in, names, without) == Groups(in, LAMBDA s : groupLabels(s.metric, names, without))

aggregate(op, in, names, without, ts, param, paramStr) ==
    CASE op = "count_values" -> aggregateCountValues(in, names, without, ts, paramStr)
      [] op \in {"topk", "bottomk"} -> aggregateTopk(op, grouped(in, names, without), ts, IntOf(param))
      [] OTHER -> PerGroup(grouped(in, names, without), ts,
                           LAMBDA members : reduce(op, ValuesOf(members), param))

-----------------------------------------------------------------------------
(* Binary operators.  A matching is [kind, labels, card, include]: kind is   *)
(* "on", "ignoring", or "none" where the query has no such clause.           *)

Comparisons == {"==", "!=", ">", "<", ">=", "<="}
isComparison(op) == op \in Comparisons

arithmetic(op, a, b) ==
    CASE op = "+" -> Add(a, b)
      [] op = "-" -> Sub(a, b)
      [] op = "*" -> Mul(a, b)
      [] op = "/" -> Div(a, b)
      [] op = "%" -> Mod(a, b)
      [] op = "^" -> Pow(a, b)

compare(op, a, b) ==
    CASE op = "==" -> Eq(a, b)
      [] op = "!=" -> ~Eq(a, b)
      [] op = ">" -> Gt(a, b)
      [] op = "<" -> Lt(a, b)
      [] op = ">=" -> Geq(a, b)
      [] op = "<=" -> Leq(a, b)

Truth(holds) == IF holds THEN One ELSE Zero

\* The value, and whether the comparison holds.
scalarBinop(op, a, b) ==
    IF isComparison(op) THEN [v |-> a, keep |-> compare(op, a, b)]
    ELSE [v |-> arithmetic(op, a, b), keep |-> TRUE]

\* What a pair contributes whose operation has the result r, s being the sample it
\* reports: a comparison without bool filters, and then the sample keeps its own
\* labels and value.
emit(op, returnBool, metric, r, s) ==
    CASE ~isComparison(op) -> <<Sample(metric, s.t, r.v)>>
      [] isComparison(op) /\ returnBool -> <<Sample(metric, s.t, Truth(r.keep))>>
      [] isComparison(op) /\ ~returnBool -> IF r.keep THEN <<s>> ELSE <<>>

\* The result of the operands in their order, or swapped.
ordered(op, a, b, swapped) == scalarBinop(op, IF swapped THEN b ELSE a, IF swapped THEN a ELSE b)

scalarVectorOp(op, scalar, vec, scalarLeft, returnBool) ==
    FlattenSeq([i \in DOMAIN vec |->
        emit(op, returnBool, dropMetricName(vec[i].metric),
             ordered(op, vec[i].v, scalar, scalarLeft), vec[i])])

\* Mutant: ignoring() matches on the name, too.
matchSignatureNamed(l, m, includeName) ==
    CASE m.kind = "none" -> IF includeName THEN l ELSE dropMetricName(l)
      [] m.kind = "on" -> projectKeep(l, ToSet(m.labels))
      [] m.kind = "ignoring" -> dropLabels(l, ToSet(m.labels))

\* What two samples must share to match.
matchSignature(l, m, includeName) ==
    CASE m.kind = "none" -> IF includeName THEN l ELSE dropMetricName(l)
      [] m.kind = "on" -> projectKeep(l, ToSet(m.labels))
      [] m.kind = "ignoring" -> dropLabels(l, ToSet(m.labels) \cup {MetricName})

resultMetricOneToOne(l, m) ==
    IF m.kind = "on" THEN projectKeep(l, ToSet(m.labels)) ELSE dropMetricName(l)

\* Those of vec that match s.  Of several, the code's index holds the last one.
Matching(vec, s, m, includeName) ==
    SelectSeq(vec, LAMBDA r : matchSignature(r.metric, m, includeName)
                              = matchSignature(s.metric, m, includeName))

\* group_left and group_right: the labels of the many side, and those included
\* from the one side, where it has them.
WithIncluded(l, from, m) ==
    LET included == {n \in ToSet(m.include) : Get(from, n) # ""}
    IN  [n \in included |-> from[n]] @@ dropMetricName(l)

resultMetric(s, r, m) ==
    IF m.card = "one-to-one" THEN resultMetricOneToOne(s.metric, m)
    ELSE WithIncluded(s.metric, r.metric, m)

\* What s of the many side contributes; found are the samples of the one side.
combined(b, s, found) ==
    IF found = <<>> THEN <<>>
    ELSE emit(b.op, b.bool, resultMetric(s, Last(found), b.matching),
              ordered(b.op, s.v, Last(found).v, b.matching.card = "one-to-many"), s)

pairs(b, many, one) ==
    FlattenSeq([i \in DOMAIN many |-> combined(b, many[i], Matching(one, many[i], b.matching, FALSE))])

vectorVectorOp(b, lhs, rhs) ==
    pairs(b, IF b.matching.card = "one-to-many" THEN rhs ELSE lhs,
             IF b.matching.card = "one-to-many" THEN lhs ELSE rhs)

vectorSetOp(op, lhs, rhs, m) ==
    CASE op = "and" -> SelectSeq(lhs, LAMBDA s : Matching(rhs, s, m, TRUE) # <<>>)
      [] op = "unless" -> SelectSeq(lhs, LAMBDA s : Matching(rhs, s, m, TRUE) = <<>>)
      [] op = "or" -> lhs \o SelectSeq(rhs, LAMBDA s : Matching(lhs, s, m, TRUE) = <<>>)

Failed == [kind |-> "error"]
Scalar(v) == [kind |-> "scalar", scalar |-> v]
Vector(vec) == [kind |-> "vector", vector |-> vec]

\* A comparison of numbers needs bool.
scalarResult(b, r) ==
    IF ~isComparison(b.op) THEN Scalar(r.v) ELSE IF b.bool THEN Scalar(Truth(r.keep)) ELSE Failed

applyBinary(b, l, r) ==
    CASE b.op \in {"and", "or", "unless"} ->
            IF l.kind = "vector" /\ r.kind = "vector"
            THEN Vector(vectorSetOp(b.op, l.vector, r.vector, b.matching)) ELSE Failed
      [] OTHER ->
            CASE l.kind = "scalar" /\ r.kind = "scalar" ->
                    scalarResult(b, scalarBinop(b.op, l.scalar, r.scalar))
              [] l.kind = "scalar" /\ r.kind = "vector" ->
                    Vector(scalarVectorOp(b.op, l.scalar, r.vector, TRUE, b.bool))
              [] l.kind = "vector" /\ r.kind = "scalar" ->
                    Vector(scalarVectorOp(b.op, r.scalar, l.vector, FALSE, b.bool))
              [] l.kind = "vector" /\ r.kind = "vector" -> Vector(vectorVectorOp(b, l.vector, r.vector))
              [] OTHER -> Failed
=============================================================================
