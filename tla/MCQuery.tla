------------------------------ MODULE MCQuery -------------------------------
(* A model-checking instance of Query and its laws. *)
EXTENDS QueryLaws

MCNumeral ==
    "0" :> Zero @@ "1" :> One @@ "2" :> Q(2) @@ "3" :> Q(3) @@ "5" :> Q(5) @@ "0.5" :> Frac(1, 2)
    @@ "999" :> Q(999) @@ "+Inf" :> Inf @@ "NaN" :> NaN
MCBadInt == -1000
MCMath(f, v) == v
MCCalendar(f, v) == v
MCExpand(template, pattern, text) == template
MCJoin(parts, separator) == "joined"
MCLanguage == "1|2" :> {"1", "2"} @@ "+" :> {"1", "2", "3", "x", "y"}
MCUnitMs == "s" :> 1 @@ "m" :> 60 @@ "y" :> 300
MCParts == "2s" :> << <<2, "s">> >> @@ "1y" :> << <<1, "y">> >>

\* Texts of queries, word by word.
Quoted == "'1'" :> "1" @@ "'2'" :> "2" @@ "'1|2'" :> "1|2" @@ "'('" :> "(" @@ "'a'" :> "a"
    @@ "'__name__'" :> MetricName @@ "'+'" :> "+"
Durations == "1s" :> << <<1, "s">> >> @@ "2s" :> << <<2, "s">> >>
Signs == {"(", ")", "{", "}", "[", "]", ",", ":", "@", "+", "-", "*", "=", "!=", "=~", ">", "<="}
Lex(words) ==
    LET token(w) ==
            CASE w \in Signs -> [typ |-> w, word |-> w, parts |-> <<>>]
              [] w \in DOMAIN Quoted -> [typ |-> "string", word |-> Quoted[w], parts |-> <<>>]
              [] w \in DOMAIN Durations -> [typ |-> "duration", word |-> w, parts |-> Durations[w]]
              [] w \in DOMAIN MCNumeral -> [typ |-> "number", word |-> w, parts |-> <<>>]
              [] OTHER -> [typ |-> "identifier", word |-> w, parts |-> <<>>]
    IN  [i \in DOMAIN words |-> token(words[i])] \o <<[typ |-> "EOF", word |-> "", parts |-> <<>>]>>

CallText(f, args) == <<f, "(">> \o args \o <<")">>

Instant(words, time) == [path |-> "query", query |-> Lex(words), time |-> time]
Ranged(words, start, end, step) ==
    [path |-> "query_range", query |-> Lex(words), start |-> start, end |-> end, step |-> step]
Series(matches, start, end) ==
    [path |-> "series", matches |-> matches, start |-> start, end |-> end]
Labels(matches) == [path |-> "labels", matches |-> matches]
LabelValues(name, matches) == [path |-> "values", name |-> name, matches |-> matches]

Name(n) == P!Matcher("=", MetricName, n)
Label(type, n, v) == P!Matcher(type, n, v)
Metric(n) == MetricName :> n

x == Metric("x")
xa == Metric("x") @@ "a" :> "1"
xb == Metric("x") @@ "a" :> "2"
World == [series |-> <<x>>, values |-> {One}, batches |-> 1, writers |-> 1, shifts |-> {0},
          retention |-> {}, requests |-> {}, laws |-> {}, selectors |-> {}, labels |-> {},
          clauses |-> {}]

\* One counter, scraped four times.
Counter ==
    [World EXCEPT !.values = {Zero, One, Q(3)}, !.batches = 4,
        !.laws = {"windows", "counters"}, !.selectors = {<<Name("x")>>},
        !.requests = {Instant(<<"x", "[", "2s", ":", "1s", "]">>, "3"),
                      Instant(<<"sum", "(", "x", "[", "1s", "]", ")">>, ""),
                      Instant(<<"x", "{", "a", "=~", "'('", "}">>, "2")}]

\* Calls of functions, with good arguments and bad ones.
Calls ==
    [World EXCEPT !.series = <<xa, xb>>, !.values = {Q(2)}, !.batches = 2,
        !.requests = {Instant(CallText(f, args), "2") : f \in {"abs", "round", "sort_desc", "timestamp", "hour",
                      "absent", "scalar", "last_over_time", "exp"}, args \in {<<"x">>, <<"x", "[", "2s", "]">>}}
            \cup {Instant(CallText(f, args), "2") : f \in {"predict_linear", "round", "clamp_min", "clamp_max"},
                      args \in {<<"x", ",", "2">>, <<"x", "[", "2s", "]", ",", "2">>}}
            \cup {Instant(CallText(f, args), "2") : f \in {"histogram_quantile", "quantile_over_time", "topk", "quantile"},
                      args \in {<<"0.5", ",", "x">>, <<"0.5", ",", "x", "[", "2s", "]">>}}
            \cup {Instant(CallText(f, <<"x", ",", "'a'", ",", "'1'", ",", "'__name__'", ",", "'+'">>), "1") :
                      f \in {"label_join", "label_replace"}}
            \cup {Instant(CallText(f, <<>>), "1") : f \in {"time", "year", "abs"}}]

\* Two series, scraped twice, while range queries run.
Pair ==
    [World EXCEPT !.series = <<xa, xb>>, !.values = {One, Q(2)}, !.batches = 2,
        !.laws = {"windows"}, !.selectors = {<<Name("x")>>, <<Label("!=", "a", "1")>>},
        !.requests = {
            Ranged(<<"x">>, "0", "2", "1"),
            Ranged(<<"sum", "(", "x", "offset", "1s", ")">>, "0", "2", "2s"),
            Ranged(<<"x", "{", "a", "=", "'1'", "}", "+", "scalar", "(", "x", ")", "*", "2">>, "1", "2", "1"),
            Ranged(<<"absent", "(", "x", ")">>, "0", "5", "0.5"),
            Ranged(<<"x", "[", "1s", "]">>, "1", "2", "1"),
            Ranged(<<"x">>, "2", "3", "1y"),
            Instant(<<"clamp", "(", "x", ",", "1", ",", "scalar", "(", "x", ")", ")">>, "2"),
            Instant(<<"-", "x", ">", "1">>, "1"),
            Instant(<<"2", ">", "1">>, "NaN"),
            Series(<<Lex(<<"{", "a", "=~", "'1|2'", "}">>), Lex(<<"x", "{", "a", "=", "'1'", "}">>)>>, "1", "2"),
            Series(<<Lex(<<"x">>)>>, "", ""),
            Series(<<Lex(<<"x">>), Lex(<<"1">>)>>, "", ""),
            Labels(<<>>), Labels(<<Lex(<<"x">>)>>),
            LabelValues("a", <<Lex(<<"x", "{", "a", "!=", "'1'", "}">>), Lex(<<"x", "{", "a", "=", "'1'", "}">>)>>),
            LabelValues("a", <<>>)}]

\* Two batches at a time, with samples behind the clock and ahead of it, and
\* retention; queries that look back, ahead, at fixed times and at the bounds.
Late ==
    [World EXCEPT !.series = <<xa, xb>>, !.values = {One}, !.batches = 2, !.writers = 2,
        !.shifts = {-1, 1}, !.retention = {1}, !.laws = {"windows"},
        !.selectors = {<<Label("=", "a", "1")>>},
        !.requests = {
            Ranged(<<"sum", "(", "x", ")", "+", "scalar", "(", "x", "@", "start", "(", ")", ")">>, "1", "3", "1"),
            Ranged(<<"count_over_time", "(", "x", "[", "1s", ":", "1s", "]", "@", "end", "(", ")", ")">>, "0", "2", "2"),
            Instant(<<"x", "offset", "-", "1s">>, "1"),
            Instant(<<"count_over_time", "(", "x", "[", "1s", "]", "@", "2", ")">>, "1"),
            Instant(<<"x", "[", "2s", ":", "1s", "]", "offset", "1s">>, "3"),
            Series(<<Lex(<<"x">>)>>, "", ""),
            Labels(<<Lex(<<"x">>)>>),
            LabelValues("a", <<>>)}]

\* Gauges of two metrics.
Gauges ==
    [World EXCEPT !.values = {One, Q(2), NaN},
        !.series = <<xa @@ "b" :> "1", xa @@ "b" :> "2", xb @@ "b" :> "1", Metric("y") @@ "a" :> "1">>,
        !.laws = {"aggregation", "matching"}, !.labels = {"a", "b"},
        !.selectors = {<<Name("x")>>, <<Name("y")>>, <<Label("=~", MetricName, "+")>>, <<Label("=", "a", "1")>>},
        !.clauses = {P!NoMatching,
                     [P!NoMatching EXCEPT !.kind = "on", !.labels = <<"a">>],
                     [P!NoMatching EXCEPT !.kind = "ignoring", !.labels = <<"b">>]}]

\* A histogram of four buckets; two metrics in one.
BucketSeries(n, le) == Metric(n) @@ "le" :> le
Histogram ==
    [World EXCEPT !.values = {Zero, One, Q(2), Q(3)},
        !.series = <<BucketSeries("h", "+Inf"), BucketSeries("h", "1"), BucketSeries("h", "2"), BucketSeries("i", "3")>>,
        !.laws = {"histograms"},
        !.selectors = {<<Name("h")>>, <<Label("!=", "le", "")>>}]

MCCatalog == {Counter, Calls, Pair, Late, Gauges, Histogram}

\* A range that spans all times, one tick at a time.
Extreme == [World EXCEPT !.values = {One}, !.batches = 3,
               !.requests = {Ranged(<<"x">>, "0", "999", "1"), Ranged(<<"x">>, "1", "2", "1")}]
MCExtreme == {Counter, Extreme}
=============================================================================
