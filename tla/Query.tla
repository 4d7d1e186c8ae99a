------------------------------- MODULE Query --------------------------------
(***************************************************************************)
(* The query API (internal/api/api.go) on the engine and a storage that is *)
(* being written to: the handlers of /api/v1/query, query_range, series,   *)
(* labels and label values, the batches that ingestion commits, and        *)
(* retention.                                                              *)
(*                                                                         *)
(* A query runs without a lock: every Select locks the head for itself, so *)
(* samples appear between two steps of a range query, those of one batch   *)
(* one by one (appender.Commit) and those of several batches in any order. *)
(* A scrape takes its timestamp before the fetch and commits after it, and *)
(* a push brings timestamps of its own: a sample may appear in the past,   *)
(* or ahead of the clock.  Rollback and a failed Commit leave no sample    *)
(* behind and are left to Ingest and DB.                                   *)
(*                                                                         *)
(* One evaluation of the query at one time is a step here; of the          *)
(* selectors inside it the code may let the later ones see more than the   *)
(* earlier ones.                                                           *)
(*                                                                         *)
(* The text of a query is its sequence of tokens, which module Parser      *)
(* parses.  Requests are [path, ...]; a parameter that is missing is "".   *)
(* The answer is the result before it is rendered as JSON.                 *)
(***************************************************************************)
EXTENDS Engine, FiniteSetsExt

CONSTANTS
    Catalog,    \* the worlds: [series, values, batches, writers, shifts, retention, requests,
                \* ...], the bounds of the run and the requests that are made
    UnitMs,     \* unit of a duration -> its length in ticks
    Parts,      \* the text of a duration parameter -> its <<number, unit>> pairs
    None        \* no sample of a series in a batch

VARIABLES
    world,      \* one of Catalog
    db,         \* the storage: a sequence of [labels, samples], samples [t, v]
    created,    \* the series that exist, some still without a sample
    commits,    \* what every Commit has still to apply: sequences of [series, sample]
    now,        \* the clock
    range,      \* the range query that is evaluated: <<>> or one record
    answer      \* the latest answer: [request, result, changed]

vars == <<world, db, created, commits, now, range, answer>>

Ticks(f) == IntOf(Mul(f, Q(Second)))
P == INSTANCE Parser WITH Patterns <- DOMAIN Language

NoRequest == [path |-> "none"]
Answer(request, result, changed) == [request |-> request, result |-> result, changed |-> changed]
Immediate(request, result) == Answer(request, result, {})
NoAnswer == Immediate(NoRequest, Failed)

Init ==
    /\ world \in Catalog
    /\ db = [i \in DOMAIN world.series |-> [labels |-> world.series[i], samples |-> <<>>]]
    /\ created = {} /\ commits = <<>> /\ now = 0 /\ range = <<>>
    /\ answer = NoAnswer

-----------------------------------------------------------------------------
(* Ingestion and retention *)

\* The samples that came or went, as [labels, t].
Changed(before, after) ==
    UNION {{[labels |-> db[i].labels, t |-> s.t] :
                s \in SymDiff(ToSet(before[i].samples), ToSet(after[i].samples))} : i \in DOMAIN db}

\* The range query, which remembers what changed since it began.
Noticed(after) ==
    [k \in DOMAIN range |-> [range[k] EXCEPT !.changed = @ \cup Changed(db, after)]]

Unfinished(batches) == SelectSeq(batches, LAMBDA batch : batch # <<>>)

\* What a batch may hold of a series: its time is that of the clock at the next
\* tick, or shifted.
Stamped == [t : {now + 1 + shift : shift \in world.shifts}, v : world.values]

\* A scrape or a push stages a batch, which creates the series that are new, and
\* calls Commit.
StageBatch ==
    /\ Len(commits) < world.writers /\ now < world.batches
    /\ \E samples \in [DOMAIN db -> Stamped \cup {None}] :
          LET staged == SelectSeq([i \in DOMAIN db |-> [series |-> i, sample |-> samples[i]]],
                                  LAMBDA s : s.sample # None)
          IN  /\ commits' = Unfinished(Append(commits, staged))
              /\ created' = created \cup {staged[k].series : k \in DOMAIN staged}
    /\ now' = now + 1
    /\ answer' = NoAnswer
    /\ UNCHANGED <<world, db, range>>

\* The first value of a timestamp is kept.
Inserted(samples, s) ==
    IF \E i \in DOMAIN samples : samples[i].t = s.t THEN samples
    ELSE SelectSeq(samples, LAMBDA o : o.t < s.t) \o <<s>> \o SelectSeq(samples, LAMBDA o : s.t < o.t)

\* One of the Commits applies its next sample.
ApplySample ==
    /\ \E k \in DOMAIN commits :
          LET next == Head(commits[k])
          IN  /\ db' = [db EXCEPT ![next.series].samples = Inserted(@, next.sample)]
              /\ commits' = Unfinished([commits EXCEPT ![k] = Tail(@)])
    /\ range' = Noticed(db')
    /\ answer' = NoAnswer
    /\ UNCHANGED <<world, created, now>>

\* Retention drops what is too old, and the series that are left empty; a sample
\* that is staged for one of these is lost, as its reference names no series.
Truncate ==
    /\ \E retention \in world.retention :
          LET kept == [i \in DOMAIN db |-> [db[i] EXCEPT !.samples =
                          SelectSeq(@, LAMBDA s : now - retention <= s.t)]]
              gone == {i \in created : kept[i].samples = <<>>}
          IN  /\ db' = kept
              /\ created' = created \ gone
              /\ commits' = Unfinished([k \in DOMAIN commits |->
                                SelectSeq(commits[k], LAMBDA s : s.series \notin gone)])
    /\ range' = Noticed(db')
    /\ answer' = NoAnswer
    /\ UNCHANGED <<world, now>>

-----------------------------------------------------------------------------
(* Parameters: <<value>>, or <<>> for an error *)

parseTimeParam(text, default) ==
    IF text = "" THEN default
    ELSE IF text \in DOMAIN Numeral /\ Numeral[text].d # 0 THEN <<Ticks(Numeral[text])>> ELSE <<>>

\* A number is one of seconds, finite or not; a duration has no years here.
parseStepParam(text) ==
    IF text \in DOMAIN Numeral THEN <<Ticks(Numeral[text])>>
    ELSE IF text \in DOMAIN Parts /\ \A k \in DOMAIN Parts[text] :
                Parts[text][k][2] \in {"s", "m", "h", "d", "w"}
    THEN <<P!parseDuration(Parts[text])>> ELSE <<>>

-----------------------------------------------------------------------------
(* Queries *)

answerAt(parsed, ts) ==
    IF ts = <<>> \/ ~parsed.ok THEN Failed ELSE InstantQuery(db, parsed.val, ts[1])

handleQuery(request) == answerAt(P!Parse(request.query), parseTimeParam(request.time, <<now>>))

HandleQuery ==
    /\ range = <<>>
    /\ \E request \in world.requests :
          /\ request.path = "query"
          /\ answer' = Immediate(request, handleQuery(request))
    /\ UNCHANGED <<world, db, created, commits, now, range>>

\* A range query that begins: [expr, start, end, step, n, ...], or <<>> if there is
\* an error in a parameter or in the query.
begun(request, start, end, step, parsed) ==
    IF start = <<>> \/ end = <<>> \/ step = <<>> THEN <<>>
    ELSE IF RangeSteps(start[1], end[1], step[1]) = <<>> \/ ~parsed.ok THEN <<>>
    ELSE <<[expr |-> parsed.val, start |-> start[1], end |-> end[1], step |-> step[1],
            n |-> RangeSteps(start[1], end[1], step[1])[1],
            i |-> 0, matrix |-> <<>>, request |-> request, changed |-> {}]>>

rangeQuery(request) ==
    begun(request, parseTimeParam(request.start, <<>>), parseTimeParam(request.end, <<>>),
          parseStepParam(request.step), P!Parse(request.query))

HandleQueryRange ==
    /\ range = <<>>
    /\ \E request \in world.requests :
          /\ request.path = "query_range"
          /\ range' = rangeQuery(request)
          /\ answer' = IF range' = <<>> THEN Immediate(request, Failed) ELSE NoAnswer
    /\ UNCHANGED <<world, db, created, commits, now>>

\* The result of a range query after its next step.
nextResult(r) ==
    LET t == Wrap(r.start + r.i * r.step)
    IN  AddStep(r.matrix, t, evalExpr(r.expr, t, [db |-> db, start |-> r.start, end |-> r.end]))

\* An error at one step fails the query.
Advance(r, result, last) ==
    IF result.kind = "matrix" /\ ~last
    THEN /\ range' = <<[r EXCEPT !.i = @ + 1, !.matrix = result.matrix]>>
         /\ UNCHANGED answer
    ELSE /\ range' = <<>>
         /\ answer' = Answer(r.request, result, r.changed)

\* Mutant: the last step is left out.
RangeStepShort ==
    /\ range # <<>>
    /\ Advance(range[1], nextResult(range[1]), range[1].i + 1 >= range[1].n)
    /\ UNCHANGED <<world, db, created, commits, now>>

\* RangeQuery evaluates the next step.  The series are sorted by their labels at the
\* end; here their order does not matter.
RangeStep ==
    /\ range # <<>>
    /\ Advance(range[1], nextResult(range[1]), range[1].i = range[1].n)
    /\ UNCHANGED <<world, db, created, commits, now>>

-----------------------------------------------------------------------------
(* Metadata: the union over the match[] selectors of a request *)

\* F of the matchers of every selector, united, or an error if one is malformed.
United(parsed, F(_)) ==
    IF \E k \in DOMAIN parsed : ~parsed[k].ok THEN Failed
    ELSE [kind |-> "set", set |-> UNION {F(parsed[k].val) : k \in DOMAIN parsed}]

parsedMatches(matches) == [k \in DOMAIN matches |-> P!ParseMatchers(matches[k])]

listed(matches, start, end) ==
    IF matches = <<>> \/ start = <<>> \/ end = <<>> THEN Failed
    ELSE United(parsedMatches(matches),
                LAMBDA matchers : {s.labels : s \in ToSet(Select(db, start[1], end[1], matchers))})

\* Mutant: only the last selector counts.
handleSeriesLast(request) ==
    listed(IF request.matches = <<>> THEN <<>> ELSE <<Last(request.matches)>>,
           parseTimeParam(request.start, <<0>>), parseTimeParam(request.end, <<now + 3600 * Second>>))

handleSeries(request) ==
    listed(request.matches,
           parseTimeParam(request.start, <<0>>), parseTimeParam(request.end, <<now + 3600 * Second>>))

\* The series that exist and match, at whatever times they have samples.
Existing(matchers) == {db[i].labels : i \in {j \in created : MatchesAll(db[j].labels, matchers)}}

labelNames(matchers) == UNION {DOMAIN l : l \in Existing(matchers)}
labelValues(name, matchers) == {l[name] : l \in {k \in Existing(matchers) : name \in DOMAIN k}}

handleLabels(request) ==
    IF request.matches = <<>> THEN [kind |-> "set", set |-> labelNames(<<>>)]
    ELSE United(parsedMatches(request.matches), labelNames)

handleLabelValues(request) ==
    IF request.matches = <<>> THEN [kind |-> "set", set |-> labelValues(request.name, <<>>)]
    ELSE United(parsedMatches(request.matches),
                LAMBDA matchers : labelValues(request.name, matchers))

HandleMetadata(path, handle(_)) ==
    /\ range = <<>>
    /\ \E request \in world.requests :
          /\ request.path = path
          /\ answer' = Immediate(request, handle(request))
    /\ UNCHANGED <<world, db, created, commits, now, range>>

HandleSeries == HandleMetadata("series", handleSeries)
HandleLabels == HandleMetadata("labels", handleLabels)
HandleLabelValues == HandleMetadata("values", handleLabelValues)

-----------------------------------------------------------------------------

Next ==
    \/ StageBatch
    \/ ApplySample
    \/ Truncate
    \/ HandleQuery
    \/ HandleQueryRange
    \/ RangeStep
    \/ HandleSeries
    \/ HandleLabels
    \/ HandleLabelValues

Spec == Init /\ [][Next]_vars
=============================================================================
