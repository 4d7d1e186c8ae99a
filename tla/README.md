# omni-metrics: a TLA+ verification project

omni-metrics is a single Go process: it scrapes and accepts metrics, keeps them in an
in-memory head backed by a write-ahead log, answers PromQL, evaluates alert rules on
timers and forwards firing and resolved alerts to omni-notify. This directory holds TLA+
models of its stateful core, TLC configurations that check them on small instances, and
TLAPS proofs. Paths below are relative to `src/`.

## 1. The system

| Component | Code | State | Operations |
|---|---|---|---|
| TSDB head | `internal/tsdb/head.go` | series by reference, hash chains, inverted index, lastRef, sorted sample slices | getOrCreate(Limited), addSeriesWithRef, appendSample, query, truncate, reclaimIfEmpty, labelNames/Values |
| Appenders and WAL | `internal/tsdb/tsdb.go`, `wal.go` | staged batches; segment files, the open file, the next segment number | Append, Commit, Rollback, Truncate, Close, Open (replay) |
| Labels, matchers | `internal/model` | none | Get, Matches, Hash, Equal |
| Alert evaluation | `internal/alerts/evaluator`, `state`, `alerts.go` | the locals of an evaluation between two statements of the store | evaluate, EvaluateRule, forwardNotifications |
| Alert store | `internal/alerts/storage` | SQLite tables of rules, instances, history, datasources | one statement per call, one connection |
| Alert API | `internal/alerts/api` | none of its own | create, update, enable, disable, delete, evaluate, list |
| Rule scheduler | `internal/alerts/scheduler` | root context, running map, one goroutine per rule | Start, Reconcile, Stop, loop |
| Notifier | `internal/alerts/notify` | bounded channel, stopped flag, the worker's context | Enqueue, Start, Stop, worker, Send with retry |
| Scraper | `internal/scrape` | health of each target | Run, loop, scrapeOnce |
| Push ingestion | `internal/push`, `internal/api/push.go` | counters per source | Ingest |
| Log shipping | `internal/logship` | bounded queue, batch, counters | Write, run, post, Close |
| PromQL parser | `internal/promql/parse.go`, `lex.go`, `ast.go` | none | Parse, ParseMatchers |
| PromQL engine | `internal/promql/engine.go`, `funcs*.go`, `value.go` | none; reads the head at every selector | InstantQuery, RangeQuery |
| Query API, self-metrics | `internal/api` | counters | query, query_range, series, labels, label values, status |
| Exposition, config, wiring | `internal/exposition`, `internal/config`, `cmd/omni` | none / process lifetime | parse, load, main |

How they interact. Scrape loops (one goroutine per target), push requests and the
retention loop share the head under one RWMutex; the WAL has a mutex of its own, so the
three steps of `Commit` (log, sync, apply) of different batches interleave with each other,
with `Truncate` and with `Close`. The alert engine reads metrics over HTTP only; its timers,
the HTTP handlers and `Service.Start/Stop` meet in the SQLite store (serialized by a single
connection, statement by statement) and in the scheduler's and the dispatcher's mutexes.
On SIGTERM the context of `signal.NotifyContext` is canceled first; then the HTTP server
stops listening, `svc.Stop`, and `db.Close` run, while requests and scrapes that were in
progress go on until the process exits.

What is hard: (1) a batch spans several critical sections, so a reference resolved in
`Append` may be gone, or not yet logged, when `Commit` uses it; (2) crashes, short writes and
failed syncs between any two system calls, with replay as the only repair; (3) evaluations
that hold a copy of the store across statements, with overlap, cancelation and crashes;
(4) shutdown: three independent Stop paths racing with late Start and late requests;
(5) the hand-maintained index beside the series map; (6) a query language whose operators, matching
and windows have many edges, evaluated while samples arrive. `PROJECT.json` lists each hazard at
its line with the properties that cover it.

What makes each component correct:

- head: a lookup finds exactly the series that exists; a query returns exactly what a scan
  of all series would; slices are strictly ascending; nothing of a removed series is left;
- appenders and WAL: no sample under another label set, write-ahead order, an acknowledged
  batch survives a crash, recovery is final, a rolled back batch holds no cardinality slot;
- alert evaluation: history is a chain of transitions that agrees with the instances and
  with what omni-notify was told, an outage never resolves an alert, the cap holds, and a
  disturbed evaluation is repaired by the next one;
- scheduler: at most one live timer per rule, goroutines that match the store, a Stop that
  waits and returns;
- notifier: in-order, exactly-one settlement of what was accepted, no send on a closed
  channel, a Stop that returns;
- scraper and push: all or nothing per scrape, `up` on every outcome, limits;
- log shipping: what does not arrive is counted, nothing overtakes, `Close` flushes what was
  queued, and neither a caller of `Write` nor the worker waits for ever;
- parser: what it accepts is read as the operators bind, every tree can be written, the parser
  never looks past the end;
- engine: a range query is the instant queries of its steps, whatever is ingested meanwhile; a sample
  that comes late or goes changes an answer only through the windows of the query; functions,
  aggregations, matching and histograms satisfy laws stated from the samples; whether a query fails
  depends on its tree only;
- query API: the listings agree with what a query of the same selectors finds.

## 2. Modules

| Module | Models | Built on |
|---|---|---|
| `Head` | the head as a partial function from references to label sets with samples: the operations that change it, one operator each, under `head.mu` | - |
| `HeadIndex` | the head as the code keeps it: sorted slices with bisection, hash chains, postings, matchers and queries | refines `Head` (`ImplementsHead`) |
| `DB` | appenders, WAL, replay, crashes, failed system calls, over `Head` | EXTENDS `Head` |
| `Store` | what the appenders promise to their callers: `DB` without the log, and the storage engine without a directory | EXTENDS `Head`; `DB` implements it (`ImplementsStore`) |
| `Ingest` | scrapes and pushes over the appenders, retention | EXTENDS `Store` |
| `Scheduler` | contexts, running map, goroutines, reconcile, Start/Stop | - |
| `Alerts` | evaluations statement by statement over the store, with rule requests | - |
| `Dispatcher` | the notifier | - |
| `Logship` | the omnilog writer: `Write`, the worker, `post`, `Close` | - |
| `Floats` | float64 as exact rationals with both infinities and NaN | - |
| `GoSort` | `sort.Search` and `sort.Slice` as the library computes them, contract or not | - |
| `VectorOps` | scalar operators, functions of the points of a series, histogram quantiles | EXTENDS `Floats`, `GoSort` |
| `Aggregation` | grouping, aggregations, vector matching, set operators | EXTENDS `VectorOps` |
| `Engine` | the evaluation of a syntax tree: selectors, offset and @, subqueries, calls | EXTENDS `Aggregation` |
| `Parser` | recursive descent with precedence climbing over tokens | - |
| `Syntax` | the trees there are and how a tree is written, without the parser | EXTENDS `Parser` |
| `Query` | the query handlers on `Engine`, `Parser` and a storage that is being written to | EXTENDS `Engine`, INSTANCEs `Parser` |
| `QueryLaws` | what the answers should satisfy, stated from the samples | EXTENDS `Query` |
| `DBProofs`, `DBIdentity` | theorems about `DB` | EXTEND `DB`, the second through the first |
| `IngestProofs`, `HeadIndexProofs`, `DispatcherProofs`, `SchedulerProofs`, `LogshipProofs`, `AlertsProofs` | theorems about these | EXTEND them |
| `MCDB`, `MCIngest`, `MCHeadIndex`, `MCDispatcher`, `MCLogship`, `MCSyntax`, `MCQuery` | values of constants for TLC | EXTEND their module |

`Head` is the abstract specification on which `DB` is built; `HeadIndex` shows that the
code's data structure implements it (`H == INSTANCE Head WITH series <- ...`,
`ImplementsHead`), so what `DB` proves about series and samples is about the real index. Between two crashes every
step of `DB` is a step of `Store` or changes nothing a caller sees (`ImplementsStore`: `pc` values of the
log map to `log`, everything else to itself), which lets `Ingest` compose the writers with `Store`
instead of the whole log. `Query` composes the reader's side: its storage is what `HeadIndex` returns
for a selector, and it is written sample by sample as `DB` applies a batch.

### Correspondence of state and actions

`PROJECT.json` ("map") names the lines of every definition. In short:

- `Head`: `series[ref] = [labels, samples]` is `head.series` with `memSeries`; `samples` is a
  function from timestamp to value (first value wins). `Created`, `AddSeriesWithRef`,
  `AppendSample`, `TruncateHead`, `ReclaimIfEmpty` are the functions of these names.
- `DB`: `pending[a]`, `newSeries[a]` are the appender's fields, `pc[a]` its place in `Commit`
  or `Rollback` (`stage`, `logSeries`, `logSamples`, `sync`, `apply`, `rollback`); `log` is the sequence
  of the records of all segment files, each with the number of its segment, a fragment being a
  record of kind `torn`, and `synced` says how many of them an fsync has made durable; `seq` is
  the active segment and `file` whether it is open, closed by `Close`, or broken by a roll that
  failed half way. Every write (with its roll), every sync and every `appendSample` of a commit is
  a step of its own. `Kill` and `PowerLoss` end the process; `mode = "replay"` then walks the log
  with `ReplaySeries` and `ReplaySample` until it reaches the end (`ReplayDone`) or a fragment, which
  either runs past the end of its file (`ReplayTorn`) or has a bad CRC (`ReplayCorrupt`).
  In memory-only mode there is no WAL; that mode is `Store` without `Fails`. `l` in a staged or logged sample, `acked` and
  `lowWater` are history: no action reads them, properties do.
- `Store`: the same fields; `CommitCalled`, then `Logged` or `Fails` at one instant, then `Applies` for
  each sample; `Cut` is `Truncate`.
- `Ingest`: `phase[a]` is where `scrapeOnce` or `Ingest` stands; `err`, `ts`, `todo`, `syn` are its locals;
  `health` and `source` are what the API reports. A goroutine appends through the actions of `Store`, one
  lock acquisition at a time: `AppendNext`, `AppendFails` with the `RollbackStep`s after it, the synthetic
  series, whose rejections are ignored, and the steps of Commit. `batch`, `known` and `clean` are
  history: what the target exposed or the request carried; that the target's up series, with a sample, was there when
  its scrape began and retention has left it one since; that no series which the batch looked up was removed between its
  staging and its end. The timestamp of a scrape is any later one that the clock allows, so scrapes of two targets may share theirs.
  A value is 0 or 1 for what the scraper writes, and one of its own for each request, which is how the properties tell
  whose sample is in the head.
- `HeadIndex`: `hashes`, `postings`, `series` are the maps of `head`; `Search` is `sort.Search`
  by bisection; `ElementsAt` is the loop of a query over the references it found, in their order;
  each operation under the lock is an action, each query an operator.
- `Alerts`: `ev[e]` holds the locals of one `EvaluateRule`: `List` reads, `Upsert`, `Record`,
  `Resolve`, `Delete` are its statements, `StoreFails` the error returns that drop the collected
  changes, `Forward` the loop of `forwardNotifications`. `Cancel` is `task.cancel()` or a client
  that leaves: the statements that follow fail, and a failing `AppendHistory` is ignored as in
  the code. `GetRule`/`PutRule` and `DeleteInstances`/`DeleteRule` are the two halves of the
  requests. `cond` is what the expressions return at the moment, a set of pairs of a rule and a series. `last`, `gaps` and
  `notified` keep of the history table and of the dispatcher what the properties speak of, while `calm`; `lapsed`, `calm` and `alone`
  are history: nothing else reads them. `DeleteInstances` always ends `calm`.
- `Scheduler`: `roots` are the contexts made by `Start` or `Reconcile`, `root` is `s.ctx`, `tasks[r]`
  all goroutines ever started for a rule; `ListRules` and `Reconcile` are the two halves of
  `Service.reconcile`, which is where it is not atomic.
- `Dispatcher`: `mu` is `d.mu`; `Enqueue` checks `stopped`, `Offer` is the non-blocking send;
  the worker's `Receive`, `Call`, `SendOK`, `SendPermanent`, `SendFails`, `Backoff`, `Exit`
  follow `worker`, `process`, `sendWithRetry` and `Client.Send`.
- `Logship`: `todo[w]` are the texts a goroutine will still pass to `Write`, `buf` is `w.buf`; `Split` is
  `Write` under its mutex, `Offer` its non-blocking send of one line. The worker is the actions of
  `run`: `Receive`, `Tick`, `SeeDone`, `Leave` are the cases of its two `select`s, `PostOK`, `PostFailed` and
  `PostBadURL` one attempt of `post`. `split`, `queued`, `givenUp`, `unanswered`, `before` are history. A line is known
  by its number, its place in `split`, so that two lines with the same text stay two; what is written
  (`Program`) may be any texts over `Fragment`.
- `Parser`: every function of the parser is an operator from tokens and a position to a tree and the
  next position, or the position of the error. `Syntax` types texts token by token (`Type`) and grows
  trees node by node (`Grow`).
- `Engine`, `Aggregation`, `VectorOps`: an operator per Go function, of the same name where the language
  allows it. A result is a record with its kind; an error and a panic are kinds.
- `Query`: `db` is what `Select` reads; `StageBatch` and `ApplySample` are the writers, of which several may be inside
  `Commit` (`commits`), and `Truncate` is retention, which also removes series that a batch in progress refers to. A
  sample may carry a time behind the clock or ahead of it, as a scrape takes its timestamp before the fetch
  (`scrape.go:177`) and a push brings its own (`push.go:95-108`). Each handler is an action,
  except that a range query is one `RangeStep` per step, between which samples come and go; `changed` is history: what
  came or went since the range query began.

## 3. What TLC checks

| Run | Instance | Properties and what they show |
|---|---|---|
| `DB_concurrent` | 2 appenders, 2 label sets, cap 1, batches of one sample, segments of 2 records, 2 crashes, retention | `TypeOK`; `HeadFromLog`: a sample never stands under another label set, through reference reuse and replay. `OnlyCommittedVisible`: nothing is visible before it is durable, and a failed batch never shows. `ImplementsStore`: refinement of `Store` while the process runs |
| `DB_single` | 1 appender, 3 label sets, cap 2, batches of two samples, two values for a timestamp, 2 crashes or 1 crash and 1 failed system call, no retention | `AppliedIsDurable`: write-ahead order. `SlotsSound`: no empty series after Rollback and Commit, and no label set twice after a recovery. `CommittedSurvives`: an acknowledged batch is there after every recovery. `RecoverySound`: replay leaves no torn or unread record behind. `FirstValueKept` |
| `Ingest` | 1 target with 2 series scraped twice, 2 pushes sharing a series, cap 4, a limit of 2 samples per push, retention; two goroutines at a time inside a batch | `AllOrNothing`: a batch is stored as a whole or not at all, as health or answer says; `UpIsRecorded`: `up` tells every outcome |
| `HeadIndex` | 3 label sets with colliding hashes, an empty value and a missing label; 3 timestamps | `IndexSound`: chains, postings and slices agree with the series and leak nothing. `QueriesAgree`: a query with any set of matchers returns what a scan of all series would, and every listed value selects something. `ImplementsHead` (refinement) |
| `Dispatcher` | 2 producers, 3 notifications, channel of 2, 1 retry | `FIFO`; `ShutdownSafe`: no send on the closed channel, and Stop returns after the worker has left with nothing behind. Liveness `EverythingEnds`: Stop returns, and everything accepted is settled |
| `Scheduler` | 1 rule, 2 intervals, 2 requests and Service.Start, 2 changes | `OneTimer`, `NewestListWins`, `QuietStore`; liveness `StopReturns` |
| `Alerts` | 2 overlapping evaluations, 2 series, cap 1, 2 changes of the expression, 1 edit, delete, cancelation or crash | `SoundWhenCalm`: history is a chain that agrees with the instances, the cap holds, an id names one row; `NotifierAgrees`, `NoFalseAllClear` for undisturbed evaluations; `Repairs` after disturbed ones |
| `Logship` | 2 writers with 4 lines, one of them split over two writes, a queue of 1, batches of 2, 3 attempts | `Accounted`: what does not arrive is counted. `ChannelOrder`: retries let nothing overtake. `FlushedOnClose`. Liveness `NeverStuck`: `Write` returns and the worker leaves after `Close` |
| `Syntax` | nine alphabets of tokens with texts of 6 to 10 tokens; every tree of two nodes on four leaves | `ReadAsWritten`, `EveryTreeIsRead` |
| `Query` | six worlds (a counter scraped 4 times; function calls with good and bad arguments; two series with range queries and listings; two overlapping batches with late and early samples, retention, and queries that look back, ahead, at fixed times and at the bounds of the range; gauges with NaN; a histogram) | `AnswersAreLocal`: an answer changes only through a sample in a window of the query. `RangeIsInstants`, `WindowLaws`, `CounterLaws`, `AggregationLaws`, `MatchingLaws`, `HistogramLaws`, `KindIsStatic`, `ListingsAgree`, each explained at its definition in `QueryLaws` |

Each property has a mutant of the code in `PROJECT.json` that breaks it. A `Mutant:` comment in a module
marks the operator that such a change of the code gives.

### Disagreements between the code and what it says

Each of these runs must find its counterexample:

- `DB_commit_race` (`CommittedSurvives`): a batch that uses a series another batch created and has not
  logged yet commits first; a crash loses it although `Commit` returned nil (`wal.go:149-150`).
- `Query_resolution` (`ResolutionCapped`): `engine.go:75` compares `steps+1` with the cap of 11 000 points.
  When `end - start` is the largest int64 and the step 1 ms, the sum wraps and the check passes: the
  loop goes on for 2^63 steps, until the request's context is done. `engine.go:23-24` says that the cap
  bounds the work of a request.

The following hold of the code as well. The properties are defined in the modules but belong to no run,
as they do not hold; naming one as an INVARIANT or PROPERTY in the cfg of the component shows its counterexample:

- `DB!RefPresent`: `head.go:120` says of a missing reference "should not happen". Retention between
  `Append` and `Commit` removes the still empty series; the acknowledged samples are dropped, and
  come back only with a restart.
- `Scheduler!RulesTakeEffect`: `Service.reconcile` reads the rules outside the scheduler's lock, so the
  older of two lists can be applied last. `NewestListWins` is what remains true.
- `Alerts!NoOrphans`: an evaluation upserts an instance after `DeleteRule`;
  `sqlite.go:285` says deleting a rule drops its instances.
- `Dispatcher!DrainedBeforeCancel`: the worker's context derives from the one SIGTERM cancels before
  `Stop` is called, so the grace window of `dispatcher.go:96-97` drains nothing.

Seen with the models of the storage and ingestion: with one failed write
`RecoverySound` does not hold, which is why it and the properties that rest on
it say `fails = 0` (a fragment in a segment that is not the last stops replay, later segments stay, the
next Open replays them; compare `wal.go:44-45` and `183-185`), and neither do `CommittedSurvives` and
`HeadFromLog`; with retention `UniqueLabels` fails
across a restart (replay resurrects a removed series beside its successor); a query can see a part of a
batch (`tsdb.go:19` says "atomically"; `RangeIsInstants` therefore speaks of the steps that read no sample which came or went meanwhile);
a request that changes a rule before `Service.Start` has run
leaves goroutines that `Stop` waits for in vain (the condition `Abandoned` of `Scheduler`), and one that outlives `Stop`
starts goroutines over a store that is closed (`Rearmed`); at the cap a new
series is refused although the same evaluation frees its place (`Repairs` says so); a push that staged a
sample on a series which another batch created and rolls back is answered as stored and is not (`clean` in
`Ingest` excludes it; the cause is that of `RefPresent`; `DB_commit_race` with `MaxSeries = 1` and `MaxBatch = 2` shows
it without a crash); a target that exposes a series named `up`, or a push with
the labels of a target's `up`, decides what `up` says, as the first sample of a timestamp is kept (`ExposedAssumption`);
a target that is configured twice in a job, which `config.go` does not refuse, has two loops that write the same
series, and each may take the other's sample for its own (`TargetAssumption`).

Seen with `HeadIndex`: `handleSeries` (`api.go:205-223`) passes `start` and `end` on as they are. With `start` after `end`
the two bisections of `samplesInRange` may cross, and slicing panics (net/http recovers); `QueryComplete` is stated for
`mint <= maxt`.

Seen with `Logship`: a URL that `http.NewRequest` refuses loses its batches uncounted (`validURL`); `Dropped` also
counts lines whose batch arrived without an answer; a line sent after the worker has left stays in the
channel, neither shipped nor counted (`Accounted` has it on its way); `w.buf` grows without bound while no
newline comes.

Seen with `Parser` and `Engine`: `x @ -1e` is accepted and read as `@ 0`, as the error of `ParseFloat` is dropped
(`parse.go:340`); `quantile(NaN, v)` indexes a slice with `int(NaN)`, which panics on amd64
(`funcs_helpers.go:89-93`; net/http recovers; the kind "panic" of a result); a comparison under `group_right`
without `bool` reports the value of the right side; one-to-one matching keeps the last of several samples of
a signature where Prometheus reports an error; `ignoring` keeps the ignored labels of the left side, so
`l + r` and `r + l` agree up to them; `topk`, `min` and `max` depend on the order of the samples when one is NaN;
functions that drop the name may give a label set twice, and a range query then has two points at a
time; the sum in `parseDuration` wraps.

### Bounds and why they are enough

Every bound is a CONSTANT: `MaxBatch`, `MaxLog`, `MaxRef`, `MaxCrash`, `MaxFail` of `DB`, and `FewFaults` of
`MCDB` (crashes and failed calls together); `MaxRef` of `HeadIndex`; `MaxTime` of `Ingest`, and `TwoAtATime` of `MCIngest`; `MaxEdits` of `Scheduler`; `MaxTime`,
`MaxFlips`, `MaxDisruptions` of `Alerts`; `Program` and `Fragment` of `Logship` (what is written); `Alphabets`, `Leaves`, `Leaf`, `Clauses` and `Growth`
of `Syntax`; the worlds in `Catalog` of `Query`. `MaxSeries`, `SegMax`, `ScrapeLimit`, `PushLimit`, `QueueSize`, `MaxRetries`, `MaxInstances`,
`BatchSize`, `BufferSize`, `Lookback`, `DefaultStep` and `MaxResolution` are parameters of the code, `MaxInt` of its machine.
Two actors suffice for the races
above, each of which involves two; two crashes let a recovery run on the result of a recovery; a segment
holds fewer records than a batch writes, so rolls fall inside commits; the channel holds fewer
notifications than are offered, so it fills; the cap is below the number of series, so it trips; the log
queue holds fewer lines than a write splits off, and the lines do not fill their batches, so both kinds of flush happen.
An alphabet has the tokens of one or two constructs, and its texts are long enough to nest them once; two nodes on a leaf
make every pair of operators meet on either side. A world has a lookback of two ticks and up to four
scrapes, so samples are stale, windows have none, one and several points, and counters reset more than once. One world
has two batches at a time, whose samples are a tick behind the clock or ahead of it (`writers`, `shifts`), so that a sample
is inserted before an earlier one and the answer for a time that has passed changes, and a retention of one tick, so that a series goes while
a batch refers to it, and comes back. The
proofs of section 4 have no bounds.

float64 is modelled by exact rationals (`Floats`): the laws are about which samples are combined and how, not about
rounding, overflow or the sign of zero. Functions that leave the rationals (`Math`), the calendar and regular
expressions are constants, which the laws do not depend on.

Deadlock is not checked where the program may really stop: a process that is shut down, or a model that
has used up its bounds.

### Fairness

`DB`, `Ingest`, `HeadIndex`, `Alerts`, `Syntax` and `Query` state only safety and assume no fairness. `Dispatcher`: weak fairness of the
worker (an HTTP request has a timeout, a backoff has a timer), of the grace timer, of Stop's wait and of a
producer inside `Enqueue`; nobody is forced to enqueue, start, stop or signal. `Scheduler`: weak fairness
of the end of an evaluation (its query has a timeout) and of Stop's wait, strong fairness of a canceled
goroutine's exit: `select` chooses at random between a ready ticker and `ctx.Done()`. `Logship`: weak fairness of
the worker, whose posts end (the client has a timeout, and there are three attempts), and of a goroutine that
is inside `Write`; nobody is forced to write or to close. What is written is finite: writers that never pause
could keep the drain loop of a closed worker alive.

## 4. What is proved

With TLAPS, for all values of the constants (their ASSUMEs only):

- `DBProofs!TypeCorrect`: `Spec => []TypeOK`. The inductive invariant `TypeInv` adds what the types of the
  staged batches and of the log rest on: the cursor of a committing appender is inside what it walks,
  no samples record is empty, and replay's cursor is inside its record.
- `DBProofs!WriteAhead`: `Spec => []AppliedIsDurable`: whatever an appender applies to the head is
  in a synced record. Not inductive by itself: the invariant follows the batch through `Commit`,
  saying for each place in it which records of the batch are in the log, and that a failed step
  never moves to the next place. Crashes lose only unsynced records, and they end the appenders.
- `DBIdentity!SampleIdentity`: `Spec => []HeadFromLog` under `ASSUME MaxFail = 0`: no sample stands under a
  label set other than the one it was appended for. References are handed out again after a crash
  that lost a series record, and the log and a batch know a series by its reference only. The
  invariant says that a reference names one label set wherever it is mentioned (head, log, new series
  of a batch), that samples staged or logged after a series record are of that name, that `lastRef`
  is past every reference in use, that replay has created just the series it met, and that only the
  last record can be torn. The last is false after a failed write (section 3), hence the assumption.
- `DBProofs!FirstValueWins`: `Spec => FirstValueKept`, an action property: while the process runs a value stays as it is
  until a cut-off passes it. It rests on `RefsBelow` (no reference in use is past `lastRef`), or a new series could take the
  place of one with samples.
- `DBProofs!NothingUncommitted`: `Spec => []OnlyCommittedVisible`: until a restart, what the head shows is acknowledged, or is of
  a batch whose sync has succeeded. `VisibleInv` follows the batch that is being applied, which turns
  from one into the other at its last sample.
- `DBProofs!Recovery`: `Spec => RecoverySound`, an action property: Open ends with every record it keeps replayed, and no
  fragment where it appends. `TornInv` says that without a failed call a fragment can only be the last record of the log.
- `DBProofs!StoreRefinement`: `Spec => ImplementsStore`, failed system calls included. One lemma for
  each action names the step of `Store` it is: `Sync` is `Logged`, `CommitFails` is `Fails`, the writes
  before the sync are stutters. The type invariant is all it needs.
- `DBIdentity!SlotsAreSound`: `Spec => []SlotsSound` under `ASSUME MinT = {}` (retention off; `main.go` starts `retentionLoop`
  only when it is on): Rollback and Commit leave no empty series, and a recovery no label set twice. Every empty series
  of the head is one that some appender created and still has in its hands (`SlotsKept`). With retention the second part is
  false, since replay resurrects a removed series beside its successor (section 3); `SlotsKept` is what holds for every retention.
- `DBIdentity!Durability`: `Spec => []CommittedSurvives` for a single writer with retention off; the property itself
  speaks of runs without a failed call. With two writers it is false, as `DB_commit_race` shows; scrape and push do run
  as two, so the theorem says exactly what the race takes away. The invariant follows a batch into the log and back: its samples record comes after
  the series records of its references (`BatchLogged`, `HeadKnown`), what is acknowledged is synced after its
  series (`AckedLogged`), and replay, having passed both, has put the sample where it belongs.

- `IngestProofs!AllOrNothingHolds`, `UpRecorded`, `WritersUseTheStore`, `TypeCorrect`: `Spec => []AllOrNothing`, `[]UpIsRecorded`,
  `StoreInit /\ [][StoreNext]_storeVars` and `[]IngestTypeOK` of `IngestSpec`, for any number of targets and requests that share series,
  timestamps and slots of the cap. Assumed of what comes in: pages and bodies are finite, targets have series of their own, and
  nobody but the scraper writes an `up` (section 3 says what happens otherwise). Neither property is inductive: "stored" at the end
  of a batch is the sum of what every sample went through. The invariant `IngestInv` has a part for each link of that chain.
  `HeadInv`: a reference names one series for ever, so that a staged sample means what it meant when the lock was released
  (`RefsOfBatch`). `CompleteOf`: a batch that has not failed has each sample staged or yet to be appended. `AppliedOf`: what the loop of
  Commit has passed is in its series, unless the series was removed or retention was there. `StoredOf`: hence all of it at the end.
  For "or not at all" it is the other direction: `PushedBy` and `ScrapedBy` trace each sample of the head to
  the request, or the scrape, whose value and timestamp it has, and say that it is applying or has succeeded (`Accepting`, `Recording`);
  `StagedByPush`, `StagedByScrape` and the `Control` parts carry that from the locals of the goroutine, through a rollback, to the head. `UpOf`: as
  a known up series is never new, no cap refuses it and no rollback gives it back; so its sample is staged and outlives everything but retention.
  `CountInv` is the total of the source. A step of one goroutine keeps all of this for the others (`OthersStay`): series only disappear
  when they are empty or expired, and samples only come. `WritersUseTheStore` is what makes `Ingest` a user of the engine: every step of a writer is a
  step of `Store`, which `DB` implements (`StoreRefinement`), whose head `HeadIndex` implements (`HeadRefinement`).

- `HeadIndexProofs!IndexInvariant`, `IndexStaysSound`, `QueriesStayComplete`, `HeadRefinement`: `Spec => []IndexInv`, `[]IndexSound`,
  `[]QueriesAgree` and `ImplementsHead`. `IndexInv` has what each operation relies on: `ChainsHold`, `ChainsOnce` and
  `ChainsComplete` say that a series is in the chain of its hash, once (else `getOrCreate` would make it a second time, or a removal
  leave a link behind), `PostingsExact` that a reference is in the postings of its labels and in no others (what a query
  intersects), `Ascending` that samples are sorted (what bisection needs), `Counted` that `numSeries` counts the series. The lemmas
  below it: `Search` returns the least index at which a monotone predicate holds. It is a recursive function on a pair of bounds;
  the proof takes the function it would be (`Clipped`), shows that this satisfies the recursion, and rules out a
  least interval on which they differ. `ElementsAt`, the loop over a finite set of references in increasing
  order, meets each exactly once: the rank of an element is a bijection.
- `LogshipProofs!TypeCorrect`, `Ordered`, `Flushed`, `EveryLossCounted`: `Spec => []TypeOK`, `[]ChannelOrder`, `[]FlushedOnClose` and
  `[]Accounted`. The parts of `SafetyInv` are: the types, and what worker and `Close` know of each other (`TypeInv`); what was queued and is not
  finished is the batch and then the channel (`QueueInv`); a line is in one place at most (`DistinctInv`); what the worker is done
  with has arrived or was given up, and of the batch only lines without an answer have (`ArrivedInv`), on which `ChannelOrder` is
  inductive; what `Close` found is where the worker still comes by (`FlushInv`); and the counter, with the lines of
  the batch set aside, which may be unanswered before they are given up (`CountInv`).

- `DispatcherProofs!Shutdown`: `Spec => []ShutdownSafe`: nobody sends on the closed channel, and Stop returns only
  when the worker that ran has left with nothing in its hands or in the channel. The invariant `ShutdownInv` adds that a producer between
  its check and its send holds `d.mu` with the channel open (`Locked`), and how the states of Start, Stop and
  the worker go together (`Consistent`).
- `DispatcherProofs!InOrder`: `Spec => []FIFO`: what was accepted is what is settled, in the worker's hands and in the
  channel, in this order. `FIFO` is inductive relative to `ShutdownInv`; the lemmas are about moving an element from
  the head of one sequence to the end of another.
- `SchedulerProofs!OneTimerPerRule`: `Spec => []OneTimer`: a goroutine that is not canceled is the one `s.running` has for
  its rule, unless Start has abandoned a context. The strengthening `RootInv` says which contexts can be left behind uncanceled:
  those that Reconcile made before Start, which hang off the background context, so that `Abandoned` stays true.
- `SchedulerProofs!NewestWins`: `Spec => []NewestListWins`. The invariant `NewestInv` says that a list of the newest version is the
  store's (`Newest`), that no version is ahead of the store (`Bounded`), that before the signal no context and no
  registered goroutine is canceled, and that only canceled goroutines end (`Alive`), and that what runs after the newest
  list was applied is what the store says (`NewestRuns`).
- `SchedulerProofs!NothingAfterStop`: `Spec => []QuietStore`: once Stop has returned, every goroutine is done until someone arms the
  scheduler again (`QuietInv`).

- `AlertsProofs!CalmStore`, `NotifierTold`, `OneEvaluationRepairs`, `NoFalseResolution`: `Spec => []SoundWhenCalm`, `[]NotifierAgrees`,
  `[]Repairs` and `NoFalseAllClear`, for any number of rules, series, evaluations and requests. The invariant `AllInv` has nine parts.
  `TypeInv` and `Control` are the types and what each place of an evaluation knows of its locals. `IdsInv`: an id names one key, in the table and in
  every copy an evaluation has read, without which `DELETE ... WHERE id=?` could remove the row of another series. `SoloInv`: an
  evaluation that is undisturbed is the only one of its rule. `SnapshotInv`: therefore what it has read is still what the table says,
  of the series it has not come to, and its count is that of the rows it found and wrote, from which `CapRespected` follows.
  `RepairInv`: how far it has come: everything behind it is as the query says, or refused at the cap. `HistoryInv` and
  `NotifyInv`: the same for the history and the dispatcher, with the moments in between (`Between`: the row is written, its
  entry not yet; `Settled`: the change is collected, and not yet handed over). `LapseInv`: whoever is about to be resolved was
  absent. `Frame` says that the steps of an evaluation leave the rows and locals of other rules alone.
  `lapsed` had to be kept per series of a rule for `NoFalseAllClear`: with one set for all rules, which the run with its one rule
  cannot tell apart, the query of a rule wiped out what another rule had seen, and the property was false for two.
  Nothing is proved of evaluations that overlap or are cut off, except that the next undisturbed one repairs what they leave (`Repairs`).

Out of the prover's reach: liveness and ENABLED (`EverythingEnds`, `StopReturns`, `NeverStuck`), and what recursive functions
compute for every input, which is all of `Parser`, `Engine` and `Query`. Model-checked only, therefore: the runs
`Syntax` and `Query`, and liveness. Every other invariant and action property of a passing run is a theorem.

## 5. Not modelled

TLS, JSON and the SQL text; the exposition format, the lexer and label parsing, whose matter is characters; configuration;
the datasource client, which keeps no state; rounding and overflow of floating-point values, the wrap-around of
`int64(f * 1000)`; the order of the reads of one evaluation of a query, which is one step of `Query` although each `Select` sees the live
head; the cancelation of a request's context; the rendering of results; self-metrics, gauges and logs; the bytes of WAL records (a record is
whole or a fragment); rule creation, the datasource handlers and the in-memory mode of the alert store; the web console.

## 6. Plan

1. `Exposition` at the level of lines: which samples of a page a parser error loses, composed with `Ingest`.
2. The datasource handlers and rule creation in `Alerts`, with the references from rules to datasources.
