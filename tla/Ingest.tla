------------------------------- MODULE Ingest -------------------------------
(***************************************************************************)
(* The writers of the storage engine: scrape loops (internal/scrape), each *)
(* of which fetches its target, appends the batch and the synthetic series *)
(* about the scrape and commits, and push requests (internal/push).  They  *)
(* share the head and the cap on series.                                   *)
(*                                                                         *)
(* A goroutine is an appender of module Store, the storage engine as its   *)
(* callers see it: where Store lets an appender stage anything, here it    *)
(* stages what scrapeOnce and Ingest do.  Every action is an action of     *)
(* Store or leaves its state alone.  The module follows one process.  A    *)
(* sample is a label set and a timestamp, those of a batch are appended in *)
(* any order, the value of up is 1 or 0, and the other values only tell    *)
(* one batch from another.  A request that is not valid changes nothing,   *)
(* and a line of a target that does not parse is as if it were not there.  *)
(***************************************************************************)
EXTENDS Store

CONSTANTS
    Target,         \* scrape loops
    Request,        \* push requests, one goroutine each, from one source
    Exposed,        \* Target -> the series it may expose, with job and instance
    Synthetic,      \* Target -> label sets of up, scrape_duration_seconds, scrape_samples_scraped
    Batches,        \* Request -> the sets of samples it may carry
    ValueOf,        \* Request -> the value of its samples
    ScrapeLimit,    \* Manager.sampleLimit, 0 for none
    PushLimit,      \* Ingester.sampleLimit, 0 for none
    MaxTime         \* bound: the clock

ASSUME WritersAssumption == Appender = Target \cup Request /\ Target \cap Request = {}
ASSUME ClockAssumption == MaxTime \in Nat /\ 0 .. MaxTime \subseteq Time /\ MinT \subseteq Int

\* A page of a target is finite, and a body of a request.
ASSUME FiniteAssumption ==
    /\ Exposed \in [Target -> SUBSET Label]
    /\ Batches \in [Request -> SUBSET SUBSET (Label \X Time)]
    /\ \A a \in Target : IsFiniteSet(Exposed[a])
    /\ \A a \in Request : \A B \in Batches[a] : IsFiniteSet(B)

\* The scraper writes 0 or 1; a request is known by its value.
ASSUME ValueAssumption ==
    /\ {0, 1} \subseteq Value
    /\ ValueOf \in [Request -> Value \ {0, 1}]
    /\ \A a, b \in Request : ValueOf[a] = ValueOf[b] => a = b

\* The job and the instance of a target tell its series from those of other targets, and
\* up from the other synthetic series its name.
SeriesOf(a) == Exposed[a] \cup {Synthetic[a][i] : i \in 1 .. 3}
ASSUME TargetAssumption ==
    /\ Synthetic \in [Target -> [1 .. 3 -> Label]]
    /\ \A a \in Target : \A i, j \in 1 .. 3 : Synthetic[a][i] = Synthetic[a][j] => i = j
    /\ \A a, b \in Target : a # b => SeriesOf(a) \cap SeriesOf(b) = {}

\* A target does not expose the series that the scraper makes up, and nobody pushes an up.
\* (The code does not prevent it: the first sample of a timestamp is kept, so theirs
\* would win.)
ASSUME ExposedAssumption ==
    \A a \in Target :
        /\ \A i \in 1 .. 3 : Synthetic[a][i] \notin Exposed[a]
        /\ \A b \in Request : \A B \in Batches[b] : \A s \in B : s[1] # Synthetic[a][1]

VARIABLES
    clock,      \* milliseconds
    cutoff,     \* the latest cut-off of retention
    phase,      \* "idle", "fetch", "append", "synthetic", "commit", "record" or "done"
    ts,         \* Target -> the timestamp of the scrape
    todo,       \* the samples that are left to append
    err,        \* scrapeErr, or the error of Ingest; "" is nil
    syn,        \* Target -> the next synthetic series
    health,     \* Manager.health: Target -> [up, samples, error]
    source,     \* Ingester.sources: [pushes, samples, error]
    batch,      \* history: what the target exposed, or the request carried
    known,      \* history: the up series of the target existed when its scrape began, and since
    clean       \* history: no series that the batch looked up was removed before its commit

scrapeVars == <<ts, syn, health, known>>
ingestVars == <<clock, cutoff, phase, todo, err, source, batch, clean, scrapeVars>>
allVars == <<storeVars, ingestVars>>

Error == {"", "fetch", "limit", "append", "commit"}

IngestTypeOK ==
    /\ StoreTypeOK
    /\ clock \in 0 .. MaxTime
    /\ cutoff \in MinT \cup {-1}
    /\ phase \in [Appender -> {"idle", "fetch", "append", "synthetic", "commit", "record", "done"}]
    /\ ts \in [Target -> 0 .. MaxTime]
    /\ todo \in [Appender -> SUBSET (Label \X Time)]
    /\ batch \in [Appender -> SUBSET (Label \X Time)]
    /\ err \in [Appender -> Error]
    /\ syn \in [Target -> 1 .. 4]
    /\ health \in [Target -> [up : BOOLEAN, samples : Nat, error : Error]]
    /\ source \in [pushes : Nat, samples : Nat, error : Error]
    /\ known \in [Target -> BOOLEAN]
    /\ clean \in [Appender -> BOOLEAN]

IngestInit ==
    /\ StoreInit
    /\ clock = 0
    /\ cutoff = -1
    /\ phase = [a \in Appender |-> "idle"]
    /\ ts = [a \in Target |-> 0]
    /\ todo = [a \in Appender |-> {}]
    /\ err = [a \in Appender |-> ""]
    /\ syn = [a \in Target |-> 1]
    /\ health = [a \in Target |-> [up |-> FALSE, samples |-> 0, error |-> ""]]
    /\ source = [pushes |-> 0, samples |-> 0, error |-> ""]
    /\ batch = [a \in Appender |-> {}]
    /\ known = [a \in Target |-> FALSE]
    /\ clean = [a \in Appender |-> TRUE]

-----------------------------------------------------------------------------
(* What scrapes and requests share *)

Enters(a, p) == phase' = [phase EXCEPT ![a] = p]

\* Append of the next sample succeeds.
AppendNext(a, v) ==
    /\ phase[a] = "append"
    /\ \E s \in todo[a] :
         /\ AddSample(a, s[1], s[2], v)
         /\ todo' = [todo EXCEPT ![a] = @ \ {s}]
    /\ UNCHANGED <<clock, cutoff, phase, err, source, batch, clean, scrapeVars>>

\* Mutant: the samples before the rejected one are committed.
CommitThePart(a) ==
    /\ phase[a] = "append"
    /\ \E s \in todo[a] : TooManySeries(s[1])
    /\ err' = [err EXCEPT ![a] = "append"]
    /\ todo' = [todo EXCEPT ![a] = {}]
    /\ UNCHANGED <<batchVars, clock, cutoff, phase, source, batch, clean, scrapeVars>>

\* It fails: the batch is given up, and Rollback begins.
AppendFails(a) ==
    /\ phase[a] = "append"
    /\ \E s \in todo[a] : Rejected(a, s[1])
    /\ err' = [err EXCEPT ![a] = "append"]
    /\ todo' = [todo EXCEPT ![a] = {}]
    /\ UNCHANGED <<clock, cutoff, phase, source, batch, clean, scrapeVars>>

\* The batches whose series are all still there.
StillThere == [b \in Appender |->
                  clean[b] /\ \A i \in DOMAIN pending[b] : pending[b][i].ref \in DOMAIN series']

\* Rollback goes on; the goroutines in the middle of a batch may have staged samples
\* for a series that it gives back.
RollbackStep(a) ==
    /\ RollBack(a)
    /\ clean' = StillThere
    /\ UNCHANGED <<clock, cutoff, phase, todo, err, source, batch, scrapeVars>>

\* A step inside Commit ...
CommitGoesOn(a) ==
    /\ Logged(a) \/ Applies(a)
    /\ pc'[a] # "stage"
    /\ UNCHANGED ingestVars

\* ... and its last one, e being the error it returns.
CommitReturns(a, e) ==
    /\ \/ e = "" /\ (Logged(a) \/ Applies(a))
       \/ e = "commit" /\ Fails(a)
    /\ pc'[a] = "stage"

-----------------------------------------------------------------------------
(* Manager.scrapeOnce *)

\* The target has an up series with a sample.
HasUp(a) == \E r \in RefsOf(Synthetic[a][1]) : DOMAIN series[r].samples # {}

\* A scrape begins.  Those of one target follow each other, a millisecond apart or more;
\* those of two targets may have the same timestamp.
ScrapeStart(a) ==
    /\ phase[a] = "idle"
    /\ \E now \in ts[a] + 1 .. MaxTime :
         /\ clock <= now
         /\ clock' = now
         /\ ts' = [ts EXCEPT ![a] = now]
    /\ Enters(a, "fetch")
    /\ syn' = [syn EXCEPT ![a] = 1]
    /\ err' = [err EXCEPT ![a] = ""]
    /\ batch' = [batch EXCEPT ![a] = {}]
    /\ known' = [known EXCEPT ![a] = HasUp(a)]
    /\ clean' = [clean EXCEPT ![a] = TRUE]
    /\ UNCHANGED <<storeVars, cutoff, todo, health, source>>

\* fetchAndParse has an answer, which may exceed the sample limit ...
Fetched(a) ==
    /\ phase[a] = "fetch"
    /\ Enters(a, "append")
    /\ \E S \in SUBSET Exposed[a] :
         LET tooMany == ScrapeLimit > 0 /\ Cardinality(S) > ScrapeLimit
             samples == {<<l, ts[a]>> : l \in S}
         IN  /\ batch' = [batch EXCEPT ![a] = samples]
             /\ todo' = [todo EXCEPT ![a] = IF tooMany THEN {} ELSE samples]
             /\ err' = [err EXCEPT ![a] = IF tooMany THEN "limit" ELSE ""]
    /\ UNCHANGED <<storeVars, clock, cutoff, source, clean, scrapeVars>>

\* Mutant: nothing is recorded about a target that does not answer.
FetchFailsQuietly(a) ==
    /\ phase[a] = "fetch"
    /\ Enters(a, "idle")
    /\ err' = [err EXCEPT ![a] = "fetch"]
    /\ health' = [health EXCEPT ![a] = [up |-> FALSE, samples |-> 0, error |-> "fetch"]]
    /\ UNCHANGED <<storeVars, clock, cutoff, ts, todo, syn, source, batch, known, clean>>

\* ... or none: an error, another status than 200, a timeout, a body too large,
\* or the process is shutting down.
FetchFails(a) ==
    /\ phase[a] = "fetch"
    /\ Enters(a, "append")
    /\ err' = [err EXCEPT ![a] = "fetch"]
    /\ UNCHANGED <<storeVars, clock, cutoff, todo, source, batch, clean, scrapeVars>>

\* All is appended, or given up and rolled back.
AppendDone(a) ==
    /\ phase[a] = "append"
    /\ todo[a] = {}
    /\ pc[a] = "stage"
    /\ Enters(a, "synthetic")
    /\ UNCHANGED <<storeVars, clock, cutoff, todo, err, source, batch, clean, scrapeVars>>

\* The value of the i-th synthetic series; only that of up matters here.
SyntheticValue(a, i) == IF i = 1 /\ err[a] = "" THEN 1 ELSE 0

\* A synthetic series is appended; a rejection is ignored.
AppendSynthetic(a) ==
    /\ phase[a] = "synthetic"
    /\ syn[a] <= 3
    /\ LET l == Synthetic[a][syn[a]]
       IN  \/ AddSample(a, l, ts[a], SyntheticValue(a, syn[a]))
           \/ TooManySeries(l) /\ UNCHANGED batchVars
    /\ syn' = [syn EXCEPT ![a] = @ + 1]
    /\ UNCHANGED <<clock, cutoff, phase, ts, todo, err, health, source, batch, known, clean>>

CommitScrape(a) ==
    /\ phase[a] = "synthetic"
    /\ syn[a] = 4
    /\ CommitCalled(a)
    /\ Enters(a, "commit")
    /\ UNCHANGED <<clock, cutoff, todo, err, source, batch, clean, scrapeVars>>

\* Commit returns, and updateHealth, whose entry only this loop writes, is called.
ScrapeReturns(a) ==
    \E e \in {"", "commit"} :
        LET final == IF err[a] = "" THEN e ELSE err[a]
            stored == IF err[a] = "" THEN Cardinality(batch[a]) ELSE 0
        IN  /\ CommitReturns(a, e)
            /\ health' = [health EXCEPT ![a] =
                            [up |-> final = "", samples |-> stored, error |-> final]]
            /\ err' = [err EXCEPT ![a] = IF e = "" THEN @ ELSE "commit"]
            /\ Enters(a, "idle")
            /\ UNCHANGED <<clock, cutoff, ts, todo, syn, source, batch, known, clean>>

-----------------------------------------------------------------------------
(* Ingester.Ingest *)

\* A valid request comes, within the limit or above it.
PushStart(a) ==
    /\ phase[a] = "idle"
    /\ \E B \in Batches[a] :
         LET tooMany == PushLimit > 0 /\ Cardinality(B) > PushLimit
         IN  /\ batch' = [batch EXCEPT ![a] = B]
             /\ todo' = [todo EXCEPT ![a] = IF tooMany THEN {} ELSE B]
             /\ err' = [err EXCEPT ![a] = IF tooMany THEN "limit" ELSE ""]
             /\ Enters(a, IF tooMany THEN "record" ELSE "append")
    /\ UNCHANGED <<storeVars, clock, cutoff, source, clean, scrapeVars>>

CommitPush(a) ==
    /\ phase[a] = "append"
    /\ todo[a] = {} /\ err[a] = ""
    /\ CommitCalled(a)
    /\ Enters(a, "commit")
    /\ UNCHANGED <<clock, cutoff, todo, err, source, batch, clean, scrapeVars>>

CommitPushReturns(a) ==
    \E e \in {"", "commit"} :
        /\ CommitReturns(a, e)
        /\ err' = [err EXCEPT ![a] = e]
        /\ Enters(a, "record")
        /\ UNCHANGED <<clock, cutoff, todo, source, batch, clean, scrapeVars>>

\* recordSuccess or recordFailure, and the answer; after Rollback if Append failed.
PushReturns(a) ==
    /\ \/ phase[a] = "record"
       \/ phase[a] = "append" /\ err[a] = "append" /\ pc[a] = "stage"
    /\ source' = [pushes  |-> source.pushes + 1,
                  samples |-> source.samples + (IF err[a] = "" THEN Cardinality(batch[a]) ELSE 0),
                  error   |-> err[a]]
    /\ Enters(a, "done")
    /\ UNCHANGED <<storeVars, clock, cutoff, todo, err, batch, clean, scrapeVars>>

-----------------------------------------------------------------------------
\* retentionLoop calls Truncate, with the current time less the retention.
Retention(minT) ==
    /\ cutoff < minT /\ minT <= clock
    /\ Cut(minT)
    /\ cutoff' = minT
    /\ clean' = StillThere
    /\ known' = [a \in Target |-> known[a] /\ HasUp(a)']
    /\ UNCHANGED <<clock, phase, todo, err, source, batch, ts, syn, health>>

IngestNext ==
    \/ \E a \in Appender : AppendFails(a) \/ RollbackStep(a) \/ CommitGoesOn(a)
    \/ \E a \in Target :
         \/ ScrapeStart(a) \/ Fetched(a) \/ FetchFails(a)
         \/ AppendNext(a, 0) \/ AppendDone(a) \/ AppendSynthetic(a)
         \/ CommitScrape(a) \/ ScrapeReturns(a)
    \/ \E a \in Request :
         \/ PushStart(a) \/ AppendNext(a, ValueOf[a])
         \/ CommitPush(a) \/ CommitPushReturns(a) \/ PushReturns(a)
    \/ \E minT \in MinT : Retention(minT)

IngestSpec == IngestInit /\ [][IngestNext]_allVars

-----------------------------------------------------------------------------
(* Properties *)

\* The head has this sample, with one of these values.
Stored(s, V) ==
    \E r \in RefsOf(s[1]) : s[2] \in DOMAIN series[r].samples /\ series[r].samples[s[2]] \in V

Expired(s) == s[2] < cutoff

\* A scrape is all or nothing, and its health says which: after a good scrape every
\* sample the target exposed is in the head (or one of a request that pushed to the same
\* series first), after a bad one none is that the scraper wrote, whichever sample the
\* cap refused and whatever the other writers did meanwhile.  (clean: unless a rollback
\* or retention in between removed a series that the batch had looked up.)
ScrapeAllOrNothing ==
    \A a \in Target : phase[a] = "idle" =>
        \A s \in batch[a] :
            IF health[a].up THEN Stored(s, Value) \/ Expired(s) \/ ~clean[a]
            ELSE ~Stored(s, {0})

\* Once a target has an up series, no scrape passes without a sample of it that
\* says what became of the scrape: not on a timeout or an error of the target,
\* nor when the cap refuses the batch.  (A log that fails loses the sample.)
UpIsRecorded ==
    \A a \in Target :
        phase[a] = "idle" /\ known[a] /\ err[a] # "commit" =>
            LET s == <<Synthetic[a][1], ts[a]>>
            IN  Stored(s, {IF health[a].up THEN 1 ELSE 0}) \/ Expired(s)

\* The samples of the requests that were answered without an error.
Accepted == UNION {{a} \X batch[a] : a \in {b \in Request : phase[b] = "done" /\ err[b] = ""}}

\* A push is all or nothing, its answer says which, and the source's total counts
\* the samples of the pushes that were accepted.
PushAllOrNothing ==
    /\ \A a \in Request : phase[a] = "done" =>
         \A s \in batch[a] :
            IF err[a] = "" THEN Stored(s, Value) \/ Expired(s) \/ ~clean[a]
            ELSE ~Stored(s, {ValueOf[a]})
    /\ source.samples = Cardinality(Accepted)

\* Scrapes and pushes are stored as a whole or not at all.
AllOrNothing == IngestTypeOK /\ ScrapeAllOrNothing /\ PushAllOrNothing
=============================================================================
