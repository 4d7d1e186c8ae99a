---------------------------- MODULE IngestProofs ----------------------------
(***************************************************************************)
(* The writers of the storage engine (module Ingest), for every number of  *)
(* targets and requests, whatever they carry, at any cap: that scrapes and *)
(* pushes are stored as a whole or not at all, that no scrape of a target  *)
(* with an up series passes unrecorded, and that the writers use the       *)
(* storage engine as Store says its callers do.                            *)
(***************************************************************************)
EXTENDS Ingest, FiniteSetTheorems, TLAPS

\* What the invariants below are about: a series that is there has this sample.
Holds(r, t) == r \in DOMAIN series /\ t \in DOMAIN series[r].samples

-----------------------------------------------------------------------------
(* The inductive invariant *)

\* A reference names one series for ever, and a label set has one series at most.
HeadInv ==
    /\ \A r \in DOMAIN series : r <= lastRef
    /\ \A r, q \in DOMAIN series : series[r].labels = series[q].labels => r = q

\* A staged sample keeps the reference of its label set, whatever became of the series.
RefsOfBatch(a) ==
    \A i \in DOMAIN pending[a] :
        LET e == pending[a][i] IN
        /\ e.ref <= lastRef
        /\ e.ref \in DOMAIN series => series[e.ref].labels = e.l

\* What the places of a goroutine know of its appender and of its locals.
ControlOf(a) ==
    /\ todo[a] \subseteq batch[a]
    /\ todo[a] # {} => phase[a] = "append" /\ err[a] = "" /\ pc[a] = "stage"
    /\ phase[a] \in {"idle", "fetch", "record", "done"} => pc[a] = "stage" /\ pending[a] = <<>>
    /\ phase[a] = "append" =>
         /\ pc[a] \in {"stage", "rollback"}
         /\ pc[a] = "rollback" => err[a] = "append"
         /\ pc[a] = "stage" /\ err[a] # "" => pending[a] = <<>>
    /\ phase[a] = "synthetic" => pc[a] = "stage"
    /\ phase[a] = "commit" => pc[a] \in {"log", "apply"}
    /\ pc[a] = "apply" => idx[a] \in DOMAIN pending[a]

ControlOfScrape(a) ==
    /\ phase[a] \notin {"record", "done"}
    /\ phase[a] \in {"fetch", "append"} => syn[a] = 1
    /\ phase[a] = "commit" => syn[a] = 4
    /\ ts[a] <= clock
    /\ ts[a] = 0 => phase[a] = "idle" /\ batch[a] = {} /\ ~known[a]
    /\ phase[a] # "idle" => err[a] # "commit"
    /\ batch[a] \subseteq Exposed[a] \X {ts[a]}
    /\ phase[a] = "fetch" => err[a] = "" /\ batch[a] = {}
    /\ phase[a] = "idle" => (health[a].up <=> err[a] = "" /\ ts[a] > 0)

ControlOfPush(a) ==
    /\ phase[a] \notin {"fetch", "synthetic"}
    /\ phase[a] = "idle" => batch[a] = {}
    /\ phase[a] # "idle" => batch[a] \in Batches[a]
    /\ phase[a] = "commit" => err[a] = ""

\* What a scrape writes under its timestamp.
Scraped(a, l, v) ==
    \/ l \in Exposed[a] /\ v = 0 /\ err[a] = ""
    \/ \E i \in 1 .. 3 : l = Synthetic[a][i] /\ v = SyntheticValue(a, i)

\* A staged sample is one of the batch, or synthetic ...
StagedByScrape(a) ==
    \A i \in DOMAIN pending[a] :
        LET e == pending[a][i] IN
        /\ e.t = ts[a] /\ e.l \in SeriesOf(a) /\ e.v \in {0, 1}
        /\ pc[a] # "rollback" => Scraped(a, e.l, e.v)

StagedByPush(a) ==
    \A i \in DOMAIN pending[a] :
        LET e == pending[a][i] IN <<e.l, e.t>> \in batch[a] /\ e.v = ValueOf[a]

\* ... and of a batch that has not failed every sample is staged or yet to be.
CompleteOf(a) ==
    phase[a] \in {"append", "synthetic", "commit"} /\ err[a] = "" =>
        \A s \in batch[a] \ todo[a] :
            \E i \in DOMAIN pending[a] : pending[a][i].l = s[1] /\ pending[a][i].t = s[2]

\* The series of a clean batch are there; and what it has applied to a series is in it,
\* for as long as the series and retention allow.
AppliedOf(a) ==
    \A i \in DOMAIN pending[a] :
        LET e == pending[a][i] IN
        /\ clean[a] => e.ref \in DOMAIN series
        /\ pc[a] = "apply" /\ i < idx[a] /\ e.ref \in DOMAIN series =>
             Holds(e.ref, e.t) \/ e.t < cutoff

\* Of a batch that has succeeded every sample is stored.
StoredOf(a) ==
    phase[a] \in {"idle", "record", "done"} /\ err[a] = "" /\ clean[a] =>
        \A s \in batch[a] : Stored(s, Value) \/ Expired(s)

\* Whose sample is in the head: that of a request which was, or is being, accepted ...
Accepting(a) ==
    \/ phase[a] = "commit" /\ pc[a] = "apply"
    \/ phase[a] \in {"record", "done"} /\ err[a] = ""

Pushed == {ValueOf[b] : b \in Request}

PushedBy(a) ==
    \A r \in DOMAIN series : \A t \in DOMAIN series[r].samples :
        series[r].samples[t] = ValueOf[a] => <<series[r].labels, t>> \in batch[a] /\ Accepting(a)

\* ... or that of a scrape: an earlier one, or the last one, as it ended or ends.
Recording(a) == (phase[a] = "commit" /\ pc[a] = "apply") \/ (phase[a] = "idle" /\ err[a] # "commit")

ScrapedBy(a) ==
    \A r \in DOMAIN series : \A t \in DOMAIN series[r].samples :
        series[r].labels \in SeriesOf(a) /\ series[r].samples[t] \notin Pushed =>
            /\ t <= ts[a]
            /\ t = ts[a] => Recording(a) /\ Scraped(a, series[r].labels, series[r].samples[t])

\* The up series of a target that had one is not lost, its sample is staged on it,
\* and once the scrape is over it is there.
UpStaged(a) ==
    \E i \in DOMAIN pending[a] :
        LET e == pending[a][i]
        IN  e.l = Synthetic[a][1] /\ e.t = ts[a] /\ e.ref \in DOMAIN series

UpOf(a) ==
    known[a] =>
        /\ phase[a] # "idle" => HasUp(a)
        /\ phase[a] \in {"synthetic", "commit"} /\ syn[a] > 1 => UpStaged(a)
        /\ phase[a] = "idle" /\ err[a] # "commit" =>
             Stored(<<Synthetic[a][1], ts[a]>>, Value) \/ ts[a] < cutoff

CountInv == IsFiniteSet(Accepted) /\ source.samples = Cardinality(Accepted)

BatchInv(a) == RefsOfBatch(a) /\ ControlOf(a) /\ CompleteOf(a) /\ AppliedOf(a) /\ StoredOf(a)
ScrapeInv(a) == ControlOfScrape(a) /\ StagedByScrape(a) /\ ScrapedBy(a) /\ UpOf(a)
PushInv(a) == ControlOfPush(a) /\ StagedByPush(a) /\ PushedBy(a)

IngestInv ==
    /\ IngestTypeOK
    /\ HeadInv
    /\ \A a \in Appender : BatchInv(a)
    /\ \A a \in Target : ScrapeInv(a)
    /\ \A a \in Request : PushInv(a)
    /\ CountInv

-----------------------------------------------------------------------------
(* What the operations of the head do to series and samples *)

LEMMA SeriesType ==
    ASSUME HeadTypeOK, NEW r \in DOMAIN series
    PROVE  /\ r \in Ref /\ series[r] \in [labels : Label, samples : Samples]
           /\ DOMAIN series[r].samples \subseteq Time
           /\ \A t \in DOMAIN series[r].samples : series[r].samples[t] \in Value
<1>1. series[r] \in [labels : Label, samples : Samples] /\ r \in Ref
  BY DEF HeadTypeOK
<1>2. PICK T \in SUBSET Time : series[r].samples \in [T -> Value]
  BY <1>1 DEF Samples
<1> QED
  BY <1>1, <1>2

LEMMA WithSampleIs ==
    ASSUME NEW s \in Samples, NEW t \in Time, NEW v \in Value
    PROVE  /\ WithSample(s, t, v) \in Samples
           /\ DOMAIN WithSample(s, t, v) = DOMAIN s \cup {t}
           /\ \A u \in DOMAIN s : WithSample(s, t, v)[u] = s[u]
           /\ t \notin DOMAIN s => WithSample(s, t, v)[t] = v
<1>1. PICK T \in SUBSET Time : s \in [T -> Value] BY DEF Samples
<1>2. CASE t \in DOMAIN s
  BY <1>2 DEF WithSample
<1>3. CASE t \notin DOMAIN s
  <2>1. WithSample(s, t, v) = [u \in DOMAIN s \cup {t} |-> IF u = t THEN v ELSE s[u]]
    BY <1>3 DEF WithSample
  <2>2. WithSample(s, t, v) \in [T \cup {t} -> Value] /\ T \cup {t} \in SUBSET Time
    BY <1>1, <2>1
  <2>3. WithSample(s, t, v) \in Samples
    BY <2>2 DEF Samples
  <2> QED
    BY <1>3, <2>1, <2>3
<1> QED
  BY <1>2, <1>3

LEMMA FromIs ==
    ASSUME NEW s \in Samples, NEW minT \in Int
    PROVE  /\ From(s, minT) \in Samples
           /\ DOMAIN From(s, minT) = {t \in DOMAIN s : t >= minT}
           /\ \A t \in DOMAIN From(s, minT) : From(s, minT)[t] = s[t]
<1>1. PICK T \in SUBSET Time : s \in [T -> Value] BY DEF Samples
<1> DEFINE U == {t \in T : t >= minT}
<1>2. From(s, minT) \in [U -> Value] /\ U \in SUBSET Time
  BY <1>1 DEF From
<1>3. From(s, minT) \in Samples
  BY <1>2 DEF Samples
<1> QED
  BY <1>1, <1>3 DEF From

\* getOrCreateLimited makes a new, empty series under the next reference.
LEMMA CreatedIs ==
    ASSUME HeadTypeOK, NEW l \in Label, Created(l, lastRef + 1)
    PROVE  /\ HeadTypeOK' /\ lastRef' = lastRef + 1 /\ lastRef + 1 \in Ref
           /\ DOMAIN series' = DOMAIN series \cup {lastRef + 1}
           /\ series'[lastRef + 1] = [labels |-> l, samples |-> NoSamples]
           /\ \A r \in DOMAIN series : r # lastRef + 1 => series'[r] = series[r]
           /\ \A r \in DOMAIN series : series[r].labels # l
<1>1. lastRef + 1 \in Ref /\ lastRef' = lastRef + 1 /\ lastRef' \in Nat
  BY DEF HeadTypeOK, Ref, Created
<1>2. NoSamples \in Samples
  <2>1. NoSamples \in [{} -> Value] BY DEF NoSamples
  <2> QED BY <2>1 DEF Samples
<1>3. /\ DOMAIN series' = DOMAIN series \cup {lastRef + 1}
      /\ series'[lastRef + 1] = [labels |-> l, samples |-> NoSamples]
      /\ \A r \in DOMAIN series : r # lastRef + 1 => series'[r] = series[r]
  BY DEF Created, Inserted
<1>4. series' \in [DOMAIN series' -> [labels : Label, samples : Samples]]
  BY <1>2 DEF Created, Inserted, HeadTypeOK
<1>5. HeadTypeOK'
  BY <1>1, <1>3, <1>4 DEF HeadTypeOK
<1> QED
  BY <1>1, <1>3, <1>5 DEF Created, RefsOf

\* appendSample adds the sample to the series, if it is there and has none at that time.
LEMMA AppendSampleIs ==
    ASSUME HeadTypeOK, NEW ref, NEW t \in Time, NEW v \in Value, AppendSample(ref, t, v)
    PROVE  /\ HeadTypeOK' /\ lastRef' = lastRef /\ DOMAIN series' = DOMAIN series
           /\ \A r \in DOMAIN series :
                /\ series'[r].labels = series[r].labels
                /\ r # ref => series'[r] = series[r]
                /\ \A u \in DOMAIN series[r].samples :
                     u \in DOMAIN series'[r].samples /\ series'[r].samples[u] = series[r].samples[u]
           /\ ref \in DOMAIN series =>
                /\ DOMAIN series'[ref].samples = DOMAIN series[ref].samples \cup {t}
                /\ t \notin DOMAIN series[ref].samples => series'[ref].samples[t] = v
<1>1. CASE ref \in DOMAIN series
  <2> DEFINE w == WithSample(series[ref].samples, t, v)
  <2>1. series[ref].samples \in Samples /\ series[ref].labels \in Label
    BY <1>1, SeriesType
  <2>2. /\ w \in Samples /\ DOMAIN w = DOMAIN series[ref].samples \cup {t}
        /\ \A u \in DOMAIN series[ref].samples : w[u] = series[ref].samples[u]
        /\ t \notin DOMAIN series[ref].samples => w[t] = v
    BY <2>1, WithSampleIs
  <2>3. series' = [series EXCEPT ![ref] = [labels |-> series[ref].labels, samples |-> w]]
    BY <1>1 DEF AppendSample
  <2> HIDE DEF w
  <2>4. /\ DOMAIN series' = DOMAIN series
        /\ series'[ref].labels = series[ref].labels /\ series'[ref].samples = w
        /\ \A r \in DOMAIN series : r # ref => series'[r] = series[r]
    BY <1>1, <2>3
  <2>5. series' \in [DOMAIN series -> [labels : Label, samples : Samples]]
    BY <1>1, <2>1, <2>2, <2>3 DEF HeadTypeOK
  <2>6. HeadTypeOK' /\ lastRef' = lastRef
    BY <2>4, <2>5 DEF AppendSample, HeadTypeOK
  <2> QED
    BY <1>1, <2>2, <2>4, <2>6
<1>2. CASE ref \notin DOMAIN series
  BY <1>2 DEF AppendSample, HeadTypeOK
<1> QED
  BY <1>1, <1>2

\* reclaimIfEmpty takes at most one series out, an empty one.
LEMMA ReclaimIs ==
    ASSUME HeadTypeOK, NEW ref, ReclaimIfEmpty(ref)
    PROVE  /\ HeadTypeOK' /\ lastRef' = lastRef /\ DOMAIN series' \subseteq DOMAIN series
           /\ \A r \in DOMAIN series' : series'[r] = series[r]
           /\ \A r \in DOMAIN series \ DOMAIN series' : DOMAIN series[r].samples = {}
<1>1. CASE series' = series
  BY <1>1 DEF ReclaimIfEmpty, HeadTypeOK
<1>2. CASE series' = Removed({ref}) /\ DOMAIN series[ref].samples = {}
  <2>1. series' \in [DOMAIN series \ {ref} -> [labels : Label, samples : Samples]]
    BY <1>2 DEF Removed, HeadTypeOK
  <2>2. HeadTypeOK' /\ lastRef' = lastRef
    BY <2>1 DEF ReclaimIfEmpty, HeadTypeOK
  <2> QED
    BY <1>2, <2>1, <2>2 DEF Removed
<1> QED
  BY <1>1, <1>2 DEF ReclaimIfEmpty

\* truncate takes the samples before minT out, and the series that are left empty.
LEMMA CutIs ==
    ASSUME HeadTypeOK, NEW minT \in Int, TruncateHead(minT)
    PROVE  /\ HeadTypeOK' /\ lastRef' = lastRef /\ DOMAIN series' \subseteq DOMAIN series
           /\ \A r \in DOMAIN series' :
                /\ series'[r].labels = series[r].labels
                /\ DOMAIN series'[r].samples = {t \in DOMAIN series[r].samples : t >= minT}
                /\ \A t \in DOMAIN series'[r].samples : series'[r].samples[t] = series[r].samples[t]
           /\ \A r \in DOMAIN series : \A t \in DOMAIN series[r].samples :
                t >= minT => r \in DOMAIN series'
<1> DEFINE kept == {r \in DOMAIN series : \E t \in DOMAIN series[r].samples : t >= minT}
<1>1. \A r \in kept : series[r].samples \in Samples /\ series[r].labels \in Label
  BY SeriesType
<1>2. series' = [r \in kept |->
                    [labels |-> series[r].labels, samples |-> From(series[r].samples, minT)]]
  BY DEF TruncateHead
<1>3. \A r \in kept : /\ From(series[r].samples, minT) \in Samples
                      /\ DOMAIN From(series[r].samples, minT)
                           = {t \in DOMAIN series[r].samples : t >= minT}
                      /\ \A t \in DOMAIN From(series[r].samples, minT) :
                           From(series[r].samples, minT)[t] = series[r].samples[t]
  BY <1>1, FromIs
<1>4. DOMAIN series' = kept
  BY <1>2
<1>5. series' \in [kept -> [labels : Label, samples : Samples]]
  BY <1>1, <1>2, <1>3
<1>6. \A r \in kept : /\ series'[r].labels = series[r].labels
                      /\ series'[r].samples = From(series[r].samples, minT)
  BY <1>2
<1>7. HeadTypeOK' /\ lastRef' = lastRef
  BY <1>4, <1>5 DEF TruncateHead, HeadTypeOK
<1>8. kept \subseteq DOMAIN series
  OBVIOUS
<1>9. \A r \in DOMAIN series : \A t \in DOMAIN series[r].samples : t >= minT => r \in kept
  OBVIOUS
<1> HIDE DEF kept
<1> QED
  BY <1>3, <1>4, <1>6, <1>7, <1>8, <1>9

-----------------------------------------------------------------------------
(* What the steps of an appender do *)

\* The head gets at most the series r, which is new and empty.
Grows(r) ==
    /\ lastRef <= lastRef' /\ r <= lastRef' /\ r \in DOMAIN series'
    /\ DOMAIN series \subseteq DOMAIN series' /\ DOMAIN series' \subseteq DOMAIN series \cup {r}
    /\ \A q \in DOMAIN series : series'[q] = series[q]
    /\ r \notin DOMAIN series =>
         /\ lastRef < r /\ DOMAIN series'[r].samples = {}
         /\ \A q \in DOMAIN series : series[q].labels # series'[r].labels

\* The head gets a sample, if it has the series and that has none at the time.
Gains(ref, t, v) ==
    /\ lastRef' = lastRef /\ DOMAIN series' = DOMAIN series
    /\ \A r \in DOMAIN series :
         /\ series'[r].labels = series[r].labels
         /\ r # ref => series'[r] = series[r]
         /\ \A u \in DOMAIN series[r].samples :
              u \in DOMAIN series'[r].samples /\ series'[r].samples[u] = series[r].samples[u]
    /\ ref \in DOMAIN series =>
         /\ DOMAIN series'[ref].samples = DOMAIN series[ref].samples \cup {t}
         /\ t \notin DOMAIN series[ref].samples => series'[ref].samples[t] = v

\* The head loses empty series.
Shrinks ==
    /\ lastRef' = lastRef /\ DOMAIN series' \subseteq DOMAIN series
    /\ \A r \in DOMAIN series' : series'[r] = series[r]
    /\ \A r \in DOMAIN series \ DOMAIN series' : DOMAIN series[r].samples = {}

\* The head loses samples that are older than the cut-off, and the series left empty.
Loses(minT) ==
    /\ lastRef' = lastRef /\ DOMAIN series' \subseteq DOMAIN series
    /\ \A r \in DOMAIN series' :
         /\ series'[r].labels = series[r].labels
         /\ DOMAIN series'[r].samples = {t \in DOMAIN series[r].samples : t >= minT}
         /\ \A t \in DOMAIN series'[r].samples : series'[r].samples[t] = series[r].samples[t]
    /\ \A r \in DOMAIN series : \A t \in DOMAIN series[r].samples :
         t >= minT => r \in DOMAIN series'

\* The appenders of the others stay as they are.
Alone(a) ==
    \A b \in Appender \ {a} :
        pc'[b] = pc[b] /\ newSeries'[b] = newSeries[b] /\ pending'[b] = pending[b] /\ idx'[b] = idx[b]

\* A sample is staged.
Adds(a, l, t, v) ==
    /\ Alone(a) /\ pc'[a] = pc[a] /\ idx'[a] = idx[a]
    /\ \E r \in Ref : /\ pending'[a] = Append(pending[a], [ref |-> r, l |-> l, t |-> t, v |-> v])
                      /\ Grows(r) /\ series'[r].labels = l

LEMMA AddSampleIs ==
    ASSUME StoreTypeOK, \A r \in DOMAIN series : r <= lastRef,
           NEW a \in Appender, NEW l \in Label, NEW t \in Time, NEW v \in Value,
           AddSample(a, l, t, v)
    PROVE  StoreTypeOK' /\ Adds(a, l, t, v) /\ pc[a] = "stage"
<1>1. pc[a] = "stage" /\ pc' = pc /\ idx' = idx /\ HeadTypeOK
  BY DEF AddSample, StoreTypeOK
<1>2. ASSUME NEW r \in RefsOf(l), Found(l, r), Stages(a, r, l, t, v), UNCHANGED newSeries
      PROVE  StoreTypeOK' /\ Adds(a, l, t, v)
  <2>1. r \in DOMAIN series /\ series[r].labels = l /\ r \in Ref
    BY <1>1 DEF RefsOf, HeadTypeOK
  <2>2. series' = series /\ lastRef' = lastRef
    BY <1>2 DEF Found, headVars
  <2>3. [ref |-> r, l |-> l, t |-> t, v |-> v] \in Staged
    BY <2>1 DEF Staged
  <2>4. Append(pending[a], [ref |-> r, l |-> l, t |-> t, v |-> v]) \in Seq(Staged)
    BY <2>3 DEF StoreTypeOK
  <2>5. /\ pending' \in [Appender -> Seq(Staged)]
        /\ pending'[a] = Append(pending[a], [ref |-> r, l |-> l, t |-> t, v |-> v])
        /\ \A b \in Appender \ {a} : pending'[b] = pending[b]
    BY <1>2, <2>4 DEF Stages, StoreTypeOK
  <2>6. StoreTypeOK'
    BY <1>1, <1>2, <2>2, <2>5 DEF StoreTypeOK, HeadTypeOK
  <2>7. Grows(r)
    BY <1>1, <2>1, <2>2 DEF Grows, HeadTypeOK, Ref
  <2> QED
    BY <1>1, <1>2, <2>1, <2>2, <2>5, <2>6, <2>7 DEF Adds, Alone
<1>3. ASSUME Created(l, lastRef + 1), Stages(a, lastRef + 1, l, t, v),
             newSeries' = [newSeries EXCEPT ![a] = Append(@, [ref |-> lastRef + 1, l |-> l])]
      PROVE  StoreTypeOK' /\ Adds(a, l, t, v)
  <2> DEFINE r == lastRef + 1
  <2>1. /\ HeadTypeOK' /\ lastRef' = r /\ r \in Ref /\ DOMAIN series' = DOMAIN series \cup {r}
        /\ series'[r] = [labels |-> l, samples |-> NoSamples]
        /\ \A q \in DOMAIN series : q # r => series'[q] = series[q]
        /\ \A q \in DOMAIN series : series[q].labels # l
    BY <1>1, <1>3, CreatedIs
  <2>2. lastRef \in Nat /\ \A q \in DOMAIN series : q # r
    BY <1>1 DEF HeadTypeOK
  <2>3. [ref |-> r, l |-> l, t |-> t, v |-> v] \in Staged /\ [ref |-> r, l |-> l] \in [ref : Ref, l : Label]
    BY <2>1 DEF Staged
  <2> HIDE DEF r
  <2>a. Append(pending[a], [ref |-> r, l |-> l, t |-> t, v |-> v]) \in Seq(Staged)
    BY <2>3 DEF StoreTypeOK
  <2>b. Append(newSeries[a], [ref |-> r, l |-> l]) \in Seq([ref : Ref, l : Label])
    <3> DEFINE S == [ref : Ref, l : Label]
    <3>1. newSeries[a] \in Seq(S) /\ [ref |-> r, l |-> l] \in S
      BY <2>3 DEF StoreTypeOK
    <3> HIDE DEF S
    <3>2. Append(newSeries[a], [ref |-> r, l |-> l]) \in Seq(S)
      BY <3>1
    <3> QED
      BY <3>2 DEF S
  <2>5. /\ pending' \in [Appender -> Seq(Staged)]
        /\ pending'[a] = Append(pending[a], [ref |-> r, l |-> l, t |-> t, v |-> v])
        /\ \A b \in Appender \ {a} : pending'[b] = pending[b]
    BY <1>3, <2>a DEF Stages, StoreTypeOK, r
  <2>6. /\ newSeries' \in [Appender -> Seq([ref : Ref, l : Label])]
        /\ \A b \in Appender \ {a} : newSeries'[b] = newSeries[b]
    BY <1>3, <2>b DEF StoreTypeOK, r
  <2>7. StoreTypeOK'
    BY <1>1, <2>1, <2>5, <2>6 DEF StoreTypeOK
  <2>8. Grows(r)
    BY <2>1, <2>2 DEF Grows, NoSamples, r
  <2>9. series'[r].labels = l
    BY <2>1
  <2> QED
    BY <1>1, <2>1, <2>5, <2>6, <2>7, <2>8, <2>9 DEF Adds, Alone
<1> QED
  BY <1>1, <1>2, <1>3 DEF AddSample

LEMMA MovesIs ==
    ASSUME StoreTypeOK, HeadTypeOK', NEW a \in Appender, NEW p \in {"stage", "log", "apply", "rollback"},
           NEW i \in Nat \ {0}, Moves(a, p, i)
    PROVE  StoreTypeOK' /\ Alone(a) /\ pc'[a] = p /\ idx'[a] = i /\ pending'[a] = pending[a]
BY DEF Moves, StoreTypeOK, Alone

LEMMA OverIs ==
    ASSUME StoreTypeOK, HeadTypeOK', NEW a \in Appender, Over(a)
    PROVE  StoreTypeOK' /\ Alone(a) /\ pc'[a] = "stage" /\ idx'[a] = 1 /\ pending'[a] = <<>>
<1>1. <<>> \in Seq([ref : Ref, l : Label]) /\ <<>> \in Seq(Staged)
  OBVIOUS
<1>2. pending' \in [Appender -> Seq(Staged)] /\ newSeries' \in [Appender -> Seq([ref : Ref, l : Label])]
  BY <1>1 DEF Over, StoreTypeOK
<1>3. /\ pc' \in [Appender -> {"stage", "log", "apply", "rollback"}]
      /\ idx' \in [Appender -> Nat \ {0}]
  BY DEF Over, StoreTypeOK
<1> QED
  BY <1>2, <1>3 DEF Over, StoreTypeOK, Alone

LEMMA HeadKept ==
    ASSUME HeadTypeOK, UNCHANGED headVars
    PROVE  HeadTypeOK' /\ series' = series /\ lastRef' = lastRef
BY DEF HeadTypeOK, headVars

LEMMA RejectedIs ==
    ASSUME StoreTypeOK, NEW a \in Appender, NEW l, Rejected(a, l)
    PROVE  /\ StoreTypeOK' /\ Alone(a) /\ UNCHANGED headVars /\ pc[a] = "stage"
           /\ pc'[a] = "rollback" /\ pending'[a] = pending[a]
<1>1. pc[a] = "stage" /\ Moves(a, "rollback", 1) /\ UNCHANGED headVars
  BY DEF Rejected, TooManySeries
<1>2. HeadTypeOK /\ HeadTypeOK'
  BY <1>1, HeadKept DEF StoreTypeOK
<1> QED
  BY <1>1, <1>2, MovesIs

LEMMA RollBackIs ==
    ASSUME StoreTypeOK, NEW a \in Appender, RollBack(a)
    PROVE  /\ StoreTypeOK' /\ Alone(a) /\ Shrinks /\ pc[a] = "rollback"
           /\ \/ pc'[a] = "rollback" /\ pending'[a] = pending[a]
              \/ pc'[a] = "stage" /\ pending'[a] = <<>>
<1>1. HeadTypeOK /\ idx[a] \in Nat \ {0} /\ pc[a] = "rollback"
  BY DEF StoreTypeOK, RollBack
<1>2. CASE idx[a] <= Len(newSeries[a])
  <2>1. ReclaimIfEmpty(newSeries[a][idx[a]].ref) /\ Moves(a, "rollback", idx[a] + 1)
    BY <1>2 DEF RollBack
  <2>2. HeadTypeOK' /\ Shrinks
    BY <1>1, <2>1, ReclaimIs DEF Shrinks
  <2>3. idx[a] + 1 \in Nat \ {0}
    BY <1>1
  <2> QED
    BY <1>1, <2>1, <2>2, <2>3, MovesIs
<1>3. CASE ~(idx[a] <= Len(newSeries[a]))
  <2>1. Over(a) /\ UNCHANGED headVars
    BY <1>3 DEF RollBack
  <2>2. Shrinks
    BY <2>1 DEF Shrinks, headVars
  <2> QED
    BY <1>1, <2>1, <2>2, HeadKept, OverIs
<1> QED
  BY <1>2, <1>3

LEMMA CommitCalledIs ==
    ASSUME StoreTypeOK, NEW a \in Appender, CommitCalled(a)
    PROVE  /\ StoreTypeOK' /\ Alone(a) /\ UNCHANGED headVars /\ pc[a] = "stage"
           /\ pc'[a] = "log" /\ pending'[a] = pending[a]
<1>1. pc[a] = "stage" /\ Moves(a, "log", 1) /\ UNCHANGED headVars
  BY DEF CommitCalled
<1>2. HeadTypeOK /\ HeadTypeOK'
  BY <1>1, HeadKept DEF StoreTypeOK
<1> QED
  BY <1>1, <1>2, MovesIs

LEMMA LoggedIs ==
    ASSUME StoreTypeOK, NEW a \in Appender, Logged(a)
    PROVE  /\ StoreTypeOK' /\ Alone(a) /\ UNCHANGED headVars /\ pc[a] = "log"
           /\ IF pending[a] = <<>>
              THEN pc'[a] = "stage" /\ pending'[a] = <<>>
              ELSE pc'[a] = "apply" /\ idx'[a] = 1 /\ pending'[a] = pending[a]
<1>1. pc[a] = "log" /\ UNCHANGED headVars
  BY DEF Logged
<1>2. HeadTypeOK /\ HeadTypeOK'
  BY <1>1, HeadKept DEF StoreTypeOK
<1>3. CASE pending[a] = <<>>
  <2>1. Over(a)
    BY <1>3 DEF Logged
  <2> QED
    BY <1>1, <1>2, <1>3, <2>1, OverIs
<1>4. CASE pending[a] # <<>>
  <2>1. Moves(a, "apply", 1)
    BY <1>4 DEF Logged
  <2> QED
    BY <1>1, <1>2, <1>4, <2>1, MovesIs
<1> QED
  BY <1>3, <1>4

LEMMA FailsIs ==
    ASSUME StoreTypeOK, NEW a \in Appender, Fails(a)
    PROVE  /\ StoreTypeOK' /\ Alone(a) /\ UNCHANGED headVars /\ pc[a] = "log"
           /\ pc'[a] = "stage" /\ pending'[a] = <<>>
BY HeadKept, OverIs DEF Fails, StoreTypeOK

LEMMA AppliesIs ==
    ASSUME StoreTypeOK, NEW a \in Appender, Applies(a), idx[a] \in DOMAIN pending[a]
    PROVE  LET e == pending[a][idx[a]] IN
           /\ StoreTypeOK' /\ Alone(a) /\ Gains(e.ref, e.t, e.v) /\ pc[a] = "apply" /\ e \in Staged
           /\ IF idx[a] < Len(pending[a])
              THEN pc'[a] = "apply" /\ idx'[a] = idx[a] + 1 /\ pending'[a] = pending[a]
              ELSE pc'[a] = "stage" /\ pending'[a] = <<>>
<1> DEFINE e == pending[a][idx[a]]
<1>1. HeadTypeOK /\ idx[a] \in Nat \ {0} /\ idx[a] + 1 \in Nat \ {0} /\ pending[a] \in Seq(Staged)
  BY DEF StoreTypeOK
<1>2. e \in Staged
  BY <1>1
<1>3. e.t \in Time /\ e.v \in Value
  BY <1>2 DEF Staged
<1>4. AppendSample(e.ref, e.t, e.v) /\ pc[a] = "apply"
  BY DEF Applies
<1> HIDE DEF e
<1>5. HeadTypeOK' /\ Gains(e.ref, e.t, e.v)
  <2>1. ASSUME NEW r, NEW u \in Time, NEW v \in Value, AppendSample(r, u, v)
        PROVE  HeadTypeOK' /\ Gains(r, u, v)
    <3> USE <1>1, <2>1
    <3>1. HeadTypeOK' /\ lastRef' = lastRef /\ DOMAIN series' = DOMAIN series
      BY AppendSampleIs
    <3> QED
      BY <3>1, AppendSampleIs DEF Gains
  <2> QED
    BY <1>3, <1>4, <2>1
<1>6. CASE idx[a] < Len(pending[a])
  <2>1. Moves(a, "apply", idx[a] + 1)
    BY <1>6 DEF Applies
  <2> QED
    BY <1>1, <1>2, <1>4, <1>5, <1>6, <2>1, MovesIs DEF e
<1>7. CASE ~(idx[a] < Len(pending[a]))
  <2>1. Over(a)
    BY <1>7 DEF Applies
  <2> QED
    BY <1>2, <1>4, <1>5, <1>7, <2>1, OverIs DEF e
<1> QED
  BY <1>6, <1>7

-----------------------------------------------------------------------------
(* How the head evolves in a step, and what that leaves of an appender that does not move *)

Old(r, t) == Holds(r, t) /\ series'[r].samples[t] = series[r].samples[t]

AllOld == \A r \in DOMAIN series' : \A t \in DOMAIN series'[r].samples : Old(r, t)

\* The only new sample, if any, is e.
NewIs(e) ==
    \A r \in DOMAIN series' : \A t \in DOMAIN series'[r].samples :
        \/ Old(r, t)
        \/ r \in DOMAIN series /\ r = e.ref /\ t = e.t /\ series'[r].samples[t] = e.v

\* At most one series is new, under a new reference, and empty; samples are lost to retention only.
Evolves ==
    /\ lastRef <= lastRef' /\ cutoff <= cutoff'
    /\ \A r \in DOMAIN series' \cap DOMAIN series : series'[r].labels = series[r].labels
    /\ \A r \in DOMAIN series' \ DOMAIN series :
         /\ lastRef < r /\ r <= lastRef' /\ DOMAIN series'[r].samples = {}
         /\ \A q \in DOMAIN series : series[q].labels # series'[r].labels
    /\ \A r, q \in DOMAIN series' \ DOMAIN series : r = q
    /\ \A r \in DOMAIN series : \A t \in DOMAIN series[r].samples :
         t >= cutoff' \/ cutoff' = cutoff =>
             /\ r \in DOMAIN series' /\ t \in DOMAIN series'[r].samples
             /\ series'[r].samples[t] = series[r].samples[t]

LEMMA Numbers ==
    ASSUME IngestTypeOK
    PROVE  /\ lastRef \in Nat /\ cutoff \in Int /\ clock \in Int /\ DOMAIN series \subseteq Nat \ {0}
           /\ \A r \in DOMAIN series : DOMAIN series[r].samples \subseteq Int
           /\ \A a \in Target : ts[a] \in Nat /\ syn[a] \in 1 .. 4
           /\ \A a \in Appender : idx[a] \in Nat \ {0}
<1>1. HeadTypeOK /\ cutoff \in MinT \cup {-1} /\ clock \in 0 .. MaxTime /\ ts \in [Target -> 0 .. MaxTime]
  BY DEF IngestTypeOK, StoreTypeOK
<1>2. lastRef \in Nat /\ DOMAIN series \subseteq Nat \ {0}
  BY <1>1 DEF HeadTypeOK, Ref
<1>3. \A r \in DOMAIN series : DOMAIN series[r].samples \subseteq Int
  BY <1>1, SeriesType, TimeAssumption
<1>4. cutoff \in Int /\ clock \in Int /\ \A a \in Target : ts[a] \in Nat
  BY <1>1, ClockAssumption
<1>5. \A a \in Target : syn[a] \in 1 .. 4
  BY DEF IngestTypeOK
<1>6. \A a \in Appender : idx[a] \in Nat \ {0}
  BY DEF IngestTypeOK, StoreTypeOK
<1> QED
  BY <1>2, <1>3, <1>4, <1>5, <1>6

LEMMA NumbersNext ==
    ASSUME IngestTypeOK'
    PROVE  /\ lastRef' \in Nat /\ cutoff' \in Int /\ clock' \in Int /\ DOMAIN series' \subseteq Nat \ {0}
           /\ \A a \in Target : ts'[a] \in Nat
<1>1. HeadTypeOK' /\ cutoff' \in MinT \cup {-1} /\ clock' \in 0 .. MaxTime /\ ts' \in [Target -> 0 .. MaxTime]
  BY DEF IngestTypeOK, StoreTypeOK
<1>2. lastRef' \in Nat /\ DOMAIN series' \subseteq Nat \ {0}
  BY <1>1 DEF HeadTypeOK, Ref
<1> QED
  BY <1>1, <1>2, ClockAssumption

LEMMA SameEvolves ==
    ASSUME IngestTypeOK, UNCHANGED headVars, cutoff' = cutoff
    PROVE  Evolves /\ AllOld
BY Numbers DEF Evolves, AllOld, Old, Holds, headVars

LEMMA GrowsEvolves ==
    ASSUME IngestTypeOK, NEW r, Grows(r), cutoff' = cutoff
    PROVE  Evolves /\ AllOld
BY Numbers DEF Evolves, AllOld, Old, Holds, Grows

LEMMA GainsEvolves ==
    ASSUME IngestTypeOK, NEW e, Gains(e.ref, e.t, e.v), cutoff' = cutoff
    PROVE  Evolves /\ NewIs(e)
<1>1. Evolves
  BY Numbers DEF Evolves, Gains
<1>2. ASSUME NEW r \in DOMAIN series', NEW t \in DOMAIN series'[r].samples
      PROVE  Old(r, t) \/ (r \in DOMAIN series /\ r = e.ref /\ t = e.t /\ series'[r].samples[t] = e.v)
  <2>1. r \in DOMAIN series
    BY DEF Gains
  <2>2. CASE r # e.ref
    BY <2>1, <2>2 DEF Gains, Old, Holds
  <2>3. CASE r = e.ref
    BY <2>1, <2>3 DEF Gains, Old, Holds
  <2> QED
    BY <2>2, <2>3
<1> QED
  BY <1>1, <1>2 DEF NewIs

LEMMA ShrinksEvolves ==
    ASSUME IngestTypeOK, Shrinks, cutoff' = cutoff
    PROVE  Evolves /\ AllOld
BY Numbers DEF Evolves, AllOld, Old, Holds, Shrinks

LEMMA LosesEvolves ==
    ASSUME IngestTypeOK, NEW minT \in Int, Loses(minT), cutoff' = minT, cutoff < minT
    PROVE  Evolves /\ AllOld
<1>1. Evolves
  BY Numbers DEF Evolves, Loses
<1>2. AllOld
  BY DEF AllOld, Old, Holds, Loses
<1> QED
  BY <1>1, <1>2

LEMMA HeadKeepsInv ==
    ASSUME IngestTypeOK, IngestTypeOK', HeadInv, Evolves
    PROVE  HeadInv'
<1>1. \A r \in DOMAIN series' : r <= lastRef'
  BY Numbers, NumbersNext DEF HeadInv, Evolves
<1>2. ASSUME NEW r \in DOMAIN series', NEW q \in DOMAIN series', series'[r].labels = series'[q].labels
      PROVE  r = q
  <2>1. CASE r \in DOMAIN series /\ q \in DOMAIN series
    BY <1>2, <2>1 DEF HeadInv, Evolves
  <2>2. CASE r \notin DOMAIN series /\ q \notin DOMAIN series
    BY <2>2 DEF Evolves
  <2>3. CASE r \in DOMAIN series /\ q \notin DOMAIN series
    BY <1>2, <2>3 DEF Evolves
  <2>4. CASE r \notin DOMAIN series /\ q \in DOMAIN series
    BY <1>2, <2>4 DEF Evolves
  <2> QED
    BY <2>1, <2>2, <2>3, <2>4
<1> QED
  BY <1>1, <1>2 DEF HeadInv

\* A series with a sample is only lost to retention.
LEMMA HasUpStays ==
    ASSUME Evolves, cutoff' = cutoff, NEW a \in Target, HasUp(a)
    PROVE  HasUp(a)'
<1>1. PICK r \in DOMAIN series : series[r].labels = Synthetic[a][1] /\ DOMAIN series[r].samples # {}
  BY DEF HasUp, RefsOf
<1>2. PICK t : t \in DOMAIN series[r].samples
  BY <1>1
<1>3. r \in DOMAIN series' /\ t \in DOMAIN series'[r].samples /\ series'[r].labels = Synthetic[a][1]
  BY <1>1, <1>2 DEF Evolves
<1> QED
  BY <1>3 DEF HasUp, RefsOf

Kept(b) ==
    /\ pc'[b] = pc[b] /\ pending'[b] = pending[b] /\ idx'[b] = idx[b]
    /\ phase'[b] = phase[b] /\ todo'[b] = todo[b] /\ err'[b] = err[b] /\ batch'[b] = batch[b]
    /\ clean'[b] => clean[b] /\ \A i \in DOMAIN pending[b] :
         pending[b][i].ref \in DOMAIN series => pending[b][i].ref \in DOMAIN series'

KeptScrape(b) ==
    /\ Kept(b) /\ clock <= clock'
    /\ ts'[b] = ts[b] /\ syn'[b] = syn[b] /\ health'[b] = health[b]
    /\ known'[b] => known[b] /\ (HasUp(b) => HasUp(b)')

\* What is stored stays stored until it is expired.
LEMMA StoredStays ==
    ASSUME IngestTypeOK, IngestTypeOK', Evolves, NEW s, s[2] \in Int, Stored(s, Value) \/ s[2] < cutoff
    PROVE  Stored(s, Value)' \/ s[2] < cutoff'
<1>1. CASE s[2] < cutoff
  BY <1>1, Numbers, NumbersNext DEF Evolves
<1>2. CASE Stored(s, Value)
  <2>1. PICK r \in DOMAIN series : /\ series[r].labels = s[1] /\ s[2] \in DOMAIN series[r].samples
                                   /\ series[r].samples[s[2]] \in Value
    BY <1>2 DEF Stored, RefsOf
  <2>2. CASE s[2] >= cutoff'
    <3>1. /\ r \in DOMAIN series' /\ s[2] \in DOMAIN series'[r].samples
          /\ series'[r].samples[s[2]] = series[r].samples[s[2]]
          /\ series'[r].labels = s[1]
      BY <2>1, <2>2 DEF Evolves
    <3> QED
      BY <2>1, <3>1 DEF Stored, RefsOf
  <2>3. CASE ~(s[2] >= cutoff')
    BY <2>3, NumbersNext
  <2> QED
    BY <2>2, <2>3
<1> QED
  BY <1>1, <1>2

LEMMA StagedIs ==
    ASSUME IngestTypeOK, NEW a \in Appender, NEW i \in DOMAIN pending[a]
    PROVE  /\ pending[a][i] \in Staged
           /\ pending[a][i].ref \in Ref /\ pending[a][i].ref \in Nat /\ pending[a][i].l \in Label
           /\ pending[a][i].t \in Time /\ pending[a][i].t \in Int /\ pending[a][i].v \in Value
<1>1. pending[a] \in Seq(Staged)
  BY DEF IngestTypeOK, StoreTypeOK
<1>2. pending[a][i] \in Staged
  BY <1>1
<1> QED
  BY <1>2, TimeAssumption DEF Staged, Ref

LEMMA BatchStays ==
    ASSUME IngestTypeOK, IngestTypeOK', Evolves, NEW a \in Appender, Kept(a), BatchInv(a)
    PROVE  BatchInv(a)'
<1>0. lastRef \in Nat /\ lastRef' \in Nat /\ cutoff \in Int /\ cutoff' \in Int
  BY Numbers, NumbersNext
<1>1. \A i \in DOMAIN pending[a] : pending[a][i].t \in Int /\ pending[a][i].ref \in Nat
  BY StagedIs
<1>2. RefsOfBatch(a)'
  <2>1. ASSUME NEW i \in DOMAIN pending[a]
        PROVE  /\ pending[a][i].ref <= lastRef'
               /\ pending[a][i].ref \in DOMAIN series' => series'[pending[a][i].ref].labels = pending[a][i].l
    <3>1. pending[a][i].ref <= lastRef /\ pending[a][i].ref \in Nat
      BY <1>1 DEF BatchInv, RefsOfBatch
    <3>2. ASSUME pending[a][i].ref \in DOMAIN series' PROVE pending[a][i].ref \in DOMAIN series
      BY <1>0, <3>1, <3>2 DEF Evolves
    <3> QED
      BY <1>0, <3>1, <3>2 DEF Evolves, BatchInv, RefsOfBatch
  <2> QED
    BY <2>1 DEF RefsOfBatch, Kept
<1>3. ControlOf(a)'
  BY DEF BatchInv, ControlOf, Kept
<1>4. CompleteOf(a)'
  BY DEF BatchInv, CompleteOf, Kept
<1>5. AppliedOf(a)'
  <2>1. ASSUME NEW i \in DOMAIN pending[a], clean'[a]
        PROVE  pending[a][i].ref \in DOMAIN series'
    BY <2>1 DEF BatchInv, AppliedOf, Kept
  <2>2. ASSUME NEW i \in DOMAIN pending[a], pc[a] = "apply", i < idx[a], pending[a][i].ref \in DOMAIN series'
        PROVE  /\ pending[a][i].ref \in DOMAIN series
               /\ \/ pending[a][i].t \in DOMAIN series'[pending[a][i].ref].samples
                  \/ pending[a][i].t < cutoff'
    <3> PICK e : e = pending[a][i]
      OBVIOUS
    <3>1. e.ref <= lastRef /\ e.ref \in Nat /\ e.t \in Int
      BY <1>1 DEF BatchInv, RefsOfBatch
    <3>2. e.ref \in DOMAIN series
      BY <1>0, <2>2, <3>1 DEF Evolves
    <3>3. Holds(e.ref, e.t) \/ e.t < cutoff
      BY <2>2, <3>2 DEF BatchInv, AppliedOf
    <3>4. CASE e.t < cutoff \/ e.t < cutoff'
      BY <1>0, <3>1, <3>2, <3>4 DEF Evolves
    <3>5. CASE Holds(e.ref, e.t) /\ e.t >= cutoff'
      BY <3>2, <3>5 DEF Holds, Evolves
    <3> QED
      BY <1>0, <3>1, <3>3, <3>4, <3>5
  <2> QED
    BY <2>1, <2>2 DEF AppliedOf, Kept, Holds
<1>6. StoredOf(a)'
  <2> SUFFICES ASSUME phase'[a] \in {"idle", "record", "done"}, err'[a] = "", clean'[a], NEW s \in batch'[a]
               PROVE  Stored(s, Value)' \/ Expired(s)'
    BY DEF StoredOf
  <2>1. s \in batch[a] /\ phase[a] \in {"idle", "record", "done"} /\ err[a] = "" /\ clean[a]
    BY DEF Kept
  <2>2. s[2] \in Int
    <3>1. batch[a] \in SUBSET (Label \X Time)
      BY DEF IngestTypeOK
    <3> QED
      BY <2>1, <3>1, TimeAssumption
  <2>3. Stored(s, Value) \/ s[2] < cutoff
    BY <2>1 DEF BatchInv, StoredOf, Expired
  <2> QED
    BY <2>2, <2>3, StoredStays DEF Expired
<1> QED
  BY <1>2, <1>3, <1>4, <1>5, <1>6 DEF BatchInv

\* Under a label set is one series; if it is new there was none before.
LEMMA StillOne ==
    ASSUME IngestTypeOK, HeadInv, Evolves, NEW r \in DOMAIN series,
           NEW q \in DOMAIN series', series'[q].labels = series[r].labels
    PROVE  r \in DOMAIN series'
<1>1. q \in DOMAIN series
  BY DEF Evolves
<1>2. series[q].labels = series[r].labels
  BY <1>1 DEF Evolves
<1> QED
  BY <1>1, <1>2 DEF HeadInv

LEMMA ScrapeStays ==
    ASSUME IngestTypeOK, IngestTypeOK', HeadInv, Evolves, NEW a \in Target, KeptScrape(a), ScrapeInv(a),
           BatchInv(a),
           \A r \in DOMAIN series' : \A t \in DOMAIN series'[r].samples :
               Old(r, t) \/ series'[r].labels \notin SeriesOf(a) \/ series'[r].samples[t] \in Pushed
    PROVE  ScrapeInv(a)'
<1>0. /\ clock \in Int /\ clock' \in Int /\ ts[a] \in Nat /\ cutoff \in Int /\ cutoff' \in Int
      /\ \A i \in DOMAIN pending[a] : pending[a][i].t \in Int
  BY Numbers, NumbersNext, StagedIs, WritersAssumption
<1>a. /\ pc'[a] = pc[a] /\ pending'[a] = pending[a] /\ phase'[a] = phase[a] /\ err'[a] = err[a]
      /\ batch'[a] = batch[a] /\ ts'[a] = ts[a] /\ syn'[a] = syn[a] /\ health'[a] = health[a]
      /\ clock <= clock' /\ (known'[a] => known[a]) /\ (known'[a] => (HasUp(a) => HasUp(a)'))
  BY DEF Kept, KeptScrape
<1>b. ControlOfScrape(a) /\ StagedByScrape(a) /\ ScrapedBy(a) /\ UpOf(a)
  BY DEF ScrapeInv
<1>1. ControlOfScrape(a)'
  <2>1. Exposed[a] \X {ts'[a]} = Exposed[a] \X {ts[a]}
    BY <1>a
  <2>2. batch'[a] \subseteq Exposed[a] \X {ts'[a]}
    BY <1>a, <1>b, <2>1 DEF ControlOfScrape
  <2>3. ts'[a] = 0 => phase'[a] = "idle" /\ batch'[a] = {} /\ ~known'[a]
    <3>1. known[a] \in BOOLEAN /\ known'[a] \in BOOLEAN
      BY DEF IngestTypeOK
    <3> QED
      BY <1>a, <1>b, <3>1 DEF ControlOfScrape
  <2>4. phase'[a] = "idle" => (health'[a].up <=> err'[a] = "" /\ ts'[a] > 0)
    BY <1>a, <1>b DEF ControlOfScrape
  <2>5. ts'[a] <= clock'
    <3>1. ts[a] <= clock
      BY <1>b DEF ControlOfScrape
    <3> QED
      BY <1>0, <1>a, <3>1
  <2> QED
    BY <1>a, <1>b, <2>2, <2>3, <2>4, <2>5 DEF ControlOfScrape
<1>2. StagedByScrape(a)'
  <2>1. \A l, v : Scraped(a, l, v)' <=> Scraped(a, l, v)
    BY <1>a DEF Scraped, SyntheticValue
  <2> QED
    BY <1>a, <1>b, <2>1 DEF StagedByScrape
<1>3. ScrapedBy(a)'
  <2>1. \A l, v : Scraped(a, l, v)' <=> Scraped(a, l, v)
    BY <1>a DEF Scraped, SyntheticValue
  <2>2. Recording(a)' <=> Recording(a)
    BY <1>a DEF Recording
  <2>3. Pushed' = Pushed
    BY DEF Pushed
  <2>4. ASSUME NEW r \in DOMAIN series', NEW t \in DOMAIN series'[r].samples,
               series'[r].labels \in SeriesOf(a), series'[r].samples[t] \notin Pushed
        PROVE  /\ t <= ts[a]
               /\ t = ts[a] => Recording(a) /\ Scraped(a, series'[r].labels, series'[r].samples[t])
    <3>1. Old(r, t)
      BY <2>4
    <3>2. /\ r \in DOMAIN series /\ t \in DOMAIN series[r].samples
          /\ series'[r].labels = series[r].labels /\ series'[r].samples[t] = series[r].samples[t]
      BY <3>1 DEF Old, Holds, Evolves
    <3> QED
      BY <1>b, <2>4, <3>2 DEF ScrapedBy
  <2>5. SeriesOf(a)' = SeriesOf(a)
    BY DEF SeriesOf
  <2> QED
    BY <1>a, <2>1, <2>2, <2>3, <2>4, <2>5 DEF ScrapedBy
<1>4. UpOf(a)'
  <2> SUFFICES ASSUME known'[a] PROVE UpOf(a)'
    BY DEF UpOf
  <2>1. known[a] /\ (HasUp(a) => HasUp(a)')
    BY DEF KeptScrape
  <2>2. phase'[a] # "idle" => HasUp(a)'
    BY <2>1 DEF ScrapeInv, UpOf, Kept, KeptScrape
  <2>3. ASSUME phase'[a] \in {"synthetic", "commit"}, syn'[a] > 1 PROVE UpStaged(a)'
    <3>1. UpStaged(a) /\ HasUp(a)'
      BY <2>1, <2>2, <2>3 DEF ScrapeInv, UpOf, Kept, KeptScrape
    <3>2. PICK i \in DOMAIN pending[a] : /\ pending[a][i].l = Synthetic[a][1] /\ pending[a][i].t = ts[a]
                                         /\ pending[a][i].ref \in DOMAIN series
      BY <3>1 DEF UpStaged
    <3>3. series[pending[a][i].ref].labels = Synthetic[a][1]
      BY <3>2 DEF BatchInv, RefsOfBatch
    <3>4. PICK q \in DOMAIN series' : series'[q].labels = Synthetic[a][1]
      BY <3>1 DEF HasUp, RefsOf
    <3>5. pending[a][i].ref \in DOMAIN series'
      BY <3>2, <3>3, <3>4, StillOne
    <3> QED
      BY <3>2, <3>5 DEF UpStaged, Kept, KeptScrape
  <2>4. ASSUME phase'[a] = "idle", err'[a] # "commit"
        PROVE  Stored(<<Synthetic[a][1], ts[a]>>, Value)' \/ ts'[a] < cutoff'
    <3> PICK s : s = <<Synthetic[a][1], ts[a]>>
      OBVIOUS
    <3>1. s[2] \in Int /\ (Stored(s, Value) \/ s[2] < cutoff)
      BY <1>0, <1>a, <1>b, <2>1, <2>4 DEF UpOf
    <3>2. Stored(s, Value)' \/ s[2] < cutoff'
      BY <3>1, StoredStays
    <3> QED
      BY <1>a, <3>2 DEF Stored, RefsOf
  <2> QED
    BY <2>2, <2>3, <2>4 DEF UpOf
<1> QED
  BY <1>1, <1>2, <1>3, <1>4 DEF ScrapeInv

LEMMA PushStays ==
    ASSUME IngestTypeOK, Evolves, NEW a \in Request, Kept(a), PushInv(a),
           \A r \in DOMAIN series' : \A t \in DOMAIN series'[r].samples :
               Old(r, t) \/ series'[r].samples[t] # ValueOf[a]
    PROVE  PushInv(a)'
<1>1. ControlOfPush(a)' /\ StagedByPush(a)'
  BY DEF PushInv, ControlOfPush, StagedByPush, Kept
<1>2. PushedBy(a)'
  <2> SUFFICES ASSUME NEW r \in DOMAIN series', NEW t \in DOMAIN series'[r].samples,
                      series'[r].samples[t] = ValueOf[a]
               PROVE  <<series'[r].labels, t>> \in batch[a] /\ Accepting(a)
    BY DEF PushedBy, Accepting, Kept
  <2>1. /\ r \in DOMAIN series /\ t \in DOMAIN series[r].samples
        /\ series'[r].labels = series[r].labels /\ series'[r].samples[t] = series[r].samples[t]
    BY DEF Old, Holds, Evolves
  <2> QED
    BY <2>1 DEF PushInv, PushedBy
<1> QED
  BY <1>1, <1>2 DEF PushInv

\* The sample that a goroutine applies is its own.
LEMMA OthersStay ==
    ASSUME IngestInv, IngestTypeOK', Evolves, NEW a \in Appender,
           \A b \in Appender \ {a} : Kept(b), \A b \in Target \ {a} : KeptScrape(b),
           AllOld \/ (pc[a] = "apply" /\ NewIs(pending[a][idx[a]]))
    PROVE  /\ \A b \in Appender \ {a} : BatchInv(b)'
           /\ \A b \in Target \ {a} : ScrapeInv(b)'
           /\ \A b \in Request \ {a} : PushInv(b)'
<1> DEFINE e == pending[a][idx[a]]
<1>1. IngestTypeOK /\ HeadInv /\ BatchInv(a)
  BY DEF IngestInv
<1>2. ASSUME NewIs(e), pc[a] = "apply"
      PROVE  /\ a \in Target => e.l \in SeriesOf(a) /\ e.v \in {0, 1}
             /\ a \in Request => e.v = ValueOf[a]
             /\ \A r \in DOMAIN series : r = e.ref => series[r].labels = e.l
  BY <1>1, <1>2 DEF IngestInv, BatchInv, ControlOf, RefsOfBatch, ScrapeInv, StagedByScrape, PushInv, StagedByPush
<1> HIDE DEF e
<1>3. \A r \in DOMAIN series' : \A t \in DOMAIN series'[r].samples :
        Old(r, t) \/ (/\ NewIs(e) /\ pc[a] = "apply"
                      /\ r \in DOMAIN series /\ r = e.ref /\ series'[r].samples[t] = e.v
                      /\ series'[r].labels = series[r].labels)
  BY DEF AllOld, NewIs, e, Evolves
<1>4. ASSUME NEW b \in Appender \ {a} PROVE BatchInv(b)'
  BY <1>1, <1>4, BatchStays DEF IngestInv
<1>5. ASSUME NEW b \in Target \ {a} PROVE ScrapeInv(b)'
  <2>1. b \in Appender
    BY WritersAssumption
  <2>2. ASSUME NEW r \in DOMAIN series', NEW t \in DOMAIN series'[r].samples
        PROVE  Old(r, t) \/ series'[r].labels \notin SeriesOf(b) \/ series'[r].samples[t] \in Pushed
    <3>1. CASE a \in Target
      <4>1. SeriesOf(a) \cap SeriesOf(b) = {}
        BY <3>1, TargetAssumption
      <4> QED
        BY <1>2, <1>3, <3>1, <4>1
    <3>2. CASE a \in Request
      BY <1>2, <1>3, <3>2 DEF Pushed
    <3> QED
      BY <3>1, <3>2, WritersAssumption
  <2> QED
    BY <1>1, <2>1, <2>2, ScrapeStays DEF IngestInv
<1>6. ASSUME NEW b \in Request \ {a} PROVE PushInv(b)'
  <2>1. b \in Appender
    BY WritersAssumption
  <2>2. ASSUME NEW r \in DOMAIN series', NEW t \in DOMAIN series'[r].samples
        PROVE  Old(r, t) \/ series'[r].samples[t] # ValueOf[b]
    <3>1. CASE a \in Target
      <4>1. ValueOf[b] \notin {0, 1}
        BY ValueAssumption
      <4> QED
        BY <1>2, <1>3, <3>1, <4>1
    <3>2. CASE a \in Request
      <4>1. ValueOf[b] # ValueOf[a]
        BY <3>2, ValueAssumption
      <4> QED
        BY <1>2, <1>3, <3>2, <4>1
    <3> QED
      BY <3>1, <3>2, WritersAssumption
  <2> QED
    BY <1>1, <2>1, <2>2, PushStays DEF IngestInv
<1> QED
  BY <1>4, <1>5, <1>6

-----------------------------------------------------------------------------
(* What every step of one goroutine has in common *)

LEMMA FrameIs ==
    ASSUME IngestTypeOK, NEW a \in Appender, Evolves, cutoff' = cutoff, clock <= clock', Alone(a),
           \A b \in Appender \ {a} :
             /\ phase'[b] = phase[b] /\ todo'[b] = todo[b] /\ err'[b] = err[b] /\ batch'[b] = batch[b]
             /\ clean'[b] => clean[b] /\ \A i \in DOMAIN pending[b] :
                  pending[b][i].ref \in DOMAIN series => pending[b][i].ref \in DOMAIN series',
           \A b \in Target \ {a} :
             ts'[b] = ts[b] /\ syn'[b] = syn[b] /\ health'[b] = health[b] /\ known'[b] = known[b]
    PROVE  (\A b \in Appender \ {a} : Kept(b)) /\ (\A b \in Target \ {a} : KeptScrape(b))
<1>1. ASSUME NEW b \in Appender \ {a} PROVE Kept(b)
  BY DEF Kept, Alone
<1>2. ASSUME NEW b \in Target \ {a} PROVE KeptScrape(b)
  <2>1. Kept(b)
    BY <1>1, WritersAssumption
  <2>2. HasUp(b) => HasUp(b)'
    BY HasUpStays
  <2>3. known'[b] => known[b]
    OBVIOUS
  <2> QED
    BY <2>1, <2>2, <2>3 DEF KeptScrape
<1> QED
  BY <1>1, <1>2

\* The counted samples change only when a request is answered.
LEMMA CountStays ==
    ASSUME CountInv, NEW a \in Appender, \A b \in Appender \ {a} : Kept(b), source' = source,
           phase[a] # "done", phase'[a] # "done"
    PROVE  CountInv'
<1>1. Accepted' = Accepted
  <2>1. \A b \in Request : (phase'[b] = "done" /\ err'[b] = "") <=> (phase[b] = "done" /\ err[b] = "")
    BY WritersAssumption DEF Kept
  <2>2. \A b \in Request : phase[b] = "done" => batch'[b] = batch[b]
    BY WritersAssumption DEF Kept
  <2>3. {b \in Request : phase'[b] = "done" /\ err'[b] = ""} = {b \in Request : phase[b] = "done" /\ err[b] = ""}
    BY <2>1
  <2> DEFINE D == {b \in Request : phase[b] = "done" /\ err[b] = ""}
  <2>4. {{b} \X batch'[b] : b \in D} = {{b} \X batch[b] : b \in D}
    BY <2>2
  <2> QED
    BY <2>3, <2>4 DEF Accepted
<1> QED
  BY <1>1 DEF CountInv

\* A step of one goroutine keeps the invariant if it does so for that goroutine.
LEMMA StepOf ==
    ASSUME IngestInv, IngestTypeOK', Evolves, NEW a \in Appender,
           \A b \in Appender \ {a} : Kept(b), \A b \in Target \ {a} : KeptScrape(b),
           AllOld \/ (pc[a] = "apply" /\ NewIs(pending[a][idx[a]])),
           BatchInv(a)', a \in Target => ScrapeInv(a)', a \in Request => PushInv(a)', CountInv'
    PROVE  IngestInv'
<1>1. HeadInv'
  BY HeadKeepsInv DEF IngestInv
<1>2. /\ \A b \in Appender \ {a} : BatchInv(b)'
      /\ \A b \in Target \ {a} : ScrapeInv(b)'
      /\ \A b \in Request \ {a} : PushInv(b)'
  BY OthersStay
<1> QED
  BY <1>1, <1>2 DEF IngestInv

LEMMA QuietIs ==
    ASSUME IngestTypeOK, UNCHANGED storeVars, cutoff' = cutoff
    PROVE  /\ StoreTypeOK' /\ Evolves /\ AllOld /\ series' = series /\ lastRef' = lastRef
           /\ pc' = pc /\ pending' = pending /\ idx' = idx /\ \A a \in Appender : Alone(a)
<1>1. UNCHANGED headVars /\ UNCHANGED batchVars
  BY DEF storeVars
<1>2. Evolves /\ AllOld
  BY <1>1, SameEvolves
<1>3. StoreTypeOK'
  BY <1>1, HeadKept DEF IngestTypeOK, StoreTypeOK, batchVars
<1> QED
  BY <1>1, <1>2, <1>3 DEF headVars, batchVars, Alone

\* A step of a target that leaves the engine alone, and the clock.
LEMMA QuietScrapeIs ==
    ASSUME IngestInv, NEW a \in Target, UNCHANGED <<storeVars, cutoff, source>>, clock <= clock',
           \A b \in Appender \ {a} :
             /\ phase'[b] = phase[b] /\ todo'[b] = todo[b] /\ err'[b] = err[b] /\ batch'[b] = batch[b]
             /\ clean'[b] = clean[b],
           \A b \in Target \ {a} :
             ts'[b] = ts[b] /\ syn'[b] = syn[b] /\ health'[b] = health[b] /\ known'[b] = known[b],
           phase'[a] # "done", IngestTypeOK', BatchInv(a)', ScrapeInv(a)'
    PROVE  IngestInv'
<1>1. /\ Evolves /\ AllOld /\ series' = series /\ Alone(a)
      /\ IngestTypeOK /\ CountInv /\ ScrapeInv(a) /\ a \in Appender
  BY QuietIs, WritersAssumption DEF IngestInv
<1>2. phase[a] # "done"
  BY <1>1 DEF ScrapeInv, ControlOfScrape
<1>3. (\A b \in Appender \ {a} : Kept(b)) /\ (\A b \in Target \ {a} : KeptScrape(b))
  BY <1>1, FrameIs
<1>4. CountInv'
  BY <1>1, <1>2, <1>3, CountStays
<1>5. a \notin Request
  BY WritersAssumption
<1> QED
  BY <1>1, <1>3, <1>4, <1>5, StepOf

LEMMA ScrapeStartInv ==
    ASSUME IngestInv, NEW a \in Target, ScrapeStart(a)
    PROVE  IngestInv'
<1>0. IngestTypeOK /\ BatchInv(a) /\ ScrapeInv(a) /\ a \in Appender
  BY WritersAssumption DEF IngestInv
<1>1. PICK now \in ts[a] + 1 .. MaxTime : clock <= now /\ clock' = now /\ ts' = [ts EXCEPT ![a] = now]
  BY DEF ScrapeStart
<1>2. ts[a] \in Nat /\ now \in 0 .. MaxTime /\ now \in Nat /\ ts[a] < now /\ clock \in Int
  BY <1>0, <1>1, Numbers, ClockAssumption
<1>3. /\ phase[a] = "idle" /\ phase' = [phase EXCEPT ![a] = "fetch"] /\ syn' = [syn EXCEPT ![a] = 1]
      /\ err' = [err EXCEPT ![a] = ""] /\ batch' = [batch EXCEPT ![a] = {}]
      /\ known' = [known EXCEPT ![a] = HasUp(a)] /\ clean' = [clean EXCEPT ![a] = TRUE]
      /\ UNCHANGED <<storeVars, cutoff, todo, health, source>>
  BY DEF ScrapeStart, Enters
<1>4. StoreTypeOK' /\ series' = series /\ pc' = pc /\ pending' = pending
  BY <1>0, <1>3, QuietIs
<1>5. IngestTypeOK'
  <2>1. HasUp(a) \in BOOLEAN
    BY DEF HasUp
  <2>2. clock' \in 0 .. MaxTime /\ ts' \in [Target -> 0 .. MaxTime] /\ cutoff' \in MinT \cup {-1}
    BY <1>0, <1>1, <1>2, <1>3 DEF IngestTypeOK
  <2>3. /\ phase' \in [Appender -> {"idle", "fetch", "append", "synthetic", "commit", "record", "done"}]
        /\ err' \in [Appender -> Error]
    BY <1>0, <1>3 DEF IngestTypeOK, Error
  <2>4. syn' \in [Target -> 1 .. 4]
    <3>1. syn \in [Target -> 1 .. 4] /\ syn' = [syn EXCEPT ![a] = 1]
      BY <1>0, <1>3 DEF IngestTypeOK
    <3>2. 1 \in 1 .. 4
      OBVIOUS
    <3> QED
      BY <3>1, <3>2
  <2>6. batch' \in [Appender -> SUBSET (Label \X Time)]
    <3> DEFINE P == Label \X Time
    <3>1. batch \in [Appender -> SUBSET P]
      BY <1>0 DEF IngestTypeOK
    <3> HIDE DEF P
    <3>2. batch' \in [Appender -> SUBSET P]
      BY <1>3, <3>1
    <3> QED
      BY <3>2 DEF P
  <2>5. known' \in [Target -> BOOLEAN] /\ clean' \in [Appender -> BOOLEAN]
    BY <1>0, <1>3, <2>1 DEF IngestTypeOK
  <2> QED
    BY <1>0, <1>3, <1>4, <2>2, <2>3, <2>4, <2>5, <2>6 DEF IngestTypeOK
<1>6. /\ phase'[a] = "fetch" /\ syn'[a] = 1 /\ err'[a] = "" /\ batch'[a] = {} /\ known'[a] = HasUp(a)
      /\ ts'[a] = now
  BY <1>0, <1>1, <1>3 DEF IngestTypeOK
<1>7. todo[a] = {} /\ pc[a] = "stage" /\ pending[a] = <<>>
  BY <1>0, <1>3 DEF BatchInv, ControlOf
<1>8. BatchInv(a)'
  <2>1. RefsOfBatch(a)' /\ AppliedOf(a)'
    BY <1>4, <1>7 DEF RefsOfBatch, AppliedOf
  <2>2. ControlOf(a)'
    BY <1>3, <1>4, <1>6, <1>7 DEF ControlOf
  <2>3. CompleteOf(a)' /\ StoredOf(a)'
    BY <1>6 DEF CompleteOf, StoredOf
  <2> QED
    BY <2>1, <2>2, <2>3 DEF BatchInv
<1>9. ScrapeInv(a)'
  <2>1. ControlOfScrape(a)'
    <3>1. ts'[a] > 0 /\ ts'[a] <= clock'
      <4>1. ts'[a] = clock' /\ ts'[a] = now /\ now > 0
        <5>1. now > 0
          BY <1>2
        <5>2. clock' = now
          BY <1>1
        <5> QED
          BY <1>6, <5>1, <5>2
      <4> QED
        BY <1>2, <4>1
    <3>2. batch'[a] \subseteq Exposed[a] \X {ts'[a]}
      BY <1>6
    <3>3. ts'[a] # 0
      BY <3>1
    <3> QED
      BY <1>6, <3>1, <3>2, <3>3 DEF ControlOfScrape
  <2>2. StagedByScrape(a)'
    BY <1>4, <1>7 DEF StagedByScrape
  <2>3. ScrapedBy(a)'
    <3>1. ASSUME NEW r \in DOMAIN series, NEW t \in DOMAIN series[r].samples,
                 series[r].labels \in SeriesOf(a), series[r].samples[t] \notin Pushed
          PROVE  t <= now /\ t # now
      <4>1. t <= ts[a] /\ t \in Int
        BY <1>0, <3>1, Numbers DEF ScrapeInv, ScrapedBy
      <4> QED
        BY <1>2, <4>1
    <3> QED
      BY <1>4, <1>6, <3>1 DEF ScrapedBy, SeriesOf, Pushed
  <2>4. UpOf(a)'
    BY <1>4, <1>6 DEF UpOf, HasUp, RefsOf
  <2> QED
    BY <2>1, <2>2, <2>3, <2>4 DEF ScrapeInv
<1>10. /\ \A b \in Appender \ {a} :
            /\ phase'[b] = phase[b] /\ todo'[b] = todo[b] /\ err'[b] = err[b] /\ batch'[b] = batch[b]
            /\ clean'[b] = clean[b]
       /\ \A b \in Target \ {a} :
            ts'[b] = ts[b] /\ syn'[b] = syn[b] /\ health'[b] = health[b] /\ known'[b] = known[b]
  BY <1>0, <1>1, <1>3 DEF IngestTypeOK
<1> QED
  BY <1>1, <1>3, <1>5, <1>6, <1>8, <1>9, <1>10, QuietScrapeIs

\* A goroutine that is not about to store, or has not stored, has no sample in the head.
LEMMA NotYetScraped ==
    ASSUME NEW a \in Target, ScrapedBy(a), ~Recording(a), AllOld, Evolves, ts'[a] = ts[a]
    PROVE  ScrapedBy(a)'
<1>1. ASSUME NEW r \in DOMAIN series', NEW t \in DOMAIN series'[r].samples,
             series'[r].labels \in SeriesOf(a), series'[r].samples[t] \notin Pushed
      PROVE  t <= ts[a] /\ t # ts[a]
  <2>1. /\ r \in DOMAIN series /\ t \in DOMAIN series[r].samples
        /\ series'[r].labels = series[r].labels /\ series'[r].samples[t] = series[r].samples[t]
    BY DEF AllOld, Old, Holds, Evolves
  <2> QED
    BY <1>1, <2>1 DEF ScrapedBy
<1>2. SeriesOf(a)' = SeriesOf(a) /\ Pushed' = Pushed
  BY DEF SeriesOf, Pushed
<1> QED
  BY <1>1, <1>2 DEF ScrapedBy

LEMMA NotYetPushed ==
    ASSUME NEW a \in Request, PushedBy(a), ~Accepting(a), AllOld, Evolves
    PROVE  PushedBy(a)'
<1>1. ASSUME NEW r \in DOMAIN series', NEW t \in DOMAIN series'[r].samples
      PROVE  series'[r].samples[t] # ValueOf[a]
  <2>1. /\ r \in DOMAIN series /\ t \in DOMAIN series[r].samples
        /\ series'[r].samples[t] = series[r].samples[t]
    BY DEF AllOld, Old, Holds
  <2> QED
    BY <2>1 DEF PushedBy
<1> QED
  BY <1>1 DEF PushedBy

LEMMA NothingStaged ==
    ASSUME NEW a \in Appender, pending'[a] = <<>>
    PROVE  RefsOfBatch(a)' /\ AppliedOf(a)' /\ (a \in Target => StagedByScrape(a)') /\ StagedByPush(a)'
BY DEF RefsOfBatch, AppliedOf, StagedByScrape, StagedByPush

\* An up series that was there stays there while its target's scrape goes on.
LEMMA UpGoesOn ==
    ASSUME NEW a \in Target, UpOf(a), Evolves, cutoff' = cutoff, known'[a] => known[a], phase[a] # "idle",
           phase'[a] # "idle", phase'[a] = "append" \/ syn'[a] <= 1, syn'[a] \in Int
    PROVE  UpOf(a)'
<1>1. ASSUME known'[a] PROVE HasUp(a)'
  BY <1>1, HasUpStays DEF UpOf
<1>2. ~(phase'[a] \in {"synthetic", "commit"} /\ syn'[a] > 1)
  OBVIOUS
<1> QED
  BY <1>1, <1>2 DEF UpOf

LEMMA FetchedInv ==
    ASSUME IngestInv, NEW a \in Target, Fetched(a)
    PROVE  IngestInv'
<1>0. IngestTypeOK /\ BatchInv(a) /\ ScrapeInv(a) /\ a \in Appender
  BY WritersAssumption DEF IngestInv
<1>1. PICK S \in SUBSET Exposed[a] :
        LET tooMany == ScrapeLimit > 0 /\ Cardinality(S) > ScrapeLimit
            samples == {<<l, ts[a]>> : l \in S}
        IN  /\ batch' = [batch EXCEPT ![a] = samples]
            /\ todo' = [todo EXCEPT ![a] = IF tooMany THEN {} ELSE samples]
            /\ err' = [err EXCEPT ![a] = IF tooMany THEN "limit" ELSE ""]
  BY DEF Fetched
<1> DEFINE samples == {<<l, ts[a]>> : l \in S}
           left == IF ScrapeLimit > 0 /\ Cardinality(S) > ScrapeLimit THEN {} ELSE samples
           e == IF ScrapeLimit > 0 /\ Cardinality(S) > ScrapeLimit THEN "limit" ELSE ""
<1>2. /\ batch' = [batch EXCEPT ![a] = samples]
      /\ todo' = [todo EXCEPT ![a] = left]
      /\ err' = [err EXCEPT ![a] = e]
  BY <1>1
<1>3. /\ samples \subseteq Exposed[a] \X {ts[a]} /\ samples \in SUBSET (Label \X Time)
      /\ left \subseteq samples /\ left \in SUBSET (Label \X Time)
      /\ (left # {} => e = "") /\ (e = "" => left = samples) /\ e \in {"", "limit"}
  <2>1. ts[a] \in Time /\ Exposed[a] \subseteq Label
    BY <1>0, ClockAssumption, FiniteAssumption DEF IngestTypeOK
  <2>2. samples \in SUBSET (Label \X Time) /\ samples \subseteq Exposed[a] \X {ts[a]}
    BY <2>1
  <2> QED
    BY <2>2
<1> HIDE DEF samples, left, e
<1>4. /\ phase[a] = "fetch" /\ phase' = [phase EXCEPT ![a] = "append"]
      /\ UNCHANGED <<storeVars, clock, cutoff, source, clean>>
      /\ UNCHANGED <<ts, syn, health, known>>
  BY DEF Fetched, Enters, scrapeVars
<1>5. StoreTypeOK' /\ Evolves /\ AllOld /\ pc' = pc /\ pending' = pending
  BY <1>0, <1>4, QuietIs
<1>6. IngestTypeOK'
  <2>1. phase' \in [Appender -> {"idle", "fetch", "append", "synthetic", "commit", "record", "done"}]
    BY <1>0, <1>4 DEF IngestTypeOK
  <2>2. err' \in [Appender -> Error]
    BY <1>0, <1>2, <1>3 DEF IngestTypeOK, Error
  <2> DEFINE P == SUBSET (Label \X Time)
  <2>3. batch \in [Appender -> P] /\ todo \in [Appender -> P] /\ samples \in P /\ left \in P
    BY <1>0, <1>3 DEF IngestTypeOK
  <2> HIDE DEF P
  <2>4. batch' \in [Appender -> P] /\ todo' \in [Appender -> P]
    BY <1>2, <2>3
  <2> USE DEF P
  <2> QED
    BY <1>0, <1>4, <1>5, <2>1, <2>2, <2>4 DEF IngestTypeOK
<1>7. phase'[a] = "append" /\ batch'[a] = samples /\ todo'[a] = left /\ err'[a] = e
  BY <1>0, <1>2, <1>4 DEF IngestTypeOK
<1>8. pc[a] = "stage" /\ pending[a] = <<>> /\ syn[a] = 1 /\ ts[a] # 0
  BY <1>0, <1>4 DEF BatchInv, ControlOf, ScrapeInv, ControlOfScrape
<1>9. pending'[a] = <<>> /\ pc'[a] = "stage"
  BY <1>5, <1>8
<1>10. BatchInv(a)'
  <2>1. RefsOfBatch(a)' /\ AppliedOf(a)'
    BY <1>9, NothingStaged, <1>0
  <2>2. ControlOf(a)'
    BY <1>3, <1>7, <1>9 DEF ControlOf
  <2>3. CompleteOf(a)' /\ StoredOf(a)'
    BY <1>3, <1>7 DEF CompleteOf, StoredOf
  <2> QED
    BY <2>1, <2>2, <2>3 DEF BatchInv
<1>11. ScrapeInv(a)'
  <2>1. ControlOfScrape(a)'
    <3>1. ts'[a] <= clock' /\ ts'[a] # 0 /\ syn'[a] = 1
      BY <1>0, <1>4, <1>8 DEF ScrapeInv, ControlOfScrape
    <3>2. batch'[a] \subseteq Exposed[a] \X {ts'[a]}
      BY <1>3, <1>4, <1>7
    <3> QED
      BY <1>3, <1>7, <3>1, <3>2 DEF ControlOfScrape
  <2>2. StagedByScrape(a)'
    BY <1>0, <1>9, NothingStaged
  <2>3. ScrapedBy(a)'
    BY <1>0, <1>4, <1>5, NotYetScraped DEF ScrapeInv, Recording
  <2>4. UpOf(a)'
    BY <1>0, <1>4, <1>5, <1>7, <1>8, UpGoesOn DEF ScrapeInv
  <2> QED
    BY <2>1, <2>2, <2>3, <2>4 DEF ScrapeInv
<1>12. /\ \A b \in Appender \ {a} :
            /\ phase'[b] = phase[b] /\ todo'[b] = todo[b] /\ err'[b] = err[b] /\ batch'[b] = batch[b]
            /\ clean'[b] = clean[b]
       /\ \A b \in Target \ {a} :
            ts'[b] = ts[b] /\ syn'[b] = syn[b] /\ health'[b] = health[b] /\ known'[b] = known[b]
  BY <1>0, <1>2, <1>4 DEF IngestTypeOK
<1>13. clock <= clock'
  BY <1>0, <1>4, Numbers
<1> QED
  BY <1>4, <1>6, <1>7, <1>10, <1>11, <1>12, <1>13, QuietScrapeIs

LEMMA FetchFailsInv ==
    ASSUME IngestInv, NEW a \in Target, FetchFails(a)
    PROVE  IngestInv'
<1>0. IngestTypeOK /\ BatchInv(a) /\ ScrapeInv(a) /\ a \in Appender
  BY WritersAssumption DEF IngestInv
<1>1. /\ phase[a] = "fetch" /\ phase' = [phase EXCEPT ![a] = "append"] /\ err' = [err EXCEPT ![a] = "fetch"]
      /\ UNCHANGED <<storeVars, clock, cutoff, todo, source, batch, clean>>
      /\ UNCHANGED <<ts, syn, health, known>>
  BY DEF FetchFails, Enters, scrapeVars
<1>2. StoreTypeOK' /\ Evolves /\ AllOld /\ pc' = pc /\ pending' = pending
  BY <1>0, <1>1, QuietIs
<1>3. IngestTypeOK'
  <2>1. /\ phase' \in [Appender -> {"idle", "fetch", "append", "synthetic", "commit", "record", "done"}]
        /\ err' \in [Appender -> Error]
    BY <1>0, <1>1 DEF IngestTypeOK, Error
  <2> QED
    BY <1>0, <1>1, <1>2, <2>1 DEF IngestTypeOK
<1>4. phase'[a] = "append" /\ err'[a] = "fetch" /\ batch'[a] = batch[a] /\ todo'[a] = todo[a]
  BY <1>0, <1>1 DEF IngestTypeOK
<1>5. /\ pc[a] = "stage" /\ pending[a] = <<>> /\ syn[a] = 1 /\ ts[a] # 0
      /\ batch[a] = {} /\ todo[a] = {} /\ ts[a] <= clock
  BY <1>0, <1>1 DEF BatchInv, ControlOf, ScrapeInv, ControlOfScrape
<1>6. pending'[a] = <<>> /\ pc'[a] = "stage"
  BY <1>2, <1>5
<1>7. BatchInv(a)'
  <2>1. RefsOfBatch(a)' /\ AppliedOf(a)'
    BY <1>0, <1>6, NothingStaged
  <2>2. ControlOf(a)'
    BY <1>4, <1>5, <1>6 DEF ControlOf
  <2>3. CompleteOf(a)' /\ StoredOf(a)'
    BY <1>4 DEF CompleteOf, StoredOf
  <2> QED
    BY <2>1, <2>2, <2>3 DEF BatchInv
<1>8. ScrapeInv(a)'
  <2>1. ControlOfScrape(a)'
    <3>1. ts'[a] <= clock' /\ ts'[a] # 0 /\ syn'[a] = 1 /\ batch'[a] \subseteq Exposed[a] \X {ts'[a]}
      BY <1>1, <1>4, <1>5
    <3> QED
      BY <1>4, <3>1 DEF ControlOfScrape
  <2>2. StagedByScrape(a)'
    BY <1>0, <1>6, NothingStaged
  <2>3. ScrapedBy(a)'
    BY <1>0, <1>1, <1>2, NotYetScraped DEF ScrapeInv, Recording
  <2>4. UpOf(a)'
    BY <1>0, <1>1, <1>2, <1>4, <1>5, UpGoesOn DEF ScrapeInv
  <2> QED
    BY <2>1, <2>2, <2>3, <2>4 DEF ScrapeInv
<1>9. /\ \A b \in Appender \ {a} :
           /\ phase'[b] = phase[b] /\ todo'[b] = todo[b] /\ err'[b] = err[b] /\ batch'[b] = batch[b]
           /\ clean'[b] = clean[b]
      /\ \A b \in Target \ {a} :
           ts'[b] = ts[b] /\ syn'[b] = syn[b] /\ health'[b] = health[b] /\ known'[b] = known[b]
  BY <1>0, <1>1 DEF IngestTypeOK
<1>10. clock <= clock'
  BY <1>0, <1>1, Numbers
<1> QED
  BY <1>1, <1>3, <1>4, <1>7, <1>8, <1>9, <1>10, QuietScrapeIs

LEMMA AppendDoneInv ==
    ASSUME IngestInv, NEW a \in Target, AppendDone(a)
    PROVE  IngestInv'
<1>0. IngestTypeOK /\ BatchInv(a) /\ ScrapeInv(a) /\ a \in Appender
  BY WritersAssumption DEF IngestInv
<1>1. /\ phase[a] = "append" /\ todo[a] = {} /\ pc[a] = "stage"
      /\ phase' = [phase EXCEPT ![a] = "synthetic"]
      /\ UNCHANGED <<storeVars, clock, cutoff, todo, err, source, batch, clean>>
      /\ UNCHANGED <<ts, syn, health, known>>
  BY DEF AppendDone, Enters, scrapeVars
<1>2. StoreTypeOK' /\ Evolves /\ AllOld /\ pc' = pc /\ pending' = pending /\ idx' = idx /\ series' = series /\ lastRef' = lastRef
  BY <1>0, <1>1, QuietIs
<1>3. IngestTypeOK'
  <2>1. phase' \in [Appender -> {"idle", "fetch", "append", "synthetic", "commit", "record", "done"}]
    BY <1>0, <1>1 DEF IngestTypeOK
  <2> QED
    BY <1>0, <1>1, <1>2, <2>1 DEF IngestTypeOK
<1>4. phase'[a] = "synthetic"
  BY <1>0, <1>1 DEF IngestTypeOK
<1>5. syn[a] = 1
  BY <1>0, <1>1 DEF ScrapeInv, ControlOfScrape
<1>6. BatchInv(a)'
  <2>1. RefsOfBatch(a)' /\ AppliedOf(a)'
    BY <1>0, <1>1, <1>2 DEF BatchInv, RefsOfBatch, AppliedOf, Holds
  <2>2. ControlOf(a)'
    BY <1>0, <1>1, <1>2, <1>4 DEF BatchInv, ControlOf
  <2>3. CompleteOf(a)' /\ StoredOf(a)'
    BY <1>0, <1>1, <1>2, <1>4 DEF BatchInv, CompleteOf, StoredOf
  <2> QED
    BY <2>1, <2>2, <2>3 DEF BatchInv
<1>7. ScrapeInv(a)'
  <2>1. ControlOfScrape(a)'
    BY <1>0, <1>1, <1>4 DEF ScrapeInv, ControlOfScrape
  <2>2. StagedByScrape(a)'
    BY <1>0, <1>1, <1>2 DEF ScrapeInv, StagedByScrape, Scraped, SyntheticValue
  <2>3. ScrapedBy(a)'
    BY <1>0, <1>1, <1>2, NotYetScraped DEF ScrapeInv, Recording
  <2>4. UpOf(a)'
    BY <1>0, <1>1, <1>2, <1>4, <1>5, UpGoesOn DEF ScrapeInv
  <2> QED
    BY <2>1, <2>2, <2>3, <2>4 DEF ScrapeInv
<1>8. /\ \A b \in Appender \ {a} :
           /\ phase'[b] = phase[b] /\ todo'[b] = todo[b] /\ err'[b] = err[b] /\ batch'[b] = batch[b]
           /\ clean'[b] = clean[b]
      /\ \A b \in Target \ {a} :
           ts'[b] = ts[b] /\ syn'[b] = syn[b] /\ health'[b] = health[b] /\ known'[b] = known[b]
  BY <1>0, <1>1 DEF IngestTypeOK
<1>9. clock <= clock'
  BY <1>0, <1>1, Numbers
<1> QED
  BY <1>1, <1>3, <1>4, <1>6, <1>7, <1>8, <1>9, QuietScrapeIs

\* A step of a request that leaves the engine alone.
LEMMA QuietPushIs ==
    ASSUME IngestInv, NEW a \in Request, UNCHANGED <<storeVars, clock, cutoff>>, UNCHANGED <<ts, syn, health, known>>,
           \A b \in Appender \ {a} :
             /\ phase'[b] = phase[b] /\ todo'[b] = todo[b] /\ err'[b] = err[b] /\ batch'[b] = batch[b]
             /\ clean'[b] = clean[b],
           IngestTypeOK', BatchInv(a)', PushInv(a)',
           (\A b \in Appender \ {a} : Kept(b)) => CountInv'
    PROVE  IngestInv'
<1>1. /\ Evolves /\ AllOld /\ series' = series /\ Alone(a)
      /\ IngestTypeOK /\ a \in Appender /\ a \notin Target
  BY QuietIs, WritersAssumption DEF IngestInv
<1>2. clock <= clock'
  BY <1>1, Numbers
<1>3. (\A b \in Appender \ {a} : Kept(b)) /\ (\A b \in Target \ {a} : KeptScrape(b))
  BY <1>1, <1>2, FrameIs
<1> QED
  BY <1>1, <1>3, StepOf

LEMMA PushStartInv ==
    ASSUME IngestInv, NEW a \in Request, PushStart(a)
    PROVE  IngestInv'
<1>0. IngestTypeOK /\ BatchInv(a) /\ PushInv(a) /\ a \in Appender
  BY WritersAssumption DEF IngestInv
<1>1. PICK B \in Batches[a] :
        LET tooMany == PushLimit > 0 /\ Cardinality(B) > PushLimit
        IN  /\ batch' = [batch EXCEPT ![a] = B]
            /\ todo' = [todo EXCEPT ![a] = IF tooMany THEN {} ELSE B]
            /\ err' = [err EXCEPT ![a] = IF tooMany THEN "limit" ELSE ""]
            /\ Enters(a, IF tooMany THEN "record" ELSE "append")
  BY DEF PushStart
<1> DEFINE tooMany == PushLimit > 0 /\ Cardinality(B) > PushLimit
           left == IF tooMany THEN {} ELSE B
           e == IF tooMany THEN "limit" ELSE ""
           p == IF tooMany THEN "record" ELSE "append"
<1>2. /\ batch' = [batch EXCEPT ![a] = B] /\ todo' = [todo EXCEPT ![a] = left]
      /\ err' = [err EXCEPT ![a] = e] /\ phase' = [phase EXCEPT ![a] = p]
  BY <1>1 DEF Enters
<1>3. /\ B \in SUBSET (Label \X Time) /\ left \in SUBSET (Label \X Time) /\ left \subseteq B
      /\ \/ p = "record" /\ e = "limit" /\ left = {}
         \/ p = "append" /\ e = "" /\ left = B
  BY FiniteAssumption
<1> HIDE DEF tooMany, left, e, p
<1>4. phase[a] = "idle" /\ UNCHANGED <<storeVars, clock, cutoff, source, clean>> /\ UNCHANGED <<ts, syn, health, known>>
  BY DEF PushStart, scrapeVars
<1>5. StoreTypeOK' /\ Evolves /\ AllOld /\ pc' = pc /\ pending' = pending
  BY <1>0, <1>4, QuietIs
<1>6. IngestTypeOK'
  <2>1. phase' \in [Appender -> {"idle", "fetch", "append", "synthetic", "commit", "record", "done"}]
    BY <1>0, <1>2, <1>3 DEF IngestTypeOK
  <2>2. err' \in [Appender -> Error]
    BY <1>0, <1>2, <1>3 DEF IngestTypeOK, Error
  <2> DEFINE P == SUBSET (Label \X Time)
  <2>3. batch \in [Appender -> P] /\ todo \in [Appender -> P] /\ B \in P /\ left \in P
    BY <1>0, <1>3 DEF IngestTypeOK
  <2> HIDE DEF P
  <2>4. batch' \in [Appender -> P] /\ todo' \in [Appender -> P]
    BY <1>2, <2>3
  <2> USE DEF P
  <2> QED
    BY <1>0, <1>4, <1>5, <2>1, <2>2, <2>4 DEF IngestTypeOK
<1>7. phase'[a] = p /\ batch'[a] = B /\ todo'[a] = left /\ err'[a] = e
  BY <1>0, <1>2 DEF IngestTypeOK
<1>8. pc[a] = "stage" /\ pending[a] = <<>>
  BY <1>0, <1>4 DEF BatchInv, ControlOf
<1>9. pending'[a] = <<>> /\ pc'[a] = "stage"
  BY <1>5, <1>8
<1>10. BatchInv(a)'
  <2>1. RefsOfBatch(a)' /\ AppliedOf(a)'
    BY <1>0, <1>9, NothingStaged
  <2>2. ControlOf(a)'
    BY <1>3, <1>7, <1>9 DEF ControlOf
  <2>3. CompleteOf(a)' /\ StoredOf(a)'
    BY <1>3, <1>7 DEF CompleteOf, StoredOf
  <2> QED
    BY <2>1, <2>2, <2>3 DEF BatchInv
<1>11. PushInv(a)'
  <2>1. ControlOfPush(a)'
    BY <1>3, <1>7 DEF ControlOfPush
  <2>2. StagedByPush(a)'
    BY <1>0, <1>9, NothingStaged
  <2>3. PushedBy(a)'
    BY <1>0, <1>4, <1>5, NotYetPushed DEF PushInv, Accepting
  <2> QED
    BY <2>1, <2>2, <2>3 DEF PushInv
<1>12. \A b \in Appender \ {a} :
         /\ phase'[b] = phase[b] /\ todo'[b] = todo[b] /\ err'[b] = err[b] /\ batch'[b] = batch[b]
         /\ clean'[b] = clean[b]
  BY <1>0, <1>2, <1>4 DEF IngestTypeOK
<1>13. (\A b \in Appender \ {a} : Kept(b)) => CountInv'
  BY <1>0, <1>3, <1>4, <1>7, CountStays DEF IngestInv
<1> QED
  BY <1>4, <1>6, <1>10, <1>11, <1>12, <1>13, QuietPushIs

LEMMA Sums == \A n, m \in Nat : n + m - 0 = n + m /\ 1 * n = n /\ n + m \in Nat /\ n + 0 = n /\ n + 1 \in Nat
OBVIOUS

\* The samples of one more request are accepted, and counted.
LEMMA OneMore ==
    ASSUME CountInv, NEW a \in Request, phase[a] # "done", phase'[a] = "done", err'[a] = "", batch'[a] = batch[a],
           \A b \in Appender \ {a} : Kept(b), IsFiniteSet(batch[a])
    PROVE  IsFiniteSet(Accepted') /\ Cardinality(Accepted') = Cardinality(Accepted) + Cardinality(batch[a])
<1> DEFINE mine == {a} \X batch[a]
<1>1. \A x : x \in Accepted <=> \E b \in Request : phase[b] = "done" /\ err[b] = "" /\ x \in {b} \X batch[b]
  BY DEF Accepted
<1>2. \A x : x \in Accepted' <=> \E b \in Request : phase'[b] = "done" /\ err'[b] = "" /\ x \in {b} \X batch'[b]
  BY DEF Accepted
<1>3. \A b \in Request \ {a} : phase'[b] = phase[b] /\ err'[b] = err[b] /\ batch'[b] = batch[b]
  BY WritersAssumption DEF Kept
<1>4. Accepted' = Accepted \cup mine
  <2>1. ASSUME NEW x \in Accepted' PROVE x \in Accepted \cup mine
    <3>1. PICK b \in Request : phase'[b] = "done" /\ err'[b] = "" /\ x \in {b} \X batch'[b]
      BY <1>2
    <3>2. CASE b = a
      BY <3>1, <3>2
    <3>3. CASE b # a
      BY <1>1, <1>3, <3>1, <3>3
    <3> QED
      BY <3>2, <3>3
  <2>2. ASSUME NEW x \in Accepted PROVE x \in Accepted'
    <3>1. PICK b \in Request : phase[b] = "done" /\ err[b] = "" /\ x \in {b} \X batch[b]
      BY <1>1
    <3>2. b # a
      BY <3>1
    <3> QED
      BY <1>2, <1>3, <3>1, <3>2
  <2>3. ASSUME NEW x \in mine PROVE x \in Accepted'
    <3>1. x \in {a} \X batch'[a]
      OBVIOUS
    <3> QED
      BY <1>2, <3>1
  <2> HIDE DEF mine
  <2> QED
    BY <2>1, <2>2, <2>3
<1>5. Accepted \cap mine = {}
  <2>1. ASSUME NEW x \in Accepted PROVE x \notin mine
    <3>1. PICK b \in Request : phase[b] = "done" /\ err[b] = "" /\ x \in {b} \X batch[b]
      BY <1>1
    <3> QED
      BY <3>1
  <2> QED
    BY <2>1
<1>6. IsFiniteSet(mine) /\ Cardinality(mine) = Cardinality(batch[a])
  <2>1. IsFiniteSet({a}) /\ Cardinality({a}) = 1
    BY FS_Singleton
  <2>2. IsFiniteSet(mine) /\ Cardinality(mine) = 1 * Cardinality(batch[a])
    BY <2>1, FS_Product
  <2>3. PICK n \in Nat : n = Cardinality(batch[a])
    BY FS_CardinalityType
  <2>4. 1 * n = n
    BY Sums
  <2> QED
    BY <2>2, <2>3, <2>4
<1>7. IsFiniteSet(Accepted)
  BY DEF CountInv
<1> HIDE DEF mine
<1>8. IsFiniteSet(Accepted \cup mine) /\ Cardinality(Accepted \cup mine) = Cardinality(Accepted) + Cardinality(mine) - Cardinality(Accepted \cap mine)
  BY <1>6, <1>7, FS_Union
<1>9. Cardinality(Accepted \cap mine) = 0 /\ Cardinality(Accepted) \in Nat /\ Cardinality(mine) \in Nat
  BY <1>5, <1>6, <1>7, FS_EmptySet, FS_CardinalityType
<1>10. Cardinality(Accepted \cup mine) = Cardinality(Accepted) + Cardinality(mine)
  <2> PICK n \in Nat, m \in Nat : n = Cardinality(Accepted) /\ m = Cardinality(mine)
    BY <1>9
  <2>1. n + m - 0 = n + m
    BY Sums
  <2> QED
    BY <1>8, <1>9, <2>1
<1> QED
  BY <1>4, <1>6, <1>8, <1>10

LEMMA PushReturnsInv ==
    ASSUME IngestInv, NEW a \in Request, PushReturns(a)
    PROVE  IngestInv'
<1>0. IngestTypeOK /\ BatchInv(a) /\ PushInv(a) /\ a \in Appender /\ CountInv
  BY WritersAssumption DEF IngestInv
<1>1. /\ \/ phase[a] = "record"
         \/ phase[a] = "append" /\ err[a] = "append" /\ pc[a] = "stage"
      /\ source' = [pushes  |-> source.pushes + 1,
                    samples |-> source.samples + (IF err[a] = "" THEN Cardinality(batch[a]) ELSE 0),
                    error   |-> err[a]]
      /\ phase' = [phase EXCEPT ![a] = "done"]
      /\ UNCHANGED <<storeVars, clock, cutoff, todo, err, batch, clean>>
      /\ UNCHANGED <<ts, syn, health, known>>
  BY DEF PushReturns, Enters, scrapeVars
<1>2. StoreTypeOK' /\ Evolves /\ AllOld /\ pc' = pc /\ pending' = pending /\ series' = series /\ cutoff' = cutoff
  BY <1>0, <1>1, QuietIs
<1>3. batch[a] \in Batches[a] /\ IsFiniteSet(batch[a]) /\ Cardinality(batch[a]) \in Nat
  <2>1. batch[a] \in Batches[a]
    BY <1>0, <1>1 DEF PushInv, ControlOfPush
  <2> QED
    BY <2>1, FiniteAssumption, FS_CardinalityType
<1>4. IngestTypeOK'
  <2>1. phase' \in [Appender -> {"idle", "fetch", "append", "synthetic", "commit", "record", "done"}]
    BY <1>0, <1>1 DEF IngestTypeOK
  <2>2. source' \in [pushes : Nat, samples : Nat, error : Error]
    <3>1. source \in [pushes : Nat, samples : Nat, error : Error] /\ err[a] \in Error
      BY <1>0 DEF IngestTypeOK
    <3>2. source.pushes + 1 \in Nat /\ source.samples + (IF err[a] = "" THEN Cardinality(batch[a]) ELSE 0) \in Nat
      <4>1. PICK n \in Nat : n = Cardinality(batch[a])
        BY <1>3
      <4>2. source.pushes \in Nat /\ source.samples \in Nat
        BY <3>1
      <4> QED
        BY <4>1, <4>2, Sums
    <3> QED
      BY <1>1, <3>1, <3>2
  <2> QED
    BY <1>0, <1>1, <1>2, <2>1, <2>2 DEF IngestTypeOK
<1>5. phase'[a] = "done" /\ batch'[a] = batch[a] /\ todo'[a] = todo[a] /\ err'[a] = err[a] /\ clean'[a] = clean[a]
  BY <1>0, <1>1 DEF IngestTypeOK
<1>6. pending[a] = <<>> /\ pc[a] = "stage" /\ todo[a] = {} /\ (phase[a] = "append" => err[a] # "")
  BY <1>0, <1>1 DEF BatchInv, ControlOf
<1>7. pending'[a] = <<>> /\ pc'[a] = "stage"
  BY <1>2, <1>6
<1>8. BatchInv(a)'
  <2>1. RefsOfBatch(a)' /\ AppliedOf(a)'
    BY <1>0, <1>7, NothingStaged
  <2>2. ControlOf(a)'
    BY <1>5, <1>6, <1>7 DEF ControlOf
  <2>3. CompleteOf(a)'
    BY <1>5 DEF CompleteOf
  <2>4. StoredOf(a)'
    BY <1>0, <1>1, <1>2, <1>5, <1>6 DEF BatchInv, StoredOf, Stored, RefsOf, Expired
  <2> QED
    BY <2>1, <2>2, <2>3, <2>4 DEF BatchInv
<1>9. PushInv(a)'
  <2>1. ControlOfPush(a)'
    BY <1>3, <1>5 DEF ControlOfPush
  <2>2. StagedByPush(a)'
    BY <1>0, <1>7, NothingStaged
  <2>3. PushedBy(a)'
    BY <1>0, <1>1, <1>2, <1>5 DEF PushInv, PushedBy, Accepting
  <2> QED
    BY <2>1, <2>2, <2>3 DEF PushInv
<1>10. \A b \in Appender \ {a} :
         /\ phase'[b] = phase[b] /\ todo'[b] = todo[b] /\ err'[b] = err[b] /\ batch'[b] = batch[b]
         /\ clean'[b] = clean[b]
  BY <1>0, <1>1 DEF IngestTypeOK
<1>11. ASSUME \A b \in Appender \ {a} : Kept(b) PROVE CountInv'
  <2>1. CASE err[a] = ""
    <3>1. source'.samples = source.samples + Cardinality(batch[a])
      BY <1>1, <2>1
    <3>2. IsFiniteSet(Accepted') /\ Cardinality(Accepted') = Cardinality(Accepted) + Cardinality(batch[a])
      BY <1>0, <1>1, <1>3, <1>5, <1>11, <2>1, OneMore
    <3> QED
      BY <1>0, <3>1, <3>2 DEF CountInv
  <2>2. CASE err[a] # ""
    <3>1. source'.samples = source.samples
      <4>1. source.samples \in Nat
        BY <1>0 DEF IngestTypeOK
      <4>2. source'.samples = source.samples + 0
        BY <1>1, <2>2
      <4> QED
        BY <4>1, <4>2
    <3>2. \A b \in Request : (phase'[b] = "done" /\ err'[b] = "") <=> (phase[b] = "done" /\ err[b] = "")
      BY <1>1, <1>5, <1>10, <2>2, WritersAssumption
    <3>3. {b \in Request : phase'[b] = "done" /\ err'[b] = ""} = {b \in Request : phase[b] = "done" /\ err[b] = ""}
      BY <3>2
    <3>4. Accepted' = Accepted
      BY <1>1, <3>3 DEF Accepted
    <3> QED
      BY <1>0, <3>1, <3>4 DEF CountInv
  <2> QED
    BY <2>1, <2>2
<1> QED
  BY <1>1, <1>4, <1>8, <1>9, <1>10, <1>11, QuietPushIs

-----------------------------------------------------------------------------
(* Append *)

LEMMA AppendIs ==
    ASSUME NEW S, NEW s \in Seq(S), NEW e \in S
    PROVE  /\ DOMAIN s \subseteq DOMAIN Append(s, e)
           /\ \A i \in DOMAIN s : Append(s, e)[i] = s[i]
           /\ \A i \in DOMAIN Append(s, e) \ DOMAIN s : Append(s, e)[i] = e
           /\ \E i \in DOMAIN Append(s, e) : Append(s, e)[i] = e
<1>1. DOMAIN s = 1 .. Len(s) /\ DOMAIN Append(s, e) = 1 .. Len(s) + 1 /\ Len(s) \in Nat
  OBVIOUS
<1>2. \A i \in 1 .. Len(s) : Append(s, e)[i] = s[i]
  OBVIOUS
<1>3. Append(s, e)[Len(s) + 1] = e
  OBVIOUS
<1>4. \A i \in 1 .. Len(s) + 1 : i \in 1 .. Len(s) \/ i = Len(s) + 1
  BY <1>1
<1>5. Len(s) + 1 \in 1 .. Len(s) + 1 /\ \A i \in 1 .. Len(s) : i \in 1 .. Len(s) + 1
  BY <1>1
<1> QED
  BY <1>1, <1>2, <1>3, <1>4, <1>5

\* The sample joins those of the batch, on a series that is there.
LEMMA AddsIs ==
    ASSUME IngestTypeOK, NEW a \in Appender, BatchInv(a), pc[a] = "stage", cutoff' = cutoff, clean'[a] = clean[a], lastRef' \in Nat,
           NEW l \in Label, NEW t \in Time, NEW v \in Value, Adds(a, l, t, v)
    PROVE  /\ Evolves /\ AllOld /\ Alone(a) /\ pc'[a] = "stage" /\ DOMAIN series \subseteq DOMAIN series'
           /\ RefsOfBatch(a)' /\ AppliedOf(a)'
           /\ DOMAIN pending[a] \subseteq DOMAIN pending'[a]
           /\ \A i \in DOMAIN pending[a] : pending'[a][i] = pending[a][i]
           /\ \A i \in DOMAIN pending'[a] \ DOMAIN pending[a] :
                pending'[a][i].l = l /\ pending'[a][i].t = t /\ pending'[a][i].v = v
           /\ \E i \in DOMAIN pending'[a] :
                /\ pending'[a][i].l = l /\ pending'[a][i].t = t
                /\ pending'[a][i].ref \in DOMAIN series'
<1>0. PICK r \in Ref : /\ pending'[a] = Append(pending[a], [ref |-> r, l |-> l, t |-> t, v |-> v])
                       /\ Grows(r) /\ series'[r].labels = l
  BY DEF Adds
<1>1. Evolves /\ AllOld /\ Alone(a) /\ pc'[a] = "stage"
  BY <1>0, GrowsEvolves DEF Adds
<1> DEFINE e == [ref |-> r, l |-> l, t |-> t, v |-> v]
<1>2. e \in Staged /\ pending[a] \in Seq(Staged) /\ e.ref = r /\ e.l = l /\ e.t = t /\ e.v = v
  BY DEF Staged, IngestTypeOK, StoreTypeOK
<1>3. pending'[a] = Append(pending[a], e)
  BY <1>0
<1> HIDE DEF e
<1>4. /\ DOMAIN pending[a] \subseteq DOMAIN pending'[a]
      /\ \A i \in DOMAIN pending[a] : pending'[a][i] = pending[a][i]
      /\ \A i \in DOMAIN pending'[a] \ DOMAIN pending[a] : pending'[a][i] = e
      /\ \E i \in DOMAIN pending'[a] : pending'[a][i] = e
  BY <1>2, <1>3, AppendIs
<1>5. /\ r \in DOMAIN series' /\ r <= lastRef' /\ series'[r].labels = l /\ lastRef <= lastRef'
      /\ DOMAIN series \subseteq DOMAIN series' /\ DOMAIN series' \subseteq DOMAIN series \cup {r}
      /\ \A q \in DOMAIN series : series'[q] = series[q]
      /\ r \notin DOMAIN series => lastRef < r
  BY <1>0 DEF Grows
<1>6. lastRef \in Nat /\ lastRef' \in Nat
  BY Numbers
<1>7. RefsOfBatch(a)'
  <2> SUFFICES ASSUME NEW i \in DOMAIN pending'[a]
               PROVE  /\ pending'[a][i].ref <= lastRef'
                      /\ pending'[a][i].ref \in DOMAIN series' =>
                           series'[pending'[a][i].ref].labels = pending'[a][i].l
    BY DEF RefsOfBatch
  <2>1. CASE i \notin DOMAIN pending[a]
    BY <1>2, <1>4, <1>5, <2>1
  <2>2. CASE i \in DOMAIN pending[a]
    <3> PICK d : d = pending[a][i]
      OBVIOUS
    <3>1. d.ref \in Nat /\ d.ref <= lastRef /\ (d.ref \in DOMAIN series => series[d.ref].labels = d.l)
      BY <2>2, StagedIs DEF BatchInv, RefsOfBatch
    <3>2. pending'[a][i] = d
      BY <1>4, <2>2
    <3>3. d.ref <= lastRef'
      BY <1>5, <1>6, <3>1
    <3>4. ASSUME d.ref \in DOMAIN series' PROVE d.ref \in DOMAIN series
      BY <1>5, <1>6, <3>1, <3>4
    <3> QED
      BY <1>5, <3>1, <3>2, <3>3, <3>4
  <2> QED
    BY <2>1, <2>2
<1>8. AppliedOf(a)'
  <2>1. ASSUME NEW i \in DOMAIN pending'[a], clean[a] PROVE pending'[a][i].ref \in DOMAIN series'
    <3>1. CASE i \notin DOMAIN pending[a]
      BY <1>2, <1>4, <1>5, <3>1
    <3>2. CASE i \in DOMAIN pending[a]
      BY <1>4, <1>5, <2>1, <3>2 DEF BatchInv, AppliedOf
    <3> QED
      BY <3>1, <3>2
  <2> QED
    BY <1>1, <2>1 DEF AppliedOf
<1> QED
  BY <1>1, <1>2, <1>4, <1>5, <1>7, <1>8

LEMMA AppendNextInv ==
    ASSUME IngestInv, NEW a \in Appender, NEW v \in Value, AppendNext(a, v),
           a \in Target => v = 0, a \in Request => v = ValueOf[a]
    PROVE  IngestInv'
<1>0. /\ IngestTypeOK /\ StoreTypeOK /\ BatchInv(a) /\ (a \in Target => ScrapeInv(a)) /\ (a \in Request => PushInv(a))
      /\ CountInv /\ \A r \in DOMAIN series : r <= lastRef
  BY DEF IngestInv, IngestTypeOK, HeadInv
<1>1. PICK s \in todo[a] : AddSample(a, s[1], s[2], v) /\ todo' = [todo EXCEPT ![a] = @ \ {s}]
  BY DEF AppendNext
<1>2. /\ phase[a] = "append" /\ UNCHANGED <<clock, cutoff, phase, err, source, batch, clean>>
      /\ UNCHANGED <<ts, syn, health, known>>
  BY DEF AppendNext, scrapeVars
<1>3. s \in Label \X Time /\ s[1] \in Label /\ s[2] \in Time /\ s = <<s[1], s[2]>>
  <2>1. todo[a] \subseteq Label \X Time
    BY <1>0 DEF IngestTypeOK
  <2> QED
    BY <2>1
<1>4. StoreTypeOK' /\ Adds(a, s[1], s[2], v) /\ pc[a] = "stage"
  BY <1>0, <1>1, <1>3, AddSampleIs
<1>5. lastRef' \in Nat
  BY <1>4 DEF StoreTypeOK, HeadTypeOK
<1>6. /\ Evolves /\ AllOld /\ Alone(a) /\ pc'[a] = "stage" /\ DOMAIN series \subseteq DOMAIN series'
      /\ RefsOfBatch(a)' /\ AppliedOf(a)'
      /\ DOMAIN pending[a] \subseteq DOMAIN pending'[a]
      /\ \A i \in DOMAIN pending[a] : pending'[a][i] = pending[a][i]
      /\ \A i \in DOMAIN pending'[a] \ DOMAIN pending[a] :
           pending'[a][i].l = s[1] /\ pending'[a][i].t = s[2] /\ pending'[a][i].v = v
      /\ \E i \in DOMAIN pending'[a] : pending'[a][i].l = s[1] /\ pending'[a][i].t = s[2]
  BY <1>0, <1>2, <1>3, <1>4, <1>5, AddsIs
<1>7. IngestTypeOK'
  <2> DEFINE P == Label \X Time
  <2>1. todo \in [Appender -> SUBSET P]
    BY <1>0 DEF IngestTypeOK
  <2> HIDE DEF P
  <2>2. todo' \in [Appender -> SUBSET P]
    BY <1>1, <2>1
  <2> USE DEF P
  <2> QED
    BY <1>0, <1>2, <1>4, <2>2 DEF IngestTypeOK
<1>8. todo'[a] = todo[a] \ {s} /\ \A b \in Appender \ {a} : todo'[b] = todo[b]
  BY <1>0, <1>1 DEF IngestTypeOK
<1>9. s \in batch[a] /\ err[a] = "" /\ todo[a] \subseteq batch[a]
  BY <1>0, <1>1 DEF BatchInv, ControlOf
<1>10. BatchInv(a)'
  <2>1. ControlOf(a)'
    BY <1>2, <1>6, <1>8, <1>9 DEF ControlOf
  <2>2. CompleteOf(a)'
    <3>1. ASSUME NEW u \in batch[a] \ todo'[a]
          PROVE  \E i \in DOMAIN pending'[a] : pending'[a][i].l = u[1] /\ pending'[a][i].t = u[2]
      <4>1. CASE u = s
        BY <1>6, <4>1
      <4>2. CASE u # s
        <5>1. \E i \in DOMAIN pending[a] : pending[a][i].l = u[1] /\ pending[a][i].t = u[2]
          BY <1>0, <1>2, <1>8, <1>9, <4>2 DEF BatchInv, CompleteOf
        <5> QED
          BY <1>6, <5>1
      <4> QED
        BY <4>1, <4>2
    <3> QED
      BY <1>2, <3>1 DEF CompleteOf
  <2>3. StoredOf(a)'
    BY <1>2 DEF StoredOf
  <2> QED
    BY <1>6, <2>1, <2>2, <2>3 DEF BatchInv
<1>11. ASSUME a \in Target PROVE ScrapeInv(a)'
  <2>0. /\ ControlOfScrape(a) /\ StagedByScrape(a) /\ ScrapedBy(a) /\ UpOf(a)
        /\ v = 0 /\ ts'[a] = ts[a] /\ syn'[a] = syn[a] /\ phase'[a] = phase[a] /\ err'[a] = err[a]
    BY <1>0, <1>2, <1>11 DEF ScrapeInv
  <2>1. ControlOfScrape(a)'
    BY <1>2, <2>0 DEF ControlOfScrape
  <2>2. StagedByScrape(a)'
    <3>1. s[2] = ts[a] /\ s[1] \in Exposed[a]
      <4>1. s \in Exposed[a] \X {ts[a]}
        BY <1>9, <2>0 DEF ControlOfScrape
      <4> QED
        BY <4>1
    <3>2. \A l, w : Scraped(a, l, w)' <=> Scraped(a, l, w)
      BY <2>0 DEF Scraped, SyntheticValue
    <3>3. Scraped(a, s[1], v) /\ s[1] \in SeriesOf(a) /\ v \in {0, 1}
      BY <1>9, <2>0, <3>1 DEF Scraped, SeriesOf
    <3>4. ASSUME NEW i \in DOMAIN pending'[a]
          PROVE  /\ pending'[a][i].t = ts[a] /\ pending'[a][i].l \in SeriesOf(a) /\ pending'[a][i].v \in {0, 1}
                 /\ Scraped(a, pending'[a][i].l, pending'[a][i].v)
      <4>1. CASE i \notin DOMAIN pending[a]
        BY <1>6, <3>1, <3>3, <4>1
      <4>2. CASE i \in DOMAIN pending[a]
        BY <1>4, <1>6, <2>0, <4>2 DEF StagedByScrape
      <4> QED
        BY <4>1, <4>2
    <3>5. SeriesOf(a)' = SeriesOf(a)
      BY DEF SeriesOf
    <3> QED
      BY <2>0, <3>2, <3>4, <3>5 DEF StagedByScrape
  <2>3. ScrapedBy(a)'
    BY <1>2, <1>6, <1>11, <2>0, NotYetScraped DEF Recording
  <2>4. UpOf(a)'
    <3>1. syn'[a] \in Int
      BY <1>7, <1>11 DEF IngestTypeOK
    <3> QED
      BY <1>2, <1>6, <1>11, <2>0, <3>1, UpGoesOn
  <2> QED
    BY <2>1, <2>2, <2>3, <2>4 DEF ScrapeInv
<1>12. ASSUME a \in Request PROVE PushInv(a)'
  <2>0. ControlOfPush(a) /\ StagedByPush(a) /\ PushedBy(a) /\ v = ValueOf[a]
    BY <1>0, <1>12 DEF PushInv
  <2>1. ControlOfPush(a)'
    BY <1>2, <2>0 DEF ControlOfPush
  <2>2. StagedByPush(a)'
    <3>1. ASSUME NEW i \in DOMAIN pending'[a]
          PROVE  <<pending'[a][i].l, pending'[a][i].t>> \in batch[a] /\ pending'[a][i].v = ValueOf[a]
      <4>1. CASE i \notin DOMAIN pending[a]
        BY <1>3, <1>6, <1>9, <2>0, <4>1
      <4>2. CASE i \in DOMAIN pending[a]
        BY <1>6, <2>0, <4>2 DEF StagedByPush
      <4> QED
        BY <4>1, <4>2
    <3> QED
      BY <1>2, <3>1 DEF StagedByPush
  <2>3. PushedBy(a)'
    BY <1>2, <1>6, <1>12, <2>0, NotYetPushed DEF Accepting
  <2> QED
    BY <2>1, <2>2, <2>3 DEF PushInv
<1>13. (\A b \in Appender \ {a} : Kept(b)) /\ (\A b \in Target \ {a} : KeptScrape(b))
  <2>1. clock <= clock'
    BY <1>0, <1>2, Numbers
  <2> QED
    BY <1>0, <1>2, <1>6, <1>8, <2>1, FrameIs
<1>14. CountInv'
  BY <1>0, <1>2, <1>13, CountStays
<1> QED
  BY <1>6, <1>7, <1>10, <1>11, <1>12, <1>13, <1>14, StepOf

LEMMA AppendSyntheticInv ==
    ASSUME IngestInv, NEW a \in Target, AppendSynthetic(a)
    PROVE  IngestInv'
<1>0. /\ IngestTypeOK /\ StoreTypeOK /\ BatchInv(a) /\ a \in Appender /\ a \notin Request
      /\ ControlOfScrape(a) /\ StagedByScrape(a) /\ ScrapedBy(a) /\ UpOf(a)
      /\ CountInv /\ HeadInv /\ \A r \in DOMAIN series : r <= lastRef
  BY WritersAssumption DEF IngestInv, IngestTypeOK, HeadInv, ScrapeInv
<1> DEFINE n == syn[a]
           l == Synthetic[a][n]
           v == SyntheticValue(a, n)
<1>1. /\ phase[a] = "synthetic" /\ n <= 3
      /\ AddSample(a, l, ts[a], v) \/ (TooManySeries(l) /\ UNCHANGED batchVars)
      /\ syn' = [syn EXCEPT ![a] = n + 1]
      /\ UNCHANGED <<clock, cutoff, phase, ts, todo, err, health, source, batch, known, clean>>
  BY DEF AppendSynthetic
<1>2. /\ n \in 1 .. 3 /\ n + 1 \in 1 .. 4 /\ l \in Label /\ ts[a] \in Time /\ v \in Value /\ v \in {0, 1}
      /\ syn'[a] = n + 1 /\ \A b \in Target \ {a} : syn'[b] = syn[b]
  <2>1. n \in 1 .. 4 /\ ts[a] \in 0 .. MaxTime /\ syn \in [Target -> 1 .. 4]
    BY <1>0 DEF IngestTypeOK
  <2>2. n \in 1 .. 3 /\ n + 1 \in 1 .. 4
    BY <1>1, <2>1
  <2>3. l \in Label
    BY <2>2, TargetAssumption
  <2>4. v \in {0, 1} /\ v \in Value
    BY ValueAssumption DEF SyntheticValue
  <2>5. syn'[a] = n + 1 /\ \A b \in Target \ {a} : syn'[b] = syn[b]
    BY <1>1, <2>1
  <2> QED
    BY <2>1, <2>2, <2>3, <2>4, <2>5, ClockAssumption
<1>3. Scraped(a, l, v) /\ l \in SeriesOf(a)
  BY <1>2 DEF Scraped, SeriesOf
<1>4. pc[a] = "stage" /\ todo[a] = {}
  BY <1>0, <1>1 DEF BatchInv, ControlOf
<1> HIDE DEF n, l, v
<1>5. /\ StoreTypeOK' /\ Evolves /\ AllOld /\ Alone(a) /\ pc'[a] = "stage" /\ DOMAIN series \subseteq DOMAIN series'
      /\ RefsOfBatch(a)' /\ AppliedOf(a)'
      /\ DOMAIN pending[a] \subseteq DOMAIN pending'[a]
      /\ \A i \in DOMAIN pending[a] : pending'[a][i] = pending[a][i]
      /\ \A i \in DOMAIN pending'[a] \ DOMAIN pending[a] :
           pending'[a][i].l = l /\ pending'[a][i].t = ts[a] /\ pending'[a][i].v = v
      /\ \/ RefsOf(l) = {}
         \/ \E i \in DOMAIN pending'[a] :
              /\ pending'[a][i].l = l /\ pending'[a][i].t = ts[a] /\ pending'[a][i].ref \in DOMAIN series'
  <2>1. CASE AddSample(a, l, ts[a], v)
    <3>0. PICK u \in Time : u = ts[a]
      BY <1>2
    <3>1. StoreTypeOK' /\ Adds(a, l, u, v)
      BY <1>0, <1>2, <2>1, <3>0, AddSampleIs
    <3>2. lastRef' \in Nat
      BY <3>1 DEF StoreTypeOK, HeadTypeOK
    <3> QED
      BY <1>0, <1>1, <1>2, <1>4, <3>0, <3>1, <3>2, AddsIs
  <2>2. CASE TooManySeries(l) /\ UNCHANGED batchVars
    <3>1. RefsOf(l) = {} /\ UNCHANGED storeVars
      BY <2>2 DEF TooManySeries, storeVars
    <3>2. /\ StoreTypeOK' /\ Evolves /\ AllOld /\ series' = series /\ lastRef' = lastRef
          /\ pc' = pc /\ pending' = pending /\ idx' = idx /\ Alone(a)
      BY <1>0, <1>1, <3>1, QuietIs
    <3>3. RefsOfBatch(a)' /\ AppliedOf(a)'
      BY <1>0, <1>1, <3>2 DEF BatchInv, RefsOfBatch, AppliedOf, Holds
    <3> QED
      BY <1>4, <3>1, <3>2, <3>3
  <2> QED
    BY <1>1, <2>1, <2>2
<1>6. IngestTypeOK'
  <2>1. syn' \in [Target -> 1 .. 4]
    <3>1. syn \in [Target -> 1 .. 4]
      BY <1>0 DEF IngestTypeOK
    <3> QED
      BY <1>1, <1>2, <3>1
  <2> QED
    BY <1>0, <1>1, <1>5, <2>1 DEF IngestTypeOK
<1>7. BatchInv(a)'
  <2>1. ControlOf(a)'
    BY <1>0, <1>1, <1>4, <1>5 DEF BatchInv, ControlOf
  <2>2. CompleteOf(a)'
    <3>1. ASSUME NEW s \in batch[a] \ todo[a], err[a] = ""
          PROVE  \E i \in DOMAIN pending'[a] : pending'[a][i].l = s[1] /\ pending'[a][i].t = s[2]
      <4>1. PICK i \in DOMAIN pending[a] : pending[a][i].l = s[1] /\ pending[a][i].t = s[2]
        BY <1>0, <1>1, <3>1 DEF BatchInv, CompleteOf
      <4>2. i \in DOMAIN pending'[a] /\ pending'[a][i] = pending[a][i]
        BY <1>5
      <4> QED
        BY <4>1, <4>2
    <3> QED
      BY <1>1, <3>1 DEF CompleteOf
  <2>3. StoredOf(a)'
    BY <1>1 DEF StoredOf
  <2> QED
    BY <1>5, <2>1, <2>2, <2>3 DEF BatchInv
<1>8. ScrapeInv(a)'
  <2>1. ControlOfScrape(a)'
    BY <1>0, <1>1 DEF ControlOfScrape
  <2>2. StagedByScrape(a)'
    <3>1. \A m, w : Scraped(a, m, w)' <=> Scraped(a, m, w)
      BY <1>1 DEF Scraped, SyntheticValue
    <3>2. ASSUME NEW i \in DOMAIN pending'[a]
          PROVE  /\ pending'[a][i].t = ts[a] /\ pending'[a][i].l \in SeriesOf(a) /\ pending'[a][i].v \in {0, 1}
                 /\ Scraped(a, pending'[a][i].l, pending'[a][i].v)
      <4>1. CASE i \notin DOMAIN pending[a]
        BY <1>2, <1>3, <1>5, <4>1
      <4>2. CASE i \in DOMAIN pending[a]
        BY <1>0, <1>4, <1>5, <4>2 DEF StagedByScrape
      <4> QED
        BY <4>1, <4>2
    <3>3. SeriesOf(a)' = SeriesOf(a)
      BY DEF SeriesOf
    <3> QED
      BY <1>1, <3>1, <3>2, <3>3 DEF StagedByScrape
  <2>3. ScrapedBy(a)'
    BY <1>0, <1>1, <1>5, NotYetScraped DEF Recording
  <2>4. UpOf(a)'
    <3> SUFFICES ASSUME known[a] PROVE HasUp(a)' /\ UpStaged(a)'
      BY <1>1 DEF UpOf
    <3>1. HasUp(a) /\ (n > 1 => UpStaged(a))
      BY <1>0, <1>1 DEF UpOf, n
    <3>2. HasUp(a)'
      BY <1>1, <1>5, <3>1, HasUpStays
    <3>3. CASE n > 1
      <4>1. PICK i \in DOMAIN pending[a] : /\ pending[a][i].l = Synthetic[a][1] /\ pending[a][i].t = ts[a]
                                           /\ pending[a][i].ref \in DOMAIN series
        BY <3>1, <3>3 DEF UpStaged
      <4>2. i \in DOMAIN pending'[a] /\ pending'[a][i] = pending[a][i] /\ pending[a][i].ref \in DOMAIN series'
        BY <1>5, <4>1
      <4> QED
        BY <1>1, <3>2, <4>1, <4>2 DEF UpStaged
    <3>4. CASE n = 1
      <4>1. RefsOf(l) # {}
        BY <3>1, <3>4 DEF HasUp, l
      <4> QED
        <5>1. l = Synthetic[a][1]
          BY <3>4 DEF l
        <5>2. PICK i \in DOMAIN pending'[a] :
                 /\ pending'[a][i].l = l /\ pending'[a][i].t = ts[a] /\ pending'[a][i].ref \in DOMAIN series'
          BY <1>5, <4>1
        <5> QED
          BY <1>1, <3>2, <5>1, <5>2 DEF UpStaged
    <3> QED
      BY <1>2, <3>2, <3>3, <3>4
  <2> QED
    BY <2>1, <2>2, <2>3, <2>4 DEF ScrapeInv
<1>9. (\A b \in Appender \ {a} : Kept(b)) /\ (\A b \in Target \ {a} : KeptScrape(b))
  <2>1. clock <= clock'
    BY <1>0, <1>1, Numbers
  <2> QED
    BY <1>0, <1>1, <1>2, <1>5, <2>1, FrameIs
<1>10. CountInv'
  BY <1>0, <1>1, <1>9, CountStays
<1> QED
  BY <1>0, <1>5, <1>6, <1>7, <1>8, <1>9, <1>10, StepOf

LEMMA AppendFailsInv ==
    ASSUME IngestInv, NEW a \in Appender, AppendFails(a)
    PROVE  IngestInv'
<1>0. /\ IngestTypeOK /\ StoreTypeOK /\ BatchInv(a) /\ (a \in Target => ScrapeInv(a)) /\ (a \in Request => PushInv(a))
      /\ CountInv
  BY DEF IngestInv, IngestTypeOK
<1>1. PICK s \in todo[a] : Rejected(a, s[1])
  BY DEF AppendFails
<1>2. /\ phase[a] = "append" /\ err' = [err EXCEPT ![a] = "append"] /\ todo' = [todo EXCEPT ![a] = {}]
      /\ UNCHANGED <<clock, cutoff, phase, source, batch, clean>> /\ UNCHANGED <<ts, syn, health, known>>
  BY DEF AppendFails, scrapeVars
<1>3. PICK l : l = s[1] /\ Rejected(a, l)
  BY <1>1
<1>4. /\ StoreTypeOK' /\ Alone(a) /\ UNCHANGED headVars /\ pc[a] = "stage"
      /\ pc'[a] = "rollback" /\ pending'[a] = pending[a]
  BY <1>0, <1>3, RejectedIs
<1>5. Evolves /\ AllOld /\ series' = series /\ lastRef' = lastRef
  BY <1>0, <1>2, <1>4, SameEvolves DEF headVars
<1>6. err'[a] = "append" /\ todo'[a] = {} /\ \A b \in Appender \ {a} : err'[b] = err[b] /\ todo'[b] = todo[b]
  BY <1>0, <1>2 DEF IngestTypeOK
<1>7. IngestTypeOK'
  <2>1. err' \in [Appender -> Error]
    BY <1>0, <1>2 DEF IngestTypeOK, Error
  <2> DEFINE P == Label \X Time
  <2>2. todo \in [Appender -> SUBSET P]
    BY <1>0 DEF IngestTypeOK
  <2> HIDE DEF P
  <2>3. todo' \in [Appender -> SUBSET P]
    BY <1>2, <2>2
  <2> USE DEF P
  <2> QED
    BY <1>0, <1>2, <1>4, <2>1, <2>3 DEF IngestTypeOK
<1>8. BatchInv(a)'
  <2>1. RefsOfBatch(a)'
    BY <1>0, <1>4, <1>5 DEF BatchInv, RefsOfBatch
  <2>2. AppliedOf(a)'
    BY <1>0, <1>2, <1>4, <1>5 DEF BatchInv, AppliedOf
  <2>3. ControlOf(a)'
    BY <1>2, <1>4, <1>6 DEF ControlOf
  <2>4. CompleteOf(a)' /\ StoredOf(a)'
    BY <1>6 DEF CompleteOf, StoredOf
  <2> QED
    BY <2>1, <2>2, <2>3, <2>4 DEF BatchInv
<1>9. ASSUME a \in Target PROVE ScrapeInv(a)'
  <2>0. /\ ControlOfScrape(a) /\ StagedByScrape(a) /\ ScrapedBy(a) /\ UpOf(a)
        /\ ts'[a] = ts[a] /\ syn'[a] = syn[a] /\ phase'[a] = phase[a]
    BY <1>0, <1>2, <1>9 DEF ScrapeInv
  <2>1. ControlOfScrape(a)'
    BY <1>2, <1>6, <2>0 DEF ControlOfScrape
  <2>2. StagedByScrape(a)'
    <3>1. SeriesOf(a)' = SeriesOf(a)
      BY DEF SeriesOf
    <3> QED
      BY <1>4, <2>0, <3>1 DEF StagedByScrape
  <2>3. ScrapedBy(a)'
    BY <1>2, <1>5, <1>9, <2>0, NotYetScraped DEF Recording
  <2>4. UpOf(a)'
    <3>1. syn'[a] \in Int
      BY <1>7, <1>9 DEF IngestTypeOK
    <3> QED
      BY <1>2, <1>5, <1>9, <2>0, <3>1, UpGoesOn
  <2> QED
    BY <2>1, <2>2, <2>3, <2>4 DEF ScrapeInv
<1>10. ASSUME a \in Request PROVE PushInv(a)'
  <2>0. ControlOfPush(a) /\ StagedByPush(a) /\ PushedBy(a)
    BY <1>0, <1>10 DEF PushInv
  <2>1. ControlOfPush(a)' /\ StagedByPush(a)'
    BY <1>2, <1>4, <2>0 DEF ControlOfPush, StagedByPush
  <2>2. PushedBy(a)'
    BY <1>2, <1>5, <1>10, <2>0, NotYetPushed DEF Accepting
  <2> QED
    BY <2>1, <2>2 DEF PushInv
<1>11. (\A b \in Appender \ {a} : Kept(b)) /\ (\A b \in Target \ {a} : KeptScrape(b))
  <2>1. clock <= clock'
    BY <1>0, <1>2, Numbers
  <2> QED
    BY <1>0, <1>2, <1>4, <1>5, <1>6, <2>1, FrameIs
<1>12. CountInv'
  BY <1>0, <1>2, <1>11, CountStays
<1> QED
  BY <1>5, <1>7, <1>8, <1>9, <1>10, <1>11, <1>12, StepOf

-----------------------------------------------------------------------------
(* Rollback and retention, which remove series *)

LEMMA StillThereIs ==
    ASSUME IngestTypeOK, clean' = StillThere
    PROVE  /\ clean' \in [Appender -> BOOLEAN]
           /\ \A b \in Appender : clean'[b] =>
                clean[b] /\ \A i \in DOMAIN pending[b] : pending[b][i].ref \in DOMAIN series'
BY DEF StillThere

LEMMA RollbackStepInv ==
    ASSUME IngestInv, NEW a \in Appender, RollbackStep(a)
    PROVE  IngestInv'
<1>0. /\ IngestTypeOK /\ StoreTypeOK /\ BatchInv(a) /\ (a \in Target => ScrapeInv(a)) /\ (a \in Request => PushInv(a))
      /\ CountInv
  BY DEF IngestInv, IngestTypeOK
<1>1. /\ RollBack(a) /\ clean' = StillThere
      /\ UNCHANGED <<clock, cutoff, phase, todo, err, source, batch>> /\ UNCHANGED <<ts, syn, health, known>>
  BY DEF RollbackStep, scrapeVars
<1>2. /\ StoreTypeOK' /\ Alone(a) /\ Shrinks /\ pc[a] = "rollback"
      /\ \/ pc'[a] = "rollback" /\ pending'[a] = pending[a]
         \/ pc'[a] = "stage" /\ pending'[a] = <<>>
  BY <1>0, <1>1, RollBackIs
<1>3. Evolves /\ AllOld
  BY <1>0, <1>1, <1>2, ShrinksEvolves
<1>4. /\ clean' \in [Appender -> BOOLEAN]
      /\ \A b \in Appender : clean'[b] =>
           clean[b] /\ \A i \in DOMAIN pending[b] : pending[b][i].ref \in DOMAIN series'
  BY <1>0, <1>1, StillThereIs
<1>5. IngestTypeOK'
  BY <1>0, <1>1, <1>2, <1>4 DEF IngestTypeOK
<1>6. phase[a] = "append" /\ err[a] = "append" /\ todo[a] = {}
  <2>1. ControlOf(a) /\ phase[a] \in {"idle", "fetch", "append", "synthetic", "commit", "record", "done"}
    BY <1>0 DEF BatchInv, IngestTypeOK
  <2> QED
    BY <1>2, <2>1 DEF ControlOf
<1>7. BatchInv(a)'
  <2>1. RefsOfBatch(a)'
    <3>1. ASSUME NEW i \in DOMAIN pending[a]
          PROVE  /\ pending[a][i].ref <= lastRef'
                 /\ pending[a][i].ref \in DOMAIN series' => series'[pending[a][i].ref].labels = pending[a][i].l
      BY <1>0, <1>2 DEF Shrinks, BatchInv, RefsOfBatch
    <3> QED
      BY <1>0, <1>2, <3>1, NothingStaged DEF RefsOfBatch
  <2>2. AppliedOf(a)'
    <3>1. CASE pending'[a] = <<>>
      BY <3>1, NothingStaged
    <3>2. CASE pc'[a] = "rollback" /\ pending'[a] = pending[a]
      BY <1>4, <3>2 DEF AppliedOf
    <3> QED
      BY <1>2, <3>1, <3>2
  <2>3. ControlOf(a)'
    BY <1>1, <1>2, <1>6 DEF ControlOf
  <2>4. CompleteOf(a)' /\ StoredOf(a)'
    BY <1>1, <1>6 DEF CompleteOf, StoredOf
  <2> QED
    BY <2>1, <2>2, <2>3, <2>4 DEF BatchInv
<1>8. ASSUME a \in Target PROVE ScrapeInv(a)'
  <2>0. /\ ControlOfScrape(a) /\ StagedByScrape(a) /\ ScrapedBy(a) /\ UpOf(a)
        /\ ts'[a] = ts[a] /\ syn'[a] = syn[a] /\ phase'[a] = phase[a]
    BY <1>0, <1>1, <1>8 DEF ScrapeInv
  <2>1. ControlOfScrape(a)'
    BY <1>1, <1>6, <2>0 DEF ControlOfScrape
  <2>2. StagedByScrape(a)'
    <3>1. CASE pending'[a] = <<>>
      BY <1>8, <3>1, NothingStaged
    <3>2. CASE pc'[a] = "rollback" /\ pending'[a] = pending[a]
      <4>1. SeriesOf(a)' = SeriesOf(a)
        BY DEF SeriesOf
      <4> QED
        BY <2>0, <3>2, <4>1 DEF StagedByScrape
    <3> QED
      BY <1>2, <3>1, <3>2
  <2>3. ScrapedBy(a)'
    BY <1>3, <1>6, <1>8, <2>0, NotYetScraped DEF Recording
  <2>4. UpOf(a)'
    <3>1. syn'[a] \in Int
      BY <1>5, <1>8 DEF IngestTypeOK
    <3> QED
      BY <1>1, <1>3, <1>6, <1>8, <2>0, <3>1, UpGoesOn
  <2> QED
    BY <2>1, <2>2, <2>3, <2>4 DEF ScrapeInv
<1>9. ASSUME a \in Request PROVE PushInv(a)'
  <2>0. ControlOfPush(a) /\ StagedByPush(a) /\ PushedBy(a)
    BY <1>0, <1>9 DEF PushInv
  <2>1. ControlOfPush(a)'
    BY <1>1, <2>0 DEF ControlOfPush
  <2>2. StagedByPush(a)'
    <3>1. CASE pending'[a] = <<>>
      BY <3>1, NothingStaged
    <3>2. CASE pending'[a] = pending[a]
      BY <1>1, <2>0, <3>2 DEF StagedByPush
    <3> QED
      BY <1>2, <3>1, <3>2
  <2>3. PushedBy(a)'
    BY <1>3, <1>6, <1>9, <2>0, NotYetPushed DEF Accepting
  <2> QED
    BY <2>1, <2>2, <2>3 DEF PushInv
<1>10. (\A b \in Appender \ {a} : Kept(b)) /\ (\A b \in Target \ {a} : KeptScrape(b))
  <2>1. clock <= clock'
    BY <1>0, <1>1, Numbers
  <2>2. \A b \in Appender \ {a} :
          /\ phase'[b] = phase[b] /\ todo'[b] = todo[b] /\ err'[b] = err[b] /\ batch'[b] = batch[b]
          /\ clean'[b] => clean[b] /\ \A i \in DOMAIN pending[b] :
               pending[b][i].ref \in DOMAIN series => pending[b][i].ref \in DOMAIN series'
    BY <1>1, <1>4
  <2>3. \A b \in Target \ {a} :
          ts'[b] = ts[b] /\ syn'[b] = syn[b] /\ health'[b] = health[b] /\ known'[b] = known[b]
    BY <1>1
  <2> QED
    BY <1>0, <1>1, <1>2, <1>3, <2>1, <2>2, <2>3, FrameIs
<1>11. CountInv'
  BY <1>0, <1>1, <1>6, <1>10, CountStays
<1> QED
  BY <1>3, <1>5, <1>7, <1>8, <1>9, <1>10, <1>11, StepOf

LEMMA RetentionInv ==
    ASSUME IngestInv, NEW minT \in MinT, Retention(minT)
    PROVE  IngestInv'
<1>0. IngestTypeOK /\ StoreTypeOK /\ HeadTypeOK /\ HeadInv /\ CountInv
  BY DEF IngestInv, IngestTypeOK, StoreTypeOK
<1>1. /\ cutoff < minT /\ minT <= clock /\ Cut(minT) /\ cutoff' = minT /\ clean' = StillThere
      /\ known' = [a \in Target |-> known[a] /\ HasUp(a)']
      /\ UNCHANGED <<clock, phase, todo, err, source, batch, ts, syn, health>>
  BY DEF Retention
<1>2. minT \in Int
  BY ClockAssumption
<1>3. TruncateHead(minT) /\ UNCHANGED <<pc, newSeries, pending, idx>>
  BY <1>1 DEF Cut, batchVars
<1>4. HeadTypeOK' /\ Loses(minT)
  BY <1>0, <1>2, <1>3, CutIs DEF Loses
<1>5. Evolves /\ AllOld
  BY <1>0, <1>1, <1>2, <1>4, LosesEvolves
<1>6. /\ clean' \in [Appender -> BOOLEAN]
      /\ \A b \in Appender : clean'[b] =>
           clean[b] /\ \A i \in DOMAIN pending[b] : pending[b][i].ref \in DOMAIN series'
  BY <1>0, <1>1, StillThereIs
<1>7. known' \in [Target -> BOOLEAN] /\ \A a \in Target : known'[a] => known[a] /\ HasUp(a)'
  BY <1>1
<1>8. IngestTypeOK'
  <2>1. StoreTypeOK'
    BY <1>0, <1>3, <1>4 DEF StoreTypeOK
  <2> QED
    BY <1>0, <1>1, <1>6, <1>7, <2>1 DEF IngestTypeOK
<1>9. \A b \in Appender : Kept(b)
  BY <1>1, <1>3, <1>6 DEF Kept
<1>10. \A b \in Target : KeptScrape(b)
  <2>1. clock <= clock'
    BY <1>0, <1>1, Numbers
  <2> QED
    BY <1>1, <1>7, <1>9, <2>1, WritersAssumption DEF KeptScrape
<1>11. HeadInv'
  BY <1>0, <1>5, <1>8, HeadKeepsInv
<1>12. ASSUME NEW b \in Appender PROVE BatchInv(b)'
  BY <1>0, <1>5, <1>8, <1>9, BatchStays DEF IngestInv
<1>13. ASSUME NEW b \in Target PROVE ScrapeInv(b)'
  <2>1. ScrapeInv(b) /\ BatchInv(b)
    BY WritersAssumption DEF IngestInv
  <2> QED
    BY <1>0, <1>5, <1>8, <1>10, <2>1, ScrapeStays DEF AllOld
<1>14. ASSUME NEW b \in Request PROVE PushInv(b)'
  <2>1. PushInv(b) /\ Kept(b)
    BY <1>9, WritersAssumption DEF IngestInv
  <2> QED
    BY <1>0, <1>5, <2>1, PushStays DEF AllOld
<1>15. CountInv'
  BY <1>0, <1>1 DEF CountInv, Accepted
<1> QED
  BY <1>8, <1>11, <1>12, <1>13, <1>14, <1>15 DEF IngestInv

-----------------------------------------------------------------------------
(* Commit *)

LEMMA CommitScrapeInv ==
    ASSUME IngestInv, NEW a \in Target, CommitScrape(a)
    PROVE  IngestInv'
<1>0. /\ IngestTypeOK /\ StoreTypeOK /\ BatchInv(a) /\ a \in Appender /\ a \notin Request
      /\ ControlOfScrape(a) /\ StagedByScrape(a) /\ ScrapedBy(a) /\ UpOf(a) /\ CountInv
  BY WritersAssumption DEF IngestInv, IngestTypeOK, ScrapeInv
<1>1. /\ phase[a] = "synthetic" /\ syn[a] = 4 /\ CommitCalled(a) /\ phase' = [phase EXCEPT ![a] = "commit"]
      /\ UNCHANGED <<clock, cutoff, todo, err, source, batch, clean>> /\ UNCHANGED <<ts, syn, health, known>>
  BY DEF CommitScrape, Enters, scrapeVars
<1>2. /\ StoreTypeOK' /\ Alone(a) /\ UNCHANGED headVars /\ pc[a] = "stage"
      /\ pc'[a] = "log" /\ pending'[a] = pending[a]
  BY <1>0, <1>1, CommitCalledIs
<1>3. Evolves /\ AllOld /\ series' = series /\ lastRef' = lastRef
  BY <1>0, <1>1, <1>2, SameEvolves DEF headVars
<1>4. phase'[a] = "commit" /\ \A b \in Appender \ {a} : phase'[b] = phase[b]
  BY <1>0, <1>1 DEF IngestTypeOK
<1>5. IngestTypeOK'
  <2>1. phase' \in [Appender -> {"idle", "fetch", "append", "synthetic", "commit", "record", "done"}]
    BY <1>0, <1>1 DEF IngestTypeOK
  <2> QED
    BY <1>0, <1>1, <1>2, <2>1 DEF IngestTypeOK
<1>6. BatchInv(a)'
  <2>1. RefsOfBatch(a)'
    BY <1>0, <1>2, <1>3 DEF BatchInv, RefsOfBatch
  <2>2. AppliedOf(a)'
    BY <1>0, <1>1, <1>2, <1>3 DEF BatchInv, AppliedOf
  <2>3. ControlOf(a)'
    BY <1>0, <1>1, <1>2, <1>4 DEF BatchInv, ControlOf
  <2>4. CompleteOf(a)'
    <3>1. CompleteOf(a) /\ batch'[a] = batch[a] /\ todo'[a] = todo[a] /\ err'[a] = err[a]
      BY <1>0, <1>1 DEF BatchInv
    <3>2. ASSUME err[a] = "", NEW s \in batch[a] \ todo[a]
          PROVE  \E i \in DOMAIN pending[a] : pending[a][i].l = s[1] /\ pending[a][i].t = s[2]
      BY <1>1, <3>1, <3>2 DEF CompleteOf
    <3> QED
      BY <1>2, <3>1, <3>2 DEF CompleteOf
  <2>5. StoredOf(a)'
    BY <1>4 DEF StoredOf
  <2> QED
    BY <2>1, <2>2, <2>3, <2>4, <2>5 DEF BatchInv
<1>7. ScrapeInv(a)'
  <2>1. ControlOfScrape(a)'
    BY <1>0, <1>1, <1>4 DEF ControlOfScrape
  <2>2. StagedByScrape(a)'
    BY <1>0, <1>1, <1>2 DEF StagedByScrape, Scraped, SyntheticValue
  <2>3. ScrapedBy(a)'
    BY <1>0, <1>1, <1>3, NotYetScraped DEF Recording
  <2>4. UpOf(a)'
    BY <1>0, <1>1, <1>2, <1>3, <1>4 DEF UpOf, UpStaged, HasUp, RefsOf
  <2> QED
    BY <2>1, <2>2, <2>3, <2>4 DEF ScrapeInv
<1>8. (\A b \in Appender \ {a} : Kept(b)) /\ (\A b \in Target \ {a} : KeptScrape(b))
  <2>1. clock <= clock'
    <3>1. clock \in Int
      BY <1>0, Numbers
    <3>2. clock' = clock
      BY <1>1
    <3> QED
      BY <3>1, <3>2
  <2> QED
    BY <1>0, <1>1, <1>2, <1>3, <1>4, <2>1, FrameIs
<1>9. CountInv'
  BY <1>0, <1>1, <1>4, <1>8, CountStays
<1> QED
  BY <1>0, <1>3, <1>5, <1>6, <1>7, <1>8, <1>9, StepOf

LEMMA CommitPushInv ==
    ASSUME IngestInv, NEW a \in Request, CommitPush(a)
    PROVE  IngestInv'
<1>0. /\ IngestTypeOK /\ StoreTypeOK /\ BatchInv(a) /\ a \in Appender /\ a \notin Target
      /\ ControlOfPush(a) /\ StagedByPush(a) /\ PushedBy(a) /\ CountInv
  BY WritersAssumption DEF IngestInv, IngestTypeOK, PushInv
<1>1. /\ phase[a] = "append" /\ todo[a] = {} /\ err[a] = "" /\ CommitCalled(a)
      /\ phase' = [phase EXCEPT ![a] = "commit"]
      /\ UNCHANGED <<clock, cutoff, todo, err, source, batch, clean>> /\ UNCHANGED <<ts, syn, health, known>>
  BY DEF CommitPush, Enters, scrapeVars
<1>2. /\ StoreTypeOK' /\ Alone(a) /\ UNCHANGED headVars /\ pc[a] = "stage"
      /\ pc'[a] = "log" /\ pending'[a] = pending[a]
  BY <1>0, <1>1, CommitCalledIs
<1>3. Evolves /\ AllOld /\ series' = series /\ lastRef' = lastRef
  BY <1>0, <1>1, <1>2, SameEvolves DEF headVars
<1>4. phase'[a] = "commit" /\ \A b \in Appender \ {a} : phase'[b] = phase[b]
  BY <1>0, <1>1 DEF IngestTypeOK
<1>5. IngestTypeOK'
  <2>1. phase' \in [Appender -> {"idle", "fetch", "append", "synthetic", "commit", "record", "done"}]
    BY <1>0, <1>1 DEF IngestTypeOK
  <2> QED
    BY <1>0, <1>1, <1>2, <2>1 DEF IngestTypeOK
<1>6. BatchInv(a)'
  <2>1. RefsOfBatch(a)'
    BY <1>0, <1>2, <1>3 DEF BatchInv, RefsOfBatch
  <2>2. AppliedOf(a)'
    BY <1>0, <1>1, <1>2, <1>3 DEF BatchInv, AppliedOf
  <2>3. ControlOf(a)'
    BY <1>0, <1>1, <1>2, <1>4 DEF BatchInv, ControlOf
  <2>4. CompleteOf(a)'
    <3>1. CompleteOf(a) /\ batch'[a] = batch[a] /\ todo'[a] = todo[a] /\ err'[a] = err[a]
      BY <1>0, <1>1 DEF BatchInv
    <3>2. ASSUME err[a] = "", NEW s \in batch[a] \ todo[a]
          PROVE  \E i \in DOMAIN pending[a] : pending[a][i].l = s[1] /\ pending[a][i].t = s[2]
      BY <1>1, <3>1, <3>2 DEF CompleteOf
    <3> QED
      BY <1>2, <3>1, <3>2 DEF CompleteOf
  <2>5. StoredOf(a)'
    BY <1>4 DEF StoredOf
  <2> QED
    BY <2>1, <2>2, <2>3, <2>4, <2>5 DEF BatchInv
<1>7. PushInv(a)'
  <2>1. ControlOfPush(a)' /\ StagedByPush(a)'
    BY <1>0, <1>1, <1>2, <1>4 DEF ControlOfPush, StagedByPush
  <2>2. PushedBy(a)'
    BY <1>0, <1>1, <1>3, NotYetPushed DEF Accepting
  <2> QED
    BY <2>1, <2>2 DEF PushInv
<1>8. (\A b \in Appender \ {a} : Kept(b)) /\ (\A b \in Target \ {a} : KeptScrape(b))
  <2>1. clock <= clock'
    <3>1. clock \in Int
      BY <1>0, Numbers
    <3>2. clock' = clock
      BY <1>1
    <3> QED
      BY <3>1, <3>2
  <2> QED
    BY <1>0, <1>1, <1>2, <1>3, <1>4, <2>1, FrameIs
<1>9. CountInv'
  BY <1>0, <1>1, <1>4, <1>8, CountStays
<1> QED
  BY <1>0, <1>3, <1>5, <1>6, <1>7, <1>8, <1>9, StepOf

\* A step of Commit makes its sample part of the head; when it is over all of them are.
LEMMA CommitIs ==
    ASSUME IngestTypeOK, HeadInv, NEW a \in Appender, BatchInv(a), cutoff' = cutoff,
           Logged(a) \/ Applies(a)
    PROVE  /\ StoreTypeOK' /\ Alone(a) /\ Evolves /\ DOMAIN series' = DOMAIN series
           /\ phase[a] = "commit" /\ todo[a] = {} /\ pc[a] \in {"log", "apply"}
           /\ AllOld \/ (pc[a] = "apply" /\ idx[a] \in DOMAIN pending[a] /\ NewIs(pending[a][idx[a]]))
           /\ \/ /\ pc'[a] = "apply" /\ pending'[a] = pending[a] /\ idx'[a] \in DOMAIN pending[a]
                 /\ \A i \in DOMAIN pending[a] : i < idx'[a] /\ pending[a][i].ref \in DOMAIN series =>
                      \/ pending[a][i].t \in DOMAIN series'[pending[a][i].ref].samples
                      \/ pending[a][i].t < cutoff
              \/ /\ pc'[a] = "stage" /\ pending'[a] = <<>>
                 /\ \A i \in DOMAIN pending[a] : pending[a][i].ref \in DOMAIN series =>
                      \/ pending[a][i].t \in DOMAIN series'[pending[a][i].ref].samples
                      \/ pending[a][i].t < cutoff
<1>0. /\ StoreTypeOK /\ ControlOf(a) /\ pending[a] \in Seq(Staged)
      /\ DOMAIN pending[a] = 1 .. Len(pending[a]) /\ Len(pending[a]) \in Nat
  <2>1. StoreTypeOK /\ ControlOf(a)
    BY DEF IngestTypeOK, BatchInv
  <2>2. pending[a] \in Seq(Staged)
    BY <2>1 DEF StoreTypeOK
  <2> QED
    BY <2>1, <2>2
<1>1. phase[a] \in {"idle", "fetch", "append", "synthetic", "commit", "record", "done"}
  BY DEF IngestTypeOK
<1>2. CASE Logged(a)
  <2>1. /\ StoreTypeOK' /\ Alone(a) /\ UNCHANGED headVars /\ pc[a] = "log"
        /\ IF pending[a] = <<>>
           THEN pc'[a] = "stage" /\ pending'[a] = <<>>
           ELSE pc'[a] = "apply" /\ idx'[a] = 1 /\ pending'[a] = pending[a]
    BY <1>0, <1>2, LoggedIs
  <2>2. Evolves /\ AllOld /\ series' = series
    BY <2>1, SameEvolves DEF headVars
  <2>3. phase[a] = "commit" /\ todo[a] = {}
    BY <1>0, <1>1, <2>1 DEF ControlOf
  <2>4. CASE pending[a] = <<>>
    BY <2>1, <2>2, <2>3, <2>4
  <2>5. CASE pending[a] # <<>>
    <3>1. 1 \in DOMAIN pending[a]
      BY <1>0, <2>5
    <3>2. \A i \in DOMAIN pending[a] : ~(i < 1)
      BY <1>0
    <3> QED
      BY <2>1, <2>2, <2>3, <2>5, <3>1, <3>2
  <2> QED
    BY <2>4, <2>5
<1>3. CASE Applies(a)
  <2>1. pc[a] = "apply" /\ idx[a] \in DOMAIN pending[a] /\ idx[a] \in Nat
    BY <1>0, <1>3 DEF Applies, ControlOf, StoreTypeOK
  <2> PICK e : e = pending[a][idx[a]]
    OBVIOUS
  <2>2. /\ StoreTypeOK' /\ Alone(a) /\ Gains(e.ref, e.t, e.v)
        /\ IF idx[a] < Len(pending[a])
           THEN pc'[a] = "apply" /\ idx'[a] = idx[a] + 1 /\ pending'[a] = pending[a]
           ELSE pc'[a] = "stage" /\ pending'[a] = <<>>
    BY <1>0, <1>3, <2>1, AppliesIs
  <2>3. Evolves /\ NewIs(e)
    BY <2>2, GainsEvolves
  <2>4. phase[a] = "commit" /\ todo[a] = {}
    BY <1>0, <1>1, <2>1 DEF ControlOf
  <2>5. DOMAIN series' = DOMAIN series
    BY <2>2 DEF Gains
  <2>6. ASSUME NEW i \in DOMAIN pending[a], i <= idx[a], pending[a][i].ref \in DOMAIN series
        PROVE  \/ pending[a][i].t \in DOMAIN series'[pending[a][i].ref].samples
               \/ pending[a][i].t < cutoff
    <3>1. CASE i = idx[a]
      BY <2>2, <2>6, <3>1 DEF Gains
    <3>2. CASE i # idx[a]
      <4>1. i < idx[a]
        BY <1>0, <2>1, <2>6, <3>2
      <4>2. Holds(pending[a][i].ref, pending[a][i].t) \/ pending[a][i].t < cutoff
        BY <2>1, <2>6, <4>1 DEF BatchInv, AppliedOf
      <4> QED
        BY <2>2, <2>6, <4>2 DEF Holds, Gains
    <3> QED
      BY <3>1, <3>2
  <2>7. CASE idx[a] < Len(pending[a])
    <3>1. idx'[a] \in DOMAIN pending[a] /\ idx'[a] = idx[a] + 1
      BY <1>0, <2>1, <2>2, <2>7
    <3>2. \A i \in DOMAIN pending[a] : i < idx'[a] => i <= idx[a]
      BY <1>0, <2>1, <3>1
    <3> QED
      BY <2>1, <2>2, <2>3, <2>4, <2>5, <2>6, <2>7, <3>1, <3>2
  <2>8. CASE ~(idx[a] < Len(pending[a]))
    <3>1. \A i \in DOMAIN pending[a] : i <= idx[a]
      BY <1>0, <2>1, <2>8
    <3> QED
      BY <2>1, <2>2, <2>3, <2>4, <2>5, <2>6, <2>8, <3>1
  <2> QED
    BY <2>7, <2>8
<1> QED
  BY <1>2, <1>3

\* What a scrape, or a request, applies is its own.
LEMMA CommitScrapes ==
    ASSUME NEW a \in Target, BatchInv(a), StagedByScrape(a), ScrapedBy(a), Evolves, pc[a] \in {"log", "apply"},
           phase[a] = "commit", ts'[a] = ts[a], err'[a] = err[a], Recording(a)',
           AllOld \/ (pc[a] = "apply" /\ idx[a] \in DOMAIN pending[a] /\ NewIs(pending[a][idx[a]])),
           IngestTypeOK
    PROVE  ScrapedBy(a)'
<1>1. \A l, w : Scraped(a, l, w)' <=> Scraped(a, l, w)
  BY DEF Scraped, SyntheticValue
<1>2. SeriesOf(a)' = SeriesOf(a) /\ Pushed' = Pushed
  BY DEF SeriesOf, Pushed
<1>3. ASSUME NEW r \in DOMAIN series', NEW t \in DOMAIN series'[r].samples,
             series'[r].labels \in SeriesOf(a), series'[r].samples[t] \notin Pushed
      PROVE  t <= ts[a] /\ (t = ts[a] => Scraped(a, series'[r].labels, series'[r].samples[t]))
  <2>1. CASE Old(r, t)
    <3>1. /\ r \in DOMAIN series /\ t \in DOMAIN series[r].samples
          /\ series'[r].labels = series[r].labels /\ series'[r].samples[t] = series[r].samples[t]
      BY <2>1 DEF Old, Holds, Evolves
    <3> QED
      BY <1>3, <3>1 DEF ScrapedBy
  <2>2. CASE ~Old(r, t)
    <3> PICK e : e = pending[a][idx[a]]
      OBVIOUS
    <3>1. /\ idx[a] \in DOMAIN pending[a] /\ pc[a] = "apply"
          /\ r \in DOMAIN series /\ r = e.ref /\ t = e.t /\ series'[r].samples[t] = e.v
      BY <2>2 DEF AllOld, NewIs
    <3>2. series'[r].labels = e.l
      BY <3>1 DEF BatchInv, RefsOfBatch, Evolves
    <3>3. e.t = ts[a] /\ Scraped(a, e.l, e.v)
      BY <3>1 DEF StagedByScrape
    <3>4. ts[a] <= ts[a]
      BY Numbers
    <3> QED
      BY <3>1, <3>2, <3>3, <3>4
  <2> QED
    BY <2>1, <2>2
<1> QED
  BY <1>1, <1>2, <1>3 DEF ScrapedBy

LEMMA CommitPushes ==
    ASSUME NEW a \in Request, BatchInv(a), StagedByPush(a), PushedBy(a), Evolves,
           batch'[a] = batch[a], Accepting(a)',
           AllOld \/ (pc[a] = "apply" /\ idx[a] \in DOMAIN pending[a] /\ NewIs(pending[a][idx[a]]))
    PROVE  PushedBy(a)'
<1>1. ASSUME NEW r \in DOMAIN series', NEW t \in DOMAIN series'[r].samples, series'[r].samples[t] = ValueOf[a]
      PROVE  <<series'[r].labels, t>> \in batch[a]
  <2>1. CASE Old(r, t)
    <3>1. /\ r \in DOMAIN series /\ t \in DOMAIN series[r].samples
          /\ series'[r].labels = series[r].labels /\ series'[r].samples[t] = series[r].samples[t]
      BY <2>1 DEF Old, Holds, Evolves
    <3> QED
      BY <1>1, <3>1 DEF PushedBy
  <2>2. CASE ~Old(r, t)
    <3> PICK e : e = pending[a][idx[a]]
      OBVIOUS
    <3>1. /\ idx[a] \in DOMAIN pending[a]
          /\ r \in DOMAIN series /\ r = e.ref /\ t = e.t
      BY <2>2 DEF AllOld, NewIs
    <3>2. series'[r].labels = e.l
      BY <3>1 DEF BatchInv, RefsOfBatch, Evolves
    <3>3. <<e.l, e.t>> \in batch[a]
      BY <3>1 DEF StagedByPush
    <3> QED
      BY <3>1, <3>2, <3>3
  <2> QED
    BY <2>1, <2>2
<1> QED
  BY <1>1 DEF PushedBy

LEMMA CommitGoesOnInv ==
    ASSUME IngestInv, NEW a \in Appender, CommitGoesOn(a)
    PROVE  IngestInv'
<1>0. /\ IngestTypeOK /\ HeadInv /\ BatchInv(a) /\ (a \in Target => ScrapeInv(a)) /\ (a \in Request => PushInv(a))
      /\ CountInv
  BY DEF IngestInv
<1>1. /\ Logged(a) \/ Applies(a)
      /\ pc'[a] # "stage"
      /\ UNCHANGED <<clock, cutoff, phase, todo, err, source, batch, clean>> /\ UNCHANGED <<ts, syn, health, known>>
  BY DEF CommitGoesOn, ingestVars, scrapeVars
<1>2. /\ StoreTypeOK' /\ Alone(a) /\ Evolves /\ DOMAIN series' = DOMAIN series
      /\ phase[a] = "commit" /\ todo[a] = {} /\ pc[a] \in {"log", "apply"}
      /\ AllOld \/ (pc[a] = "apply" /\ idx[a] \in DOMAIN pending[a] /\ NewIs(pending[a][idx[a]]))
      /\ pc'[a] = "apply" /\ pending'[a] = pending[a] /\ idx'[a] \in DOMAIN pending[a]
      /\ \A i \in DOMAIN pending[a] : i < idx'[a] /\ pending[a][i].ref \in DOMAIN series =>
           \/ pending[a][i].t \in DOMAIN series'[pending[a][i].ref].samples
           \/ pending[a][i].t < cutoff
  BY <1>0, <1>1, CommitIs
<1>3. IngestTypeOK'
  BY <1>0, <1>1, <1>2 DEF IngestTypeOK
<1>4. (\A b \in Appender \ {a} : Kept(b)) /\ (\A b \in Target \ {a} : KeptScrape(b))
  <2>1. clock <= clock'
    <3>1. clock \in Int
      BY <1>0, Numbers
    <3>2. clock' = clock
      BY <1>1
    <3> QED
      BY <3>1, <3>2
  <2> QED
    BY <1>0, <1>1, <1>2, <2>1, FrameIs
<1>5. BatchInv(a)'
  <2>1. RefsOfBatch(a)'
    <3>1. ASSUME NEW i \in DOMAIN pending[a]
          PROVE  /\ pending[a][i].ref <= lastRef'
                 /\ pending[a][i].ref \in DOMAIN series' => series'[pending[a][i].ref].labels = pending[a][i].l
      <4>1. /\ pending[a][i].ref \in Nat /\ lastRef \in Nat /\ lastRef' \in Nat
            /\ pending[a][i].ref <= lastRef /\ lastRef <= lastRef'
        BY <1>0, <1>2, <1>3, StagedIs, Numbers, NumbersNext DEF BatchInv, RefsOfBatch, Evolves
      <4>2. pending[a][i].ref \in DOMAIN series' => series'[pending[a][i].ref].labels = pending[a][i].l
        BY <1>0, <1>2 DEF BatchInv, RefsOfBatch, Evolves
      <4> QED
        BY <4>1, <4>2
    <3> QED
      BY <1>2, <3>1 DEF RefsOfBatch
  <2>2. AppliedOf(a)'
    <3>1. ASSUME NEW i \in DOMAIN pending[a], clean[a] PROVE pending[a][i].ref \in DOMAIN series'
      BY <1>0, <1>2, <3>1 DEF BatchInv, AppliedOf
    <3> QED
      BY <1>1, <1>2, <3>1 DEF AppliedOf, Holds
  <2>3. ControlOf(a)'
    BY <1>0, <1>1, <1>2 DEF BatchInv, ControlOf
  <2>4. CompleteOf(a)'
    <3>1. CompleteOf(a) /\ batch'[a] = batch[a] /\ todo'[a] = todo[a] /\ err'[a] = err[a]
      BY <1>0, <1>1 DEF BatchInv
    <3>2. ASSUME err[a] = "", NEW s \in batch[a] \ todo[a]
          PROVE  \E i \in DOMAIN pending[a] : pending[a][i].l = s[1] /\ pending[a][i].t = s[2]
      BY <1>2, <3>1, <3>2 DEF CompleteOf
    <3> QED
      BY <1>2, <3>1, <3>2 DEF CompleteOf
  <2>5. StoredOf(a)'
    BY <1>1, <1>2 DEF StoredOf
  <2> QED
    BY <2>1, <2>2, <2>3, <2>4, <2>5 DEF BatchInv
<1>6. ASSUME a \in Target PROVE ScrapeInv(a)'
  <2>0. /\ ControlOfScrape(a) /\ StagedByScrape(a) /\ ScrapedBy(a) /\ UpOf(a)
        /\ ts'[a] = ts[a] /\ syn'[a] = syn[a] /\ phase'[a] = phase[a] /\ err'[a] = err[a] /\ known'[a] = known[a]
    BY <1>0, <1>1, <1>6 DEF ScrapeInv
  <2>1. ControlOfScrape(a)'
    BY <1>1, <2>0 DEF ControlOfScrape
  <2>2. StagedByScrape(a)'
    <3>1. \A l, w : Scraped(a, l, w)' <=> Scraped(a, l, w)
      BY <2>0 DEF Scraped, SyntheticValue
    <3>2. SeriesOf(a)' = SeriesOf(a)
      BY DEF SeriesOf
    <3> QED
      BY <1>2, <2>0, <3>1, <3>2 DEF StagedByScrape
  <2>3. ScrapedBy(a)'
    <3>1. Recording(a)'
      BY <1>2, <2>0 DEF Recording
    <3> QED
      BY <1>0, <1>2, <1>6, <2>0, <3>1, CommitScrapes
  <2>4. UpOf(a)'
    <3> SUFFICES ASSUME known[a] PROVE HasUp(a)' /\ UpStaged(a)'
      BY <1>2, <2>0 DEF UpOf
    <3>1. HasUp(a) /\ syn[a] = 4
      BY <1>2, <2>0 DEF UpOf, ControlOfScrape
    <3>2. UpStaged(a)
      BY <1>2, <2>0, <3>1 DEF UpOf
    <3>3. HasUp(a)'
      BY <1>1, <1>2, <1>6, <3>1, HasUpStays
    <3>4. UpStaged(a)'
      BY <1>2, <2>0, <3>2 DEF UpStaged
    <3> QED
      BY <3>3, <3>4
  <2> QED
    BY <2>1, <2>2, <2>3, <2>4 DEF ScrapeInv
<1>7. ASSUME a \in Request PROVE PushInv(a)'
  <2>0. ControlOfPush(a) /\ StagedByPush(a) /\ PushedBy(a)
    BY <1>0, <1>7 DEF PushInv
  <2>1. ControlOfPush(a)' /\ StagedByPush(a)'
    BY <1>1, <1>2, <2>0 DEF ControlOfPush, StagedByPush
  <2>2. PushedBy(a)'
    <3>1. Accepting(a)' /\ batch'[a] = batch[a]
      BY <1>1, <1>2 DEF Accepting
    <3> QED
      BY <1>0, <1>2, <1>7, <2>0, <3>1, CommitPushes
  <2> QED
    BY <2>1, <2>2 DEF PushInv
<1>8. CountInv'
  BY <1>0, <1>1, <1>2, <1>4, CountStays
<1> QED
  BY <1>2, <1>3, <1>4, <1>5, <1>6, <1>7, <1>8, StepOf

LEMMA StoredIs ==
    ASSUME IngestTypeOK', NEW s, NEW r \in DOMAIN series', series'[r].labels = s[1],
           s[2] \in DOMAIN series'[r].samples
    PROVE  Stored(s, Value)'
<1>1. HeadTypeOK'
  BY DEF IngestTypeOK, StoreTypeOK
<1>2. series'[r] \in [labels : Label, samples : Samples]
  BY <1>1 DEF HeadTypeOK
<1>3. PICK T \in SUBSET Time : series'[r].samples \in [T -> Value]
  BY <1>2 DEF Samples
<1>4. series'[r].samples[s[2]] \in Value
  BY <1>3
<1> QED
  BY <1>4 DEF Stored, RefsOf

\* The last step of Commit, whichever it is.
LEMMA CommitReturnsIs ==
    ASSUME IngestTypeOK, HeadInv, NEW a \in Appender, BatchInv(a), cutoff' = cutoff,
           NEW e \in {"", "commit"}, CommitReturns(a, e)
    PROVE  /\ StoreTypeOK' /\ Alone(a) /\ Evolves /\ DOMAIN series' = DOMAIN series
           /\ phase[a] = "commit" /\ todo[a] = {} /\ pc[a] \in {"log", "apply"}
           /\ AllOld \/ (pc[a] = "apply" /\ idx[a] \in DOMAIN pending[a] /\ NewIs(pending[a][idx[a]]))
           /\ e = "commit" => pc[a] = "log" /\ AllOld
           /\ pc'[a] = "stage" /\ pending'[a] = <<>>
           /\ e = "" => \A i \in DOMAIN pending[a] : pending[a][i].ref \in DOMAIN series =>
                \/ pending[a][i].t \in DOMAIN series'[pending[a][i].ref].samples
                \/ pending[a][i].t < cutoff
<1>1. CASE e = "" /\ (Logged(a) \/ Applies(a))
  BY <1>1, CommitIs DEF CommitReturns
<1>2. CASE e = "commit" /\ Fails(a)
  <2>1. StoreTypeOK /\ ControlOf(a)
    BY DEF IngestTypeOK, BatchInv
  <2>2. /\ StoreTypeOK' /\ Alone(a) /\ UNCHANGED headVars /\ pc[a] = "log"
        /\ pc'[a] = "stage" /\ pending'[a] = <<>>
    BY <1>2, <2>1, FailsIs
  <2>3. Evolves /\ AllOld /\ series' = series
    BY <2>2, SameEvolves DEF headVars
  <2>4. phase[a] \in {"idle", "fetch", "append", "synthetic", "commit", "record", "done"}
    BY DEF IngestTypeOK
  <2>5. phase[a] = "commit" /\ todo[a] = {}
    BY <2>1, <2>2, <2>4 DEF ControlOf
  <2> QED
    BY <1>2, <2>2, <2>3, <2>5
<1> QED
  BY <1>1, <1>2 DEF CommitReturns

\* What was staged is stored, if its series is there.
LEMMA AllStored ==
    ASSUME IngestTypeOK, IngestTypeOK', NEW a \in Appender, BatchInv(a), Evolves, DOMAIN series' = DOMAIN series,
           phase[a] = "commit", todo[a] = {}, err[a] = "", clean[a], cutoff' = cutoff,
           \A i \in DOMAIN pending[a] : pending[a][i].ref \in DOMAIN series =>
                \/ pending[a][i].t \in DOMAIN series'[pending[a][i].ref].samples
                \/ pending[a][i].t < cutoff,
           NEW s \in batch[a]
    PROVE  Stored(s, Value)' \/ Expired(s)'
<1>1. PICK i \in DOMAIN pending[a] : pending[a][i].l = s[1] /\ pending[a][i].t = s[2]
  BY DEF BatchInv, CompleteOf
<1>2. PICK r : r = pending[a][i].ref
  OBVIOUS
<1>3. r \in DOMAIN series /\ r \in DOMAIN series'
  BY <1>2 DEF BatchInv, AppliedOf
<1>4. series'[r].labels = s[1]
  BY <1>1, <1>2, <1>3 DEF BatchInv, RefsOfBatch, Evolves
<1>5. CASE s[2] \in DOMAIN series'[r].samples
  BY <1>3, <1>4, <1>5, StoredIs
<1>6. CASE s[2] < cutoff
  BY <1>6 DEF Expired
<1> QED
  BY <1>1, <1>2, <1>3, <1>5, <1>6

\* Arithmetic that the long steps below cite by name.
LEMMA Reflexive == \A n \in Int : n <= n
OBVIOUS

LEMMA Positive == \A n \in Nat : n # 0 <=> n > 0
OBVIOUS

LEMMA PastTheFirst == \A n : n = 4 => n > 1
OBVIOUS

LEMMA UpOfHealth ==
    ASSUME NEW u \in BOOLEAN, NEW n, NEW e, NEW h, h = [up |-> u, samples |-> n, error |-> e]
    PROVE  h.up <=> u
OBVIOUS

LEMMA ScrapeReturnsInv ==
    ASSUME IngestInv, NEW a \in Target, ScrapeReturns(a)
    PROVE  IngestInv'
<1>0. /\ IngestTypeOK /\ HeadInv /\ BatchInv(a) /\ a \in Appender /\ a \notin Request
      /\ ControlOfScrape(a) /\ StagedByScrape(a) /\ ScrapedBy(a) /\ UpOf(a) /\ CountInv
  BY WritersAssumption DEF IngestInv, ScrapeInv
<1>1. PICK e \in {"", "commit"} :
        LET final == IF err[a] = "" THEN e ELSE err[a]
            stored == IF err[a] = "" THEN Cardinality(batch[a]) ELSE 0
        IN  /\ CommitReturns(a, e)
            /\ health' = [health EXCEPT ![a] =
                            [up |-> final = "", samples |-> stored, error |-> final]]
            /\ err' = [err EXCEPT ![a] = IF e = "" THEN @ ELSE "commit"]
            /\ Enters(a, "idle")
            /\ UNCHANGED <<clock, cutoff, ts, todo, syn, source, batch, known, clean>>
  BY DEF ScrapeReturns
<1> DEFINE final == IF err[a] = "" THEN e ELSE err[a]
           stored == IF err[a] = "" THEN Cardinality(batch[a]) ELSE 0
           good == final = ""
<1>2. /\ CommitReturns(a, e)
      /\ health' = [health EXCEPT ![a] = [up |-> good, samples |-> stored, error |-> final]]
      /\ err' = [err EXCEPT ![a] = IF e = "" THEN err[a] ELSE "commit"]
      /\ phase' = [phase EXCEPT ![a] = "idle"]
      /\ UNCHANGED <<clock, cutoff, todo, source, batch, clean>> /\ UNCHANGED <<ts, syn, known>>
  BY <1>1 DEF Enters
<1>3. /\ StoreTypeOK' /\ Alone(a) /\ Evolves /\ DOMAIN series' = DOMAIN series
      /\ phase[a] = "commit" /\ todo[a] = {} /\ pc[a] \in {"log", "apply"}
      /\ AllOld \/ (pc[a] = "apply" /\ idx[a] \in DOMAIN pending[a] /\ NewIs(pending[a][idx[a]]))
      /\ e = "commit" => pc[a] = "log" /\ AllOld
      /\ pc'[a] = "stage" /\ pending'[a] = <<>>
      /\ e = "" => \A i \in DOMAIN pending[a] : pending[a][i].ref \in DOMAIN series =>
           \/ pending[a][i].t \in DOMAIN series'[pending[a][i].ref].samples
           \/ pending[a][i].t < cutoff
  BY <1>0, <1>2, CommitReturnsIs
<1>4. err[a] # "commit" /\ syn[a] = 4 /\ ts[a] > 0 /\ ts[a] \in Nat /\ err[a] \in Error
  <2>1. ts[a] # 0 /\ err[a] # "commit" /\ syn[a] = 4
    BY <1>0, <1>3 DEF ControlOfScrape
  <2>2. ts[a] \in Nat
    BY <1>0, Numbers
  <2>3. err[a] \in Error
    BY <1>0 DEF IngestTypeOK
  <2>4. ts[a] > 0
    BY <2>1, <2>2, Positive
  <2> QED
    BY <2>1, <2>2, <2>3, <2>4
<1>5. good \in BOOLEAN /\ (good <=> final = "") /\ stored \in Nat /\ final \in Error /\ (final = "" <=> err[a] = "" /\ e = "")
  <2>1. IsFiniteSet(Exposed[a] \X {ts[a]})
    BY FiniteAssumption, FS_Singleton, FS_Product
  <2>2. IsFiniteSet(batch[a])
    BY <1>0, <2>1, FS_Subset DEF ControlOfScrape
  <2>3. Cardinality(batch[a]) \in Nat
    BY <2>2, FS_CardinalityType
  <2>4. final \in Error /\ (final = "" <=> err[a] = "" /\ e = "")
    BY <1>4 DEF Error
  <2> QED
    BY <2>3, <2>4
<1> HIDE DEF good, final, stored
<1>6. /\ phase'[a] = "idle" /\ err'[a] = (IF e = "" THEN err[a] ELSE "commit")
      /\ health'[a] = [up |-> good, samples |-> stored, error |-> final]
  BY <1>0, <1>2 DEF IngestTypeOK
<1>7. \A b \in Appender \ {a} : phase'[b] = phase[b] /\ err'[b] = err[b]
  BY <1>0, <1>2 DEF IngestTypeOK
<1>8. \A b \in Target \ {a} : health'[b] = health[b]
  BY <1>0, <1>2 DEF IngestTypeOK
<1>9. IngestTypeOK'
  <2>1. phase' \in [Appender -> {"idle", "fetch", "append", "synthetic", "commit", "record", "done"}]
    BY <1>0, <1>2 DEF IngestTypeOK
  <2>2. err' \in [Appender -> Error]
    <3>1. err \in [Appender -> Error] /\ (IF e = "" THEN err[a] ELSE "commit") \in Error
      BY <1>0, <1>4 DEF IngestTypeOK, Error
    <3> QED
      BY <1>2, <3>1
  <2>3. health' \in [Target -> [up : BOOLEAN, samples : Nat, error : Error]]
    <3> DEFINE H == [up : BOOLEAN, samples : Nat, error : Error]
    <3>1. health \in [Target -> H]
      BY <1>0 DEF IngestTypeOK
    <3>2. [up |-> good, samples |-> stored, error |-> final] \in H
      BY <1>5
    <3> HIDE DEF H
    <3>3. health' \in [Target -> H]
      BY <1>2, <3>1, <3>2
    <3> QED
      BY <3>3 DEF H
  <2> QED
    BY <1>0, <1>2, <1>3, <2>1, <2>2, <2>3 DEF IngestTypeOK
<1>10. BatchInv(a)'
  <2>1. RefsOfBatch(a)' /\ AppliedOf(a)'
    BY <1>0, <1>3, NothingStaged
  <2>2. ControlOf(a)'
    BY <1>2, <1>3, <1>6 DEF ControlOf
  <2>3. CompleteOf(a)'
    BY <1>6 DEF CompleteOf
  <2>4. StoredOf(a)'
    <3> SUFFICES ASSUME err'[a] = "", clean'[a], NEW s \in batch'[a]
                 PROVE  Stored(s, Value)' \/ Expired(s)'
      BY DEF StoredOf
    <3>1. e = "" /\ err[a] = "" /\ clean[a] /\ s \in batch[a] /\ cutoff' = cutoff
      BY <1>2, <1>6
    <3> QED
      BY <1>0, <1>3, <1>9, <3>1, AllStored
  <2> QED
    BY <2>1, <2>2, <2>3, <2>4 DEF BatchInv
<1>11. ScrapeInv(a)'
  <2>1. ControlOfScrape(a)'
    <3>1. ts'[a] = ts[a] /\ clock' = clock /\ batch'[a] = batch[a]
      BY <1>2
    <3>2. health'[a].up <=> err'[a] = "" /\ ts'[a] > 0
      <4>1. health'[a].up <=> good
        BY <1>5, <1>6, UpOfHealth
      <4>2. err'[a] = "" <=> e = "" /\ err[a] = ""
        BY <1>6
      <4> QED
        BY <1>4, <1>5, <3>1, <4>1, <4>2, Zenon
    <3>3. ts'[a] # 0
      BY <1>0, <1>3, <3>1, Zenon DEF ControlOfScrape
    <3>4. ts'[a] <= clock'
      BY <1>0, <3>1, Zenon DEF ControlOfScrape
    <3>5. batch'[a] \subseteq Exposed[a] \X {ts'[a]}
      BY <1>0, <3>1, Zenon DEF ControlOfScrape
    <3>6. err'[a] # "commit" \/ phase'[a] = "idle"
      BY <1>6
    <3> QED
      BY <1>6, <3>2, <3>3, <3>4, <3>5, <3>6 DEF ControlOfScrape
  <2>2. StagedByScrape(a)'
    BY <1>0, <1>3, NothingStaged
  <2>3. ScrapedBy(a)'
    <3>1. CASE e = ""
      <4>1. Recording(a)' /\ err'[a] = err[a] /\ ts'[a] = ts[a]
        BY <1>2, <1>4, <1>6, <3>1 DEF Recording
      <4> QED
        BY <1>0, <1>3, <4>1, CommitScrapes
    <3>2. CASE e = "commit"
      <4>1. ~Recording(a) /\ ts'[a] = ts[a]
        BY <1>2, <1>3, <3>2 DEF Recording
      <4> QED
        BY <1>0, <1>3, <3>2, <4>1, NotYetScraped
    <3> QED
      BY <3>1, <3>2
  <2>4. UpOf(a)'
    <3> SUFFICES ASSUME known[a], err'[a] # "commit"
                 PROVE  Stored(<<Synthetic[a][1], ts[a]>>, Value)' \/ ts[a] < cutoff
      BY <1>2, <1>6 DEF UpOf
    <3>1. e = "" /\ UpStaged(a)
      <4>1. e = ""
        BY <1>6
      <4>2. phase[a] = "commit" /\ syn[a] > 1 => UpStaged(a)
        BY <1>0 DEF UpOf
      <4>3. syn[a] > 1
        BY <1>4, PastTheFirst
      <4> QED
        BY <1>3, <4>1, <4>2, <4>3
    <3>2. PICK i \in DOMAIN pending[a] : /\ pending[a][i].l = Synthetic[a][1] /\ pending[a][i].t = ts[a]
                                         /\ pending[a][i].ref \in DOMAIN series
      BY <3>1 DEF UpStaged
    <3>3. PICK r, s : r = pending[a][i].ref /\ s = <<Synthetic[a][1], ts[a]>>
      OBVIOUS
    <3>4. r \in DOMAIN series' /\ series'[r].labels = s[1]
      BY <1>0, <1>3, <3>2, <3>3 DEF BatchInv, RefsOfBatch, Evolves
    <3>5. s[2] \in DOMAIN series'[r].samples \/ ts[a] < cutoff
      BY <1>3, <3>1, <3>2, <3>3
    <3>6. CASE s[2] \in DOMAIN series'[r].samples
      <4>1. Stored(s, Value)'
        BY <1>9, <3>4, <3>6, StoredIs
      <4> QED
        BY <1>2, <3>3, <4>1 DEF Stored, RefsOf
    <3> QED
      BY <3>5, <3>6
  <2> QED
    BY <2>1, <2>2, <2>3, <2>4 DEF ScrapeInv
<1>12. (\A b \in Appender \ {a} : Kept(b)) /\ (\A b \in Target \ {a} : KeptScrape(b))
  <2>1. clock <= clock'
    <3>1. clock \in Int
      BY <1>0, Numbers
    <3>2. clock' = clock
      BY <1>2
    <3>3. clock <= clock
      BY <3>1, Reflexive
    <3> QED
      BY <3>2, <3>3, Zenon
  <2> QED
    BY <1>0, <1>2, <1>3, <1>7, <1>8, <2>1, FrameIs
<1>13. CountInv'
  BY <1>0, <1>2, <1>3, <1>6, <1>12, CountStays
<1> QED
  BY <1>0, <1>3, <1>9, <1>10, <1>11, <1>12, <1>13, StepOf

LEMMA CommitPushReturnsInv ==
    ASSUME IngestInv, NEW a \in Request, CommitPushReturns(a)
    PROVE  IngestInv'
<1>0. /\ IngestTypeOK /\ HeadInv /\ BatchInv(a) /\ a \in Appender /\ a \notin Target
      /\ ControlOfPush(a) /\ StagedByPush(a) /\ PushedBy(a) /\ CountInv
  BY WritersAssumption DEF IngestInv, PushInv
<1>1. PICK e \in {"", "commit"} :
        /\ CommitReturns(a, e) /\ err' = [err EXCEPT ![a] = e] /\ phase' = [phase EXCEPT ![a] = "record"]
        /\ UNCHANGED <<clock, cutoff, todo, source, batch, clean>> /\ UNCHANGED <<ts, syn, health, known>>
  BY DEF CommitPushReturns, Enters, scrapeVars
<1>2. /\ StoreTypeOK' /\ Alone(a) /\ Evolves /\ DOMAIN series' = DOMAIN series
      /\ phase[a] = "commit" /\ todo[a] = {} /\ pc[a] \in {"log", "apply"}
      /\ AllOld \/ (pc[a] = "apply" /\ idx[a] \in DOMAIN pending[a] /\ NewIs(pending[a][idx[a]]))
      /\ e = "commit" => pc[a] = "log" /\ AllOld
      /\ pc'[a] = "stage" /\ pending'[a] = <<>>
      /\ e = "" => \A i \in DOMAIN pending[a] : pending[a][i].ref \in DOMAIN series =>
           \/ pending[a][i].t \in DOMAIN series'[pending[a][i].ref].samples
           \/ pending[a][i].t < cutoff
  BY <1>0, <1>1, CommitReturnsIs
<1>3. phase'[a] = "record" /\ err'[a] = e /\ \A b \in Appender \ {a} : phase'[b] = phase[b] /\ err'[b] = err[b]
  BY <1>0, <1>1 DEF IngestTypeOK
<1>4. err[a] = ""
  BY <1>0, <1>2 DEF ControlOfPush
<1>5. IngestTypeOK'
  <2>1. phase' \in [Appender -> {"idle", "fetch", "append", "synthetic", "commit", "record", "done"}]
    BY <1>0, <1>1 DEF IngestTypeOK
  <2>2. err' \in [Appender -> Error]
    BY <1>0, <1>1 DEF IngestTypeOK, Error
  <2> QED
    BY <1>0, <1>1, <1>2, <2>1, <2>2 DEF IngestTypeOK
<1>6. BatchInv(a)'
  <2>1. RefsOfBatch(a)' /\ AppliedOf(a)'
    BY <1>0, <1>2, NothingStaged
  <2>2. ControlOf(a)'
    BY <1>1, <1>2, <1>3 DEF ControlOf
  <2>3. CompleteOf(a)'
    BY <1>3 DEF CompleteOf
  <2>4. StoredOf(a)'
    <3> SUFFICES ASSUME err'[a] = "", clean'[a], NEW s \in batch'[a]
                 PROVE  Stored(s, Value)' \/ Expired(s)'
      BY DEF StoredOf
    <3>1. e = "" /\ clean[a] /\ s \in batch[a] /\ cutoff' = cutoff
      BY <1>1, <1>3
    <3> QED
      BY <1>0, <1>2, <1>4, <1>5, <3>1, AllStored
  <2> QED
    BY <2>1, <2>2, <2>3, <2>4 DEF BatchInv
<1>7. PushInv(a)'
  <2>1. ControlOfPush(a)'
    BY <1>0, <1>1, <1>2, <1>3 DEF ControlOfPush
  <2>2. StagedByPush(a)'
    BY <1>0, <1>2, NothingStaged
  <2>3. PushedBy(a)'
    <3>1. CASE e = ""
      <4>1. Accepting(a)' /\ batch'[a] = batch[a]
        BY <1>1, <1>3, <3>1 DEF Accepting
      <4> QED
        BY <1>0, <1>2, <4>1, CommitPushes
    <3>2. CASE e = "commit"
      <4>1. ~Accepting(a)
        BY <1>2, <3>2 DEF Accepting
      <4> QED
        BY <1>0, <1>2, <3>2, <4>1, NotYetPushed
    <3> QED
      BY <3>1, <3>2
  <2> QED
    BY <2>1, <2>2, <2>3 DEF PushInv
<1>8. (\A b \in Appender \ {a} : Kept(b)) /\ (\A b \in Target \ {a} : KeptScrape(b))
  <2>1. clock <= clock'
    <3>1. clock \in Int
      BY <1>0, Numbers
    <3>2. clock' = clock
      BY <1>1
    <3>3. clock <= clock
      BY <3>1, Reflexive
    <3> QED
      BY <3>2, <3>3, Zenon
  <2> QED
    BY <1>0, <1>1, <1>2, <1>3, <2>1, FrameIs
<1>9. CountInv'
  BY <1>0, <1>1, <1>2, <1>3, <1>8, CountStays
<1> QED
  BY <1>0, <1>2, <1>5, <1>6, <1>7, <1>8, <1>9, StepOf

-----------------------------------------------------------------------------
(* The invariant holds *)

LEMMA NoPlaces == DOMAIN <<>> = {}
OBVIOUS

LEMMA AtZero == 1 \in Nat \ {0} /\ 0 <= 0 /\ ~(0 > 0)
OBVIOUS

LEMMA InvInit == IngestInit => IngestInv
<1> SUFFICES ASSUME IngestInit PROVE IngestInv
  OBVIOUS
<1>1. /\ series = [r \in {} |-> r] /\ DOMAIN series = {} /\ lastRef = 0 /\ clock = 0 /\ cutoff = -1
      /\ source = [pushes |-> 0, samples |-> 0, error |-> ""]
      /\ \A a \in Appender : /\ pc[a] = "stage" /\ pending[a] = <<>> /\ idx[a] = 1 /\ phase[a] = "idle"
                             /\ todo[a] = {} /\ err[a] = "" /\ batch[a] = {} /\ clean[a]
      /\ \A a \in Target : /\ ts[a] = 0 /\ syn[a] = 1 /\ ~known[a]
                           /\ health[a] = [up |-> FALSE, samples |-> 0, error |-> ""]
  BY DEF IngestInit, StoreInit, HeadInit
<1>2. IngestTypeOK
  <2>1. StoreTypeOK
    <3>1. HeadTypeOK
      BY <1>1 DEF HeadTypeOK
    <3>2. /\ newSeries \in [Appender -> Seq([ref : Ref, l : Label])]
          /\ pending \in [Appender -> Seq(Staged)]
      <4>1. \A S : <<>> \in Seq(S)
        OBVIOUS
      <4>2. newSeries = [a \in Appender |-> <<>>] /\ pending = [a \in Appender |-> <<>>]
        BY DEF IngestInit, StoreInit
      <4> QED
        BY <4>1, <4>2
    <3>3. pc \in [Appender -> {"stage", "log", "apply", "rollback"}]
      BY DEF IngestInit, StoreInit
    <3>4. idx \in [Appender -> Nat \ {0}]
      BY AtZero DEF IngestInit, StoreInit
    <3> QED
      BY <3>1, <3>2, <3>3, <3>4 DEF StoreTypeOK
  <2>2. /\ clock \in 0 .. MaxTime /\ cutoff \in MinT \cup {-1} /\ ts \in [Target -> 0 .. MaxTime]
        /\ syn \in [Target -> 1 .. 4]
    <3>1. 0 \in 0 .. MaxTime
      BY ClockAssumption
    <3>2. 1 \in 1 .. 4
      OBVIOUS
    <3> QED
      BY <3>1, <3>2 DEF IngestInit
  <2>3. health \in [Target -> [up : BOOLEAN, samples : Nat, error : Error]]
    <3> DEFINE H == [up : BOOLEAN, samples : Nat, error : Error]
    <3>1. [up |-> FALSE, samples |-> 0, error |-> ""] \in H
      BY DEF Error
    <3> HIDE DEF H
    <3>2. health \in [Target -> H]
      BY <3>1 DEF IngestInit
    <3> QED
      BY <3>2 DEF H
  <2>4. source \in [pushes : Nat, samples : Nat, error : Error]
    BY <1>1 DEF Error
  <2>5. /\ phase \in [Appender -> {"idle", "fetch", "append", "synthetic", "commit", "record", "done"}]
        /\ todo \in [Appender -> SUBSET (Label \X Time)] /\ batch \in [Appender -> SUBSET (Label \X Time)]
        /\ err \in [Appender -> Error] /\ known \in [Target -> BOOLEAN] /\ clean \in [Appender -> BOOLEAN]
    <3> DEFINE S == SUBSET (Label \X Time)
    <3>1. {} \in S
      OBVIOUS
    <3> HIDE DEF S
    <3>2. todo \in [Appender -> S] /\ batch \in [Appender -> S]
      BY <3>1 DEF IngestInit
    <3>3. todo \in [Appender -> SUBSET (Label \X Time)] /\ batch \in [Appender -> SUBSET (Label \X Time)]
      BY <3>2 DEF S
    <3> QED
      BY <3>3 DEF IngestInit, Error
  <2> QED
    BY <2>1, <2>2, <2>3, <2>4, <2>5 DEF IngestTypeOK
<1>3. HeadInv
  BY <1>1 DEF HeadInv
<1>4. ASSUME NEW a \in Appender PROVE BatchInv(a)
  <2>1. RefsOfBatch(a) /\ AppliedOf(a)
    <3>1. DOMAIN pending[a] = {}
      BY <1>1, NoPlaces, Zenon
    <3> QED
      BY <3>1 DEF RefsOfBatch, AppliedOf
  <2>2. ControlOf(a) /\ CompleteOf(a)
    BY <1>1 DEF ControlOf, CompleteOf
  <2>3. StoredOf(a)
    BY <1>1 DEF StoredOf
  <2> QED
    BY <2>1, <2>2, <2>3 DEF BatchInv
<1>5. ASSUME NEW a \in Target PROVE ScrapeInv(a)
  <2>1. a \in Appender /\ DOMAIN pending[a] = {} /\ phase[a] = "idle" /\ err[a] = "" /\ batch[a] = {}
        /\ ts[a] = 0 /\ clock = 0 /\ ~known[a] /\ ~health[a].up
    <3>1. a \in Appender
      BY WritersAssumption
    <3>2. DOMAIN pending[a] = {}
      BY <1>1, <3>1, NoPlaces, Zenon
    <3>3. phase[a] = "idle" /\ err[a] = "" /\ batch[a] = {} /\ ts[a] = 0 /\ clock = 0 /\ ~known[a]
      BY <1>1, <3>1, Zenon
    <3>4. ~health[a].up
      <4>1. PICK u \in BOOLEAN : u = FALSE
        OBVIOUS
      <4>2. health[a] = [up |-> u, samples |-> 0, error |-> ""]
        BY <1>1, <4>1, Zenon
      <4> QED
        BY <4>1, <4>2, UpOfHealth
    <3> QED
      BY <3>1, <3>2, <3>3, <3>4
  <2>2. ControlOfScrape(a)
    <3>1. batch[a] \subseteq Exposed[a] \X {ts[a]}
      BY <2>1
    <3>2. ts[a] <= clock
      BY <2>1, AtZero, Zenon
    <3>3. ~(ts[a] > 0)
      BY <2>1, AtZero, Zenon
    <3> QED
      BY <2>1, <3>1, <3>2, <3>3 DEF ControlOfScrape
  <2>3. StagedByScrape(a)
    BY <2>1 DEF StagedByScrape
  <2>4. ScrapedBy(a)
    BY <1>1 DEF ScrapedBy
  <2>5. UpOf(a)
    BY <2>1 DEF UpOf
  <2> QED
    BY <2>2, <2>3, <2>4, <2>5 DEF ScrapeInv
<1>6. ASSUME NEW a \in Request PROVE PushInv(a)
  <2>1. DOMAIN pending[a] = {} /\ phase[a] = "idle" /\ batch[a] = {}
    BY <1>1, WritersAssumption, NoPlaces
  <2>2. ControlOfPush(a)
    BY <2>1 DEF ControlOfPush
  <2>3. StagedByPush(a)
    BY <2>1 DEF StagedByPush
  <2>4. PushedBy(a)
    BY <1>1 DEF PushedBy
  <2> QED
    BY <2>2, <2>3, <2>4 DEF PushInv
<1>7. CountInv
  <2>1. \A a \in Request : phase[a] # "done"
    BY <1>1, WritersAssumption
  <2>2. Accepted = {}
    BY <2>1 DEF Accepted
  <2>3. IsFiniteSet({}) /\ Cardinality({}) = 0
    BY FS_EmptySet
  <2> QED
    BY <1>1, <2>2, <2>3 DEF CountInv
<1> QED
  BY <1>2, <1>3, <1>4, <1>5, <1>6, <1>7 DEF IngestInv

LEMMA Stutters ==
    ASSUME IngestInv, UNCHANGED allVars
    PROVE  IngestInv'
<1> USE DEF allVars, storeVars, headVars, batchVars, ingestVars, scrapeVars
<1>1. IngestTypeOK'
  <2>1. StoreTypeOK'
    BY DEF IngestInv, IngestTypeOK, StoreTypeOK, HeadTypeOK
  <2> QED
    BY <2>1 DEF IngestInv, IngestTypeOK
<1>2. HeadInv' /\ CountInv'
  BY DEF IngestInv, HeadInv, CountInv, Accepted
<1>3. ASSUME NEW a \in Appender PROVE BatchInv(a)'
  <2>0. RefsOfBatch(a) /\ ControlOf(a) /\ CompleteOf(a) /\ AppliedOf(a) /\ StoredOf(a)
    BY DEF IngestInv, BatchInv
  <2>1. RefsOfBatch(a)'
    BY <2>0 DEF RefsOfBatch
  <2>2. ControlOf(a)' /\ CompleteOf(a)'
    BY <2>0 DEF ControlOf, CompleteOf
  <2>3. AppliedOf(a)'
    BY <2>0 DEF AppliedOf, Holds
  <2>4. StoredOf(a)'
    BY <2>0 DEF StoredOf, Stored, RefsOf, Expired
  <2> QED
    BY <2>1, <2>2, <2>3, <2>4 DEF BatchInv
<1>4. ASSUME NEW a \in Target PROVE ScrapeInv(a)'
  <2>0. ControlOfScrape(a) /\ StagedByScrape(a) /\ ScrapedBy(a) /\ UpOf(a)
    BY DEF IngestInv, ScrapeInv
  <2>1. ControlOfScrape(a)'
    BY <2>0 DEF ControlOfScrape
  <2>2. StagedByScrape(a)'
    BY <2>0 DEF StagedByScrape, Scraped, SyntheticValue, SeriesOf
  <2>3. ScrapedBy(a)'
    <3>1. \A l, w : Scraped(a, l, w)' <=> Scraped(a, l, w)
      BY DEF Scraped, SyntheticValue
    <3>2. Recording(a)' <=> Recording(a)
      BY DEF Recording
    <3>3. SeriesOf(a)' = SeriesOf(a) /\ Pushed' = Pushed
      BY DEF SeriesOf, Pushed
    <3>4. series' = series /\ ts' = ts
      OBVIOUS
    <3> QED
      BY <2>0, <3>1, <3>2, <3>3, <3>4 DEF ScrapedBy
  <2>4. UpOf(a)'
    BY <2>0 DEF UpOf, HasUp, UpStaged, Stored, RefsOf
  <2> QED
    BY <2>1, <2>2, <2>3, <2>4 DEF ScrapeInv
<1>5. ASSUME NEW a \in Request PROVE PushInv(a)'
  <2>0. ControlOfPush(a) /\ StagedByPush(a) /\ PushedBy(a)
    BY DEF IngestInv, PushInv
  <2>1. ControlOfPush(a)' /\ StagedByPush(a)'
    BY <2>0 DEF ControlOfPush, StagedByPush
  <2>2. PushedBy(a)'
    BY <2>0 DEF PushedBy, Accepting
  <2> QED
    BY <2>1, <2>2 DEF PushInv
<1> QED
  BY <1>1, <1>2, <1>3, <1>4, <1>5 DEF IngestInv

LEMMA InvNext == IngestInv /\ [IngestNext]_allVars => IngestInv'
<1> SUFFICES ASSUME IngestInv, [IngestNext]_allVars PROVE IngestInv'
  OBVIOUS
<1>1. CASE UNCHANGED allVars
  BY <1>1, Stutters
<1>2. ASSUME NEW a \in Appender, AppendFails(a) \/ RollbackStep(a) \/ CommitGoesOn(a) PROVE IngestInv'
  BY <1>2, AppendFailsInv, RollbackStepInv, CommitGoesOnInv
<1>3. ASSUME NEW a \in Target, AppendNext(a, 0) PROVE IngestInv'
  BY <1>3, AppendNextInv, WritersAssumption, ValueAssumption
<1>4. ASSUME NEW a \in Target,
             \/ ScrapeStart(a) \/ Fetched(a) \/ FetchFails(a) \/ AppendDone(a) \/ AppendSynthetic(a)
             \/ CommitScrape(a) \/ ScrapeReturns(a)
      PROVE  IngestInv'
  BY <1>4, ScrapeStartInv, FetchedInv, FetchFailsInv, AppendDoneInv, AppendSyntheticInv, CommitScrapeInv,
     ScrapeReturnsInv
<1>5. ASSUME NEW a \in Request, AppendNext(a, ValueOf[a]) PROVE IngestInv'
  <2>1. ValueOf[a] \in Value /\ a \in Appender /\ a \notin Target
    BY WritersAssumption, ValueAssumption
  <2> QED
    BY <1>5, <2>1, AppendNextInv
<1>6. ASSUME NEW a \in Request, PushStart(a) \/ CommitPush(a) \/ CommitPushReturns(a) \/ PushReturns(a)
      PROVE  IngestInv'
  BY <1>6, PushStartInv, CommitPushInv, CommitPushReturnsInv, PushReturnsInv
<1>7. ASSUME NEW minT \in MinT, Retention(minT) PROVE IngestInv'
  BY <1>7, RetentionInv
<1> QED
  BY <1>1, <1>2, <1>3, <1>4, <1>5, <1>6, <1>7 DEF IngestNext

\* The inductive invariant holds, whatever targets and requests do.
THEOREM InvariantHolds == IngestSpec => []IngestInv
BY InvInit, InvNext, PTL DEF IngestSpec

\* Every variable of the writers keeps its type.
THEOREM TypeCorrect == IngestSpec => []IngestTypeOK
<1>1. IngestInv => IngestTypeOK
  BY DEF IngestInv
<1> QED
  BY <1>1, InvariantHolds, PTL

-----------------------------------------------------------------------------
(* What follows from it *)

LEMMA ScrapesAllOrNothing == IngestInv => ScrapeAllOrNothing
<1> SUFFICES ASSUME IngestInv, NEW a \in Target, phase[a] = "idle", NEW s \in batch[a]
             PROVE  IF health[a].up THEN Stored(s, Value) \/ Expired(s) \/ ~clean[a] ELSE ~Stored(s, {0})
  BY DEF ScrapeAllOrNothing
<1>1. a \in Appender /\ StoredOf(a) /\ ControlOfScrape(a) /\ ScrapedBy(a) /\ ts[a] \in Nat
  BY WritersAssumption, Numbers DEF IngestInv, BatchInv, ScrapeInv
<1>2. (health[a].up <=> err[a] = "" /\ ts[a] > 0) /\ ts[a] # 0
  BY <1>1 DEF ControlOfScrape
<1>3. health[a].up <=> err[a] = ""
  <2>1. ts[a] > 0
    BY <1>1, <1>2, Positive
  <2> QED
    BY <1>2, <2>1
<1>4. CASE health[a].up
  BY <1>1, <1>3, <1>4 DEF StoredOf
<1>5. ASSUME ~health[a].up, Stored(s, {0}) PROVE FALSE
  <2>0. s \in Exposed[a] \X {ts[a]}
    BY <1>1 DEF ControlOfScrape
  <2>1. PICK l \in Exposed[a], t \in {ts[a]} : s = <<l, t>>
    BY <2>0
  <2>2. PICK r \in DOMAIN series : /\ series[r].labels = l /\ t \in DOMAIN series[r].samples
                                   /\ series[r].samples[t] = 0
    BY <1>5, <2>1 DEF Stored, RefsOf
  <2>3. 0 \notin Pushed
    BY ValueAssumption DEF Pushed
  <2>4. Scraped(a, l, 0)
    BY <1>1, <2>1, <2>2, <2>3 DEF ScrapedBy, SeriesOf
  <2> QED
    BY <1>3, <1>5, <2>4, ExposedAssumption DEF Scraped
<1> QED
  BY <1>4, <1>5

LEMMA PushesAllOrNothing == IngestInv => PushAllOrNothing
<1> SUFFICES ASSUME IngestInv PROVE PushAllOrNothing
  OBVIOUS
<1>1. ASSUME NEW a \in Request, phase[a] = "done", NEW s \in batch[a]
      PROVE  IF err[a] = "" THEN Stored(s, Value) \/ Expired(s) \/ ~clean[a] ELSE ~Stored(s, {ValueOf[a]})
  <2>1. StoredOf(a) /\ PushedBy(a)
    BY WritersAssumption DEF IngestInv, BatchInv, PushInv
  <2>2. CASE err[a] = ""
    BY <1>1, <2>1, <2>2 DEF StoredOf
  <2>3. ASSUME err[a] # "", Stored(s, {ValueOf[a]}) PROVE FALSE
    <3>1. Accepting(a)
      BY <2>1, <2>3 DEF Stored, RefsOf, PushedBy
    <3> QED
      BY <1>1, <2>3, <3>1 DEF Accepting
  <2> QED
    BY <2>2, <2>3
<1>2. source.samples = Cardinality(Accepted)
  BY DEF IngestInv, CountInv
<1> QED
  BY <1>1, <1>2 DEF PushAllOrNothing

\* Scrapes and pushes are stored as a whole or not at all, and health, answer and total
\* say which: for every number of targets and requests, at any cap and any limits.
THEOREM AllOrNothingHolds == IngestSpec => []AllOrNothing
<1>1. IngestInv => AllOrNothing
  BY ScrapesAllOrNothing, PushesAllOrNothing DEF AllOrNothing, IngestInv
<1> QED
  BY <1>1, InvariantHolds, PTL

\* Nobody but the scraper writes an up.
LEMMA UpIsNotPushed ==
    ASSUME IngestInv, NEW a \in Target, NEW r \in DOMAIN series, series[r].labels = Synthetic[a][1],
           NEW t \in DOMAIN series[r].samples
    PROVE  series[r].samples[t] \notin Pushed
<1> SUFFICES ASSUME NEW b \in Request, series[r].samples[t] = ValueOf[b] PROVE FALSE
  BY DEF Pushed
<1>1. PushedBy(b) /\ ControlOfPush(b)
  BY DEF IngestInv, PushInv
<1>2. <<Synthetic[a][1], t>> \in batch[b] /\ Accepting(b)
  BY <1>1 DEF PushedBy
<1>3. phase[b] # "idle"
  BY <1>2 DEF Accepting
<1>4. batch[b] \in Batches[b]
  BY <1>1, <1>3 DEF ControlOfPush
<1> QED
  BY <1>2, <1>4, ExposedAssumption

\* No scrape of a target that has an up series passes without a sample of it that says
\* what became of the scrape.
THEOREM UpRecorded == IngestSpec => []UpIsRecorded
<1>1. IngestInv => UpIsRecorded
  <2> SUFFICES ASSUME IngestInv, NEW a \in Target, phase[a] = "idle", known[a], err[a] # "commit",
                      ~(ts[a] < cutoff)
               PROVE  Stored(<<Synthetic[a][1], ts[a]>>, {IF health[a].up THEN 1 ELSE 0})
    BY DEF UpIsRecorded, Expired
  <2>1. ControlOfScrape(a) /\ ScrapedBy(a) /\ UpOf(a) /\ ts[a] \in Nat
    BY Numbers DEF IngestInv, ScrapeInv
  <2>2. health[a].up <=> err[a] = ""
    <3>1. (health[a].up <=> err[a] = "" /\ ts[a] > 0) /\ ts[a] # 0
      BY <2>1 DEF ControlOfScrape
    <3>2. ts[a] > 0
      BY <2>1, <3>1, Positive
    <3> QED
      BY <3>1, <3>2
  <2>3. PICK r \in DOMAIN series : series[r].labels = Synthetic[a][1] /\ ts[a] \in DOMAIN series[r].samples
    <3>1. Stored(<<Synthetic[a][1], ts[a]>>, Value)
      BY <2>1 DEF UpOf
    <3> QED
      BY <3>1 DEF Stored, RefsOf
  <2>4. PICK v : v = series[r].samples[ts[a]]
    OBVIOUS
  <2>5. v \notin Pushed
    BY <2>3, <2>4, UpIsNotPushed
  <2>6. 1 \in 1 .. 3
    OBVIOUS
  <2>7. Scraped(a, Synthetic[a][1], v)
    BY <2>1, <2>3, <2>4, <2>5, <2>6 DEF ScrapedBy, SeriesOf
  <2>8. v = IF err[a] = "" THEN 1 ELSE 0
    <3>1. PICK i \in 1 .. 3 : Synthetic[a][1] = Synthetic[a][i] /\ v = SyntheticValue(a, i)
      BY <2>6, <2>7, ExposedAssumption DEF Scraped
    <3>2. i = 1
      BY <2>6, <3>1, TargetAssumption
    <3> QED
      BY <3>1, <3>2 DEF SyntheticValue
  <2> QED
    BY <2>2, <2>3, <2>4, <2>8 DEF Stored, RefsOf
<1> QED
  BY <1>1, InvariantHolds, PTL

-----------------------------------------------------------------------------
(* The writers and the storage engine *)

LEMMA StoreStep == IngestTypeOK /\ [IngestNext]_allVars => [StoreNext]_storeVars
<1> SUFFICES ASSUME IngestTypeOK, [IngestNext]_allVars PROVE [StoreNext]_storeVars
  OBVIOUS
<1>0. \A a \in Appender : todo[a] \subseteq Label \X Time
  BY DEF IngestTypeOK
<1>1. CASE UNCHANGED allVars
  BY <1>1 DEF allVars
<1>2. ASSUME NEW a \in Appender, AppendFails(a) PROVE StoreNext
  <2>1. PICK s \in todo[a] : Rejected(a, s[1])
    BY <1>2 DEF AppendFails
  <2>2. s[1] \in Label
    BY <1>0, <2>1
  <2> QED
    BY <2>1, <2>2 DEF StoreNext
<1>3. ASSUME NEW a \in Appender, NEW v \in Value, AppendNext(a, v) PROVE StoreNext
  <2>1. PICK s \in todo[a] : AddSample(a, s[1], s[2], v)
    BY <1>3 DEF AppendNext
  <2>2. s[1] \in Label /\ s[2] \in Time
    BY <1>0, <2>1
  <2> QED
    BY <2>1, <2>2 DEF StoreNext
<1>4. ASSUME NEW a \in Appender, RollbackStep(a) \/ CommitGoesOn(a) PROVE StoreNext
  BY <1>4 DEF RollbackStep, CommitGoesOn, StoreNext
<1>5. ASSUME NEW a \in Target, AppendSynthetic(a) PROVE [StoreNext]_storeVars
  <2> DEFINE l == Synthetic[a][syn[a]]
  <2>1. /\ AddSample(a, l, ts[a], SyntheticValue(a, syn[a])) \/ (TooManySeries(l) /\ UNCHANGED batchVars)
        /\ syn[a] <= 3
    BY <1>5 DEF AppendSynthetic
  <2>2. CASE AddSample(a, l, ts[a], SyntheticValue(a, syn[a]))
    <3>1. syn[a] \in 1 .. 3 /\ ts[a] \in 0 .. MaxTime
      BY <2>1 DEF IngestTypeOK
    <3>2. l \in Label /\ ts[a] \in Time
      BY <3>1, TargetAssumption, ClockAssumption
    <3>3. SyntheticValue(a, syn[a]) \in Value /\ a \in Appender
      BY ValueAssumption, WritersAssumption DEF SyntheticValue
    <3> HIDE DEF l
    <3> QED
      BY <2>2, <3>2, <3>3 DEF StoreNext
  <2>3. CASE TooManySeries(l) /\ UNCHANGED batchVars
    BY <2>3 DEF TooManySeries, storeVars
  <2> QED
    BY <2>1, <2>2, <2>3
<1>6. ASSUME NEW a \in Appender, NEW e \in {"", "commit"}, CommitReturns(a, e) PROVE StoreNext
  BY <1>6 DEF CommitReturns, StoreNext
<1>7. ASSUME NEW a \in Target PROVE
        /\ CommitScrape(a) \/ ScrapeReturns(a) \/ AppendNext(a, 0) => StoreNext
        /\ ScrapeStart(a) \/ Fetched(a) \/ FetchFails(a) \/ AppendDone(a) => UNCHANGED storeVars
  <2>1. a \in Appender /\ 0 \in Value
    BY WritersAssumption, ValueAssumption
  <2>2. CommitScrape(a) => StoreNext
    BY <2>1 DEF CommitScrape, StoreNext
  <2>3. ScrapeReturns(a) => StoreNext
    BY <1>6, <2>1 DEF ScrapeReturns
  <2>4. ScrapeStart(a) \/ Fetched(a) \/ FetchFails(a) \/ AppendDone(a) => UNCHANGED storeVars
    BY DEF ScrapeStart, Fetched, FetchFails, AppendDone
  <2> QED
    BY <1>3, <2>1, <2>2, <2>3, <2>4
<1>8. ASSUME NEW a \in Request PROVE
        /\ CommitPush(a) \/ CommitPushReturns(a) \/ AppendNext(a, ValueOf[a]) => StoreNext
        /\ PushStart(a) \/ PushReturns(a) => UNCHANGED storeVars
  <2>1. a \in Appender /\ ValueOf[a] \in Value
    BY WritersAssumption, ValueAssumption
  <2>2. CommitPush(a) => StoreNext
    BY <2>1 DEF CommitPush, StoreNext
  <2>3. CommitPushReturns(a) => StoreNext
    BY <1>6, <2>1 DEF CommitPushReturns
  <2>4. PushStart(a) \/ PushReturns(a) => UNCHANGED storeVars
    BY DEF PushStart, PushReturns
  <2> QED
    BY <1>3, <2>1, <2>2, <2>3, <2>4
<1>9. ASSUME NEW minT \in MinT, Retention(minT) PROVE StoreNext
  BY <1>9 DEF Retention, StoreNext
<1> QED
  BY <1>1, <1>2, <1>4, <1>5, <1>7, <1>8, <1>9 DEF IngestNext

\* Scrapers and push requests use the storage engine as module Store says its callers do:
\* whatever holds of Store holds of them, and DB, which implements Store, serves them.
THEOREM WritersUseTheStore == IngestSpec => StoreInit /\ [][StoreNext]_storeVars
<1>1. IngestInit => StoreInit
  BY DEF IngestInit
<1> QED
  BY <1>1, StoreStep, TypeCorrect, PTL DEF IngestSpec
=============================================================================
