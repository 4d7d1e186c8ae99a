-------------------------------- MODULE Head --------------------------------
(***************************************************************************)
(* The head block of the time-series database (internal/tsdb/head.go): the *)
(* in-memory map from a series reference to a series.  Every operation of  *)
(* the code runs under head.mu, so each one is one action here.            *)
(*                                                                         *)
(* A series is its label set and its samples.  The code keeps the samples  *)
(* as a slice in ascending timestamp order without duplicates; here they   *)
(* are the function from timestamp to value that such a slice represents   *)
(* (module HeadIndex shows that the slice code computes this function).  *)
(* The hash chains and the inverted index, through which the code finds a  *)
(* series, are the subject of module HeadIndex, which implements this one. *)
(***************************************************************************)
EXTENDS Integers, FiniteSets

CONSTANTS
    Label,      \* label sets (model.Labels); the head only compares them
    Time,       \* timestamps (int64 milliseconds)
    Value,      \* sample values
    MaxSeries   \* head.maxSeries: the cardinality cap, 0 means no cap

ASSUME TimeAssumption == Time \subseteq Int
ASSUME MaxSeriesAssumption == MaxSeries \in Nat

VARIABLES
    series,     \* head.series: ref -> [labels, samples]
    lastRef     \* head.lastRef

headVars == <<series, lastRef>>

\* References: the code's uint64, 0 never names a series.
Ref == Nat \ {0}

\* Slices of samples, as the partial functions from Time to Value they stand for.
Samples == UNION {[T -> Value] : T \in SUBSET Time}

NoSamples == [t \in {} |-> t]

HeadTypeOK ==
    /\ lastRef \in Nat
    /\ DOMAIN series \subseteq Ref
    /\ series \in [DOMAIN series -> [labels : Label, samples : Samples]]

HeadInit ==
    /\ series = [r \in {} |-> r]
    /\ lastRef = 0

-----------------------------------------------------------------------------
\* The references of the series with label set l (more than one only after a
\* replay).  The code returns the first one of the hash chain; here it is any.
RefsOf(l) == {r \in DOMAIN series : series[r].labels = l}

\* insertLocked: a new, empty series.
Inserted(ref, l) ==
    [r \in DOMAIN series \cup {ref} |->
        IF r = ref THEN [labels |-> l, samples |-> NoSamples] ELSE series[r]]

\* removeSeriesLocked, for every reference in gone.
Removed(gone) == [r \in DOMAIN series \ gone |-> series[r]]

\* getOrCreateLimited, the three ways it returns: an existing series ...
Found(l, ref) ==
    /\ ref \in RefsOf(l)
    /\ UNCHANGED headVars

\* Mutant: the reference is taken before lastRef is incremented.
CreatedBeforeIncrement(l, ref) ==
    /\ RefsOf(l) = {}
    /\ lastRef' = ref
    /\ series' = Inserted(ref - 1, l)

\* ... a new one ...
Created(l, ref) ==
    /\ RefsOf(l) = {}
    /\ MaxSeries > 0 => Cardinality(DOMAIN series) < MaxSeries
    /\ ref = lastRef + 1
    /\ lastRef' = ref
    /\ series' = Inserted(ref, l)

\* ... and ErrTooManySeries.
TooManySeries(l) ==
    /\ RefsOf(l) = {}
    /\ MaxSeries > 0
    /\ Cardinality(DOMAIN series) >= MaxSeries
    /\ UNCHANGED headVars

\* Mutant: replay does not advance lastRef.
AddSeriesKeepLastRef(ref, l) ==
    /\ series' = IF ref \in DOMAIN series THEN series ELSE Inserted(ref, l)
    /\ UNCHANGED lastRef

\* addSeriesWithRef: insertion by WAL replay, uncapped, idempotent per ref.
AddSeriesWithRef(ref, l) ==
    IF ref \in DOMAIN series
    THEN UNCHANGED headVars
    ELSE /\ series' = Inserted(ref, l)
         /\ lastRef' = IF ref > lastRef THEN ref ELSE lastRef

\* Mutant: the last value of a timestamp wins.
WithLastSample(samples, t, v) ==
    [u \in DOMAIN samples \cup {t} |-> IF u = t THEN v ELSE samples[u]]

\* The samples after appendSample: the first value of a timestamp is kept.
WithSample(samples, t, v) ==
    IF t \in DOMAIN samples
    THEN samples
    ELSE [u \in DOMAIN samples \cup {t} |-> IF u = t THEN v ELSE samples[u]]

\* appendSample: a missing reference is ignored.
AppendSample(ref, t, v) ==
    /\ series' = IF ref \in DOMAIN series
                 THEN [series EXCEPT ![ref] =
                         [labels  |-> series[ref].labels,
                          samples |-> WithSample(series[ref].samples, t, v)]]
                 ELSE series
    /\ UNCHANGED lastRef

\* The samples not older than minT.
From(samples, minT) == [t \in {u \in DOMAIN samples : u >= minT} |-> samples[t]]

\* truncate: drop the old samples of every series, then every empty series,
\* one that has never held a sample included.
TruncateHead(minT) ==
    LET kept == {r \in DOMAIN series :
                    \E t \in DOMAIN series[r].samples : t >= minT}
    IN  /\ series' = [r \in kept |->
                        [labels  |-> series[r].labels,
                         samples |-> From(series[r].samples, minT)]]
        /\ UNCHANGED lastRef

\* reclaimIfEmpty: what Rollback does for each series its batch created.
ReclaimIfEmpty(ref) ==
    /\ series' = IF ref \in DOMAIN series /\ DOMAIN series[ref].samples = {}
                 THEN Removed({ref})
                 ELSE series
    /\ UNCHANGED lastRef

-----------------------------------------------------------------------------
\* The head as a component of its own: the operations of replay, while Open runs,
\* and those of a database in use.  The samples of a batch are appended to the
\* references it looked up earlier, whether these still name a series or not.
HeadReplay ==
    \/ \E l \in Label : \E r \in DOMAIN series' : AddSeriesWithRef(r, l)
    \/ \E r \in DOMAIN series : \E t \in Time : \E v \in Value : AppendSample(r, t, v)

HeadInUse ==
    \/ \E l \in Label : Created(l, lastRef + 1)
    \/ \E r \in DOMAIN series : \/ \E t \in Time : \E v \in Value : AppendSample(r, t, v)
                               \/ ReclaimIfEmpty(r)
    \/ \E t \in Time : TruncateHead(t)
=============================================================================
