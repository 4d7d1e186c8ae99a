----------------------------- MODULE HeadIndex ------------------------------
(***************************************************************************)
(* The data structures of the head (internal/tsdb/head.go): series with    *)
(* their sorted sample slices, the chains of series with the same label    *)
(* hash, through which a label set is looked up, and the inverted index,   *)
(* through which a query finds its series.  All of them are maintained by  *)
(* hand on every insertion, append, rollback and truncation.               *)
(*                                                                         *)
(* The module implements module Head, where samples are a function from    *)
(* timestamp to value and a lookup asks whether some series has the label  *)
(* set.                                                                    *)
(*                                                                         *)
(* A Go map without a key behaves as one that maps the key to nothing, so  *)
(* hashes and postings are total functions here.                           *)
(***************************************************************************)
EXTENDS GoSort, FiniteSets

CONSTANTS
    Name,       \* label names
    Val,        \* label values, "" among them
    Label,      \* label sets: functions from a set of names to values
    Hash,       \* Labels.Hash: Label -> hash; two label sets may share one
    Time, Value, MaxSeries,     \* as in Head
    Matcher,    \* the matchers a query may use
    MaxRef      \* bound: no reference above it is handed out or replayed

ASSUME TimeAssumption == Time \subseteq Int
ASSUME MaxRefAssumption == MaxRef \in Nat
ASSUME LabelAssumption == \A l \in Label : DOMAIN l \subseteq Name /\ \A n \in DOMAIN l : l[n] \in Val
ASSUME MatcherAssumption ==
    \* re is the regular expression, as the set of values it matches
    Matcher \subseteq [type : {"=", "!=", "=~", "!~"}, name : Name, value : Val, re : SUBSET Val]

VARIABLES
    mode,       \* "replay" while Open runs, then "up"
    series,     \* head.series: ref -> [labels, samples]
    lastRef,    \* head.lastRef
    hashes,     \* head.hashes: hash -> chain of series, oldest first
    postings    \* head.postings: <<name, value>> -> references

vars == <<mode, series, lastRef, hashes, postings>>

Ref == 1 .. MaxRef
Sample == [t : Time, v : Value]
ChainEntry == [ref : Ref, labels : Label]
Hashes == {Hash[l] : l \in Label}
Pairs(l) == {<<n, l[n]>> : n \in DOMAIN l}

TypeOK ==
    /\ mode \in {"replay", "up"}
    /\ DOMAIN series \subseteq Ref
    /\ series \in [DOMAIN series -> [labels : Label, samples : Seq(Sample)]]
    /\ lastRef \in 0 .. MaxRef
    /\ hashes \in [Hashes -> Seq(ChainEntry)]
    /\ postings \in [Name \X Val -> SUBSET Ref]

Init ==
    /\ mode = "replay"
    /\ series = [r \in {} |-> r]
    /\ lastRef = 0
    /\ hashes = [h \in Hashes |-> <<>>]
    /\ postings = [p \in Name \X Val |-> {}]

-----------------------------------------------------------------------------
(* Sample slices *)

\* How many samples of s, an ascending slice, are before t.
Before(s, t) == Search(Len(s), LAMBDA i : s[i + 1].t >= t)

\* How many are not after t.
Through(s, t) == Search(Len(s), LAMBDA i : s[i + 1].t > t)

\* appendSample: at the end, or, on the rare path, into the middle; a timestamp
\* that is there already keeps its value.
WithSample(s, t, v) ==
    LET n == Len(s)
        i == Before(s, t)
    IN  IF n = 0 \/ t > s[n].t THEN Append(s, [t |-> t, v |-> v])
        ELSE IF t = s[n].t \/ (i < n /\ s[i + 1].t = t) THEN s
        ELSE SubSeq(s, 1, i) \o <<[t |-> t, v |-> v]>> \o SubSeq(s, i + 1, n)

\* Mutant: the sample at the cut-off time goes, too.
FromExclusive(s, minT) == SubSeq(s, Before(s, minT + 1) + 1, Len(s))

\* truncate, for one series.
From(s, minT) == SubSeq(s, Before(s, minT) + 1, Len(s))

\* samplesInRange, for mint <= maxt: otherwise the second bisection may end before
\* the first, and the slice expression panics.
SamplesInRange(s, mint, maxt) == SubSeq(s, Before(s, mint) + 1, Through(s, maxt))

\* The elements of s at the positions in kept, in the order they have there.
ElementsAt(s, kept) ==
    [k \in 1 .. Cardinality(kept) |->
        s[CHOOSE i \in kept : Cardinality({j \in kept : j <= i}) = k]]

-----------------------------------------------------------------------------
(* Lookup, insertion and removal of series *)

\* The positions in the chain of l's hash of a series that equals l.
Matches(l) == {i \in DOMAIN hashes[Hash[l]] : hashes[Hash[l]][i].labels = l}

\* acquire (getOrCreateLimited) finds l: the first match of the chain.
Lookup(l) ==
    hashes[Hash[l]][CHOOSE i \in Matches(l) : \A j \in Matches(l) : i <= j].ref

\* insertLocked.
InsertLocked(ref, l) ==
    /\ series' = [r \in DOMAIN series \cup {ref} |->
                    IF r = ref THEN [labels |-> l, samples |-> <<>>] ELSE series[r]]
    /\ hashes' = [hashes EXCEPT ![Hash[l]] = Append(@, [ref |-> ref, labels |-> l])]
    /\ postings' = [p \in DOMAIN postings |->
                      IF p \in Pairs(l) THEN postings[p] \cup {ref} ELSE postings[p]]

\* acquire creates: the chain has no such series, and the cap leaves room.
Create(l) ==
    /\ mode = "up"
    /\ Matches(l) = {}
    /\ MaxSeries > 0 => Cardinality(DOMAIN series) < MaxSeries
    /\ lastRef < MaxRef
    /\ lastRef' = lastRef + 1
    /\ InsertLocked(lastRef + 1, l)
    /\ UNCHANGED mode

\* addSeriesWithRef.  It asks the series map, not the chain.
AddSeriesWithRef(ref, l) ==
    /\ mode = "replay"
    /\ ref \notin DOMAIN series
    /\ InsertLocked(ref, l)
    /\ lastRef' = IF ref > lastRef THEN ref ELSE lastRef
    /\ UNCHANGED mode

\* appendSample.
AppendSample(ref, t, v) ==
    /\ ref \in DOMAIN series
    /\ series' = [series EXCEPT ![ref].samples = WithSample(@, t, v)]
    /\ UNCHANGED <<mode, lastRef, hashes, postings>>

\* Mutant: the postings are forgotten.
RemoveFromChains(gone) ==
    /\ hashes' = [h \in Hashes |->
                    ElementsAt(hashes[h], {i \in DOMAIN hashes[h] : hashes[h][i].ref \notin gone})]
    /\ UNCHANGED postings

\* removeSeriesLocked for every reference in gone: each series leaves the chain
\* of its hash and the postings of its labels.
RemoveSeries(gone) ==
    /\ hashes' = [h \in Hashes |->
                    LET leaves(e) == e.ref \in gone /\ Hash[series[e.ref].labels] = h
                    IN  ElementsAt(hashes[h], {i \in DOMAIN hashes[h] : ~leaves(hashes[h][i])})]
    /\ postings' = [p \in DOMAIN postings |->
                      {r \in postings[p] : ~(r \in gone /\ p \in Pairs(series[r].labels))}]

\* truncate: a series without samples goes, one that never had any included.
Truncate(minT) ==
    /\ mode = "up"
    /\ LET gone == {r \in DOMAIN series : From(series[r].samples, minT) = <<>>}
       IN  /\ series' = [r \in DOMAIN series \ gone |->
                           [labels  |-> series[r].labels,
                            samples |-> From(series[r].samples, minT)]]
           /\ RemoveSeries(gone)
    /\ UNCHANGED <<mode, lastRef>>

\* reclaimIfEmpty.
ReclaimIfEmpty(ref) ==
    /\ mode = "up"
    /\ ref \in DOMAIN series
    /\ series[ref].samples = <<>>
    /\ series' = [r \in DOMAIN series \ {ref} |-> series[r]]
    /\ RemoveSeries({ref})
    /\ UNCHANGED <<mode, lastRef>>

\* Open returns.
OpenDone ==
    /\ mode = "replay"
    /\ mode' = "up"
    /\ UNCHANGED <<series, lastRef, hashes, postings>>

Next ==
    \/ \E l \in Label : Create(l)
    \/ \E l \in Label : \E r \in Ref : AddSeriesWithRef(r, l)
    \/ \E r \in Ref : \E t \in Time : \E v \in Value : AppendSample(r, t, v)
    \/ \E t \in Time : Truncate(t)
    \/ \E r \in Ref : ReclaimIfEmpty(r)
    \/ OpenDone

Spec == Init /\ [][Next]_vars

-----------------------------------------------------------------------------
(* Queries *)

\* Labels.Get: an absent label reads as the empty string.
Get(l, n) == IF n \in DOMAIN l THEN l[n] ELSE ""

\* Matcher.Matches.
Accepts(m, v) ==
    CASE m.type = "="  -> v = m.value
      [] m.type = "!=" -> v # m.value
      [] m.type = "=~" -> v \in m.re
      [] m.type = "!~" -> v \notin m.re

MatchesAll(l, ms) == \A m \in ms : Accepts(m, Get(l, m.name))

\* Mutant: an equality matcher with an empty value is served from the postings.
CandidatesEmptyValue(ms) ==
    LET usable == {postings[<<m.name, m.value>>] : m \in {k \in ms : k.type = "="}}
    IN  IF usable = {} THEN DOMAIN series
        ELSE CHOOSE s \in usable : \A u \in usable : Cardinality(s) <= Cardinality(u)

\* candidatesLocked: the smallest postings list of an equality matcher with a
\* non-empty value, or all series if there is none.
Candidates(ms) ==
    LET usable == {postings[<<m.name, m.value>>] : m \in {k \in ms : k.type = "=" /\ k.value # ""}}
        best == CHOOSE s \in usable : \A u \in usable : Cardinality(s) <= Cardinality(u)
    IN  IF usable = {} THEN DOMAIN series ELSE best \cap DOMAIN series

Selected(ms) == {r \in Candidates(ms) : MatchesAll(series[r].labels, ms)}

\* query: what the selected series have in the range, if they have anything.
Query(mint, maxt, ms) ==
    {q \in {[ref |-> r, samples |-> SamplesInRange(series[r].samples, mint, maxt)] : r \in Selected(ms)} :
        q.samples # <<>>}

\* labelNames and labelValues.
LabelNames(ms) == UNION {DOMAIN series[r].labels : r \in Selected(ms)}
LabelValues(n, ms) == {Get(series[r].labels, n) : r \in Selected(ms)} \ {""}

-----------------------------------------------------------------------------
(* Properties *)

\* The function a slice stands for.
Times(s) == {s[i].t : i \in DOMAIN s}
AsFunction(s) == [t \in Times(s) |-> s[CHOOSE i \in DOMAIN s : s[i].t = t].v]

H == INSTANCE Head
        WITH series <- [r \in DOMAIN series |->
                          [labels |-> series[r].labels, samples |-> AsFunction(series[r].samples)]]

\* The head behaves as module Head says: appendSample and truncate on slices are
\* what they are on functions, and acquire creates a series only if the map has
\* none with the label set.
ImplementsHead ==
    /\ H!HeadInit
    /\ [][IF mode = "replay" THEN H!HeadReplay ELSE H!HeadInUse]_(H!headVars)

\* The chain finds a series exactly when the map has one with that label set,
\* however hashes collide and whichever of a chain's series were removed.
LookupAgrees ==
    \A l \in Label :
        IF H!RefsOf(l) = {} THEN Matches(l) = {}
        ELSE Matches(l) # {} /\ Lookup(l) \in H!RefsOf(l)

Scan(s, mint, maxt) == ElementsAt(s, {i \in DOMAIN s : mint <= s[i].t /\ s[i].t <= maxt})

\* What a scan of all samples of all series finds.
Found(mint, maxt, ms) ==
    {q \in {[ref |-> r, samples |-> Scan(series[r].samples, mint, maxt)] :
              r \in {k \in DOMAIN series : MatchesAll(series[k].labels, ms)}} :
        q.samples # <<>>}

\* The inverted index (candidatesLocked) and the two bisections lose nothing: a
\* query returns what a scan would, in time order.
QueryComplete ==
    \A ms \in SUBSET Matcher : \A mint \in Time : \A maxt \in {t \in Time : mint <= t} :
        Query(mint, maxt, ms) = Found(mint, maxt, ms)

\* The samples of a series ascend without a duplicate, in whatever order they
\* arrived: what every bisection, and the PromQL engine, relies on.
Ascending ==
    \A r \in DOMAIN series : \A i, j \in DOMAIN series[r].samples :
        i < j => series[r].samples[i].t < series[r].samples[j].t

\* What labelValues offers under a matcher, adding an equality matcher for it
\* finds: a client that lists values and then narrows its selection to one gets
\* an answer, whichever of the two matchers the index serves.
ValuesSelectable ==
    \A m \in Matcher : \A n \in LabelNames({m}) : \A v \in LabelValues(n, {m}) :
        Selected({m, [type |-> "=", name |-> n, value |-> v, re |-> {}]}) # {}

\* A removed series leaves nothing behind in the chains or the postings, and a
\* live one is in its chain exactly once: nothing grows with label churn.
NothingLeaks ==
    /\ \A h \in Hashes : \A i \in DOMAIN hashes[h] :
          /\ hashes[h][i].ref \in DOMAIN series
          /\ \A j \in DOMAIN hashes[h] : hashes[h][i].ref = hashes[h][j].ref => i = j
    /\ UNION {postings[p] : p \in DOMAIN postings} \subseteq DOMAIN series

\* The index mirrors the map, and what is read through it is what the map holds.
IndexSound == TypeOK /\ LookupAgrees /\ NothingLeaks
QueriesAgree == QueryComplete /\ ValuesSelectable /\ Ascending
=============================================================================
