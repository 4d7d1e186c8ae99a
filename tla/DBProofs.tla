------------------------------ MODULE DBProofs ------------------------------
(***************************************************************************)
(* The storage engine (module DB), for every number of appenders, label    *)
(* sets, crashes, failed system calls of the log, and so on: its types,    *)
(* the write-ahead rule, what a reader sees and keeps seeing, what         *)
(* recovery leaves, and that the engine implements module Store.           *)
(***************************************************************************)
EXTENDS DB, TLAPS

(***************************************************************************)
(* What the head's helpers return.                                         *)
(***************************************************************************)

\* A new series is empty, and an empty slice of samples is well typed.
LEMMA NoSamplesType == NoSamples \in Samples
<1>1. NoSamples \in [{} -> Value] BY DEF NoSamples
<1> QED BY <1>1 DEF Samples

\* appendSample keeps the slice of samples well typed.
LEMMA WithSampleType ==
    ASSUME NEW s \in Samples, NEW t \in Time, NEW v \in Value
    PROVE  WithSample(s, t, v) \in Samples
<1>1. PICK T \in SUBSET Time : s \in [T -> Value] BY DEF Samples
<1>2. CASE t \in DOMAIN s BY <1>2 DEF WithSample
<1>3. CASE t \notin DOMAIN s
  <2>1. T \cup {t} \in SUBSET Time OBVIOUS
  <2>2. WithSample(s, t, v) \in [T \cup {t} -> Value] BY <1>1, <1>3 DEF WithSample
  <2> QED BY <2>1, <2>2 DEF Samples
<1> QED BY <1>2, <1>3

\* truncate keeps the slice of samples well typed.
LEMMA FromType ==
    ASSUME NEW s \in Samples, NEW minT \in Int
    PROVE  From(s, minT) \in Samples
<1>1. PICK T \in SUBSET Time : s \in [T -> Value] BY DEF Samples
<1> DEFINE U == {u \in T : u >= minT}
<1>2. U \in SUBSET Time OBVIOUS
<1>3. From(s, minT) \in [U -> Value] BY <1>1 DEF From
<1> QED BY <1>2, <1>3 DEF Samples

(***************************************************************************)
(* The operations of the head preserve its type.                           *)
(***************************************************************************)
LEMMA InitHeadType ==
    ASSUME HeadInit PROVE HeadTypeOK
BY DEF HeadInit, HeadTypeOK, Ref

LEMMA InsertedType ==
    ASSUME HeadTypeOK, NEW ref \in Ref, NEW l \in Label, NEW n \in Nat,
           series' = Inserted(ref, l), lastRef' = n
    PROVE  HeadTypeOK'
<1>1. [labels |-> l, samples |-> NoSamples] \in [labels : Label, samples : Samples]
  BY NoSamplesType
<1>2. DOMAIN series' = DOMAIN series \cup {ref} BY DEF Inserted
<1>3. series' \in [DOMAIN series \cup {ref} -> [labels : Label, samples : Samples]]
  BY <1>1 DEF Inserted, HeadTypeOK
<1> QED BY <1>2, <1>3 DEF HeadTypeOK

LEMMA AddSeriesType ==
    ASSUME HeadTypeOK, NEW ref \in Ref, NEW l \in Label, AddSeriesWithRef(ref, l)
    PROVE  HeadTypeOK'
<1>1. CASE ref \in DOMAIN series
  BY <1>1 DEF AddSeriesWithRef, HeadTypeOK, headVars
<1>2. CASE ref \notin DOMAIN series
  <2>1. lastRef' \in Nat BY <1>2 DEF AddSeriesWithRef, HeadTypeOK, Ref
  <2>2. series' = Inserted(ref, l) BY <1>2 DEF AddSeriesWithRef
  <2> QED BY <2>1, <2>2, InsertedType
<1> QED BY <1>1, <1>2

LEMMA AppendSampleType ==
    ASSUME HeadTypeOK, NEW ref, NEW t \in Time, NEW v \in Value, AppendSample(ref, t, v)
    PROVE  HeadTypeOK'
<1>1. CASE ref \in DOMAIN series
  <2>1. series[ref] \in [labels : Label, samples : Samples] BY <1>1 DEF HeadTypeOK
  <2>2. WithSample(series[ref].samples, t, v) \in Samples BY <2>1, WithSampleType
  <2>3. DOMAIN series' = DOMAIN series BY <1>1 DEF AppendSample, HeadTypeOK
  <2>4. series' \in [DOMAIN series -> [labels : Label, samples : Samples]]
    BY <1>1, <2>1, <2>2 DEF AppendSample, HeadTypeOK
  <2> QED BY <2>3, <2>4 DEF AppendSample, HeadTypeOK
<1>2. CASE ref \notin DOMAIN series BY <1>2 DEF AppendSample, HeadTypeOK
<1> QED BY <1>1, <1>2

LEMMA TruncateHeadType ==
    ASSUME HeadTypeOK, NEW minT \in Int, TruncateHead(minT)
    PROVE  HeadTypeOK'
<1> DEFINE kept == {r \in DOMAIN series : \E t \in DOMAIN series[r].samples : t >= minT}
<1>1. \A r \in kept : [labels |-> series[r].labels, samples |-> From(series[r].samples, minT)]
                        \in [labels : Label, samples : Samples]
  BY FromType DEF HeadTypeOK
<1>2. series' \in [kept -> [labels : Label, samples : Samples]]
  BY <1>1 DEF TruncateHead
<1>3. DOMAIN series' = kept BY <1>2
<1> QED BY <1>2, <1>3 DEF TruncateHead, HeadTypeOK

LEMMA ReclaimType ==
    ASSUME HeadTypeOK, NEW ref, ReclaimIfEmpty(ref)
    PROVE  HeadTypeOK'
<1>1. CASE series' = series BY <1>1 DEF ReclaimIfEmpty, HeadTypeOK
<1>2. CASE series' = Removed({ref})
  <2>1. series' \in [DOMAIN series \ {ref} -> [labels : Label, samples : Samples]]
    BY <1>2 DEF Removed, HeadTypeOK
  <2> QED BY <2>1 DEF ReclaimIfEmpty, HeadTypeOK
<1> QED BY <1>1, <1>2 DEF ReclaimIfEmpty

(***************************************************************************)
(* Type correctness.  TypeOK alone is not inductive: the loops of Commit   *)
(* and of replay index into sequences, so their indices must be in range.  *)
(***************************************************************************)
\* The appender-local part of TypeInv.
AppTypeOK ==
    /\ pc \in [Appender -> PC]
    /\ newSeries \in [Appender -> Seq(NewSeries)]
    /\ pending \in [Appender -> Seq(Staged)]
    /\ idx \in [Appender -> Nat \ {0}]
    /\ \A a \in Appender :
         /\ pc[a] = "logSeries" => idx[a] <= Len(newSeries[a])
         /\ pc[a] \in {"logSamples", "apply"} => idx[a] <= Len(pending[a])

\* The part of TypeInv about the log files.
WalTypeOK ==
    /\ log \in Seq(Record)
    /\ synced \in 0 .. Len(log)
    /\ seq \in Segment
    /\ file \in {"open", "closed", "broken"}
    /\ \A p \in DOMAIN log : log[p].kind = "samples" => log[p].samples # <<>>

\* The part of TypeInv about replay.
ReplayTypeOK ==
    /\ mode \in {"up", "replay"}
    /\ pos \in Nat \ {0}
    /\ sub \in Nat \ {0}
    /\ (mode = "replay" /\ pos \in DOMAIN log /\ log[pos].kind = "samples")
           => sub <= Len(log[pos].samples)

HistTypeOK ==
    /\ lowWater \in MinT \cup {-1}
    /\ acked \subseteq [l : Label, t : Time, v : Value]
    /\ crashes \in 0 .. MaxCrash
    /\ fails \in 0 .. MaxFail

TypeInv == HeadTypeOK /\ AppTypeOK /\ WalTypeOK /\ ReplayTypeOK /\ HistTypeOK

LEMMA TypeInvImpliesTypeOK == TypeInv => TypeOK
BY DEF TypeInv, TypeOK, AppTypeOK, WalTypeOK, ReplayTypeOK, HistTypeOK

\* A record is known by its kind.
LEMMA RecordKinds ==
    ASSUME NEW r \in Record
    PROVE  /\ r.kind = "series" => r \in SeriesRec
           /\ r.kind = "samples" => r \in SamplesRec
           /\ r.kind = "torn" => r \in TornRec
           /\ r.seg \in Segment
BY DEF Record, SeriesRec, SamplesRec, TornRec

\* Appending a record to the log (writeRecord, whole or torn).
LEMMA PutType ==
    ASSUME WalTypeOK, NEW rec \in Record, Put(rec),
           rec.kind = "samples" => rec.samples # <<>>
    PROVE  WalTypeOK'
<1> USE DEF WalTypeOK
<1>1. log' = Append(log, rec) BY DEF Put
<1>2. log' \in Seq(Record) /\ Len(log') = Len(log) + 1 BY <1>1
<1>3. \A p \in DOMAIN log' : log'[p] = IF p = Len(log) + 1 THEN rec ELSE log[p]
  BY <1>1
<1>4. synced' \in 0 .. Len(log') BY <1>2 DEF Put
<1>5. seq' \in Segment BY DEF Put, NextSeg, Segment
<1>6. \A p \in DOMAIN log' : log'[p].kind = "samples" => log'[p].samples # <<>>
  <2> TAKE p \in DOMAIN log'
  <2>1. CASE p = Len(log) + 1 BY <2>1, <1>3
  <2>2. CASE p # Len(log) + 1
    <3>1. p \in DOMAIN log /\ log'[p] = log[p] BY <2>2, <1>2, <1>3
    <3> QED BY <3>1
  <2> QED BY <2>1, <2>2
<1> QED BY <1>2, <1>4, <1>5, <1>6 DEF Put

\* A failed write or sync.
LEMMA WriteFailsType ==
    ASSUME WalTypeOK, WriteFails
    PROVE  WalTypeOK'
<1>1. CASE UNCHANGED walVars BY <1>1 DEF WalTypeOK, walVars
<1>2. CASE Put([kind |-> "torn", seg |-> NextSeg])
  <2>1. NextSeg \in Segment BY DEF NextSeg, Segment, WalTypeOK
  <2>2. [kind |-> "torn", seg |-> NextSeg] \in Record BY <2>1 DEF Record, TornRec
  <2> QED BY <1>2, <2>2, PutType
<1>3. CASE file' = "broken" /\ synced' = Len(log) /\ UNCHANGED <<log, seq>>
  BY <1>3 DEF WalTypeOK
<1> QED BY <1>1, <1>2, <1>3 DEF WriteFails

\* Moving an appender's program counter.
LEMMA GotoType ==
    ASSUME AppTypeOK, NEW a \in Appender, NEW l \in PC, NEW i \in Nat \ {0}, Goto(a, l, i),
           l = "logSeries" => i <= Len(newSeries[a]),
           l \in {"logSamples", "apply"} => i <= Len(pending[a])
    PROVE  AppTypeOK'
BY DEF Goto, AppTypeOK

LEMMA FreshType ==
    ASSUME AppTypeOK, NEW a \in Appender, Fresh(a)
    PROVE  AppTypeOK'
<1>1. <<>> \in Seq(NewSeries) /\ <<>> \in Seq(Staged) OBVIOUS
<1>2. newSeries' \in [Appender -> Seq(NewSeries)]
  BY <1>1 DEF Fresh, AppTypeOK
<1>3. pending' \in [Appender -> Seq(Staged)] BY <1>1 DEF Fresh, AppTypeOK
<1>4. /\ pc' \in [Appender -> PC]
      /\ idx' \in [Appender -> Nat \ {0}]
  BY DEF Fresh, AppTypeOK, PC
<1>5. \A b \in Appender :
        /\ pc'[b] = "logSeries" => idx'[b] <= Len(newSeries'[b])
        /\ pc'[b] \in {"logSamples", "apply"} => idx'[b] <= Len(pending'[b])
  BY DEF Fresh, AppTypeOK
<1> QED BY <1>2, <1>3, <1>4, <1>5 DEF AppTypeOK

\* A step that leaves the log alone, and replay too, keeps replay's indices.
LEMMA ReplayTypeUp ==
    ASSUME ReplayTypeOK, mode = "up", UNCHANGED replayVars
    PROVE  ReplayTypeOK'
BY DEF ReplayTypeOK, replayVars

\* The initial state is well typed.
LEMMA TypeInvInit == Init => TypeInv
<1> SUFFICES ASSUME Init PROVE TypeInv OBVIOUS
<1>1. HeadTypeOK BY InitHeadType DEF Init
<1>2. AppTypeOK BY DEF Init, AppTypeOK, PC
<1>3. WalTypeOK BY DEF Init, WalTypeOK, Segment
<1>4. ReplayTypeOK BY DEF Init, ReplayTypeOK
<1>5. HistTypeOK BY BoundsAssumption DEF Init, HistTypeOK
<1> QED BY <1>1, <1>2, <1>3, <1>4, <1>5 DEF TypeInv

\* Staging one more sample for series ref.
LEMMA StageType ==
    ASSUME AppTypeOK, NEW a \in Appender, NEW ref \in Ref, NEW l \in Label,
           NEW t \in Time, NEW v \in Value, Stage(a, ref, l, t, v)
    PROVE  /\ pending' \in [Appender -> Seq(Staged)]
           /\ \A b \in Appender : b # a => pending'[b] = pending[b]
<1>1. [ref |-> ref, l |-> l, t |-> t, v |-> v] \in Staged BY DEF Staged
<1>2. Append(pending[a], [ref |-> ref, l |-> l, t |-> t, v |-> v]) \in Seq(Staged)
  BY <1>1 DEF AppTypeOK
<1> QED BY <1>2 DEF Stage, AppTypeOK

LEMMA AppendOKType ==
    ASSUME TypeInv, NEW a \in Appender, NEW l \in Label, NEW t \in Time, NEW v \in Value,
           AppendOK(a, l, t, v)
    PROVE  TypeInv'
<1> USE DEF TypeInv
<1>1. mode = "up" /\ pc[a] = "stage" BY DEF AppendOK
<1>2. WalTypeOK' BY DEF AppendOK, walVars, WalTypeOK
<1>3. ReplayTypeOK' BY <1>1, ReplayTypeUp DEF AppendOK
<1>4. HistTypeOK' BY DEF AppendOK, HistTypeOK
<1>5. pc' = pc /\ idx' = idx BY DEF AppendOK
<1>6. CASE \E r \in RefsOf(l) : Found(l, r) /\ Stage(a, r, l, t, v) /\ UNCHANGED newSeries
  <2>1. PICK r \in RefsOf(l) : Found(l, r) /\ Stage(a, r, l, t, v) /\ UNCHANGED newSeries
    BY <1>6
  <2>2. r \in Ref BY DEF RefsOf, HeadTypeOK
  <2>3. HeadTypeOK' BY <2>1 DEF Found, headVars, HeadTypeOK
  <2>4. AppTypeOK' BY <1>1, <1>5, <2>1, <2>2, StageType DEF AppTypeOK
  <2> QED BY <1>2, <1>3, <1>4, <2>3, <2>4
<1>7. CASE /\ Created(l, lastRef + 1)
           /\ newSeries' = [newSeries EXCEPT ![a] = Append(@, [ref |-> lastRef + 1, l |-> l])]
           /\ Stage(a, lastRef + 1, l, t, v)
  <2>1. lastRef + 1 \in Ref /\ lastRef + 1 \in Nat BY DEF HeadTypeOK, Ref
  <2>2. HeadTypeOK' BY <1>7, <2>1, InsertedType DEF Created
  <2>3. [ref |-> lastRef + 1, l |-> l] \in NewSeries BY <2>1 DEF NewSeries
  <2>4. Append(newSeries[a], [ref |-> lastRef + 1, l |-> l]) \in Seq(NewSeries)
    BY <2>3 DEF AppTypeOK
  <2>5. /\ newSeries' \in [Appender -> Seq(NewSeries)]
        /\ \A b \in Appender : b # a => newSeries'[b] = newSeries[b]
    BY <1>7, <2>4 DEF AppTypeOK
  <2>6. AppTypeOK' BY <1>1, <1>5, <1>7, <2>1, <2>5, StageType DEF AppTypeOK
  <2> QED BY <1>2, <1>3, <1>4, <2>2, <2>6
<1> QED BY <1>6, <1>7 DEF AppendOK

LEMMA AppendRejectedType ==
    ASSUME TypeInv, NEW a \in Appender, NEW l \in Label, AppendRejected(a, l)
    PROVE  TypeInv'
<1> USE DEF TypeInv
<1>1. HeadTypeOK' BY DEF AppendRejected, TooManySeries, headVars, HeadTypeOK
<1>2. AppTypeOK' BY GotoType DEF AppendRejected, PC
<1>3. WalTypeOK' BY DEF AppendRejected, walVars, WalTypeOK
<1>4. ReplayTypeOK' BY ReplayTypeUp DEF AppendRejected
<1>5. HistTypeOK' BY DEF AppendRejected, HistTypeOK
<1> QED BY <1>1, <1>2, <1>3, <1>4, <1>5

LEMMA RollbackType ==
    ASSUME TypeInv, NEW a \in Appender, Rollback(a)
    PROVE  TypeInv'
<1> USE DEF TypeInv
<1>1. WalTypeOK' BY DEF Rollback, walVars, WalTypeOK
<1>2. ReplayTypeOK' BY ReplayTypeUp DEF Rollback
<1>3. HistTypeOK' BY DEF Rollback, HistTypeOK
<1>4. CASE idx[a] <= Len(newSeries[a])
  <2>1. HeadTypeOK' BY <1>4, ReclaimType DEF Rollback
  <2>2. idx[a] + 1 \in Nat \ {0} BY DEF AppTypeOK
  <2>3. AppTypeOK' BY <1>4, <2>2, GotoType DEF Rollback, PC
  <2> QED BY <1>1, <1>2, <1>3, <2>1, <2>3
<1>5. CASE ~(idx[a] <= Len(newSeries[a]))
  <2>1. HeadTypeOK' BY <1>5 DEF Rollback, headVars, HeadTypeOK
  <2>2. AppTypeOK' BY <1>5, FreshType DEF Rollback
  <2> QED BY <1>1, <1>2, <1>3, <2>1, <2>2
<1> QED BY <1>4, <1>5

\* Where Commit goes after the series records is a legal place to be.
LEMMA AfterSeriesType ==
    ASSUME AppTypeOK, NEW a \in Appender, Goto(a, AfterSeries(a), 1)
    PROVE  AppTypeOK'
<1>1. AfterSeries(a) \in PC BY DEF AfterSeries, PC
<1>2. AfterSeries(a) # "logSeries" BY DEF AfterSeries
<1>3. AfterSeries(a) \in {"logSamples", "apply"} => 1 <= Len(pending[a])
  BY DEF AfterSeries, AppTypeOK
<1> QED BY <1>1, <1>2, <1>3, GotoType

LEMMA CommitType ==
    ASSUME TypeInv, NEW a \in Appender, Commit(a)
    PROVE  TypeInv'
<1> USE DEF TypeInv
<1>1. HeadTypeOK' BY DEF Commit, headVars, HeadTypeOK
<1>2. WalTypeOK' BY DEF Commit, walVars, WalTypeOK
<1>3. ReplayTypeOK' BY ReplayTypeUp DEF Commit
<1>4. HistTypeOK' BY DEF Commit, HistTypeOK
<1>5. CASE newSeries[a] = <<>>
  <2>1. AppTypeOK' BY <1>5, AfterSeriesType DEF Commit
  <2> QED BY <1>1, <1>2, <1>3, <1>4, <2>1
<1>6. CASE newSeries[a] # <<>>
  <2>1. 1 <= Len(newSeries[a]) BY <1>6 DEF AppTypeOK
  <2>2. AppTypeOK' BY <1>6, <2>1, GotoType DEF Commit, PC
  <2> QED BY <1>1, <1>2, <1>3, <1>4, <2>2
<1> QED BY <1>5, <1>6

LEMMA LogSeriesType ==
    ASSUME TypeInv, NEW a \in Appender, LogSeries(a)
    PROVE  TypeInv'
<1> USE DEF TypeInv
<1> DEFINE s == newSeries[a][idx[a]]
<1> DEFINE rec == [kind |-> "series", seg |-> NextSeg, ref |-> s.ref, l |-> s.l]
<1>1. HeadTypeOK' BY DEF LogSeries, headVars, HeadTypeOK
<1>2. ReplayTypeOK' BY ReplayTypeUp DEF LogSeries
<1>3. HistTypeOK' BY DEF LogSeries, Write, HistTypeOK
<1>4. idx[a] \in DOMAIN newSeries[a] BY DEF LogSeries, AppTypeOK
<1>5. s \in NewSeries BY <1>4 DEF AppTypeOK
<1>6. NextSeg \in Segment BY DEF NextSeg, Segment, WalTypeOK
<1>7. rec \in Record BY <1>5, <1>6 DEF Record, SeriesRec, NewSeries
<1>8. Put(rec) BY DEF LogSeries, Write
<1>9. WalTypeOK' BY <1>7, <1>8, PutType
<1>10. CASE idx[a] < Len(newSeries[a])
  <2>1. idx[a] + 1 \in Nat \ {0} /\ idx[a] + 1 <= Len(newSeries[a])
    BY <1>10 DEF AppTypeOK
  <2>2. AppTypeOK' BY <1>10, <2>1, GotoType DEF LogSeries, PC
  <2> QED BY <1>1, <1>2, <1>3, <1>9, <2>2
<1>11. CASE ~(idx[a] < Len(newSeries[a]))
  <2>1. AppTypeOK' BY <1>11, AfterSeriesType DEF LogSeries
  <2> QED BY <1>1, <1>2, <1>3, <1>9, <2>1
<1> QED BY <1>10, <1>11

LEMMA LogSamplesType ==
    ASSUME TypeInv, NEW a \in Appender, LogSamples(a)
    PROVE  TypeInv'
<1> USE DEF TypeInv
<1> DEFINE rec == [kind |-> "samples", seg |-> NextSeg, samples |-> pending[a]]
<1>1. HeadTypeOK' BY DEF LogSamples, headVars, HeadTypeOK
<1>2. ReplayTypeOK' BY ReplayTypeUp DEF LogSamples
<1>3. HistTypeOK' BY DEF LogSamples, Write, HistTypeOK
<1>4. AppTypeOK' BY GotoType DEF LogSamples, PC
<1>5. NextSeg \in Segment BY DEF NextSeg, Segment, WalTypeOK
<1>6. rec \in Record BY <1>5 DEF Record, SamplesRec, AppTypeOK
<1>7. pending[a] # <<>> BY DEF LogSamples, AppTypeOK
<1>8. Put(rec) BY DEF LogSamples, Write
<1>9. WalTypeOK' BY <1>6, <1>7, <1>8, PutType
<1> QED BY <1>1, <1>2, <1>3, <1>4, <1>9

LEMMA SyncType ==
    ASSUME TypeInv, NEW a \in Appender, Sync(a)
    PROVE  TypeInv'
<1> USE DEF TypeInv
<1>1. HeadTypeOK' BY DEF Sync, headVars, HeadTypeOK
<1>2. ReplayTypeOK' BY ReplayTypeUp DEF Sync
<1>3. HistTypeOK' BY DEF Sync, SyncOK, HistTypeOK
<1>4. WalTypeOK' BY DEF Sync, SyncOK, WalTypeOK
<1>5. CASE pending[a] = <<>>
  <2>1. AppTypeOK' BY <1>5, FreshType DEF Sync
  <2> QED BY <1>1, <1>2, <1>3, <1>4, <2>1
<1>6. CASE pending[a] # <<>>
  <2>1. 1 <= Len(pending[a]) BY <1>6 DEF AppTypeOK
  <2>2. AppTypeOK' BY <1>6, <2>1, GotoType DEF Sync, PC
  <2> QED BY <1>1, <1>2, <1>3, <1>4, <2>2
<1> QED BY <1>5, <1>6

LEMMA CommitFailsType ==
    ASSUME TypeInv, NEW a \in Appender, CommitFails(a)
    PROVE  TypeInv'
<1> USE DEF TypeInv
<1>1. HeadTypeOK' BY DEF CommitFails, headVars, HeadTypeOK
<1>2. ReplayTypeOK' BY ReplayTypeUp DEF CommitFails
<1>3. HistTypeOK'
  BY BoundsAssumption DEF CommitFails, WriteFails, SyncFails, HistTypeOK
<1>4. AppTypeOK' BY FreshType DEF CommitFails
<1>5. CASE WriteFails BY <1>1, <1>2, <1>3, <1>4, <1>5, WriteFailsType
<1>6. CASE SyncFails
  <2>1. WalTypeOK' BY <1>6 DEF SyncFails, walVars, WalTypeOK
  <2> QED BY <1>1, <1>2, <1>3, <1>4, <2>1
<1> QED BY <1>5, <1>6 DEF CommitFails

LEMMA ApplyType ==
    ASSUME TypeInv, NEW a \in Appender, Apply(a)
    PROVE  TypeInv'
<1> USE DEF TypeInv
<1> DEFINE s == pending[a][idx[a]]
<1>1. idx[a] \in DOMAIN pending[a] BY DEF Apply, AppTypeOK
<1>2. s \in Staged BY <1>1 DEF AppTypeOK
<1>3. s.t \in Time /\ s.v \in Value BY <1>2 DEF Staged
<1>4. AppendSample(s.ref, s.t, s.v) BY DEF Apply
<1>5. HeadTypeOK' BY <1>3, <1>4, AppendSampleType
<1>6. WalTypeOK' BY DEF Apply, walVars, WalTypeOK
<1>7. ReplayTypeOK' BY ReplayTypeUp DEF Apply
<1>8. Batch(a) \subseteq [l : Label, t : Time, v : Value]
  <2>1. \A i \in DOMAIN pending[a] : pending[a][i] \in Staged BY DEF AppTypeOK
  <2> QED BY <2>1 DEF Batch, Staged
<1>9. HistTypeOK' BY <1>8 DEF Apply, HistTypeOK
<1>10. CASE idx[a] < Len(pending[a])
  <2>1. idx[a] + 1 \in Nat \ {0} /\ idx[a] + 1 <= Len(pending[a])
    BY <1>10 DEF AppTypeOK
  <2>2. AppTypeOK' BY <1>10, <2>1, GotoType DEF Apply, PC
  <2> QED BY <1>5, <1>6, <1>7, <1>9, <2>2
<1>11. CASE ~(idx[a] < Len(pending[a]))
  <2>1. AppTypeOK' BY <1>11, FreshType DEF Apply
  <2> QED BY <1>5, <1>6, <1>7, <1>9, <2>1
<1> QED BY <1>10, <1>11

LEMMA TruncateType ==
    ASSUME TypeInv, NEW minT \in MinT, Truncate(minT)
    PROVE  TypeInv'
<1> USE DEF TypeInv
<1>1. HeadTypeOK' BY MinTAssumption, TruncateHeadType DEF Truncate
<1>2. AppTypeOK' BY DEF Truncate, appVars, AppTypeOK
<1>3. WalTypeOK' BY DEF Truncate, walVars, WalTypeOK
<1>4. ReplayTypeOK' BY ReplayTypeUp DEF Truncate
<1>5. HistTypeOK' BY DEF Truncate, HistTypeOK
<1> QED BY <1>1, <1>2, <1>3, <1>4, <1>5

LEMMA CloseType ==
    ASSUME TypeInv, Close
    PROVE  TypeInv'
<1> USE DEF TypeInv
<1>1. HeadTypeOK' BY DEF Close, headVars, HeadTypeOK
<1>2. AppTypeOK' BY DEF Close, appVars, AppTypeOK
<1>3. WalTypeOK' BY DEF Close, WalTypeOK
<1>4. ReplayTypeOK' BY ReplayTypeUp DEF Close
<1>5. HistTypeOK' BY DEF Close, HistTypeOK
<1> QED BY <1>1, <1>2, <1>3, <1>4, <1>5

\* Everything a restart resets is well typed again.
LEMMA RestartType ==
    ASSUME TypeInv, Restart
    PROVE  /\ HeadTypeOK' /\ AppTypeOK' /\ HistTypeOK'
           /\ mode' = "replay" /\ pos' = 1 /\ sub' = 1
           /\ seq' = seq /\ file' = "open"
<1>1. HeadTypeOK' BY DEF Restart, HeadTypeOK, Ref
<1>2. <<>> \in Seq(NewSeries) /\ <<>> \in Seq(Staged) OBVIOUS
<1>3. AppTypeOK' BY <1>2 DEF Restart, AppTypeOK, PC
<1>4. HistTypeOK' BY BoundsAssumption DEF Restart, TypeInv, HistTypeOK
<1> QED BY <1>1, <1>3, <1>4 DEF Restart

\* Replay starts in range, on any well-typed log.
LEMMA ReplayTypeStart ==
    ASSUME WalTypeOK', mode' \in {"up", "replay"}, pos' = 1, sub' = 1
    PROVE  ReplayTypeOK'
<1>1. (pos' \in DOMAIN log' /\ log'[pos'].kind = "samples") => sub' <= Len(log'[pos'].samples)
  <2> SUFFICES ASSUME 1 \in DOMAIN log', log'[1].kind = "samples"
               PROVE  1 <= Len(log'[1].samples)
    OBVIOUS
  <2>1. log'[1] \in Record /\ log'[1].samples # <<>> BY DEF WalTypeOK
  <2>2. log'[1].samples \in Seq(Staged) BY <2>1, RecordKinds DEF SamplesRec
  <2> QED BY <2>1, <2>2
<1> QED BY <1>1 DEF ReplayTypeOK

LEMMA KillType ==
    ASSUME TypeInv, Kill
    PROVE  TypeInv'
<1>1. Restart BY DEF Kill
<1>2. WalTypeOK' BY <1>1, RestartType DEF Kill, TypeInv, WalTypeOK
<1> QED BY <1>1, <1>2, RestartType, ReplayTypeStart DEF TypeInv

\* A power loss leaves a prefix of the log, perhaps with a torn record after it.
LEMMA PowerLossType ==
    ASSUME TypeInv, PowerLoss
    PROVE  TypeInv'
<1>1. Restart BY DEF PowerLoss
<1>2. PICK n \in synced .. Len(log) :
        /\ \/ log' = SubSeq(log, 1, n)
           \/ /\ n < Len(log)
              /\ log' = Append(SubSeq(log, 1, n), [kind |-> "torn", seg |-> log[n + 1].seg])
        /\ synced' = n
  BY DEF PowerLoss
<1> DEFINE cutlog == SubSeq(log, 1, n)
<1>3. n \in Nat /\ n <= Len(log) BY <1>2 DEF TypeInv, WalTypeOK
<1>4. /\ cutlog \in Seq(Record)
      /\ Len(cutlog) = n
      /\ \A p \in 1 .. n : cutlog[p] = log[p]
  BY <1>3 DEF TypeInv, WalTypeOK
<1>5. \A p \in 1 .. n : log[p].kind = "samples" => log[p].samples # <<>>
  BY <1>3 DEF TypeInv, WalTypeOK
<1>6. CASE log' = cutlog
  <2>1. WalTypeOK' BY <1>1, <1>2, <1>3, <1>4, <1>5, <1>6, RestartType DEF TypeInv, WalTypeOK
  <2> QED BY <1>1, <2>1, RestartType, ReplayTypeStart DEF TypeInv
<1>7. CASE n < Len(log) /\ log' = Append(cutlog, [kind |-> "torn", seg |-> log[n + 1].seg])
  <2> DEFINE torn == [kind |-> "torn", seg |-> log[n + 1].seg]
  <2>1. log[n + 1] \in Record BY <1>3, <1>7 DEF TypeInv, WalTypeOK
  <2>2. torn \in Record BY <2>1, RecordKinds DEF Record, TornRec
  <2>3. log' \in Seq(Record) /\ Len(log') = n + 1 BY <1>4, <1>7, <2>2
  <2>4. \A p \in 1 .. n + 1 : log'[p] = IF p = n + 1 THEN torn ELSE log[p]
    BY <1>3, <1>4, <1>7, <2>2
  <2>5. \A p \in DOMAIN log' : log'[p].kind = "samples" => log'[p].samples # <<>>
    BY <1>5, <2>3, <2>4
  <2>6. WalTypeOK' BY <1>1, <1>2, <1>3, <2>3, <2>5, RestartType DEF TypeInv, WalTypeOK
  <2> QED BY <1>1, <2>6, RestartType, ReplayTypeStart DEF TypeInv
<1> QED BY <1>2, <1>6, <1>7

\* Moving on to the next record stays in range.
LEMMA NextRecordType ==
    ASSUME WalTypeOK, ReplayTypeOK, NextRecord, UNCHANGED <<log, mode>>
    PROVE  ReplayTypeOK'
<1>1. pos' \in Nat \ {0} /\ sub' = 1 BY DEF NextRecord, ReplayTypeOK
<1>2. (pos' \in DOMAIN log /\ log[pos'].kind = "samples") => 1 <= Len(log[pos'].samples)
  <2> SUFFICES ASSUME pos' \in DOMAIN log, log[pos'].kind = "samples"
               PROVE  1 <= Len(log[pos'].samples)
    OBVIOUS
  <2>1. log[pos'] \in Record /\ log[pos'].samples # <<>> BY DEF WalTypeOK
  <2>2. log[pos'].samples \in Seq(Staged) BY <2>1, RecordKinds DEF SamplesRec
  <2> QED BY <2>1, <2>2
<1> QED BY <1>1, <1>2 DEF ReplayTypeOK

LEMMA ReplaySeriesType ==
    ASSUME TypeInv, ReplaySeries
    PROVE  TypeInv'
<1> USE DEF TypeInv
<1>1. pos \in DOMAIN log BY DEF ReplaySeries, ReplayTypeOK, WalTypeOK
<1>2. log[pos] \in SeriesRec BY <1>1, RecordKinds DEF ReplaySeries, WalTypeOK
<1>3. log[pos].ref \in Ref /\ log[pos].l \in Label BY <1>2 DEF SeriesRec
<1>4. HeadTypeOK' BY <1>3, AddSeriesType DEF ReplaySeries
<1>5. AppTypeOK' BY DEF ReplaySeries, appVars, AppTypeOK
<1>6. WalTypeOK' BY DEF ReplaySeries, walVars, WalTypeOK
<1>7. ReplayTypeOK' BY NextRecordType DEF ReplaySeries, walVars
<1>8. HistTypeOK' BY DEF ReplaySeries, HistTypeOK
<1> QED BY <1>4, <1>5, <1>6, <1>7, <1>8

LEMMA ReplaySampleType ==
    ASSUME TypeInv, ReplaySample
    PROVE  TypeInv'
<1> USE DEF TypeInv
<1> DEFINE s == log[pos].samples[sub]
<1>1. pos \in DOMAIN log BY DEF ReplaySample, ReplayTypeOK, WalTypeOK
<1>2. log[pos].samples \in Seq(Staged)
  BY <1>1, RecordKinds DEF ReplaySample, WalTypeOK, SamplesRec
<1>3. sub \in DOMAIN log[pos].samples BY <1>1, <1>2 DEF ReplaySample, ReplayTypeOK
<1>4. s \in Staged BY <1>2, <1>3
<1>5. s.t \in Time /\ s.v \in Value BY <1>4 DEF Staged
<1>6. AppendSample(s.ref, s.t, s.v) BY DEF ReplaySample
<1>7. HeadTypeOK' BY <1>5, <1>6, AppendSampleType
<1>8. AppTypeOK' BY DEF ReplaySample, appVars, AppTypeOK
<1>9. WalTypeOK' BY DEF ReplaySample, walVars, WalTypeOK
<1>10. HistTypeOK' BY DEF ReplaySample, HistTypeOK
<1>11. CASE sub < Len(log[pos].samples)
  <2>1. ReplayTypeOK' BY <1>2, <1>11 DEF ReplaySample, walVars, ReplayTypeOK
  <2> QED BY <1>7, <1>8, <1>9, <1>10, <2>1
<1>12. CASE ~(sub < Len(log[pos].samples))
  <2>1. ReplayTypeOK' BY <1>12, NextRecordType DEF ReplaySample, walVars
  <2> QED BY <1>7, <1>8, <1>9, <1>10, <2>1
<1> QED BY <1>11, <1>12

LEMMA ConcatType ==
    ASSUME NEW S, NEW s \in Seq(S), NEW t \in Seq(S)
    PROVE  s \o t \in Seq(S) /\ Len(s \o t) = Len(s) + Len(t)
OBVIOUS

\* An element of a concatenation is an element of one of its parts.
LEMMA ConcatAt ==
    ASSUME NEW S, NEW s \in Seq(S), NEW t \in Seq(S), NEW p \in 1 .. Len(s) + Len(t)
    PROVE  (s \o t)[p] = IF p <= Len(s) THEN s[p] ELSE t[p - Len(s)]
OBVIOUS

\* Where an element behind the first part of a log stands in the second.
LEMMA Shifted ==
    ASSUME NEW n \in Nat, NEW cut \in Nat, NEW first \in Nat \ {0},
           NEW p \in 1 .. (first - 1) + (n - cut + 1), p > first - 1
    PROVE  p - (first - 1) \in 1 .. n - cut + 1
OBVIOUS

\* Truncating a segment at its torn record leaves a well-typed log.
LEMMA TruncateSegmentType ==
    ASSUME WalTypeOK, pos \in DOMAIN log, TruncateSegment, UNCHANGED file
    PROVE  WalTypeOK'
<1> USE DEF WalTypeOK
<1>1. PICK cut \in pos + 1 .. Len(log) + 1 :
        /\ log' = SubSeq(log, 1, pos - 1) \o SubSeq(log, cut, Len(log))
        /\ synced' = CASE synced < pos -> synced
                       [] pos <= synced /\ synced < cut -> pos - 1
                       [] cut <= synced -> synced - (cut - pos)
  BY DEF TruncateSegment
<1> DEFINE before == SubSeq(log, 1, pos - 1)
<1> DEFINE after == SubSeq(log, cut, Len(log))
<1>2. pos \in 1 .. Len(log) /\ cut \in Nat /\ pos < cut /\ cut <= Len(log) + 1 /\ Len(log) \in Nat
  OBVIOUS
<1>3. before \in Seq(Record) /\ Len(before) = pos - 1 /\ \A p \in 1 .. pos - 1 : before[p] = log[p]
  BY <1>2
<1>4. /\ after \in Seq(Record)
      /\ Len(after) = Len(log) - cut + 1
      /\ \A p \in 1 .. Len(log) - cut + 1 : after[p] = log[cut + p - 1]
  BY <1>2
<1>5. log' = before \o after BY <1>1
<1> HIDE DEF before, after
<1>6. log' \in Seq(Record) /\ Len(log') = Len(log) - (cut - pos)
  <2>1. log' \in Seq(Record) /\ Len(log') = Len(before) + Len(after)
    BY <1>5, <1>3, <1>4, ConcatType
  <2> QED BY <2>1, <1>2, <1>3, <1>4
<1>7. \A p \in DOMAIN log' : \E q \in DOMAIN log : log'[p] = log[q]
  <2> TAKE p \in DOMAIN log'
  <2>1. p \in 1 .. Len(before) + Len(after) BY <1>2, <1>3, <1>4, <1>6
  <2>2. log'[p] = IF p <= Len(before) THEN before[p] ELSE after[p - Len(before)]
    BY <1>5, <1>3, <1>4, <2>1, ConcatAt
  <2>3. CASE p <= pos - 1
    <3>1. p \in 1 .. pos - 1 BY <2>1, <2>3, <1>3, <1>4
    <3>2. log'[p] = log[p] BY <1>3, <2>2, <2>3, <3>1
    <3> QED BY <3>1, <3>2, <1>2
  <2>4. CASE p > pos - 1
    <3> DEFINE q == p - (pos - 1)
    <3>0. Len(before) = pos - 1 /\ Len(after) = Len(log) - cut + 1 BY <1>3, <1>4
    <3>1. q \in 1 .. Len(log) - cut + 1 BY <1>2, <2>1, <2>4, <3>0, Shifted
    <3>2. log'[p] = after[q] BY <1>2, <2>1, <2>2, <2>4, <3>0
    <3>3. log'[p] = log[cut + q - 1] BY <1>4, <3>1, <3>2
    <3>4. cut + q - 1 \in DOMAIN log BY <1>2, <3>1
    <3> QED BY <3>3, <3>4
  <2> QED BY <2>1, <2>3, <2>4, <1>2
<1>8. \A p \in DOMAIN log' : log'[p].kind = "samples" => log'[p].samples # <<>>
  BY <1>7
<1>9. synced' \in 0 .. Len(log')
  <2>1. CASE synced < pos BY <1>1, <1>2, <1>6, <2>1
  <2>2. CASE pos <= synced /\ synced < cut BY <1>1, <1>2, <1>6, <2>2
  <2>3. CASE cut <= synced BY <1>1, <1>2, <1>6, <2>3
  <2> QED BY <2>1, <2>2, <2>3, <1>2
<1> QED BY <1>6, <1>8, <1>9 DEF TruncateSegment

LEMMA ReplayTornType ==
    ASSUME TypeInv, ReplayTorn
    PROVE  TypeInv'
<1> USE DEF TypeInv
<1>1. pos \in DOMAIN log BY DEF ReplayTorn, ReplayTypeOK, WalTypeOK
<1>2. HeadTypeOK' BY DEF ReplayTorn, headVars, HeadTypeOK
<1>3. AppTypeOK' BY DEF ReplayTorn, appVars, AppTypeOK
<1>4. WalTypeOK' BY <1>1, TruncateSegmentType DEF ReplayTorn
<1>5. ReplayTypeOK' BY <1>4, ReplayTypeStart DEF ReplayTorn, OpenDone
<1>6. HistTypeOK' BY DEF ReplayTorn, HistTypeOK
<1> QED BY <1>2, <1>3, <1>4, <1>5, <1>6

LEMMA ReplayCorruptType ==
    ASSUME TypeInv, ReplayCorrupt
    PROVE  TypeInv'
<1> USE DEF TypeInv
<1>1. pos \in 1 .. Len(log) BY DEF ReplayCorrupt, ReplayTypeOK, WalTypeOK
<1>2. HeadTypeOK' BY DEF ReplayCorrupt, headVars, HeadTypeOK
<1>3. AppTypeOK' BY DEF ReplayCorrupt, appVars, AppTypeOK
<1>4. /\ log' \in Seq(Record)
      /\ Len(log') = pos - 1
      /\ \A p \in 1 .. pos - 1 : log'[p] = log[p]
  BY <1>1 DEF ReplayCorrupt, WalTypeOK
<1>5. \A p \in DOMAIN log' : log'[p].kind = "samples" => log'[p].samples # <<>>
  BY <1>1, <1>4 DEF WalTypeOK
<1>6. seq' \in Segment BY <1>1, RecordKinds DEF ReplayCorrupt, WalTypeOK
<1>7. synced' \in 0 .. Len(log') BY <1>1, <1>4 DEF ReplayCorrupt, WalTypeOK
<1>8. WalTypeOK' BY <1>4, <1>5, <1>6, <1>7 DEF ReplayCorrupt, WalTypeOK
<1>9. ReplayTypeOK' BY <1>8, ReplayTypeStart DEF ReplayCorrupt, OpenDone
<1>10. HistTypeOK' BY DEF ReplayCorrupt, HistTypeOK
<1> QED BY <1>2, <1>3, <1>8, <1>9, <1>10

LEMMA ReplayDoneType ==
    ASSUME TypeInv, ReplayDone
    PROVE  TypeInv'
<1> USE DEF TypeInv
<1>1. HeadTypeOK' BY DEF ReplayDone, headVars, HeadTypeOK
<1>2. AppTypeOK' BY DEF ReplayDone, appVars, AppTypeOK
<1>3. WalTypeOK' BY DEF ReplayDone, walVars, WalTypeOK
<1>4. ReplayTypeOK' BY <1>3, ReplayTypeStart DEF ReplayDone, OpenDone
<1>5. HistTypeOK' BY DEF ReplayDone, HistTypeOK
<1> QED BY <1>1, <1>2, <1>3, <1>4, <1>5

LEMMA StutterType ==
    ASSUME TypeInv, UNCHANGED vars
    PROVE  TypeInv'
<1> USE DEF vars, TypeInv
<1>1. HeadTypeOK' BY DEF headVars, HeadTypeOK
<1>2. AppTypeOK' BY DEF appVars, AppTypeOK
<1>3. WalTypeOK' BY DEF walVars, WalTypeOK
<1>4. ReplayTypeOK' BY DEF replayVars, walVars, ReplayTypeOK
<1>5. HistTypeOK' BY DEF HistTypeOK
<1> QED BY <1>1, <1>2, <1>3, <1>4, <1>5

LEMMA TypeInvNext == TypeInv /\ [Next]_vars => TypeInv'
<1> SUFFICES ASSUME TypeInv, [Next]_vars PROVE TypeInv' OBVIOUS
<1>1. ASSUME NEW a \in Appender, NEW l \in Label, NEW t \in Time, NEW v \in Value,
             AppendOK(a, l, t, v)
      PROVE  TypeInv'
  BY <1>1, AppendOKType
<1>2. ASSUME NEW a \in Appender, NEW l \in Label, AppendRejected(a, l) PROVE TypeInv'
  BY <1>2, AppendRejectedType
<1>3. ASSUME NEW a \in Appender, Rollback(a) PROVE TypeInv' BY <1>3, RollbackType
<1>4. ASSUME NEW a \in Appender, Commit(a) PROVE TypeInv' BY <1>4, CommitType
<1>5. ASSUME NEW a \in Appender, LogSeries(a) PROVE TypeInv' BY <1>5, LogSeriesType
<1>6. ASSUME NEW a \in Appender, LogSamples(a) PROVE TypeInv' BY <1>6, LogSamplesType
<1>7. ASSUME NEW a \in Appender, Sync(a) PROVE TypeInv' BY <1>7, SyncType
<1>8. ASSUME NEW a \in Appender, CommitFails(a) PROVE TypeInv' BY <1>8, CommitFailsType
<1>9. ASSUME NEW a \in Appender, Apply(a) PROVE TypeInv' BY <1>9, ApplyType
<1>10. ASSUME NEW minT \in MinT, Truncate(minT) PROVE TypeInv' BY <1>10, TruncateType
<1>11. CASE Close BY <1>11, CloseType
<1>12. CASE Kill BY <1>12, KillType
<1>13. CASE PowerLoss BY <1>13, PowerLossType
<1>14. CASE ReplaySeries BY <1>14, ReplaySeriesType
<1>15. CASE ReplaySample BY <1>15, ReplaySampleType
<1>16. CASE ReplayTorn BY <1>16, ReplayTornType
<1>17. CASE ReplayCorrupt BY <1>17, ReplayCorruptType
<1>18. CASE ReplayDone BY <1>18, ReplayDoneType
<1>19. CASE UNCHANGED vars BY <1>19, StutterType
<1> QED
  BY <1>1, <1>2, <1>3, <1>4, <1>5, <1>6, <1>7, <1>8, <1>9, <1>10, <1>11, <1>12,
     <1>13, <1>14, <1>15, <1>16, <1>17, <1>18, <1>19 DEF Next

\* The state is always well typed, and every loop of Commit and of replay
\* indexes inside its slice (tsdb.go, wal.go).
THEOREM Typing == Spec => []TypeInv
BY TypeInvInit, TypeInvNext, PTL DEF Spec

\* Type correctness of the storage engine.
THEOREM TypeCorrect == Spec => []TypeOK
BY Typing, TypeInvImpliesTypeOK, PTL

(***************************************************************************)
(* AppliedIsDurable.  The strengthening says where a batch is between the  *)
(* moment it is logged and the moment it is synced.                        *)
(***************************************************************************)
LoggedUpTo(a, n) ==
    \E p \in 1 .. n : log[p].kind = "samples" /\ log[p].samples = pending[a]

Idle == \A a \in Appender : pc[a] = "stage" /\ newSeries[a] = <<>> /\ pending[a] = <<>>

DurableInv ==
    /\ \A a \in Appender :
         /\ (pc[a] = "sync" /\ pending[a] # <<>>) => LoggedUpTo(a, Len(log))
         /\ pc[a] = "apply" => LoggedUpTo(a, synced)
    /\ mode = "replay" => Idle

\* A step that keeps the log's records, and may add to them and sync more,
\* keeps an appender's batch where it was, unless it moves that appender.
LEMMA DurableKept ==
    ASSUME TypeInv, TypeInv', DurableInv, NEW b \in Appender,
           Len(log') >= Len(log), synced' >= synced,
           \A p \in DOMAIN log : log'[p] = log[p],
           pc'[b] = pc[b], pending'[b] = pending[b]
    PROVE  /\ (pc'[b] = "sync" /\ pending'[b] # <<>>) => LoggedUpTo(b, Len(log))'
           /\ pc'[b] = "apply" => LoggedUpTo(b, synced)'
<1>1. synced \in 0 .. Len(log) /\ synced' \in 0 .. Len(log') /\ DOMAIN log = 1 .. Len(log)
      /\ Len(log) \in Nat /\ Len(log') \in Nat
  BY DEF TypeInv, WalTypeOK
<1>2. ASSUME pc'[b] = "sync", pending'[b] # <<>> PROVE LoggedUpTo(b, Len(log))'
  <2>1. PICK p \in 1 .. Len(log) : log[p].kind = "samples" /\ log[p].samples = pending[b]
    BY <1>2 DEF DurableInv, LoggedUpTo
  <2>2. p \in 1 .. Len(log') /\ log'[p] = log[p] BY <1>1
  <2> QED BY <2>1, <2>2 DEF LoggedUpTo
<1>3. ASSUME pc'[b] = "apply" PROVE LoggedUpTo(b, synced)'
  <2>1. PICK p \in 1 .. synced : log[p].kind = "samples" /\ log[p].samples = pending[b]
    BY <1>3 DEF DurableInv, LoggedUpTo
  <2>2. p \in 1 .. synced' /\ log'[p] = log[p] BY <1>1
  <2> QED BY <2>1, <2>2 DEF LoggedUpTo
<1> QED BY <1>2, <1>3

\* The log grows by one record.
LEMMA PutLog ==
    ASSUME WalTypeOK, NEW rec \in Record, Put(rec)
    PROVE  /\ Len(log') = Len(log) + 1
           /\ \A p \in DOMAIN log : log'[p] = log[p]
           /\ log'[Len(log) + 1] = rec
           /\ synced' >= synced
<1>1. log' = Append(log, rec) BY DEF Put
<1>2. log \in Seq(Record) BY DEF WalTypeOK
<1>3. synced' >= synced BY DEF Put, WalTypeOK
<1> QED BY <1>1, <1>2, <1>3

\* Moving or resetting appender a leaves the others alone.
LEMMA GotoOthers ==
    ASSUME AppTypeOK, NEW a \in Appender, NEW l, NEW i, Goto(a, l, i)
    PROVE  /\ pc'[a] = l /\ idx'[a] = i
           /\ newSeries' = newSeries /\ pending' = pending
           /\ \A b \in Appender : b # a => pc'[b] = pc[b]
BY DEF AppTypeOK, Goto

LEMMA FreshOthers ==
    ASSUME AppTypeOK, NEW a \in Appender, Fresh(a)
    PROVE  /\ pc'[a] = "stage" /\ newSeries'[a] = <<>> /\ pending'[a] = <<>>
           /\ \A b \in Appender : b # a => /\ pc'[b] = pc[b]
                                           /\ newSeries'[b] = newSeries[b]
                                           /\ pending'[b] = pending[b]
BY DEF AppTypeOK, Fresh

\* A step of appender a while the database is up: it is enough to look at a.
LEMMA DurableStep ==
    ASSUME TypeInv, TypeInv', DurableInv, NEW a \in Appender, mode' = "up",
           Len(log') >= Len(log), synced' >= synced,
           \A p \in DOMAIN log : log'[p] = log[p],
           \A b \in Appender : b # a => pc'[b] = pc[b] /\ pending'[b] = pending[b],
           (pc'[a] = "sync" /\ pending'[a] # <<>>) => LoggedUpTo(a, Len(log))',
           pc'[a] = "apply" => LoggedUpTo(a, synced)'
    PROVE  DurableInv'
<1>1. ASSUME NEW b \in Appender
      PROVE  /\ (pc'[b] = "sync" /\ pending'[b] # <<>>) => LoggedUpTo(b, Len(log))'
             /\ pc'[b] = "apply" => LoggedUpTo(b, synced)'
  <2>1. CASE b = a BY <2>1
  <2>2. CASE b # a
    <3>1. pc'[b] = pc[b] /\ pending'[b] = pending[b] BY <2>2
    <3> QED BY <3>1, DurableKept
  <2> QED BY <2>1, <2>2
<1> QED BY <1>1 DEF DurableInv

\* A step that moves no appender and keeps what is in the log.
LEMMA DurableOthers ==
    ASSUME TypeInv, TypeInv', DurableInv, UNCHANGED appVars,
           log' = log, synced' >= synced, mode' = "up" \/ mode' = mode
    PROVE  DurableInv'
<1>1. pc' = pc /\ pending' = pending /\ newSeries' = newSeries BY DEF appVars
<1>2. Len(log) \in Nat BY DEF TypeInv, WalTypeOK
<1>3. ASSUME NEW b \in Appender
      PROVE  /\ (pc'[b] = "sync" /\ pending'[b] # <<>>) => LoggedUpTo(b, Len(log))'
             /\ pc'[b] = "apply" => LoggedUpTo(b, synced)'
  BY <1>1, <1>2, DurableKept
<1>4. mode' = "replay" => Idle' BY <1>1 DEF DurableInv, Idle
<1> QED BY <1>3, <1>4 DEF DurableInv

\* An idle step of every appender.
LEMMA DurableIdle ==
    ASSUME Idle' PROVE DurableInv'
BY DEF Idle, DurableInv

LEMMA DurableInit == Init => DurableInv
BY DEF Init, DurableInv

\* One step for each action: TypeInv' is known from TypeInvNext.
LEMMA DurableNext ==
    ASSUME TypeInv, TypeInv', DurableInv, [Next]_vars
    PROVE  DurableInv'
<1>1. AppTypeOK /\ WalTypeOK /\ Len(log) \in Nat /\ synced \in 0 .. Len(log)
      /\ mode \in {"up", "replay"}
  BY DEF TypeInv, WalTypeOK, ReplayTypeOK
<1>2. ASSUME NEW a \in Appender, NEW l \in Label, NEW t \in Time, NEW v \in Value,
             AppendOK(a, l, t, v)
      PROVE  DurableInv'
  <2>1. pc' = pc /\ pc[a] = "stage" /\ log' = log /\ synced' = synced /\ mode' = "up"
    BY <1>2 DEF AppendOK, walVars, replayVars
  <2>2. \A b \in Appender : b # a => pending'[b] = pending[b]
    BY <1>1, <1>2 DEF AppendOK, Stage, AppTypeOK
  <2> QED BY <1>1, <2>1, <2>2, DurableStep
<1>3. ASSUME NEW a \in Appender, NEW l \in Label, AppendRejected(a, l) PROVE DurableInv'
  <2>1. Goto(a, "rollback", 1) /\ log' = log /\ synced' = synced /\ mode' = "up"
    BY <1>3 DEF AppendRejected, walVars, replayVars
  <2> QED BY <1>1, <2>1, GotoOthers, DurableStep
<1>4. ASSUME NEW a \in Appender, Rollback(a) PROVE DurableInv'
  <2>1. log' = log /\ synced' = synced /\ mode' = "up"
    BY <1>4 DEF Rollback, walVars, replayVars
  <2>2. Goto(a, "rollback", idx[a] + 1) \/ Fresh(a) BY <1>4 DEF Rollback
  <2>3. CASE Goto(a, "rollback", idx[a] + 1)
    BY <1>1, <2>1, <2>3, GotoOthers, DurableStep
  <2>4. CASE Fresh(a) BY <1>1, <2>1, <2>4, FreshOthers, DurableStep
  <2> QED BY <2>2, <2>3, <2>4
<1>5. ASSUME NEW a \in Appender, Commit(a) PROVE DurableInv'
  <2>1. log' = log /\ synced' = synced /\ mode' = "up"
    BY <1>5 DEF Commit, walVars, replayVars
  <2>2. PICK l : Goto(a, l, 1) /\ l \in {"logSeries", AfterSeries(a)}
    BY <1>5 DEF Commit
  <2>3. l # "apply" /\ (l = "sync" => pending[a] = <<>>) BY <2>2 DEF AfterSeries
  <2> QED BY <1>1, <2>1, <2>2, <2>3, GotoOthers, DurableStep
<1>6. ASSUME NEW a \in Appender, LogSeries(a) PROVE DurableInv'
  <2> DEFINE rec == [kind |-> "series", seg |-> NextSeg,
                     ref |-> newSeries[a][idx[a]].ref, l |-> newSeries[a][idx[a]].l]
  <2>1. Put(rec) /\ mode' = "up" BY <1>6 DEF LogSeries, Write, replayVars
  <2>2. newSeries[a][idx[a]] \in NewSeries BY <1>1, <1>6 DEF LogSeries, AppTypeOK
  <2>3. rec \in Record
    BY <1>1, <2>2 DEF Record, SeriesRec, NewSeries, NextSeg, Segment, WalTypeOK
  <2>4. PICK l, i : Goto(a, l, i) /\ l \in {"logSeries", AfterSeries(a)}
    BY <1>6 DEF LogSeries
  <2>5. l # "apply" /\ (l = "sync" => pending[a] = <<>>) BY <2>4 DEF AfterSeries
  <2> HIDE DEF rec
  <2> QED BY <1>1, <2>1, <2>3, <2>4, <2>5, PutLog, GotoOthers, DurableStep
<1>7. ASSUME NEW a \in Appender, LogSamples(a) PROVE DurableInv'
  <2> DEFINE rec == [kind |-> "samples", seg |-> NextSeg, samples |-> pending[a]]
  <2>1. Put(rec) /\ Goto(a, "sync", 1) /\ mode' = "up"
    BY <1>7 DEF LogSamples, Write, replayVars
  <2>2. rec \in Record
    BY <1>1 DEF Record, SamplesRec, NextSeg, Segment, WalTypeOK, AppTypeOK
  <2>3. rec.kind = "samples" /\ rec.samples = pending[a] OBVIOUS
  <2> HIDE DEF rec
  <2>4. Len(log') = Len(log) + 1 /\ log'[Len(log) + 1] = rec BY <1>1, <2>1, <2>2, PutLog
  <2>5. pending' = pending BY <1>1, <2>1, GotoOthers
  <2>6. LoggedUpTo(a, Len(log))'
    BY <1>1, <2>3, <2>4, <2>5 DEF LoggedUpTo
  <2> QED BY <1>1, <2>1, <2>2, <2>6, PutLog, GotoOthers, DurableStep
<1>8. ASSUME NEW a \in Appender, Sync(a) PROVE DurableInv'
  <2>1. log' = log /\ synced' = Len(log) /\ mode' = "up" /\ pc[a] = "sync"
    BY <1>8 DEF Sync, SyncOK, replayVars
  <2>2. CASE pending[a] = <<>>
    BY <1>1, <1>8, <2>1, <2>2, FreshOthers, DurableStep DEF Sync
  <2>3. CASE pending[a] # <<>>
    <3>1. Goto(a, "apply", 1) BY <1>8, <2>3 DEF Sync
    <3>2. LoggedUpTo(a, Len(log)) BY <2>1, <2>3 DEF DurableInv
    <3>3. pending' = pending BY <1>1, <3>1, GotoOthers
    <3>4. LoggedUpTo(a, synced)' BY <2>1, <3>2, <3>3 DEF LoggedUpTo
    <3> QED BY <1>1, <2>1, <3>1, <3>4, GotoOthers, DurableStep
  <2> QED BY <2>2, <2>3
<1>9. ASSUME NEW a \in Appender, CommitFails(a) PROVE DurableInv'
  <2>1. Fresh(a) /\ mode' = "up" BY <1>9 DEF CommitFails, replayVars
  <2>2. CASE log' = log /\ synced' >= synced
    BY <1>1, <2>1, <2>2, FreshOthers, DurableStep
  <2>3. CASE Put([kind |-> "torn", seg |-> NextSeg])
    <3> DEFINE rec == [kind |-> "torn", seg |-> NextSeg]
    <3>1. rec \in Record
      BY <1>1 DEF Record, TornRec, NextSeg, Segment, WalTypeOK
    <3>2. Put(rec) BY <2>3
    <3> HIDE DEF rec
    <3> QED BY <1>1, <2>1, <3>1, <3>2, PutLog, FreshOthers, DurableStep
  <2> QED BY <1>1, <1>9, <2>2, <2>3 DEF CommitFails, WriteFails, SyncFails, walVars
<1>10. ASSUME NEW a \in Appender, Apply(a) PROVE DurableInv'
  <2>1. log' = log /\ synced' = synced /\ mode' = "up" /\ pc[a] = "apply"
    BY <1>10 DEF Apply, walVars, replayVars
  <2>2. Goto(a, "apply", idx[a] + 1) \/ Fresh(a) BY <1>10 DEF Apply
  <2>3. CASE Goto(a, "apply", idx[a] + 1)
    <3>1. pending' = pending BY <1>1, <2>3, GotoOthers
    <3>2. LoggedUpTo(a, synced)' BY <2>1, <3>1 DEF DurableInv, LoggedUpTo
    <3> QED BY <1>1, <2>1, <2>3, <3>2, GotoOthers, DurableStep
  <2>4. CASE Fresh(a) BY <1>1, <2>1, <2>4, FreshOthers, DurableStep
  <2> QED BY <2>2, <2>3, <2>4
<1>11. ASSUME NEW minT \in MinT, Truncate(minT) PROVE DurableInv'
  <2>1. UNCHANGED appVars /\ log' = log /\ synced' = synced /\ mode' = mode
    BY <1>11 DEF Truncate, walVars, replayVars
  <2> QED BY <1>1, <2>1, DurableOthers
<1>12. CASE Close
  <2>1. UNCHANGED appVars /\ log' = log /\ synced' = Len(log) /\ mode' = mode
    BY <1>12 DEF Close, replayVars
  <2> QED BY <1>1, <2>1, DurableOthers
<1>13. CASE Kill \/ PowerLoss
  <2>1. Idle' BY <1>13 DEF Kill, PowerLoss, Restart, Idle
  <2> QED BY <2>1, DurableIdle
<1>14. CASE ReplaySeries \/ ReplaySample
  <2>1. UNCHANGED appVars /\ log' = log /\ synced' = synced /\ mode' = mode
    BY <1>14 DEF ReplaySeries, ReplaySample, walVars
  <2> QED BY <1>1, <2>1, DurableOthers
<1>15. CASE ReplayTorn \/ ReplayCorrupt \/ ReplayDone
  <2>1. Idle BY <1>15 DEF ReplayTorn, ReplayCorrupt, ReplayDone, DurableInv
  <2>2. Idle' BY <1>15, <2>1 DEF ReplayTorn, ReplayCorrupt, ReplayDone, Idle, appVars
  <2> QED BY <2>2, DurableIdle
<1>16. CASE UNCHANGED vars
  <2>1. UNCHANGED appVars /\ log' = log /\ synced' = synced /\ mode' = mode
    BY <1>16 DEF vars, walVars, replayVars
  <2> QED BY <1>1, <2>1, DurableOthers
<1> QED
  BY <1>2, <1>3, <1>4, <1>5, <1>6, <1>7, <1>8, <1>9, <1>10, <1>11, <1>12, <1>13,
     <1>14, <1>15, <1>16 DEF Next

LEMMA DurableInvImplies == DurableInv => AppliedIsDurable
BY DEF DurableInv, AppliedIsDurable, LoggedUpTo

\* An appender applies its samples to the head only after the record that holds
\* them is on disk, whatever the other appenders, Truncate and failures do.
THEOREM WriteAhead == Spec => []AppliedIsDurable
<1>1. TypeInv /\ DurableInv /\ [Next]_vars => (TypeInv /\ DurableInv)'
  BY TypeInvNext, DurableNext
<1>2. Init => TypeInv /\ DurableInv BY TypeInvInit, DurableInit
<1> QED BY <1>1, <1>2, DurableInvImplies, PTL DEF Spec

(***************************************************************************)
(* FirstValueKept.  A value could only be lost to a new series that takes  *)
(* the place of an old one: references are never handed out twice while    *)
(* the series that has one is in the head.                                 *)
(***************************************************************************)
RefsBelow == \A r \in DOMAIN series : r <= lastRef

LEMMA RefsBelowInit == Init => RefsBelow
BY DEF Init, HeadInit, RefsBelow

\* What the head's operations do to its references.
LEMMA RefsShrink ==
    ASSUME RefsBelow, lastRef' = lastRef, DOMAIN series' \subseteq DOMAIN series
    PROVE  RefsBelow'
BY DEF RefsBelow

LEMMA AppendSampleDomain ==
    ASSUME HeadTypeOK, NEW ref, NEW t, NEW v, AppendSample(ref, t, v)
    PROVE  /\ DOMAIN series' = DOMAIN series
           /\ lastRef' = lastRef
           /\ \A r \in DOMAIN series : r # ref => series'[r] = series[r]
           /\ ref \in DOMAIN series =>
                /\ series'[ref].labels = series[ref].labels
                /\ series'[ref].samples = WithSample(series[ref].samples, t, v)
BY DEF AppendSample, HeadTypeOK

LEMMA RefsBelowAdd ==
    ASSUME HeadTypeOK, RefsBelow, NEW ref \in Ref, NEW l \in Label, AddSeriesWithRef(ref, l)
    PROVE  RefsBelow'
<1>1. CASE ref \in DOMAIN series BY <1>1 DEF AddSeriesWithRef, headVars, RefsBelow
<1>2. CASE ref \notin DOMAIN series
  <2>1. DOMAIN series' = DOMAIN series \cup {ref} BY <1>2 DEF AddSeriesWithRef, Inserted
  <2>2. lastRef' = IF ref > lastRef THEN ref ELSE lastRef BY <1>2 DEF AddSeriesWithRef
  <2>3. lastRef \in Nat /\ ref \in Nat /\ DOMAIN series \subseteq Nat BY DEF HeadTypeOK, Ref
  <2> QED BY <2>1, <2>2, <2>3 DEF RefsBelow
<1> QED BY <1>1, <1>2

LEMMA RefsBelowCreated ==
    ASSUME HeadTypeOK, RefsBelow, NEW l \in Label, Created(l, lastRef + 1)
    PROVE  RefsBelow' /\ lastRef + 1 \notin DOMAIN series
<1>1. lastRef \in Nat /\ DOMAIN series \subseteq Nat BY DEF HeadTypeOK, Ref
<1>2. DOMAIN series' = DOMAIN series \cup {lastRef + 1} /\ lastRef' = lastRef + 1
  BY DEF Created, Inserted
<1> QED BY <1>1, <1>2 DEF RefsBelow

LEMMA RefsBelowNext ==
    ASSUME TypeInv, RefsBelow, [Next]_vars
    PROVE  RefsBelow'
<1>1. HeadTypeOK /\ AppTypeOK /\ WalTypeOK /\ ReplayTypeOK BY DEF TypeInv
<1>2. CASE UNCHANGED headVars BY <1>2 DEF RefsBelow, headVars
<1>3. ASSUME NEW a \in Appender, NEW l \in Label, NEW t \in Time, NEW v \in Value,
             AppendOK(a, l, t, v)
      PROVE  RefsBelow'
  BY <1>1, <1>2, <1>3, RefsBelowCreated DEF AppendOK, Found
<1>4. ASSUME NEW a \in Appender, NEW l \in Label, AppendRejected(a, l) PROVE RefsBelow'
  BY <1>2, <1>4 DEF AppendRejected, TooManySeries
<1>5. ASSUME NEW a \in Appender, Rollback(a) PROVE RefsBelow'
  BY <1>2, <1>5, RefsShrink DEF Rollback, ReclaimIfEmpty, Removed
<1>6. ASSUME NEW a \in Appender,
             Commit(a) \/ LogSeries(a) \/ LogSamples(a) \/ Sync(a) \/ CommitFails(a)
      PROVE  RefsBelow'
  BY <1>2, <1>6 DEF Commit, LogSeries, LogSamples, Sync, CommitFails
<1>7. ASSUME NEW a \in Appender, Apply(a) PROVE RefsBelow'
  BY <1>1, <1>7, AppendSampleDomain, RefsShrink DEF Apply
<1>8. ASSUME NEW minT \in MinT, Truncate(minT) PROVE RefsBelow'
  BY <1>8, RefsShrink DEF Truncate, TruncateHead
<1>9. CASE Kill \/ PowerLoss BY <1>9 DEF Kill, PowerLoss, Restart, RefsBelow
<1>10. CASE ReplaySeries
  <2>1. pos \in DOMAIN log BY <1>1, <1>10 DEF ReplaySeries, ReplayTypeOK, WalTypeOK
  <2>2. log[pos] \in SeriesRec BY <1>1, <1>10, <2>1, RecordKinds DEF ReplaySeries, WalTypeOK
  <2>3. log[pos].ref \in Ref /\ log[pos].l \in Label BY <2>2 DEF SeriesRec
  <2> QED BY <1>1, <1>10, <2>3, RefsBelowAdd DEF ReplaySeries
<1>11. CASE ReplaySample BY <1>1, <1>11, AppendSampleDomain, RefsShrink DEF ReplaySample
<1>12. CASE Close \/ ReplayTorn \/ ReplayCorrupt \/ ReplayDone \/ UNCHANGED vars
  BY <1>2, <1>12 DEF Close, ReplayTorn, ReplayCorrupt, ReplayDone, vars
<1> QED
  BY <1>3, <1>4, <1>5, <1>6, <1>7, <1>8, <1>9, <1>10, <1>11, <1>12 DEF Next

\* The series r still holds its value at t.
Kept(r, t) ==
    /\ r \in DOMAIN series' /\ t \in DOMAIN series'[r].samples
    /\ series'[r].samples[t] = series[r].samples[t]

LEMMA AppendSampleKeeps ==
    ASSUME HeadTypeOK, NEW ref, NEW u, NEW v, AppendSample(ref, u, v),
           NEW r \in DOMAIN series, NEW t \in DOMAIN series[r].samples
    PROVE  Kept(r, t)
<1>1. CASE r # ref BY <1>1, AppendSampleDomain DEF Kept
<1>2. CASE r = ref
  <2>1. series'[r].samples = WithSample(series[r].samples, u, v)
    BY <1>2, AppendSampleDomain
  <2>2. t \in DOMAIN WithSample(series[r].samples, u, v)
        /\ WithSample(series[r].samples, u, v)[t] = series[r].samples[t]
    BY DEF WithSample
  <2> QED BY <1>2, <2>1, <2>2, AppendSampleDomain DEF Kept
<1> QED BY <1>1, <1>2

\* One step for each action that touches the head.
LEMMA ValueKept ==
    ASSUME TypeInv, RefsBelow, Next, mode = "up", mode' = "up",
           NEW r \in DOMAIN series, NEW t \in DOMAIN series[r].samples
    PROVE  Kept(r, t) \/ t < lowWater'
<1>1. HeadTypeOK BY DEF TypeInv
<1>2. CASE UNCHANGED headVars BY <1>2 DEF Kept, headVars
<1>3. ASSUME NEW a \in Appender, NEW l \in Label, NEW u \in Time, NEW v \in Value,
             AppendOK(a, l, u, v)
      PROVE  Kept(r, t)
  <2>1. CASE Created(l, lastRef + 1)
    <3>1. r # lastRef + 1 BY <1>1, <2>1, RefsBelowCreated
    <3>2. series'[r] = series[r] /\ r \in DOMAIN series' BY <2>1, <3>1 DEF Created, Inserted
    <3> QED BY <3>2 DEF Kept
  <2> QED BY <1>2, <1>3, <2>1 DEF AppendOK, Found, Kept, headVars
<1>4. ASSUME NEW a \in Appender, NEW l \in Label, AppendRejected(a, l) PROVE Kept(r, t)
  BY <1>4 DEF AppendRejected, TooManySeries, Kept, headVars
<1>5. ASSUME NEW a \in Appender, Rollback(a) PROVE Kept(r, t)
  <2>1. CASE UNCHANGED headVars BY <2>1 DEF Kept, headVars
  <2>2. ASSUME NEW ref, ReclaimIfEmpty(ref) PROVE Kept(r, t)
    <3>1. CASE series' = series BY <3>1 DEF Kept
    <3>2. CASE DOMAIN series[ref].samples = {} /\ series' = Removed({ref})
      BY <3>2 DEF Removed, Kept
    <3> QED BY <2>2, <3>1, <3>2 DEF ReclaimIfEmpty
  <2> QED BY <1>5, <2>1, <2>2 DEF Rollback
<1>6. ASSUME NEW a \in Appender,
             Commit(a) \/ LogSeries(a) \/ LogSamples(a) \/ Sync(a) \/ CommitFails(a)
      PROVE  UNCHANGED headVars
  BY <1>6 DEF Commit, LogSeries, LogSamples, Sync, CommitFails
<1>7. ASSUME NEW a \in Appender, Apply(a) PROVE Kept(r, t)
  BY <1>1, <1>7, AppendSampleKeeps DEF Apply
<1>8. ASSUME NEW minT \in MinT, Truncate(minT) PROVE Kept(r, t) \/ t < lowWater'
  <2>1. lowWater' = minT /\ TruncateHead(minT) BY <1>8 DEF Truncate
  <2>2. minT \in Int /\ t \in Int
    BY <1>1, MinTAssumption, TimeAssumption DEF HeadTypeOK, Samples
  <2>3. CASE t >= minT
    <3>1. r \in DOMAIN series' /\ series'[r].samples = From(series[r].samples, minT)
      BY <2>1, <2>3 DEF TruncateHead
    <3> QED BY <2>3, <3>1 DEF From, Kept
  <2> QED BY <2>1, <2>2, <2>3
<1>9. ~Kill /\ ~PowerLoss BY DEF Kill, PowerLoss, Restart
<1>10. ~ReplaySeries /\ ~ReplaySample /\ ~ReplayTorn /\ ~ReplayCorrupt /\ ~ReplayDone
  BY DEF ReplaySeries, ReplaySample, ReplayTorn, ReplayCorrupt, ReplayDone
<1>11. CASE Close BY <1>2, <1>11 DEF Close
<1> QED
  BY <1>2, <1>3, <1>4, <1>5, <1>6, <1>7, <1>8, <1>9, <1>10, <1>11 DEF Next

\* A value that is in the head stays there with the process, until Truncate is given
\* a cut-off past it: no later batch overwrites it, no rollback and no new series
\* takes it away (head.go, appendSample, reclaimIfEmpty, truncate).
THEOREM FirstValueWins == Spec => FirstValueKept
<1>1. Init => TypeInv /\ RefsBelow BY TypeInvInit, RefsBelowInit
<1>2. TypeInv /\ RefsBelow /\ [Next]_vars => (TypeInv /\ RefsBelow)'
  BY TypeInvNext, RefsBelowNext
<1>3. TypeInv /\ RefsBelow /\ [Next]_vars
        => [mode = "up" /\ mode' = "up" =>
             \A r \in DOMAIN series : \A t \in DOMAIN series[r].samples :
                \/ r \in DOMAIN series' /\ t \in DOMAIN series'[r].samples
                                        /\ series'[r].samples[t] = series[r].samples[t]
                \/ t < lowWater']_vars
  BY ValueKept DEF Kept
<1> QED BY <1>1, <1>2, <1>3, PTL DEF Spec, FirstValueKept

(***************************************************************************)
(* OnlyCommittedVisible.  Before the first crash the references of a batch *)
(* are those its lookups returned: as long as such a series is there, it   *)
(* is the one the sample was staged for.                                   *)
(***************************************************************************)
StagedNames ==
    \A a \in Appender : \A i \in DOMAIN pending[a] :
        /\ pending[a][i].ref <= lastRef
        /\ pending[a][i].ref \in DOMAIN series
              => series[pending[a][i].ref].labels = pending[a][i].l

\* The samples a reader may see.
Committed == acked \cup UNION {Batch(a) : a \in {b \in Appender : pc[b] = "apply"}}
Visible(r, t) == [l |-> series[r].labels, t |-> t, v |-> series[r].samples[t]]

VisibleInv ==
    crashes = 0 =>
        /\ mode = "up"
        /\ StagedNames
        /\ \A r \in DOMAIN series : \A t \in DOMAIN series[r].samples : Visible(r, t) \in Committed

LEMMA VisibleInit == Init => VisibleInv
BY DEF Init, HeadInit, VisibleInv, StagedNames

\* An appender that leaves its applying place has all its samples acknowledged.
LEMMA CommittedGrows ==
    ASSUME acked \subseteq acked',
           \A b \in Appender : pc[b] = "apply" =>
               \/ pc'[b] = "apply" /\ pending'[b] = pending[b]
               \/ Batch(b) \subseteq acked'
    PROVE  Committed \subseteq Committed'
<1>1. ASSUME NEW b \in Appender, pc[b] = "apply" PROVE Batch(b) \subseteq Committed'
  <2>1. CASE pc'[b] = "apply" /\ pending'[b] = pending[b]
    <3>1. Batch(b)' = Batch(b) BY <2>1 DEF Batch
    <3> QED BY <2>1, <3>1 DEF Committed
  <2>2. CASE Batch(b) \subseteq acked' BY <2>2 DEF Committed
  <2> QED BY <1>1, <2>1, <2>2
<1> QED BY <1>1 DEF Committed

\* A step that shows no new sample, and keeps the series of the staged ones.
LEMMA VisibleShrinks ==
    ASSUME VisibleInv, crashes' = crashes, mode' = mode, lastRef' = lastRef,
           \A r \in DOMAIN series' :
               /\ r \in DOMAIN series
               /\ series'[r].labels = series[r].labels
               /\ \A t \in DOMAIN series'[r].samples :
                     /\ t \in DOMAIN series[r].samples
                     /\ series'[r].samples[t] = series[r].samples[t],
           \A a \in Appender : pending'[a] = pending[a] \/ pending'[a] = <<>>,
           Committed \subseteq Committed'
    PROVE  VisibleInv'
<1> SUFFICES ASSUME crashes = 0 PROVE /\ mode' = "up"
                                     /\ StagedNames'
                                     /\ \A r \in DOMAIN series' : \A t \in DOMAIN series'[r].samples :
                                           Visible(r, t)' \in Committed'
  BY DEF VisibleInv
<1>1. StagedNames' BY DEF VisibleInv, StagedNames
<1>2. ASSUME NEW r \in DOMAIN series', NEW t \in DOMAIN series'[r].samples
      PROVE  Visible(r, t)' \in Committed'
  <2>1. r \in DOMAIN series /\ t \in DOMAIN series[r].samples /\ Visible(r, t)' = Visible(r, t)
    BY DEF Visible
  <2> QED BY <2>1 DEF VisibleInv
<1> QED BY <1>1, <1>2 DEF VisibleInv

\* A step that leaves the head alone, and moves only appender a.
LEMMA VisibleQuiet ==
    ASSUME VisibleInv, crashes' = crashes, mode' = mode, UNCHANGED headVars,
           \A a \in Appender : pending'[a] = pending[a] \/ pending'[a] = <<>>,
           \A b \in Appender : pc[b] = "apply" => pc'[b] = "apply" /\ pending'[b] = pending[b],
           acked' = acked
    PROVE  VisibleInv'
<1>1. Committed \subseteq Committed' BY CommittedGrows
<1> QED BY <1>1, VisibleShrinks DEF headVars

LEMMA VisibleAppendOK ==
    ASSUME TypeInv, RefsBelow, VisibleInv, NEW a \in Appender, NEW l \in Label, NEW t \in Time,
           NEW v \in Value, AppendOK(a, l, t, v)
    PROVE  VisibleInv'
<1>1. /\ HeadTypeOK /\ AppTypeOK /\ mode' = mode /\ crashes' = crashes /\ acked' = acked
      /\ pc' = pc /\ pc[a] = "stage" /\ lastRef \in Nat
  BY DEF AppendOK, TypeInv, replayVars, HeadTypeOK
<1>2. PICK ref : /\ Stage(a, ref, l, t, v)
                 /\ \/ ref \in RefsOf(l) /\ UNCHANGED headVars
                    \/ ref = lastRef + 1 /\ Created(l, lastRef + 1)
  BY DEF AppendOK, Found
<1>3. /\ \A b \in Appender : b # a => pending'[b] = pending[b]
      /\ pending'[a] = Append(pending[a], [ref |-> ref, l |-> l, t |-> t, v |-> v])
  BY <1>1, <1>2 DEF Stage, AppTypeOK
<1>4. Committed \subseteq Committed'
  BY <1>1, <1>3, CommittedGrows
<1>5. /\ lastRef' \in Nat /\ lastRef <= lastRef' /\ ref <= lastRef'
      /\ ref \in DOMAIN series' /\ series'[ref].labels = l
      /\ DOMAIN series \subseteq DOMAIN series'
      /\ \A r \in DOMAIN series : series'[r] = series[r]
      /\ \A r \in DOMAIN series' : r \in DOMAIN series \/ (r > lastRef /\ series'[r].samples = NoSamples)
  <2>1. CASE ref \in RefsOf(l) /\ UNCHANGED headVars
    BY <1>1, <2>1 DEF RefsOf, headVars, RefsBelow
  <2>2. CASE ref = lastRef + 1 /\ Created(l, lastRef + 1)
    BY <1>1, <2>2, RefsBelowCreated DEF Created, Inserted
  <2> QED BY <1>2, <2>1, <2>2
<1> SUFFICES ASSUME crashes = 0 PROVE /\ mode' = "up"
                                     /\ StagedNames'
                                     /\ \A r \in DOMAIN series' : \A u \in DOMAIN series'[r].samples :
                                           Visible(r, u)' \in Committed'
  BY <1>1 DEF VisibleInv
<1>6. ASSUME NEW b \in Appender, NEW i \in DOMAIN pending'[b]
      PROVE  /\ pending'[b][i].ref <= lastRef'
             /\ pending'[b][i].ref \in DOMAIN series'
                  => series'[pending'[b][i].ref].labels = pending'[b][i].l
  <2>1. CASE i \in DOMAIN pending[b] /\ pending'[b][i] = pending[b][i]
    <3>1. pending[b] \in Seq(Staged) BY <1>1 DEF AppTypeOK
    <3>3. pending[b][i] \in Staged BY <2>1, <3>1
    <3>4. pending[b][i].ref \in Nat BY <3>3 DEF Staged, Ref
    <3>2. /\ pending[b][i].ref <= lastRef
          /\ pending[b][i].ref \in DOMAIN series
               => series[pending[b][i].ref].labels = pending[b][i].l
      BY <2>1 DEF VisibleInv, StagedNames
    <3> QED BY <1>1, <1>5, <2>1, <3>2, <3>4
  <2>2. CASE b = a /\ pending'[b][i] = [ref |-> ref, l |-> l, t |-> t, v |-> v]
    BY <1>5, <2>2
  <2>3. pending[a] \in Seq(Staged) BY <1>1 DEF AppTypeOK
  <2> QED BY <1>3, <2>1, <2>2, <2>3
<1>7. ASSUME NEW r \in DOMAIN series', NEW u \in DOMAIN series'[r].samples
      PROVE  Visible(r, u)' \in Committed'
  <2>1. r \in DOMAIN series BY <1>5 DEF NoSamples
  <2> QED BY <1>4, <1>5, <2>1 DEF VisibleInv, Visible
<1>8. mode' = "up" BY <1>1 DEF VisibleInv
<1> QED BY <1>6, <1>7, <1>8 DEF StagedNames

LEMMA VisibleApply ==
    ASSUME TypeInv, VisibleInv, NEW a \in Appender, Apply(a)
    PROVE  VisibleInv'
<1> DEFINE s == pending[a][idx[a]]
<1>1. /\ HeadTypeOK /\ AppTypeOK /\ mode' = mode /\ crashes' = crashes
      /\ pc[a] = "apply" /\ idx[a] \in DOMAIN pending[a] /\ AppendSample(s.ref, s.t, s.v)
  BY DEF Apply, TypeInv, replayVars, AppTypeOK
<1>2. Committed \subseteq Committed'
  <2>1. CASE Goto(a, "apply", idx[a] + 1) /\ UNCHANGED acked
    BY <1>1, <2>1, GotoOthers, CommittedGrows
  <2>2. CASE Fresh(a) /\ acked' = acked \cup Batch(a)
    BY <1>1, <2>2, FreshOthers, CommittedGrows
  <2> QED BY <2>1, <2>2 DEF Apply
<1>3. \A b \in Appender : pending'[b] = pending[b] \/ pending'[b] = <<>>
  BY <1>1, GotoOthers, FreshOthers DEF Apply
<1> SUFFICES ASSUME crashes = 0 PROVE /\ mode' = "up"
                                     /\ StagedNames'
                                     /\ \A r \in DOMAIN series' : \A t \in DOMAIN series'[r].samples :
                                           Visible(r, t)' \in Committed'
  BY <1>1 DEF VisibleInv
<1>4. /\ DOMAIN series' = DOMAIN series /\ lastRef' = lastRef
      /\ \A r \in DOMAIN series : series'[r].labels = series[r].labels
  BY <1>1, AppendSampleDomain
<1>5. StagedNames' BY <1>3, <1>4 DEF VisibleInv, StagedNames
<1>6. ASSUME NEW r \in DOMAIN series', NEW t \in DOMAIN series'[r].samples
      PROVE  Visible(r, t)' \in Committed'
  <2>1. CASE t \in DOMAIN series[r].samples /\ series'[r].samples[t] = series[r].samples[t]
    BY <1>2, <1>4, <2>1 DEF VisibleInv, Visible
  <2>2. CASE r = s.ref /\ t = s.t /\ series'[r].samples[t] = s.v
    <3>1. series[r].labels = s.l BY <1>1, <1>4, <2>2 DEF VisibleInv, StagedNames
    <3>2. Visible(r, t)' = [l |-> s.l, t |-> s.t, v |-> s.v]
      BY <1>4, <2>2, <3>1 DEF Visible
    <3>3. Visible(r, t)' \in Batch(a) BY <1>1, <3>2 DEF Batch
    <3>4. Batch(a) \subseteq Committed BY <1>1 DEF Committed
    <3> QED BY <1>2, <3>3, <3>4
  <2>3. r # s.ref => series'[r] = series[r] BY <1>1, <1>4, AppendSampleDomain
  <2>4. r = s.ref => series'[r].samples = WithSample(series[r].samples, s.t, s.v)
    BY <1>1, <1>4, AppendSampleDomain
  <2> QED BY <1>4, <2>1, <2>2, <2>3, <2>4 DEF WithSample
<1>7. mode' = "up" BY <1>1 DEF VisibleInv
<1> QED BY <1>5, <1>6, <1>7

LEMMA VisibleNext ==
    ASSUME TypeInv, RefsBelow, VisibleInv, [Next]_vars
    PROVE  VisibleInv'
<1>1. HeadTypeOK /\ AppTypeOK BY DEF TypeInv
<1>2. ASSUME NEW a \in Appender, NEW l \in Label, NEW t \in Time, NEW v \in Value,
             AppendOK(a, l, t, v)
      PROVE  VisibleInv'
  BY <1>2, VisibleAppendOK
<1>3. ASSUME NEW a \in Appender, NEW l \in Label, AppendRejected(a, l) PROVE VisibleInv'
  <2>1. /\ Goto(a, "rollback", 1) /\ UNCHANGED headVars /\ mode' = mode /\ crashes' = crashes
        /\ acked' = acked /\ pc[a] = "stage"
    BY <1>3 DEF AppendRejected, TooManySeries, replayVars
  <2> QED BY <1>1, <2>1, GotoOthers, VisibleQuiet
<1>4. ASSUME NEW a \in Appender, Rollback(a) PROVE VisibleInv'
  <2>1. mode' = mode /\ crashes' = crashes /\ acked' = acked /\ pc[a] = "rollback"
    BY <1>4 DEF Rollback, replayVars
  <2>2. CASE ReclaimIfEmpty(newSeries[a][idx[a]].ref) /\ Goto(a, "rollback", idx[a] + 1)
    <3>1. lastRef' = lastRef /\ \A r \in DOMAIN series' : r \in DOMAIN series /\ series'[r] = series[r]
      BY <2>2 DEF ReclaimIfEmpty, Removed
    <3>2. Committed \subseteq Committed' BY <1>1, <2>1, <2>2, GotoOthers, CommittedGrows
    <3>3. \A b \in Appender : pending'[b] = pending[b] BY <2>2 DEF Goto
    <3> QED BY <2>1, <3>1, <3>2, <3>3, VisibleShrinks
  <2>3. CASE Fresh(a) /\ UNCHANGED headVars BY <1>1, <2>1, <2>3, FreshOthers, VisibleQuiet
  <2> QED BY <1>4, <2>2, <2>3 DEF Rollback
<1>5. ASSUME NEW a \in Appender, Commit(a) \/ LogSeries(a) \/ LogSamples(a) PROVE VisibleInv'
  <2>1. /\ UNCHANGED headVars /\ mode' = mode /\ crashes' = crashes /\ acked' = acked
        /\ pc[a] # "apply" /\ \E label, i : Goto(a, label, i)
    BY <1>5 DEF Commit, LogSeries, LogSamples, replayVars
  <2> QED BY <1>1, <2>1, GotoOthers, VisibleQuiet
<1>6. ASSUME NEW a \in Appender, Sync(a) \/ CommitFails(a) PROVE VisibleInv'
  <2>1. /\ UNCHANGED headVars /\ mode' = mode /\ crashes' = crashes /\ acked' = acked
        /\ pc[a] # "apply" /\ (Fresh(a) \/ Goto(a, "apply", 1))
    BY <1>6 DEF Sync, CommitFails, replayVars
  <2>2. CASE Fresh(a) BY <1>1, <2>1, <2>2, FreshOthers, VisibleQuiet
  <2>3. CASE Goto(a, "apply", 1) BY <1>1, <2>1, <2>3, GotoOthers, VisibleQuiet
  <2> QED BY <2>1, <2>2, <2>3
<1>7. ASSUME NEW a \in Appender, Apply(a) PROVE VisibleInv' BY <1>7, VisibleApply
<1>8. ASSUME NEW minT \in MinT, Truncate(minT) PROVE VisibleInv'
  <2>1. /\ TruncateHead(minT) /\ mode' = mode /\ crashes' = crashes /\ acked' = acked
        /\ pc' = pc /\ pending' = pending /\ lastRef' = lastRef
    BY <1>8 DEF Truncate, TruncateHead, replayVars, appVars
  <2>2. Committed \subseteq Committed' BY <2>1, CommittedGrows
  <2>3. \A r \in DOMAIN series' :
             /\ r \in DOMAIN series
             /\ series'[r].labels = series[r].labels
             /\ \A t \in DOMAIN series'[r].samples :
                   /\ t \in DOMAIN series[r].samples
                   /\ series'[r].samples[t] = series[r].samples[t]
    BY <2>1 DEF TruncateHead, From
  <2> QED BY <2>1, <2>2, <2>3, VisibleShrinks
<1>9. CASE Close \/ UNCHANGED vars
  BY <1>9, VisibleQuiet DEF Close, vars, headVars, appVars, replayVars
<1>10. CASE Kill \/ PowerLoss
  <2>1. crashes' = crashes + 1 /\ crashes \in Nat
    BY <1>10, BoundsAssumption DEF Kill, PowerLoss, Restart, TypeInv, HistTypeOK
  <2> QED BY <2>1 DEF VisibleInv
<1>11. CASE ReplaySeries \/ ReplaySample \/ ReplayTorn \/ ReplayCorrupt \/ ReplayDone
  <2>1. mode = "replay" /\ crashes' = crashes
    BY <1>11 DEF ReplaySeries, ReplaySample, ReplayTorn, ReplayCorrupt, ReplayDone
  <2> QED BY <2>1 DEF VisibleInv
<1> QED
  BY <1>2, <1>3, <1>4, <1>5, <1>6, <1>7, <1>8, <1>9, <1>10, <1>11 DEF Next

LEMMA VisibleImplies == VisibleInv => OnlyCommittedVisible
BY DEF VisibleInv, OnlyCommittedVisible, Visible, Committed

\* Until a restart, whatever the appenders do side by side and whichever writes fail,
\* a reader sees a sample only once its batch has been logged and synced (Commit).
THEOREM NothingUncommitted == Spec => []OnlyCommittedVisible
<1>1. Init => TypeInv /\ RefsBelow /\ VisibleInv BY TypeInvInit, RefsBelowInit, VisibleInit
<1>2. TypeInv /\ RefsBelow /\ VisibleInv /\ [Next]_vars => (TypeInv /\ RefsBelow /\ VisibleInv)'
  BY TypeInvNext, RefsBelowNext, VisibleNext
<1> QED BY <1>1, <1>2, VisibleImplies, PTL DEF Spec

(***************************************************************************)
(* RecoverySound.  While no write has failed, only a power loss tears a    *)
(* record, and the torn record is the last one until replay gets to it.    *)
(***************************************************************************)
TornLast ==
    \A p \in DOMAIN log : log[p].kind = "torn" => p = Len(log) /\ mode = "replay" /\ pos <= p

TornInv == fails = 0 => TornLast

\* What a power loss leaves: the first n records, and perhaps a fragment of the next.
LEMMA PowerLossLog ==
    ASSUME TypeInv, PowerLoss
    PROVE  \E n \in 0 .. Len(log) :
              /\ \A p \in 1 .. n : log'[p] = log[p]
              /\ \/ DOMAIN log' = 1 .. n /\ Len(log') = n
                 \/ /\ n < Len(log)
                    /\ DOMAIN log' = 1 .. n + 1 /\ Len(log') = n + 1
                    /\ log'[n + 1].kind = "torn"
<1>1. PICK n \in synced .. Len(log) :
        \/ log' = SubSeq(log, 1, n)
        \/ n < Len(log) /\ log' = Append(SubSeq(log, 1, n), [kind |-> "torn", seg |-> log[n + 1].seg])
  BY DEF PowerLoss
<1> DEFINE cutlog == SubSeq(log, 1, n)
<1>2. n \in 0 .. Len(log) /\ log \in Seq(Record) /\ Len(log) \in Nat
  BY <1>1 DEF TypeInv, WalTypeOK
<1>3. cutlog \in Seq(Record) /\ Len(cutlog) = n /\ \A p \in 1 .. n : cutlog[p] = log[p]
  BY <1>2
<1>4. CASE log' = cutlog BY <1>2, <1>3, <1>4
<1>5. CASE n < Len(log) /\ log' = Append(cutlog, [kind |-> "torn", seg |-> log[n + 1].seg])
  <2> DEFINE torn == [kind |-> "torn", seg |-> log[n + 1].seg]
  <2>1. log[n + 1] \in Record BY <1>2, <1>5
  <2>2. torn \in Record /\ torn.kind = "torn" BY <2>1, RecordKinds DEF Record, TornRec
  <2> HIDE DEF torn
  <2>3. log' = Append(cutlog, torn) BY <1>5 DEF torn
  <2>4. /\ DOMAIN log' = 1 .. n + 1
        /\ Len(log') = n + 1
        /\ \A p \in 1 .. n : log'[p] = log[p]
        /\ log'[n + 1] = torn
    BY <1>2, <1>3, <2>2, <2>3
  <2> QED BY <1>2, <1>5, <2>2, <2>4
<1> QED BY <1>1, <1>4, <1>5

\* A torn record that is the last one is cut off.
LEMMA TornCut ==
    ASSUME TypeInv, TornLast, ReplayTorn
    PROVE  /\ pos = Len(log) /\ pos \in DOMAIN log
           /\ DOMAIN log' = 1 .. pos - 1 /\ Len(log') = pos - 1
           /\ \A p \in 1 .. pos - 1 : log'[p] = log[p]
<1>1. pos \in DOMAIN log /\ log[pos].kind = "torn" /\ log \in Seq(Record)
  BY DEF ReplayTorn, TypeInv, WalTypeOK, ReplayTypeOK
<1>2. pos = Len(log) /\ Len(log) \in Nat BY <1>1 DEF TornLast
<1>3. log' = SubSeq(log, 1, pos - 1) \o SubSeq(log, pos + 1, Len(log))
  BY <1>1, <1>2 DEF ReplayTorn, TruncateSegment
<1>4. SubSeq(log, pos + 1, Len(log)) = <<>> BY <1>1, <1>2
<1>5. log' = SubSeq(log, 1, pos - 1) BY <1>1, <1>2, <1>3, <1>4
<1> QED BY <1>1, <1>2, <1>5

\* A fragment that whole records follow needs a failed write.
LEMMA NoCorruption ==
    ASSUME TypeInv, TornLast, ReplayCorrupt
    PROVE  FALSE
<1>1. pos \in DOMAIN log /\ pos < Len(log) /\ log[pos].kind = "torn"
  BY DEF ReplayCorrupt, TypeInv, WalTypeOK, ReplayTypeOK
<1> QED BY <1>1 DEF TornLast

\* A step that keeps the log, or adds a whole record, while the database is up.
LEMMA TornPut ==
    ASSUME TypeInv, TornLast, mode = "up", NEW rec \in Record, rec.kind # "torn", Put(rec)
    PROVE  TornLast'
<1>1. /\ Len(log') = Len(log) + 1 /\ log'[Len(log) + 1] = rec
      /\ \A p \in DOMAIN log : log'[p] = log[p]
  BY PutLog DEF TypeInv
<1>2. log \in Seq(Record) /\ log' = Append(log, rec) BY DEF Put, TypeInv, WalTypeOK
<1>3. \A p \in DOMAIN log' : p \in DOMAIN log \/ p = Len(log) + 1 BY <1>2
<1> QED BY <1>1, <1>3 DEF TornLast

\* Replay goes past a record only if it is not torn.
LEMMA TornAhead ==
    ASSUME TypeInv, TornLast, mode = "replay", mode' = "replay", log' = log,
           pos \in DOMAIN log, log[pos].kind # "torn", pos' \in {pos, pos + 1}
    PROVE  TornLast'
<1>1. DOMAIN log \subseteq Nat /\ pos \in Nat BY DEF TypeInv, WalTypeOK
<1> SUFFICES ASSUME NEW p \in DOMAIN log, log[p].kind = "torn"
             PROVE  p = Len(log) /\ pos' <= p
  BY DEF TornLast
<1>2. p = Len(log) /\ pos <= p /\ p # pos BY DEF TornLast
<1> QED BY <1>1, <1>2

LEMMA TornInvInit == Init => TornInv
BY DEF Init, TornInv, TornLast

LEMMA TornInvNext ==
    ASSUME TypeInv, TornInv, [Next]_vars
    PROVE  TornInv'
<1> SUFFICES ASSUME fails' = 0 PROVE TornLast' BY DEF TornInv
<1>1. /\ AppTypeOK /\ WalTypeOK /\ ReplayTypeOK /\ fails \in Nat
      /\ log \in Seq(Record) /\ Len(log) \in Nat /\ DOMAIN log = 1 .. Len(log)
  BY BoundsAssumption DEF TypeInv, WalTypeOK, HistTypeOK
<1>2. ASSUME NEW a \in Appender, LogSeries(a) PROVE TornLast'
  <2> DEFINE rec == [kind |-> "series", seg |-> NextSeg,
                     ref |-> newSeries[a][idx[a]].ref, l |-> newSeries[a][idx[a]].l]
  <2>1. Put(rec) /\ mode = "up" /\ fails' = fails BY <1>2 DEF LogSeries, Write
  <2>2. newSeries[a][idx[a]] \in NewSeries BY <1>1, <1>2 DEF LogSeries, AppTypeOK
  <2>3. rec \in Record
    BY <1>1, <2>2 DEF Record, SeriesRec, NewSeries, NextSeg, Segment, WalTypeOK
  <2>4. rec.kind # "torn" OBVIOUS
  <2> HIDE DEF rec
  <2> QED BY <2>1, <2>3, <2>4, TornPut DEF TornInv
<1>3. ASSUME NEW a \in Appender, LogSamples(a) PROVE TornLast'
  <2> DEFINE rec == [kind |-> "samples", seg |-> NextSeg, samples |-> pending[a]]
  <2>1. Put(rec) /\ mode = "up" /\ fails' = fails BY <1>3 DEF LogSamples, Write
  <2>2. rec \in Record
    BY <1>1 DEF Record, SamplesRec, NextSeg, Segment, WalTypeOK, AppTypeOK
  <2>3. rec.kind # "torn" OBVIOUS
  <2> HIDE DEF rec
  <2> QED BY <2>1, <2>2, <2>3, TornPut DEF TornInv
<1>4. ASSUME NEW a \in Appender, CommitFails(a) PROVE TornLast'
  <2>1. log' = log /\ mode' = mode /\ pos' = pos /\ fails' = fails
    BY <1>1, <1>4 DEF CommitFails, WriteFails, SyncFails, walVars, replayVars
  <2> QED BY <2>1 DEF TornInv, TornLast
<1>5. CASE /\ log' = log /\ mode' = mode /\ fails' = fails /\ mode = "up"
  BY <1>5 DEF TornInv, TornLast
<1>6. ASSUME NEW a \in Appender, NEW l \in Label, NEW t \in Time, NEW v \in Value,
             AppendOK(a, l, t, v)
      PROVE  TornLast'
  BY <1>5, <1>6 DEF AppendOK, walVars, replayVars
<1>7. ASSUME NEW a \in Appender, NEW l \in Label, AppendRejected(a, l) PROVE TornLast'
  BY <1>5, <1>7 DEF AppendRejected, walVars, replayVars
<1>8. ASSUME NEW a \in Appender, Rollback(a) \/ Commit(a) \/ Sync(a) \/ Apply(a)
      PROVE  TornLast'
  BY <1>5, <1>8 DEF Rollback, Commit, Sync, SyncOK, Apply, walVars, replayVars
<1>9. ASSUME NEW minT \in MinT, Truncate(minT) PROVE TornLast'
  BY <1>5, <1>9 DEF Truncate, walVars, replayVars
<1>10. CASE Close BY <1>5, <1>10 DEF Close, replayVars
<1>11. CASE Kill
  <2>1. log' = log /\ mode' = "replay" /\ pos' = 1 /\ fails' = fails BY <1>11 DEF Kill, Restart
  <2> QED BY <1>1, <2>1 DEF TornInv, TornLast
<1>12. CASE PowerLoss
  <2>1. mode' = "replay" /\ pos' = 1 /\ fails' = fails BY <1>12 DEF PowerLoss, Restart
  <2>2. PICK n \in 0 .. Len(log) :
              /\ \A p \in 1 .. n : log'[p] = log[p]
              /\ \/ DOMAIN log' = 1 .. n /\ Len(log') = n
                 \/ /\ n < Len(log)
                    /\ DOMAIN log' = 1 .. n + 1 /\ Len(log') = n + 1
    BY <1>12, PowerLossLog
  <2>3. ASSUME NEW p \in DOMAIN log', log'[p].kind = "torn" PROVE p = Len(log') /\ 1 <= p
    <3>1. CASE p \in 1 .. n
      <4>1. p = Len(log) BY <1>1, <2>1, <2>2, <2>3, <3>1 DEF TornInv, TornLast
      <4> QED BY <1>1, <2>2, <3>1, <4>1
    <3> QED BY <1>1, <2>2, <3>1
  <2> QED BY <2>1, <2>3 DEF TornLast
<1>13. CASE ReplaySeries \/ ReplaySample
  <2>1. /\ mode = "replay" /\ mode' = "replay" /\ log' = log /\ fails' = fails
        /\ pos \in DOMAIN log /\ log[pos].kind # "torn" /\ pos' \in {pos, pos + 1}
    BY <1>1, <1>13 DEF ReplaySeries, ReplaySample, NextRecord, walVars, ReplayTypeOK
  <2> QED BY <2>1, TornAhead DEF TornInv
<1>14. CASE ReplayTorn
  <2>1. fails' = fails BY <1>14 DEF ReplayTorn
  <2>2. pos = Len(log) /\ DOMAIN log' = 1 .. pos - 1 /\ \A p \in 1 .. pos - 1 : log'[p] = log[p]
    BY <1>14, <2>1, TornCut DEF TornInv
  <2> QED BY <1>1, <2>1, <2>2 DEF TornInv, TornLast
<1>15. CASE ReplayCorrupt
  <2>1. fails' = fails BY <1>15 DEF ReplayCorrupt
  <2> QED BY <1>15, <2>1, NoCorruption DEF TornInv
<1>16. CASE ReplayDone
  <2>1. fails' = fails /\ log' = log /\ pos > Len(log) BY <1>16 DEF ReplayDone, walVars
  <2> QED BY <1>1, <2>1 DEF TornInv, TornLast, ReplayTypeOK
<1>17. CASE UNCHANGED vars
  BY <1>17 DEF vars, walVars, replayVars, TornInv, TornLast
<1> QED
  BY <1>2, <1>3, <1>4, <1>6, <1>7, <1>8, <1>9, <1>10, <1>11, <1>12, <1>13, <1>14,
     <1>15, <1>16, <1>17 DEF Next

\* How Open ends.
LEMMA OpenEnds ==
    ASSUME TypeInv, TornInv, Next, mode = "replay", mode' = "up", fails = 0
    PROVE  /\ Len(log') < pos
           /\ \A p \in DOMAIN log' : log'[p].kind # "torn"
<1>1. /\ pos \in Nat /\ Len(log) \in Nat /\ DOMAIN log = 1 .. Len(log) /\ TornLast
  BY DEF TypeInv, WalTypeOK, ReplayTypeOK, TornInv
<1>2. CASE ReplayTorn
  <2>1. /\ pos = Len(log) /\ DOMAIN log' = 1 .. pos - 1 /\ Len(log') = pos - 1
        /\ \A p \in 1 .. pos - 1 : log'[p] = log[p]
    BY <1>1, <1>2, TornCut
  <2> QED BY <1>1, <2>1 DEF TornLast
<1>3. CASE ReplayDone
  <2>1. log' = log /\ pos > Len(log) BY <1>3 DEF ReplayDone, walVars
  <2> QED BY <1>1, <2>1 DEF TornLast
<1>4. ~ReplayCorrupt BY <1>1, NoCorruption
<1>5. ~ReplaySeries /\ ~ReplaySample /\ ~Kill /\ ~PowerLoss /\ ~Close
  BY DEF ReplaySeries, ReplaySample, Kill, PowerLoss, Restart, Close
<1>6. \A a \in Appender :
        /\ \A l \in Label : ~AppendRejected(a, l)
                            /\ \A t \in Time, v \in Value : ~AppendOK(a, l, t, v)
        /\ ~Rollback(a) /\ ~Commit(a) /\ ~LogSeries(a) /\ ~LogSamples(a)
        /\ ~Sync(a) /\ ~CommitFails(a) /\ ~Apply(a)
  BY DEF AppendRejected, AppendOK, Rollback, Commit, LogSeries, LogSamples, Sync, CommitFails, Apply
<1>7. \A minT \in MinT : ~Truncate(minT) BY DEF Truncate
<1> QED BY <1>2, <1>3, <1>4, <1>5, <1>6, <1>7 DEF Next

\* As long as no system call of the log has failed, Open replays every record it keeps
\* and leaves no torn one: after a kill or a power loss at any point, the records it
\* appends next are read by the next replay too (wal.go, Replay, replaySegment).
THEOREM Recovery == Spec => RecoverySound
<1>1. Init => TypeInv /\ TornInv BY TypeInvInit, TornInvInit
<1>2. TypeInv /\ TornInv /\ [Next]_vars => (TypeInv /\ TornInv)' BY TypeInvNext, TornInvNext
<1>3. TypeInv /\ TornInv /\ [Next]_vars
        => [mode = "replay" /\ mode' = "up" /\ fails = 0 => Len(log') < pos]_vars
  BY OpenEnds
<1>4. TypeInv /\ TornInv /\ [Next]_vars
        => [mode = "replay" /\ mode' = "up" /\ fails = 0 =>
             \A p \in DOMAIN log' : log'[p].seg = seq' => log'[p].kind # "torn"]_vars
  BY OpenEnds
<1> QED BY <1>1, <1>2, <1>3, <1>4, PTL DEF Spec, RecoverySound, RecoveryIsFinal, LastSegmentClean

(***************************************************************************)
(* Between two crashes the storage engine implements module Store, for all *)
(* constants: whatever the log does, a caller of Commit sees a batch fail  *)
(* as a whole or become durable at one instant.                            *)
(***************************************************************************)
\* The places of Commit that Store knows as one.
LogPlaces == {"logSeries", "logSamples", "sync"}

(***************************************************************************)
(* How the steps of an appender look to Store.                             *)
(***************************************************************************)

\* Goto moves the appender to the image of the place it goes to.
LEMMA GotoMoves ==
    ASSUME AppTypeOK, NEW a \in Appender, NEW label \in PC \ LogPlaces, NEW i, Goto(a, label, i)
    PROVE  Callers!Moves(a, label, i)
BY DEF AppTypeOK, Goto, Callers!Moves, Logging, LogPlaces, PC

LEMMA GotoLogs ==
    ASSUME AppTypeOK, NEW a \in Appender, NEW label \in LogPlaces, NEW i, Goto(a, label, i)
    PROVE  Callers!Moves(a, "log", 1)
BY DEF AppTypeOK, Goto, Callers!Moves, Logging, LogPlaces

\* Between two places of the log it does not move.
LEMMA GotoStays ==
    ASSUME AppTypeOK, NEW a \in Appender, NEW label \in LogPlaces, NEW i, Goto(a, label, i),
           pc[a] \in LogPlaces
    PROVE  UNCHANGED Callers!batchVars
BY DEF AppTypeOK, Goto, Callers!batchVars, Logging, LogPlaces, PC

\* The appender starts again.
LEMMA FreshOver ==
    ASSUME AppTypeOK, NEW a \in Appender, Fresh(a)
    PROVE  Callers!Over(a)
BY DEF AppTypeOK, Fresh, Callers!Over, Logging, PC

\* The library's operator inside the instance is the library's operator.
LEMMA SameCardinality ==
    ASSUME NEW S PROVE Callers!Cardinality(S) = Cardinality(S)
BY DEF Cardinality, Callers!Cardinality

\* Outside the log, Store sees the appender's own place and index.
LEMMA SamePlace ==
    ASSUME NEW a \in Appender, ~Logging(a)
    PROVE  /\ [b \in Appender |-> IF Logging(b) THEN "log" ELSE pc[b]][a] = pc[a]
           /\ [b \in Appender |-> IF Logging(b) THEN 1 ELSE idx[b]][a] = idx[a]
OBVIOUS

(***************************************************************************)
(* One lemma for each action that a caller of an appender can see.         *)
(***************************************************************************)

\* Append: staging a sample is the same in both modules.
LEMMA AppendImplements ==
    ASSUME AppTypeOK, NEW a \in Appender, NEW l \in Label, NEW t \in Time, NEW v \in Value,
           AppendOK(a, l, t, v)
    PROVE  Callers!AddSample(a, l, t, v)
<1>1. pc[a] = "stage" /\ pc' = pc /\ idx' = idx BY DEF AppendOK
<1>2. ASSUME NEW r, Stage(a, r, l, t, v) PROVE Callers!Stages(a, r, l, t, v)
  BY <1>2 DEF Stage, Callers!Stages
<1>3. CASE \E r \in RefsOf(l) : Found(l, r) /\ Stage(a, r, l, t, v) /\ UNCHANGED newSeries
  BY <1>1, <1>2, <1>3
  DEF Callers!AddSample, Callers!Found, Callers!RefsOf, Callers!headVars, Found, RefsOf, headVars, Logging
<1>4. CASE /\ Created(l, lastRef + 1)
           /\ newSeries' = [newSeries EXCEPT ![a] = Append(@, [ref |-> lastRef + 1, l |-> l])]
           /\ Stage(a, lastRef + 1, l, t, v)
  <2>1. Callers!Created(l, lastRef + 1)
    BY <1>4, SameCardinality DEF Callers!Created, Callers!RefsOf, Callers!Inserted, Callers!NoSamples,
                Created, RefsOf, Inserted, NoSamples
  <2> QED BY <1>1, <1>2, <1>4, <2>1 DEF Callers!AddSample, Logging
<1> QED BY <1>3, <1>4 DEF AppendOK

\* Append returns ErrTooManySeries.
LEMMA RejectedImplements ==
    ASSUME AppTypeOK, NEW a \in Appender, NEW l \in Label, AppendRejected(a, l)
    PROVE  Callers!Rejected(a, l)
<1>1. Callers!Moves(a, "rollback", 1)
  BY GotoMoves DEF AppendRejected, PC, LogPlaces
<1>2. Callers!TooManySeries(l)
  BY SameCardinality DEF AppendRejected, TooManySeries, RefsOf, headVars,
         Callers!TooManySeries, Callers!RefsOf, Callers!headVars
<1> QED BY <1>1, <1>2 DEF AppendRejected, Callers!Rejected, Logging

LEMMA RollbackImplements ==
    ASSUME AppTypeOK, NEW a \in Appender, Rollback(a)
    PROVE  Callers!RollBack(a)
<1>1. pc[a] = "rollback" /\ ~Logging(a) BY DEF Rollback, Logging
<1>2. CASE idx[a] <= Len(newSeries[a])
  <2>1. Goto(a, "rollback", idx[a] + 1) BY <1>2 DEF Rollback
  <2>2. Callers!Moves(a, "rollback", idx[a] + 1)
    BY <2>1 DEF AppTypeOK, Goto, Callers!Moves, Logging, PC
  <2>3. Callers!ReclaimIfEmpty(newSeries[a][idx[a]].ref)
    BY <1>2 DEF Rollback, ReclaimIfEmpty, Removed, Callers!ReclaimIfEmpty, Callers!Removed
  <2> QED BY <1>1, <1>2, <2>2, <2>3, SamePlace
        DEF Callers!RollBack, Callers!Moves, Callers!ReclaimIfEmpty
<1>3. CASE ~(idx[a] <= Len(newSeries[a]))
  <2>1. Callers!Over(a) /\ UNCHANGED Callers!headVars
    BY <1>3, FreshOver DEF Rollback, headVars, Callers!headVars
  <2> QED BY <1>1, <1>3, <2>1, SamePlace DEF Callers!RollBack
<1> QED BY <1>2, <1>3

\* Commit begins.
LEMMA CommitImplements ==
    ASSUME AppTypeOK, NEW a \in Appender, Commit(a)
    PROVE  Callers!CommitCalled(a)
<1> DEFINE label == IF newSeries[a] = <<>> THEN AfterSeries(a) ELSE "logSeries"
<1>1. label \in LogPlaces BY DEF AfterSeries, LogPlaces
<1>2. Goto(a, label, 1) BY DEF Commit
<1>3. Callers!Moves(a, "log", 1)
  <2> HIDE DEF label
  <2> QED BY <1>1, <1>2, GotoLogs
<1> QED BY <1>3 DEF Commit, Callers!CommitCalled, Callers!headVars, headVars, Logging

\* The records of a batch are written: its caller sees nothing.
LEMMA WritesStutter ==
    ASSUME AppTypeOK, NEW a \in Appender, LogSeries(a) \/ LogSamples(a)
    PROVE  UNCHANGED Callers!storeVars
<1>1. UNCHANGED headVars BY DEF LogSeries, LogSamples
<1>2. PICK label \in LogPlaces : \E i : Goto(a, label, i)
  BY DEF LogSeries, LogSamples, AfterSeries, LogPlaces
<1>3. pc[a] \in LogPlaces BY DEF LogSeries, LogSamples, LogPlaces
<1>4. UNCHANGED Callers!batchVars BY <1>2, <1>3, GotoStays
<1> QED BY <1>1, <1>4 DEF Callers!storeVars, Callers!headVars, headVars

\* sync makes the batch durable.
LEMMA SyncImplements ==
    ASSUME AppTypeOK, NEW a \in Appender, Sync(a)
    PROVE  Callers!Logged(a)
<1>1. pc[a] = "sync" /\ UNCHANGED headVars BY DEF Sync
<1>2. CASE pending[a] = <<>>
  BY <1>1, <1>2, FreshOver DEF Sync, Callers!Logged, Callers!headVars, headVars, Logging
<1>3. CASE pending[a] # <<>>
  <2>1. Callers!Moves(a, "apply", 1)
    BY <1>3, GotoMoves DEF Sync, PC, LogPlaces
  <2> QED BY <1>1, <1>3, <2>1 DEF Callers!Logged, Callers!headVars, headVars, Logging
<1> QED BY <1>2, <1>3

LEMMA FailureImplements ==
    ASSUME AppTypeOK, NEW a \in Appender, CommitFails(a)
    PROVE  Callers!Fails(a)
BY FreshOver DEF CommitFails, Callers!Fails, Callers!headVars, headVars, Logging

LEMMA ApplyImplements ==
    ASSUME AppTypeOK, NEW a \in Appender, Apply(a)
    PROVE  Callers!Applies(a)
<1>1. pc[a] = "apply" /\ ~Logging(a) BY DEF Apply, Logging
<1>2. Callers!AppendSample(pending[a][idx[a]].ref, pending[a][idx[a]].t, pending[a][idx[a]].v)
  BY DEF Apply, AppendSample, WithSample, Callers!AppendSample, Callers!WithSample
<1>3. CASE idx[a] < Len(pending[a])
  <2>1. Goto(a, "apply", idx[a] + 1) BY <1>3 DEF Apply
  <2>2. Callers!Moves(a, "apply", idx[a] + 1)
    BY <2>1 DEF AppTypeOK, Goto, Callers!Moves, Logging, PC
  <2> QED BY <1>1, <1>2, <1>3, <2>2, SamePlace
        DEF Callers!Applies, Callers!Moves, Callers!AppendSample
<1>4. CASE ~(idx[a] < Len(pending[a]))
  <2>1. Callers!Over(a) BY <1>4, FreshOver DEF Apply
  <2> QED BY <1>1, <1>2, <1>4, <2>1, SamePlace DEF Callers!Applies
<1> QED BY <1>3, <1>4

LEMMA TruncateImplements ==
    ASSUME NEW minT \in MinT, Truncate(minT)
    PROVE  Callers!Cut(minT)
<1>1. Callers!TruncateHead(minT)
  BY DEF Truncate, TruncateHead, From, Callers!TruncateHead, Callers!From
<1> QED BY <1>1 DEF Truncate, appVars, Callers!Cut, Callers!batchVars, Logging

\* Steps that change neither the head nor an appender.
LEMMA Quiet ==
    ASSUME UNCHANGED <<headVars, appVars>>
    PROVE  UNCHANGED Callers!storeVars
BY DEF headVars, appVars, Callers!storeVars, Callers!headVars, Callers!batchVars, Logging

(***************************************************************************)
(* The refinement.                                                         *)
(***************************************************************************)
LEMMA InitImplements == Init => Callers!StoreInit
BY DEF Init, HeadInit, Callers!StoreInit, Callers!HeadInit, Logging

\* One step for each action.  A crash ends the process, and replay is not Store's.
LEMMA NextImplements ==
    ASSUME TypeInv, [Next]_vars, mode = "up", mode' = "up"
    PROVE  Callers!StoreNext \/ UNCHANGED Callers!storeVars
<1> USE DEF TypeInv
<1>1. ASSUME NEW a \in Appender, NEW l \in Label, NEW t \in Time, NEW v \in Value,
             AppendOK(a, l, t, v)
      PROVE  Callers!StoreNext
  BY <1>1, AppendImplements DEF Callers!StoreNext
<1>2. ASSUME NEW a \in Appender, NEW l \in Label, AppendRejected(a, l)
      PROVE  Callers!StoreNext
  BY <1>2, RejectedImplements DEF Callers!StoreNext
<1>3. ASSUME NEW a \in Appender, Rollback(a) PROVE Callers!StoreNext
  BY <1>3, RollbackImplements DEF Callers!StoreNext
<1>4. ASSUME NEW a \in Appender, Commit(a) PROVE Callers!StoreNext
  BY <1>4, CommitImplements DEF Callers!StoreNext
<1>5. ASSUME NEW a \in Appender, LogSeries(a) \/ LogSamples(a)
      PROVE  UNCHANGED Callers!storeVars
  BY <1>5, WritesStutter
<1>6. ASSUME NEW a \in Appender, Sync(a) PROVE Callers!StoreNext
  BY <1>6, SyncImplements DEF Callers!StoreNext
<1>7. ASSUME NEW a \in Appender, CommitFails(a) PROVE Callers!StoreNext
  BY <1>7, FailureImplements DEF Callers!StoreNext
<1>8. ASSUME NEW a \in Appender, Apply(a) PROVE Callers!StoreNext
  BY <1>8, ApplyImplements DEF Callers!StoreNext
<1>9. ASSUME NEW minT \in MinT, Truncate(minT) PROVE Callers!StoreNext
  BY <1>9, TruncateImplements DEF Callers!StoreNext
<1>10. CASE Close BY <1>10, Quiet DEF Close
<1>11. ~Kill /\ ~PowerLoss BY DEF Kill, PowerLoss, Restart
<1>12. ~ReplaySeries /\ ~ReplaySample /\ ~ReplayTorn /\ ~ReplayCorrupt /\ ~ReplayDone
  BY DEF ReplaySeries, ReplaySample, ReplayTorn, ReplayCorrupt, ReplayDone
<1>13. CASE UNCHANGED vars BY <1>13, Quiet DEF vars
<1> QED
  BY <1>1, <1>2, <1>3, <1>4, <1>5, <1>6, <1>7, <1>8, <1>9, <1>10, <1>11, <1>12, <1>13 DEF Next

\* The storage engine implements Store between two crashes.
THEOREM StoreRefinement == Spec => ImplementsStore
<1>1. TypeInv /\ [Next]_vars
        => [mode = "up" /\ mode' = "up" => Callers!StoreNext \/ UNCHANGED Callers!storeVars]_vars
  BY NextImplements
<1> QED BY <1>1, InitImplements, Typing, PTL DEF Spec, ImplementsStore
=============================================================================
