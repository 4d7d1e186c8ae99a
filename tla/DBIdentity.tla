----------------------------- MODULE DBIdentity -----------------------------
(***************************************************************************)
(* What the head, the log and the appenders say of a series.               *)
(*                                                                         *)
(* HeadFromLog: when no system call of the log fails, every sample of the  *)
(* head stands in the log for the label set it is found under, for every   *)
(* number of concurrent appenders, crashes and truncations.  SlotsSound:   *)
(* every slot of the cardinality cap is held by one series with samples.   *)
(* CommittedSurvives: an acknowledged batch of the only writer is there    *)
(* after every recovery.                                                   *)
(*                                                                         *)
(* The difficulty is that the log and a staged batch name a series by its  *)
(* reference only, that references are handed out again after a crash that *)
(* lost the series record, and that a batch may be logged before or        *)
(* without the record of its series.  The invariant says what a reference  *)
(* means at each place that mentions one.                                  *)
(***************************************************************************)
EXTENDS DBProofs

\* The head, record p of the log, and appender a's new series call r by l.
InHead(r, l) == r \in DOMAIN series /\ series[r].labels = l
SeriesAt(p, r, l) ==
    p \in DOMAIN log /\ log[p].kind = "series" /\ log[p].ref = r /\ log[p].l = l
NewOf(a, r, l) ==
    \E i \in DOMAIN newSeries[a] : newSeries[a][i].ref = r /\ newSeries[a][i].l = l
Name(r, l) ==
    \/ InHead(r, l)
    \/ \E p \in DOMAIN log : SeriesAt(p, r, l)
    \/ \E a \in Appender : NewOf(a, r, l)

\* Appender a, and record p of the log, hold a sample of l under reference r.
StagedBy(a, r, l) ==
    \E i \in DOMAIN pending[a] : pending[a][i].ref = r /\ pending[a][i].l = l
StagedAt(p, s) ==
    /\ p \in DOMAIN log
    /\ log[p].kind = "samples"
    /\ \E i \in DOMAIN log[p].samples : log[p].samples[i] = s

\* A reference names one label set, wherever it is mentioned ...
Unambiguous ==
    \A r \in Ref, k, l \in Label : Name(r, k) /\ Name(r, l) => k = l
\* ... and a sample staged under a reference that has a name is of that name.
StagedAgree ==
    \A a \in Appender, r \in Ref, k, l \in Label : StagedBy(a, r, k) /\ Name(r, l) => k = l
\* lastRef is past every reference in use, so a new series gets a fresh one.
FreshRefs ==
    mode = "up" =>
        \A r \in Ref, l \in Label :
            Name(r, l) \/ (\E a \in Appender : StagedBy(a, r, l)) => r <= lastRef
\* A samples record after a series record of the same reference is of its label
\* set.  (One before it may be of an older series that was never logged.)
LogOrder ==
    \A p, q \in DOMAIN log : \A r \in Ref, l \in Label, s \in Staged :
        p < q /\ SeriesAt(p, r, l) /\ StagedAt(q, s) /\ s.ref = r => s.l = l
\* Replay has created the series it met, and no other.
ReplayNames ==
    mode = "replay" =>
        /\ \A r \in Ref, l \in Label :
             InHead(r, l) => \E p \in DOMAIN log : p < pos /\ SeriesAt(p, r, l)
        /\ \A p \in DOMAIN log, r \in Ref, l \in Label :
             p < pos /\ SeriesAt(p, r, l) => r <= lastRef
NamesInv == Unambiguous /\ StagedAgree /\ FreshRefs
IdentityInv == NamesInv /\ LogOrder /\ ReplayNames /\ TornLast /\ HeadFromLog

(***************************************************************************)
(* Steps of a database that is up.                                         *)
(***************************************************************************)

\* A step that introduces no name and no staged reference.
LEMMA NamesKept ==
    ASSUME TypeInv, NamesInv, mode = "up", lastRef' = lastRef,
           \A r \in Ref, l \in Label : Name(r, l)' => Name(r, l),
           \A a \in Appender, r \in Ref, l \in Label :
               StagedBy(a, r, l)' => StagedBy(a, r, l) \/ InHead(r, l)
    PROVE  NamesInv'
<1>1. \A r \in Ref, l \in Label : InHead(r, l) => Name(r, l) BY DEF Name
<1>2. Unambiguous' BY DEF NamesInv, Unambiguous
<1>3. StagedAgree'
  <2> SUFFICES ASSUME NEW a \in Appender, NEW r \in Ref, NEW k \in Label, NEW l \in Label,
                      StagedBy(a, r, k)', Name(r, l)'
               PROVE  k = l
    BY DEF StagedAgree
  <2>1. Name(r, l) OBVIOUS
  <2>2. CASE StagedBy(a, r, k) BY <2>1, <2>2 DEF NamesInv, StagedAgree
  <2>3. CASE InHead(r, k) BY <1>1, <2>1, <2>3 DEF NamesInv, Unambiguous
  <2> QED BY <2>2, <2>3
<1>4. FreshRefs'
  <2> SUFFICES ASSUME NEW r \in Ref, NEW l \in Label,
                      Name(r, l)' \/ (\E a \in Appender : StagedBy(a, r, l)')
               PROVE  r <= lastRef
    BY DEF FreshRefs
  <2>1. Name(r, l) \/ (\E a \in Appender : StagedBy(a, r, l)) BY <1>1
  <2> QED BY <2>1 DEF NamesInv, FreshRefs
<1> QED BY <1>2, <1>3, <1>4 DEF NamesInv

\* A step that changes neither the log nor, except for dropping series and
\* samples, the head.
LEMMA HeadShrinks ==
    ASSUME TypeInv, IdentityInv, mode = "up", mode' = "up", lastRef' = lastRef,
           log' = log,
           \A r \in DOMAIN series' :
               /\ r \in DOMAIN series
               /\ series'[r].labels = series[r].labels
               /\ \A t \in DOMAIN series'[r].samples :
                     /\ t \in DOMAIN series[r].samples
                     /\ series'[r].samples[t] = series[r].samples[t],
           \A a \in Appender, r \in Ref, l \in Label : NewOf(a, r, l)' => NewOf(a, r, l),
           \A a \in Appender, r \in Ref, l \in Label :
               StagedBy(a, r, l)' => StagedBy(a, r, l) \/ InHead(r, l)
    PROVE  IdentityInv'
<1>1. \A r \in Ref, l \in Label : InHead(r, l)' => InHead(r, l) BY DEF InHead
<1>2. \A p, r, l : SeriesAt(p, r, l)' = SeriesAt(p, r, l) BY DEF SeriesAt
<1>3. \A r \in Ref, l \in Label : Name(r, l)' => Name(r, l) BY <1>1, <1>2 DEF Name
<1>4. NamesInv' BY <1>3, NamesKept DEF IdentityInv
<1>5. LogOrder' BY DEF IdentityInv, LogOrder, SeriesAt, StagedAt
<1>6. ReplayNames' BY DEF ReplayNames
<1>7. TornLast' BY DEF IdentityInv, TornLast
<1>8. HeadFromLog' BY DEF IdentityInv, HeadFromLog
<1> QED BY <1>4, <1>5, <1>6, <1>7, <1>8 DEF IdentityInv

\* Which references appender b names or has staged, after a step of appender a.
LEMMA FreshNames ==
    ASSUME AppTypeOK, NEW a \in Appender, Fresh(a)
    PROVE  \A b \in Appender, r \in Ref, l \in Label :
              /\ NewOf(b, r, l)' => NewOf(b, r, l)
              /\ StagedBy(b, r, l)' => StagedBy(b, r, l)
<1> SUFFICES ASSUME NEW b \in Appender, NEW r \in Ref, NEW l \in Label
             PROVE  /\ NewOf(b, r, l)' => NewOf(b, r, l)
                    /\ StagedBy(b, r, l)' => StagedBy(b, r, l)
  OBVIOUS
<1>1. CASE b = a
  <2>1. newSeries'[b] = <<>> /\ pending'[b] = <<>> BY <1>1, FreshOthers
  <2> QED BY <2>1 DEF NewOf, StagedBy
<1>2. CASE b # a
  <2>1. newSeries'[b] = newSeries[b] /\ pending'[b] = pending[b] BY <1>2, FreshOthers
  <2> QED BY <2>1 DEF NewOf, StagedBy
<1> QED BY <1>1, <1>2

LEMMA GotoNames ==
    ASSUME UNCHANGED <<newSeries, pending>>
    PROVE  \A b \in Appender, r \in Ref, l \in Label :
              /\ NewOf(b, r, l)' => NewOf(b, r, l)
              /\ StagedBy(b, r, l)' => StagedBy(b, r, l)
BY DEF NewOf, StagedBy

\* Staging a sample of l under reference ref.
LEMMA StageNames ==
    ASSUME AppTypeOK, NEW a \in Appender, NEW ref \in Ref, NEW l \in Label,
           NEW t \in Time, NEW v \in Value, Stage(a, ref, l, t, v)
    PROVE  \A b \in Appender, r \in Ref, k \in Label :
              StagedBy(b, r, k)' => StagedBy(b, r, k) \/ (r = ref /\ k = l)
<1> SUFFICES ASSUME NEW b \in Appender, NEW r \in Ref, NEW k \in Label, StagedBy(b, r, k)'
             PROVE  StagedBy(b, r, k) \/ (r = ref /\ k = l)
  OBVIOUS
<1>1. CASE b # a
  <2>1. pending'[b] = pending[b] BY <1>1, StageType
  <2> QED BY <2>1 DEF StagedBy
<1>2. CASE b = a
  <2> DEFINE e == [ref |-> ref, l |-> l, t |-> t, v |-> v]
  <2>1. pending[a] \in Seq(Staged) /\ e \in Staged BY DEF AppTypeOK, Staged
  <2>2. pending'[a] = Append(pending[a], e) BY DEF Stage, AppTypeOK
  <2>3. \A i \in DOMAIN pending'[a] :
           (i \in DOMAIN pending[a] /\ pending'[a][i] = pending[a][i]) \/ pending'[a][i] = e
    BY <2>1, <2>2
  <2> QED BY <1>2, <2>3 DEF StagedBy
<1> QED BY <1>1, <1>2

LEMMA IdentityAppendOK ==
    ASSUME TypeInv, IdentityInv, NEW a \in Appender, NEW l \in Label, NEW t \in Time,
           NEW v \in Value, AppendOK(a, l, t, v)
    PROVE  IdentityInv'
<1>1. /\ mode = "up" /\ mode' = "up" /\ log' = log
      /\ AppTypeOK /\ HeadTypeOK
  BY DEF AppendOK, walVars, replayVars, TypeInv
<1>2. CASE \E ref \in RefsOf(l) : Found(l, ref) /\ Stage(a, ref, l, t, v) /\ UNCHANGED newSeries
  <2>1. PICK ref \in RefsOf(l) : Found(l, ref) /\ Stage(a, ref, l, t, v) /\ UNCHANGED newSeries
    BY <1>2
  <2>2. ref \in Ref /\ InHead(ref, l) BY <1>1 DEF RefsOf, HeadTypeOK, InHead
  <2>3. series' = series /\ lastRef' = lastRef BY <2>1 DEF Found, headVars
  <2>4. \A b \in Appender, r \in Ref, k \in Label : NewOf(b, r, k)' => NewOf(b, r, k)
    BY <2>1 DEF NewOf
  <2>5. \A b \in Appender, r \in Ref, k \in Label :
           StagedBy(b, r, k)' => StagedBy(b, r, k) \/ InHead(r, k)
    BY <1>1, <2>1, <2>2, StageNames
  <2> QED BY <1>1, <2>3, <2>4, <2>5, HeadShrinks
<1>3. CASE /\ Created(l, lastRef + 1)
           /\ newSeries' = [newSeries EXCEPT ![a] = Append(@, [ref |-> lastRef + 1, l |-> l])]
           /\ Stage(a, lastRef + 1, l, t, v)
  <2> DEFINE ref == lastRef + 1
  <2>1. ref \in Ref /\ lastRef \in Nat BY <1>1 DEF HeadTypeOK, Ref
  <2>2. lastRef' = ref /\ series' = Inserted(ref, l) BY <1>3 DEF Created
  <2>3. \A r \in Ref, k \in Label : NewOf(a, r, k)' => NewOf(a, r, k) \/ (r = ref /\ k = l)
    <3> DEFINE e == [ref |-> ref, l |-> l]
    <3>1. newSeries[a] \in Seq(NewSeries) /\ e \in NewSeries BY <1>1, <2>1 DEF AppTypeOK, NewSeries
    <3>2. newSeries'[a] = Append(newSeries[a], e) BY <1>1, <1>3 DEF AppTypeOK
    <3>3. \A i \in DOMAIN newSeries'[a] :
             \/ i \in DOMAIN newSeries[a] /\ newSeries'[a][i] = newSeries[a][i]
             \/ newSeries'[a][i] = e
      BY <3>1, <3>2
    <3> QED BY <3>3 DEF NewOf
  <2>4. \A b \in Appender, r \in Ref, k \in Label :
           b # a /\ NewOf(b, r, k)' => NewOf(b, r, k)
    <3>1. \A b \in Appender : b # a => newSeries'[b] = newSeries[b]
      BY <1>1, <1>3 DEF AppTypeOK
    <3> QED BY <3>1 DEF NewOf
  <2>5. \A r \in Ref, k \in Label : InHead(r, k)' => InHead(r, k) \/ (r = ref /\ k = l)
    BY <2>2 DEF InHead, Inserted
  <2>6. \A p, r, k : SeriesAt(p, r, k)' = SeriesAt(p, r, k) BY <1>1 DEF SeriesAt
  <2>7. \A r \in Ref, k \in Label : Name(r, k)' => Name(r, k) \/ (r = ref /\ k = l)
    BY <1>1, <2>3, <2>4, <2>5, <2>6 DEF Name
  <2>8. \A b \in Appender, r \in Ref, k \in Label :
           StagedBy(b, r, k)' => StagedBy(b, r, k) \/ (r = ref /\ k = l)
    BY <1>1, <1>3, <2>1, StageNames
  <2>9. \A r \in Ref, k \in Label :
           Name(r, k) \/ (\E b \in Appender : StagedBy(b, r, k)) => r # ref
    <3>1. \A r \in Ref, k \in Label :
             Name(r, k) \/ (\E b \in Appender : StagedBy(b, r, k)) => r <= lastRef
      BY <1>1 DEF IdentityInv, NamesInv, FreshRefs
    <3> QED BY <2>1, <3>1 DEF Ref
  <2> HIDE DEF ref
  <2>10. Unambiguous' BY <2>7, <2>9 DEF IdentityInv, NamesInv, Unambiguous
  <2>11. StagedAgree' BY <2>7, <2>8, <2>9 DEF IdentityInv, NamesInv, StagedAgree
  <2>12. FreshRefs'
    <3> SUFFICES ASSUME NEW r \in Ref, NEW k \in Label,
                        Name(r, k)' \/ (\E b \in Appender : StagedBy(b, r, k)')
                 PROVE  r <= lastRef'
      BY DEF FreshRefs
    <3>1. CASE r = ref BY <2>1, <2>2, <3>1 DEF Ref
    <3>2. CASE r # ref
      <4>1. Name(r, k) \/ (\E b \in Appender : StagedBy(b, r, k)) BY <2>7, <2>8, <3>2
      <4>2. r <= lastRef BY <1>1, <4>1 DEF IdentityInv, NamesInv, FreshRefs
      <4> QED BY <2>1, <2>2, <4>2 DEF ref, Ref
    <3> QED BY <3>1, <3>2
  <2>13. LogOrder' BY <1>1 DEF IdentityInv, LogOrder, SeriesAt, StagedAt
  <2>14. ReplayNames' BY <1>1 DEF ReplayNames
  <2>15. TornLast' BY <1>1 DEF IdentityInv, TornLast
  <2>16. HeadFromLog'
    <3> SUFFICES ASSUME NEW r \in DOMAIN series', NEW u \in DOMAIN series'[r].samples
                 PROVE  \E p \in DOMAIN log :
                          /\ log[p].kind = "samples"
                          /\ \E i \in DOMAIN log[p].samples :
                                log[p].samples[i] = [ref |-> r, l |-> series'[r].labels,
                                                     t |-> u, v |-> series'[r].samples[u]]
      BY <1>1 DEF HeadFromLog
    <3>1. r # ref BY <2>2 DEF Inserted, NoSamples
    <3>2. r \in DOMAIN series /\ series'[r] = series[r] BY <2>2, <3>1 DEF Inserted
    <3> QED BY <3>2 DEF IdentityInv, HeadFromLog
  <2> QED BY <2>10, <2>11, <2>12, <2>13, <2>14, <2>15, <2>16 DEF IdentityInv, NamesInv
<1> QED BY <1>2, <1>3 DEF AppendOK

\* The steps that change no record and create no series: AppendRejected,
\* Rollback, Commit, Sync, a failing Commit, Truncate and Close.
LEMMA IdentityQuiet ==
    ASSUME TypeInv, IdentityInv, mode = "up", mode' = "up", lastRef' = lastRef,
           log' = log,
           \A r \in DOMAIN series' :
               /\ r \in DOMAIN series
               /\ series'[r].labels = series[r].labels
               /\ \A t \in DOMAIN series'[r].samples :
                     /\ t \in DOMAIN series[r].samples
                     /\ series'[r].samples[t] = series[r].samples[t],
           (\E a \in Appender : Fresh(a)) \/ UNCHANGED <<newSeries, pending>>
    PROVE  IdentityInv'
<1>1. AppTypeOK BY DEF TypeInv
<1>2. \A b \in Appender, r \in Ref, l \in Label :
         /\ NewOf(b, r, l)' => NewOf(b, r, l)
         /\ StagedBy(b, r, l)' => StagedBy(b, r, l)
  BY <1>1, FreshNames, GotoNames
<1> QED BY <1>2, HeadShrinks

\* The head's shrinking operations, in the form IdentityQuiet wants.
LEMMA ReclaimShrinks ==
    ASSUME HeadTypeOK, NEW ref, ReclaimIfEmpty(ref)
    PROVE  \A r \in DOMAIN series' : r \in DOMAIN series /\ series'[r] = series[r]
BY DEF ReclaimIfEmpty, Removed, HeadTypeOK

LEMMA TruncateShrinks ==
    ASSUME HeadTypeOK, NEW minT, TruncateHead(minT)
    PROVE  \A r \in DOMAIN series' :
               /\ r \in DOMAIN series
               /\ series'[r].labels = series[r].labels
               /\ \A t \in DOMAIN series'[r].samples :
                     /\ t \in DOMAIN series[r].samples
                     /\ series'[r].samples[t] = series[r].samples[t]
BY DEF TruncateHead, From

\* A samples record of a batch enters the log: the batch's references agree with
\* every series record before it.
LEMMA IdentityLogSamples ==
    ASSUME TypeInv, IdentityInv, NEW a \in Appender, LogSamples(a)
    PROVE  IdentityInv'
<1> DEFINE rec == [kind |-> "samples", seg |-> NextSeg, samples |-> pending[a]]
<1>1. /\ mode = "up" /\ mode' = "up" /\ series' = series /\ lastRef' = lastRef
      /\ newSeries' = newSeries /\ pending' = pending /\ Put(rec)
      /\ AppTypeOK /\ WalTypeOK
  BY DEF LogSamples, Write, Goto, headVars, replayVars, TypeInv
<1>2. rec \in Record BY <1>1 DEF Record, SamplesRec, NextSeg, Segment, WalTypeOK, AppTypeOK
<1>3. rec.kind = "samples" /\ rec.samples = pending[a] OBVIOUS
<1> HIDE DEF rec
<1>4. /\ Len(log') = Len(log) + 1
      /\ \A p \in DOMAIN log : log'[p] = log[p]
      /\ log'[Len(log) + 1] = rec
  BY <1>1, <1>2, PutLog
<1>5. /\ DOMAIN log = 1 .. Len(log) /\ Len(log) \in Nat
      /\ DOMAIN log' = 1 .. Len(log) + 1
  BY <1>1, <1>2, <1>4, PutType DEF WalTypeOK
<1>6. \A p, r, l : SeriesAt(p, r, l)' = SeriesAt(p, r, l)
  BY <1>3, <1>4, <1>5 DEF SeriesAt
<1>7. \A r, l : Name(r, l)' => Name(r, l)
  BY <1>1, <1>5, <1>6 DEF Name, InHead, NewOf, SeriesAt
<1>8. NamesInv'
  <2>1. \A b \in Appender, r \in Ref, l \in Label : StagedBy(b, r, l)' => StagedBy(b, r, l)
    BY <1>1 DEF StagedBy
  <2> QED BY <1>1, <1>7, <2>1, NamesKept DEF IdentityInv
<1>9. LogOrder'
  <2> SUFFICES ASSUME NEW p \in DOMAIN log', NEW q \in DOMAIN log',
                      NEW r \in Ref, NEW l \in Label, NEW s \in Staged,
                      p < q, SeriesAt(p, r, l)', StagedAt(q, s)', s.ref = r
               PROVE  s.l = l
    BY DEF LogOrder
  <2>1. SeriesAt(p, r, l) BY <1>6
  <2>2. CASE q \in DOMAIN log
    <3>1. StagedAt(q, s) BY <1>4, <2>2 DEF StagedAt
    <3>2. p \in DOMAIN log BY <2>1 DEF SeriesAt
    <3> QED BY <2>1, <2>2, <3>1, <3>2 DEF IdentityInv, LogOrder
  <2>3. CASE q \notin DOMAIN log
    <3>1. q = Len(log) + 1 BY <1>5, <2>3
    <3>2. PICK i \in DOMAIN pending[a] : pending[a][i] = s
      BY <1>3, <1>4, <3>1 DEF StagedAt
    <3>3. s.ref \in Ref /\ s.l \in Label BY DEF Staged
    <3>4. StagedBy(a, s.ref, s.l) BY <3>2 DEF StagedBy
    <3>5. Name(r, l) BY <2>1 DEF Name, SeriesAt
    <3> QED BY <3>3, <3>4, <3>5 DEF IdentityInv, NamesInv, StagedAgree
  <2> QED BY <2>2, <2>3
<1>10. ReplayNames' BY <1>1 DEF ReplayNames
<1>11. TornLast' BY <1>1, <1>3, <1>4, <1>5 DEF IdentityInv, TornLast
<1>12. HeadFromLog' BY <1>1, <1>4, <1>5 DEF IdentityInv, HeadFromLog
<1> QED BY <1>8, <1>9, <1>10, <1>11, <1>12 DEF IdentityInv

\* A series record enters the log: it says what the appender knew already.
LEMMA IdentityLogSeries ==
    ASSUME TypeInv, IdentityInv, NEW a \in Appender, LogSeries(a)
    PROVE  IdentityInv'
<1> DEFINE s == newSeries[a][idx[a]]
<1> DEFINE rec == [kind |-> "series", seg |-> NextSeg, ref |-> s.ref, l |-> s.l]
<1>1. /\ mode = "up" /\ mode' = "up" /\ series' = series /\ lastRef' = lastRef
      /\ newSeries' = newSeries /\ pending' = pending /\ Put(rec)
      /\ AppTypeOK /\ WalTypeOK
  BY DEF LogSeries, Write, Goto, headVars, replayVars, TypeInv
<1>2. idx[a] \in DOMAIN newSeries[a] BY DEF TypeInv, LogSeries, AppTypeOK
<1>3. s \in NewSeries BY <1>1, <1>2 DEF AppTypeOK
<1>4. rec \in Record
  BY <1>1, <1>3 DEF Record, SeriesRec, NewSeries, NextSeg, Segment, WalTypeOK
<1>5. NewOf(a, rec.ref, rec.l) /\ rec.kind = "series" BY <1>2 DEF NewOf
<1> HIDE DEF rec
<1>6. /\ Len(log') = Len(log) + 1
      /\ \A p \in DOMAIN log : log'[p] = log[p]
      /\ log'[Len(log) + 1] = rec
  BY <1>1, <1>4, PutLog
<1>7. /\ DOMAIN log = 1 .. Len(log) /\ Len(log) \in Nat
      /\ DOMAIN log' = 1 .. Len(log) + 1
  BY <1>1, <1>4, <1>5, <1>6, PutType DEF WalTypeOK
<1>8. \A p, r, l : SeriesAt(p, r, l)' =>
                      SeriesAt(p, r, l) \/ (p = Len(log) + 1 /\ NewOf(a, r, l))
  BY <1>5, <1>6, <1>7 DEF SeriesAt
<1>9. \A p \in DOMAIN log : \A r, l : SeriesAt(p, r, l)' => SeriesAt(p, r, l)
  BY <1>7, <1>8
<1>10. \A q, e : StagedAt(q, e)' => q \in DOMAIN log /\ StagedAt(q, e)
  BY <1>5, <1>6, <1>7 DEF StagedAt
<1>11. NamesInv'
  <2>1. \A r, l : Name(r, l)' => Name(r, l)
    BY <1>1, <1>8 DEF Name, InHead, NewOf, SeriesAt
  <2>2. \A b \in Appender, r \in Ref, l \in Label : StagedBy(b, r, l)' => StagedBy(b, r, l)
    BY <1>1 DEF StagedBy
  <2> QED BY <1>1, <2>1, <2>2, NamesKept DEF IdentityInv
<1>12. LogOrder'
  <2> SUFFICES ASSUME NEW p \in DOMAIN log', NEW q \in DOMAIN log',
                      NEW r \in Ref, NEW l \in Label, NEW e \in Staged,
                      p < q, SeriesAt(p, r, l)', StagedAt(q, e)', e.ref = r
               PROVE  e.l = l
    BY DEF LogOrder
  <2>1. q \in DOMAIN log /\ StagedAt(q, e) BY <1>10
  <2>2. p \in DOMAIN log BY <1>7, <2>1
  <2>3. SeriesAt(p, r, l) BY <1>9, <2>2
  <2> QED BY <2>1, <2>2, <2>3 DEF IdentityInv, LogOrder
<1>13. ReplayNames' BY <1>1 DEF ReplayNames
<1>14. TornLast' BY <1>1, <1>5, <1>6, <1>7 DEF IdentityInv, TornLast
<1>15. HeadFromLog' BY <1>1, <1>6, <1>7 DEF IdentityInv, HeadFromLog
<1> QED BY <1>11, <1>12, <1>13, <1>14, <1>15 DEF IdentityInv

\* A logged sample joins its series in the head.
LEMMA IdentityAppendSample ==
    ASSUME TypeInv, HeadFromLog, NEW s \in Staged,
           \E p \in DOMAIN log : StagedAt(p, s),
           \A l \in Label : InHead(s.ref, l) => s.l = l,
           AppendSample(s.ref, s.t, s.v), log' = log
    PROVE  /\ HeadFromLog'
           /\ lastRef' = lastRef
           /\ \A r, l : InHead(r, l)' = InHead(r, l)
<1>1. HeadTypeOK BY DEF TypeInv
<1>2. lastRef' = lastRef BY DEF AppendSample
<1>3. CASE s.ref \notin DOMAIN series
  <2>1. series' = series BY <1>3 DEF AppendSample
  <2> QED BY <1>2, <2>1 DEF HeadFromLog, InHead
<1>4. CASE s.ref \in DOMAIN series
  <2>1. series' = [series EXCEPT ![s.ref] =
                     [labels  |-> series[s.ref].labels,
                      samples |-> WithSample(series[s.ref].samples, s.t, s.v)]]
    BY <1>4 DEF AppendSample
  <2>2. DOMAIN series' = DOMAIN series /\ \A r \in DOMAIN series : series'[r].labels = series[r].labels
    BY <1>1, <2>1 DEF HeadTypeOK
  <2>3. \A r, l : InHead(r, l)' = InHead(r, l) BY <2>2 DEF InHead
  <2>4. series[s.ref].labels \in Label BY <1>1, <1>4 DEF HeadTypeOK
  <2>5. s.l = series[s.ref].labels BY <1>4, <2>4 DEF InHead
  <2>6. s = [ref |-> s.ref, l |-> s.l, t |-> s.t, v |-> s.v] BY DEF Staged
  <2>7. HeadFromLog'
    <3> SUFFICES ASSUME NEW r \in DOMAIN series, NEW t \in DOMAIN series'[r].samples
                 PROVE  \E p \in DOMAIN log :
                          /\ log[p].kind = "samples"
                          /\ \E i \in DOMAIN log[p].samples :
                                log[p].samples[i] = [ref |-> r, l |-> series[r].labels,
                                                     t |-> t, v |-> series'[r].samples[t]]
      BY <2>2 DEF HeadFromLog
    <3>1. CASE t \in DOMAIN series[r].samples /\ series'[r].samples[t] = series[r].samples[t]
      BY <3>1 DEF HeadFromLog
    <3>2. CASE ~(t \in DOMAIN series[r].samples /\ series'[r].samples[t] = series[r].samples[t])
      <4>1. r = s.ref BY <1>1, <2>1, <3>2 DEF HeadTypeOK
      <4>2. series'[r].samples = WithSample(series[r].samples, s.t, s.v)
        BY <1>4, <2>1, <4>1
      <4>3. t = s.t /\ series'[r].samples[t] = s.v BY <3>2, <4>2 DEF WithSample
      <4> QED BY <2>5, <2>6, <4>1, <4>3 DEF StagedAt
    <3> QED BY <3>1, <3>2
  <2> QED BY <1>2, <2>3, <2>7
<1> QED BY <1>3, <1>4

LEMMA IdentityApply ==
    ASSUME TypeInv, DurableInv, IdentityInv, NEW a \in Appender, Apply(a)
    PROVE  IdentityInv'
<1> DEFINE s == pending[a][idx[a]]
<1>1. /\ mode = "up" /\ mode' = "up" /\ log' = log
      /\ AppTypeOK /\ WalTypeOK /\ idx[a] \in DOMAIN pending[a]
  BY DEF Apply, walVars, replayVars, TypeInv, AppTypeOK
<1>2. s \in Staged BY <1>1 DEF AppTypeOK
<1>3. \E p \in DOMAIN log : StagedAt(p, s)
  <2>1. PICK p \in 1 .. synced : log[p].kind = "samples" /\ log[p].samples = pending[a]
    BY DEF Apply, DurableInv, LoggedUpTo
  <2>2. p \in DOMAIN log BY <1>1 DEF WalTypeOK
  <2> QED BY <1>1, <2>1, <2>2 DEF StagedAt
<1>4. \A l \in Label : InHead(s.ref, l) => s.l = l
  <2>1. StagedBy(a, s.ref, s.l) BY <1>1 DEF StagedBy
  <2>2. s.ref \in Ref /\ s.l \in Label BY <1>2 DEF Staged
  <2> QED BY <2>1, <2>2 DEF Name, IdentityInv, NamesInv, StagedAgree
<1>5. AppendSample(s.ref, s.t, s.v) BY DEF Apply
<1>6. /\ HeadFromLog'
      /\ lastRef' = lastRef
      /\ \A r, l : InHead(r, l)' = InHead(r, l)
  BY <1>1, <1>2, <1>3, <1>4, <1>5, IdentityAppendSample DEF IdentityInv
<1>7. \A b \in Appender, r \in Ref, l \in Label :
         /\ NewOf(b, r, l)' => NewOf(b, r, l)
         /\ StagedBy(b, r, l)' => StagedBy(b, r, l)
  <2>1. Fresh(a) \/ UNCHANGED <<newSeries, pending>> BY DEF Apply, Goto
  <2> QED BY <1>1, <2>1, FreshNames, GotoNames
<1>8. \A p, r, l : SeriesAt(p, r, l)' = SeriesAt(p, r, l) BY <1>1 DEF SeriesAt
<1>9. \A r \in Ref, l \in Label : Name(r, l)' => Name(r, l)
  BY <1>1, <1>6, <1>7, <1>8 DEF Name
<1>10. NamesInv' BY <1>1, <1>6, <1>7, <1>9, NamesKept DEF IdentityInv
<1>11. LogOrder' BY <1>1 DEF IdentityInv, LogOrder, SeriesAt, StagedAt
<1>12. ReplayNames' BY <1>1 DEF ReplayNames
<1>13. TornLast' BY <1>1 DEF IdentityInv, TornLast
<1> QED BY <1>6, <1>10, <1>11, <1>12, <1>13 DEF IdentityInv

(***************************************************************************)
(* Crashes and replay.                                                     *)
(***************************************************************************)

\* After a restart only the log, whole or cut, says what a reference means.
LEMMA IdentityRestart ==
    ASSUME TypeInv, TypeInv', IdentityInv, Restart,
           \A p, r, l : SeriesAt(p, r, l)' => SeriesAt(p, r, l),
           \A p, s : StagedAt(p, s)' => StagedAt(p, s),
           TornLast'
    PROVE  IdentityInv'
<1>1. /\ DOMAIN series' = {} /\ mode' = "replay" /\ pos' = 1
      /\ \A a \in Appender : newSeries'[a] = <<>> /\ pending'[a] = <<>>
  BY DEF Restart
<1>2. \A r, l : ~InHead(r, l)' BY <1>1 DEF InHead
<1>3. \A a \in Appender : \A r, l : ~NewOf(a, r, l)' /\ ~StagedBy(a, r, l)'
  BY <1>1 DEF NewOf, StagedBy
<1>4. \A r \in Ref, l \in Label : Name(r, l)' => Name(r, l)
  BY <1>2, <1>3 DEF Name, SeriesAt
<1>5. Unambiguous' BY <1>4 DEF IdentityInv, NamesInv, Unambiguous
<1>6. StagedAgree' BY <1>3 DEF StagedAgree
<1>7. FreshRefs' BY <1>1 DEF FreshRefs
<1>8. LogOrder'
  <2> SUFFICES ASSUME NEW p \in DOMAIN log', NEW q \in DOMAIN log',
                      NEW r \in Ref, NEW l \in Label, NEW s \in Staged,
                      p < q, SeriesAt(p, r, l)', StagedAt(q, s)', s.ref = r
               PROVE  s.l = l
    BY DEF LogOrder
  <2>1. SeriesAt(p, r, l) /\ StagedAt(q, s) OBVIOUS
  <2>2. p \in DOMAIN log /\ q \in DOMAIN log BY <2>1 DEF SeriesAt, StagedAt
  <2> QED BY <2>1, <2>2 DEF IdentityInv, LogOrder
<1>9. ReplayNames'
  <2>1. DOMAIN log' \subseteq Nat \ {0} BY DEF TypeInv, WalTypeOK
  <2> QED BY <1>1, <1>2, <2>1 DEF ReplayNames
<1>10. HeadFromLog' BY <1>1 DEF HeadFromLog
<1> QED BY <1>5, <1>6, <1>7, <1>8, <1>9, <1>10 DEF IdentityInv, NamesInv

LEMMA IdentityKill ==
    ASSUME TypeInv, TypeInv', IdentityInv, Kill
    PROVE  IdentityInv'
<1>1. Restart /\ log' = log BY DEF Kill
<1>2. TornLast' BY <1>1 DEF IdentityInv, TornLast, Restart
<1> QED BY <1>1, <1>2, IdentityRestart DEF SeriesAt, StagedAt

LEMMA IdentityPowerLoss ==
    ASSUME TypeInv, TypeInv', IdentityInv, PowerLoss
    PROVE  IdentityInv'
<1>1. Restart /\ mode' = "replay" /\ pos' = 1 BY DEF PowerLoss, Restart
<1>2. PICK n \in synced .. Len(log) :
        \/ log' = SubSeq(log, 1, n)
        \/ n < Len(log) /\ log' = Append(SubSeq(log, 1, n), [kind |-> "torn", seg |-> log[n + 1].seg])
  BY DEF PowerLoss
<1> DEFINE cutlog == SubSeq(log, 1, n)
<1>3. n \in Nat /\ n <= Len(log) /\ log \in Seq(Record) /\ Len(log) \in Nat
  BY <1>2 DEF TypeInv, WalTypeOK
<1>4. cutlog \in Seq(Record) /\ Len(cutlog) = n /\ \A p \in 1 .. n : cutlog[p] = log[p]
  BY <1>3
<1>5. CASE log' = cutlog
  <2>1. DOMAIN log' = 1 .. n /\ \A p \in 1 .. n : log'[p] = log[p] /\ p \in DOMAIN log
    BY <1>3, <1>4, <1>5
  <2>2. TornLast'
    <3> SUFFICES ASSUME NEW p \in DOMAIN log', log'[p].kind = "torn"
                 PROVE  p = Len(log')
      BY <1>1, <1>3, <2>1 DEF TornLast
    <3>1. p = Len(log) BY <2>1 DEF IdentityInv, TornLast
    <3> QED BY <1>3, <1>4, <1>5, <2>1, <3>1
  <2> QED BY <1>1, <2>1, <2>2, IdentityRestart DEF SeriesAt, StagedAt
<1>6. CASE n < Len(log) /\ log' = Append(cutlog, [kind |-> "torn", seg |-> log[n + 1].seg])
  <2> DEFINE torn == [kind |-> "torn", seg |-> log[n + 1].seg]
  <2>1. log[n + 1] \in Record BY <1>3, <1>6
  <2>2. torn \in Record /\ torn.kind = "torn" BY <2>1, RecordKinds DEF Record, TornRec
  <2> HIDE DEF torn
  <2>3. log' = Append(cutlog, torn) BY <1>6 DEF torn
  <2>4. /\ DOMAIN log' = 1 .. n + 1
        /\ Len(log') = n + 1
        /\ \A p \in 1 .. n : log'[p] = log[p] /\ p \in DOMAIN log
        /\ log'[n + 1] = torn
    BY <1>3, <1>4, <2>2, <2>3
  <2>5. TornLast'
    <3> SUFFICES ASSUME NEW p \in DOMAIN log', log'[p].kind = "torn"
                 PROVE  p = Len(log')
      BY <1>1, <1>3, <2>4 DEF TornLast
    <3>1. CASE p \in 1 .. n
      <4>1. p = Len(log) BY <2>4, <3>1 DEF IdentityInv, TornLast
      <4> QED BY <1>3, <1>6, <3>1, <4>1
    <3> QED BY <1>3, <2>4, <3>1
  <2>6. \A p \in DOMAIN log' : p \in 1 .. n \/ p = n + 1 BY <1>3, <2>4
  <2>7. \A p, r, l : SeriesAt(p, r, l)' => SeriesAt(p, r, l)
    BY <2>2, <2>4, <2>6 DEF SeriesAt
  <2>8. \A p, s : StagedAt(p, s)' => StagedAt(p, s)
    BY <2>2, <2>4, <2>6 DEF StagedAt
  <2> QED BY <1>1, <2>5, <2>7, <2>8, IdentityRestart
<1> QED BY <1>2, <1>5, <1>6

LEMMA IdentityReplaySeries ==
    ASSUME TypeInv, DurableInv, IdentityInv, ReplaySeries
    PROVE  IdentityInv'
<1>1. /\ mode = "replay" /\ mode' = "replay" /\ log' = log /\ pos' = pos + 1
      /\ newSeries' = newSeries /\ pending' = pending
      /\ Idle /\ HeadTypeOK /\ WalTypeOK /\ pos \in DOMAIN log /\ pos \in Nat
  BY DEF ReplaySeries, NextRecord, appVars, walVars, TypeInv, WalTypeOK, ReplayTypeOK, DurableInv
<1> DEFINE ref == log[pos].ref
<1> DEFINE lab == log[pos].l
<1>2. log[pos] \in SeriesRec BY <1>1, RecordKinds DEF ReplaySeries, WalTypeOK
<1>3. ref \in Ref /\ lab \in Label BY <1>2 DEF SeriesRec
<1>4. SeriesAt(pos, ref, lab) BY <1>1 DEF ReplaySeries, SeriesAt
<1>5. AddSeriesWithRef(ref, lab) BY DEF ReplaySeries
<1>6. \A r, l : SeriesAt(pos, r, l) => r = ref BY DEF SeriesAt
<1> HIDE DEF ref, lab
<1>7. CASE ref \in DOMAIN series
  <2>1. series' = series /\ lastRef' = lastRef BY <1>5, <1>7 DEF AddSeriesWithRef, headVars
  <2>2. InHead(ref, series[ref].labels) /\ series[ref].labels \in Label
    BY <1>1, <1>7 DEF InHead, HeadTypeOK
  <2>3. \A p, r, l : SeriesAt(p, r, l)' = SeriesAt(p, r, l) BY <1>1 DEF SeriesAt
  <2>4. \A r, l : Name(r, l)' = Name(r, l) BY <1>1, <2>1, <2>3 DEF Name, InHead, NewOf
  <2>5. NamesInv'
    BY <1>1, <2>4 DEF IdentityInv, NamesInv, Unambiguous, StagedAgree, StagedBy, FreshRefs
  <2>6. LogOrder' BY <1>1 DEF IdentityInv, LogOrder, SeriesAt, StagedAt
  <2>7. PICK p \in DOMAIN log : p < pos /\ SeriesAt(p, ref, series[ref].labels)
    BY <1>1, <1>3, <2>2 DEF IdentityInv, ReplayNames
  <2>8. ref <= lastRef BY <1>1, <1>3, <2>2, <2>7 DEF IdentityInv, ReplayNames
  <2>9. DOMAIN log \subseteq Nat BY <1>1 DEF WalTypeOK
  <2>10. \A q \in DOMAIN log : q < pos' => q < pos \/ q = pos BY <1>1, <2>9
  <2>11. \A q \in DOMAIN log : q < pos => q < pos' BY <1>1, <2>9
  <2>12. \A q \in DOMAIN log, r \in Ref, l \in Label :
            q < pos' /\ SeriesAt(q, r, l) => r <= lastRef
    BY <1>1, <1>6, <2>8, <2>10 DEF IdentityInv, ReplayNames
  <2>13. \A r \in Ref, l \in Label :
            InHead(r, l) => \E q \in DOMAIN log : q < pos' /\ SeriesAt(q, r, l)
    BY <1>1, <2>11 DEF IdentityInv, ReplayNames
  <2>14. ReplayNames'
    BY <1>1, <2>1, <2>12, <2>13 DEF ReplayNames, InHead, SeriesAt
  <2>15. TornLast' BY <1>1, TornAhead DEF ReplaySeries, IdentityInv
  <2>16. HeadFromLog' BY <1>1, <2>1 DEF IdentityInv, HeadFromLog
  <2> QED BY <2>5, <2>6, <2>14, <2>15, <2>16 DEF IdentityInv
<1>8. CASE ref \notin DOMAIN series
  <2>1. /\ series' = Inserted(ref, lab)
        /\ lastRef' = IF ref > lastRef THEN ref ELSE lastRef
    BY <1>5, <1>8 DEF AddSeriesWithRef
  <2>2. lastRef \in Nat BY <1>1 DEF HeadTypeOK
  <2>3. ref <= lastRef' /\ lastRef <= lastRef' /\ lastRef' \in Nat
    BY <1>3, <2>1, <2>2 DEF Ref
  <2>4. \A r, l : InHead(r, l)' => InHead(r, l) \/ (r = ref /\ l = lab)
    BY <2>1 DEF InHead, Inserted
  <2>5. \A p, r, l : SeriesAt(p, r, l)' = SeriesAt(p, r, l) BY <1>1 DEF SeriesAt
  <2>6. \A r, l : Name(r, l)' => Name(r, l)
    BY <1>1, <1>4, <2>4, <2>5 DEF Name, NewOf
  <2>7. NamesInv'
    BY <1>1, <2>6 DEF IdentityInv, NamesInv, Unambiguous, StagedAgree, StagedBy, FreshRefs
  <2>8. LogOrder' BY <1>1 DEF IdentityInv, LogOrder, SeriesAt, StagedAt
  <2>9. DOMAIN log \subseteq Nat BY <1>1 DEF WalTypeOK
  <2>10. \A q \in DOMAIN log : q < pos' => q < pos \/ q = pos BY <1>1, <2>9
  <2>11. \A q \in DOMAIN log : (q < pos => q < pos') /\ pos < pos' BY <1>1, <2>9
  <2>12. \A q \in DOMAIN log, r \in Ref, l \in Label :
            q < pos' /\ SeriesAt(q, r, l) => r <= lastRef'
    <3> SUFFICES ASSUME NEW q \in DOMAIN log, NEW r \in Ref, NEW l \in Label,
                        q < pos', SeriesAt(q, r, l)
                 PROVE  r <= lastRef'
      OBVIOUS
    <3>1. CASE q = pos BY <1>6, <2>3, <3>1
    <3>2. CASE q < pos
      <4>1. r <= lastRef BY <1>1, <3>2 DEF IdentityInv, ReplayNames
      <4> QED BY <2>2, <2>3, <4>1 DEF Ref
    <3> QED BY <2>10, <3>1, <3>2
  <2>13. \A r \in Ref, l \in Label :
            InHead(r, l)' => \E q \in DOMAIN log : q < pos' /\ SeriesAt(q, r, l)
    BY <1>1, <1>4, <2>4, <2>11 DEF IdentityInv, ReplayNames
  <2>14. ReplayNames'
    BY <1>1, <2>5, <2>12, <2>13 DEF ReplayNames
  <2>15. TornLast' BY <1>1, TornAhead DEF ReplaySeries, IdentityInv
  <2>16. HeadFromLog'
    <3> SUFFICES ASSUME NEW r \in DOMAIN series', NEW t \in DOMAIN series'[r].samples
                 PROVE  \E p \in DOMAIN log :
                          /\ log[p].kind = "samples"
                          /\ \E i \in DOMAIN log[p].samples :
                                log[p].samples[i] = [ref |-> r, l |-> series'[r].labels,
                                                     t |-> t, v |-> series'[r].samples[t]]
      BY <1>1 DEF HeadFromLog
    <3>1. r # ref BY <2>1 DEF Inserted, NoSamples
    <3>2. r \in DOMAIN series /\ series'[r] = series[r] BY <2>1, <3>1 DEF Inserted
    <3> QED BY <3>2 DEF IdentityInv, HeadFromLog
  <2> QED BY <2>7, <2>8, <2>14, <2>15, <2>16 DEF IdentityInv
<1> QED BY <1>7, <1>8

LEMMA IdentityReplaySample ==
    ASSUME TypeInv, IdentityInv, ReplaySample
    PROVE  IdentityInv'
<1> DEFINE s == log[pos].samples[sub]
<1>1. /\ mode = "replay" /\ mode' = "replay" /\ log' = log
      /\ newSeries' = newSeries /\ pending' = pending
      /\ HeadTypeOK /\ WalTypeOK /\ pos \in DOMAIN log /\ pos \in Nat
  BY DEF ReplaySample, NextRecord, appVars, walVars, TypeInv, WalTypeOK, ReplayTypeOK
<1>2. log[pos].samples \in Seq(Staged)
  BY <1>1, RecordKinds DEF ReplaySample, WalTypeOK, SamplesRec
<1>3. sub \in DOMAIN log[pos].samples
  BY <1>1, <1>2 DEF ReplaySample, TypeInv, ReplayTypeOK
<1>4. s \in Staged BY <1>2, <1>3
<1>5. StagedAt(pos, s) BY <1>1, <1>3 DEF ReplaySample, StagedAt
<1>6. AppendSample(s.ref, s.t, s.v) BY DEF ReplaySample
<1> HIDE DEF s
<1>7. \A l \in Label : InHead(s.ref, l) => s.l = l
  <2> SUFFICES ASSUME NEW l \in Label, InHead(s.ref, l) PROVE s.l = l
    OBVIOUS
  <2>1. s.ref \in Ref BY <1>4 DEF Staged
  <2>2. PICK p \in DOMAIN log : p < pos /\ SeriesAt(p, s.ref, l)
    BY <1>1, <2>1 DEF IdentityInv, ReplayNames
  <2> QED BY <1>1, <1>4, <1>5, <2>1, <2>2 DEF IdentityInv, LogOrder
<1>8. /\ HeadFromLog'
      /\ lastRef' = lastRef
      /\ \A r, l : InHead(r, l)' = InHead(r, l)
  BY <1>1, <1>4, <1>5, <1>6, <1>7, IdentityAppendSample DEF IdentityInv
<1>9. \A p, r, l : SeriesAt(p, r, l)' = SeriesAt(p, r, l) BY <1>1 DEF SeriesAt
<1>10. \A r, l : Name(r, l)' = Name(r, l) BY <1>1, <1>8, <1>9 DEF Name, NewOf
<1>11. NamesInv'
  BY <1>1, <1>10 DEF IdentityInv, NamesInv, Unambiguous, StagedAgree, StagedBy, FreshRefs
<1>12. LogOrder' BY <1>1 DEF IdentityInv, LogOrder, SeriesAt, StagedAt
<1>13. TornLast' BY <1>1, TornAhead DEF ReplaySample, NextRecord, IdentityInv
<1>14. ReplayNames'
  <2>1. CASE pos' = pos
    BY <1>1, <1>8, <1>9, <2>1 DEF IdentityInv, ReplayNames
  <2>2. CASE pos' = pos + 1
    <3>1. DOMAIN log \subseteq Nat BY <1>1 DEF WalTypeOK
    <3>2. \A q \in DOMAIN log : /\ q < pos' => q < pos \/ q = pos
                                /\ q < pos => q < pos'
      BY <1>1, <2>2, <3>1
    <3>3. \A r, l : ~SeriesAt(pos, r, l) BY DEF ReplaySample, SeriesAt
    <3>4. \A q \in DOMAIN log, r \in Ref, l \in Label :
             q < pos' /\ SeriesAt(q, r, l) => r <= lastRef
      BY <1>1, <3>2, <3>3 DEF IdentityInv, ReplayNames
    <3>5. \A r \in Ref, l \in Label :
             InHead(r, l) => \E q \in DOMAIN log : q < pos' /\ SeriesAt(q, r, l)
      BY <1>1, <3>2 DEF IdentityInv, ReplayNames
    <3> QED BY <1>1, <1>8, <1>9, <3>4, <3>5 DEF ReplayNames
  <2> QED BY <2>1, <2>2 DEF ReplaySample, NextRecord
<1> QED BY <1>8, <1>11, <1>12, <1>13, <1>14 DEF IdentityInv

\* Open returns: every series record of the log has been replayed, so lastRef is
\* past all references that still mean something.
LEMMA IdentityOpened ==
    ASSUME TypeInv, TypeInv', DurableInv, IdentityInv, mode = "replay", mode' = "up",
           UNCHANGED <<headVars, appVars>>,
           \A p \in DOMAIN log' : p < pos /\ p \in DOMAIN log /\ log'[p] = log[p],
           \A p \in DOMAIN log : log[p].kind # "torn" => p \in DOMAIN log',
           \A p \in DOMAIN log' : log'[p].kind # "torn"
    PROVE  IdentityInv'
<1>1. /\ series' = series /\ lastRef' = lastRef
      /\ newSeries' = newSeries /\ pending' = pending /\ Idle
  BY DEF headVars, appVars, DurableInv
<1>2. \A p, r, l : SeriesAt(p, r, l)' => SeriesAt(p, r, l) /\ p \in DOMAIN log /\ p < pos
  BY DEF SeriesAt
<1>3. \A p, s : StagedAt(p, s)' => StagedAt(p, s) BY DEF StagedAt
<1>4. \A a \in Appender : \A r, l : ~StagedBy(a, r, l)' /\ ~NewOf(a, r, l)'
  BY <1>1 DEF Idle, StagedBy, NewOf
<1>5. \A r, l : InHead(r, l)' = InHead(r, l) BY <1>1 DEF InHead
<1>6. \A r, l : Name(r, l)' => Name(r, l) BY <1>2, <1>4, <1>5 DEF Name
<1>7. Unambiguous' BY <1>6 DEF IdentityInv, NamesInv, Unambiguous
<1>8. StagedAgree' BY <1>4 DEF StagedAgree
<1>9. FreshRefs'
  <2> SUFFICES ASSUME NEW r \in Ref, NEW l \in Label, Name(r, l)' PROVE r <= lastRef
    BY <1>1, <1>4 DEF FreshRefs
  <2>1. PICK p \in DOMAIN log : p < pos /\ SeriesAt(p, r, l)
    BY <1>2, <1>4, <1>5 DEF Name, IdentityInv, ReplayNames
  <2> QED BY <2>1 DEF IdentityInv, ReplayNames
<1>10. LogOrder'
  <2> SUFFICES ASSUME NEW p \in DOMAIN log', NEW q \in DOMAIN log',
                      NEW r \in Ref, NEW l \in Label, NEW s \in Staged,
                      p < q, SeriesAt(p, r, l)', StagedAt(q, s)', s.ref = r
               PROVE  s.l = l
    BY DEF LogOrder
  <2> QED BY <1>2, <1>3 DEF IdentityInv, LogOrder
<1>11. ReplayNames' BY DEF ReplayNames
<1>12. TornLast' BY DEF TornLast
<1>13. HeadFromLog'
  <2>1. \A p \in DOMAIN log : log[p].kind = "samples" => p \in DOMAIN log' /\ log'[p] = log[p]
    OBVIOUS
  <2> QED BY <1>1, <2>1 DEF IdentityInv, HeadFromLog
<1> QED BY <1>7, <1>8, <1>9, <1>10, <1>11, <1>12, <1>13 DEF IdentityInv, NamesInv

LEMMA IdentityReplayTorn ==
    ASSUME TypeInv, TypeInv', DurableInv, IdentityInv, ReplayTorn
    PROVE  IdentityInv'
<1>1. /\ mode = "replay" /\ mode' = "up" /\ UNCHANGED <<headVars, appVars>>
      /\ pos \in DOMAIN log /\ log[pos].kind = "torn" /\ log \in Seq(Record)
  BY DEF ReplayTorn, OpenDone, TypeInv, WalTypeOK, ReplayTypeOK
<1>2. pos = Len(log) /\ Len(log) \in Nat BY <1>1 DEF IdentityInv, TornLast
<1>3. log' = SubSeq(log, 1, pos - 1) \o SubSeq(log, pos + 1, Len(log))
  BY <1>1, <1>2 DEF ReplayTorn, TruncateSegment
<1>4. SubSeq(log, pos + 1, Len(log)) = <<>> BY <1>1, <1>2
<1>5. log' = SubSeq(log, 1, pos - 1) BY <1>1, <1>2, <1>3, <1>4
<1>6. DOMAIN log' = 1 .. pos - 1 /\ \A p \in 1 .. pos - 1 : log'[p] = log[p]
  BY <1>1, <1>2, <1>5
<1>7. \A p \in DOMAIN log' : p < pos /\ p \in DOMAIN log /\ log'[p] = log[p]
  BY <1>1, <1>2, <1>6
<1>8. \A p \in DOMAIN log : log[p].kind # "torn" => p \in DOMAIN log'
  BY <1>1, <1>2, <1>6
<1>9. \A p \in DOMAIN log' : log'[p].kind # "torn"
  <2> TAKE p \in DOMAIN log'
  <2>1. p \in DOMAIN log /\ log'[p] = log[p] /\ p # Len(log) BY <1>2, <1>7
  <2> QED BY <2>1 DEF IdentityInv, TornLast
<1> QED BY <1>1, <1>7, <1>8, <1>9, IdentityOpened

LEMMA IdentityReplayDone ==
    ASSUME TypeInv, TypeInv', DurableInv, IdentityInv, ReplayDone
    PROVE  IdentityInv'
<1>1. /\ mode = "replay" /\ mode' = "up" /\ UNCHANGED <<headVars, appVars>>
      /\ log' = log /\ pos > Len(log) /\ pos \in Nat /\ DOMAIN log = 1 .. Len(log)
      /\ Len(log) \in Nat
  BY DEF ReplayDone, OpenDone, walVars, TypeInv, WalTypeOK, ReplayTypeOK
<1>2. \A p \in DOMAIN log : p < pos BY <1>1
<1>3. \A p \in DOMAIN log : log[p].kind # "torn"
  BY <1>1 DEF IdentityInv, TornLast
<1> QED BY <1>1, <1>2, <1>3, IdentityOpened

(***************************************************************************)
(* The invariant, and the property.                                        *)
(***************************************************************************)

LEMMA IdentityInit == Init => IdentityInv
<1> SUFFICES ASSUME Init PROVE IdentityInv OBVIOUS
<1>1. /\ DOMAIN series = {} /\ DOMAIN log = {} /\ mode = "up"
      /\ \A a \in Appender : newSeries[a] = <<>> /\ pending[a] = <<>>
  BY DEF Init, HeadInit
<1>2. \A r, l : ~Name(r, l) BY <1>1 DEF Name, InHead, NewOf
<1>3. \A a \in Appender : \A r, l : ~StagedBy(a, r, l) BY <1>1 DEF StagedBy
<1>4. NamesInv BY <1>2, <1>3 DEF NamesInv, Unambiguous, StagedAgree, FreshRefs
<1>5. LogOrder BY <1>1 DEF LogOrder
<1>6. ReplayNames BY <1>1 DEF ReplayNames
<1>7. TornLast BY <1>1 DEF TornLast
<1>8. HeadFromLog BY <1>1 DEF HeadFromLog
<1> QED BY <1>4, <1>5, <1>6, <1>7, <1>8 DEF IdentityInv

LEMMA IdentityStutter ==
    ASSUME TypeInv, IdentityInv, UNCHANGED vars
    PROVE  IdentityInv'
<1>1. /\ series' = series /\ lastRef' = lastRef /\ log' = log /\ mode' = mode /\ pos' = pos
      /\ newSeries' = newSeries /\ pending' = pending
  BY DEF vars, headVars, appVars, walVars, replayVars
<1>2. \A r, l : Name(r, l)' = Name(r, l)
  BY <1>1 DEF Name, InHead, NewOf, SeriesAt
<1>3. NamesInv'
  BY <1>1, <1>2 DEF IdentityInv, NamesInv, Unambiguous, StagedAgree, StagedBy, FreshRefs
<1>4. LogOrder' BY <1>1 DEF IdentityInv, LogOrder, SeriesAt, StagedAt
<1>5. ReplayNames' BY <1>1 DEF IdentityInv, ReplayNames, InHead, SeriesAt
<1>6. TornLast' BY <1>1 DEF IdentityInv, TornLast
<1>7. HeadFromLog' BY <1>1 DEF IdentityInv, HeadFromLog
<1> QED BY <1>3, <1>4, <1>5, <1>6, <1>7 DEF IdentityInv

LEMMA IdentityNext ==
    ASSUME MaxFail = 0, TypeInv, TypeInv', DurableInv, IdentityInv, [Next]_vars
    PROVE  IdentityInv'
<1>1. HeadTypeOK BY DEF TypeInv
<1>2. ASSUME NEW a \in Appender, NEW l \in Label, NEW t \in Time, NEW v \in Value,
             AppendOK(a, l, t, v)
      PROVE  IdentityInv'
  BY <1>2, IdentityAppendOK
<1>3. ASSUME NEW a \in Appender, NEW l \in Label, AppendRejected(a, l) PROVE IdentityInv'
  <2>1. /\ mode = "up" /\ mode' = "up" /\ lastRef' = lastRef /\ log' = log
        /\ series' = series /\ UNCHANGED <<newSeries, pending>>
    BY <1>3 DEF AppendRejected, TooManySeries, Goto, headVars, walVars, replayVars
  <2> QED BY <2>1, IdentityQuiet
<1>4. ASSUME NEW a \in Appender, Rollback(a) PROVE IdentityInv'
  <2>1. mode = "up" /\ mode' = "up" /\ log' = log
    BY <1>4 DEF Rollback, walVars, replayVars
  <2>2. lastRef' = lastRef /\ \A r \in DOMAIN series' : r \in DOMAIN series /\ series'[r] = series[r]
    BY <1>1, <1>4, ReclaimShrinks DEF Rollback, ReclaimIfEmpty, headVars
  <2>3. Fresh(a) \/ UNCHANGED <<newSeries, pending>> BY <1>4 DEF Rollback, Goto
  <2> QED BY <2>1, <2>2, <2>3, IdentityQuiet
<1>5. ASSUME NEW a \in Appender, Commit(a) PROVE IdentityInv'
  <2>1. /\ mode = "up" /\ mode' = "up" /\ lastRef' = lastRef /\ log' = log
        /\ series' = series /\ UNCHANGED <<newSeries, pending>>
    BY <1>5 DEF Commit, Goto, headVars, walVars, replayVars
  <2> QED BY <2>1, IdentityQuiet
<1>6. ASSUME NEW a \in Appender, LogSeries(a) PROVE IdentityInv' BY <1>6, IdentityLogSeries
<1>7. ASSUME NEW a \in Appender, LogSamples(a) PROVE IdentityInv' BY <1>7, IdentityLogSamples
<1>8. ASSUME NEW a \in Appender, Sync(a) PROVE IdentityInv'
  <2>1. /\ mode = "up" /\ mode' = "up" /\ lastRef' = lastRef /\ log' = log
        /\ series' = series /\ (Fresh(a) \/ UNCHANGED <<newSeries, pending>>)
    BY <1>8 DEF Sync, SyncOK, Goto, headVars, replayVars
  <2> QED BY <2>1, IdentityQuiet
<1>9. ASSUME NEW a \in Appender, CommitFails(a) PROVE IdentityInv'
  <2>1. fails = 0 BY DEF TypeInv, HistTypeOK
  <2>2. /\ mode = "up" /\ mode' = "up" /\ lastRef' = lastRef /\ log' = log
        /\ series' = series /\ Fresh(a)
    BY <1>9, <2>1 DEF CommitFails, WriteFails, SyncFails, headVars, walVars, replayVars
  <2> QED BY <2>2, IdentityQuiet
<1>10. ASSUME NEW a \in Appender, Apply(a) PROVE IdentityInv' BY <1>10, IdentityApply
<1>11. ASSUME NEW minT \in MinT, Truncate(minT) PROVE IdentityInv'
  <2>1. /\ mode = "up" /\ mode' = "up" /\ lastRef' = lastRef /\ log' = log
        /\ TruncateHead(minT) /\ UNCHANGED <<newSeries, pending>>
    BY <1>11 DEF Truncate, TruncateHead, appVars, walVars, replayVars
  <2> QED BY <1>1, <2>1, TruncateShrinks, IdentityQuiet
<1>12. CASE Close
  <2>1. /\ mode = "up" /\ mode' = "up" /\ lastRef' = lastRef /\ log' = log
        /\ series' = series /\ UNCHANGED <<newSeries, pending>>
    BY <1>12 DEF Close, headVars, appVars, replayVars
  <2> QED BY <2>1, IdentityQuiet
<1>13. CASE Kill BY <1>13, IdentityKill
<1>14. CASE PowerLoss BY <1>14, IdentityPowerLoss
<1>15. CASE ReplaySeries BY <1>15, IdentityReplaySeries
<1>16. CASE ReplaySample BY <1>16, IdentityReplaySample
<1>17. CASE ReplayTorn BY <1>17, IdentityReplayTorn
<1>18. CASE ReplayCorrupt BY <1>18, NoCorruption DEF IdentityInv
<1>19. CASE ReplayDone BY <1>19, IdentityReplayDone
<1>20. CASE UNCHANGED vars BY <1>20, IdentityStutter
<1> QED
  BY <1>2, <1>3, <1>4, <1>5, <1>6, <1>7, <1>8, <1>9, <1>10, <1>11, <1>12, <1>13,
     <1>14, <1>15, <1>16, <1>17, <1>18, <1>19, <1>20 DEF Next

\* If no system call of the log fails, concurrent appenders, rollbacks,
\* truncations, kills, power losses and replays never put a sample under a
\* series it was not staged for, nor show one that the log does not hold.
THEOREM SampleIdentity == ASSUME MaxFail = 0 PROVE Spec => []HeadFromLog
<1>1. TypeInv /\ DurableInv /\ IdentityInv /\ [Next]_vars
        => (TypeInv /\ DurableInv /\ IdentityInv)'
  BY TypeInvNext, DurableNext, IdentityNext
<1>2. Init => TypeInv /\ DurableInv /\ IdentityInv
  BY TypeInvInit, DurableInit, IdentityInit
<1>3. IdentityInv => HeadFromLog BY DEF IdentityInv
<1> QED BY <1>1, <1>2, <1>3, PTL DEF Spec

(***************************************************************************)
(* NoLeakedSlot.  An empty series is in the hands of the appender that     *)
(* created it, which is going to fill it or to give it back.               *)
(***************************************************************************)
\* a created r, and has yet to roll it back or to apply its sample.
Owns(a, r) ==
    \E i \in DOMAIN newSeries[a] :
        /\ newSeries[a][i].ref = r
        /\ pc[a] = "rollback" => idx[a] <= i
        /\ pc[a] = "apply" =>
             \E j \in DOMAIN pending[a] : idx[a] <= j /\ pending[a][j].ref = r

\* A batch has a sample for each series it created.
NewStaged ==
    \A a \in Appender : \A i \in DOMAIN newSeries[a] :
        \E j \in DOMAIN pending[a] : pending[a][j].ref = newSeries[a][i].ref

Calm == crashes = 0 /\ fails = 0 /\ file = "open"

OwnedInv ==
    /\ NewStaged
    /\ Calm => /\ mode = "up"
               /\ \A r \in DOMAIN series :
                    DOMAIN series[r].samples = {} => \E a \in Appender : Owns(a, r)

LEMMA OwnedInit == Init => OwnedInv
BY DEF Init, HeadInit, OwnedInv, NewStaged

LEMMA OwnedImplies == TypeInv /\ OwnedInv => NoLeakedSlot
<1> SUFFICES ASSUME TypeInv, OwnedInv, Calm,
                    \A a \in Appender : pc[a] = "stage" /\ pending[a] = <<>>,
                    NEW r \in DOMAIN series, DOMAIN series[r].samples = {}
             PROVE  FALSE
  BY DEF NoLeakedSlot, Calm
<1>1. PICK a \in Appender : Owns(a, r) BY DEF OwnedInv
<1>2. PICK i \in DOMAIN newSeries[a] : newSeries[a][i].ref = r BY <1>1 DEF Owns
<1>3. DOMAIN pending[a] = {} OBVIOUS
<1> QED BY <1>2, <1>3 DEF OwnedInv, NewStaged

\* A step that changes no batch's samples and created series, or empties the batch.
LEMMA NewStagedKept ==
    ASSUME NewStaged,
           \A a \in Appender : \/ newSeries'[a] = newSeries[a] /\ pending'[a] = pending[a]
                               \/ newSeries'[a] = <<>>
    PROVE  NewStaged'
<1> SUFFICES ASSUME NEW a \in Appender, NEW i \in DOMAIN newSeries'[a]
             PROVE  \E j \in DOMAIN pending'[a] : pending'[a][j].ref = newSeries'[a][i].ref
  BY DEF NewStaged
<1>1. newSeries'[a] = newSeries[a] /\ pending'[a] = pending[a] OBVIOUS
<1> QED BY <1>1 DEF NewStaged

\* Owners are kept when no appender moves, except one that had nothing to lose.
LEMMA OwnsKept ==
    ASSUME NEW b \in Appender, NEW r, Owns(b, r),
           pc'[b] = pc[b], idx'[b] = idx[b], newSeries'[b] = newSeries[b],
           pending'[b] = pending[b]
    PROVE  Owns(b, r)'
BY DEF Owns

\* A step of appender a that empties no series, while the log works: enough to look
\* at the series that a owns.
LEMMA OwnedStep ==
    ASSUME TypeInv, OwnedInv, NewStaged', NEW a \in Appender,
           Calm' => Calm, mode' = mode,
           \A r \in DOMAIN series' : DOMAIN series'[r].samples = {} =>
               r \in DOMAIN series /\ DOMAIN series[r].samples = {},
           \A b \in Appender : b # a =>
               /\ pc'[b] = pc[b] /\ idx'[b] = idx[b]
               /\ newSeries'[b] = newSeries[b] /\ pending'[b] = pending[b],
           Calm' => \A r \in DOMAIN series' :
               DOMAIN series'[r].samples = {} /\ Owns(a, r) => Owns(a, r)'
    PROVE  OwnedInv'
<1> SUFFICES ASSUME Calm', NEW r \in DOMAIN series', DOMAIN series'[r].samples = {}
             PROVE  \E b \in Appender : Owns(b, r)'
  BY DEF OwnedInv
<1>1. PICK b \in Appender : Owns(b, r) BY DEF OwnedInv
<1>2. CASE b = a BY <1>1, <1>2
<1>3. CASE b # a
  <2>1. Owns(b, r)' BY <1>1, <1>3, OwnsKept
  <2> QED BY <2>1
<1> QED BY <1>2, <1>3

\* A step of no appender that empties no series.
LEMMA OwnedQuiet ==
    ASSUME OwnedInv, UNCHANGED appVars, Calm' => Calm, mode' = mode,
           \A r \in DOMAIN series' : DOMAIN series'[r].samples = {} =>
               r \in DOMAIN series /\ DOMAIN series[r].samples = {}
    PROVE  OwnedInv'
<1>1. pc' = pc /\ idx' = idx /\ newSeries' = newSeries /\ pending' = pending BY DEF appVars
<1>2. NewStaged' BY <1>1, NewStagedKept DEF OwnedInv
<1> SUFFICES ASSUME Calm', NEW r \in DOMAIN series', DOMAIN series'[r].samples = {}
             PROVE  \E b \in Appender : Owns(b, r)'
  BY <1>2 DEF OwnedInv
<1>3. PICK b \in Appender : Owns(b, r) BY DEF OwnedInv
<1>4. Owns(b, r)' BY <1>1, <1>3, OwnsKept
<1> QED BY <1>4

\* Moving appender a, as the model's Goto and Fresh do.
LEMMA GotoApp ==
    ASSUME AppTypeOK, NEW a \in Appender, NEW l, NEW i, Goto(a, l, i)
    PROVE  /\ pc'[a] = l /\ idx'[a] = i /\ newSeries' = newSeries /\ pending' = pending
           /\ \A b \in Appender : b # a => pc'[b] = pc[b] /\ idx'[b] = idx[b]
BY DEF AppTypeOK, Goto

LEMMA FreshApp ==
    ASSUME AppTypeOK, NEW a \in Appender, Fresh(a)
    PROVE  /\ pc'[a] = "stage" /\ idx'[a] = 1 /\ newSeries'[a] = <<>> /\ pending'[a] = <<>>
           /\ \A b \in Appender : b # a => /\ pc'[b] = pc[b] /\ idx'[b] = idx[b]
                                           /\ newSeries'[b] = newSeries[b]
                                           /\ pending'[b] = pending[b]
BY DEF AppTypeOK, Fresh

\* Append keeps the owners, and a owns the series it creates.
LEMMA OwnedAppendOK ==
    ASSUME TypeInv, RefsBelow, OwnedInv, NEW a \in Appender, NEW l \in Label, NEW t \in Time,
           NEW v \in Value, AppendOK(a, l, t, v)
    PROVE  OwnedInv'
<1>1. /\ HeadTypeOK /\ AppTypeOK /\ mode' = mode /\ (Calm' <=> Calm)
      /\ pc' = pc /\ idx' = idx /\ pc[a] = "stage"
  BY DEF AppendOK, TypeInv, replayVars, walVars, Calm
<1>2. PICK ref : /\ Stage(a, ref, l, t, v)
                 /\ \/ ref \in RefsOf(l) /\ UNCHANGED headVars /\ UNCHANGED newSeries
                    \/ /\ ref = lastRef + 1 /\ Created(l, lastRef + 1)
                       /\ newSeries' = [newSeries EXCEPT ![a] = Append(@, [ref |-> ref, l |-> l])]
  BY DEF AppendOK, Found
<1> DEFINE s == [ref |-> ref, l |-> l, t |-> t, v |-> v]
<1>3. /\ pending[a] \in Seq(Staged) /\ newSeries[a] \in Seq(NewSeries)
      /\ \A b \in Appender : b # a => pending'[b] = pending[b]
      /\ pending'[a] = Append(pending[a], s)
  BY <1>1, <1>2 DEF Stage, AppTypeOK
<1>4. /\ DOMAIN pending'[a] = 1 .. Len(pending[a]) + 1
      /\ \A j \in DOMAIN pending[a] : j \in DOMAIN pending'[a] /\ pending'[a][j] = pending[a][j]
      /\ Len(pending[a]) + 1 \in DOMAIN pending'[a] /\ pending'[a][Len(pending[a]) + 1].ref = ref
  BY <1>3
<1>5. /\ \A b \in Appender : b # a => newSeries'[b] = newSeries[b]
      /\ \A i \in DOMAIN newSeries[a] :
           i \in DOMAIN newSeries'[a] /\ newSeries'[a][i] = newSeries[a][i]
      /\ \A i \in DOMAIN newSeries'[a] : \/ i \in DOMAIN newSeries[a]
                                         \/ newSeries'[a][i].ref = ref
      /\ Created(l, lastRef + 1) => \E i \in DOMAIN newSeries'[a] : newSeries'[a][i].ref = ref
  <2>1. CASE UNCHANGED newSeries /\ UNCHANGED headVars
    BY <2>1, <1>1 DEF Created, headVars, HeadTypeOK
  <2>2. CASE newSeries' = [newSeries EXCEPT ![a] = Append(@, [ref |-> ref, l |-> l])]
    <3>1. newSeries'[a] = Append(newSeries[a], [ref |-> ref, l |-> l]) BY <1>1, <2>2 DEF AppTypeOK
    <3>2. \A b \in Appender : b # a => newSeries'[b] = newSeries[b] BY <1>1, <2>2 DEF AppTypeOK
    <3>3. /\ DOMAIN newSeries'[a] = 1 .. Len(newSeries[a]) + 1
          /\ newSeries'[a][Len(newSeries[a]) + 1] = [ref |-> ref, l |-> l]
          /\ Len(newSeries[a]) \in Nat
          /\ DOMAIN newSeries[a] = 1 .. Len(newSeries[a])
          /\ \A i \in DOMAIN newSeries[a] : newSeries'[a][i] = newSeries[a][i]
      BY <1>3, <3>1
    <3> HIDE DEF s
    <3> QED BY <3>2, <3>3
  <2> QED BY <1>2, <2>1, <2>2
<1> HIDE DEF s
<1>6. NewStaged'
  <2> SUFFICES ASSUME NEW b \in Appender, NEW i \in DOMAIN newSeries'[b]
               PROVE  \E j \in DOMAIN pending'[b] : pending'[b][j].ref = newSeries'[b][i].ref
    BY DEF NewStaged
  <2>1. CASE b # a BY <1>3, <1>5, <2>1 DEF OwnedInv, NewStaged
  <2>2. CASE b = a /\ i \in DOMAIN newSeries[a]
    <3>1. PICK j \in DOMAIN pending[a] : pending[a][j].ref = newSeries[a][i].ref
      BY <2>2 DEF OwnedInv, NewStaged
    <3> QED BY <1>4, <1>5, <2>2, <3>1
  <2>3. CASE b = a /\ newSeries'[a][i].ref = ref BY <1>4, <2>3
  <2> QED BY <1>5, <2>1, <2>2, <2>3
<1>7. ASSUME NEW b \in Appender, NEW r, Owns(b, r) PROVE Owns(b, r)'
  <2>1. CASE b # a BY <1>1, <1>3, <1>5, <1>7, <2>1, OwnsKept
  <2>2. CASE b = a BY <1>1, <1>5, <1>7, <2>2 DEF Owns
  <2> QED BY <2>1, <2>2
<1>8. ASSUME NEW r \in DOMAIN series', DOMAIN series'[r].samples = {}, Calm'
      PROVE  \E b \in Appender : Owns(b, r)'
  <2>1. CASE r \in DOMAIN series /\ series'[r] = series[r]
    BY <1>1, <1>7, <1>8, <2>1 DEF OwnedInv
  <2>2. CASE Created(l, lastRef + 1) /\ r = ref
    <3>1. Owns(a, r)' BY <1>1, <1>5, <2>2 DEF Owns
    <3> QED BY <3>1
  <2>3. UNCHANGED headVars => r \in DOMAIN series /\ series'[r] = series[r] BY DEF headVars
  <2>4. Created(l, lastRef + 1) /\ r # lastRef + 1 => r \in DOMAIN series /\ series'[r] = series[r]
    BY DEF Created, Inserted
  <2> QED BY <1>2, <2>1, <2>2, <2>3, <2>4
<1> QED BY <1>1, <1>6, <1>8 DEF OwnedInv

\* Rollback gives back one series, which nobody then has to own.
LEMMA OwnedRollback ==
    ASSUME TypeInv, OwnedInv, NEW a \in Appender, Rollback(a)
    PROVE  OwnedInv'
<1>1. /\ HeadTypeOK /\ AppTypeOK /\ mode' = mode /\ (Calm' => Calm) /\ pc[a] = "rollback"
      /\ idx[a] \in Nat /\ newSeries[a] \in Seq(NewSeries)
  BY DEF Rollback, TypeInv, AppTypeOK, replayVars, walVars, Calm
<1>2. CASE /\ idx[a] <= Len(newSeries[a])
           /\ ReclaimIfEmpty(newSeries[a][idx[a]].ref) /\ Goto(a, "rollback", idx[a] + 1)
  <2> DEFINE ref == newSeries[a][idx[a]].ref
  <2>1. /\ pc'[a] = "rollback" /\ idx'[a] = idx[a] + 1 /\ newSeries' = newSeries /\ pending' = pending
        /\ \A b \in Appender : b # a => pc'[b] = pc[b] /\ idx'[b] = idx[b]
    BY <1>1, <1>2, GotoApp
  <2>2. NewStaged' BY <2>1, NewStagedKept DEF OwnedInv
  <2>3. \A r \in DOMAIN series' : /\ r \in DOMAIN series /\ series'[r] = series[r]
                                  /\ DOMAIN series[r].samples = {} => r # ref
    BY <1>2 DEF ReclaimIfEmpty, Removed
  <2>4. ASSUME NEW r, r # ref, Owns(a, r) PROVE Owns(a, r)'
    <3>1. PICK i \in DOMAIN newSeries[a] : newSeries[a][i].ref = r /\ idx[a] <= i
      BY <1>1, <2>4 DEF Owns
    <3>2. i # idx[a] /\ i \in Nat BY <1>1, <2>4, <3>1
    <3>3. idx[a] + 1 <= i BY <1>1, <3>1, <3>2
    <3> QED BY <2>1, <3>1, <3>3 DEF Owns
  <2> HIDE DEF ref
  <2> QED BY <1>1, <2>1, <2>2, <2>3, <2>4, OwnedStep
<1>3. CASE ~(idx[a] <= Len(newSeries[a])) /\ Fresh(a) /\ UNCHANGED headVars
  <2>1. NewStaged' BY <1>1, <1>3, FreshApp, NewStagedKept DEF OwnedInv
  <2>2. ASSUME NEW r, Owns(a, r) PROVE FALSE
    <3>1. PICK i \in DOMAIN newSeries[a] : newSeries[a][i].ref = r /\ idx[a] <= i
      BY <1>1, <2>2 DEF Owns
    <3> QED BY <1>1, <1>3, <3>1
  <2> QED BY <1>1, <1>3, <2>1, <2>2, FreshApp, OwnedStep DEF headVars
<1> QED BY <1>2, <1>3 DEF Rollback

\* Applying a sample fills its series, and the batch's other series stay owned.
LEMMA OwnedApply ==
    ASSUME TypeInv, OwnedInv, NEW a \in Appender, Apply(a)
    PROVE  OwnedInv'
<1> DEFINE s == pending[a][idx[a]]
<1>1. /\ HeadTypeOK /\ AppTypeOK /\ mode' = mode /\ (Calm' => Calm) /\ pc[a] = "apply"
      /\ idx[a] \in Nat /\ pending[a] \in Seq(Staged) /\ AppendSample(s.ref, s.t, s.v)
  BY DEF Apply, TypeInv, AppTypeOK, replayVars, walVars, Calm
<1>2. \A r \in DOMAIN series' : DOMAIN series'[r].samples = {} =>
          r \in DOMAIN series /\ DOMAIN series[r].samples = {} /\ r # s.ref
  <2> SUFFICES ASSUME NEW r \in DOMAIN series', DOMAIN series'[r].samples = {}
               PROVE  r \in DOMAIN series /\ DOMAIN series[r].samples = {} /\ r # s.ref
    OBVIOUS
  <2>1. r \in DOMAIN series BY <1>1, AppendSampleDomain
  <2>2. CASE r = s.ref
    <3>1. series'[r].samples = WithSample(series[r].samples, s.t, s.v)
      BY <1>1, <2>1, <2>2, AppendSampleDomain
    <3>2. s.t \in DOMAIN WithSample(series[r].samples, s.t, s.v) BY DEF WithSample
    <3> QED BY <3>1, <3>2
  <2>3. CASE r # s.ref BY <1>1, <2>1, <2>3, AppendSampleDomain
  <2> QED BY <2>1, <2>2, <2>3
<1>3. CASE idx[a] < Len(pending[a]) /\ Goto(a, "apply", idx[a] + 1)
  <2>1. /\ pc'[a] = "apply" /\ idx'[a] = idx[a] + 1 /\ newSeries' = newSeries /\ pending' = pending
        /\ \A b \in Appender : b # a => pc'[b] = pc[b] /\ idx'[b] = idx[b]
    BY <1>1, <1>3, GotoApp
  <2>2. NewStaged' BY <2>1, NewStagedKept DEF OwnedInv
  <2>3. ASSUME NEW r, r # s.ref, Owns(a, r) PROVE Owns(a, r)'
    <3>1. PICK j \in DOMAIN pending[a] : idx[a] <= j /\ pending[a][j].ref = r
      BY <1>1, <2>3 DEF Owns
    <3>2. j # idx[a] /\ j \in Nat BY <1>1, <2>3, <3>1
    <3>3. idx[a] + 1 <= j BY <1>1, <3>1, <3>2
    <3> QED BY <2>1, <2>3, <3>1, <3>3 DEF Owns
  <2> HIDE DEF s
  <2> QED BY <1>1, <1>2, <2>1, <2>2, <2>3, OwnedStep
<1>4. CASE ~(idx[a] < Len(pending[a])) /\ Fresh(a)
  <2>1. NewStaged' BY <1>1, <1>4, FreshApp, NewStagedKept DEF OwnedInv
  <2>2. ASSUME NEW r, r # s.ref, Owns(a, r) PROVE FALSE
    <3>1. PICK j \in DOMAIN pending[a] : idx[a] <= j /\ pending[a][j].ref = r
      BY <1>1, <2>2 DEF Owns
    <3>2. j = idx[a] BY <1>1, <1>4, <3>1
    <3> QED BY <2>2, <3>1, <3>2
  <2> HIDE DEF s
  <2> QED BY <1>1, <1>2, <1>4, <2>1, <2>2, FreshApp, OwnedStep
<1> QED BY <1>3, <1>4 DEF Apply

LEMMA OwnedNext ==
    ASSUME TypeInv, RefsBelow, OwnedInv, [Next]_vars
    PROVE  OwnedInv'
<1>1. HeadTypeOK /\ AppTypeOK /\ crashes \in Nat /\ fails \in Nat
  BY BoundsAssumption DEF TypeInv, HistTypeOK
<1>2. ASSUME NEW a \in Appender, NEW l \in Label, NEW t \in Time, NEW v \in Value,
             AppendOK(a, l, t, v)
      PROVE  OwnedInv'
  BY <1>2, OwnedAppendOK
<1>3. ASSUME NEW a \in Appender, NEW l \in Label, AppendRejected(a, l) PROVE OwnedInv'
  <2>1. /\ Goto(a, "rollback", 1) /\ UNCHANGED headVars /\ mode' = mode /\ (Calm' => Calm)
    BY <1>3 DEF AppendRejected, TooManySeries, replayVars, walVars, Calm
  <2>2. NewStaged' BY <1>1, <2>1, GotoApp, NewStagedKept DEF OwnedInv
  <2>3. ASSUME NEW r, Owns(a, r) PROVE Owns(a, r)'
    <3>1. PICK i \in DOMAIN newSeries[a] : newSeries[a][i].ref = r BY <2>3 DEF Owns
    <3>2. newSeries[a] \in Seq(NewSeries) BY <1>1 DEF AppTypeOK
    <3>3. 1 <= i BY <3>1, <3>2
    <3> QED BY <1>1, <2>1, <3>1, <3>3, GotoApp DEF Owns
  <2> QED BY <1>1, <2>1, <2>2, <2>3, GotoApp, OwnedStep DEF headVars
<1>4. ASSUME NEW a \in Appender, Rollback(a) PROVE OwnedInv' BY <1>4, OwnedRollback
<1>5. ASSUME NEW a \in Appender, Commit(a) \/ LogSeries(a) \/ LogSamples(a) PROVE OwnedInv'
  <2>1. /\ UNCHANGED headVars /\ mode' = mode /\ (Calm' => Calm)
        /\ \E label \in PC \ {"rollback", "apply"} : \E i : Goto(a, label, i)
    BY <1>5 DEF Commit, LogSeries, LogSamples, Write, Put, AfterSeries, PC, replayVars, walVars, Calm
  <2>2. PICK label \in PC \ {"rollback", "apply"} : \E i : Goto(a, label, i) BY <2>1
  <2>3. NewStaged' BY <1>1, <2>2, GotoApp, NewStagedKept DEF OwnedInv
  <2>4. ASSUME NEW r, Owns(a, r) PROVE Owns(a, r)'
    BY <1>1, <2>2, <2>4, GotoApp DEF Owns
  <2> QED BY <1>1, <2>1, <2>2, <2>3, <2>4, GotoApp, OwnedStep DEF headVars
<1>6. ASSUME NEW a \in Appender, Sync(a) PROVE OwnedInv'
  <2>1. /\ UNCHANGED headVars /\ mode' = mode /\ (Calm' => Calm)
    BY <1>6 DEF Sync, SyncOK, replayVars, walVars, Calm
  <2>2. CASE pending[a] = <<>> /\ Fresh(a)
    <3>1. NewStaged' BY <1>1, <2>2, FreshApp, NewStagedKept DEF OwnedInv
    <3>2. DOMAIN pending[a] = {} BY <2>2
    <3>3. \A r : ~Owns(a, r) BY <3>2 DEF Owns, OwnedInv, NewStaged
    <3> QED BY <1>1, <2>1, <2>2, <3>1, <3>3, FreshApp, OwnedStep DEF headVars
  <2>3. CASE Goto(a, "apply", 1)
    <3>1. NewStaged' BY <1>1, <2>3, GotoApp, NewStagedKept DEF OwnedInv
    <3>2. ASSUME NEW r, Owns(a, r) PROVE Owns(a, r)'
      <4>1. PICK i \in DOMAIN newSeries[a] : newSeries[a][i].ref = r BY <3>2 DEF Owns
      <4>2. PICK j \in DOMAIN pending[a] : pending[a][j].ref = r
        BY <4>1 DEF OwnedInv, NewStaged
      <4>3. pending[a] \in Seq(Staged) BY <1>1 DEF AppTypeOK
      <4>4. 1 <= j BY <4>2, <4>3
      <4> QED BY <1>1, <2>3, <4>1, <4>2, <4>4, GotoApp DEF Owns
    <3> QED BY <1>1, <2>1, <2>3, <3>1, <3>2, GotoApp, OwnedStep DEF headVars
  <2> QED BY <1>6, <2>2, <2>3 DEF Sync
<1>7. ASSUME NEW a \in Appender, CommitFails(a) PROVE OwnedInv'
  <2>1. Fresh(a) /\ ~Calm'
    BY <1>1, <1>7 DEF CommitFails, WriteFails, SyncFails, walVars, Calm
  <2>2. NewStaged' BY <1>1, <2>1, FreshApp, NewStagedKept DEF OwnedInv
  <2> QED BY <2>1, <2>2 DEF OwnedInv
<1>8. ASSUME NEW a \in Appender, Apply(a) PROVE OwnedInv' BY <1>8, OwnedApply
<1>9. ASSUME NEW minT \in MinT, Truncate(minT) PROVE OwnedInv'
  <2>1. UNCHANGED appVars /\ mode' = mode /\ (Calm' => Calm) /\ TruncateHead(minT)
    BY <1>9 DEF Truncate, walVars, replayVars, Calm
  <2>2. \A r \in DOMAIN series' : DOMAIN series'[r].samples # {}
    BY <2>1 DEF TruncateHead, From
  <2> QED BY <2>1, <2>2, OwnedQuiet
<1>10. CASE Close \/ ReplaySeries \/ ReplaySample \/ ReplayTorn \/ ReplayCorrupt \/ ReplayDone
  <2>1. UNCHANGED appVars
    BY <1>10 DEF Close, ReplaySeries, ReplaySample, ReplayTorn, ReplayCorrupt, ReplayDone
  <2>2. NewStaged' BY <2>1, NewStagedKept DEF OwnedInv, appVars
  <2>3. ~Calm'
    <3>1. CASE Close BY <3>1 DEF Close, Calm
    <3>2. CASE ReplaySeries \/ ReplaySample \/ ReplayTorn \/ ReplayCorrupt \/ ReplayDone
      <4>1. ~Calm BY <3>2 DEF OwnedInv, ReplaySeries, ReplaySample, ReplayTorn, ReplayCorrupt, ReplayDone
      <4> QED BY <3>2, <4>1
          DEF ReplaySeries, ReplaySample, ReplayTorn, ReplayCorrupt, ReplayDone, walVars, Calm
    <3> QED BY <1>10, <3>1, <3>2
  <2> QED BY <2>2, <2>3 DEF OwnedInv
<1>11. CASE Kill \/ PowerLoss
  <2>1. crashes' = crashes + 1 /\ newSeries' = [a \in Appender |-> <<>>]
    BY <1>11 DEF Kill, PowerLoss, Restart
  <2>2. NewStaged' BY <2>1, NewStagedKept DEF OwnedInv
  <2>3. ~Calm' BY <1>1, <2>1 DEF Calm
  <2> QED BY <2>2, <2>3 DEF OwnedInv
<1>12. CASE UNCHANGED vars
  BY <1>12, OwnedQuiet DEF vars, headVars, walVars, replayVars, Calm
<1> QED
  BY <1>2, <1>3, <1>4, <1>5, <1>6, <1>7, <1>8, <1>9, <1>10, <1>11, <1>12 DEF Next

(***************************************************************************)
(* UniqueLabels.  Until a series is dropped by Truncate, the log and the   *)
(* head name the same series: a label set that is in the log is in the     *)
(* head too, so it is not created a second time.                           *)
(***************************************************************************)
SeriesRecord(p) == p \in DOMAIN log /\ log[p].kind = "series"

\* The log gives one reference to a label set and one label set to a reference.
LogBijective ==
    \A p, q \in DOMAIN log : SeriesRecord(p) /\ SeriesRecord(q) =>
        (log[p].l = log[q].l <=> log[p].ref = log[q].ref)

HeadUnique == \A r, s \in DOMAIN series : series[r].labels = series[s].labels => r = s

\* What has been logged, or, during replay, read again, is in the head ...
LoggedInHead ==
    \A p \in DOMAIN log : SeriesRecord(p) /\ (mode = "replay" => p < pos)
        => InHead(log[p].ref, log[p].l)
\* ... and during replay nothing else.
HeadIsLogged ==
    mode = "replay" => \A r \in DOMAIN series :
        \E p \in DOMAIN log : p < pos /\ SeriesAt(p, r, series[r].labels)

\* A created series is in the head until its batch is rolled back, ...
NewInHead ==
    \A a \in Appender : pc[a] # "rollback" =>
        \A i \in DOMAIN newSeries[a] : InHead(newSeries[a][i].ref, newSeries[a][i].l)
\* ... its reference is its creator's alone, ...
NewFresh ==
    \A a \in Appender : \A i \in DOMAIN newSeries[a] :
        /\ newSeries[a][i].ref <= lastRef
        /\ \A b \in Appender : \A j \in DOMAIN newSeries[b] :
             newSeries[b][j].ref = newSeries[a][i].ref => a = b
\* ... and not in the log while the batch can still be rolled back.
NewUnlogged ==
    \A a \in Appender : pc[a] \in {"stage", "rollback"} =>
        \A i \in DOMAIN newSeries[a] : \A p \in DOMAIN log :
            SeriesRecord(p) => log[p].ref # newSeries[a][i].ref

Untouched == fails = 0 /\ lowWater = -1

SlotInv ==
    /\ lowWater >= -1
    /\ Untouched =>
         /\ LogBijective /\ HeadUnique /\ LoggedInHead /\ HeadIsLogged
         /\ NewInHead /\ NewFresh /\ NewUnlogged

\* Before a crash, the head alone keeps its label sets apart.
FirstUnique == crashes = 0 => mode = "up" /\ HeadUnique

\* The head after the step has r under the label set l.
InNewHead(r, l) == r \in DOMAIN series' /\ series'[r].labels = l

LEMMA SlotInit == Init => SlotInv /\ FirstUnique
BY DEF Init, HeadInit, SlotInv, FirstUnique, LogBijective, HeadUnique, LoggedInHead, HeadIsLogged,
       NewInHead, NewFresh, NewUnlogged

\* A step that changes no name: not those of the head, of the log, nor of a batch,
\* except that a batch may be over.
LEMMA SlotQuiet ==
    ASSUME TypeInv, TypeInv', SlotInv, mode = "up", mode' = "up", lastRef' = lastRef,
           Untouched' => Untouched, lowWater' >= -1,
           DOMAIN series' = DOMAIN series,
           \A r \in DOMAIN series : series'[r].labels = series[r].labels,
           \A p \in DOMAIN log : p \in DOMAIN log' /\ log'[p] = log[p],
           Untouched' => \A p \in DOMAIN log' : log'[p].kind = "series" => p \in DOMAIN log,
           \A b \in Appender :
               \/ newSeries'[b] = <<>>
               \/ /\ newSeries'[b] = newSeries[b]
                  /\ pc[b] = "rollback" => pc'[b] = "rollback"
                  /\ pc'[b] \in {"stage", "rollback"} => pc[b] \in {"stage", "rollback"}
    PROVE  SlotInv'
<1> SUFFICES ASSUME Untouched'
             PROVE  /\ LogBijective' /\ HeadUnique' /\ LoggedInHead' /\ HeadIsLogged'
                    /\ NewInHead' /\ NewFresh' /\ NewUnlogged'
  BY DEF SlotInv
<1>1. /\ LogBijective /\ HeadUnique /\ LoggedInHead /\ NewInHead /\ NewFresh /\ NewUnlogged
  BY DEF SlotInv
<1>2. \A p : SeriesRecord(p)' => SeriesRecord(p) /\ log'[p] = log[p] BY DEF SeriesRecord
<1>3. \A r, l : InHead(r, l)' <=> InHead(r, l) BY DEF InHead
<1>4. LogBijective' BY <1>1, <1>2 DEF LogBijective, SeriesRecord
<1>5. HeadUnique' BY <1>1 DEF HeadUnique
<1>6. LoggedInHead'
  <2> SUFFICES ASSUME NEW p, SeriesRecord(p)' PROVE InHead(log[p].ref, log[p].l)
    BY <1>2, <1>3 DEF LoggedInHead, SeriesRecord
  <2> QED BY <1>1, <1>2 DEF LoggedInHead, SeriesRecord
<1>7. HeadIsLogged' BY DEF HeadIsLogged
<1>8. \A b \in Appender : \A i \in DOMAIN newSeries'[b] :
          /\ i \in DOMAIN newSeries[b] /\ newSeries'[b] = newSeries[b]
          /\ pc[b] = "rollback" => pc'[b] = "rollback"
          /\ pc'[b] \in {"stage", "rollback"} => pc[b] \in {"stage", "rollback"}
  OBVIOUS
<1>9. NewInHead' BY <1>1, <1>3, <1>8 DEF NewInHead
<1>10. NewFresh' BY <1>1, <1>8 DEF NewFresh
<1>11. NewUnlogged' BY <1>1, <1>2, <1>8 DEF NewUnlogged, SeriesRecord
<1> QED BY <1>4, <1>5, <1>6, <1>7, <1>9, <1>10, <1>11

\* Append creates a series: its reference is new to the log, too.
LEMMA SlotCreated ==
    ASSUME TypeInv, RefsBelow, SlotInv, NEW a \in Appender, NEW l \in Label, mode = "up",
           pc[a] = "stage", Created(l, lastRef + 1),
           newSeries' = [newSeries EXCEPT ![a] = Append(@, [ref |-> lastRef + 1, l |-> l])],
           UNCHANGED <<log, mode, pos, pc, lowWater, fails>>
    PROVE  SlotInv'
<1> DEFINE ref == lastRef + 1
<1>1. HeadTypeOK /\ AppTypeOK /\ lastRef \in Nat BY DEF TypeInv, HeadTypeOK
<1>2. /\ ref \notin DOMAIN series /\ lastRef' = ref
      /\ DOMAIN series' = DOMAIN series \cup {ref}
      /\ series'[ref].labels = l
      /\ \A r \in DOMAIN series : series'[r] = series[r]
      /\ \A r \in DOMAIN series : series[r].labels # l
  BY <1>1, RefsBelowCreated DEF Created, Inserted, RefsOf
<1>3. /\ \A b \in Appender : b # a => newSeries'[b] = newSeries[b]
      /\ newSeries'[a] = Append(newSeries[a], [ref |-> ref, l |-> l])
      /\ newSeries[a] \in Seq(NewSeries)
  BY <1>1 DEF AppTypeOK
<1>4. \A i \in DOMAIN newSeries'[a] :
          \/ i \in DOMAIN newSeries[a] /\ newSeries'[a][i] = newSeries[a][i]
          \/ newSeries'[a][i].ref = ref /\ newSeries'[a][i].l = l
  BY <1>3
<1> SUFFICES ASSUME Untouched
             PROVE  /\ LogBijective' /\ HeadUnique' /\ LoggedInHead' /\ HeadIsLogged'
                    /\ NewInHead' /\ NewFresh' /\ NewUnlogged'
  BY DEF SlotInv, Untouched
<1>5. /\ LogBijective /\ HeadUnique /\ LoggedInHead /\ NewInHead /\ NewFresh /\ NewUnlogged
  BY DEF SlotInv
<1>6. LogBijective' BY <1>5 DEF LogBijective, SeriesRecord
<1>7. HeadUnique' BY <1>2, <1>5 DEF HeadUnique
<1>8. \A r, k : InHead(r, k) => InNewHead(r, k) BY <1>2 DEF InHead, InNewHead
<1>9. LoggedInHead' BY <1>5, <1>8 DEF LoggedInHead, SeriesRecord, InHead, InNewHead
<1>10. HeadIsLogged' BY DEF HeadIsLogged
<1>11. InNewHead(ref, l) BY <1>2 DEF InNewHead
<1> HIDE DEF ref
<1>12. NewInHead'
  <2> SUFFICES ASSUME NEW b \in Appender, pc[b] # "rollback", NEW i \in DOMAIN newSeries'[b]
               PROVE  InNewHead(newSeries'[b][i].ref, newSeries'[b][i].l)
    BY DEF NewInHead, InHead, InNewHead
  <2>1. CASE i \in DOMAIN newSeries[b] /\ newSeries'[b][i] = newSeries[b][i]
    BY <1>5, <1>8, <2>1 DEF NewInHead
  <2>2. CASE b = a /\ newSeries'[a][i].ref = ref /\ newSeries'[a][i].l = l BY <1>11, <2>2
  <2> QED BY <1>3, <1>4, <2>1, <2>2
<1>13. \A b \in Appender : \A i \in DOMAIN newSeries'[b] :
          \/ /\ i \in DOMAIN newSeries[b] /\ newSeries'[b][i].ref = newSeries[b][i].ref
             /\ newSeries[b][i].ref <= lastRef /\ newSeries[b][i].ref \in Nat
          \/ b = a /\ newSeries'[b][i].ref = ref
  <2> SUFFICES ASSUME NEW b \in Appender, NEW i \in DOMAIN newSeries[b]
               PROVE  newSeries[b][i].ref <= lastRef /\ newSeries[b][i].ref \in Nat
    BY <1>3, <1>4
  <2>1. newSeries[b] \in Seq(NewSeries) BY <1>1 DEF AppTypeOK
  <2>2. newSeries[b][i] \in NewSeries BY <2>1
  <2> QED BY <1>5, <2>2 DEF NewFresh, NewSeries, Ref
<1>14. ref = lastRef + 1 BY DEF ref
<1>15. NewFresh'
  <2> SUFFICES ASSUME NEW b \in Appender, NEW i \in DOMAIN newSeries'[b]
               PROVE  /\ newSeries'[b][i].ref <= lastRef'
                      /\ \A c \in Appender : \A j \in DOMAIN newSeries'[c] :
                           newSeries'[c][j].ref = newSeries'[b][i].ref => b = c
    BY DEF NewFresh
  <2>1. newSeries'[b][i].ref <= lastRef' BY <1>1, <1>2, <1>13, <1>14
  <2>2. ASSUME NEW c \in Appender, NEW j \in DOMAIN newSeries'[c],
               newSeries'[c][j].ref = newSeries'[b][i].ref
        PROVE  b = c
    <3>1. CASE newSeries'[b][i].ref = ref BY <1>1, <1>13, <1>14, <2>2, <3>1
    <3>2. CASE newSeries'[b][i].ref # ref BY <1>5, <1>13, <2>2, <3>2 DEF NewFresh
    <3> QED BY <3>1, <3>2
  <2> QED BY <2>1, <2>2
<1>16. NewUnlogged'
  <2> SUFFICES ASSUME NEW b \in Appender, pc[b] \in {"stage", "rollback"},
                      NEW i \in DOMAIN newSeries'[b], NEW p \in DOMAIN log, SeriesRecord(p),
                      log[p].ref = newSeries'[b][i].ref
               PROVE  FALSE
    BY DEF NewUnlogged, SeriesRecord
  <2>1. InHead(log[p].ref, log[p].l) BY <1>5 DEF LoggedInHead
  <2>2. log[p].ref <= lastRef /\ log[p].ref \in Nat
    BY <1>1, <2>1 DEF InHead, RefsBelow, HeadTypeOK, Ref
  <2>3. i \in DOMAIN newSeries[b] /\ newSeries'[b][i].ref = newSeries[b][i].ref
    BY <1>1, <1>13, <1>14, <2>2
  <2> QED BY <1>5, <2>3 DEF NewUnlogged
<1> QED BY <1>6, <1>7, <1>9, <1>10, <1>12, <1>15, <1>16

\* Rollback removes a series that only its own batch has named.
LEMMA SlotReclaim ==
    ASSUME TypeInv, SlotInv, NEW a \in Appender, mode = "up", pc[a] = "rollback",
           NEW i \in DOMAIN newSeries[a], ReclaimIfEmpty(newSeries[a][i].ref),
           UNCHANGED <<log, mode, pos, pc, newSeries, lowWater, fails>>
    PROVE  SlotInv'
<1> DEFINE ref == newSeries[a][i].ref
<1>1. /\ lastRef' = lastRef
      /\ \A r \in DOMAIN series' : r \in DOMAIN series /\ series'[r] = series[r]
      /\ \A r \in DOMAIN series : r # ref => r \in DOMAIN series'
  BY DEF ReclaimIfEmpty, Removed
<1> SUFFICES ASSUME Untouched
             PROVE  /\ LogBijective' /\ HeadUnique' /\ LoggedInHead' /\ HeadIsLogged'
                    /\ NewInHead' /\ NewFresh' /\ NewUnlogged'
  BY DEF SlotInv, Untouched
<1>2. /\ LogBijective /\ HeadUnique /\ LoggedInHead /\ NewInHead /\ NewFresh /\ NewUnlogged
  BY DEF SlotInv
<1>3. \A r, l : InHead(r, l) /\ r # ref => InHead(r, l)' BY <1>1 DEF InHead
<1>4. \A p \in DOMAIN log : SeriesRecord(p) => log[p].ref # ref BY <1>2 DEF NewUnlogged
<1>5. \A b \in Appender : pc[b] # "rollback" =>
          \A j \in DOMAIN newSeries[b] : newSeries[b][j].ref # ref
  BY <1>2 DEF NewFresh
<1> HIDE DEF ref
<1>6. LogBijective' BY <1>2 DEF LogBijective, SeriesRecord
<1>7. HeadUnique' BY <1>1, <1>2 DEF HeadUnique
<1>8. LoggedInHead'
  <2> SUFFICES ASSUME NEW p \in DOMAIN log, SeriesRecord(p)
               PROVE  InHead(log[p].ref, log[p].l)'
    BY DEF LoggedInHead, SeriesRecord
  <2> QED BY <1>2, <1>3, <1>4 DEF LoggedInHead
<1>9. HeadIsLogged' BY DEF HeadIsLogged
<1>10. NewInHead' BY <1>2, <1>3, <1>5 DEF NewInHead
<1>11. NewFresh' BY <1>1, <1>2 DEF NewFresh
<1>12. NewUnlogged' BY <1>2 DEF NewUnlogged, SeriesRecord
<1> QED BY <1>6, <1>7, <1>8, <1>9, <1>10, <1>11, <1>12

\* A series record names a series as the head does.
LEMMA SlotLogSeries ==
    ASSUME TypeInv, SlotInv, NEW a \in Appender, LogSeries(a)
    PROVE  SlotInv'
<1> DEFINE s == newSeries[a][idx[a]]
<1> DEFINE rec == [kind |-> "series", seg |-> NextSeg, ref |-> s.ref, l |-> s.l]
<1>1. /\ mode = "up" /\ mode' = "up" /\ series' = series /\ lastRef' = lastRef
      /\ newSeries' = newSeries /\ Put(rec) /\ lowWater' = lowWater /\ fails' = fails
      /\ AppTypeOK /\ WalTypeOK /\ pc[a] = "logSeries" /\ idx[a] \in DOMAIN newSeries[a]
  BY DEF LogSeries, Write, Goto, headVars, replayVars, TypeInv, AppTypeOK
<1>2. s \in NewSeries BY <1>1 DEF AppTypeOK
<1>3. rec \in Record
  BY <1>1, <1>2 DEF Record, SeriesRec, NewSeries, NextSeg, Segment, WalTypeOK
<1>4. rec.kind = "series" /\ rec.ref = s.ref /\ rec.l = s.l OBVIOUS
<1> HIDE DEF rec
<1>5. /\ log' = Append(log, rec) /\ log \in Seq(Record) /\ log'[Len(log) + 1] = rec
      /\ \A p \in DOMAIN log : log'[p] = log[p]
      /\ \A p \in DOMAIN log' : p \in DOMAIN log \/ p = Len(log) + 1
  BY <1>1, <1>3 DEF Put, WalTypeOK
<1>6. /\ pc'[a] \notin {"stage", "rollback"}
      /\ \A b \in Appender : b # a => pc'[b] = pc[b]
  <2>1. \E label \in {"logSeries", AfterSeries(a)} : \E i : Goto(a, label, i) BY DEF LogSeries
  <2> QED BY <1>1, <2>1, GotoApp DEF AfterSeries
<1> SUFFICES ASSUME Untouched
             PROVE  /\ LogBijective' /\ HeadUnique' /\ LoggedInHead' /\ HeadIsLogged'
                    /\ NewInHead' /\ NewFresh' /\ NewUnlogged'
  BY <1>1 DEF SlotInv, Untouched
<1>7. /\ LogBijective /\ HeadUnique /\ LoggedInHead /\ NewInHead /\ NewFresh /\ NewUnlogged
  BY DEF SlotInv
<1>8. InHead(s.ref, s.l) BY <1>1, <1>7 DEF NewInHead
<1>9. \A p \in DOMAIN log' : SeriesRecord(p)' => InHead(log'[p].ref, log'[p].l)
  <2> SUFFICES ASSUME NEW p \in DOMAIN log', SeriesRecord(p)'
               PROVE  InHead(log'[p].ref, log'[p].l)
    OBVIOUS
  <2>1. CASE p \in DOMAIN log BY <1>1, <1>5, <1>7, <2>1 DEF LoggedInHead, SeriesRecord
  <2>2. CASE p = Len(log) + 1 BY <1>4, <1>5, <1>8, <2>2
  <2> QED BY <1>5, <2>1, <2>2
<1> HIDE DEF s
<1>10. LogBijective' BY <1>7, <1>9 DEF LogBijective, HeadUnique, InHead
<1>11. LoggedInHead' BY <1>1, <1>9 DEF LoggedInHead, InHead
<1>12. HeadUnique' /\ HeadIsLogged' BY <1>1, <1>7 DEF HeadUnique, HeadIsLogged
<1>13. NewInHead' BY <1>1, <1>6, <1>7 DEF NewInHead, InHead
<1>14. NewFresh' BY <1>1, <1>7 DEF NewFresh
<1>15. NewUnlogged'
  <2> SUFFICES ASSUME NEW b \in Appender, pc'[b] \in {"stage", "rollback"},
                      NEW i \in DOMAIN newSeries[b], NEW p \in DOMAIN log', SeriesRecord(p)',
                      log'[p].ref = newSeries[b][i].ref
               PROVE  FALSE
    BY <1>1 DEF NewUnlogged
  <2>1. b # a /\ pc[b] \in {"stage", "rollback"} BY <1>6
  <2>2. CASE p \in DOMAIN log BY <1>5, <1>7, <2>1, <2>2 DEF NewUnlogged, SeriesRecord
  <2>3. CASE p = Len(log) + 1
    <3>1. newSeries[b][i].ref = newSeries[a][idx[a]].ref BY <1>4, <1>5, <2>3 DEF s
    <3> QED BY <1>1, <1>7, <2>1, <3>1 DEF NewFresh
  <2> QED BY <1>5, <2>2, <2>3
<1> QED BY <1>10, <1>11, <1>12, <1>13, <1>14, <1>15

\* A record that names no series is written, or none at all.
LEMMA SlotPut ==
    ASSUME TypeInv, NEW rec \in Record, rec.kind # "series", Put(rec)
    PROVE  /\ \A p \in DOMAIN log : p \in DOMAIN log' /\ log'[p] = log[p]
           /\ \A p \in DOMAIN log' : log'[p].kind = "series" => p \in DOMAIN log
<1>1. log' = Append(log, rec) /\ log \in Seq(Record) BY DEF Put, TypeInv, WalTypeOK
<1>2. /\ \A p \in DOMAIN log : p \in DOMAIN log' /\ log'[p] = log[p]
      /\ \A p \in DOMAIN log' : p \in DOMAIN log \/ log'[p] = rec
  BY <1>1
<1> QED BY <1>2

\* The process starts again, and the log is what it was or a part of it.
LEMMA SlotRestart ==
    ASSUME TypeInv, SlotInv, Restart,
           \A p \in DOMAIN log' : log'[p].kind = "series" => p \in DOMAIN log /\ log'[p] = log[p]
    PROVE  SlotInv'
<1>1. /\ DOMAIN series' = {} /\ mode' = "replay" /\ pos' = 1
      /\ \A a \in Appender : newSeries'[a] = <<>>
      /\ lowWater' = lowWater /\ fails' = fails
  BY DEF Restart
<1> SUFFICES ASSUME Untouched
             PROVE  /\ LogBijective' /\ HeadUnique' /\ LoggedInHead' /\ HeadIsLogged'
                    /\ NewInHead' /\ NewFresh' /\ NewUnlogged'
  BY <1>1 DEF SlotInv, Untouched
<1>2. LogBijective' BY DEF SlotInv, LogBijective, SeriesRecord
<1>3. HeadUnique' /\ HeadIsLogged' BY <1>1 DEF HeadUnique, HeadIsLogged
<1>4. LoggedInHead'
  <2> SUFFICES ASSUME NEW p \in DOMAIN log', SeriesRecord(p)', p < 1 PROVE FALSE
    BY <1>1 DEF LoggedInHead
  <2>1. p \in DOMAIN log /\ log \in Seq(Record) BY DEF SeriesRecord, TypeInv, WalTypeOK
  <2> QED BY <2>1
<1>5. NewInHead' /\ NewFresh' /\ NewUnlogged' BY <1>1 DEF NewInHead, NewFresh, NewUnlogged
<1> QED BY <1>2, <1>3, <1>4, <1>5

\* Between two batches nothing is said of created series.
LEMMA IdleNew ==
    ASSUME Idle' PROVE NewInHead' /\ NewFresh' /\ NewUnlogged'
BY DEF Idle, NewInHead, NewFresh, NewUnlogged

\* Replay reads a series record.
LEMMA SlotReplaySeries ==
    ASSUME TypeInv, DurableInv, SlotInv, ReplaySeries
    PROVE  SlotInv'
<1> DEFINE ref == log[pos].ref
<1> DEFINE lab == log[pos].l
<1>1. /\ mode = "replay" /\ mode' = "replay" /\ log' = log /\ pos' = pos + 1
      /\ lowWater' = lowWater /\ fails' = fails
      /\ HeadTypeOK /\ pos \in DOMAIN log /\ pos \in Nat /\ SeriesRecord(pos)
      /\ DOMAIN log \subseteq Nat
  BY DEF ReplaySeries, NextRecord, walVars, TypeInv, WalTypeOK, ReplayTypeOK, SeriesRecord
<1>2. Idle' BY DEF DurableInv, ReplaySeries, Idle, appVars
<1>3. AddSeriesWithRef(ref, lab) BY DEF ReplaySeries
<1> SUFFICES ASSUME Untouched
             PROVE  LogBijective' /\ HeadUnique' /\ LoggedInHead' /\ HeadIsLogged'
  BY <1>1, <1>2, IdleNew DEF SlotInv, Untouched
<1>4. LogBijective /\ HeadUnique /\ LoggedInHead /\ HeadIsLogged BY DEF SlotInv
<1>5. LogBijective' BY <1>1, <1>4 DEF LogBijective, SeriesRecord
\* What the record's label set and reference already stand for in the head.
<1>6. \A r \in DOMAIN series : series[r].labels = lab <=> r = ref
  <2> TAKE r \in DOMAIN series
  <2>1. PICK p \in DOMAIN log : SeriesAt(p, r, series[r].labels) BY <1>1, <1>4 DEF HeadIsLogged
  <2> QED BY <1>1, <1>4, <2>1 DEF LogBijective, SeriesAt, SeriesRecord
<1>7. /\ \A r \in DOMAIN series : r \in DOMAIN series' /\ series'[r].labels = series[r].labels
      /\ \A r \in DOMAIN series' : r \in DOMAIN series \/ r = ref
      /\ ref \in DOMAIN series' /\ series'[ref].labels = lab
  <2>1. CASE ref \in DOMAIN series BY <1>3, <1>6, <2>1 DEF AddSeriesWithRef, headVars
  <2>2. CASE ref \notin DOMAIN series BY <1>3, <2>2 DEF AddSeriesWithRef, Inserted
  <2> QED BY <2>1, <2>2
<1> HIDE DEF ref, lab
<1>8. HeadUnique' BY <1>4, <1>6, <1>7 DEF HeadUnique
<1>9. LoggedInHead'
  <2> SUFFICES ASSUME NEW p \in DOMAIN log, SeriesRecord(p), p < pos + 1
               PROVE  InNewHead(log[p].ref, log[p].l)
    BY <1>1 DEF LoggedInHead, InNewHead, InHead, SeriesRecord
  <2>1. CASE p < pos
    <3>1. InHead(log[p].ref, log[p].l) BY <1>4, <2>1 DEF LoggedInHead
    <3> QED BY <1>7, <3>1 DEF InHead, InNewHead
  <2>2. CASE p = pos BY <1>7, <2>2 DEF InNewHead, ref, lab
  <2> QED BY <1>1, <2>1, <2>2
<1>10. HeadIsLogged'
  <2> SUFFICES ASSUME NEW r \in DOMAIN series'
               PROVE  \E p \in DOMAIN log : p < pos + 1 /\ SeriesAt(p, r, series'[r].labels)
    BY <1>1 DEF HeadIsLogged, SeriesAt
  <2>1. CASE r \in DOMAIN series
    <3>1. PICK p \in DOMAIN log : p < pos /\ SeriesAt(p, r, series[r].labels)
      BY <1>1, <1>4, <2>1 DEF HeadIsLogged
    <3> QED BY <1>1, <1>7, <2>1, <3>1
  <2>2. CASE r = ref
    <3>1. SeriesAt(pos, r, series'[r].labels)
      BY <1>1, <1>7, <2>2 DEF SeriesAt, SeriesRecord, ref, lab
    <3> QED BY <1>1, <3>1
  <2> QED BY <1>7, <2>1, <2>2
<1> QED BY <1>5, <1>8, <1>9, <1>10

LEMMA SlotReplaySample ==
    ASSUME TypeInv, DurableInv, SlotInv, ReplaySample
    PROVE  SlotInv'
<1>1. /\ mode = "replay" /\ mode' = "replay" /\ log' = log /\ pos' \in {pos, pos + 1}
      /\ lowWater' = lowWater /\ fails' = fails
      /\ HeadTypeOK /\ pos \in DOMAIN log /\ pos \in Nat /\ ~SeriesRecord(pos)
      /\ DOMAIN log \subseteq Nat
  BY DEF ReplaySample, NextRecord, walVars, TypeInv, WalTypeOK, ReplayTypeOK, SeriesRecord
<1>2. Idle' BY DEF DurableInv, ReplaySample, Idle, appVars
<1>3. /\ DOMAIN series' = DOMAIN series
      /\ \A r \in DOMAIN series : series'[r].labels = series[r].labels
  BY <1>1, AppendSampleDomain DEF ReplaySample
<1> SUFFICES ASSUME Untouched
             PROVE  LogBijective' /\ HeadUnique' /\ LoggedInHead' /\ HeadIsLogged'
  BY <1>1, <1>2, IdleNew DEF SlotInv, Untouched
<1>4. LogBijective /\ HeadUnique /\ LoggedInHead /\ HeadIsLogged BY DEF SlotInv
<1>5. LogBijective' /\ HeadUnique' BY <1>1, <1>3, <1>4 DEF LogBijective, HeadUnique, SeriesRecord
<1>6. LoggedInHead'
  <2> SUFFICES ASSUME NEW p \in DOMAIN log, SeriesRecord(p), p < pos'
               PROVE  InHead(log[p].ref, log[p].l)
    BY <1>1, <1>3 DEF LoggedInHead, InHead, SeriesRecord
  <2>1. p # pos BY <1>1
  <2>2. p < pos BY <1>1, <2>1
  <2> QED BY <1>4, <2>2 DEF LoggedInHead
<1>7. HeadIsLogged'
  <2> SUFFICES ASSUME NEW r \in DOMAIN series
               PROVE  \E p \in DOMAIN log : p < pos' /\ SeriesAt(p, r, series[r].labels)
    BY <1>1, <1>3 DEF HeadIsLogged, SeriesAt
  <2>1. PICK p \in DOMAIN log : p < pos /\ SeriesAt(p, r, series[r].labels)
    BY <1>1, <1>4 DEF HeadIsLogged
  <2> QED BY <1>1, <2>1
<1> QED BY <1>5, <1>6, <1>7

\* Open returns: every record it keeps has been read.
LEMMA SlotOpened ==
    ASSUME TypeInv, DurableInv, SlotInv, mode = "replay", mode' = "up",
           UNCHANGED <<headVars, appVars, lowWater, fails>>,
           \A p \in DOMAIN log' : p < pos /\ p \in DOMAIN log /\ log'[p] = log[p]
    PROVE  SlotInv'
<1>1. series' = series /\ lastRef' = lastRef BY DEF headVars
<1>2. Idle' BY DEF DurableInv, Idle, appVars
<1> SUFFICES ASSUME Untouched
             PROVE  LogBijective' /\ HeadUnique' /\ LoggedInHead' /\ HeadIsLogged'
  BY <1>2, IdleNew DEF SlotInv, Untouched
<1>3. LogBijective /\ HeadUnique /\ LoggedInHead BY DEF SlotInv
<1>4. LogBijective' /\ HeadUnique' /\ HeadIsLogged'
  BY <1>1, <1>3 DEF LogBijective, HeadUnique, HeadIsLogged, SeriesRecord
<1>5. LoggedInHead' BY <1>1, <1>3 DEF LoggedInHead, SeriesRecord, InHead
<1> QED BY <1>4, <1>5

\* One step for each action.
LEMMA SlotNext ==
    ASSUME TypeInv, TypeInv', DurableInv, TornInv, RefsBelow, SlotInv, [Next]_vars
    PROVE  SlotInv'
<1>1. /\ HeadTypeOK /\ AppTypeOK /\ WalTypeOK /\ fails \in Nat /\ lowWater >= -1
      /\ pos \in Nat /\ DOMAIN log = 1 .. Len(log) /\ Len(log) \in Nat /\ lowWater \in Int
      /\ log \in Seq(Record)
  BY BoundsAssumption, MinTAssumption
  DEF TypeInv, HistTypeOK, SlotInv, WalTypeOK, ReplayTypeOK
<1>2. ASSUME NEW a \in Appender, NEW l \in Label, NEW t \in Time, NEW v \in Value,
             AppendOK(a, l, t, v)
      PROVE  SlotInv'
  <2>1. /\ mode = "up" /\ mode' = "up" /\ pc[a] = "stage"
        /\ UNCHANGED <<log, mode, pos, pc, lowWater, fails>>
    BY <1>2 DEF AppendOK, walVars, replayVars
  <2>2. CASE UNCHANGED headVars /\ UNCHANGED newSeries
    BY <1>1, <2>1, <2>2, SlotQuiet DEF headVars, Untouched
  <2>3. CASE /\ Created(l, lastRef + 1)
             /\ newSeries' = [newSeries EXCEPT ![a] = Append(@, [ref |-> lastRef + 1, l |-> l])]
    BY <2>1, <2>3, SlotCreated
  <2> QED BY <1>2, <2>2, <2>3 DEF AppendOK, Found
<1>3. ASSUME NEW a \in Appender, NEW l \in Label, AppendRejected(a, l) PROVE SlotInv'
  <2>1. /\ mode = "up" /\ mode' = "up" /\ log' = log /\ lowWater' = lowWater /\ fails' = fails
        /\ UNCHANGED headVars /\ pc[a] = "stage" /\ Goto(a, "rollback", 1)
    BY <1>3 DEF AppendRejected, TooManySeries, walVars, replayVars
  <2> QED BY <1>1, <2>1, GotoApp, SlotQuiet DEF headVars, Untouched
<1>4. ASSUME NEW a \in Appender, Rollback(a) PROVE SlotInv'
  <2>1. /\ mode = "up" /\ mode' = "up" /\ pc[a] = "rollback"
        /\ UNCHANGED <<log, mode, pos, lowWater, fails>>
    BY <1>4 DEF Rollback, walVars, replayVars
  <2>2. CASE /\ idx[a] <= Len(newSeries[a])
             /\ ReclaimIfEmpty(newSeries[a][idx[a]].ref) /\ Goto(a, "rollback", idx[a] + 1)
    <3>1. newSeries[a] \in Seq(NewSeries) /\ idx[a] \in Nat \ {0} BY <1>1 DEF AppTypeOK
    <3>2. idx[a] \in DOMAIN newSeries[a] BY <2>2, <3>1
    <3>3. newSeries' = newSeries /\ pc' = pc
      BY <1>1, <2>1, <2>2 DEF Goto, AppTypeOK
    <3> QED BY <2>1, <2>2, <3>2, <3>3, SlotReclaim
  <2>3. CASE Fresh(a) /\ UNCHANGED headVars
    BY <1>1, <2>1, <2>3, FreshApp, SlotQuiet DEF headVars, Untouched
  <2> QED BY <1>4, <2>2, <2>3 DEF Rollback
<1>5. ASSUME NEW a \in Appender, Commit(a) PROVE SlotInv'
  <2>1. /\ mode = "up" /\ mode' = "up" /\ log' = log /\ lowWater' = lowWater /\ fails' = fails
        /\ UNCHANGED headVars /\ pc[a] = "stage"
        /\ \E label : Goto(a, label, 1)
    BY <1>5 DEF Commit, walVars, replayVars
  <2> QED BY <1>1, <2>1, GotoApp, SlotQuiet DEF headVars, Untouched
<1>6. ASSUME NEW a \in Appender, LogSeries(a) PROVE SlotInv' BY <1>6, SlotLogSeries
<1>7. ASSUME NEW a \in Appender, LogSamples(a) PROVE SlotInv'
  <2> DEFINE rec == [kind |-> "samples", seg |-> NextSeg, samples |-> pending[a]]
  <2>1. /\ mode = "up" /\ mode' = "up" /\ lowWater' = lowWater /\ fails' = fails
        /\ UNCHANGED headVars /\ pc[a] = "logSamples" /\ Goto(a, "sync", 1) /\ Put(rec)
    BY <1>7 DEF LogSamples, Write, walVars, replayVars
  <2>2. rec \in Record
    BY <1>1 DEF Record, SamplesRec, NextSeg, Segment, WalTypeOK, AppTypeOK
  <2>3. rec.kind # "series" OBVIOUS
  <2> HIDE DEF rec
  <2>4. /\ \A p \in DOMAIN log : p \in DOMAIN log' /\ log'[p] = log[p]
        /\ \A p \in DOMAIN log' : log'[p].kind = "series" => p \in DOMAIN log
    BY <2>1, <2>2, <2>3, SlotPut
  <2> QED BY <1>1, <2>1, <2>4, GotoApp, SlotQuiet DEF headVars, Untouched
<1>8. ASSUME NEW a \in Appender, Sync(a) PROVE SlotInv'
  <2>1. /\ mode = "up" /\ mode' = "up" /\ log' = log /\ lowWater' = lowWater /\ fails' = fails
        /\ UNCHANGED headVars /\ pc[a] = "sync" /\ (Fresh(a) \/ Goto(a, "apply", 1))
    BY <1>8 DEF Sync, SyncOK, walVars, replayVars
  <2>2. CASE Fresh(a) BY <1>1, <2>1, <2>2, FreshApp, SlotQuiet DEF headVars, Untouched
  <2>3. CASE Goto(a, "apply", 1) BY <1>1, <2>1, <2>3, GotoApp, SlotQuiet DEF headVars, Untouched
  <2> QED BY <2>1, <2>2, <2>3
<1>9. ASSUME NEW a \in Appender, CommitFails(a) PROVE SlotInv'
  <2>1. /\ mode = "up" /\ mode' = "up" /\ lowWater' = lowWater
        /\ UNCHANGED headVars /\ Fresh(a)
        /\ (log' = log /\ fails' \in {fails, fails + 1}) \/ fails' = fails + 1
    BY <1>1, <1>9 DEF CommitFails, WriteFails, SyncFails, walVars, replayVars
  <2>2. CASE log' = log
    BY <1>1, <2>1, <2>2, FreshApp, SlotQuiet DEF headVars, Untouched
  <2>3. CASE log' # log
    <3>1. ~Untouched' BY <1>1, <2>1, <2>3 DEF Untouched
    <3> QED BY <1>1, <2>1, <3>1 DEF SlotInv
  <2> QED BY <2>2, <2>3
<1>10. ASSUME NEW a \in Appender, Apply(a) PROVE SlotInv'
  <2> DEFINE s == pending[a][idx[a]]
  <2>1. /\ mode = "up" /\ mode' = "up" /\ log' = log /\ lowWater' = lowWater /\ fails' = fails
        /\ AppendSample(s.ref, s.t, s.v) /\ pc[a] = "apply"
        /\ (Fresh(a) \/ Goto(a, "apply", idx[a] + 1))
    BY <1>10 DEF Apply, walVars, replayVars
  <2>2. /\ DOMAIN series' = DOMAIN series /\ lastRef' = lastRef
        /\ \A r \in DOMAIN series : series'[r].labels = series[r].labels
    BY <1>1, <2>1, AppendSampleDomain
  <2> HIDE DEF s
  <2>3. CASE Fresh(a) BY <1>1, <2>1, <2>2, <2>3, FreshApp, SlotQuiet DEF Untouched
  <2>4. CASE Goto(a, "apply", idx[a] + 1)
    BY <1>1, <2>1, <2>2, <2>4, GotoApp, SlotQuiet DEF Untouched
  <2> QED BY <2>1, <2>3, <2>4
<1>11. ASSUME NEW minT \in MinT, Truncate(minT) PROVE SlotInv'
  <2>1. lowWater' = minT /\ minT > lowWater /\ minT \in Int
    BY <1>11, MinTAssumption DEF Truncate
  <2>2. lowWater' >= -1 /\ lowWater' # -1 BY <1>1, <2>1
  <2> QED BY <2>2 DEF SlotInv, Untouched
<1>12. CASE Close
  <2>1. /\ mode = "up" /\ mode' = "up" /\ log' = log /\ lowWater' = lowWater /\ fails' = fails
        /\ UNCHANGED headVars /\ UNCHANGED appVars
    BY <1>12 DEF Close, replayVars
  <2> QED BY <1>1, <2>1, SlotQuiet DEF headVars, appVars, Untouched
<1>13. CASE Kill BY <1>13, SlotRestart DEF Kill
<1>14. CASE PowerLoss
  <2>1. PICK n \in 0 .. Len(log) :
              /\ \A p \in 1 .. n : log'[p] = log[p]
              /\ \/ DOMAIN log' = 1 .. n
                 \/ DOMAIN log' = 1 .. n + 1 /\ log'[n + 1].kind = "torn"
    BY <1>14, PowerLossLog
  <2>2. \A p \in DOMAIN log' : log'[p].kind = "series" => p \in DOMAIN log /\ log'[p] = log[p]
    <3> TAKE p \in DOMAIN log'
    <3>1. p \in 1 .. n \/ (p = n + 1 /\ log'[n + 1].kind = "torn") BY <1>1, <2>1
    <3>2. "torn" # "series" OBVIOUS
    <3> QED BY <1>1, <2>1, <3>1, <3>2
  <2>3. Restart BY <1>14 DEF PowerLoss
  <2> QED BY <2>2, <2>3, SlotRestart
<1>15. CASE ReplaySeries BY <1>15, SlotReplaySeries
<1>16. CASE ReplaySample BY <1>16, SlotReplaySample
<1>17. CASE ReplayTorn \/ ReplayCorrupt \/ ReplayDone
  <2>1. /\ mode = "replay" /\ mode' = "up" /\ UNCHANGED <<headVars, appVars, lowWater, fails>>
    BY <1>17 DEF ReplayTorn, ReplayCorrupt, ReplayDone, OpenDone
  <2>2. CASE fails = 0
    <3>1. TornLast BY <2>2 DEF TornInv
    <3>2. \A p \in DOMAIN log' : p < pos /\ p \in DOMAIN log /\ log'[p] = log[p]
      <4>1. CASE ReplayTorn
        <5>1. /\ pos = Len(log) /\ DOMAIN log' = 1 .. pos - 1
              /\ \A p \in 1 .. pos - 1 : log'[p] = log[p]
          BY <3>1, <4>1, TornCut
        <5> QED BY <1>1, <5>1
      <4>2. CASE ReplayDone
        <5>1. log' = log /\ pos > Len(log) BY <4>2 DEF ReplayDone, walVars
        <5> QED BY <1>1, <5>1
      <4> QED BY <1>17, <3>1, <4>1, <4>2, NoCorruption
    <3> QED BY <2>1, <3>2, SlotOpened
  <2>3. CASE fails # 0 BY <1>1, <2>1, <2>3 DEF SlotInv, Untouched
  <2> QED BY <2>2, <2>3
<1>18. CASE UNCHANGED vars
  <2>1. /\ series' = series /\ lastRef' = lastRef /\ log' = log /\ mode' = mode /\ pos' = pos
        /\ newSeries' = newSeries /\ pc' = pc /\ lowWater' = lowWater /\ fails' = fails
    BY <1>18 DEF vars, headVars, appVars, walVars, replayVars
  <2>2. /\ LogBijective' = LogBijective /\ HeadUnique' = HeadUnique
        /\ LoggedInHead' = LoggedInHead /\ HeadIsLogged' = HeadIsLogged
        /\ NewInHead' = NewInHead /\ NewFresh' = NewFresh /\ NewUnlogged' = NewUnlogged
    BY <2>1 DEF LogBijective, HeadUnique, LoggedInHead, HeadIsLogged, NewInHead, NewFresh,
                NewUnlogged, SeriesRecord, SeriesAt, InHead
  <2> QED BY <2>1, <2>2 DEF SlotInv, Untouched
<1> QED
  BY <1>2, <1>3, <1>4, <1>5, <1>6, <1>7, <1>8, <1>9, <1>10, <1>11, <1>12, <1>13,
     <1>14, <1>15, <1>16, <1>17, <1>18 DEF Next

\* Before a crash only Append adds a series, and it looks for its label set first.
LEMMA FirstNext ==
    ASSUME TypeInv, FirstUnique, [Next]_vars
    PROVE  FirstUnique'
<1>1. HeadTypeOK /\ crashes \in Nat BY BoundsAssumption DEF TypeInv, HistTypeOK
<1>2. CASE Kill \/ PowerLoss
  <2>1. crashes' = crashes + 1 BY <1>2 DEF Kill, PowerLoss, Restart
  <2> QED BY <1>1, <2>1 DEF FirstUnique
<1>3. CASE ReplaySeries \/ ReplaySample \/ ReplayTorn \/ ReplayCorrupt \/ ReplayDone
  BY <1>3 DEF ReplaySeries, ReplaySample, ReplayTorn, ReplayCorrupt, ReplayDone, FirstUnique
<1>4. ASSUME crashes' = crashes, mode' = mode,
             \A r \in DOMAIN series' : r \in DOMAIN series /\ series'[r].labels = series[r].labels
      PROVE  FirstUnique'
  BY <1>4 DEF FirstUnique, HeadUnique
<1>5. ASSUME NEW a \in Appender, NEW l \in Label, NEW t \in Time, NEW v \in Value,
             AppendOK(a, l, t, v)
      PROVE  FirstUnique'
  <2>1. crashes' = crashes /\ mode' = mode BY <1>5 DEF AppendOK, replayVars
  <2>2. CASE UNCHANGED headVars BY <1>4, <2>1, <2>2 DEF headVars
  <2>3. CASE Created(l, lastRef + 1)
    BY <2>1, <2>3 DEF FirstUnique, HeadUnique, Created, Inserted, RefsOf
  <2> QED BY <1>5, <2>2, <2>3 DEF AppendOK, Found
<1>6. ASSUME NEW a \in Appender, NEW l \in Label, AppendRejected(a, l) PROVE FirstUnique'
  BY <1>4, <1>6 DEF AppendRejected, TooManySeries, headVars, replayVars
<1>7. ASSUME NEW a \in Appender, Rollback(a) PROVE FirstUnique'
  BY <1>4, <1>7 DEF Rollback, ReclaimIfEmpty, Removed, headVars, replayVars
<1>8. ASSUME NEW a \in Appender,
             Commit(a) \/ LogSeries(a) \/ LogSamples(a) \/ Sync(a) \/ CommitFails(a)
      PROVE  FirstUnique'
  BY <1>4, <1>8 DEF Commit, LogSeries, LogSamples, Sync, CommitFails, headVars, replayVars
<1>9. ASSUME NEW a \in Appender, Apply(a) PROVE FirstUnique'
  BY <1>1, <1>4, <1>9, AppendSampleDomain DEF Apply, replayVars
<1>10. ASSUME NEW minT \in MinT, Truncate(minT) PROVE FirstUnique'
  BY <1>4, <1>10 DEF Truncate, TruncateHead, replayVars
<1>11. CASE Close \/ UNCHANGED vars
  BY <1>4, <1>11 DEF Close, vars, headVars, replayVars
<1> QED
  BY <1>2, <1>3, <1>5, <1>6, <1>7, <1>8, <1>9, <1>10, <1>11 DEF Next

(***************************************************************************)
(* The two properties.                                                     *)
(***************************************************************************)
SlotsInv == TypeInv /\ DurableInv /\ TornInv /\ RefsBelow /\ OwnedInv /\ SlotInv /\ FirstUnique

\* Two series of one label set need a Truncate, and then a restart that replays what it
\* dropped.
UniqueUnlessReplayed ==
    fails = 0 /\ (lowWater = -1 \/ crashes = 0) =>
        \A r, s \in DOMAIN series : series[r].labels = series[s].labels => r = s

LEMMA SlotsInvariant == Spec => []SlotsInv
<1>1. Init => SlotsInv
  BY TypeInvInit, DurableInit, TornInvInit, RefsBelowInit, OwnedInit, SlotInit DEF SlotsInv
<1>2. SlotsInv /\ [Next]_vars => SlotsInv'
  BY TypeInvNext, DurableNext, TornInvNext, RefsBelowNext, OwnedNext, SlotNext, FirstNext
  DEF SlotsInv
<1> QED BY <1>1, <1>2, PTL DEF Spec

\* A slot of the cardinality cap is never leaked by a batch, and, for every retention,
\* a label set has one series until a restart replays one that Truncate had dropped
\* (tsdb.go, Rollback; head.go, getOrCreateLimited, truncate; wal.go, Replay).
THEOREM SlotsKept == Spec => [](NoLeakedSlot /\ UniqueUnlessReplayed)
<1>1. SlotsInv => NoLeakedSlot BY OwnedImplies DEF SlotsInv
<1>2. SlotsInv => UniqueUnlessReplayed
  BY DEF SlotsInv, UniqueUnlessReplayed, SlotInv, FirstUnique, HeadUnique, Untouched
<1> QED BY <1>1, <1>2, SlotsInvariant, PTL

\* With retention switched off (main.go starts retentionLoop only when it is on) every
\* slot is held by one series that has samples, across crashes too.
THEOREM SlotsAreSound == ASSUME MinT = {} PROVE Spec => []SlotsSound
<1>1. SlotsInv => SlotsSound
  <2>1. SlotsInv => lowWater = -1 BY DEF SlotsInv, TypeInv, HistTypeOK
  <2> QED BY <2>1, OwnedImplies
        DEF SlotsInv, SlotsSound, UniqueLabels, SlotInv, HeadUnique, Untouched
<1> QED BY <1>1, SlotsInvariant, PTL

-----------------------------------------------------------------------------
(***************************************************************************)
(* CommittedSurvives, for a database that one goroutine writes to.  (With  *)
(* two, the run DB_commit_race shows how a batch is lost.)  The argument   *)
(* follows a batch from the log to the head and back: its samples record   *)
(* comes after the series records of its references, so replay finds the   *)
(* series it belongs to.                                                   *)
(***************************************************************************)
RefLogged(r, l) == \E q \in DOMAIN log : SeriesAt(q, r, l)
NamedBefore(p, r, l) == \E q \in DOMAIN log : q < p /\ SeriesAt(q, r, l)

\* Series (r, l) is one that a has created, and has yet to log or to roll back.
ToLog(a, r, l) ==
    /\ pc[a] \in {"stage", "logSeries", "rollback"}
    /\ \E j \in DOMAIN newSeries[a] :
         /\ newSeries[a][j].ref = r /\ newSeries[a][j].l = l
         /\ pc[a] \in {"logSeries", "rollback"} => idx[a] <= j

\* The record of a's batch, with the series it needs before it.
BatchAt(a, p) ==
    /\ p \in DOMAIN log /\ log[p].kind = "samples" /\ log[p].samples = pending[a]
    /\ \A i \in DOMAIN pending[a] : NamedBefore(p, pending[a][i].ref, pending[a][i].l)

\* A batch's references stand for the series its samples were staged for, ...
PendingHeld ==
    \A a \in Appender : pc[a] # "rollback" =>
        \A i \in DOMAIN pending[a] : InHead(pending[a][i].ref, pending[a][i].l)
\* ... the ones it applied hold their samples, and the ones it created none before.
AppliedHeld ==
    \A a \in Appender : pc[a] = "apply" =>
        \A i \in DOMAIN pending[a] : i < idx[a] =>
            pending[a][i].t \in DOMAIN series[pending[a][i].ref].samples
NewEmpty ==
    \A a \in Appender : pc[a] # "apply" =>
        \A j \in DOMAIN newSeries[a] : newSeries[a][j].ref \in DOMAIN series =>
            DOMAIN series[newSeries[a][j].ref].samples = {}
\* Where the batch is on its way through the log.
BatchLogged ==
    \A a \in Appender :
        /\ pc[a] = "apply" => \E p \in 1 .. synced : BatchAt(a, p)
        /\ file = "open" /\ pc[a] = "sync" /\ pending[a] # <<>> =>
             \E p \in DOMAIN log : BatchAt(a, p)
        /\ file = "open" /\ pc[a] \in {"stage", "logSeries", "logSamples"} =>
             \A i \in DOMAIN pending[a] :
                 \/ RefLogged(pending[a][i].ref, pending[a][i].l)
                 \/ ToLog(a, pending[a][i].ref, pending[a][i].l)
\* The log knows the series of the head, or is going to.
HeadKnown ==
    mode = "up" /\ file = "open" =>
        \A r \in DOMAIN series :
            \/ RefLogged(r, series[r].labels)
            \/ \E a \in Appender : ToLog(a, r, series[r].labels)
\* An acknowledged sample is on disk after its series, ...
AckedLogged ==
    \A s \in acked : \E p \in 1 .. synced :
        /\ log[p].kind = "samples"
        /\ \E i \in DOMAIN log[p].samples :
             /\ log[p].samples[i].l = s.l /\ log[p].samples[i].t = s.t
             /\ NamedBefore(p, log[p].samples[i].ref, s.l)
\* ... and replay has put into the head what it read of this kind.
ReplayHeld ==
    mode = "replay" =>
        \A p \in DOMAIN log : log[p].kind = "samples" =>
            \A i \in DOMAIN log[p].samples :
                p < pos \/ (p = pos /\ i < sub) =>
                    \A l \in Label : NamedBefore(p, log[p].samples[i].ref, l) =>
                        log[p].samples[i].t \in DOMAIN series[log[p].samples[i].ref].samples
AckedHeld ==
    mode = "up" => \A s \in acked : s.t >= lowWater => Holds(s)

Held ==
    /\ PendingHeld /\ AppliedHeld /\ NewEmpty
    /\ BatchLogged /\ HeadKnown
    /\ AckedLogged /\ ReplayHeld /\ AckedHeld

DurabilityInv == fails = 0 => Held

\* The head keeps what it has: its series, their label sets and their samples.
HeadKeeps ==
    \A r \in DOMAIN series :
        /\ r \in DOMAIN series' /\ series'[r].labels = series[r].labels
        /\ DOMAIN series[r].samples \subseteq DOMAIN series'[r].samples

LEMMA AppendSampleKeepsHead ==
    ASSUME HeadTypeOK, NEW ref, NEW t, NEW v, AppendSample(ref, t, v)
    PROVE  /\ HeadKeeps
           /\ ref \in DOMAIN series => t \in DOMAIN series'[ref].samples
<1>1. \A r \in DOMAIN series : \A u \in DOMAIN series[r].samples : Kept(r, u)
  BY AppendSampleKeeps
<1>2. HeadKeeps BY <1>1, AppendSampleDomain DEF HeadKeeps, Kept
<1>3. t \in DOMAIN WithSample(series[ref].samples, t, v) BY DEF WithSample
<1> QED BY <1>2, <1>3, AppendSampleDomain

\* The log after the step begins with the log before it, up to a torn end.
LogKeeps(n) ==
    \A p \in DOMAIN log : p <= n /\ log[p].kind # "torn" =>
        p \in DOMAIN log' /\ log'[p] = log[p]

\* NamedBefore, of the log after the step.
NewNamedBefore(p, r, l) ==
    \E q \in DOMAIN log' :
        q < p /\ log'[q].kind = "series" /\ log'[q].ref = r /\ log'[q].l = l

LEMMA RefLoggedKept ==
    ASSUME TypeInv, LogKeeps(Len(log)), NEW r, NEW l, RefLogged(r, l)
    PROVE  RefLogged(r, l)'
<1>1. PICK q \in DOMAIN log : SeriesAt(q, r, l) BY DEF RefLogged
<1>2. q <= Len(log) BY DEF TypeInv, WalTypeOK
<1>3. q \in DOMAIN log' /\ SeriesAt(q, r, l)' BY <1>1, <1>2 DEF LogKeeps, SeriesAt
<1> QED BY <1>3 DEF RefLogged

LEMMA NamedBeforeKept ==
    ASSUME TypeInv, NEW n \in Nat, LogKeeps(n), NEW p \in DOMAIN log, p <= n,
           NEW r, NEW l, NamedBefore(p, r, l)
    PROVE  NewNamedBefore(p, r, l)
<1>1. PICK q \in DOMAIN log : q < p /\ SeriesAt(q, r, l) BY DEF NamedBefore
<1>2. q <= n BY <1>1 DEF TypeInv, WalTypeOK
<1> QED BY <1>1, <1>2 DEF LogKeeps, SeriesAt, NewNamedBefore

LEMMA AckedLoggedKept ==
    ASSUME TypeInv, TypeInv', AckedLogged, LogKeeps(synced), acked' = acked,
           \A p \in 1 .. synced : log[p].kind # "torn" => p <= synced'
    PROVE  AckedLogged'
<1>1. /\ synced \in Nat /\ synced <= Len(log) /\ DOMAIN log = 1 .. Len(log) /\ Len(log) \in Nat
      /\ synced' \in Nat
  BY DEF TypeInv, WalTypeOK
<1> SUFFICES ASSUME NEW s \in acked
             PROVE  \E p \in 1 .. synced' :
                        /\ log'[p].kind = "samples"
                        /\ \E i \in DOMAIN log'[p].samples :
                             /\ log'[p].samples[i].l = s.l /\ log'[p].samples[i].t = s.t
                             /\ NewNamedBefore(p, log'[p].samples[i].ref, s.l)
  BY DEF AckedLogged, NamedBefore, NewNamedBefore, SeriesAt
<1>2. PICK p \in 1 .. synced :
        /\ log[p].kind = "samples"
        /\ \E i \in DOMAIN log[p].samples :
             /\ log[p].samples[i].l = s.l /\ log[p].samples[i].t = s.t
             /\ NamedBefore(p, log[p].samples[i].ref, s.l)
  BY DEF AckedLogged
<1>3. PICK i \in DOMAIN log[p].samples :
             /\ log[p].samples[i].l = s.l /\ log[p].samples[i].t = s.t
             /\ NamedBefore(p, log[p].samples[i].ref, s.l)
  BY <1>2
<1>4. p \in DOMAIN log' /\ log'[p] = log[p] /\ p \in 1 .. synced'
  BY <1>1, <1>2 DEF LogKeeps
<1>5. NewNamedBefore(p, log[p].samples[i].ref, s.l) BY <1>1, <1>3, NamedBeforeKept
<1> QED BY <1>2, <1>3, <1>4, <1>5

LEMMA AckedHeldKept ==
    ASSUME AckedHeld, mode = "up", acked' = acked, lowWater' = lowWater,
           \A r \in DOMAIN series : DOMAIN series[r].samples # {} =>
               /\ r \in DOMAIN series' /\ series'[r].labels = series[r].labels
               /\ DOMAIN series[r].samples \subseteq DOMAIN series'[r].samples
    PROVE  AckedHeld'
<1> SUFFICES ASSUME NEW s \in acked, s.t >= lowWater
             PROVE  \E r \in DOMAIN series' :
                        series'[r].labels = s.l /\ s.t \in DOMAIN series'[r].samples
  BY DEF AckedHeld, Holds, RefsOf
<1>1. PICK r \in DOMAIN series : series[r].labels = s.l /\ s.t \in DOMAIN series[r].samples
  BY DEF AckedHeld, Holds, RefsOf
<1> QED BY <1>1

\* What a step between two batches, or of the log only, leaves alone.
LEMMA HeldQuiet ==
    ASSUME TypeInv, TypeInv', Held, mode = "up", mode' = "up", HeadKeeps, LogKeeps(Len(log)),
           acked' = acked, lowWater' = lowWater, synced <= synced'
    PROVE  AckedLogged' /\ ReplayHeld' /\ AckedHeld'
<1>1. synced \in Nat /\ synced' \in Nat /\ synced <= Len(log) /\ Len(log) \in Nat
      /\ DOMAIN log = 1 .. Len(log)
  BY DEF TypeInv, WalTypeOK
<1>2. LogKeeps(synced) BY <1>1 DEF LogKeeps
<1>3. AckedLogged' BY <1>1, <1>2, AckedLoggedKept DEF Held
<1>4. AckedHeld' BY AckedHeldKept DEF Held, HeadKeeps
<1>5. ReplayHeld' BY DEF ReplayHeld
<1> QED BY <1>3, <1>4, <1>5

\* ToLog, InHead and RefLogged after the step.
NewToLog(a, r, l) ==
    /\ pc'[a] \in {"stage", "logSeries", "rollback"}
    /\ \E j \in DOMAIN newSeries'[a] :
         /\ newSeries'[a][j].ref = r /\ newSeries'[a][j].l = l
         /\ pc'[a] \in {"logSeries", "rollback"} => idx'[a] <= j
NewRefLogged(r, l) ==
    \E q \in DOMAIN log' : log'[q].kind = "series" /\ log'[q].ref = r /\ log'[q].l = l

\* The parts of Held that a database in use has to keep, for its only writer a.
LEMMA HeldByOne ==
    ASSUME NEW a \in Appender, \A b \in Appender : b = a,
           pc'[a] # "rollback" =>
               \A i \in DOMAIN pending'[a] : InNewHead(pending'[a][i].ref, pending'[a][i].l),
           pc'[a] = "apply" =>
               \A i \in DOMAIN pending'[a] : i < idx'[a] =>
                   pending'[a][i].t \in DOMAIN series'[pending'[a][i].ref].samples,
           pc'[a] # "apply" =>
               \A j \in DOMAIN newSeries'[a] : newSeries'[a][j].ref \in DOMAIN series' =>
                   DOMAIN series'[newSeries'[a][j].ref].samples = {}
    PROVE  PendingHeld' /\ AppliedHeld' /\ NewEmpty'
BY DEF PendingHeld, AppliedHeld, NewEmpty, InHead, InNewHead

LEMMA KnownByOne ==
    ASSUME NEW a \in Appender, \A b \in Appender : b = a,
           file' = "open" => \A r \in DOMAIN series' :
               NewRefLogged(r, series'[r].labels) \/ NewToLog(a, r, series'[r].labels)
    PROVE  HeadKnown'
BY DEF HeadKnown, RefLogged, NewRefLogged, SeriesAt, ToLog, NewToLog

LEMMA LoggedByOne ==
    ASSUME NEW a \in Appender, \A b \in Appender : b = a,
           pc'[a] # "apply", ~(file' = "open" /\ pc'[a] = "sync" /\ pending'[a] # <<>>),
           file' = "open" /\ pc'[a] \in {"stage", "logSeries", "logSamples"} =>
             \A i \in DOMAIN pending'[a] :
                 \/ NewRefLogged(pending'[a][i].ref, pending'[a][i].l)
                 \/ NewToLog(a, pending'[a][i].ref, pending'[a][i].l)
    PROVE  BatchLogged'
BY DEF BatchLogged, RefLogged, NewRefLogged, SeriesAt, ToLog, NewToLog

LEMMA RefLoggedSame ==
    ASSUME log' = log, NEW r, NEW l, RefLogged(r, l)
    PROVE  NewRefLogged(r, l)
BY DEF RefLogged, SeriesAt, NewRefLogged

\* Append finds a series: the log knows it, or this batch is going to log it.
LEMMA HeldFound ==
    ASSUME TypeInv, TypeInv', Held, NEW a \in Appender, \A b \in Appender : b = a,
           NEW l \in Label, NEW t \in Time, NEW v \in Value, NEW r \in RefsOf(l),
           mode = "up", pc[a] = "stage", Stage(a, r, l, t, v),
           UNCHANGED <<headVars, newSeries, pc, idx, walVars, replayVars, lowWater, acked>>
    PROVE  Held'
<1> DEFINE s == [ref |-> r, l |-> l, t |-> t, v |-> v]
<1>1. /\ AppTypeOK /\ series' = series /\ log' = log /\ file' = file /\ synced' = synced
      /\ mode' = "up" /\ pc' = pc /\ newSeries' = newSeries /\ idx' = idx
  BY DEF TypeInv, headVars, walVars, replayVars
<1>2. /\ pending[a] \in Seq(Staged) /\ pending'[a] = Append(pending[a], s)
  BY <1>1 DEF Stage, AppTypeOK
<1>3. \A i \in DOMAIN pending'[a] : \/ i \in DOMAIN pending[a] /\ pending'[a][i] = pending[a][i]
                                    \/ pending'[a][i].ref = r /\ pending'[a][i].l = l
  BY <1>2
<1> HIDE DEF s
<1>4. HeadKeeps /\ LogKeeps(Len(log)) BY <1>1 DEF HeadKeeps, LogKeeps
<1>5. AckedLogged' /\ ReplayHeld' /\ AckedHeld'
  BY <1>1, <1>4, HeldQuiet DEF TypeInv, WalTypeOK
<1>6. InNewHead(r, l) BY <1>1 DEF RefsOf, InNewHead
<1>7. \A q, k : ToLog(a, q, k) => NewToLog(a, q, k) BY <1>1 DEF ToLog, NewToLog
<1>8. file = "open" => \A q \in DOMAIN series :
          NewRefLogged(q, series[q].labels) \/ NewToLog(a, q, series[q].labels)
  BY <1>1, <1>7, RefLoggedSame DEF Held, HeadKnown
<1>9. HeadKnown' BY <1>1, <1>8, KnownByOne
<1>10. BatchLogged'
  <2> SUFFICES ASSUME file = "open", NEW i \in DOMAIN pending'[a]
               PROVE  \/ NewRefLogged(pending'[a][i].ref, pending'[a][i].l)
                      \/ NewToLog(a, pending'[a][i].ref, pending'[a][i].l)
    BY <1>1, LoggedByOne
  <2>1. CASE i \in DOMAIN pending[a] /\ pending'[a][i] = pending[a][i]
    BY <1>1, <1>7, <2>1, RefLoggedSame DEF Held, BatchLogged
  <2>2. CASE pending'[a][i].ref = r /\ pending'[a][i].l = l
    BY <1>1, <1>8, <2>2 DEF RefsOf
  <2> QED BY <1>3, <2>1, <2>2
<1>11. PendingHeld' /\ AppliedHeld' /\ NewEmpty'
  <2>1. \A i \in DOMAIN pending'[a] : InNewHead(pending'[a][i].ref, pending'[a][i].l)
    <3> TAKE i \in DOMAIN pending'[a]
    <3>1. CASE i \in DOMAIN pending[a] /\ pending'[a][i] = pending[a][i]
      BY <1>1, <3>1 DEF Held, PendingHeld, InHead, InNewHead
    <3> QED BY <1>3, <1>6, <3>1
  <2> QED BY <1>1, <2>1, HeldByOne DEF Held, NewEmpty
<1> QED BY <1>5, <1>9, <1>10, <1>11 DEF Held

\* Append creates a series, which this batch is going to log.
LEMMA HeldCreated ==
    ASSUME TypeInv, TypeInv', RefsBelow, NewFresh, Held, NEW a \in Appender, \A b \in Appender : b = a,
           NEW l \in Label, NEW t \in Time, NEW v \in Value,
           mode = "up", pc[a] = "stage", Created(l, lastRef + 1), Stage(a, lastRef + 1, l, t, v),
           newSeries' = [newSeries EXCEPT ![a] = Append(@, [ref |-> lastRef + 1, l |-> l])],
           UNCHANGED <<pc, idx, walVars, replayVars, lowWater, acked>>
    PROVE  Held'
<1> DEFINE ref == lastRef + 1
           s == [ref |-> ref, l |-> l, t |-> t, v |-> v]
           n == [ref |-> ref, l |-> l]
<1>1. /\ HeadTypeOK /\ AppTypeOK /\ log' = log /\ file' = file /\ synced' = synced
      /\ mode' = "up" /\ pc' = pc /\ idx' = idx /\ lastRef \in Nat
  BY DEF TypeInv, HeadTypeOK, walVars, replayVars
<1>2. /\ pending[a] \in Seq(Staged) /\ pending'[a] = Append(pending[a], s)
      /\ newSeries[a] \in Seq(NewSeries) /\ newSeries'[a] = Append(newSeries[a], n)
  BY <1>1 DEF Stage, AppTypeOK
<1>3. \A i \in DOMAIN pending'[a] : \/ i \in DOMAIN pending[a] /\ pending'[a][i] = pending[a][i]
                                    \/ pending'[a][i].ref = ref /\ pending'[a][i].l = l
  BY <1>2
<1>4. /\ \A i \in DOMAIN newSeries'[a] : \/ i \in DOMAIN newSeries[a]
                                         \/ newSeries'[a][i].ref = ref
      /\ \A i \in DOMAIN newSeries[a] : i \in DOMAIN newSeries'[a]
                                        /\ newSeries'[a][i] = newSeries[a][i]
      /\ \E i \in DOMAIN newSeries'[a] : newSeries'[a][i].ref = ref /\ newSeries'[a][i].l = l
  <2>1. Len(newSeries[a]) + 1 \in DOMAIN newSeries'[a]
        /\ newSeries'[a][Len(newSeries[a]) + 1] = n
    BY <1>2
  <2> QED BY <1>2, <2>1
<1>5. /\ ref \notin DOMAIN series /\ DOMAIN series' = DOMAIN series \cup {ref}
      /\ series'[ref].labels = l /\ DOMAIN series'[ref].samples = {}
      /\ \A r \in DOMAIN series : series'[r] = series[r]
  BY <1>1, RefsBelowCreated DEF Created, Inserted, NoSamples
<1>6. \A i \in DOMAIN newSeries[a] : newSeries[a][i].ref # ref
  <2> TAKE i \in DOMAIN newSeries[a]
  <2>1. newSeries[a][i] \in NewSeries BY <1>2
  <2>2. newSeries[a][i].ref \in Nat /\ newSeries[a][i].ref <= lastRef
    BY <2>1 DEF NewFresh, NewSeries, Ref
  <2> QED BY <1>1, <2>2
<1> HIDE DEF s, n, ref
<1>7. HeadKeeps /\ LogKeeps(Len(log)) BY <1>1, <1>5 DEF HeadKeeps, LogKeeps
<1>8. AckedLogged' /\ ReplayHeld' /\ AckedHeld'
  BY <1>1, <1>7, HeldQuiet DEF TypeInv, WalTypeOK
<1>9. \A q, k : ToLog(a, q, k) => NewToLog(a, q, k) BY <1>1, <1>4 DEF ToLog, NewToLog
<1>10. NewToLog(a, ref, l) BY <1>1, <1>4 DEF NewToLog
<1>11. HeadKnown'
  <2>1. file = "open" => \A q \in DOMAIN series :
            NewRefLogged(q, series[q].labels) \/ NewToLog(a, q, series[q].labels)
    BY <1>1, <1>9, RefLoggedSame DEF Held, HeadKnown
  <2> QED BY <1>1, <1>5, <1>10, <2>1, KnownByOne
<1>12. BatchLogged'
  <2> SUFFICES ASSUME file = "open", NEW i \in DOMAIN pending'[a]
               PROVE  \/ NewRefLogged(pending'[a][i].ref, pending'[a][i].l)
                      \/ NewToLog(a, pending'[a][i].ref, pending'[a][i].l)
    BY <1>1, LoggedByOne
  <2>1. CASE i \in DOMAIN pending[a] /\ pending'[a][i] = pending[a][i]
    BY <1>1, <1>9, <2>1, RefLoggedSame DEF Held, BatchLogged
  <2>2. CASE pending'[a][i].ref = ref /\ pending'[a][i].l = l BY <1>10, <2>2
  <2> QED BY <1>3, <2>1, <2>2
<1>13. PendingHeld' /\ AppliedHeld' /\ NewEmpty'
  <2>1. \A i \in DOMAIN pending'[a] : InNewHead(pending'[a][i].ref, pending'[a][i].l)
    <3> TAKE i \in DOMAIN pending'[a]
    <3>1. CASE i \in DOMAIN pending[a] /\ pending'[a][i] = pending[a][i]
      BY <1>1, <1>5, <3>1 DEF Held, PendingHeld, InHead, InNewHead
    <3>2. CASE pending'[a][i].ref = ref /\ pending'[a][i].l = l BY <1>5, <3>2 DEF InNewHead
    <3> QED BY <1>3, <3>1, <3>2
  <2>2. \A j \in DOMAIN newSeries'[a] : newSeries'[a][j].ref \in DOMAIN series' =>
            DOMAIN series'[newSeries'[a][j].ref].samples = {}
    <3> SUFFICES ASSUME NEW j \in DOMAIN newSeries'[a], newSeries'[a][j].ref \in DOMAIN series'
                 PROVE  DOMAIN series'[newSeries'[a][j].ref].samples = {}
      OBVIOUS
    <3>1. CASE newSeries'[a][j].ref = ref BY <1>5, <3>1
    <3>2. CASE newSeries'[a][j].ref # ref BY <1>1, <1>4, <1>5, <3>2 DEF Held, NewEmpty
    <3> QED BY <3>1, <3>2
  <2> QED BY <1>1, <2>1, <2>2, HeldByOne
<1> QED BY <1>8, <1>11, <1>12, <1>13 DEF Held

\* A step of a's own that changes neither the head nor the log nor the batch.
LEMMA HeldGoto ==
    ASSUME TypeInv, TypeInv', Held, NEW a \in Appender, \A b \in Appender : b = a,
           mode = "up", pc[a] = "stage", NEW label, Goto(a, label, 1),
           \/ label = "rollback"
           \/ label = IF newSeries[a] = <<>> THEN AfterSeries(a) ELSE "logSeries",
           UNCHANGED <<headVars, walVars, replayVars, lowWater, acked>>
    PROVE  Held'
<1>1. /\ AppTypeOK /\ series' = series /\ log' = log /\ file' = file /\ synced' = synced
      /\ mode' = "up" /\ pc'[a] = label /\ idx'[a] = 1
      /\ newSeries' = newSeries /\ pending' = pending
  BY GotoApp DEF TypeInv, headVars, walVars, replayVars
<1>2. label \in {"rollback", "logSeries", "logSamples", "sync"} BY DEF AfterSeries
<1>3. HeadKeeps /\ LogKeeps(Len(log)) BY <1>1 DEF HeadKeeps, LogKeeps
<1>4. AckedLogged' /\ ReplayHeld' /\ AckedHeld'
  BY <1>1, <1>3, HeldQuiet DEF TypeInv, WalTypeOK
<1>5. ASSUME NEW r, NEW k, ToLog(a, r, k) PROVE NewToLog(a, r, k)
  <2>1. PICK j \in DOMAIN newSeries[a] : newSeries[a][j].ref = r /\ newSeries[a][j].l = k
    BY <1>5 DEF ToLog
  <2>2. newSeries[a] \in Seq(NewSeries) BY <1>1 DEF AppTypeOK
  <2>3. 1 <= j /\ newSeries[a] # <<>> BY <2>1, <2>2
  <2> QED BY <1>1, <2>1, <2>3 DEF NewToLog
<1>6. HeadKnown' BY <1>1, <1>5, RefLoggedSame, KnownByOne DEF Held, HeadKnown
<1>7. BatchLogged'
  <2>1. file = "open" => \A i \in DOMAIN pending[a] :
            \/ NewRefLogged(pending[a][i].ref, pending[a][i].l)
            \/ NewToLog(a, pending[a][i].ref, pending[a][i].l)
    BY <1>1, <1>5, RefLoggedSame DEF Held, BatchLogged
  <2>2. label = "sync" => pending[a] = <<>> BY DEF AfterSeries
  <2> QED BY <1>1, <1>2, <2>1, <2>2, LoggedByOne
<1>8. PendingHeld' /\ AppliedHeld' /\ NewEmpty'
  BY <1>1, <1>2, HeldByOne DEF Held, PendingHeld, NewEmpty, InHead, InNewHead
<1> QED BY <1>4, <1>6, <1>7, <1>8 DEF Held

\* a goes on with an empty batch; of the old one nothing is left to log.
LEMMA HeldFresh ==
    ASSUME TypeInv, TypeInv', Held, NEW a \in Appender, \A b \in Appender : b = a,
           mode = "up", Fresh(a), UNCHANGED <<headVars, log, replayVars, lowWater, acked>>,
           synced <= synced',
           file' = "open" => file = "open" /\ \A r, l : ~ToLog(a, r, l)
    PROVE  Held'
<1>1. /\ AppTypeOK /\ series' = series /\ log' = log /\ mode' = "up"
      /\ pc'[a] = "stage" /\ newSeries'[a] = <<>> /\ pending'[a] = <<>>
  BY FreshApp DEF TypeInv, headVars, replayVars
<1>2. HeadKeeps /\ LogKeeps(Len(log)) BY <1>1 DEF HeadKeeps, LogKeeps
<1>3. AckedLogged' /\ ReplayHeld' /\ AckedHeld' BY <1>1, <1>2, HeldQuiet
<1>4. HeadKnown' BY <1>1, RefLoggedSame, KnownByOne DEF Held, HeadKnown
<1>5. BatchLogged' BY <1>1, LoggedByOne
<1>6. PendingHeld' /\ AppliedHeld' /\ NewEmpty' BY <1>1, HeldByOne
<1> QED BY <1>3, <1>4, <1>5, <1>6 DEF Held

\* Rollback gives back a series that holds no sample.
LEMMA HeldReclaim ==
    ASSUME TypeInv, TypeInv', Held, NEW a \in Appender, \A b \in Appender : b = a,
           mode = "up", pc[a] = "rollback", idx[a] \in DOMAIN newSeries[a],
           ReclaimIfEmpty(newSeries[a][idx[a]].ref), Goto(a, "rollback", idx[a] + 1),
           UNCHANGED <<walVars, replayVars, lowWater, acked>>
    PROVE  Held'
<1> DEFINE ref == newSeries[a][idx[a]].ref
<1>1. /\ AppTypeOK /\ log' = log /\ file' = file /\ synced' = synced
      /\ mode' = "up" /\ pc'[a] = "rollback" /\ idx'[a] = idx[a] + 1
      /\ newSeries' = newSeries /\ pending' = pending /\ synced \in Nat /\ synced <= Len(log)
  BY GotoApp DEF TypeInv, WalTypeOK, walVars, replayVars
<1>2. ref \in DOMAIN series => DOMAIN series[ref].samples = {} BY DEF Held, NewEmpty
<1>3. /\ \A r \in DOMAIN series' : r \in DOMAIN series /\ series'[r] = series[r] /\ r # ref
      /\ \A r \in DOMAIN series : r # ref => r \in DOMAIN series' /\ series'[r] = series[r]
  BY <1>2 DEF ReclaimIfEmpty, Removed
<1>4. AckedHeld' BY <1>1, <1>2, <1>3, AckedHeldKept DEF Held
<1>5. LogKeeps(synced) BY <1>1 DEF LogKeeps
<1>6. AckedLogged' BY <1>1, <1>5, AckedLoggedKept DEF Held
<1>7. ASSUME NEW r, NEW k, r # ref, ToLog(a, r, k) PROVE NewToLog(a, r, k)
  <2>1. PICK j \in DOMAIN newSeries[a] :
            newSeries[a][j].ref = r /\ newSeries[a][j].l = k /\ idx[a] <= j
    BY <1>7 DEF ToLog
  <2>2. newSeries[a] \in Seq(NewSeries) /\ idx[a] \in Nat BY <1>1 DEF AppTypeOK
  <2>3. idx[a] + 1 <= j BY <1>7, <2>1, <2>2
  <2> QED BY <1>1, <2>1, <2>3 DEF NewToLog
<1>8. HeadKnown'
  <2> SUFFICES ASSUME file = "open", NEW r \in DOMAIN series'
               PROVE  NewRefLogged(r, series'[r].labels) \/ NewToLog(a, r, series'[r].labels)
    BY <1>1, KnownByOne
  <2> HIDE DEF ref
  <2> QED BY <1>1, <1>3, <1>7, RefLoggedSame DEF Held, HeadKnown
<1>9. BatchLogged' BY <1>1, LoggedByOne
<1>10. PendingHeld' /\ AppliedHeld' /\ NewEmpty'
  BY <1>1, <1>3, HeldByOne DEF Held, NewEmpty
<1>11. ReplayHeld' BY <1>1 DEF ReplayHeld
<1> QED BY <1>4, <1>6, <1>8, <1>9, <1>10, <1>11 DEF Held

\* logSeries: one series less to log.
LEMMA HeldLogSeries ==
    ASSUME TypeInv, TypeInv', Held, NEW a \in Appender, \A b \in Appender : b = a, LogSeries(a),
           lowWater' = lowWater, acked' = acked
    PROVE  Held'
<1> DEFINE n == newSeries[a][idx[a]]
           rec == [kind |-> "series", seg |-> NextSeg, ref |-> n.ref, l |-> n.l]
           next == IF idx[a] < Len(newSeries[a]) THEN "logSeries" ELSE AfterSeries(a)
           i2 == IF idx[a] < Len(newSeries[a]) THEN idx[a] + 1 ELSE 1
<1>1. /\ HeadTypeOK /\ AppTypeOK /\ WalTypeOK /\ WalTypeOK' /\ series' = series /\ file = "open"
      /\ file' = "open" /\ mode = "up" /\ mode' = "up" /\ pc[a] = "logSeries" /\ Put(rec)
      /\ Goto(a, next, i2)
      /\ newSeries[a] \in Seq(NewSeries) /\ idx[a] \in Nat \ {0} /\ Len(log) \in Nat
  BY DEF LogSeries, Write, Put, TypeInv, WalTypeOK, AppTypeOK, headVars, replayVars
<1>2. next \in {"logSeries", "logSamples", "sync"} /\ (next = "sync" => pending[a] = <<>>)
  BY DEF AfterSeries
<1>3. pc'[a] = next /\ idx'[a] = i2 /\ newSeries' = newSeries /\ pending' = pending
  BY <1>1, GotoApp
<1>4. idx[a] \in DOMAIN newSeries[a] => n \in NewSeries BY <1>1
<1>5. log' = Append(log, rec) /\ log \in Seq(Record) BY <1>1 DEF Put, WalTypeOK
<1>6. /\ \A p \in DOMAIN log : p \in DOMAIN log' /\ log'[p] = log[p]
      /\ Len(log) + 1 \in DOMAIN log' /\ log'[Len(log) + 1] = rec
  BY <1>5
<1>7. synced <= synced' BY <1>1 DEF Put, WalTypeOK
<1>8. HeadKeeps /\ LogKeeps(Len(log)) BY <1>1, <1>6 DEF HeadKeeps, LogKeeps
<1>9. AckedLogged' /\ ReplayHeld' /\ AckedHeld' BY <1>1, <1>7, <1>8, HeldQuiet
<1>10. \A r, k : RefLogged(r, k) => NewRefLogged(r, k)
  BY <1>6 DEF RefLogged, NewRefLogged, SeriesAt
<1>11. NewRefLogged(n.ref, n.l) BY <1>6 DEF NewRefLogged
<1>12. ASSUME NEW r, NEW k, ToLog(a, r, k) PROVE NewRefLogged(r, k) \/ NewToLog(a, r, k)
  <2>1. PICK j \in DOMAIN newSeries[a] :
            newSeries[a][j].ref = r /\ newSeries[a][j].l = k /\ idx[a] <= j
    BY <1>1, <1>12 DEF ToLog
  <2>2. CASE j = idx[a] BY <1>11, <2>1, <2>2
  <2>3. CASE j # idx[a]
    <3>1. j \in Nat /\ j <= Len(newSeries[a]) /\ Len(newSeries[a]) \in Nat BY <1>1, <2>1
    <3>2. idx[a] < Len(newSeries[a]) /\ idx[a] + 1 <= j BY <1>1, <2>1, <2>3, <3>1
    <3> QED BY <1>3, <2>1, <3>2 DEF NewToLog
  <2> QED BY <2>2, <2>3
<1> HIDE DEF n, rec, next, i2
<1>13. HeadKnown' BY <1>1, <1>10, <1>12, KnownByOne DEF Held, HeadKnown
<1>14. BatchLogged'
  <2>1. \A i \in DOMAIN pending[a] :
            \/ NewRefLogged(pending[a][i].ref, pending[a][i].l)
            \/ NewToLog(a, pending[a][i].ref, pending[a][i].l)
    BY <1>1, <1>10, <1>12 DEF Held, BatchLogged
  <2> QED BY <1>2, <1>3, <2>1, LoggedByOne
<1>15. PendingHeld' /\ AppliedHeld' /\ NewEmpty'
  BY <1>1, <1>2, <1>3, HeldByOne DEF Held, PendingHeld, NewEmpty, InHead, InNewHead
<1> QED BY <1>9, <1>13, <1>14, <1>15 DEF Held

\* BatchAt after the step.
NewBatchAt(a, p) ==
    /\ p \in DOMAIN log' /\ log'[p].kind = "samples" /\ log'[p].samples = pending'[a]
    /\ \A i \in DOMAIN pending'[a] : NewNamedBefore(p, pending'[a][i].ref, pending'[a][i].l)

LEMMA BatchByOne ==
    ASSUME NEW a \in Appender, \A b \in Appender : b = a,
           \/ pc'[a] = "sync" /\ \E p \in DOMAIN log' : NewBatchAt(a, p)
           \/ pc'[a] = "apply" /\ \E p \in 1 .. synced' : NewBatchAt(a, p)
    PROVE  BatchLogged'
BY DEF BatchLogged, BatchAt, NewBatchAt, NamedBefore, NewNamedBefore, SeriesAt

LEMMA BatchAtKept ==
    ASSUME TypeInv, NEW a \in Appender, pending'[a] = pending[a], LogKeeps(Len(log)),
           NEW p, BatchAt(a, p)
    PROVE  NewBatchAt(a, p)
<1>1. p \in DOMAIN log /\ p <= Len(log) /\ Len(log) \in Nat BY DEF TypeInv, WalTypeOK, BatchAt
<1>2. p \in DOMAIN log' /\ log'[p] = log[p] BY <1>1 DEF LogKeeps, BatchAt
<1>3. \A i \in DOMAIN pending[a] : NewNamedBefore(p, pending[a][i].ref, pending[a][i].l)
  BY <1>1, NamedBeforeKept DEF BatchAt
<1> QED BY <1>2, <1>3 DEF BatchAt, NewBatchAt

\* logSamples: the series of the batch are in the log by now.
LEMMA HeldLogSamples ==
    ASSUME TypeInv, TypeInv', Held, NEW a \in Appender, \A b \in Appender : b = a, LogSamples(a),
           lowWater' = lowWater, acked' = acked
    PROVE  Held'
<1> DEFINE rec == [kind |-> "samples", seg |-> NextSeg, samples |-> pending[a]]
<1>1. /\ AppTypeOK /\ WalTypeOK /\ WalTypeOK' /\ series' = series /\ file = "open"
      /\ file' = "open" /\ mode = "up" /\ mode' = "up" /\ pc[a] = "logSamples" /\ Put(rec)
      /\ Goto(a, "sync", 1) /\ Len(log) \in Nat
  BY DEF LogSamples, Write, Put, TypeInv, WalTypeOK, headVars, replayVars
<1>2. pc'[a] = "sync" /\ newSeries' = newSeries /\ pending' = pending
  BY <1>1, GotoApp
<1>3. log' = Append(log, rec) /\ log \in Seq(Record) BY <1>1 DEF Put, WalTypeOK
<1>4. /\ \A p \in DOMAIN log : p \in DOMAIN log' /\ log'[p] = log[p] /\ p < Len(log) + 1
      /\ Len(log) + 1 \in DOMAIN log' /\ log'[Len(log) + 1] = rec
  BY <1>3
<1>5. synced <= synced' BY <1>1 DEF Put, WalTypeOK
<1>6. HeadKeeps /\ LogKeeps(Len(log)) BY <1>1, <1>4 DEF HeadKeeps, LogKeeps
<1>7. AckedLogged' /\ ReplayHeld' /\ AckedHeld' BY <1>1, <1>5, <1>6, HeldQuiet
<1>8. \A r, k : ~ToLog(a, r, k) BY <1>1 DEF ToLog
<1>9. \A r, k : RefLogged(r, k) => NewRefLogged(r, k) /\ NewNamedBefore(Len(log) + 1, r, k)
  BY <1>4 DEF RefLogged, NewRefLogged, NewNamedBefore, SeriesAt
<1>10. HeadKnown' BY <1>1, <1>8, <1>9, KnownByOne DEF Held, HeadKnown
<1>11. BatchLogged'
  <2>1. \A i \in DOMAIN pending[a] : RefLogged(pending[a][i].ref, pending[a][i].l)
    BY <1>1, <1>8 DEF Held, BatchLogged
  <2>2. NewBatchAt(a, Len(log) + 1) BY <1>2, <1>4, <1>9, <2>1 DEF NewBatchAt
  <2> HIDE DEF rec
  <2> QED BY <1>2, <1>4, <2>2, BatchByOne
<1>12. PendingHeld' /\ AppliedHeld' /\ NewEmpty'
  BY <1>1, <1>2, HeldByOne DEF Held, PendingHeld, NewEmpty, InHead, InNewHead
<1> QED BY <1>7, <1>10, <1>11, <1>12 DEF Held

\* sync: the record is on disk before the first sample is applied.
LEMMA HeldSync ==
    ASSUME TypeInv, TypeInv', Held, NEW a \in Appender, \A b \in Appender : b = a, Sync(a),
           lowWater' = lowWater, acked' = acked
    PROVE  Held'
<1>1. /\ AppTypeOK /\ WalTypeOK /\ series' = series /\ file = "open" /\ file' = "open"
      /\ log' = log /\ synced' = Len(log) /\ mode = "up" /\ mode' = "up" /\ pc[a] = "sync"
      /\ UNCHANGED headVars /\ UNCHANGED replayVars
  BY DEF Sync, SyncOK, TypeInv, headVars, replayVars
<1>2. synced <= synced' BY <1>1 DEF WalTypeOK
<1>3. \A r, k : ~ToLog(a, r, k) BY <1>1 DEF ToLog
<1>4. CASE Fresh(a) BY <1>1, <1>2, <1>3, <1>4, HeldFresh
<1>5. CASE pending[a] # <<>> /\ Goto(a, "apply", 1)
  <2>1. pc'[a] = "apply" /\ idx'[a] = 1 /\ newSeries' = newSeries /\ pending' = pending
    BY <1>1, <1>5, GotoApp
  <2>2. HeadKeeps /\ LogKeeps(Len(log)) BY <1>1 DEF HeadKeeps, LogKeeps
  <2>3. AckedLogged' /\ ReplayHeld' /\ AckedHeld' BY <1>1, <1>2, <2>2, HeldQuiet
  <2>4. HeadKnown' BY <1>1, <1>3, RefLoggedSame, KnownByOne DEF Held, HeadKnown
  <2>5. PICK p \in DOMAIN log : BatchAt(a, p) BY <1>1, <1>5 DEF Held, BatchLogged
  <2>6. p \in 1 .. synced' BY <1>1 DEF WalTypeOK
  <2>7. BatchLogged' BY <2>1, <2>2, <2>5, <2>6, BatchAtKept, BatchByOne
  <2>8. \A i \in DOMAIN pending[a] : ~(i < 1)
    <3>1. pending[a] \in Seq(Staged) BY <1>1 DEF AppTypeOK
    <3> QED BY <3>1
  <2>9. PendingHeld' /\ AppliedHeld' /\ NewEmpty'
    BY <1>1, <2>1, <2>8, HeldByOne DEF Held, PendingHeld, InHead, InNewHead
  <2> QED BY <2>3, <2>4, <2>7, <2>9 DEF Held
<1> QED BY <1>4, <1>5 DEF Sync

\* A batch keeps its record while the log does not change.
LEMMA HeldAppend ==
    ASSUME TypeInv, TypeInv', Held, NEW a \in Appender, \A b \in Appender : b = a,
           mode = "up", pc[a] = "apply", idx[a] < Len(pending[a]), Goto(a, "apply", idx[a] + 1),
           AppendSample(pending[a][idx[a]].ref, pending[a][idx[a]].t, pending[a][idx[a]].v),
           UNCHANGED <<walVars, replayVars, lowWater, acked>>
    PROVE  Held'
<1> DEFINE s == pending[a][idx[a]]
<1>1. /\ HeadTypeOK /\ AppTypeOK /\ WalTypeOK /\ log' = log /\ file' = file /\ synced' = synced
      /\ mode' = "up" /\ pc'[a] = "apply" /\ idx'[a] = idx[a] + 1 /\ idx[a] \in Nat
      /\ newSeries' = newSeries /\ pending' = pending /\ pending[a] \in Seq(Staged)
  BY GotoApp DEF TypeInv, AppTypeOK, walVars, replayVars
<1>2. HeadKeeps /\ (s.ref \in DOMAIN series => s.t \in DOMAIN series'[s.ref].samples)
  BY <1>1, AppendSampleKeepsHead
<1>3. DOMAIN series' = DOMAIN series /\ \A r \in DOMAIN series : series'[r].labels = series[r].labels
  BY <1>1, AppendSampleDomain
<1>4. LogKeeps(Len(log)) BY <1>1 DEF LogKeeps
<1>5. AckedLogged' /\ ReplayHeld' /\ AckedHeld'
  BY <1>1, <1>2, <1>4, HeldQuiet DEF WalTypeOK
<1>6. \A r, k : ~ToLog(a, r, k) BY DEF ToLog
<1>7. HeadKnown' BY <1>1, <1>3, <1>6, RefLoggedSame, KnownByOne DEF Held, HeadKnown
<1>8. BatchLogged'
  <2>1. PICK p \in 1 .. synced : BatchAt(a, p) BY DEF Held, BatchLogged
  <2> QED BY <1>1, <1>4, <2>1, BatchAtKept, BatchByOne
<1>9. PendingHeld' /\ AppliedHeld' /\ NewEmpty'
  <2>1. \A i \in DOMAIN pending[a] : InHead(pending[a][i].ref, pending[a][i].l)
    BY DEF Held, PendingHeld
  <2>2. \A i \in DOMAIN pending[a] : InNewHead(pending[a][i].ref, pending[a][i].l)
    BY <1>3, <2>1 DEF InHead, InNewHead
  <2>3. ASSUME NEW i \in DOMAIN pending[a], i < idx[a] + 1
        PROVE  pending[a][i].t \in DOMAIN series'[pending[a][i].ref].samples
    <3>1. i \in Nat BY <1>1
    <3>2. CASE i < idx[a]
      <4>1. pending[a][i].t \in DOMAIN series[pending[a][i].ref].samples
        BY <3>2 DEF Held, AppliedHeld
      <4> QED BY <1>2, <2>1, <4>1 DEF HeadKeeps, InHead
    <3>3. CASE i = idx[a] BY <1>2, <2>1, <3>3 DEF InHead
    <3> QED BY <1>1, <2>3, <3>1, <3>2, <3>3
  <2> HIDE DEF s
  <2> QED BY <1>1, <2>2, <2>3, HeldByOne
<1> QED BY <1>5, <1>7, <1>8, <1>9 DEF Held

\* With its last sample the batch is acknowledged: all of it is in the head and on disk.
LEMMA HeldAcked ==
    ASSUME TypeInv, TypeInv', Held, NEW a \in Appender, \A b \in Appender : b = a,
           mode = "up", pc[a] = "apply", ~(idx[a] < Len(pending[a])), Fresh(a),
           AppendSample(pending[a][idx[a]].ref, pending[a][idx[a]].t, pending[a][idx[a]].v),
           acked' = acked \cup Batch(a),
           UNCHANGED <<walVars, replayVars, lowWater>>
    PROVE  Held'
<1> DEFINE s == pending[a][idx[a]]
<1>1. /\ HeadTypeOK /\ AppTypeOK /\ WalTypeOK /\ log' = log /\ file' = file /\ synced' = synced
      /\ mode' = "up" /\ pc'[a] = "stage" /\ newSeries'[a] = <<>> /\ pending'[a] = <<>>
      /\ pending[a] \in Seq(Staged) /\ idx[a] \in Nat /\ lowWater' = lowWater
  BY FreshApp DEF TypeInv, AppTypeOK, walVars, replayVars
<1>2. HeadKeeps /\ (s.ref \in DOMAIN series => s.t \in DOMAIN series'[s.ref].samples)
  BY <1>1, AppendSampleKeepsHead
<1>3. DOMAIN series' = DOMAIN series /\ \A r \in DOMAIN series : series'[r].labels = series[r].labels
  BY <1>1, AppendSampleDomain
<1>4. \A r, k : ~ToLog(a, r, k) BY DEF ToLog
<1>5. HeadKnown' BY <1>1, <1>3, <1>4, RefLoggedSame, KnownByOne DEF Held, HeadKnown
<1>6. BatchLogged' BY <1>1, LoggedByOne
<1>7. PendingHeld' /\ AppliedHeld' /\ NewEmpty' BY <1>1, HeldByOne
<1>8. ReplayHeld' BY <1>1 DEF ReplayHeld
<1>9. ASSUME NEW i \in DOMAIN pending[a]
      PROVE  /\ pending[a][i].ref \in DOMAIN series'
             /\ series'[pending[a][i].ref].labels = pending[a][i].l
             /\ pending[a][i].t \in DOMAIN series'[pending[a][i].ref].samples
  <2>1. InHead(pending[a][i].ref, pending[a][i].l) BY DEF Held, PendingHeld
  <2>2. i \in Nat /\ i <= Len(pending[a]) /\ Len(pending[a]) \in Nat BY <1>1
  <2>3. CASE i < idx[a]
    <3>1. pending[a][i].t \in DOMAIN series[pending[a][i].ref].samples
      BY <2>3 DEF Held, AppliedHeld
    <3> QED BY <1>2, <2>1, <3>1 DEF HeadKeeps, InHead
  <2>4. CASE i = idx[a] BY <1>2, <1>3, <2>1, <2>4 DEF InHead
  <2> QED BY <1>1, <2>2, <2>3, <2>4
<1>10. AckedHeld'
  <2> SUFFICES ASSUME NEW x \in acked \cup Batch(a), x.t >= lowWater
               PROVE  \E r \in DOMAIN series' :
                          series'[r].labels = x.l /\ x.t \in DOMAIN series'[r].samples
    BY <1>1 DEF AckedHeld, Holds, RefsOf
  <2>1. CASE x \in acked
    <3>1. PICK r \in DOMAIN series : series[r].labels = x.l /\ x.t \in DOMAIN series[r].samples
      BY <2>1 DEF Held, AckedHeld, Holds, RefsOf
    <3> QED BY <1>2, <3>1 DEF HeadKeeps
  <2>2. CASE x \in Batch(a)
    <3>1. PICK i \in DOMAIN pending[a] : x.l = pending[a][i].l /\ x.t = pending[a][i].t
      BY <2>2 DEF Batch
    <3> QED BY <1>9, <3>1
  <2> QED BY <2>1, <2>2
<1>11. AckedLogged'
  <2> SUFFICES ASSUME NEW x \in acked \cup Batch(a)
               PROVE  \E p \in 1 .. synced :
                        /\ log[p].kind = "samples"
                        /\ \E i \in DOMAIN log[p].samples :
                             /\ log[p].samples[i].l = x.l /\ log[p].samples[i].t = x.t
                             /\ NamedBefore(p, log[p].samples[i].ref, x.l)
    BY <1>1 DEF AckedLogged, NamedBefore, SeriesAt
  <2>1. CASE x \in acked BY <2>1 DEF Held, AckedLogged
  <2>2. CASE x \in Batch(a)
    <3>1. PICK i \in DOMAIN pending[a] : x.l = pending[a][i].l /\ x.t = pending[a][i].t
      BY <2>2 DEF Batch
    <3>2. PICK p \in 1 .. synced : BatchAt(a, p) BY DEF Held, BatchLogged
    <3> QED BY <3>1, <3>2 DEF BatchAt
  <2> QED BY <2>1, <2>2
<1> QED BY <1>5, <1>6, <1>7, <1>8, <1>10, <1>11 DEF Held

\* Close syncs the log and lets no more be written.
LEMMA HeldClose ==
    ASSUME TypeInv, TypeInv', Held, NEW a \in Appender, \A b \in Appender : b = a, Close
    PROVE  Held'
<1>1. /\ WalTypeOK /\ series' = series /\ log' = log /\ synced' = Len(log) /\ file' = "closed"
      /\ mode = "up" /\ mode' = "up" /\ pc' = pc /\ idx' = idx /\ newSeries' = newSeries
      /\ pending' = pending /\ acked' = acked /\ lowWater' = lowWater
  BY DEF Close, TypeInv, headVars, appVars, replayVars
<1>2. HeadKeeps /\ LogKeeps(Len(log)) /\ synced <= synced'
  BY <1>1 DEF HeadKeeps, LogKeeps, WalTypeOK
<1>3. AckedLogged' /\ ReplayHeld' /\ AckedHeld' BY <1>1, <1>2, HeldQuiet
<1>4. HeadKnown' BY <1>1 DEF HeadKnown
<1>5. BatchLogged'
  <2>1. CASE pc[a] = "apply"
    <3>1. PICK p \in 1 .. synced : BatchAt(a, p) BY <2>1 DEF Held, BatchLogged
    <3>2. p \in 1 .. synced' BY <1>1 DEF WalTypeOK
    <3> QED BY <1>1, <1>2, <2>1, <3>1, <3>2, BatchAtKept, BatchByOne
  <2>2. CASE pc[a] # "apply" BY <1>1, <2>2, LoggedByOne
  <2> QED BY <2>1, <2>2
<1>6. PendingHeld' /\ AppliedHeld' /\ NewEmpty'
  BY <1>1, HeldByOne DEF Held, PendingHeld, AppliedHeld, NewEmpty, InHead, InNewHead
<1> QED BY <1>3, <1>4, <1>5, <1>6 DEF Held

\* While Open runs there is no batch.
LEMMA HeldIdle ==
    ASSUME Idle', mode' = "replay" \/ HeadKnown'
    PROVE  PendingHeld' /\ AppliedHeld' /\ NewEmpty' /\ BatchLogged' /\ HeadKnown'
BY DEF Idle, PendingHeld, AppliedHeld, NewEmpty, BatchLogged, HeadKnown

\* A restart finds on disk what was synced.
LEMMA HeldRestart ==
    ASSUME TypeInv, TypeInv', Held, Restart, LogKeeps(synced),
           \A p \in 1 .. synced : p <= synced'
    PROVE  Held'
<1>1. /\ mode' = "replay" /\ pos' = 1 /\ sub' = 1 /\ acked' = acked
      /\ pc' = [a \in Appender |-> "stage"]
      /\ newSeries' = [a \in Appender |-> <<>>] /\ pending' = [a \in Appender |-> <<>>]
  BY DEF Restart
<1>2. Idle' BY <1>1 DEF Idle
<1>3. AckedLogged' BY <1>1, AckedLoggedKept DEF Held
<1>4. ReplayHeld'
  <2>1. \A p \in DOMAIN log' : ~(p < 1) BY DEF TypeInv, WalTypeOK
  <2>2. ASSUME NEW p \in DOMAIN log', log'[p].kind = "samples"
        PROVE  \A i \in DOMAIN log'[p].samples : ~(i < 1)
    <3>1. log'[p] \in Record BY DEF TypeInv, WalTypeOK
    <3>2. log'[p] \in SamplesRec BY <2>2, <3>1 DEF Record, SeriesRec, TornRec
    <3>3. log'[p].samples \in Seq(Staged) BY <3>2 DEF SamplesRec
    <3> QED BY <3>3
  <2> QED BY <1>1, <2>1, <2>2 DEF ReplayHeld
<1>5. AckedHeld' BY <1>1 DEF AckedHeld
<1> QED BY <1>1, <1>2, <1>3, <1>4, <1>5, HeldIdle DEF Held

\* What replay has read of the samples stays in the head: it only adds.
LEMMA ReplayHeldKept ==
    ASSUME TypeInv, LoggedInHead, Held, mode = "replay", log' = log, HeadKeeps,
           NEW p \in DOMAIN log, log[p].kind = "samples", NEW i \in DOMAIN log[p].samples,
           p < pos \/ (p = pos /\ i < sub),
           NEW l \in Label, NamedBefore(p, log[p].samples[i].ref, l)
    PROVE  log[p].samples[i].t \in DOMAIN series'[log[p].samples[i].ref].samples
<1> DEFINE ref == log[p].samples[i].ref
<1>1. log[p].samples[i].t \in DOMAIN series[ref].samples BY DEF Held, ReplayHeld
<1>2. PICK q \in DOMAIN log : q < p /\ SeriesAt(q, ref, l) BY DEF NamedBefore
<1>3. p \in Nat /\ q \in Nat /\ pos \in Nat BY DEF TypeInv, WalTypeOK, ReplayTypeOK
<1>4. q < pos BY <1>2, <1>3
<1>5. InHead(ref, l) BY <1>2, <1>4 DEF LoggedInHead, SeriesRecord, SeriesAt
<1> QED BY <1>1, <1>5 DEF HeadKeeps, InHead

\* A samples record that replay reads finds the series that were logged before it.
LEMMA ReadInHead ==
    ASSUME TypeInv, LoggedInHead, mode = "replay", NEW ref, NEW l, NamedBefore(pos, ref, l)
    PROVE  InHead(ref, l)
<1>1. PICK q \in DOMAIN log : q < pos /\ SeriesAt(q, ref, l) BY DEF NamedBefore
<1> QED BY <1>1 DEF LoggedInHead, SeriesRecord, SeriesAt

LEMMA HeldReplaySeries ==
    ASSUME TypeInv, TypeInv', DurableInv, LoggedInHead, Held, ReplaySeries
    PROVE  Held'
<1>1. /\ mode = "replay" /\ mode' = "replay" /\ log' = log /\ pos' = pos + 1 /\ sub' = 1
      /\ synced' = synced /\ acked' = acked /\ pos \in DOMAIN log /\ log[pos].kind = "series"
      /\ AddSeriesWithRef(log[pos].ref, log[pos].l)
      /\ DOMAIN log \subseteq Nat /\ sub \in Nat /\ synced \in Nat
  BY DEF ReplaySeries, NextRecord, walVars, TypeInv, WalTypeOK, ReplayTypeOK
<1>2. Idle' BY DEF DurableInv, ReplaySeries, Idle, appVars
<1>3. HeadKeeps BY <1>1 DEF AddSeriesWithRef, Inserted, headVars, HeadKeeps
<1>4. LogKeeps(synced) BY <1>1 DEF LogKeeps
<1>5. AckedLogged' BY <1>1, <1>4, AckedLoggedKept DEF Held
<1>6. ReplayHeld'
  <2> SUFFICES ASSUME NEW p \in DOMAIN log, log[p].kind = "samples",
                      NEW i \in DOMAIN log[p].samples, p < pos + 1 \/ (p = pos + 1 /\ i < 1),
                      NEW l \in Label, NamedBefore(p, log[p].samples[i].ref, l)
               PROVE  log[p].samples[i].t \in DOMAIN series'[log[p].samples[i].ref].samples
    BY <1>1 DEF ReplayHeld, NamedBefore, SeriesAt
  <2>1. log[p] \in Record BY DEF TypeInv, WalTypeOK
  <2>2. log[p] \in SamplesRec BY <2>1 DEF Record, SeriesRec, TornRec
  <2>3. log[p].samples \in Seq(Staged) BY <2>2 DEF SamplesRec
  <2>4. ~(i < 1) BY <2>3
  <2>5. p < pos BY <1>1, <2>4
  <2> QED BY <1>1, <1>3, <2>5, ReplayHeldKept
<1>7. AckedHeld' BY <1>1 DEF AckedHeld
<1> QED BY <1>1, <1>2, <1>5, <1>6, <1>7, HeldIdle DEF Held

LEMMA HeldReplaySample ==
    ASSUME TypeInv, TypeInv', DurableInv, LoggedInHead, Held, ReplaySample
    PROVE  Held'
<1> DEFINE s == log[pos].samples[sub]
<1>1. /\ HeadTypeOK
      /\ mode = "replay" /\ mode' = "replay" /\ log' = log
      /\ synced' = synced /\ acked' = acked /\ pos \in DOMAIN log /\ log[pos].kind = "samples"
      /\ AppendSample(s.ref, s.t, s.v)
      /\ DOMAIN log \subseteq Nat /\ sub \in Nat /\ synced \in Nat
      /\ \/ sub < Len(log[pos].samples) /\ sub' = sub + 1 /\ pos' = pos
         \/ ~(sub < Len(log[pos].samples)) /\ pos' = pos + 1 /\ sub' = 1
  BY DEF ReplaySample, NextRecord, walVars, TypeInv, WalTypeOK, ReplayTypeOK
<1>2. Idle' BY DEF DurableInv, ReplaySample, Idle, appVars
<1>3. HeadKeeps /\ (s.ref \in DOMAIN series => s.t \in DOMAIN series'[s.ref].samples)
  BY <1>1, AppendSampleKeepsHead
<1>4. LogKeeps(synced) BY <1>1 DEF LogKeeps
<1>5. AckedLogged' BY <1>1, <1>4, AckedLoggedKept DEF Held
<1>6. ReplayHeld'
  <2> SUFFICES ASSUME NEW p \in DOMAIN log, log[p].kind = "samples",
                      NEW i \in DOMAIN log[p].samples, p < pos' \/ (p = pos' /\ i < sub'),
                      NEW l \in Label, NamedBefore(p, log[p].samples[i].ref, l)
               PROVE  log[p].samples[i].t \in DOMAIN series'[log[p].samples[i].ref].samples
    BY <1>1 DEF ReplayHeld, NamedBefore, SeriesAt
  <2>1. log[p] \in Record BY DEF TypeInv, WalTypeOK
  <2>2. log[p] \in SamplesRec BY <2>1 DEF Record, SeriesRec, TornRec
  <2>3. log[p].samples \in Seq(Staged) BY <2>2 DEF SamplesRec
  <2>4. i \in Nat /\ 1 <= i /\ i <= Len(log[p].samples) /\ Len(log[p].samples) \in Nat BY <2>3
  <2>5. p < pos \/ (p = pos /\ i < sub) \/ (p = pos /\ i = sub) BY <1>1, <2>4
  <2>6. CASE p = pos /\ i = sub
    <3>1. InHead(s.ref, l) BY <1>1, <2>6, ReadInHead
    <3> QED BY <1>3, <2>6, <3>1 DEF InHead
  <2>7. CASE p < pos \/ (p = pos /\ i < sub) BY <1>1, <1>3, <2>7, ReplayHeldKept
  <2> QED BY <2>5, <2>6, <2>7
<1>7. AckedHeld' BY <1>1 DEF AckedHeld
<1> QED BY <1>1, <1>2, <1>5, <1>6, <1>7, HeldIdle DEF Held

\* Open returns with every acknowledged sample in the head.
LEMMA HeldOpened ==
    ASSUME TypeInv, TypeInv', DurableInv, LoggedInHead, HeadIsLogged, Held,
           mode = "replay", mode' = "up", UNCHANGED <<headVars, appVars, acked>>,
           \A p \in DOMAIN log : p < pos => p \in DOMAIN log' /\ log'[p] = log[p],
           \A p \in 1 .. synced : log[p].kind # "torn" => p < pos /\ p <= synced'
    PROVE  Held'
<1>1. /\ series' = series /\ acked' = acked /\ DOMAIN log = 1 .. Len(log) /\ Len(log) \in Nat
      /\ synced \in Nat /\ synced <= Len(log)
      /\ \A l, t, v : [l |-> l, t |-> t, v |-> v] \in acked => l \in Label
      /\ acked \subseteq [l : Label, t : Time, v : Value]
  BY DEF headVars, TypeInv, WalTypeOK, HistTypeOK
<1>2. Idle' BY DEF DurableInv, Idle, appVars
<1>3. LogKeeps(synced) BY <1>1 DEF LogKeeps
<1>4. AckedLogged' BY <1>1, <1>3, AckedLoggedKept DEF Held
<1>5. ReplayHeld' BY DEF ReplayHeld
<1>6. HeadKnown'
  <2> SUFFICES ASSUME NEW r \in DOMAIN series PROVE NewRefLogged(r, series[r].labels)
    BY <1>1 DEF HeadKnown, RefLogged, SeriesAt, NewRefLogged
  <2>1. PICK p \in DOMAIN log : p < pos /\ SeriesAt(p, r, series[r].labels) BY DEF HeadIsLogged
  <2> QED BY <2>1 DEF SeriesAt, NewRefLogged
<1>7. AckedHeld'
  <2> SUFFICES ASSUME NEW x \in acked
               PROVE  \E r \in DOMAIN series : series[r].labels = x.l /\ x.t \in DOMAIN series[r].samples
    BY <1>1 DEF AckedHeld, Holds, RefsOf
  <2>1. PICK p \in 1 .. synced :
            /\ log[p].kind = "samples"
            /\ \E i \in DOMAIN log[p].samples :
                 /\ log[p].samples[i].l = x.l /\ log[p].samples[i].t = x.t
                 /\ NamedBefore(p, log[p].samples[i].ref, x.l)
    BY DEF Held, AckedLogged
  <2>2. PICK i \in DOMAIN log[p].samples :
                 /\ log[p].samples[i].l = x.l /\ log[p].samples[i].t = x.t
                 /\ NamedBefore(p, log[p].samples[i].ref, x.l)
    BY <2>1
  <2>3. p \in DOMAIN log /\ p < pos /\ p \in Nat /\ pos \in Nat /\ x.l \in Label
    BY <1>1, <2>1 DEF TypeInv, ReplayTypeOK
  <2>4. x.t \in DOMAIN series[log[p].samples[i].ref].samples
    BY <2>1, <2>2, <2>3 DEF Held, ReplayHeld
  <2>5. PICK q \in DOMAIN log : q < p /\ SeriesAt(q, log[p].samples[i].ref, x.l)
    BY <2>2 DEF NamedBefore
  <2>6. q < pos BY <1>1, <2>3, <2>5
  <2>7. InHead(log[p].samples[i].ref, x.l) BY <2>5, <2>6 DEF LoggedInHead, SeriesRecord, SeriesAt
  <2> QED BY <2>4, <2>7 DEF InHead
<1> QED BY <1>2, <1>4, <1>5, <1>6, <1>7, HeldIdle DEF Held

\* A failed system call is not forgotten.
LEMMA FailsGrow ==
    ASSUME TypeInv, [Next]_vars
    PROVE  fails' \in {fails, fails + 1}
<1>1. ASSUME NEW a \in Appender,
             \/ \E l \in Label : \/ \E t \in Time : \E v \in Value : AppendOK(a, l, t, v)
                                 \/ AppendRejected(a, l)
             \/ Rollback(a)
             \/ Commit(a)
             \/ Apply(a)
      PROVE  fails' = fails
  BY <1>1 DEF AppendOK, AppendRejected, Rollback, Commit, Apply
<1>2. ASSUME NEW a \in Appender, LogSeries(a) \/ LogSamples(a) \/ Sync(a) PROVE fails' = fails
  BY <1>2 DEF LogSeries, LogSamples, Sync, Write, SyncOK
<1>3. ASSUME NEW a \in Appender, CommitFails(a) PROVE fails' \in {fails, fails + 1}
  BY <1>3 DEF CommitFails, WriteFails, SyncFails
<1>4. ASSUME NEW minT \in MinT, Truncate(minT) PROVE fails' = fails BY <1>4 DEF Truncate
<1>5. CASE Close \/ Kill \/ PowerLoss BY <1>5 DEF Close, Kill, PowerLoss, Restart
<1>6. CASE ReplaySeries \/ ReplaySample \/ ReplayTorn \/ ReplayCorrupt \/ ReplayDone
  BY <1>6 DEF ReplaySeries, ReplaySample, ReplayTorn, ReplayCorrupt, ReplayDone
<1>7. CASE UNCHANGED vars BY <1>7 DEF vars
<1> QED BY <1>1, <1>2, <1>3, <1>4, <1>5, <1>6, <1>7 DEF Next

LEMMA DurabilityInit == Init => DurabilityInv
BY DEF Init, HeadInit, DurabilityInv, Held, PendingHeld, AppliedHeld, NewEmpty, BatchLogged,
       HeadKnown, AckedLogged, ReplayHeld, AckedHeld

\* One step for each action.
LEMMA DurabilityNext ==
    ASSUME SlotsInv, TypeInv', DurabilityInv, [Next]_vars,
           MinT = {}, NEW a \in Appender, \A b \in Appender : b = a
    PROVE  DurabilityInv'
<1> SUFFICES ASSUME fails' = 0 PROVE Held' BY DEF DurabilityInv
<1>1. /\ TypeInv /\ DurableInv /\ TornInv /\ RefsBelow /\ SlotInv
      /\ AppTypeOK /\ WalTypeOK /\ fails \in Nat /\ lowWater = -1 /\ lowWater' = -1
      /\ DOMAIN log = 1 .. Len(log) /\ Len(log) \in Nat /\ synced \in Nat /\ synced <= Len(log)
      /\ pos \in Nat
  BY BoundsAssumption DEF SlotsInv, TypeInv, WalTypeOK, ReplayTypeOK, HistTypeOK
<1>2. fails = 0 BY <1>1, FailsGrow
<1>3. Held /\ TornLast /\ LoggedInHead /\ HeadIsLogged /\ NewFresh
  BY <1>1, <1>2 DEF DurabilityInv, TornInv, SlotInv, Untouched
<1>4. ASSUME NEW l \in Label, NEW t \in Time, NEW v \in Value, AppendOK(a, l, t, v) PROVE Held'
  <2>1. /\ mode = "up" /\ pc[a] = "stage"
        /\ UNCHANGED <<pc, idx, walVars, replayVars, lowWater, acked>>
    BY <1>4 DEF AppendOK
  <2>2. CASE \E r \in RefsOf(l) : Found(l, r) /\ Stage(a, r, l, t, v) /\ UNCHANGED newSeries
    BY <1>1, <1>3, <2>1, <2>2, HeldFound DEF Found
  <2>3. CASE /\ Created(l, lastRef + 1) /\ Stage(a, lastRef + 1, l, t, v)
             /\ newSeries' = [newSeries EXCEPT ![a] = Append(@, [ref |-> lastRef + 1, l |-> l])]
    BY <1>1, <1>3, <2>1, <2>3, HeldCreated
  <2> QED BY <1>4, <2>2, <2>3 DEF AppendOK
<1>5. ASSUME NEW l \in Label, AppendRejected(a, l) PROVE Held'
  <2>1. /\ mode = "up" /\ pc[a] = "stage" /\ Goto(a, "rollback", 1)
        /\ UNCHANGED <<headVars, walVars, replayVars, lowWater, acked>>
    BY <1>5 DEF AppendRejected, TooManySeries
  <2> QED BY <1>1, <1>3, <2>1, HeldGoto
<1>6. CASE Rollback(a)
  <2>1. /\ mode = "up" /\ pc[a] = "rollback"
        /\ UNCHANGED <<walVars, replayVars, lowWater, acked>>
    BY <1>6 DEF Rollback
  <2>2. newSeries[a] \in Seq(NewSeries) /\ idx[a] \in Nat \ {0} BY <1>1 DEF AppTypeOK
  <2>3. CASE /\ idx[a] <= Len(newSeries[a])
             /\ ReclaimIfEmpty(newSeries[a][idx[a]].ref) /\ Goto(a, "rollback", idx[a] + 1)
    <3>1. idx[a] \in DOMAIN newSeries[a] BY <2>2, <2>3
    <3> QED BY <1>1, <1>3, <2>1, <2>3, <3>1, HeldReclaim
  <2>4. CASE ~(idx[a] <= Len(newSeries[a])) /\ Fresh(a) /\ UNCHANGED headVars
    <3>1. \A r, l : ~ToLog(a, r, l)
      <4> SUFFICES ASSUME NEW j \in DOMAIN newSeries[a], idx[a] <= j PROVE FALSE
        BY <2>1 DEF ToLog
      <4> QED BY <2>2, <2>4
    <3>2. UNCHANGED log /\ file' = file /\ synced <= synced' BY <1>1, <2>1 DEF walVars
    <3> QED BY <1>1, <1>3, <2>1, <2>4, <3>1, <3>2, HeldFresh
  <2> QED BY <1>6, <2>3, <2>4 DEF Rollback
<1>7. CASE Commit(a)
  <2>1. /\ mode = "up" /\ pc[a] = "stage"
        /\ Goto(a, IF newSeries[a] = <<>> THEN AfterSeries(a) ELSE "logSeries", 1)
        /\ UNCHANGED <<headVars, walVars, replayVars, lowWater, acked>>
    BY <1>7 DEF Commit
  <2> QED BY <1>1, <1>3, <2>1, HeldGoto
<1>8. CASE LogSeries(a) BY <1>1, <1>3, <1>8, HeldLogSeries DEF LogSeries
<1>9. CASE LogSamples(a) BY <1>1, <1>3, <1>9, HeldLogSamples DEF LogSamples
<1>10. CASE Sync(a) BY <1>1, <1>3, <1>10, HeldSync DEF Sync
<1>11. CASE CommitFails(a)
  <2>1. /\ mode = "up" /\ Fresh(a) /\ UNCHANGED <<headVars, replayVars, lowWater, acked>>
    BY <1>11 DEF CommitFails
  <2>2. file # "open" /\ UNCHANGED walVars
    BY <1>2, <1>11 DEF CommitFails, WriteFails, SyncFails
  <2>3. log' = log /\ synced <= synced' /\ file' # "open" BY <1>1, <2>2 DEF walVars
  <2> QED BY <1>1, <1>3, <2>1, <2>3, HeldFresh
<1>12. CASE Apply(a)
  <2>1. /\ mode = "up" /\ pc[a] = "apply" /\ UNCHANGED <<walVars, replayVars, lowWater>>
        /\ AppendSample(pending[a][idx[a]].ref, pending[a][idx[a]].t, pending[a][idx[a]].v)
    BY <1>12 DEF Apply
  <2>2. CASE idx[a] < Len(pending[a]) /\ Goto(a, "apply", idx[a] + 1) /\ acked' = acked
    BY <1>1, <1>3, <2>1, <2>2, HeldAppend
  <2>3. CASE ~(idx[a] < Len(pending[a])) /\ Fresh(a) /\ acked' = acked \cup Batch(a)
    BY <1>1, <1>3, <2>1, <2>3, HeldAcked
  <2> QED BY <1>12, <2>2, <2>3 DEF Apply
<1>13. CASE Close BY <1>1, <1>3, <1>13, HeldClose
<1>14. CASE Kill
  <2>1. Restart /\ log' = log /\ synced' = synced BY <1>14 DEF Kill
  <2>2. LogKeeps(synced) BY <2>1 DEF LogKeeps
  <2> QED BY <1>1, <1>3, <2>1, <2>2, HeldRestart
<1>15. CASE PowerLoss
  <2>1. PICK n \in synced .. Len(log) :
         /\ \/ log' = SubSeq(log, 1, n)
            \/ /\ n < Len(log)
               /\ log' = Append(SubSeq(log, 1, n), [kind |-> "torn", seg |-> log[n + 1].seg])
         /\ synced' = n
    BY <1>15 DEF PowerLoss
  <2> DEFINE cutlog == SubSeq(log, 1, n)
             torn == [kind |-> "torn", seg |-> log[n + 1].seg]
  <2>2. n \in Nat /\ synced <= n /\ n <= Len(log) /\ log \in Seq(Record)
    BY <1>1, <2>1 DEF WalTypeOK
  <2>3. cutlog \in Seq(Record) /\ Len(cutlog) = n /\ \A p \in 1 .. n : cutlog[p] = log[p]
    BY <2>2
  <2>4. \A p \in 1 .. n : p \in DOMAIN log' /\ log'[p] = log[p]
    <3>1. CASE log' = cutlog BY <2>2, <2>3, <3>1
    <3>2. CASE n < Len(log) /\ log' = Append(cutlog, torn)
      <4>1. log[n + 1] \in Record BY <2>2, <3>2
      <4>2. torn \in Record BY <4>1, RecordKinds DEF Record, TornRec
      <4> HIDE DEF torn, cutlog
      <4> QED BY <2>2, <2>3, <3>2, <4>2
    <3> QED BY <2>1, <3>1, <3>2
  <2>5. LogKeeps(synced) /\ \A p \in 1 .. synced : p <= synced'
    BY <1>1, <2>1, <2>2, <2>4 DEF LogKeeps
  <2>6. Restart BY <1>15 DEF PowerLoss
  <2> QED BY <1>1, <1>3, <2>5, <2>6, HeldRestart
<1>16. CASE ReplaySeries BY <1>1, <1>3, <1>16, HeldReplaySeries
<1>17. CASE ReplaySample BY <1>1, <1>3, <1>17, HeldReplaySample
<1>18. CASE ReplayTorn
  <2>1. /\ mode = "replay" /\ mode' = "up" /\ UNCHANGED <<headVars, appVars, acked>>
        /\ TruncateSegment /\ log[pos].kind = "torn"
    BY <1>18 DEF ReplayTorn, OpenDone
  <2>2. /\ pos = Len(log) /\ pos \in DOMAIN log /\ DOMAIN log' = 1 .. pos - 1
        /\ \A p \in 1 .. pos - 1 : log'[p] = log[p]
    BY <1>1, <1>3, <1>18, TornCut
  <2>3. synced' = IF synced < pos THEN synced ELSE pos - 1
    BY <1>1, <2>1, <2>2 DEF TruncateSegment
  <2>4. \A p \in DOMAIN log : p < pos => p \in DOMAIN log' /\ log'[p] = log[p] BY <1>1, <2>2
  <2>5. \A p \in 1 .. synced : log[p].kind # "torn" => p < pos /\ p <= synced'
    BY <1>1, <2>1, <2>2, <2>3
  <2> QED BY <1>1, <1>3, <2>1, <2>4, <2>5, HeldOpened
<1>19. CASE ReplayDone
  <2>1. /\ mode = "replay" /\ mode' = "up" /\ UNCHANGED <<headVars, appVars, acked>>
        /\ log' = log /\ synced' = synced /\ pos > Len(log)
    BY <1>19 DEF ReplayDone, OpenDone, walVars
  <2>2. \A p \in 1 .. synced : log[p].kind # "torn" => p < pos /\ p <= synced' BY <1>1, <2>1
  <2> QED BY <1>1, <1>3, <2>1, <2>2, HeldOpened
<1>20. ~ReplayCorrupt BY <1>1, <1>3, NoCorruption
<1>21. CASE UNCHANGED vars
  <2>1. /\ series' = series /\ pc' = pc /\ newSeries' = newSeries /\ pending' = pending
        /\ idx' = idx /\ log' = log /\ synced' = synced /\ file' = file /\ mode' = mode
        /\ pos' = pos /\ sub' = sub /\ acked' = acked /\ lowWater' = lowWater
    BY <1>21 DEF vars, headVars, appVars, walVars, replayVars
  <2>2. /\ PendingHeld' = PendingHeld /\ AppliedHeld' = AppliedHeld /\ NewEmpty' = NewEmpty
        /\ AckedHeld' = AckedHeld
    BY <2>1 DEF PendingHeld, AppliedHeld, NewEmpty, AckedHeld, InHead, Holds, RefsOf
  <2>3. BatchLogged' = BatchLogged /\ HeadKnown' = HeadKnown
    BY <2>1 DEF BatchLogged, BatchAt, RefLogged, NamedBefore, SeriesAt, ToLog, HeadKnown
  <2>4. AckedLogged' = AckedLogged /\ ReplayHeld' = ReplayHeld
    BY <2>1 DEF AckedLogged, ReplayHeld, NamedBefore, SeriesAt
  <2> QED BY <1>3, <2>2, <2>3, <2>4 DEF Held
<1> QED
  BY <1>4, <1>5, <1>6, <1>7, <1>8, <1>9, <1>10, <1>11, <1>12, <1>13, <1>14,
     <1>15, <1>16, <1>17, <1>18, <1>19, <1>20, <1>21 DEF Next

\* What Commit has acknowledged survives kills and power losses at any point, as long as
\* no system call of the log fails: one goroutine writes, and retention is off (tsdb.go,
\* Commit; wal.go, sync, Replay).  With a second writer it does not, as a run shows.
THEOREM Durability ==
    ASSUME MinT = {}, NEW a \in Appender, \A b \in Appender : b = a
    PROVE  Spec => []CommittedSurvives
<1>1. Init => DurabilityInv BY DurabilityInit
<1>2. SlotsInv /\ SlotsInv' /\ DurabilityInv /\ [Next]_vars => DurabilityInv'
  BY DurabilityNext DEF SlotsInv
<1>3. DurabilityInv => CommittedSurvives
  BY DEF DurabilityInv, Held, AckedHeld, CommittedSurvives
<1> QED BY <1>1, <1>2, <1>3, SlotsInvariant, PTL DEF Spec
=============================================================================
