--------------------------------- MODULE DB ---------------------------------
(***************************************************************************)
(* The storage engine with durability (internal/tsdb): concurrent          *)
(* appenders (tsdb.go) over the head (head.go, module Head) and the        *)
(* segmented write-ahead log (wal.go), process kills, power losses, failed *)
(* writes, and the replay that rebuilds the head when the database opens.  *)
(*                                                                         *)
(* A step is what the code does under one acquisition of head.mu or        *)
(* wal.mu: between two of them any other goroutine may run.                *)
(*                                                                         *)
(* The log is one sequence of records, each tagged with the number of the  *)
(* segment file that holds it.  The bytes of a record are not modelled:    *)
(* a record is whole, or "torn", a fragment that a power loss or a failed  *)
(* write left behind.                                                      *)
(***************************************************************************)
EXTENDS Head, Sequences

CONSTANTS
    Appender,   \* the goroutines that write: scrape loops and push handlers
    MinT,       \* the cut-off times retentionLoop may pass to Truncate
    SegMax,     \* whole records that fill a segment (WAL.maxSegSize)
    MaxBatch,   \* bound: samples an appender stages in one batch
    MaxLog,     \* bound: no sample is staged once the log is this long
    MaxRef,     \* bound: no series is created once lastRef is this large
    MaxCrash,   \* bound: process kills and power losses
    MaxFail     \* bound: failed system calls of the WAL

ASSUME MinTAssumption == MinT \subseteq Int
ASSUME BoundsAssumption ==
    /\ SegMax \in Nat \ {0}
    /\ MaxBatch \in Nat
    /\ MaxLog \in Nat
    /\ MaxRef \in Nat
    /\ MaxCrash \in Nat
    /\ MaxFail \in Nat

VARIABLES
    pc,         \* per appender: where its Append/Commit/Rollback call stands
    newSeries,  \* appender.newSeries: <<[ref, l], ...>>
    pending,    \* appender.pending: <<[ref, l, t, v], ...>>
    idx,        \* the loop index of Commit or Rollback
    log,        \* the records of all segment files, in order
    synced,     \* how many of them an fsync has made durable
    seq,        \* WAL.seq: the number of the active segment
    file,       \* WAL.cur: "open", "closed" by Close, or "broken" by a failed roll
    mode,       \* "up", or "replay" while Open runs
    pos,        \* replay: the next record of log ...
    sub,        \* ... and the next sample inside it
    lowWater,   \* history: the latest cut-off time given to Truncate
    acked,      \* history: the samples of all batches whose Commit returned nil
    crashes,    \* bounded by MaxCrash
    fails       \* bounded by MaxFail

appVars == <<pc, newSeries, pending, idx>>
walVars == <<log, synced, seq, file>>
replayVars == <<mode, pos, sub>>
vars == <<headVars, appVars, walVars, replayVars, lowWater, acked, crashes, fails>>

\* A created series, and a staged sample.  l, the label set it was appended for, is a history field:
\* the code keeps and logs the reference only, and no action reads l.
NewSeries == [ref : Ref, l : Label]
Staged == [ref : Ref, l : Label, t : Time, v : Value]
Segment == Nat \ {0}
SeriesRec == [kind : {"series"}, seg : Segment, ref : Ref, l : Label]
SamplesRec == [kind : {"samples"}, seg : Segment, samples : Seq(Staged)]
TornRec == [kind : {"torn"}, seg : Segment]
Record == SeriesRec \cup SamplesRec \cup TornRec

PC == {"stage", "logSeries", "logSamples", "sync", "apply", "rollback"}

TypeOK ==
    /\ HeadTypeOK
    /\ pc \in [Appender -> PC]
    /\ newSeries \in [Appender -> Seq(NewSeries)]
    /\ pending \in [Appender -> Seq(Staged)]
    /\ idx \in [Appender -> Nat \ {0}]
    /\ log \in Seq(Record)
    /\ synced \in 0 .. Len(log)
    /\ seq \in Segment
    /\ file \in {"open", "closed", "broken"}
    /\ mode \in {"up", "replay"}
    /\ pos \in Nat \ {0}
    /\ sub \in Nat \ {0}
    /\ lowWater \in MinT \cup {-1}
    /\ acked \subseteq [l : Label, t : Time, v : Value]
    /\ crashes \in 0 .. MaxCrash
    /\ fails \in 0 .. MaxFail

Init ==
    /\ HeadInit
    /\ pc = [a \in Appender |-> "stage"]
    /\ newSeries = [a \in Appender |-> <<>>]
    /\ pending = [a \in Appender |-> <<>>]
    /\ idx = [a \in Appender |-> 1]
    /\ log = <<>>
    /\ synced = 0
    /\ seq = 1
    /\ file = "open"
    /\ mode = "up"
    /\ pos = 1
    /\ sub = 1
    /\ lowWater = -1
    /\ acked = {}
    /\ crashes = 0
    /\ fails = 0

-----------------------------------------------------------------------------
(* Appender.Append *)

Stage(a, ref, l, t, v) ==
    pending' = [pending EXCEPT ![a] =
                  Append(@, [ref |-> ref, l |-> l, t |-> t, v |-> v])]

\* Append, the series exists or is created.
AppendOK(a, l, t, v) ==
    /\ mode = "up"
    /\ pc[a] = "stage"
    /\ Len(pending[a]) < MaxBatch
    /\ Len(log) < MaxLog
    /\ \/ \E r \in RefsOf(l) :
            /\ Found(l, r)
            /\ Stage(a, r, l, t, v)
            /\ UNCHANGED newSeries
       \/ /\ lastRef < MaxRef
          /\ Created(l, lastRef + 1)
          /\ newSeries' = [newSeries EXCEPT ![a] =
                             Append(@, [ref |-> lastRef + 1, l |-> l])]
          /\ Stage(a, lastRef + 1, l, t, v)
    /\ UNCHANGED <<pc, idx, walVars, replayVars, lowWater, acked, crashes, fails>>

\* The caller drops the appender and goes on with a fresh one.
Fresh(a) ==
    /\ pc' = [pc EXCEPT ![a] = "stage"]
    /\ newSeries' = [newSeries EXCEPT ![a] = <<>>]
    /\ pending' = [pending EXCEPT ![a] = <<>>]
    /\ idx' = [idx EXCEPT ![a] = 1]

Goto(a, label, i) ==
    /\ pc' = [pc EXCEPT ![a] = label]
    /\ idx' = [idx EXCEPT ![a] = i]
    /\ UNCHANGED <<newSeries, pending>>

\* Append returns ErrTooManySeries; both callers (scrapeOnce and Ingest) then
\* call Rollback.
AppendRejected(a, l) ==
    /\ mode = "up"
    /\ pc[a] = "stage"
    /\ Len(pending[a]) < MaxBatch
    /\ Len(log) < MaxLog
    /\ TooManySeries(l)
    /\ Goto(a, "rollback", 1)
    /\ UNCHANGED <<walVars, replayVars, lowWater, acked, crashes, fails>>

\* Mutant: the series that the batch created stay.
RollbackKeepsSeries(a) ==
    /\ pc[a] = "rollback"
    /\ Fresh(a)
    /\ UNCHANGED <<headVars, walVars, replayVars, lowWater, acked, crashes, fails>>

(* Appender.Rollback: one lock acquisition for each series created *)
Rollback(a) ==
    /\ mode = "up"
    /\ pc[a] = "rollback"
    /\ IF idx[a] <= Len(newSeries[a])
       THEN /\ ReclaimIfEmpty(newSeries[a][idx[a]].ref)
            /\ Goto(a, "rollback", idx[a] + 1)
       ELSE /\ Fresh(a)
            /\ UNCHANGED headVars
    /\ UNCHANGED <<walVars, replayVars, lowWater, acked, crashes, fails>>

-----------------------------------------------------------------------------
(* The write-ahead log: writeRecord, rollLocked, sync *)

\* curSize >= maxSegSize; curSize does not count what a failed write left.
Full == Cardinality({p \in DOMAIN log : log[p].seg = seq /\ log[p].kind # "torn"}) >= SegMax

\* The segment the next record goes to: rollLocked opens a new one when full.
NextSeg == IF Full THEN seq + 1 ELSE seq

\* rec reaches the segment file; a roll has synced the files before it.
Put(rec) ==
    /\ log' = Append(log, rec)
    /\ seq' = NextSeg
    /\ synced' = IF Full THEN Len(log) ELSE synced
    /\ UNCHANGED file

\* writeRecord succeeds.
Write(rec) == file = "open" /\ Put(rec) /\ UNCHANGED fails

\* writeRecord fails.  Once the file is gone it always does.  Otherwise the
\* roll's sync or the first byte fails and nothing changes, or a short write
\* leaves a fragment, or the roll fails after it closed the old file.
WriteFails ==
    \/ /\ file # "open"
       /\ UNCHANGED <<walVars, fails>>
    \/ /\ file = "open"
       /\ fails < MaxFail
       /\ fails' = fails + 1
       /\ \/ UNCHANGED walVars
          \/ Put([kind |-> "torn", seg |-> NextSeg])
          \/ /\ Full
             /\ file' = "broken"
             /\ synced' = Len(log)
             /\ UNCHANGED <<log, seq>>

\* Mutant: nothing is flushed.
SyncSkipped == file = "open" /\ UNCHANGED <<walVars, fails>>

\* WAL.sync: the active segment is flushed; the others were when they were rolled.
SyncOK ==
    /\ file = "open"
    /\ synced' = Len(log)
    /\ UNCHANGED <<log, seq, file, fails>>

SyncFails ==
    \/ /\ file # "open"
       /\ UNCHANGED <<walVars, fails>>
    \/ /\ file = "open"
       /\ fails < MaxFail
       /\ fails' = fails + 1
       /\ UNCHANGED walVars

-----------------------------------------------------------------------------
(* Appender.Commit *)

\* Where Commit goes on once the new series are logged.
AfterSeries(a) == IF pending[a] = <<>> THEN "sync" ELSE "logSamples"

Commit(a) ==
    /\ mode = "up"
    /\ pc[a] = "stage"
    /\ Goto(a, IF newSeries[a] = <<>> THEN AfterSeries(a) ELSE "logSeries", 1)
    /\ UNCHANGED <<headVars, walVars, replayVars, lowWater, acked, crashes, fails>>

\* logSeries for the next new series.
LogSeries(a) ==
    /\ mode = "up"
    /\ pc[a] = "logSeries"
    /\ LET s == newSeries[a][idx[a]]
       IN  Write([kind |-> "series", seg |-> NextSeg, ref |-> s.ref, l |-> s.l])
    /\ IF idx[a] < Len(newSeries[a])
       THEN Goto(a, "logSeries", idx[a] + 1)
       ELSE Goto(a, AfterSeries(a), 1)
    /\ UNCHANGED <<headVars, replayVars, lowWater, acked, crashes>>

\* Mutant: the first sample is applied with the write, before the sync.
LogSamplesAppliesOne(a) ==
    /\ pc[a] = "logSamples"
    /\ Write([kind |-> "samples", seg |-> NextSeg, samples |-> pending[a]])
    /\ AppendSample(pending[a][1].ref, pending[a][1].t, pending[a][1].v)
    /\ Goto(a, "sync", 1)
    /\ UNCHANGED <<replayVars, lowWater, acked, crashes>>

\* logSamples: one record holds the whole batch.
LogSamples(a) ==
    /\ mode = "up"
    /\ pc[a] = "logSamples"
    /\ Write([kind |-> "samples", seg |-> NextSeg, samples |-> pending[a]])
    /\ Goto(a, "sync", 1)
    /\ UNCHANGED <<headVars, replayVars, lowWater, acked, crashes>>

\* sync; an empty batch is then done.
Sync(a) ==
    /\ mode = "up"
    /\ pc[a] = "sync"
    /\ SyncOK
    /\ IF pending[a] = <<>> THEN Fresh(a) ELSE Goto(a, "apply", 1)
    /\ UNCHANGED <<headVars, replayVars, lowWater, acked, crashes>>

\* Mutant: the error of sync is dropped.
SyncErrorDropped(a) ==
    /\ mode = "up"
    /\ pc[a] = "sync" /\ pending[a] # <<>> /\ SyncFails
    /\ Goto(a, "apply", 1)
    /\ UNCHANGED <<headVars, replayVars, lowWater, acked, crashes>>

\* A WAL error: Commit returns it, with the batch neither applied to the head
\* nor rolled back, and the caller drops the appender.
CommitFails(a) ==
    /\ mode = "up"
    /\ \/ pc[a] \in {"logSeries", "logSamples"} /\ WriteFails
       \/ pc[a] = "sync" /\ SyncFails
    /\ Fresh(a)
    /\ UNCHANGED <<headVars, replayVars, lowWater, acked, crashes>>

\* The samples of a's batch, as its caller knows them.
Batch(a) == {[l |-> pending[a][i].l, t |-> pending[a][i].t, v |-> pending[a][i].v] :
                i \in DOMAIN pending[a]}

\* appendSample for the next staged sample; after the last, Commit returns nil.
Apply(a) ==
    /\ mode = "up"
    /\ pc[a] = "apply"
    /\ LET s == pending[a][idx[a]]
       IN  AppendSample(s.ref, s.t, s.v)
    /\ IF idx[a] < Len(pending[a])
       THEN /\ Goto(a, "apply", idx[a] + 1)
            /\ UNCHANGED acked
       ELSE /\ Fresh(a)
            /\ acked' = acked \cup Batch(a)
    /\ UNCHANGED <<walVars, replayVars, lowWater, crashes, fails>>

-----------------------------------------------------------------------------
(* DB.Truncate, called by retentionLoop with an advancing cut-off, and Close *)

Truncate(minT) ==
    /\ mode = "up"
    /\ minT > lowWater
    /\ TruncateHead(minT)
    /\ lowWater' = minT
    /\ UNCHANGED <<appVars, walVars, replayVars, acked, crashes, fails>>

\* main defers Close while HTTP handlers and scrape loops may still be writing.
Close ==
    /\ mode = "up"
    /\ file = "open"
    /\ file' = "closed"
    /\ synced' = Len(log)
    /\ UNCHANGED <<headVars, appVars, log, seq, replayVars, lowWater, acked, crashes, fails>>

-----------------------------------------------------------------------------
(* Crashes, and Open *)

\* The process is gone, and is started again: Open begins to replay.
Restart ==
    /\ crashes < MaxCrash
    /\ crashes' = crashes + 1
    /\ series' = [r \in {} |-> r]
    /\ lastRef' = 0
    /\ pc' = [a \in Appender |-> "stage"]
    /\ newSeries' = [a \in Appender |-> <<>>]
    /\ pending' = [a \in Appender |-> <<>>]
    /\ idx' = [a \in Appender |-> 1]
    /\ mode' = "replay"
    /\ pos' = 1
    /\ sub' = 1
    /\ file' = "open"
    /\ UNCHANGED <<seq, lowWater, acked, fails>>

\* The process dies; what it wrote stays in the files, synced or not.
Kill ==
    /\ Restart
    /\ UNCHANGED <<log, synced>>

\* The machine loses power: a part of what was not synced is lost, and the
\* record at the cut may be torn.
PowerLoss ==
    /\ Restart
    /\ \E n \in synced .. Len(log) :
         /\ \/ log' = SubSeq(log, 1, n)
            \/ /\ n < Len(log)
               /\ log' = Append(SubSeq(log, 1, n), [kind |-> "torn", seg |-> log[n + 1].seg])
         /\ synced' = n

NextRecord == pos' = pos + 1 /\ sub' = 1

\* openWAL: the database accepts writes, into the last segment file.
OpenDone == mode' = "up" /\ pos' = 1 /\ sub' = 1

\* applyRecord for a series record.
ReplaySeries ==
    /\ mode = "replay"
    /\ pos <= Len(log)
    /\ log[pos].kind = "series"
    /\ AddSeriesWithRef(log[pos].ref, log[pos].l)
    /\ NextRecord
    /\ UNCHANGED <<appVars, walVars, mode, lowWater, acked, crashes, fails>>

\* applyRecord for a samples record, one sample at a time.
ReplaySample ==
    /\ mode = "replay"
    /\ pos <= Len(log)
    /\ log[pos].kind = "samples"
    /\ LET s == log[pos].samples[sub]
       IN  AppendSample(s.ref, s.t, s.v)
    /\ IF sub < Len(log[pos].samples)
       THEN sub' = sub + 1 /\ UNCHANGED pos
       ELSE NextRecord
    /\ UNCHANGED <<appVars, walVars, mode, lowWater, acked, crashes, fails>>

\* Mutant: the file is left as it is.
SegmentNotTruncated == UNCHANGED <<log, synced, seq>>

\* replaySegment truncates the file at the fragment: records pos .. cut - 1 are
\* the rest of its segment ...
TruncateSegment ==
    \E cut \in pos + 1 .. Len(log) + 1 :
        /\ \A q \in pos .. cut - 1 : log[q].seg = log[pos].seg
        /\ cut <= Len(log) => log[cut].seg # log[pos].seg
        /\ log' = SubSeq(log, 1, pos - 1) \o SubSeq(log, cut, Len(log))
        /\ synced' = CASE synced < pos -> synced
                       [] pos <= synced /\ synced < cut -> pos - 1
                       [] cut <= synced -> synced - (cut - pos)
        /\ UNCHANGED seq

\* ... and stops without an error when the fragment runs past the end of the
\* file, which its length field may also do when whole records follow it: the
\* later segments are left as they are.
ReplayTorn ==
    /\ mode = "replay"
    /\ pos <= Len(log)
    /\ log[pos].kind = "torn"
    /\ TruncateSegment
    /\ OpenDone
    /\ UNCHANGED <<headVars, appVars, file, lowWater, acked, crashes, fails>>

\* A fragment that ends inside the file has a bad CRC: the file is truncated and
\* the later segments are removed; Open returns an error and a usable DB.
ReplayCorrupt ==
    /\ mode = "replay"
    /\ pos < Len(log)
    /\ log[pos].kind = "torn"
    /\ log[pos + 1].seg = log[pos].seg
    /\ log' = SubSeq(log, 1, pos - 1)
    /\ synced' = IF synced < pos THEN synced ELSE pos - 1
    /\ seq' = log[pos].seg
    /\ OpenDone
    /\ UNCHANGED <<headVars, appVars, file, lowWater, acked, crashes, fails>>

\* Every segment was read to its end; openWAL opens the last one.
ReplayDone ==
    /\ mode = "replay"
    /\ pos > Len(log)
    /\ OpenDone
    /\ UNCHANGED <<headVars, appVars, walVars, lowWater, acked, crashes, fails>>

-----------------------------------------------------------------------------
Next ==
    \/ \E a \in Appender :
         \/ \E l \in Label : \/ \E t \in Time : \E v \in Value : AppendOK(a, l, t, v)
                             \/ AppendRejected(a, l)
         \/ Rollback(a)
         \/ Commit(a)
         \/ LogSeries(a)
         \/ LogSamples(a)
         \/ Sync(a)
         \/ CommitFails(a)
         \/ Apply(a)
    \/ \E minT \in MinT : Truncate(minT)
    \/ Close
    \/ Kill
    \/ PowerLoss
    \/ ReplaySeries
    \/ ReplaySample
    \/ ReplayTorn
    \/ ReplayCorrupt
    \/ ReplayDone

Spec == Init /\ [][Next]_vars

-----------------------------------------------------------------------------
(* Properties *)

\* Every sample in the head stands in the log, and was staged for exactly the
\* label set it is found under: samples are applied after they are logged
\* (Commit), and neither concurrent appenders, references reused after a crash
\* nor replay (which knows a sample by its reference only) mix up two series.
HeadFromLog ==
    \A r \in DOMAIN series : \A t \in DOMAIN series[r].samples :
        \E p \in DOMAIN log :
            /\ log[p].kind = "samples"
            /\ \E i \in DOMAIN log[p].samples :
                  log[p].samples[i] = [ref |-> r, l |-> series[r].labels,
                                       t |-> t, v |-> series[r].samples[t]]

\* What a live batch shows to a reader is durable: when an appender applies its
\* samples (Commit, after sync), the record that holds them is on disk.
AppliedIsDurable ==
    \A a \in Appender : pc[a] = "apply" =>
        \E p \in 1 .. synced : log[p].kind = "samples" /\ log[p].samples = pending[a]

\* Until a restart replays the log, a reader sees no sample whose batch has not
\* been synced: what it finds is acknowledged, or of a batch whose Commit has
\* passed its last error return.  A failed or rolled back batch never shows.
OnlyCommittedVisible ==
    crashes = 0 =>
        \A r \in DOMAIN series : \A t \in DOMAIN series[r].samples :
            [l |-> series[r].labels, t |-> t, v |-> series[r].samples[t]]
                \in acked \cup UNION {Batch(a) : a \in {b \in Appender : pc[b] = "apply"}}

\* No two series of the head have the same label set: a lookup (acquire) and a
\* query then agree on what the series is.  (As long as no system call of the log
\* fails, here and below.)
UniqueLabels ==
    fails = 0 => \A r, s \in DOMAIN series : series[r].labels = series[s].labels => r = s

\* The sample is in the head, with this or an earlier value of its timestamp.
Holds(s) == \E r \in RefsOf(s.l) : s.t \in DOMAIN series[r].samples

\* A committed batch survives a kill and a power loss (WAL.sync), and stays in
\* the head until retention drops it.
CommittedSurvives ==
    mode = "up" /\ fails = 0 => \A s \in acked : s.t >= lowWater => Holds(s)

\* Once the appenders are between two batches, no series of the head is empty:
\* Rollback and Commit leave nothing that holds a slot of the cardinality cap.
\* (Replay may, as a crash can separate the series record from its samples, and
\* so does a Commit that fails.)
NoLeakedSlot ==
    (crashes = 0 /\ fails = 0 /\ file = "open"
        /\ \A a \in Appender : pc[a] = "stage" /\ pending[a] = <<>>)
        => \A r \in DOMAIN series : DOMAIN series[r].samples # {}

\* Every slot of the cap is held by one series that has samples.
SlotsSound == NoLeakedSlot /\ UniqueLabels

\* appendSample never meets a missing reference.
RefPresent ==
    \A a \in Appender : pc[a] = "apply" => pending[a][idx[a]].ref \in DOMAIN series

\* Recovery leaves nothing behind that a later Open would bring back: when
\* Open returns, every record of the log has been replayed.
RecoveryIsFinal ==
    [][mode = "replay" /\ mode' = "up" /\ fails = 0 => Len(log') < pos]_vars

\* The segment openWAL appends to has no torn tail.
LastSegmentClean ==
    [][mode = "replay" /\ mode' = "up" /\ fails = 0 =>
         \A p \in DOMAIN log' : log'[p].seg = seq' => log'[p].kind # "torn"]_vars

\* Recovery is complete and leaves a log that can be appended to.
RecoverySound == RecoveryIsFinal /\ LastSegmentClean

\* A value never changes while the process runs, and only Truncate drops one.
FirstValueKept ==
    [][mode = "up" /\ mode' = "up" =>
         \A r \in DOMAIN series : \A t \in DOMAIN series[r].samples :
            \/ r \in DOMAIN series' /\ t \in DOMAIN series'[r].samples
                                    /\ series'[r].samples[t] = series[r].samples[t]
            \/ t < lowWater']_vars

\* The appender is between the first write of Commit and its sync.
Logging(a) == pc[a] \in {"logSeries", "logSamples", "sync"}

Callers == INSTANCE Store
        WITH pc <- [a \in Appender |-> IF Logging(a) THEN "log" ELSE pc[a]],
             idx <- [a \in Appender |-> IF Logging(a) THEN 1 ELSE idx[a]]

\* While the process runs, the log is invisible to the callers of an appender: a
\* step is one of module Store, which knows Commit as a failure or a success at
\* one instant, or none.
ImplementsStore ==
    /\ Callers!StoreInit
    /\ [][mode = "up" /\ mode' = "up" => Callers!StoreNext \/ UNCHANGED Callers!storeVars]_vars
=============================================================================
