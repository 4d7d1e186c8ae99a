-------------------------------- MODULE Store --------------------------------
(***************************************************************************)
(* What the appenders of the storage engine (internal/tsdb/tsdb.go)        *)
(* promise to their callers, without the log: a batch is staged, then      *)
(* rolled back, or committed, which fails as a whole or makes the batch    *)
(* durable at one instant and then applies it sample by sample.  Module DB *)
(* implements it with a write-ahead log, between two crashes; a database   *)
(* in memory (Open without a directory) is this module without Fails.      *)
(***************************************************************************)
EXTENDS Head, Sequences

CONSTANTS
    Appender,   \* the goroutines that write
    MinT        \* the cut-off times retentionLoop may pass to Truncate

VARIABLES
    pc,         \* per appender: "stage", "log", "apply" or "rollback"
    newSeries,  \* appender.newSeries: <<[ref, l], ...>>
    pending,    \* appender.pending: <<[ref, l, t, v], ...>>
    idx         \* the loop index of Commit or Rollback

batchVars == <<pc, newSeries, pending, idx>>
storeVars == <<headVars, batchVars>>

Staged == [ref : Ref, l : Label, t : Time, v : Value]

StoreTypeOK ==
    /\ HeadTypeOK
    /\ pc \in [Appender -> {"stage", "log", "apply", "rollback"}]
    /\ newSeries \in [Appender -> Seq([ref : Ref, l : Label])]
    /\ pending \in [Appender -> Seq(Staged)]
    /\ idx \in [Appender -> Nat \ {0}]

StoreInit ==
    /\ HeadInit
    /\ pc = [a \in Appender |-> "stage"]
    /\ newSeries = [a \in Appender |-> <<>>]
    /\ pending = [a \in Appender |-> <<>>]
    /\ idx = [a \in Appender |-> 1]

-----------------------------------------------------------------------------
\* The batch is over; the caller's next one begins with a fresh appender.
Over(a) ==
    /\ pc' = [pc EXCEPT ![a] = "stage"]
    /\ newSeries' = [newSeries EXCEPT ![a] = <<>>]
    /\ pending' = [pending EXCEPT ![a] = <<>>]
    /\ idx' = [idx EXCEPT ![a] = 1]

Moves(a, label, i) ==
    /\ pc' = [pc EXCEPT ![a] = label]
    /\ idx' = [idx EXCEPT ![a] = i]
    /\ UNCHANGED <<newSeries, pending>>

Stages(a, r, l, t, v) ==
    pending' = [pending EXCEPT ![a] = Append(@, [ref |-> r, l |-> l, t |-> t, v |-> v])]

\* Append finds the series, or creates it, and stages the sample.
AddSample(a, l, t, v) ==
    /\ pc[a] = "stage"
    /\ \/ \E r \in RefsOf(l) :
            /\ Found(l, r)
            /\ Stages(a, r, l, t, v)
            /\ UNCHANGED newSeries
       \/ /\ Created(l, lastRef + 1)
          /\ Stages(a, lastRef + 1, l, t, v)
          /\ newSeries' = [newSeries EXCEPT ![a] = Append(@, [ref |-> lastRef + 1, l |-> l])]
    /\ UNCHANGED <<pc, idx>>

\* Append returns ErrTooManySeries, and the caller calls Rollback ...
Rejected(a, l) ==
    /\ pc[a] = "stage"
    /\ TooManySeries(l)
    /\ Moves(a, "rollback", 1)

\* ... which gives back the series that the batch created, if they are still empty.
RollBack(a) ==
    /\ pc[a] = "rollback"
    /\ IF idx[a] <= Len(newSeries[a])
       THEN /\ ReclaimIfEmpty(newSeries[a][idx[a]].ref)
            /\ Moves(a, "rollback", idx[a] + 1)
       ELSE /\ Over(a)
            /\ UNCHANGED headVars

CommitCalled(a) ==
    /\ pc[a] = "stage"
    /\ Moves(a, "log", 1)
    /\ UNCHANGED headVars

\* The batch is durable.
Logged(a) ==
    /\ pc[a] = "log"
    /\ IF pending[a] = <<>> THEN Over(a) ELSE Moves(a, "apply", 1)
    /\ UNCHANGED headVars

\* It is not, and Commit returns an error.
Fails(a) ==
    /\ pc[a] = "log"
    /\ Over(a)
    /\ UNCHANGED headVars

\* The next sample is applied; after the last, Commit returns nil.
Applies(a) ==
    /\ pc[a] = "apply"
    /\ LET s == pending[a][idx[a]]
       IN  AppendSample(s.ref, s.t, s.v)
    /\ IF idx[a] < Len(pending[a]) THEN Moves(a, "apply", idx[a] + 1) ELSE Over(a)

Cut(minT) ==
    /\ TruncateHead(minT)
    /\ UNCHANGED batchVars

StoreNext ==
    \/ \E a \in Appender :
         \/ \E l \in Label : \/ \E t \in Time, v \in Value : AddSample(a, l, t, v)
                             \/ Rejected(a, l)
         \/ RollBack(a) \/ CommitCalled(a) \/ Logged(a) \/ Fails(a) \/ Applies(a)
    \/ \E minT \in MinT : Cut(minT)
=============================================================================
