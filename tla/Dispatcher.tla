----------------------------- MODULE Dispatcher -----------------------------
(***************************************************************************)
(* The outbound notifier (internal/alerts/notify/dispatcher.go): alert     *)
(* evaluations offer notifications to a bounded channel, one worker takes  *)
(* them off, filters them by severity and sends them with bounded retry,   *)
(* and Stop drains the channel within a grace window.                      *)
(*                                                                         *)
(* Enqueue, Start and Stop hold d.mu; the worker does not.  The worker's   *)
(* context derives from the one main cancels on SIGTERM, before it calls   *)
(* Stop.  omni-notify itself is a choice among the answers Client.Send     *)
(* can return.                                                             *)
(***************************************************************************)
EXTENDS Integers, Sequences

CONSTANTS
    Producer,       \* goroutines that evaluate rules
    Notification,   \* each is offered at most once
    Severity,       \* Notification -> the free-form severity of its rule
    MinSeverity,    \* Config.MinSeverity, "" admits everything
    QueueSize,      \* Config.QueueSize
    MaxRetries      \* Config.MaxRetries

ASSUME QueueSizeAssumption == QueueSize \in Nat \ {0}
ASSUME MaxRetriesAssumption == MaxRetries \in Nat

None == "none"

ASSUME NoneAssumption == None \notin Notification \cup Producer

VARIABLES
    mu,         \* who holds d.mu: a producer, or None
    holding,    \* the notification each producer is about to send to the channel
    offered,    \* notifications for which Enqueue has been called
    ch,         \* the channel's buffer
    closed,     \* the channel is closed
    stopped,    \* d.stopped
    ctx,        \* the worker's context: None, "live" or "canceled"
    signalled,  \* the parent context is canceled
    worker,     \* None, "idle", "call", "wait", "backoff" or "exited"
    cur,        \* the notification the worker processes
    attempt,    \* its retries so far
    stopper,    \* the Stop call: None, "drain", "canceled" or "returned"
    started,    \* Stop's local: the worker was running
    accepted,   \* history: the notifications sent to the channel, in order
    settled,    \* history: <<notification, outcome>>, in order
    panicked    \* a send on the closed channel

vars == <<mu, holding, offered, ch, closed, stopped, ctx, signalled, worker, cur, attempt,
          stopper, started, accepted, settled, panicked>>
queueVars == <<mu, holding, offered, accepted, panicked>>
stopVars == <<closed, stopped, stopper, started>>
workerVars == <<worker, cur, attempt, settled>>

Outcome == {"sent", "permanent", "giveup", "canceled", "filtered"}

TypeOK ==
    /\ mu \in Producer \cup {None}
    /\ holding \in [Producer -> Notification \cup {None}]
    /\ offered \subseteq Notification
    /\ ch \in Seq(Notification) /\ Len(ch) <= QueueSize
    /\ closed \in BOOLEAN /\ stopped \in BOOLEAN /\ signalled \in BOOLEAN
    /\ ctx \in {None, "live", "canceled"}
    /\ worker \in {None, "idle", "call", "wait", "backoff", "exited"}
    /\ cur \in Notification \cup {None}
    /\ attempt \in 0 .. MaxRetries
    /\ stopper \in {None, "drain", "canceled", "returned"}
    /\ started \in BOOLEAN
    /\ accepted \in Seq(Notification)
    /\ settled \in Seq(Notification \X Outcome)
    /\ panicked \in BOOLEAN

Init ==
    /\ mu = None
    /\ holding = [p \in Producer |-> None]
    /\ offered = {}
    /\ ch = <<>>
    /\ closed = FALSE /\ stopped = FALSE /\ signalled = FALSE
    /\ ctx = None
    /\ worker = None
    /\ cur = None
    /\ attempt = 0
    /\ stopper = None
    /\ started = FALSE
    /\ accepted = <<>>
    /\ settled = <<>>
    /\ panicked = FALSE

-----------------------------------------------------------------------------
(* Severities *)

severityRank == [critical |-> 5, error |-> 4, warning |-> 3, info |-> 2, debug |-> 1]

MapSeverity(s) == IF s \in DOMAIN severityRank THEN s ELSE "warning"

meetsMin(min, s) == min = "" \/ severityRank[s] >= severityRank[min]

-----------------------------------------------------------------------------
(* Enqueue: it takes d.mu and looks at d.stopped ... *)

\* Mutant: d.mu is given up between the check and the send.
EnqueueUnlocked(p, n) ==
    /\ mu = None
    /\ holding[p] = None /\ n \notin offered
    /\ offered' = offered \cup {n}
    /\ holding' = [holding EXCEPT ![p] = IF stopped THEN None ELSE n]
    /\ UNCHANGED <<mu, ch, accepted, panicked, stopVars, ctx, signalled, workerVars>>

Enqueue(p, n) ==
    /\ mu = None
    /\ holding[p] = None
    /\ n \notin offered
    /\ offered' = offered \cup {n}
    /\ IF stopped
       THEN UNCHANGED <<mu, holding>>
       ELSE /\ mu' = p
            /\ holding' = [holding EXCEPT ![p] = n]
    /\ UNCHANGED <<ch, accepted, panicked, stopVars, ctx, signalled, workerVars>>

Release(p) ==
    /\ mu' = None
    /\ holding' = [holding EXCEPT ![p] = None]

\* ... and then sends without blocking: a full channel drops the notification.
Offer(p) ==
    /\ holding[p] # None
    /\ Release(p)
    /\ IF closed
       THEN /\ panicked' = TRUE
            /\ UNCHANGED <<ch, accepted>>
       ELSE /\ IF Len(ch) < QueueSize
               THEN /\ ch' = Append(ch, holding[p])
                    /\ accepted' = Append(accepted, holding[p])
               ELSE UNCHANGED <<ch, accepted>>
            /\ UNCHANGED panicked
    /\ UNCHANGED <<offered, stopVars, ctx, signalled, workerVars>>

-----------------------------------------------------------------------------
(* The context, Start and Stop *)

\* SIGTERM: the context that Start was or will be given is canceled.
Signal ==
    /\ ~signalled
    /\ signalled' = TRUE
    /\ ctx' = IF ctx = "live" THEN "canceled" ELSE ctx
    /\ UNCHANGED <<queueVars, ch, stopVars, workerVars>>

\* Start, once; main runs it in a goroutine, so it may even come after Stop.
Start ==
    /\ mu = None
    /\ ctx = None
    /\ ctx' = IF signalled THEN "canceled" ELSE "live"
    /\ worker' = "idle"
    /\ UNCHANGED <<queueVars, ch, stopVars, signalled, cur, attempt, settled>>

\* Stop, up to where it waits for the worker.
Stop ==
    /\ mu = None
    /\ ~stopped
    /\ stopped' = TRUE
    /\ closed' = TRUE
    /\ started' = (ctx # None)
    /\ stopper' = IF ctx # None THEN "drain" ELSE "returned"
    /\ UNCHANGED <<queueVars, ch, ctx, signalled, workerVars>>

\* The grace window ends: Stop cancels the worker's context and waits on.
GraceExpires ==
    /\ stopper = "drain"
    /\ stopper' = "canceled"
    /\ ctx' = "canceled"
    /\ UNCHANGED <<queueVars, ch, closed, stopped, started, signalled, workerVars>>

StopReturn ==
    /\ stopper \in {"drain", "canceled"}
    /\ worker = "exited"
    /\ stopper' = "returned"
    /\ UNCHANGED <<queueVars, ch, closed, stopped, started, ctx, signalled, workerVars>>

-----------------------------------------------------------------------------
(* The worker *)

Settle(outcome) ==
    /\ settled' = Append(settled, <<cur, outcome>>)
    /\ cur' = None
    /\ attempt' = 0
    /\ worker' = "idle"

\* range d.ch, and process up to sendWithRetry.
Receive ==
    /\ worker = "idle"
    /\ ch # <<>>
    /\ ch' = Tail(ch)
    /\ IF meetsMin(MinSeverity, MapSeverity(Severity[Head(ch)]))
       THEN /\ cur' = Head(ch)
            /\ worker' = "call"
            /\ UNCHANGED <<attempt, settled>>
       ELSE /\ settled' = Append(settled, <<Head(ch), "filtered">>)
            /\ UNCHANGED <<cur, attempt, worker>>
    /\ UNCHANGED <<queueVars, stopVars, ctx, signalled>>

\* Mutant: a canceled worker leaves what is in the channel.
ExitWhenCanceled ==
    /\ worker = "idle"
    /\ ctx = "canceled" \/ (closed /\ ch = <<>>)
    /\ worker' = "exited"
    /\ UNCHANGED <<queueVars, ch, stopVars, ctx, signalled, cur, attempt, settled>>

\* The channel is closed and drained.
Exit ==
    /\ worker = "idle"
    /\ closed
    /\ ch = <<>>
    /\ worker' = "exited"
    /\ UNCHANGED <<queueVars, ch, stopVars, ctx, signalled, cur, attempt, settled>>

\* Send posts the event, or fails at once if the context is canceled.
Call ==
    /\ worker = "call"
    /\ IF ctx = "canceled"
       THEN Settle("canceled")
       ELSE worker' = "wait" /\ UNCHANGED <<cur, attempt, settled>>
    /\ UNCHANGED <<queueVars, ch, stopVars, ctx, signalled>>

\* The answer is a 2xx ...
SendOK ==
    /\ worker = "wait"
    /\ Settle("sent")
    /\ UNCHANGED <<queueVars, ch, stopVars, ctx, signalled>>

\* ... or a 4xx ...
SendPermanent ==
    /\ worker = "wait"
    /\ Settle("permanent")
    /\ UNCHANGED <<queueVars, ch, stopVars, ctx, signalled>>

\* ... or a 5xx, a transport error, a timeout, or the context is canceled.
SendFails ==
    /\ worker = "wait"
    /\ CASE ctx = "canceled" -> Settle("canceled")
         [] ctx # "canceled" /\ attempt >= MaxRetries -> Settle("giveup")
         [] ctx # "canceled" /\ attempt < MaxRetries ->
              worker' = "backoff" /\ UNCHANGED <<cur, attempt, settled>>
    /\ UNCHANGED <<queueVars, ch, stopVars, ctx, signalled>>

\* Mutant: the retry goes to the end of the queue.
BackoffRequeues ==
    /\ worker = "backoff"
    /\ worker' = "idle"
    /\ ch' = Append(ch, cur)
    /\ cur' = None
    /\ UNCHANGED <<queueVars, attempt, settled, stopVars, ctx, signalled>>

\* The backoff timer fires, or the context is canceled; select takes any that is ready.
Backoff ==
    /\ worker = "backoff"
    /\ \/ /\ worker' = "call"
          /\ attempt' = attempt + 1
          /\ UNCHANGED <<cur, settled>>
       \/ /\ ctx = "canceled"
          /\ Settle("canceled")
    /\ UNCHANGED <<queueVars, ch, stopVars, ctx, signalled>>

Worker == Receive \/ Exit \/ Call \/ SendOK \/ SendPermanent \/ SendFails \/ Backoff

Next ==
    \/ \E p \in Producer : Offer(p) \/ \E n \in Notification : Enqueue(p, n)
    \/ Signal
    \/ Start
    \/ Stop
    \/ GraceExpires
    \/ StopReturn
    \/ Worker

\* The goroutines that can run do: the worker (each HTTP request has a timeout),
\* a producer inside Enqueue, and a Stop that has been called.  Nothing forces
\* a notification, Start, Stop or a signal.
Fairness ==
    /\ WF_vars(Worker)
    /\ WF_vars(GraceExpires)
    /\ WF_vars(StopReturn)
    /\ \A p \in Producer : WF_vars(Offer(p))

Spec == Init /\ [][Next]_vars /\ Fairness

-----------------------------------------------------------------------------
(* Properties *)

\* No notification is lost without an outcome, invented, settled twice or
\* overtaken: what was accepted is, in that order, settled, in the worker's
\* hands, or queued.  omni-notify never hears of a resolution before the firing.
FIFO ==
    accepted = [i \in DOMAIN settled |-> settled[i][1]]
                 \o (IF cur = None THEN <<>> ELSE <<cur>>) \o ch

\* Enqueue never sends on the channel that Stop closes, which would panic.
NoPanic == ~panicked

\* When Stop returns, the worker it found running has exited, with nothing left
\* behind: the service may close what the worker uses.
StopWaits == stopper = "returned" /\ started => worker = "exited" /\ ch = <<>> /\ cur = None

\* Stop returns, whatever omni-notify does.
StopReturns == stopped ~> stopper = "returned"

\* Once the worker runs, every accepted notification gets an outcome, also when
\* the signal, Stop and the end of the grace window overtake it.
AllSettled ==
    \A n \in Notification :
        ((\E i \in DOMAIN accepted : accepted[i] = n) /\ worker # None)
            ~> (\E i \in DOMAIN settled : settled[i][1] = n)

\* Stop drains the buffer within the grace window and only then cancels: as long
\* as the window is open, no notification is given up as canceled.
DrainedBeforeCancel ==
    [][stopper = "drain" =>
         \A i \in DOMAIN settled' \ DOMAIN settled : settled'[i][2] # "canceled"]_vars

\* What must hold of a shutdown at any moment, and what must come of it.
ShutdownSafe == TypeOK /\ NoPanic /\ StopWaits
EverythingEnds == StopReturns /\ AllSettled
=============================================================================
