-------------------------- MODULE DispatcherProofs --------------------------
(***************************************************************************)
(* The safety of the notifier, proved for every number of producers and    *)
(* notifications and every queue size and retry limit.                     *)
(***************************************************************************)
EXTENDS Dispatcher, SequenceTheorems, TLAPS

(***************************************************************************)
(* ShutdownSafe.  The strengthening: d.mu protects the channel from Stop   *)
(* between the check and the send, and the states of Start, Stop and the   *)
(* worker go together.                                                     *)
(***************************************************************************)
Locked == \A p \in Producer : holding[p] # None => mu = p /\ ~closed

Consistent ==
    /\ closed <=> stopped
    /\ stopped <=> stopper # None
    /\ worker = None <=> ctx = None
    /\ stopper = "drain" => ctx # None
    /\ worker \in {"call", "wait", "backoff"} <=> cur # None
    /\ worker = "backoff" => attempt < MaxRetries
    /\ worker = "exited" => closed /\ ch = <<>>

ShutdownInv == TypeOK /\ NoPanic /\ StopWaits /\ Locked /\ Consistent

LEMMA ShutdownInit == Init => ShutdownInv
<1> SUFFICES ASSUME Init PROVE ShutdownInv OBVIOUS
<1> USE DEF Init
<1>1. TypeOK
  <2>1. /\ ch \in Seq(Notification) /\ Len(ch) <= QueueSize
        /\ accepted \in Seq(Notification) /\ settled \in Seq(Notification \X Outcome)
        /\ attempt \in 0 .. MaxRetries
    BY MaxRetriesAssumption, QueueSizeAssumption
  <2>2. holding \in [Producer -> Notification \cup {None}] OBVIOUS
  <2> QED BY <2>1, <2>2 DEF TypeOK
<1>2. NoPanic /\ StopWaits /\ Locked BY DEF NoPanic, StopWaits, Locked, None
<1>3. Consistent BY DEF Consistent, None
<1> QED BY <1>1, <1>2, <1>3 DEF ShutdownInv

\* A producer's step.
LEMMA EnqueueInv ==
    ASSUME ShutdownInv, NEW p \in Producer, NEW n \in Notification, Enqueue(p, n)
    PROVE  ShutdownInv'
<1> USE NoneAssumption DEF ShutdownInv, Enqueue, stopVars, workerVars
<1>1. TypeOK'
  <2>1. CASE stopped BY <2>1 DEF TypeOK
  <2>2. CASE ~stopped
    <3>1. mu' \in Producer \cup {None} BY <2>2
    <3>2. holding' \in [Producer -> Notification \cup {None}] BY <2>2 DEF TypeOK
    <3> QED BY <3>1, <3>2 DEF TypeOK
  <2> QED BY <2>1, <2>2
<1>2. NoPanic' /\ StopWaits' BY DEF NoPanic, StopWaits
<1>3. Locked' BY DEF Locked, Consistent, TypeOK
<1>4. Consistent' BY DEF Consistent
<1> QED BY <1>1, <1>2, <1>3, <1>4

LEMMA OfferInv ==
    ASSUME ShutdownInv, NEW p \in Producer, Offer(p)
    PROVE  ShutdownInv'
<1> USE NoneAssumption, QueueSizeAssumption DEF ShutdownInv, Offer, Release, stopVars, workerVars
<1>1. ~closed /\ holding[p] \in Notification BY DEF Locked, TypeOK
<1>2. ch' \in Seq(Notification) /\ Len(ch') <= QueueSize /\ accepted' \in Seq(Notification)
  <2>1. CASE Len(ch) < QueueSize
    <3>1. ch' = Append(ch, holding[p]) /\ accepted' = Append(accepted, holding[p])
      BY <1>1, <2>1
    <3>2. Len(ch') = Len(ch) + 1 /\ Len(ch) \in Nat BY <1>1, <3>1 DEF TypeOK
    <3> QED BY <1>1, <2>1, <3>1, <3>2 DEF TypeOK
  <2>2. CASE ~(Len(ch) < QueueSize) BY <1>1, <2>2 DEF TypeOK
  <2> QED BY <2>1, <2>2
<1>3. TypeOK' BY <1>1, <1>2 DEF TypeOK
<1>4. NoPanic' BY <1>1 DEF NoPanic
<1>5. StopWaits' BY <1>1 DEF StopWaits, Consistent
<1>6. Locked' BY DEF Locked, TypeOK
<1>7. Consistent' BY <1>1 DEF Consistent
<1> QED BY <1>3, <1>4, <1>5, <1>6, <1>7

\* The context, Start and Stop.
LEMMA ControlInv ==
    ASSUME ShutdownInv, Signal \/ Start \/ Stop \/ GraceExpires \/ StopReturn
    PROVE  ShutdownInv'
<1> USE NoneAssumption DEF ShutdownInv, queueVars, stopVars, workerVars, None
<1>1. CASE Signal
  BY <1>1 DEF Signal, TypeOK, NoPanic, StopWaits, Locked, Consistent
<1>2. CASE Start
  BY <1>2 DEF Start, TypeOK, NoPanic, StopWaits, Locked, Consistent
<1>3. CASE Stop
  <2>1. \A p \in Producer : holding[p] = None BY <1>3 DEF Stop, Locked, TypeOK
  <2>2. TypeOK' /\ NoPanic' BY <1>3 DEF Stop, TypeOK, NoPanic
  <2>3. StopWaits' /\ Consistent' BY <1>3 DEF Stop, StopWaits, Consistent, TypeOK
  <2>4. Locked' BY <1>3, <2>1 DEF Stop, Locked
  <2> QED BY <2>2, <2>3, <2>4
<1>4. CASE GraceExpires
  <2> USE <1>4 DEF GraceExpires
  <2>1. TypeOK' /\ NoPanic' BY DEF TypeOK, NoPanic
  <2>2. StopWaits' /\ Locked' BY DEF StopWaits, Locked
  <2>3. Consistent' BY DEF Consistent, TypeOK
  <2> QED BY <2>1, <2>2, <2>3
<1>5. CASE StopReturn
  BY <1>5 DEF StopReturn, TypeOK, NoPanic, StopWaits, Locked, Consistent
<1> QED BY <1>1, <1>2, <1>3, <1>4, <1>5

\* The worker settles what it has in its hands.
LEMMA SettleInv ==
    ASSUME ShutdownInv, NEW o \in Outcome, Settle(o), worker \in {"call", "wait", "backoff"},
           UNCHANGED <<queueVars, ch, stopVars, ctx, signalled>>
    PROVE  ShutdownInv'
<1> USE NoneAssumption, MaxRetriesAssumption DEF ShutdownInv, Settle, queueVars, stopVars
<1>1. cur \in Notification BY DEF Consistent, TypeOK
<1>2. settled' \in Seq(Notification \X Outcome) BY <1>1 DEF TypeOK
<1>3. TypeOK' BY <1>2 DEF TypeOK
<1>4. NoPanic' /\ Locked' BY DEF NoPanic, Locked
<1>5. StopWaits' BY DEF StopWaits, Consistent
<1>6. Consistent' BY DEF Consistent, None
<1> QED BY <1>3, <1>4, <1>5, <1>6

LEMMA WorkerInv ==
    ASSUME ShutdownInv, Worker
    PROVE  ShutdownInv'
<1> USE NoneAssumption, MaxRetriesAssumption, QueueSizeAssumption
    DEF ShutdownInv, queueVars, stopVars
<1>1. CASE Receive
  <2>1. Head(ch) \in Notification /\ ch' \in Seq(Notification) /\ Len(ch') <= QueueSize
    BY <1>1 DEF Receive, TypeOK
  <2>2. settled' \in Seq(Notification \X Outcome)
    <3>1. <<Head(ch), "filtered">> \in Notification \X Outcome BY <2>1 DEF Outcome
    <3>2. settled' = settled \/ settled' = Append(settled, <<Head(ch), "filtered">>)
      BY <1>1 DEF Receive
    <3>3. settled \in Seq(Notification \X Outcome) BY DEF TypeOK
    <3>4. Append(settled, <<Head(ch), "filtered">>) \in Seq(Notification \X Outcome)
      BY <3>1, <3>3, AppendProperties
    <3> QED BY <3>2, <3>3, <3>4
  <2>3. TypeOK' BY <1>1, <2>1, <2>2 DEF Receive, TypeOK
  <2>4. NoPanic' /\ Locked' BY <1>1 DEF Receive, NoPanic, Locked
  <2>5. StopWaits' BY <1>1 DEF Receive, StopWaits
  <2>6. Consistent' BY <1>1, <2>1 DEF Receive, Consistent, None
  <2> QED BY <2>3, <2>4, <2>5, <2>6
<1>2. CASE Exit
  BY <1>2 DEF Exit, TypeOK, NoPanic, StopWaits, Locked, Consistent, None
<1>3. CASE Call
  <2>1. CASE ctx = "canceled" BY <1>3, <2>1, SettleInv DEF Call, Outcome
  <2>2. CASE ctx # "canceled"
    BY <1>3, <2>2 DEF Call, TypeOK, NoPanic, StopWaits, Locked, Consistent, None
  <2> QED BY <2>1, <2>2
<1>4. CASE SendOK BY <1>4, SettleInv DEF SendOK, Outcome
<1>5. CASE SendPermanent BY <1>5, SettleInv DEF SendPermanent, Outcome
<1>6. CASE SendFails
  <2>1. CASE ctx = "canceled" BY <1>6, <2>1, SettleInv DEF SendFails, Outcome
  <2>2. CASE ctx # "canceled" /\ attempt >= MaxRetries
    <3>0. ~(attempt < MaxRetries) BY <2>2 DEF TypeOK
    <3>1. worker = "wait" /\ Settle("giveup") BY <1>6, <2>2, <3>0 DEF SendFails
    <3> QED BY <1>6, <3>1, SettleInv DEF SendFails, Outcome
  <2>3. CASE ctx # "canceled" /\ attempt < MaxRetries
    <3>1. worker = "wait" /\ worker' = "backoff" /\ UNCHANGED <<cur, attempt, settled>>
      BY <1>6, <2>3 DEF SendFails, TypeOK
    <3> QED
      BY <1>6, <2>3, <3>1
         DEF SendFails, TypeOK, NoPanic, StopWaits, Locked, Consistent, None
  <2> QED BY <2>1, <2>2, <2>3 DEF TypeOK
<1>7. CASE Backoff
  <2>1. CASE worker' = "call" /\ attempt' = attempt + 1 /\ UNCHANGED <<cur, settled>>
    BY <1>7, <2>1 DEF Backoff, TypeOK, NoPanic, StopWaits, Locked, Consistent, None
  <2>2. CASE Settle("canceled") BY <1>7, <2>2, SettleInv DEF Backoff, Outcome
  <2> QED BY <1>7, <2>1, <2>2 DEF Backoff
<1> QED BY <1>1, <1>2, <1>3, <1>4, <1>5, <1>6, <1>7 DEF Worker

LEMMA ShutdownStep == ShutdownInv /\ [Next]_vars => ShutdownInv'
<1> SUFFICES ASSUME ShutdownInv, [Next]_vars PROVE ShutdownInv' OBVIOUS
<1>1. CASE \E p \in Producer : Offer(p) \/ \E n \in Notification : Enqueue(p, n)
  BY <1>1, OfferInv, EnqueueInv
<1>2. CASE Signal \/ Start \/ Stop \/ GraceExpires \/ StopReturn BY <1>2, ControlInv
<1>3. CASE Worker BY <1>3, WorkerInv
<1>4. CASE UNCHANGED vars
  BY <1>4 DEF vars, ShutdownInv, TypeOK, NoPanic, StopWaits, Locked, Consistent
<1> QED BY <1>1, <1>2, <1>3, <1>4 DEF Next

LEMMA ShutdownInvariant == Spec => []ShutdownInv
BY ShutdownInit, ShutdownStep, PTL DEF Spec

\* Whatever the interleaving of evaluations, Start, the signal, Stop and its grace
\* timer, Enqueue never sends on the closed channel (dispatcher.go:62-79 against
\* 96-109), and when Stop returns, the worker it waited for has left nothing.
THEOREM Shutdown == Spec => []ShutdownSafe
BY ShutdownInvariant, PTL DEF ShutdownInv, ShutdownSafe

(***************************************************************************)
(* FIFO.  It needs of ShutdownInv that a producer never meets the closed   *)
(* channel, and that an idle worker has nothing in its hands.              *)
(***************************************************************************)
Handled(s) == [i \in DOMAIN s |-> s[i][1]]
InHand == IF cur = None THEN <<>> ELSE <<cur>>

LEMMA HandledAppend ==
    ASSUME NEW s \in Seq(Notification \X Outcome), NEW n \in Notification, NEW o \in Outcome
    PROVE  /\ Handled(s) \in Seq(Notification)
           /\ Handled(Append(s, <<n, o>>)) = Append(Handled(s), n)
<1> DEFINE e == <<n, o>>
<1>1. e \in Notification \X Outcome /\ e[1] = n OBVIOUS
<1> HIDE DEF e
<1>2. Len(s) \in Nat /\ DOMAIN s = 1 .. Len(s) /\ \A i \in 1 .. Len(s) : s[i] \in Notification \X Outcome
  BY ElementOfSeq, LenProperties
<1>3. Handled(s) = [i \in 1 .. Len(s) |-> s[i][1]] BY <1>2 DEF Handled
<1>4. \A i \in 1 .. Len(s) : s[i][1] \in Notification BY <1>2
<1>5. Handled(s) \in Seq(Notification) /\ Len(Handled(s)) = Len(s) BY <1>2, <1>3, <1>4
<1>6. /\ Append(s, e) \in Seq(Notification \X Outcome)
      /\ Len(Append(s, e)) = Len(s) + 1
      /\ \A i \in 1 .. Len(s) : Append(s, e)[i] = s[i]
      /\ Append(s, e)[Len(s) + 1] = e
  BY <1>1, AppendProperties
<1>7. Handled(Append(s, e)) = [i \in 1 .. Len(s) + 1 |-> Append(s, e)[i][1]]
  BY <1>6, LenProperties DEF Handled
<1>8. Handled(Append(s, e)) = [i \in 1 .. Len(s) + 1 |-> IF i <= Len(s) THEN s[i][1] ELSE n]
  BY <1>1, <1>2, <1>6, <1>7
<1>9. Append(Handled(s), n) = [i \in 1 .. Len(s) + 1 |-> IF i <= Len(s) THEN s[i][1] ELSE n]
  BY <1>2, <1>3, <1>5
<1> QED BY <1>5, <1>8, <1>9 DEF e

\* An element goes from the head of the queue t to the end of s.
LEMMA MoveElement ==
    ASSUME NEW S, NEW s \in Seq(S), NEW t \in Seq(S), NEW e \in S
    PROVE  /\ (s \o <<e>>) \o t = (Append(s, e) \o <<>>) \o t
           /\ s \o <<>> = s
           /\ t # <<>> => (s \o <<Head(t)>>) \o Tail(t) = s \o t
<1>1. <<e>> \in Seq(S) /\ Append(s, e) = s \o <<e>> BY AppendIsConcat
<1>2. s \o <<e>> \in Seq(S) BY <1>1, ConcatProperties
<1>3. s \o <<>> = s /\ (s \o <<e>>) \o <<>> = s \o <<e>> BY <1>2, ConcatEmptySeq
<1>4. ASSUME t # <<>> PROVE (s \o <<Head(t)>>) \o Tail(t) = s \o t
  <2>1. Head(t) \in S /\ Tail(t) \in Seq(S) BY <1>4, HeadTailProperties
  <2>2. <<Head(t)>> \in Seq(S) BY <2>1
  <2>3. t = <<Head(t)>> \o Tail(t) BY <1>4, <2>1
  <2> QED BY <2>1, <2>2, <2>3, ConcatAssociative
<1> QED BY <1>1, <1>3, <1>4

LEMMA FIFOStep ==
    ASSUME ShutdownInv, FIFO, [Next]_vars
    PROVE  FIFO'
<1> USE NoneAssumption DEF ShutdownInv
<1> DEFINE H == Handled(settled)
<1>0. FIFO <=> accepted = (H \o InHand) \o ch BY DEF FIFO, Handled, InHand
<1>1. FIFO' <=> accepted' = (H' \o InHand') \o ch' BY DEF FIFO, Handled, InHand
<1>2. /\ settled \in Seq(Notification \X Outcome) /\ ch \in Seq(Notification)
      /\ cur # None => cur \in Notification
  BY DEF TypeOK
<1>3. H \in Seq(Notification)
  <2>1. CASE settled = <<>> BY <2>1 DEF Handled
  <2>2. CASE settled # <<>>
    <3>1. \A i \in DOMAIN settled : settled[i][1] \in Notification BY <1>2, ElementOfSeq, LenProperties
    <3> QED BY <1>2, <3>1, LenProperties DEF Handled
  <2> QED BY <2>1, <2>2
<1> HIDE DEF H
<1>4. H \o InHand \in Seq(Notification)
  <2>1. InHand \in Seq(Notification) BY <1>2 DEF InHand
  <2> QED BY <1>3, <2>1, ConcatProperties
<1>5. ASSUME UNCHANGED <<accepted, settled, cur, ch>> PROVE FIFO'
  BY <1>5 DEF FIFO
<1>6. ASSUME NEW o \in Outcome, Settle(o), UNCHANGED <<accepted, ch>>,
             worker \in {"call", "wait", "backoff"}
      PROVE  FIFO'
  <2>1. cur \in Notification /\ InHand = <<cur>> /\ InHand' = <<>>
    BY <1>2, <1>6 DEF Settle, Consistent, InHand
  <2>2. H' = Append(H, cur) BY <1>2, <1>6, <2>1, HandledAppend DEF Settle, H
  <2> QED BY <1>0, <1>1, <1>2, <1>3, <1>6, <2>1, <2>2, MoveElement
<1>7. ASSUME NEW p \in Producer, Offer(p) PROVE FIFO'
  <2>1. ~closed /\ holding[p] \in Notification BY <1>7 DEF Offer, Locked, TypeOK
  <2>2. H' = H /\ InHand' = InHand BY <1>7 DEF Offer, workerVars, H, InHand
  <2>3. CASE Len(ch) < QueueSize
    <3>1. ch' = Append(ch, holding[p]) /\ accepted' = Append(accepted, holding[p])
      BY <1>7, <2>1, <2>3 DEF Offer
    <3>2. \A s, t \in Seq(Notification), n \in Notification : Append(s \o t, n) = s \o Append(t, n)
      OBVIOUS
    <3>3. Append((H \o InHand) \o ch, holding[p]) = (H \o InHand) \o Append(ch, holding[p])
      BY <1>2, <1>4, <2>1, <3>2
    <3> QED BY <1>0, <1>1, <2>2, <3>1, <3>3
  <2>4. CASE ~(Len(ch) < QueueSize)
    BY <1>5, <1>7, <2>1, <2>4 DEF Offer, workerVars
  <2> QED BY <2>3, <2>4
<1>8. ASSUME Receive PROVE FIFO'
  <2>1. cur = None /\ InHand = <<>> /\ ch # <<>> /\ ch' = Tail(ch) /\ accepted' = accepted
    BY <1>8 DEF Receive, Consistent, InHand, queueVars
  <2>2. Head(ch) \in Notification /\ Tail(ch) \in Seq(Notification)
    BY <1>2, <2>1, HeadTailProperties
  <2>3. accepted = (H \o <<Head(ch)>>) \o Tail(ch)
    <3>1. (H \o <<Head(ch)>>) \o Tail(ch) = H \o ch /\ H \o <<>> = H
      BY <1>2, <1>3, <2>1, <2>2, MoveElement
    <3> QED BY <1>0, <2>1, <3>1
  <2>4. CASE cur' = Head(ch) /\ UNCHANGED <<attempt, settled>>
    <3>1. H' = H /\ InHand' = <<Head(ch)>> BY <2>2, <2>4 DEF H, InHand
    <3> QED BY <1>1, <2>1, <2>3, <3>1
  <2>5. CASE settled' = Append(settled, <<Head(ch), "filtered">>) /\ cur' = cur
    <3>1. InHand' = <<>> BY <2>1, <2>5 DEF InHand
    <3>2. H' = Append(H, Head(ch)) BY <1>2, <2>2, <2>5, HandledAppend DEF H, Outcome
    <3> QED BY <1>1, <1>3, <2>1, <2>2, <2>3, <3>1, <3>2, MoveElement
  <2> QED BY <1>8, <2>4, <2>5 DEF Receive
<1>9. ASSUME Call \/ SendOK \/ SendPermanent \/ SendFails \/ Backoff PROVE FIFO'
  <2>1. UNCHANGED <<accepted, ch>> /\ worker \in {"call", "wait", "backoff"}
    BY <1>9 DEF Call, SendOK, SendPermanent, SendFails, Backoff, queueVars
  <2>2. (\E o \in Outcome : Settle(o)) \/ UNCHANGED <<settled, cur>>
    <3>1. CASE Call BY <3>1 DEF Call, Outcome
    <3>2. CASE SendOK \/ SendPermanent BY <3>2 DEF SendOK, SendPermanent, Outcome
    <3>3. CASE SendFails
      <4>1. CASE ctx = "canceled" BY <3>3, <4>1 DEF SendFails, Outcome
      <4>2. CASE ctx # "canceled" /\ attempt < MaxRetries
        <5>1. ~(attempt >= MaxRetries) BY <4>2, MaxRetriesAssumption DEF TypeOK
        <5> QED BY <3>3, <4>2, <5>1 DEF SendFails
      <4>3. CASE ctx # "canceled" /\ ~(attempt < MaxRetries)
        <5>1. attempt >= MaxRetries BY <4>3, MaxRetriesAssumption DEF TypeOK
        <5> QED BY <3>3, <4>3, <5>1 DEF SendFails, Outcome
      <4> QED BY <4>1, <4>2, <4>3
    <3>4. CASE Backoff BY <3>4 DEF Backoff, Outcome
    <3> QED BY <1>9, <3>1, <3>2, <3>3, <3>4
  <2> QED BY <1>5, <1>6, <2>1, <2>2
<1>10. ASSUME (\E p \in Producer : \E n \in Notification : Enqueue(p, n))
              \/ Signal \/ Start \/ Stop \/ GraceExpires \/ StopReturn \/ Exit
              \/ UNCHANGED vars
       PROVE  FIFO'
  BY <1>5, <1>10 DEF Enqueue, Signal, Start, Stop, GraceExpires, StopReturn, Exit, vars,
                     queueVars, workerVars
<1> QED BY <1>7, <1>8, <1>9, <1>10 DEF Next, Worker

\* What Enqueue accepted is settled once each, in that order, retries included: the
\* one worker (dispatcher.go:134-180) lets no notification overtake another.
THEOREM InOrder == Spec => []FIFO
<1>1. Init => FIFO BY DEF Init, FIFO, None
<1> QED BY <1>1, ShutdownInvariant, FIFOStep, PTL DEF Spec
=============================================================================
