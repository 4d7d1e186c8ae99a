--------------------------- MODULE LogshipProofs ---------------------------
(***************************************************************************)
(* Theorems about the log shipper, for all programs, batch sizes and       *)
(* buffer sizes: the lines arrive in the order of the channel, Close       *)
(* flushes what it finds, and Dropped accounts for every loss.             *)
(*                                                                         *)
(* The inductive invariant follows a line by its number.  QueueInv: what   *)
(* was queued is the finished lines, then the batch, then the channel.     *)
(* DistinctInv: a line is in one place.  ArrivedInv: finished lines have   *)
(* arrived or were given up, and nothing behind the batch has arrived.     *)
(* From these follow the order (ChannelOrder), what Close may rely on      *)
(* (FlushInv) and the counter (CountInv).                                  *)
(***************************************************************************)
EXTENDS Logship, FiniteSetTheorems, SequenceTheorems, TLAPS

-----------------------------------------------------------------------------
(* Natural numbers and sequences *)

NatLess == {p \in Nat \X Nat : p[1] < p[2]}

\* The library's well-foundedness of the order of the natural numbers, for the definition
\* above, which the provers expand.
LEMMA NatLessWellFounded == IsWellFoundedOn(NatLess, Nat)
<1>1. NatLess = OpToRel(<, Nat)
  BY DEF NatLess, OpToRel
<1> QED
  BY <1>1, NatLessThanWellFounded

\* A set of natural numbers below a bound has a maximum.
LEMMA MaxExists ==
    ASSUME NEW n \in Nat, NEW S \in SUBSET (0 .. n), S # {}
    PROVE  /\ Max(S) \in S
           /\ \A k \in S : k <= Max(S)
<1> DEFINE Above == {k \in Nat : \A j \in S : j <= k}
<1>1. n \in Above
  OBVIOUS
<1>2. PICK m \in Above : \A k \in Above : ~(<<k, m>> \in NatLess)
  <2> HIDE DEF Above
  <2>1. Above \subseteq Nat
    BY DEF Above
  <2> QED
    BY <1>1, <2>1, WFMin, NatLessWellFounded
<1>3. m \in Nat /\ \A j \in S : j <= m
  BY <1>2
<1>4. m \in S
  <2> SUFFICES ASSUME m \notin S
               PROVE  FALSE
    OBVIOUS
  <2>1. PICK s \in S : TRUE
    OBVIOUS
  <2>2. s < m
    BY <2>1, <1>3
  <2>3. m - 1 \in Above
    BY <1>3, <2>1, <2>2
  <2>4. <<m - 1, m>> \in NatLess
    BY <1>3, <2>1, <2>2 DEF NatLess
  <2> QED
    BY <2>3, <2>4, <1>2
<1>5. \E x \in S : \A y \in S : x >= y
  BY <1>3, <1>4
<1> QED
  BY <1>5 DEF Max

LEMMA RangeAppend ==
    ASSUME NEW S, NEW s \in Seq(S), NEW e \in S
    PROVE  Range(Append(s, e)) = Range(s) \cup {e}
<1>1. /\ Append(s, e) \in Seq(S)
      /\ DOMAIN Append(s, e) = 1 .. Len(s) + 1
      /\ \A i \in 1 .. Len(s) : Append(s, e)[i] = s[i]
      /\ Append(s, e)[Len(s) + 1] = e
  OBVIOUS
<1>2. DOMAIN s = 1 .. Len(s) /\ Len(s) \in Nat
  OBVIOUS
<1>3. ASSUME NEW x \in Range(Append(s, e))
      PROVE  x \in Range(s) \cup {e}
  BY <1>1, <1>2 DEF Range
<1>4. ASSUME NEW x \in Range(s)
      PROVE  x \in Range(Append(s, e))
  <2>1. PICK i \in 1 .. Len(s) : x = s[i]
    BY <1>2 DEF Range
  <2>2. i \in DOMAIN Append(s, e) /\ Append(s, e)[i] = x
    BY <1>1, <1>2, <2>1
  <2> QED
    BY <2>2 DEF Range
<1>5. e \in Range(Append(s, e))
  <2>1. Len(s) + 1 \in DOMAIN Append(s, e)
    BY <1>1, <1>2
  <2> QED
    BY <1>1, <2>1 DEF Range
<1> QED
  BY <1>3, <1>4, <1>5

LEMMA HeadAndTail ==
    ASSUME NEW S, NEW s \in Seq(S), s # <<>>
    PROVE  /\ Head(s) = s[1] /\ Head(s) \in S
           /\ Tail(s) \in Seq(S)
           /\ Len(s) \in Nat /\ Len(s) > 0
           /\ Len(Tail(s)) = Len(s) - 1
           /\ \A i \in 1 .. Len(Tail(s)) : Tail(s)[i] = s[i + 1]
           /\ Range(s) = {Head(s)} \cup Range(Tail(s))
<1>1. /\ Head(s) = s[1] /\ Head(s) \in S
      /\ Tail(s) \in Seq(S)
      /\ Len(s) \in Nat /\ Len(s) > 0
      /\ Len(Tail(s)) = Len(s) - 1
      /\ \A i \in 1 .. Len(Tail(s)) : Tail(s)[i] = s[i + 1]
  OBVIOUS
<1>2. DOMAIN s = 1 .. Len(s) /\ DOMAIN Tail(s) = 1 .. Len(s) - 1
  BY <1>1
<1>3. ASSUME NEW x \in Range(s)
      PROVE  x \in {Head(s)} \cup Range(Tail(s))
  <2>1. PICK i \in 1 .. Len(s) : x = s[i]
    BY <1>2 DEF Range
  <2>2. CASE i = 1
    BY <2>1, <2>2, <1>1
  <2>3. CASE i # 1
    <3>1. i - 1 \in DOMAIN Tail(s) /\ Tail(s)[i - 1] = x
      BY <1>1, <1>2, <2>1, <2>3
    <3> QED
      BY <3>1 DEF Range
  <2> QED
    BY <2>2, <2>3
<1>4. Head(s) \in Range(s)
  BY <1>1, <1>2 DEF Range
<1>5. ASSUME NEW x \in Range(Tail(s))
      PROVE  x \in Range(s)
  <2>1. PICK i \in 1 .. Len(s) - 1 : x = Tail(s)[i]
    BY <1>2 DEF Range
  <2>2. i + 1 \in DOMAIN s /\ s[i + 1] = x
    BY <1>1, <1>2, <2>1
  <2> QED
    BY <2>2 DEF Range
<1> QED
  BY <1>1, <1>3, <1>4, <1>5

\* Range, by positions.
LEMMA InRange ==
    ASSUME NEW S, NEW s \in Seq(S)
    PROVE  /\ Len(s) \in Nat
           /\ \A i \in 1 .. Len(s) : s[i] \in Range(s) /\ s[i] \in S
           /\ \A x \in Range(s) : \E i \in 1 .. Len(s) : x = s[i]
BY DEF Range

\* A sequence has at most as many different elements as elements.
LEMMA RangeCardinality ==
    ASSUME NEW S, NEW s \in Seq(S)
    PROVE  /\ IsFiniteSet(Range(s))
           /\ Cardinality(Range(s)) \in Nat
           /\ Cardinality(Range(s)) <= Len(s)
           /\ (\A i, j \in 1 .. Len(s) : s[i] = s[j] => i = j) => Cardinality(Range(s)) = Len(s)
<1>1. s \in [1 .. Len(s) -> Range(s)] /\ Len(s) \in Nat /\ DOMAIN s = 1 .. Len(s)
  BY InRange
<1>2. s \in Surjection(1 .. Len(s), Range(s))
  BY <1>1 DEF Surjection, Range
<1>3. IsFiniteSet(1 .. Len(s)) /\ Cardinality(1 .. Len(s)) = Len(s)
  <2>1. /\ IsFiniteSet(1 .. Len(s))
        /\ Cardinality(1 .. Len(s)) = IF 1 > Len(s) THEN 0 ELSE Len(s) - 1 + 1
    BY <1>1, FS_Interval
  <2> QED
    BY <1>1, <2>1
<1>4. /\ IsFiniteSet(Range(s))
      /\ Cardinality(Range(s)) <= Len(s)
      /\ Cardinality(Range(s)) = Len(s) <=> s \in Injection(1 .. Len(s), Range(s))
  BY <1>2, <1>3, FS_Surjection
<1>5. ASSUME \A i, j \in 1 .. Len(s) : s[i] = s[j] => i = j
      PROVE  s \in Injection(1 .. Len(s), Range(s))
  BY <1>1, <1>5 DEF Injection, IsInjective
<1> QED
  BY <1>4, <1>5, FS_CardinalityType

\* Concatenation, by positions, for a first sequence whose elements have no named set.
LEMMA Joined ==
    ASSUME NEW s, s \in Seq(Range(s)), NEW n \in Nat, NEW r, r = [k \in 1 .. n |-> r[k]]
    PROVE  /\ s \o r \in Seq(Range(s \o r))
           /\ Len(s) \in Nat
           /\ Len(s \o r) = Len(s) + n
           /\ \A i \in 1 .. Len(s) : (s \o r)[i] = s[i]
<1> DEFINE R == {r[k] : k \in 1 .. n}
           U == Range(s) \cup R
<1>1. r \in Seq(U) /\ Len(r) = n
  OBVIOUS
<1>2. s \in Seq(U)
  OBVIOUS
<1> HIDE DEF U
<1>3. s \o r \in Seq(U) /\ Len(s) \in Nat /\ Len(s \o r) = Len(s) + n
  BY <1>1, <1>2
<1>4. \A i \in 1 .. Len(s) : (s \o r)[i] = s[i]
  BY <1>1, <1>2, ConcatProperties
<1>5. s \o r \in Seq(Range(s \o r))
  BY <1>3, SeqOfRange
<1> QED
  BY <1>3, <1>4, <1>5

-----------------------------------------------------------------------------
(* Splitting *)

LEMMA SplittingText ==
    ASSUME NEW text \in Seq(Fragment)
    PROVE  /\ Cardinality(Ends(text)) \in Nat
           /\ LinesOf(text) = [k \in 1 .. Cardinality(Ends(text)) |-> LinesOf(text)[k]]
           /\ RestOf(text) \in Seq(Fragment)
<1>1. Ends(text) \in SUBSET (1 .. Len(text)) /\ Len(text) \in Nat
  BY DEF Ends
<1>2. Cardinality(Ends(text)) \in Nat
  <2>1. IsFiniteSet(1 .. Len(text))
    BY <1>1, FS_Interval
  <2> QED
    BY <1>1, <2>1, FS_Subset, FS_CardinalityType
<1>3. LinesOf(text) = [k \in 1 .. Cardinality(Ends(text)) |-> LinesOf(text)[k]]
  <2> DEFINE end == [k \in 0 .. Cardinality(Ends(text)) |->
                       IF k = 0 THEN 0
                       ELSE CHOOSE i \in Ends(text) :
                              Cardinality({e \in Ends(text) : e <= i}) = k]
  <2>1. LinesOf(text) =
          [k \in 1 .. Cardinality(Ends(text)) |-> SubSeq(text, end[k - 1] + 1, end[k] - 1)]
    BY DEF LinesOf
  <2> QED
    BY <2>1, Zenon
<1>4. Max({0} \cup Ends(text)) \in 0 .. Len(text)
  <2>1. {0} \cup Ends(text) \in SUBSET (0 .. Len(text)) /\ {0} \cup Ends(text) # {}
    BY <1>1
  <2> QED
    BY <2>1, <1>1, MaxExists
<1>5. RestOf(text) \in Seq(Fragment)
  <2> DEFINE m == Max({0} \cup Ends(text))
  <2>1. RestOf(text) = SubSeq(text, m + 1, Len(text)) /\ m \in 0 .. Len(text)
    BY <1>4 DEF RestOf
  <2> HIDE DEF m
  <2>2. SubSeq(text, m + 1, Len(text)) \in Seq(Fragment)
    BY <1>1, <2>1, SubSeqProperties
  <2> QED
    BY <2>1, <2>2
<1> QED
  BY <1>2, <1>3, <1>5

-----------------------------------------------------------------------------
(* Type correctness *)

Number == 1 .. Len(split)

Numbered ==
    /\ todo \in [Writer -> Seq(Seq(Fragment))]
    /\ buf \in Seq(Fragment)
    /\ split \in Seq(Range(split))
    /\ offering \in [Writer -> Seq(Number)]
    /\ ch \in Seq(Number) /\ batch \in Seq(Number)
    /\ queued \in Seq(Number) /\ received \in Seq(Number)
    /\ givenUp \in SUBSET Number /\ unanswered \in SUBSET Number /\ before \in SUBSET Number

\* What the worker and Close have done of each other's doing.
Control ==
    /\ attempt = Idle => Len(batch) < BatchSize
    /\ worker = "exited" => batch = <<>>
    /\ done <=> close # "no"
    /\ worker # "select" => done
    /\ close = "nil" => worker = "exited"

TypeInv == Numbered /\ TypeOK /\ Control

LEMMA TypeInit == Init => TypeInv
<1> SUFFICES ASSUME Init
             PROVE  TypeInv
  OBVIOUS
<1>1. <<>> \in Seq(Number) /\ split \in Seq(Range(split)) /\ buf \in Seq(Fragment)
  BY DEF Init
<1>2. Numbered
  BY <1>1, ProgramAssumption DEF Init, Numbered
<1>n. Len(ch) = 0 /\ Len(batch) = 0
  BY DEF Init
<1>3. TypeOK
  <2>1. attempt = -1 /\ attempt \in {-1} \cup 0 .. 2
    BY DEF Init, Idle
  <2>2. Len(ch) <= BufferSize /\ Len(batch) <= BatchSize
    BY <1>n, BatchSizeAssumption, BufferSizeAssumption
  <2>3. 0 .. Attempts - 1 = 0 .. 2
    BY DEF Attempts
  <2> QED
    BY <2>1, <2>2, <2>3 DEF Init, TypeOK, Idle
<1>4. Control
  BY <1>n, BatchSizeAssumption DEF Init, Control
<1> QED
  BY <1>2, <1>3, <1>4 DEF TypeInv

\* When Write splits a text, the lines that were there keep their numbers and texts.
LEMMA SplitNumbers ==
    ASSUME TypeInv, NEW w \in Writer, Split(w)
    PROVE  /\ buf' \in Seq(Fragment)
           /\ split' \in Seq(Range(split'))
           /\ Len(split) \in Nat /\ Len(split') \in Nat /\ Len(split) <= Len(split')
           /\ \A l \in Number : split'[l] = split[l]
           /\ offering' \in [Writer -> Seq(Number')]
           /\ Len(offering'[w]) = Len(split') - Len(split)
           /\ \A k \in 1 .. Len(offering'[w]) : offering'[w][k] = Len(split) + k
           /\ \A u \in Writer \ {w} : offering'[u] = offering[u]
<1> DEFINE text == buf \o Head(todo[w])
           n == Cardinality(Ends(text))
           L == LinesOf(text)
<1>1. text \in Seq(Fragment)
  BY DEF TypeInv, Numbered, Split
<1>2. n \in Nat /\ L = [k \in 1 .. n |-> L[k]] /\ RestOf(text) \in Seq(Fragment)
  BY <1>1, SplittingText
<1>3. /\ buf' = RestOf(text) /\ split' = split \o L
      /\ offering' = [offering EXCEPT ![w] = [k \in DOMAIN L |-> Len(split) + k]]
  BY DEF Split
<1> HIDE DEF n, L, text
<1>4. DOMAIN L = 1 .. n
  BY <1>2
<1>5. /\ split' \in Seq(Range(split'))
      /\ Len(split) \in Nat
      /\ Len(split') = Len(split) + n
      /\ \A l \in Number : split'[l] = split[l]
  BY <1>2, <1>3, Joined DEF TypeInv, Numbered, Number
<1>6. offering'[w] = [k \in 1 .. n |-> Len(split) + k]
  BY <1>3, <1>4 DEF TypeInv, Numbered
<1>7. offering'[w] \in Seq(Number') /\ Len(offering'[w]) = n
  BY <1>2, <1>5, <1>6 DEF Number
<1>8. \A u \in Writer \ {w} : offering'[u] = offering[u] /\ offering[u] \in Seq(Number')
  <2>1. Number \subseteq Number'
    BY <1>2, <1>5 DEF Number
  <2> QED
    BY <2>1, <1>3 DEF TypeInv, Numbered
<1>9. offering' \in [Writer -> Seq(Number')]
  BY <1>3, <1>7, <1>8 DEF TypeInv, Numbered
<1>10. \A k \in 1 .. Len(offering'[w]) : offering'[w][k] = Len(split) + k
  BY <1>6, <1>7
<1>11. buf' \in Seq(Fragment)
  BY <1>2, <1>3
<1>12. /\ Len(split') \in Nat /\ Len(split) <= Len(split')
       /\ Len(offering'[w]) = Len(split') - Len(split)
  BY <1>2, <1>5, <1>7
<1> QED
  BY <1>5, <1>8, <1>9, <1>10, <1>11, <1>12

LEMMA NumberedNext ==
    ASSUME TypeInv, Next
    PROVE  Numbered'
<1> USE DEF TypeInv, Numbered
<1>1. ASSUME NEW w \in Writer, Split(w)
      PROVE  Numbered'
  <2>1. Number \subseteq Number'
    BY <1>1, SplitNumbers DEF Number
  <2>2. todo' \in [Writer -> Seq(Seq(Fragment))]
    BY <1>1 DEF Split
  <2>3. UNCHANGED <<queued, ch, batch, received, givenUp, unanswered, before>>
    BY <1>1 DEF Split, closeVars, postVars
  <2>4. \A s \in Seq(Number) : s \in Seq(Number')
    BY <2>1
  <2> QED
    BY <1>1, <2>1, <2>2, <2>3, <2>4, SplitNumbers
<1>2. ASSUME UNCHANGED split, Number' = Number,
             UNCHANGED <<todo, buf>>
      PROVE  (/\ offering' \in [Writer -> Seq(Number)]
              /\ ch' \in Seq(Number) /\ batch' \in Seq(Number)
              /\ queued' \in Seq(Number) /\ received' \in Seq(Number)
              /\ givenUp' \in SUBSET Number /\ unanswered' \in SUBSET Number
              /\ before' \in SUBSET Number) => Numbered'
  BY <1>2
<1>3. ASSUME UNCHANGED split
      PROVE  Number' = Number
  BY <1>3 DEF Number
<1> HIDE DEF Number
<1>r. /\ \A s \in Seq(Number) : Range(s) \in SUBSET Number
      /\ \A s, t \in Seq(Number) : s \o t \in Seq(Number)
      /\ <<>> \in Seq(Number)
  BY RangeOfSeq
<1>4. ASSUME NEW w \in Writer, Offer(w)
      PROVE  Numbered'
  <2>1. Head(offering[w]) \in Number /\ Tail(offering[w]) \in Seq(Number)
    BY <1>4 DEF Offer
  <2>2. ch' \in Seq(Number) /\ queued' \in Seq(Number)
    <3>1. /\ Append(ch, Head(offering[w])) \in Seq(Number)
          /\ Append(queued, Head(offering[w])) \in Seq(Number)
      BY <2>1
    <3> QED
      BY <1>4, <3>1 DEF Offer
  <2> QED
    BY <1>4, <2>1, <2>2, <1>2, <1>3 DEF Offer, closeVars, postVars
<1>5. CASE Receive
  <2>1. Head(ch) \in Number /\ Tail(ch) \in Seq(Number)
    BY <1>5 DEF Receive
  <2> QED
    BY <1>5, <2>1, <1>2, <1>3 DEF Receive, writeVars, closeVars
<1>6. CASE Tick
  BY <1>6, <1>2, <1>3 DEF Tick, writeVars, closeVars
<1>7. CASE SeeDone
  BY <1>7, <1>2, <1>3 DEF SeeDone, writeVars, closeVars, postVars
<1>8. CASE Leave
  BY <1>8, <1>2, <1>3 DEF Leave, writeVars, closeVars
<1>9. CASE PostOK
  BY <1>9, <1>2, <1>3, <1>r DEF PostOK, Posted, Arrive, writeVars, closeVars
<1>10. CASE PostFailed
  <2>1. received' \in Seq(Number) /\ unanswered' \in SUBSET Number
    BY <1>10, <1>r DEF PostFailed, Arrive
  <2>2. batch' \in Seq(Number) /\ givenUp' \in SUBSET Number
    BY <1>10, <1>r DEF PostFailed, Posted
  <2> QED
    BY <1>10, <2>1, <2>2, <1>2, <1>3 DEF PostFailed, writeVars, closeVars
<1>11. CASE PostBadURL
  BY <1>11, <1>2, <1>3, <1>r DEF PostBadURL, Posted, writeVars, closeVars
<1>12. CASE Close
  <2>1. before' \in SUBSET Number
    BY <1>12, <1>r DEF Close
  <2> QED
    BY <1>12, <2>1, <1>2, <1>3 DEF Close, writeVars, postVars
<1>13. CASE CloseReturns
  BY <1>13, <1>2, <1>3 DEF CloseReturns, writeVars, postVars
<1> QED
  BY <1>1, <1>4, <1>5, <1>6, <1>7, <1>8, <1>9, <1>10, <1>11, <1>12, <1>13 DEF Next, Write, run

LEMMA TypeNext ==
    ASSUME TypeInv, Next
    PROVE  TypeInv'
<1> USE BatchSizeAssumption, BufferSizeAssumption
        DEF TypeInv, TypeOK, Control, Idle, Attempts
<1> SUFFICES (TypeOK /\ Control)'
  BY NumberedNext
<1>n. Len(ch) \in Nat /\ Len(batch) \in Nat /\ Len(<<>>) = 0
  BY DEF Numbered
<1>1. ASSUME NEW w \in Writer, Split(w)
      PROVE  (TypeOK /\ Control)'
  BY <1>1 DEF Split, closeVars, postVars
<1>2. ASSUME NEW w \in Writer, Offer(w)
      PROVE  (TypeOK /\ Control)'
  <2>1. Len(ch') <= BufferSize /\ dropped' \in Nat
    <3> DEFINE line == Head(offering[w])
    <3>1. \/ UNCHANGED ch
          \/ ch' = Append(ch, line) /\ Len(ch) < BufferSize
      BY <1>2 DEF Offer
    <3>2. line \in Number
      BY <1>2, HeadAndTail DEF Offer, Numbered
    <3>3. dropped' \in Nat
      BY <1>2 DEF Offer
    <3> HIDE DEF line
    <3>4. Len(Append(ch, line)) = Len(ch) + 1
      BY <3>2, AppendProperties DEF Numbered
    <3> QED
      BY <3>1, <3>3, <3>4, <1>n
  <2> QED
    BY <1>2, <2>1 DEF Offer, closeVars, postVars
<1>3. CASE Receive
  <2>1. /\ Len(ch') = Len(ch) - 1
        /\ Len(batch') = Len(batch) + 1
        /\ batch' # <<>>
    BY <1>3, HeadAndTail DEF Receive, Numbered
  <2> QED
    BY <1>3, <2>1, <1>n DEF Receive, closeVars
<1>4. CASE Tick
  BY <1>4 DEF Tick, closeVars
<1>5. CASE SeeDone
  BY <1>5 DEF SeeDone, closeVars, postVars
<1>6. CASE Leave
  BY <1>6 DEF Leave, closeVars
<1>7. CASE PostOK
  BY <1>7, <1>n DEF PostOK, Posted, closeVars
<1>8. CASE PostFailed
  BY <1>8, <1>n DEF PostFailed, Posted, closeVars
<1>9. CASE PostBadURL
  BY <1>9, <1>n DEF PostBadURL, Posted, closeVars
<1>10. CASE Close
  BY <1>10 DEF Close, postVars
<1>11. CASE CloseReturns
  BY <1>11 DEF CloseReturns, postVars
<1> QED
  BY <1>1, <1>2, <1>3, <1>4, <1>5, <1>6, <1>7, <1>8, <1>9, <1>10, <1>11 DEF Next, Write, run

LEMMA TypeStutters ==
    ASSUME TypeInv, UNCHANGED vars
    PROVE  TypeInv'
BY DEF TypeInv, Numbered, Number, TypeOK, Control, vars, writeVars, closeVars, postVars

LEMMA TypeAlways == Spec => []TypeInv
BY TypeInit, TypeNext, TypeStutters, PTL DEF Spec

\* The numbers of attempts, the lengths of queue and batch and the phases of worker and
\* Close are what the code means them to be.
THEOREM TypeCorrect == Spec => []TypeOK
BY TypeAlways, PTL DEF TypeInv

-----------------------------------------------------------------------------
(* The steps, for what the safety invariants need to know of them *)

\* Neither a line nor a counter moves.
Quiet ==
    UNCHANGED <<offering, split, queued, ch, batch, received, givenUp, unanswered, dropped,
                validURL>>

Post == PostOK \/ PostFailed \/ PostBadURL

LEMMA StepKinds ==
    ASSUME [Next]_vars
    PROVE  \/ \E w \in Writer : Split(w) \/ Offer(w)
           \/ Receive \/ Post \/ Quiet
<1>1. CASE Tick
  BY <1>1 DEF Tick, Quiet, writeVars
<1>2. CASE SeeDone
  BY <1>2 DEF SeeDone, Quiet, writeVars, postVars
<1>3. CASE Leave
  BY <1>3 DEF Leave, Quiet, writeVars
<1>4. CASE Close
  BY <1>4 DEF Close, Quiet, writeVars, postVars
<1>5. CASE CloseReturns
  BY <1>5 DEF CloseReturns, Quiet, writeVars, postVars
<1>6. CASE UNCHANGED vars
  BY <1>6 DEF vars, Quiet, writeVars, postVars
<1> QED
  BY <1>1, <1>2, <1>3, <1>4, <1>5, <1>6 DEF Next, Write, run, Post

\* What an attempt to post a batch leaves: the batch may have arrived, and it stays for the
\* next attempt or is gone, having arrived or been given up.
LEMMA PostEffect ==
    ASSUME TypeInv, Post
    PROVE  /\ UNCHANGED <<offering, split, queued, ch, validURL>>
           /\ received' = received \/ received' = received \o batch
           /\ Range(received) \subseteq Range(received')
           /\ Range(received') \subseteq Range(received) \cup Range(batch)
           /\ givenUp \subseteq givenUp'
           /\ \/ batch' = batch
              \/ batch' = <<>> /\ Range(batch) \subseteq Range(received') \cup givenUp'
           /\ \/ unanswered' = unanswered
              \/ /\ unanswered' = unanswered \cup Range(batch)
                 /\ Range(batch) \subseteq Range(received')
           /\ batch' # <<>> => Range(received') \subseteq Range(received) \cup unanswered'
<1>r. Range(received \o batch) = Range(received) \cup Range(batch)
  BY RangeConcatenation DEF TypeInv, Numbered
<1>b. Post => batch # <<>>
  BY DEF Post, PostOK, PostFailed, PostBadURL, TypeInv, TypeOK
<1>a. ASSUME Arrive
      PROVE  /\ received' = received \/ received' = received \o batch
             /\ Range(received') = Range(received) \cup Range(batch)
  BY <1>a, <1>r DEF Arrive
<1>1. CASE PostOK
  BY <1>1, <1>a DEF PostOK, Posted, writeVars
<1>2. CASE PostBadURL
  BY <1>2 DEF PostBadURL, Posted, writeVars
<1>3. CASE PostFailed
  <2>1. /\ received' = received \/ received' = received \o batch
        /\ Range(received) \subseteq Range(received')
        /\ Range(received') \subseteq Range(received) \cup Range(batch)
        /\ \/ unanswered' = unanswered
           \/ /\ unanswered' = unanswered \cup Range(batch)
              /\ Range(batch) \subseteq Range(received')
        /\ Range(received') \subseteq Range(received) \cup unanswered'
    BY <1>3, <1>a DEF PostFailed
  <2>2. /\ UNCHANGED <<offering, split, queued, ch, validURL>>
        /\ givenUp \subseteq givenUp'
        /\ \/ batch' = batch
           \/ batch' = <<>> /\ Range(batch) \subseteq givenUp'
    BY <1>3 DEF PostFailed, Posted, writeVars
  <2> QED
    BY <2>1, <2>2
<1> QED
  BY <1>1, <1>2, <1>3 DEF Post

-----------------------------------------------------------------------------
(* The queue *)

\* How many lines the worker is done with.
Finished == Len(queued) - Len(batch) - Len(ch)

\* What was queued and is not finished is the batch and then the channel.
QueueInv ==
    /\ Finished >= 0
    /\ \A k \in 1 .. Len(batch) : batch[k] = queued[Finished + k]
    /\ \A k \in 1 .. Len(ch) : ch[k] = queued[Finished + Len(batch) + k]

\* A line is in one place at most, and a blank line is never queued.
QueuedOnce == \A i, j \in 1 .. Len(queued) : queued[i] = queued[j] => i = j
NoneBlank == \A j \in 1 .. Len(queued) : ~Blank(queued[j])
OfferedNew ==
    \A w \in Writer : \A i \in 1 .. Len(offering[w]) : \A j \in 1 .. Len(queued) :
        offering[w][i] # queued[j]
OfferedOnce ==
    \A u, w \in Writer : \A i \in 1 .. Len(offering[u]) : \A j \in 1 .. Len(offering[w]) :
        offering[u][i] = offering[w][j] => u = w /\ i = j

DistinctInv == QueuedOnce /\ NoneBlank /\ OfferedNew /\ OfferedOnce

LEMMA Lengths ==
    ASSUME TypeInv
    PROVE  /\ Len(split) \in Nat /\ Len(ch) \in Nat /\ Len(batch) \in Nat
           /\ Len(queued) \in Nat /\ Len(received) \in Nat
           /\ \A w \in Writer : Len(offering[w]) \in Nat
BY DEF TypeInv, Numbered

LEMMA QueueNext ==
    ASSUME TypeInv, QueueInv, [Next]_vars
    PROVE  QueueInv'
<1> USE Lengths DEF QueueInv, Finished
<1>1. ASSUME NEW w \in Writer, Split(w)
      PROVE  QueueInv'
  BY <1>1 DEF Split
<1>2. ASSUME NEW w \in Writer, Offer(w)
      PROVE  QueueInv'
  <2>1. CASE UNCHANGED <<ch, queued>>
    BY <1>2, <2>1 DEF Offer
  <2>2. CASE ch' # ch
    <3> DEFINE line == Head(offering[w])
    <3>1. line \in Number /\ ch' = Append(ch, line) /\ queued' = Append(queued, line)
      BY <1>2, <2>2, HeadAndTail DEF Offer, TypeInv, Numbered
    <3> HIDE DEF line
    <3>2. /\ Len(ch') = Len(ch) + 1
          /\ \A k \in 1 .. Len(ch) : ch'[k] = ch[k]
          /\ ch'[Len(ch) + 1] = line
          /\ Len(queued') = Len(queued) + 1
          /\ \A k \in 1 .. Len(queued) : queued'[k] = queued[k]
          /\ queued'[Len(queued) + 1] = line
      BY <3>1, AppendProperties DEF TypeInv, Numbered
    <3>3. batch' = batch
      BY <1>2 DEF Offer
    <3>4. Finished' = Finished /\ Finished \in Nat
      BY <3>2, <3>3
    <3>5. ASSUME NEW k \in 1 .. Len(batch')
          PROVE  batch'[k] = queued'[Finished' + k]
      <4>1. Finished + k \in 1 .. Len(queued) /\ batch[k] = queued[Finished + k]
        BY <3>3
      <4> QED
        BY <3>2, <3>3, <3>4, <4>1
    <3>6. ASSUME NEW k \in 1 .. Len(ch')
          PROVE  ch'[k] = queued'[Finished' + Len(batch') + k]
      <4>1. CASE k <= Len(ch)
        BY <3>2, <3>3, <3>4, <4>1
      <4>2. CASE k = Len(ch) + 1
        BY <3>2, <3>3, <3>4, <4>2
      <4> QED
        BY <3>2, <4>1, <4>2
    <3> QED
      BY <3>4, <3>5, <3>6
  <2> QED
    BY <1>2, <2>1, <2>2 DEF Offer
<1>3. CASE Receive
  <2>1. ch # <<>> /\ ch' = Tail(ch) /\ batch' = Append(batch, Head(ch)) /\ queued' = queued
    BY <1>3 DEF Receive, writeVars
  <2>2. /\ Head(ch) = ch[1] /\ Len(ch) > 0
        /\ Len(ch') = Len(ch) - 1
        /\ \A k \in 1 .. Len(ch') : ch'[k] = ch[k + 1]
        /\ Head(ch) \in Number
    BY <2>1, HeadAndTail DEF TypeInv, Numbered
  <2>3. /\ Len(batch') = Len(batch) + 1
        /\ \A k \in 1 .. Len(batch) : batch'[k] = batch[k]
        /\ batch'[Len(batch) + 1] = Head(ch)
    BY <2>1, <2>2, AppendProperties DEF TypeInv, Numbered
  <2>4. Finished' = Finished /\ Finished \in Nat
    BY <2>1, <2>2, <2>3
  <2>5. ASSUME NEW k \in 1 .. Len(batch')
        PROVE  batch'[k] = queued'[Finished' + k]
    <3>1. CASE k <= Len(batch)
      BY <2>1, <2>3, <2>4, <3>1
    <3>2. CASE k = Len(batch) + 1
      BY <2>1, <2>2, <2>3, <2>4, <3>2
    <3> QED
      BY <2>3, <3>1, <3>2
  <2>6. ASSUME NEW k \in 1 .. Len(ch')
        PROVE  ch'[k] = queued'[Finished' + Len(batch') + k]
    BY <2>1, <2>2, <2>3, <2>4
  <2> QED
    BY <2>4, <2>5, <2>6
<1>4. CASE Post
  <2>1. UNCHANGED <<queued, ch>> /\ (batch' = batch \/ batch' = <<>>)
    BY <1>4, PostEffect
  <2>2. CASE batch' = <<>>
    <3>1. Len(batch') = 0
      BY <2>2
    <3>2. Finished' = Finished + Len(batch)
      BY <2>1, <3>1
    <3> QED
      BY <2>1, <3>1, <3>2
  <2> QED
    BY <2>1, <2>2
<1>5. CASE Quiet
  BY <1>5 DEF Quiet
<1> QED
  BY <1>1, <1>2, <1>3, <1>4, <1>5, StepKinds

LEMMA DistinctNext ==
    ASSUME TypeInv, DistinctInv, [Next]_vars
    PROVE  DistinctInv'
<1> USE Lengths DEF DistinctInv
<1>t. /\ \A w \in Writer : \A i \in 1 .. Len(offering[w]) : offering[w][i] \in Number
      /\ \A j \in 1 .. Len(queued) : queued[j] \in Number
  BY DEF TypeInv, Numbered
<1>u. ASSUME UNCHANGED <<queued, offering, split>>
      PROVE  DistinctInv'
  BY <1>u DEF Blank, QueuedOnce, NoneBlank, OfferedNew, OfferedOnce
<1>1. ASSUME NEW w \in Writer, Split(w)
      PROVE  DistinctInv'
  <2>1. queued' = queued
    BY <1>1 DEF Split
  <2>2. QueuedOnce'
    BY <2>1 DEF QueuedOnce
  <2>3. NoneBlank'
    <3>1. \A l \in Number : split'[l] = split[l]
      BY <1>1, SplitNumbers
    <3> QED
      BY <1>t, <2>1, <3>1 DEF NoneBlank, Blank
  <2>4. /\ \A u \in Writer \ {w} : offering'[u] = offering[u]
        /\ Len(offering'[w]) \in Nat
        /\ \A k \in 1 .. Len(offering'[w]) : offering'[w][k] = Len(split) + k
    BY <1>1, SplitNumbers
  <2>5. OfferedNew'
    <3> SUFFICES ASSUME NEW u \in Writer, NEW i \in 1 .. Len(offering'[u]),
                        NEW j \in 1 .. Len(queued)
                 PROVE  offering'[u][i] # queued[j]
      BY <2>1 DEF OfferedNew
    <3>1. CASE u = w
      BY <2>4, <3>1, <1>t DEF Number
    <3>2. CASE u # w
      BY <2>4, <3>2 DEF OfferedNew
    <3> QED
      BY <3>1, <3>2
  <2>6. OfferedOnce'
    <3> SUFFICES ASSUME NEW u \in Writer, NEW x \in Writer,
                        NEW i \in 1 .. Len(offering'[u]), NEW j \in 1 .. Len(offering'[x]),
                        offering'[u][i] = offering'[x][j]
                 PROVE  u = x /\ i = j
      BY DEF OfferedOnce
    <3>1. CASE u = w /\ x = w
      <4>1. Len(split) + i = Len(split) + j
        BY <2>4, <3>1
      <4> QED
        BY <2>4, <3>1, <4>1
    <3>2. CASE u = w /\ x # w
      BY <2>4, <3>2, <1>t DEF Number
    <3>3. CASE u # w /\ x = w
      BY <2>4, <3>3, <1>t DEF Number
    <3>4. CASE u # w /\ x # w
      <4>1. offering'[u] = offering[u] /\ offering'[x] = offering[x]
        BY <2>4, <3>4
      <4>2. /\ i \in 1 .. Len(offering[u]) /\ j \in 1 .. Len(offering[x])
            /\ offering[u][i] = offering[x][j]
        BY <4>1
      <4> QED
        BY <4>2 DEF OfferedOnce
    <3> QED
      BY <3>1, <3>2, <3>3, <3>4
  <2> QED
    BY <2>2, <2>3, <2>5, <2>6
<1>2. ASSUME NEW w \in Writer, Offer(w)
      PROVE  DistinctInv'
  <2> DEFINE line == Head(offering[w])
  <2>1. /\ line = offering[w][1] /\ line \in Number
        /\ 1 \in 1 .. Len(offering[w])
        /\ Len(offering'[w]) = Len(offering[w]) - 1
        /\ \A i \in 1 .. Len(offering'[w]) : offering'[w][i] = offering[w][i + 1]
        /\ \A u \in Writer \ {w} : offering'[u] = offering[u]
    BY <1>2, HeadAndTail DEF Offer, TypeInv, Numbered
  <2>2. UNCHANGED split
    BY <1>2 DEF Offer
  <2>3. \/ queued' = queued
        \/ queued' = Append(queued, line) /\ ~Blank(line)
    BY <1>2 DEF Offer
  <2> HIDE DEF line
  \* What is still offered stood one place further before.
  <2>4. ASSUME NEW u \in Writer, NEW i \in 1 .. Len(offering'[u])
        PROVE  LET k == IF u = w THEN i + 1 ELSE i
               IN  k \in 1 .. Len(offering[u]) /\ offering'[u][i] = offering[u][k]
    <3>1. CASE u = w
      BY <2>1, <3>1
    <3>2. CASE u # w
      BY <2>1, <3>2
    <3> QED
      BY <3>1, <3>2
  <2>5. ASSUME NEW u \in Writer, NEW i \in 1 .. Len(offering'[u])
        PROVE  offering'[u][i] # line
    <3> DEFINE k == IF u = w THEN i + 1 ELSE i
    <3>1. k \in 1 .. Len(offering[u]) /\ offering'[u][i] = offering[u][k]
      BY <2>4
    <3>2. offering[u][k] = offering[w][1] => u = w /\ k = 1
      <4> HIDE DEF k
      <4> QED
        BY <2>1, <3>1 DEF OfferedOnce
    <3>3. ~(u = w /\ k = 1)
      BY <2>1
    <3> QED
      BY <2>1, <3>1, <3>2, <3>3
  <2>6. OfferedOnce'
    <3> SUFFICES ASSUME NEW u \in Writer, NEW x \in Writer,
                        NEW i \in 1 .. Len(offering'[u]), NEW j \in 1 .. Len(offering'[x]),
                        offering'[u][i] = offering'[x][j]
                 PROVE  u = x /\ i = j
      BY DEF OfferedOnce
    <3> DEFINE k == IF u = w THEN i + 1 ELSE i
               m == IF x = w THEN j + 1 ELSE j
    <3>1. /\ k \in 1 .. Len(offering[u]) /\ offering'[u][i] = offering[u][k]
          /\ m \in 1 .. Len(offering[x]) /\ offering'[x][j] = offering[x][m]
      BY <2>4
    <3>2. u = x /\ k = m
      <4> HIDE DEF k, m
      <4>1. offering[u][k] = offering[x][m]
        BY <3>1
      <4> QED
        BY <3>1, <4>1 DEF OfferedOnce
    <3> QED
      BY <3>2
  <2>7. ASSUME NEW u \in Writer, NEW i \in 1 .. Len(offering'[u]), NEW j \in 1 .. Len(queued)
        PROVE  offering'[u][i] # queued[j]
    <3> DEFINE k == IF u = w THEN i + 1 ELSE i
    <3>1. k \in 1 .. Len(offering[u]) /\ offering'[u][i] = offering[u][k]
      BY <2>4
    <3> HIDE DEF k
    <3> QED
      BY <3>1 DEF OfferedNew
  <2>8. CASE queued' = queued
    <3>1. QueuedOnce' /\ NoneBlank'
      BY <2>2, <2>8 DEF QueuedOnce, NoneBlank, Blank
    <3>2. OfferedNew'
      BY <2>7, <2>8 DEF OfferedNew
    <3> QED
      BY <2>6, <3>1, <3>2
  <2>9. CASE queued' = Append(queued, line) /\ ~Blank(line)
    <3>1. /\ Len(queued') = Len(queued) + 1
          /\ \A k \in 1 .. Len(queued) : queued'[k] = queued[k]
          /\ queued'[Len(queued) + 1] = line
      BY <2>1, <2>9, AppendProperties DEF TypeInv, Numbered
    <3>2. \A j \in 1 .. Len(queued) : queued[j] # line
      BY <2>1 DEF OfferedNew
    <3>3. QueuedOnce'
      BY <3>1, <3>2 DEF QueuedOnce
    <3>4. NoneBlank'
      <4> SUFFICES ASSUME NEW j \in 1 .. Len(queued')
                   PROVE  split[queued'[j]] # <<>>
        BY <2>2 DEF NoneBlank, Blank
      <4>1. CASE j \in 1 .. Len(queued)
        BY <3>1, <4>1 DEF NoneBlank, Blank
      <4>2. CASE j = Len(queued) + 1
        BY <3>1, <4>2, <2>9 DEF Blank
      <4> QED
        BY <3>1, <4>1, <4>2
    <3>5. OfferedNew'
      <4> SUFFICES ASSUME NEW u \in Writer, NEW i \in 1 .. Len(offering'[u]),
                          NEW j \in 1 .. Len(queued')
                   PROVE  offering'[u][i] # queued'[j]
        BY DEF OfferedNew
      <4>1. CASE j \in 1 .. Len(queued)
        BY <3>1, <4>1, <2>7
      <4>2. CASE j = Len(queued) + 1
        BY <3>1, <4>2, <2>5
      <4> QED
        BY <3>1, <4>1, <4>2
    <3> QED
      BY <2>6, <3>3, <3>4, <3>5
  <2> QED
    BY <2>3, <2>8, <2>9
<1>3. CASE Receive
  BY <1>3, <1>u DEF Receive, writeVars
<1>4. CASE Post
  BY <1>4, <1>u, PostEffect
<1>5. CASE Quiet
  BY <1>5, <1>u DEF Quiet
<1> QED
  BY <1>1, <1>2, <1>3, <1>4, <1>5, StepKinds

-----------------------------------------------------------------------------
(* What has arrived *)

\* Only lines the worker has taken off the channel have arrived; those it is done with have
\* arrived or were given up; and a line of the batch arrives before the batch is done only
\* in an attempt whose answer was lost.
ArrivedInv ==
    /\ \A n \in 1 .. Len(received) : \E i \in 1 .. Finished + Len(batch) : received[n] = queued[i]
    /\ \A i \in 1 .. Finished : queued[i] \in Range(received) \cup givenUp
    /\ unanswered \subseteq Range(received)
    /\ Range(batch) \cap Range(received) \subseteq unanswered

\* Finished, when a line moves from the channel to the batch, and when the batch goes.
LEMMA FinishedOf ==
    ASSUME TypeInv, QueueInv
    PROVE  /\ Finished \in Nat /\ Finished + Len(batch) <= Len(queued)
           /\ Receive => Finished' = Finished /\ Len(batch') = Len(batch) + 1
           /\ (UNCHANGED <<queued, ch>> /\ batch' = <<>>) => Finished' = Finished + Len(batch) /\ Len(batch') = 0
<1> USE Lengths
<1>1. Finished \in Nat /\ Finished + Len(batch) <= Len(queued)
  BY DEF QueueInv, Finished
<1>2. ASSUME Receive
      PROVE  Finished' = Finished /\ Len(batch') = Len(batch) + 1
  <2>1. /\ Head(ch) \in Number /\ Len(ch') = Len(ch) - 1
        /\ batch' = Append(batch, Head(ch)) /\ queued' = queued
    BY <1>2, HeadAndTail DEF Receive, writeVars, TypeInv, Numbered
  <2>2. Len(batch') = Len(batch) + 1
    BY <2>1, AppendProperties DEF TypeInv, Numbered
  <2> QED
    BY <2>1, <2>2 DEF Finished
<1>3. ASSUME UNCHANGED <<queued, ch>>, batch' = <<>>
      PROVE  Finished' = Finished + Len(batch) /\ Len(batch') = 0
  BY <1>3 DEF Finished
<1> QED
  BY <1>1, <1>2, <1>3

\* The lines of the batch stand in the queue right after the finished ones, those of the
\* channel after them.
LEMMA BatchInQueue ==
    ASSUME TypeInv, QueueInv, DistinctInv
    PROVE  /\ \A l \in Range(batch) : \E i \in Finished + 1 .. Finished + Len(batch) : l = queued[i]
           /\ \A i \in 1 .. Finished : queued[i] \notin Range(batch)
           /\ \A l \in Range(ch) : \E i \in Finished + Len(batch) + 1 .. Len(queued) : l = queued[i]
<1> USE Lengths, FinishedOf
<1>b. batch \in Seq(Number) /\ ch \in Seq(Number)
  BY DEF TypeInv, Numbered
<1>1. ASSUME NEW l \in Range(batch)
      PROVE  \E i \in Finished + 1 .. Finished + Len(batch) : l = queued[i]
  <2>1. PICK k \in 1 .. Len(batch) : l = batch[k]
    BY <1>b, InRange
  <2>2. l = queued[Finished + k] /\ Finished + k \in Finished + 1 .. Finished + Len(batch)
    BY <2>1 DEF QueueInv
  <2> QED
    BY <2>2
<1>2. ASSUME NEW i \in 1 .. Finished, queued[i] \in Range(batch)
      PROVE  FALSE
  <2>1. PICK j \in Finished + 1 .. Finished + Len(batch) : queued[i] = queued[j]
    BY <1>1, <1>2
  <2>2. i \in 1 .. Len(queued) /\ j \in 1 .. Len(queued)
    OBVIOUS
  <2>3. i = j
    BY <2>1, <2>2 DEF DistinctInv, QueuedOnce
  <2> QED
    BY <2>3
<1>3. ASSUME NEW l \in Range(ch)
      PROVE  \E i \in Finished + Len(batch) + 1 .. Len(queued) : l = queued[i]
  <2>1. PICK k \in 1 .. Len(ch) : l = ch[k]
    BY <1>b, InRange
  <2>2. /\ l = queued[Finished + Len(batch) + k]
        /\ Finished + Len(batch) + k \in Finished + Len(batch) + 1 .. Len(queued)
    BY <2>1 DEF QueueInv, Finished
  <2> QED
    BY <2>2
<1> QED
  BY <1>1, <1>2, <1>3

\* No line of the channel has arrived or is in the batch.
LEMMA ChannelApart ==
    ASSUME TypeInv, QueueInv, DistinctInv, ArrivedInv
    PROVE  Range(ch) \cap (Range(received) \cup Range(batch)) = {}
<1> USE Lengths, FinishedOf
<1>1. ASSUME NEW l \in Range(ch), l \in Range(received) \cup Range(batch)
      PROVE  FALSE
  <2>1. PICK i \in Finished + Len(batch) + 1 .. Len(queued) : l = queued[i]
    BY BatchInQueue
  <2>2. \E j \in 1 .. Finished + Len(batch) : l = queued[j]
    <3>1. CASE l \in Range(received)
      <4>1. PICK n \in 1 .. Len(received) : l = received[n]
        BY <3>1, InRange DEF TypeInv, Numbered
      <4> QED
        BY <4>1 DEF ArrivedInv
    <3>2. CASE l \in Range(batch)
      <4>1. PICK j \in Finished + 1 .. Finished + Len(batch) : l = queued[j]
        BY <3>2, BatchInQueue
      <4> QED
        BY <4>1
    <3> QED
      BY <1>1, <3>1, <3>2
  <2>3. PICK j \in 1 .. Finished + Len(batch) : l = queued[j]
    BY <2>2
  <2>4. i \in 1 .. Len(queued) /\ j \in 1 .. Len(queued) /\ i # j
    BY <2>1, <2>3
  <2> QED
    BY <2>1, <2>3, <2>4 DEF DistinctInv, QueuedOnce
<1> QED
  BY <1>1

\* The second sequence of a concatenation, by positions.
LEMMA Concatenated ==
    ASSUME NEW S, NEW s \in Seq(S), NEW t \in Seq(S)
    PROVE  /\ Len(s) \in Nat /\ Len(t) \in Nat
           /\ Len(s \o t) = Len(s) + Len(t)
           /\ \A n \in 1 .. Len(s) : (s \o t)[n] = s[n]
           /\ \A n \in 1 .. Len(t) : (s \o t)[Len(s) + n] = t[n]
OBVIOUS

LEMMA ArrivedNext ==
    ASSUME TypeInv, QueueInv, DistinctInv, ArrivedInv, [Next]_vars
    PROVE  ArrivedInv'
<1> USE Lengths, FinishedOf
<1>u. ASSUME UNCHANGED <<queued, batch, received, givenUp, unanswered>>, Len(ch') = Len(ch)
      PROVE  ArrivedInv'
  BY <1>u DEF ArrivedInv, Finished
<1>1. ASSUME NEW w \in Writer, Split(w)
      PROVE  ArrivedInv'
  BY <1>1, <1>u DEF Split, postVars
<1>2. ASSUME NEW w \in Writer, Offer(w)
      PROVE  ArrivedInv'
  <2>1. UNCHANGED <<batch, received, givenUp, unanswered>>
    BY <1>2 DEF Offer, postVars
  <2>2. CASE UNCHANGED <<ch, queued>>
    BY <2>1, <2>2, <1>u
  <2>3. CASE ch' # ch
    <3> DEFINE line == Head(offering[w])
    <3>1. line \in Number /\ ch' = Append(ch, line) /\ queued' = Append(queued, line)
      BY <1>2, <2>3, HeadAndTail DEF Offer, TypeInv, Numbered
    <3> HIDE DEF line
    <3>2. /\ Len(ch') = Len(ch) + 1
          /\ Len(queued') = Len(queued) + 1
          /\ \A k \in 1 .. Len(queued) : queued'[k] = queued[k]
      BY <3>1, AppendProperties DEF TypeInv, Numbered
    <3>3. Finished' = Finished
      BY <2>1, <3>2 DEF Finished
    <3>4. \A i \in 1 .. Finished + Len(batch) : queued'[i] = queued[i]
      BY <3>2
    <3> QED
      BY <2>1, <3>3, <3>4 DEF ArrivedInv
  <2> QED
    BY <1>2, <2>2, <2>3 DEF Offer
<1>3. CASE Receive
  <2>1. /\ Finished' = Finished /\ Len(batch') = Len(batch) + 1
        /\ UNCHANGED <<queued, received, givenUp, unanswered>>
    BY <1>3 DEF Receive, writeVars
  <2>2. Range(batch') = Range(batch) \cup {Head(ch)} /\ Head(ch) \in Range(ch)
    <3>1. Head(ch) \in Number /\ Head(ch) \in Range(ch)
      BY <1>3, HeadAndTail DEF Receive, TypeInv, Numbered
    <3> QED
      BY <1>3, <3>1, RangeAppend DEF Receive, TypeInv, Numbered
  <2>3. Range(batch') \cap Range(received') \subseteq unanswered'
    BY <2>1, <2>2, ChannelApart DEF ArrivedInv
  <2>4. \A n \in 1 .. Len(received') : \E i \in 1 .. Finished' + Len(batch') : received'[n] = queued'[i]
    <3>1. 1 .. Finished + Len(batch) \subseteq 1 .. Finished' + Len(batch')
      BY <2>1
    <3> QED
      BY <2>1, <3>1 DEF ArrivedInv
  <2> QED
    BY <2>1, <2>3, <2>4 DEF ArrivedInv
<1>4. CASE Post
  <2>1. UNCHANGED <<queued, ch>>
    BY <1>4, PostEffect
  <2>2. ASSUME NEW n \in 1 .. Len(received')
        PROVE  \E i \in 1 .. Finished + Len(batch) : received'[n] = queued[i]
    <3>1. CASE received' = received
      BY <3>1 DEF ArrivedInv
    <3>2. CASE received' = received \o batch
      <4>1. /\ Len(received') = Len(received) + Len(batch)
            /\ \A k \in 1 .. Len(received) : received'[k] = received[k]
            /\ \A k \in 1 .. Len(batch) : received'[Len(received) + k] = batch[k]
        BY <3>2, Concatenated DEF TypeInv, Numbered
      <4>2. CASE n \in 1 .. Len(received)
        BY <4>1, <4>2 DEF ArrivedInv
      <4>3. CASE n \notin 1 .. Len(received)
        <5>1. n - Len(received) \in 1 .. Len(batch)
          BY <4>1, <4>3
        <5>2. received'[n] = queued[Finished + (n - Len(received))]
          <6> DEFINE k == n - Len(received)
          <6>1. k \in 1 .. Len(batch) /\ n = Len(received) + k
            BY <5>1
          <6> HIDE DEF k
          <6>2. received'[n] = batch[k]
            BY <6>1, <4>1
          <6>3. batch[k] = queued[Finished + k]
            BY <6>1 DEF QueueInv
          <6> QED
            BY <6>2, <6>3 DEF k
        <5>3. Finished + (n - Len(received)) \in 1 .. Finished + Len(batch)
          BY <5>1
        <5> QED
          BY <5>2, <5>3
      <4> QED
        BY <4>2, <4>3
    <3> QED
      BY <1>4, <3>1, <3>2, PostEffect
  <2>3. unanswered' \subseteq Range(received')
    BY <1>4, PostEffect DEF ArrivedInv
  <2>4. CASE batch' = batch /\ batch' # <<>>
    <3>1. Finished' = Finished
      BY <2>1, <2>4 DEF Finished
    <3>2. \A i \in 1 .. Finished' : queued'[i] \in Range(received') \cup givenUp'
      BY <1>4, <2>1, <3>1, PostEffect DEF ArrivedInv
    <3>3. Range(batch') \cap Range(received') \subseteq unanswered'
      <4>1. Range(received') \subseteq Range(received) \cup unanswered'
        BY <1>4, <2>4, PostEffect
      <4>2. unanswered \subseteq unanswered'
        BY <1>4, PostEffect
      <4> QED
        BY <2>4, <4>1, <4>2 DEF ArrivedInv
    <3> QED
      BY <2>1, <2>2, <2>3, <2>4, <3>1, <3>2, <3>3 DEF ArrivedInv
  <2>5. CASE batch' = <<>>
    <3>1. Finished' = Finished + Len(batch) /\ Len(batch') = 0
      BY <2>1, <2>5
    <3>2. ASSUME NEW i \in 1 .. Finished'
          PROVE  queued'[i] \in Range(received') \cup givenUp'
      <4>1. CASE i \in 1 .. Finished
        BY <1>4, <2>1, <4>1, PostEffect DEF ArrivedInv
      <4>2. CASE i \notin 1 .. Finished
        <5>1. i - Finished \in 1 .. Len(batch)
          BY <3>1, <4>2
        <5>2. queued[i] \in Range(batch)
          <6> DEFINE k == i - Finished
          <6>1. k \in 1 .. Len(batch) /\ i = Finished + k
            BY <5>1
          <6> HIDE DEF k
          <6>2. batch[k] = queued[i] /\ batch[k] \in Range(batch)
            BY <6>1, InRange DEF QueueInv, TypeInv, Numbered
          <6> QED
            BY <6>2
        <5>3. Range(batch) \subseteq Range(received') \cup givenUp'
          <6>1. batch # <<>>
            BY <1>4 DEF Post, PostOK, PostFailed, PostBadURL, TypeInv, TypeOK
          <6> QED
            BY <1>4, <2>5, <6>1, PostEffect
        <5> QED
          BY <2>1, <5>2, <5>3
      <4> QED
        BY <4>1, <4>2
    <3>3. Range(batch') = {}
      BY <2>5 DEF Range
    <3>4. \A n \in 1 .. Len(received') : \E i \in 1 .. Finished' + Len(batch') : received'[n] = queued'[i]
      BY <2>1, <2>2, <3>1
    <3> QED
      BY <2>3, <3>2, <3>3, <3>4 DEF ArrivedInv
  <2> QED
    BY <1>4, <2>4, <2>5, PostEffect
<1>5. CASE Quiet
  BY <1>5, <1>u DEF Quiet
<1> QED
  BY <1>1, <1>2, <1>3, <1>4, <1>5, StepKinds

-----------------------------------------------------------------------------
(* The order of arrival *)

LEMMA OrderNext ==
    ASSUME TypeInv, QueueInv, DistinctInv, ArrivedInv, ChannelOrder, [Next]_vars
    PROVE  ChannelOrder'
<1> USE Lengths, FinishedOf
<1>d. DOMAIN queued = 1 .. Len(queued) /\ DOMAIN received = 1 .. Len(received)
  BY DEF TypeInv, Numbered
<1>u. ASSUME UNCHANGED <<queued, received, givenUp>>
      PROVE  ChannelOrder'
  BY <1>u DEF ChannelOrder
<1>1. ASSUME NEW w \in Writer, Split(w)
      PROVE  ChannelOrder'
  BY <1>1, <1>u DEF Split, postVars
<1>2. ASSUME NEW w \in Writer, Offer(w)
      PROVE  ChannelOrder'
  <2>1. UNCHANGED <<received, givenUp>>
    BY <1>2 DEF Offer, postVars
  <2>2. CASE UNCHANGED queued
    BY <2>1, <2>2, <1>u
  <2>3. CASE queued' = Append(queued, Head(offering[w]))
    <3> DEFINE line == Head(offering[w])
    <3>1. /\ line \in Number
          /\ \A j \in 1 .. Len(queued) : line # queued[j]
      <4>1. line = offering[w][1] /\ line \in Number /\ 1 \in 1 .. Len(offering[w])
        BY <1>2, HeadAndTail DEF Offer, TypeInv, Numbered
      <4> QED
        BY <4>1 DEF DistinctInv, OfferedNew
    <3> HIDE DEF line
    <3>2. /\ DOMAIN queued' = 1 .. Len(queued) + 1
          /\ \A k \in 1 .. Len(queued) : queued'[k] = queued[k]
          /\ queued'[Len(queued) + 1] = line
      BY <2>3, <3>1, AppendProperties DEF TypeInv, Numbered, line
    <3>3. \A n \in 1 .. Len(received) : received[n] # line
      <4> SUFFICES ASSUME NEW n \in 1 .. Len(received), received[n] = line
                   PROVE  FALSE
        OBVIOUS
      <4>1. PICK i \in 1 .. Finished + Len(batch) : received[n] = queued[i]
        BY DEF ArrivedInv
      <4>2. i \in 1 .. Len(queued)
        OBVIOUS
      <4> QED
        BY <3>1, <4>1, <4>2
    <3>4. ASSUME NEW i \in DOMAIN queued', NEW j \in DOMAIN queued', NEW n \in DOMAIN received',
                 i < j, received'[n] = queued'[j]
          PROVE  \/ queued'[i] \in givenUp'
                 \/ \E m \in 1 .. n - 1 : received'[m] = queued'[i]
      <4>1. j \in 1 .. Len(queued) /\ i \in 1 .. Len(queued) /\ n \in 1 .. Len(received)
        BY <2>1, <3>2, <3>3, <3>4, <1>d
      <4> QED
        BY <2>1, <3>2, <3>4, <4>1, <1>d DEF ChannelOrder
    <3> QED
      BY <3>4 DEF ChannelOrder
  <2> QED
    BY <1>2, <2>2, <2>3 DEF Offer
<1>3. CASE Receive
  BY <1>3, <1>u DEF Receive, writeVars
<1>4. CASE Post
  <2>1. queued' = queued /\ givenUp \subseteq givenUp'
    BY <1>4, PostEffect
  <2>2. CASE received' = received
    BY <2>1, <2>2 DEF ChannelOrder
  <2>3. CASE received' = received \o batch
    <3>1. /\ DOMAIN received' = 1 .. Len(received) + Len(batch)
          /\ \A k \in 1 .. Len(received) : received'[k] = received[k]
          /\ \A k \in 1 .. Len(batch) : received'[Len(received) + k] = batch[k]
      BY <2>3, Concatenated DEF TypeInv, Numbered
    <3>2. ASSUME NEW i \in 1 .. Len(queued), NEW j \in 1 .. Len(queued), NEW n \in DOMAIN received',
                 i < j, received'[n] = queued[j]
          PROVE  \/ queued[i] \in givenUp'
                 \/ \E m \in 1 .. n - 1 : received'[m] = queued[i]
      <4>1. CASE n \in 1 .. Len(received)
        <5>1. received[n] = queued[j]
          BY <3>1, <3>2, <4>1
        <5>2. queued[i] \in givenUp \/ \E m \in 1 .. n - 1 : received[m] = queued[i]
          BY <3>2, <4>1, <5>1, <1>d DEF ChannelOrder
        <5>3. \A m \in 1 .. n - 1 : received'[m] = received[m]
          BY <3>1, <4>1
        <5> QED
          BY <2>1, <5>2, <5>3
      <4>2. CASE n \notin 1 .. Len(received)
        <5>1. PICK k \in 1 .. Len(batch) : n = Len(received) + k
          <6>1. n - Len(received) \in 1 .. Len(batch) /\ n = Len(received) + (n - Len(received))
            BY <3>1, <4>2
          <6> QED
            BY <6>1
        <5>2. j = Finished + k
          <6>1. queued[j] = queued[Finished + k]
            BY <3>1, <3>2, <5>1 DEF QueueInv
          <6>2. Finished + k \in 1 .. Len(queued)
            OBVIOUS
          <6> QED
            BY <6>1, <6>2 DEF DistinctInv, QueuedOnce
        <5>3. CASE i \in 1 .. Finished
          <6>1. queued[i] \in Range(received) \cup givenUp
            BY <5>3 DEF ArrivedInv
          <6>2. CASE queued[i] \in Range(received)
            <7>1. PICK m \in 1 .. Len(received) : received[m] = queued[i]
              BY <6>2, InRange DEF TypeInv, Numbered
            <7>2. m \in 1 .. n - 1 /\ received'[m] = queued[i]
              BY <7>1, <3>1, <5>1
            <7> QED
              BY <7>2
          <6> QED
            BY <6>1, <6>2, <2>1
        <5>4. CASE i \notin 1 .. Finished
          <6>1. PICK q \in 1 .. k - 1 : i = Finished + q
            <7>1. i - Finished \in 1 .. k - 1
              BY <5>2, <5>4, <3>2
            <7>2. i = Finished + (i - Finished)
              OBVIOUS
            <7> QED
              BY <7>1, <7>2
          <6>2. q \in 1 .. Len(batch) /\ Len(received) + q \in 1 .. n - 1
            BY <5>1
          <6>3. received'[Len(received) + q] = queued[i]
            BY <3>1, <6>1, <6>2 DEF QueueInv
          <6> QED
            BY <6>2, <6>3
        <5> QED
          BY <5>3, <5>4
      <4> QED
        BY <4>1, <4>2
    <3> QED
      BY <2>1, <3>2, <1>d DEF ChannelOrder
  <2> QED
    BY <1>4, <2>2, <2>3, PostEffect
<1>5. CASE Quiet
  <2>1. CASE UNCHANGED <<queued, received, givenUp>>
    BY <2>1, <1>u
  <2> QED
    BY <1>5, <2>1 DEF Quiet
<1> QED
  BY <1>1, <1>2, <1>3, <1>4, <1>5, StepKinds

-----------------------------------------------------------------------------
(* Close *)

\* What Close found has arrived, was given up, or is where the worker still comes by.
FlushInv ==
    before \subseteq Range(received) \cup givenUp \cup Range(batch)
                       \cup (IF worker \in {"select", "drain"} THEN Range(ch) ELSE {})

LEMMA FlushNext ==
    ASSUME TypeInv, FlushInv, [Next]_vars
    PROVE  FlushInv'
<1> USE DEF FlushInv
<1>1. ASSUME NEW w \in Writer, Split(w)
      PROVE  FlushInv'
  BY <1>1 DEF Split, postVars, closeVars
<1>2. ASSUME NEW w \in Writer, Offer(w)
      PROVE  FlushInv'
  <2>1. UNCHANGED <<before, received, givenUp, batch, worker>>
    BY <1>2 DEF Offer, postVars, closeVars
  <2>2. Range(ch) \subseteq Range(ch')
    <3>1. CASE UNCHANGED ch
      BY <3>1
    <3>2. CASE ch' = Append(ch, Head(offering[w]))
      <4>1. Head(offering[w]) \in Number
        BY <1>2, HeadAndTail DEF Offer, TypeInv, Numbered
      <4> QED
        BY <4>1, <3>2, RangeAppend DEF TypeInv, Numbered
    <3> QED
      BY <1>2, <3>1, <3>2 DEF Offer
  <2> QED
    BY <2>1, <2>2
<1>3. CASE Receive
  <2>1. /\ Range(ch) = {Head(ch)} \cup Range(ch')
        /\ Range(batch') = Range(batch) \cup {Head(ch)}
    <3>1. Head(ch) \in Number /\ Range(ch) = {Head(ch)} \cup Range(Tail(ch))
      BY <1>3, HeadAndTail DEF Receive, TypeInv, Numbered
    <3> QED
      BY <1>3, <3>1, RangeAppend DEF Receive, TypeInv, Numbered
  <2> QED
    BY <1>3, <2>1 DEF Receive, closeVars
<1>4. CASE Tick
  BY <1>4 DEF Tick, closeVars
<1>5. CASE SeeDone
  BY <1>5 DEF SeeDone, closeVars, postVars
<1>6. CASE Leave
  <2>1. Range(ch) = {}
    BY <1>6 DEF Leave, Range
  <2> QED
    BY <1>6, <2>1 DEF Leave, closeVars
<1>7. CASE Post
  <2>1. UNCHANGED <<ch, before>>
    BY <1>7 DEF Post, PostOK, PostFailed, PostBadURL, closeVars
  <2>2. /\ Range(received) \subseteq Range(received')
        /\ givenUp \subseteq givenUp'
        /\ \/ batch' = batch
           \/ Range(batch) \subseteq Range(received') \cup givenUp'
    BY <1>7, PostEffect
  <2>3. worker' = worker \/ worker = "final"
    BY <1>7 DEF Post, PostOK, PostFailed, PostBadURL, Posted
  <2>4. Range(batch) \subseteq Range(received') \cup givenUp' \cup Range(batch')
    BY <2>2
  <2> QED
    BY <2>1, <2>2, <2>3, <2>4
<1>8. CASE Close
  <2>1. worker = "select"
    BY <1>8 DEF Close, TypeInv, Control
  <2> QED
    BY <1>8, <2>1 DEF Close, postVars
<1>9. CASE CloseReturns
  BY <1>9 DEF CloseReturns, postVars
<1>10. CASE UNCHANGED vars
  BY <1>10 DEF vars, postVars, closeVars
<1> QED
  BY <1>1, <1>2, <1>3, <1>4, <1>5, <1>6, <1>7, <1>8, <1>9, <1>10 DEF Next, Write, run, Post

-----------------------------------------------------------------------------
(* The counter *)

\* Accounted, with the lines of the batch set aside: they may be unanswered before they
\* are given up.
CountInv ==
    validURL => /\ Cardinality(Lost) <= dropped
                /\ dropped <= Cardinality(Lost \cup (unanswered \ Range(batch)))

LEMMA SubsetsOfNumber ==
    ASSUME TypeInv, NEW S \in SUBSET Number
    PROVE  IsFiniteSet(S) /\ Cardinality(S) \in Nat
<1>1. IsFiniteSet(Number)
  BY FS_Interval, Lengths DEF Number
<1> QED
  BY <1>1, FS_Subset, FS_CardinalityType

LEMMA LostType ==
    ASSUME TypeInv
    PROVE  /\ Lost \in SUBSET Number
           /\ unanswered \in SUBSET Number
           /\ Range(batch) \in SUBSET Number
BY RangeOfSeq DEF Lost, TypeInv, Numbered, Number

LEMMA IsOffered ==
    \A l : l \in Offered <=> \E u \in Writer : l \in Range(offering[u])
BY DEF Offered

\* Offer takes one line away from those offered, one that is nowhere else.
LEMMA OfferTakes ==
    ASSUME TypeInv, QueueInv, DistinctInv, ArrivedInv, NEW w \in Writer, Offer(w)
    PROVE  LET line == Head(offering[w])
           IN  /\ line \in Number
               /\ line \in Offered /\ line \notin Offered'
               /\ \A l : l # line => (l \in Offered' <=> l \in Offered)
               /\ line \notin Range(ch) \cup Range(batch) \cup Range(received) \cup unanswered
<1> DEFINE line == Head(offering[w])
<1>1. /\ line = offering[w][1] /\ line \in Number /\ 1 \in 1 .. Len(offering[w])
      /\ Range(offering[w]) = {line} \cup Range(Tail(offering[w]))
      /\ offering' = [offering EXCEPT ![w] = Tail(offering[w])]
      /\ \A i \in 1 .. Len(Tail(offering[w])) : Tail(offering[w])[i] = offering[w][i + 1]
      /\ Len(Tail(offering[w])) = Len(offering[w]) - 1
      /\ Tail(offering[w]) \in Seq(Number)
  BY HeadAndTail DEF Offer, TypeInv, Numbered
<1>2. offering'[w] = Tail(offering[w]) /\ \A u \in Writer \ {w} : offering'[u] = offering[u]
  BY <1>1 DEF TypeInv, Numbered
<1> HIDE DEF line
<1>3. \A j \in 1 .. Len(queued) : line # queued[j]
  <2>1. \A j \in 1 .. Len(queued) : offering[w][1] # queued[j]
    BY <1>1 DEF DistinctInv, OfferedNew
  <2> QED
    BY <1>1, <2>1
<1>4. \A u \in Writer : \A j \in 1 .. Len(offering[u]) : offering[u][j] = line => u = w /\ j = 1
  BY <1>1 DEF DistinctInv, OfferedOnce
<1>5. ASSUME NEW u \in Writer, line \in Range(offering'[u])
      PROVE  FALSE
  <2>1. CASE u = w
    <3>a. line \in Range(Tail(offering[w])) /\ Tail(offering[w]) \in Seq(Number)
      BY <1>1, <1>2, <1>5, <2>1
    <3>1. PICK i \in 1 .. Len(Tail(offering[w])) : line = Tail(offering[w])[i]
      BY <3>a, InRange
    <3>2. i + 1 \in 1 .. Len(offering[w]) /\ offering[w][i + 1] = line /\ i + 1 # 1
      BY <3>1, <1>1
    <3> QED
      BY <3>2, <1>4
  <2>2. CASE u # w
    <3>1. PICK i \in 1 .. Len(offering[u]) : line = offering[u][i]
      BY <1>2, <1>5, <2>2, InRange DEF TypeInv, Numbered
    <3> QED
      BY <3>1, <1>4, <2>2
  <2> QED
    BY <2>1, <2>2
<1>6. ASSUME NEW l, l # line
      PROVE  \A u \in Writer : l \in Range(offering'[u]) <=> l \in Range(offering[u])
  BY <1>1, <1>2, <1>6
<1>7. line \in Offered /\ line \notin Offered'
  BY <1>1, <1>5 DEF Offered
<1>8. \A l : l # line => (l \in Offered' <=> l \in Offered)
  BY <1>6 DEF Offered
<1> USE Lengths, FinishedOf
<1>9. ASSUME line \in Range(ch) \cup Range(batch) \cup Range(received) \cup unanswered
      PROVE  FALSE
  <2>1. \E j \in 1 .. Len(queued) : line = queued[j]
    <3>1. CASE line \in Range(ch)
      <4>1. PICK j \in Finished + Len(batch) + 1 .. Len(queued) : line = queued[j]
        BY <3>1, BatchInQueue
      <4>2. j \in 1 .. Len(queued)
        OBVIOUS
      <4> QED
        BY <4>1, <4>2
    <3>2. CASE line \in Range(batch)
      <4>1. PICK j \in Finished + 1 .. Finished + Len(batch) : line = queued[j]
        BY <3>2, BatchInQueue
      <4>2. j \in 1 .. Len(queued)
        OBVIOUS
      <4> QED
        BY <4>1, <4>2
    <3>3. CASE line \in Range(received)
      <4>1. PICK n \in 1 .. Len(received) : line = received[n]
        BY <3>3, InRange DEF TypeInv, Numbered
      <4>2. PICK j \in 1 .. Finished + Len(batch) : received[n] = queued[j]
        BY DEF ArrivedInv
      <4>3. j \in 1 .. Len(queued)
        OBVIOUS
      <4> QED
        BY <4>1, <4>2, <4>3
    <3> QED
      BY <1>9, <3>1, <3>2, <3>3 DEF ArrivedInv
  <2> QED
    BY <2>1, <1>3
<1> QED
  BY <1>1, <1>7, <1>8, <1>9 DEF line

\* The lines of the batch are in no other place.
LEMMA BatchApart ==
    ASSUME TypeInv, QueueInv, DistinctInv, ArrivedInv
    PROVE  /\ Range(batch) \cap (Range(ch) \cup Offered) = {}
           /\ Cardinality(Range(batch)) = Len(batch)
           /\ \A l \in Range(batch) : ~Blank(l)
<1> USE Lengths, FinishedOf
<1>1. ASSUME NEW l \in Range(batch)
      PROVE  l \notin Offered /\ ~Blank(l)
  <2>1. PICK j \in Finished + 1 .. Finished + Len(batch) : l = queued[j]
    BY BatchInQueue
  <2>2. j \in 1 .. Len(queued)
    OBVIOUS
  <2>3. ASSUME NEW u \in Writer, l \in Range(offering[u])
        PROVE  FALSE
    <3>1. PICK i \in 1 .. Len(offering[u]) : l = offering[u][i]
      BY <2>3, InRange DEF TypeInv, Numbered
    <3> QED
      BY <3>1, <2>1, <2>2 DEF DistinctInv, OfferedNew
  <2> QED
    BY <2>1, <2>2, <2>3, IsOffered DEF DistinctInv, NoneBlank
<1>2. Range(batch) \cap Range(ch) = {}
  BY ChannelApart
<1>3. ASSUME NEW i \in 1 .. Len(batch), NEW j \in 1 .. Len(batch), batch[i] = batch[j]
      PROVE  i = j
  <2>1. Finished + i \in 1 .. Len(queued) /\ Finished + j \in 1 .. Len(queued)
    OBVIOUS
  <2>2. queued[Finished + i] = queued[Finished + j]
    BY <1>3 DEF QueueInv
  <2>3. Finished + i = Finished + j
    BY <2>1, <2>2 DEF DistinctInv, QueuedOnce
  <2> QED
    BY <2>3
<1>4. Cardinality(Range(batch)) = Len(batch)
  BY <1>3, RangeCardinality DEF TypeInv, Numbered
<1> QED
  BY <1>1, <1>2, <1>4

LEMMA IsLost ==
    ASSUME TypeInv
    PROVE  \A l : l \in Lost <=> /\ l \in Number /\ ~Blank(l)
                                 /\ l \notin Range(received) /\ l \notin Offered
                                 /\ l \notin Range(ch) /\ l \notin Range(batch)
<1>1. DOMAIN split = Number
  BY DEF TypeInv, Numbered, Number
<1> QED
  BY <1>1 DEF Lost, OnTheWay

LEMMA CountNext ==
    ASSUME TypeInv, TypeInv', QueueInv, DistinctInv, ArrivedInv, CountInv, [Next]_vars
    PROVE  CountInv'
<1>t. /\ Lost \in SUBSET Number /\ unanswered \in SUBSET Number /\ Range(batch) \in SUBSET Number
  BY LostType
<1>l. \A l : l \in Lost' <=> /\ l \in Number' /\ ~Blank(l)'
                             /\ l \notin Range(received') /\ l \notin Offered'
                             /\ l \notin Range(ch') /\ l \notin Range(batch')
  <2>1. DOMAIN split' = Number'
    BY DEF TypeInv, Numbered, Number
  <2> QED
    BY <2>1 DEF Lost, OnTheWay
<1>c. ASSUME validURL' = validURL, NEW c \in Nat, NEW d \in Nat,
             Cardinality(Lost') = c, Cardinality(Lost' \cup (unanswered' \ Range(batch'))) = d,
             validURL => c <= dropped' /\ dropped' <= d
      PROVE  CountInv'
  BY <1>c DEF CountInv
<1>u. ASSUME Lost' = Lost, UNCHANGED <<dropped, validURL>>,
             unanswered' \ Range(batch') = unanswered \ Range(batch)
      PROVE  CountInv'
  BY <1>u DEF CountInv
<1>1. ASSUME NEW w \in Writer, Split(w)
      PROVE  CountInv'
  <2>1. UNCHANGED <<ch, batch, received, unanswered, dropped, validURL>>
    BY <1>1 DEF Split, postVars
  <2>2. /\ Len(split) \in Nat /\ Len(split') \in Nat /\ Len(split) <= Len(split')
        /\ \A l \in Number : split'[l] = split[l]
        /\ Len(offering'[w]) = Len(split') - Len(split)
        /\ \A k \in 1 .. Len(offering'[w]) : offering'[w][k] = Len(split) + k
        /\ \A u \in Writer \ {w} : offering'[u] = offering[u]
        /\ offering'[w] \in Seq(Number')
    BY <1>1, SplitNumbers
  <2>3. Range(offering[w]) = {}
    BY <1>1 DEF Split, Range
  <2>4. ASSUME NEW l \in Number
        PROVE  l \notin Range(offering'[w])
    <3> SUFFICES ASSUME l \in Range(offering'[w])
                 PROVE  FALSE
      OBVIOUS
    <3>1. PICK k \in 1 .. Len(offering'[w]) : l = offering'[w][k]
      BY <2>2, InRange
    <3>2. l = Len(split) + k
      BY <3>1, <2>2
    <3> QED
      BY <3>2, <2>2 DEF Number
  <2>5. ASSUME NEW l \in Number' \ Number
        PROVE  l \in Range(offering'[w])
    <3> DEFINE k == l - Len(split)
    <3>1. k \in 1 .. Len(offering'[w]) /\ l = Len(split) + k
      BY <2>2 DEF Number
    <3> HIDE DEF k
    <3>2. offering'[w][k] = l
      BY <3>1, <2>2
    <3> QED
      BY <2>2, <3>1, <3>2, InRange
  <2>6. ASSUME NEW l \in Number
        PROVE  l \in Offered' <=> l \in Offered
    BY <2>2, <2>3, <2>4 DEF Offered
  <2>7. Number \subseteq Number'
    BY <2>2 DEF Number
  <2>8. \A l \in Number' \ Number : l \in Offered'
    BY <2>5 DEF Offered
  <2>9. \A l \in Number : Blank(l)' <=> Blank(l)
    BY <2>2 DEF Blank
  <2>10. Lost' = Lost
    BY <2>1, <2>6, <2>7, <2>8, <2>9, <1>l, IsLost
  <2> QED
    BY <2>1, <2>10, <1>u
<1>2. ASSUME NEW w \in Writer, Offer(w)
      PROVE  CountInv'
  <2> DEFINE line == Head(offering[w])
  <2>1. UNCHANGED <<split, batch, received, unanswered, validURL>>
    BY <1>2 DEF Offer, postVars
  <2>2. /\ line \in Number
        /\ line \in Offered /\ line \notin Offered'
        /\ \A l : l # line => (l \in Offered' <=> l \in Offered)
        /\ line \notin Range(ch) \cup Range(batch) \cup Range(received) \cup unanswered
    BY <1>2, OfferTakes
  <2>3. \/ Blank(line) /\ UNCHANGED <<ch, dropped>>
        \/ ~Blank(line) /\ ch' = Append(ch, line) /\ UNCHANGED dropped
        \/ ~Blank(line) /\ dropped' = dropped + 1 /\ UNCHANGED ch
    BY <1>2 DEF Offer
  <2> HIDE DEF line
  <2>4. Number' = Number /\ \A l : Blank(l)' <=> Blank(l)
    BY <2>1 DEF Number, Blank
  <2>5. CASE Blank(line) /\ UNCHANGED <<ch, dropped>>
    <3>1. Lost' = Lost
      BY <2>1, <2>2, <2>4, <2>5, <1>l, IsLost
    <3> QED
      BY <3>1, <2>1, <2>5, <1>u
  <2>6. CASE ~Blank(line) /\ ch' = Append(ch, line) /\ UNCHANGED dropped
    <3>1. Range(ch') = Range(ch) \cup {line}
      BY <2>2, <2>6, RangeAppend DEF TypeInv, Numbered
    <3>2. Lost' = Lost
      BY <3>1, <2>1, <2>2, <2>4, <2>6, <1>l, IsLost
    <3> QED
      BY <3>2, <2>1, <2>6, <1>u
  <2>7. CASE ~Blank(line) /\ dropped' = dropped + 1 /\ UNCHANGED ch
    <3> DEFINE M == Lost \cup (unanswered \ Range(batch))
    <3>1. Lost' = Lost \cup {line} /\ line \notin Lost
      BY <2>1, <2>2, <2>4, <2>7, <1>l, IsLost
    <3>2. /\ Lost' \cup (unanswered' \ Range(batch')) = M \cup {line}
          /\ line \notin M
      BY <3>1, <2>1, <2>2
    <3>3. /\ IsFiniteSet(Lost) /\ Cardinality(Lost) \in Nat
          /\ IsFiniteSet(M) /\ Cardinality(M) \in Nat
      BY <1>t, SubsetsOfNumber
    <3> HIDE DEF M
    <3>4. /\ Cardinality(Lost \cup {line}) = Cardinality(Lost) + 1
          /\ Cardinality(M \cup {line}) = Cardinality(M) + 1
      BY <3>1, <3>2, <3>3, FS_AddElement
    <3>5. dropped \in Nat
      BY DEF TypeInv, TypeOK
    <3>6. validURL => Cardinality(Lost) <= dropped /\ dropped <= Cardinality(M)
      BY DEF CountInv, M
    <3>7. /\ Cardinality(Lost') = Cardinality(Lost) + 1
          /\ Cardinality(Lost' \cup (unanswered' \ Range(batch'))) = Cardinality(M) + 1
      BY <3>1, <3>2, <3>4
    <3>8. validURL => Cardinality(Lost) + 1 <= dropped' /\ dropped' <= Cardinality(M) + 1
      BY <2>7, <3>3, <3>5, <3>6
    <3>9. Cardinality(Lost) + 1 \in Nat /\ Cardinality(M) + 1 \in Nat
      BY <3>3
    <3>10. validURL' = validURL
      BY <2>1
    <3> QED
      BY <3>7, <3>8, <3>9, <3>10, <1>c, Zenon
  <2> QED
    BY <2>3, <2>5, <2>6, <2>7
<1>3. CASE Receive
  <2>1. UNCHANGED <<split, offering, received, unanswered, dropped, validURL>>
    BY <1>3 DEF Receive, writeVars
  <2>2. /\ Range(ch) = {Head(ch)} \cup Range(ch')
        /\ Range(batch') = Range(batch) \cup {Head(ch)}
    <3>1. Head(ch) \in Number /\ Range(ch) = {Head(ch)} \cup Range(Tail(ch))
      BY <1>3, HeadAndTail DEF Receive, TypeInv, Numbered
    <3> QED
      BY <1>3, <3>1, RangeAppend DEF Receive, TypeInv, Numbered
  <2>3. Number' = Number /\ Offered' = Offered /\ \A l : Blank(l)' <=> Blank(l)
    BY <2>1 DEF Number, Offered, Blank
  <2>4. Lost' = Lost
    BY <2>1, <2>2, <2>3, <1>l, IsLost
  <2>5. unanswered' \ Range(batch') = unanswered \ Range(batch)
    BY <2>1, <2>2, ChannelApart DEF ArrivedInv
  <2> QED
    BY <2>1, <2>4, <2>5, <1>u
<1>4. CASE Post
  <2>1. /\ UNCHANGED <<offering, split, ch, validURL>>
        /\ Range(received) \subseteq Range(received')
        /\ Range(received') \subseteq Range(received) \cup Range(batch)
    BY <1>4, PostEffect
  <2>2. Number' = Number /\ Offered' = Offered /\ \A l : Blank(l)' <=> Blank(l)
    BY <2>1 DEF Number, Offered, Blank
  <2>3. CASE UNCHANGED <<batch, dropped>>
    <3>1. Lost' = Lost
      BY <2>1, <2>2, <2>3, <1>l, IsLost
    <3>2. unanswered' \ Range(batch') = unanswered \ Range(batch)
      <4>1. unanswered' = unanswered \/ unanswered' = unanswered \cup Range(batch)
        BY <1>4, PostEffect
      <4> QED
        BY <2>3, <4>1
    <3> QED
      BY <2>1, <2>3, <3>1, <3>2, <1>u
  <2>4. CASE PostOK
    <3>1. batch' = <<>> /\ UNCHANGED <<dropped, unanswered>> /\ Range(batch') = {}
      BY <2>4 DEF PostOK, Posted, Range
    <3>2. Range(batch) \subseteq Range(received')
      <4>1. Range(received \o batch) = Range(received) \cup Range(batch)
        BY RangeConcatenation DEF TypeInv, Numbered
      <4> QED
        BY <2>4, <4>1 DEF PostOK, Arrive
    <3>3. Lost' = Lost
      BY <2>1, <2>2, <3>1, <3>2, <1>l, IsLost
    <3> DEFINE M == Lost \cup (unanswered \ Range(batch))
               N == Lost \cup unanswered
    <3>4. /\ IsFiniteSet(N) /\ Cardinality(N) \in Nat /\ Cardinality(M) \in Nat
          /\ M \in SUBSET N
      BY <1>t, SubsetsOfNumber
    <3>5. Cardinality(M) <= Cardinality(N)
      <4> HIDE DEF M, N
      <4> QED
        BY <3>4, FS_Subset
    <3>6. validURL => Cardinality(Lost) <= dropped /\ dropped <= Cardinality(M)
      BY DEF CountInv
    <3>7. Lost' \cup (unanswered' \ Range(batch')) = N
      BY <3>1, <3>3
    <3>8. dropped \in Nat
      BY DEF TypeInv, TypeOK
    <3> HIDE DEF M, N
    <3>9. Cardinality(Lost) \in Nat
      BY <1>t, SubsetsOfNumber
    <3>10. /\ Cardinality(Lost') = Cardinality(Lost)
           /\ Cardinality(Lost' \cup (unanswered' \ Range(batch'))) = Cardinality(N)
      BY <3>3, <3>7
    <3>11. validURL => Cardinality(Lost) <= dropped' /\ dropped' <= Cardinality(N)
      BY <3>1, <3>4, <3>5, <3>6, <3>8
    <3> QED
      BY <2>1, <3>4, <3>9, <3>10, <3>11, <1>c
  <2>5. CASE PostFailed /\ batch' # batch
    <3>1. batch' = <<>> /\ dropped' = dropped + Len(batch) /\ Range(batch') = {}
      BY <2>5 DEF PostFailed, Posted, Range
    <3>2. /\ \/ unanswered' = unanswered /\ received' = received
             \/ unanswered' = unanswered \cup Range(batch)
      BY <2>5 DEF PostFailed
    <3> DEFINE B == Range(batch)
               M == Lost \cup (unanswered \ B)
               N == Lost' \cup unanswered'
    <3>b. B \cap (Range(ch) \cup Offered) = {} /\ Cardinality(B) = Len(batch) /\ \A l \in B : ~Blank(l)
      BY BatchApart
    <3>a. B \cap Range(received) \subseteq unanswered
      BY DEF ArrivedInv
    <3> HIDE DEF B
    <3>3. Lost \subseteq Lost' /\ Lost' \subseteq Lost \cup B
      BY <2>1, <2>2, <3>1, <1>l, IsLost DEF B
    <3>4. B \subseteq N
      <4> SUFFICES ASSUME NEW l \in B, l \notin unanswered'
                   PROVE  l \in Lost'
        OBVIOUS
      <4>1. l \notin Range(received')
        BY <3>2, <3>a DEF B
      <4>2. l \in Number' /\ ~Blank(l)' /\ l \notin Offered' /\ l \notin Range(ch') /\ l \notin Range(batch')
        BY <2>1, <2>2, <3>1, <3>b, <1>t DEF B
      <4> QED
        BY <4>1, <4>2, <1>l
    <3>5. /\ B \in SUBSET Number /\ Lost' \in SUBSET Number /\ N \in SUBSET Number
          /\ M \in SUBSET Number
      BY <1>t, <1>l, <2>2, <3>2, <3>3 DEF B
    <3>6. /\ IsFiniteSet(B) /\ IsFiniteSet(Lost) /\ IsFiniteSet(N) /\ IsFiniteSet(M)
          /\ Cardinality(B) \in Nat /\ Cardinality(Lost) \in Nat /\ Cardinality(Lost') \in Nat
          /\ Cardinality(N) \in Nat /\ Cardinality(M) \in Nat
      <4> HIDE DEF N, M
      <4> QED
        BY <1>t, <3>5, SubsetsOfNumber
    <3>7. Cardinality(Lost') <= Cardinality(Lost) + Cardinality(B)
      <4>1. /\ IsFiniteSet(Lost \cup B)
            /\ Cardinality(Lost \cup B) = Cardinality(Lost) + Cardinality(B) - Cardinality(Lost \cap B)
        BY <3>6, FS_Union
      <4>2. Cardinality(Lost') <= Cardinality(Lost \cup B)
        BY <3>3, <4>1, FS_Subset
      <4>3. Cardinality(Lost \cap B) \in Nat
        BY <3>5, SubsetsOfNumber
      <4> QED
        BY <3>6, <4>1, <4>2, <4>3
    <3>8. Cardinality(M) + Cardinality(B) <= Cardinality(N)
      <4>1. M \cap B = {}
        BY IsLost DEF B
      <4>2. M \cup B \in SUBSET N
        <5>1. unanswered \subseteq unanswered'
          BY <3>2
        <5> QED
          BY <5>1, <3>3, <3>4
      <4> HIDE DEF M, N
      <4>3. Cardinality(M \cup B) = Cardinality(M) + Cardinality(B) - Cardinality(M \cap B)
        BY <3>6, FS_Union
      <4>4. Cardinality(M \cap B) = 0
        BY <4>1, FS_EmptySet
      <4>5. Cardinality(M \cup B) <= Cardinality(N)
        BY <4>2, <3>6, FS_Subset
      <4> QED
        BY <3>6, <4>3, <4>4, <4>5
    <3>9. validURL => Cardinality(Lost) <= dropped /\ dropped <= Cardinality(M)
      BY DEF CountInv, B
    <3>10. Lost' \cup (unanswered' \ Range(batch')) = N
      BY <3>1
    <3>11. dropped \in Nat
      BY DEF TypeInv, TypeOK
    <3> HIDE DEF M, N
    <3>12. validURL => Cardinality(Lost') <= dropped' /\ dropped' <= Cardinality(N)
      BY <3>1, <3>b, <3>6, <3>7, <3>8, <3>9, <3>11
    <3>13. Cardinality(Lost' \cup (unanswered' \ Range(batch'))) = Cardinality(N)
      BY <3>10
    <3> QED
      BY <2>1, <3>6, <3>12, <3>13, <1>c
  <2>6. CASE PostBadURL
    BY <2>6 DEF PostBadURL, CountInv
  <2> QED
    <3>1. PostFailed /\ batch' = batch => dropped' = dropped
      BY DEF PostFailed, Posted, TypeInv, TypeOK
    <3> QED
      BY <1>4, <2>3, <2>4, <2>5, <2>6, <3>1 DEF Post
<1>5. CASE Quiet
  <2>1. Lost' = Lost
    BY <1>5 DEF Quiet, Lost, OnTheWay, Offered, Blank
  <2> QED
    BY <1>5, <2>1, <1>u DEF Quiet
<1> QED
  BY <1>1, <1>2, <1>3, <1>4, <1>5, StepKinds

-----------------------------------------------------------------------------
(* The theorems *)

SafetyInv ==
    /\ TypeInv /\ QueueInv /\ DistinctInv /\ ArrivedInv
    /\ ChannelOrder /\ FlushInv /\ CountInv

LEMMA SafetyInit == Init => SafetyInv
<1> SUFFICES ASSUME Init
             PROVE  SafetyInv
  OBVIOUS
<1>1. TypeInv
  BY TypeInit
<1>2. /\ Len(queued) = 0 /\ Len(batch) = 0 /\ Len(ch) = 0 /\ Len(received) = 0
      /\ \A w \in Writer : Len(offering[w]) = 0
      /\ Range(received) = {} /\ Range(batch) = {} /\ unanswered = {} /\ before = {}
      /\ DOMAIN queued = {} /\ DOMAIN split = {} /\ dropped = 0
  BY DEF Init, Range
<1>3. QueueInv
  BY <1>2 DEF QueueInv, Finished
<1>4. DistinctInv
  BY <1>2 DEF DistinctInv, QueuedOnce, NoneBlank, OfferedNew, OfferedOnce
<1>5. ArrivedInv
  BY <1>2 DEF ArrivedInv, Finished
<1>6. ChannelOrder /\ FlushInv
  BY <1>2 DEF ChannelOrder, FlushInv
<1>7. CountInv
  <2>1. Lost = {} /\ Lost \cup (unanswered \ Range(batch)) = {}
    BY <1>2 DEF Lost
  <2>2. Cardinality({}) = 0
    BY FS_EmptySet
  <2> QED
    BY <1>2, <2>1, <2>2 DEF CountInv
<1> QED
  BY <1>1, <1>3, <1>4, <1>5, <1>6, <1>7 DEF SafetyInv

LEMMA SafetyNext == SafetyInv /\ [Next]_vars => SafetyInv'
<1> SUFFICES ASSUME SafetyInv, [Next]_vars
             PROVE  SafetyInv'
  OBVIOUS
<1>1. TypeInv'
  BY TypeNext, TypeStutters DEF SafetyInv
<1> QED
  BY <1>1, QueueNext, DistinctNext, ArrivedNext, OrderNext, FlushNext, CountNext DEF SafetyInv

LEMMA SafetyAlways == Spec => []SafetyInv
BY SafetyInit, SafetyNext, PTL DEF Spec

\* Nothing overtakes: the lines arrive in the order of the channel, retries included,
\* whatever is written, however omnilog answers.
THEOREM Ordered == Spec => []ChannelOrder
BY SafetyAlways, PTL DEF SafetyInv

\* "Close flushes pending lines": when Close returns without error, what it found in the
\* channel and in the batch has arrived or was tried three times.
THEOREM Flushed == Spec => []FlushedOnClose
<1>1. SafetyInv => FlushedOnClose
  BY DEF SafetyInv, FlushInv, FlushedOnClose, TypeInv, Control, Range
<1> QED
  BY <1>1, SafetyAlways, PTL

\* Dropped counts every line that is lost, and none but those and the ones whose answer
\* was lost.
THEOREM EveryLossCounted == Spec => []Accounted
<1>1. ASSUME SafetyInv
      PROVE  Accounted
  <2> DEFINE M == Lost \cup (unanswered \ Range(batch))
             N == Lost \cup unanswered
  <2>t. TypeInv
    BY <1>1 DEF SafetyInv
  <2>1. /\ IsFiniteSet(N) /\ Cardinality(N) \in Nat /\ Cardinality(M) \in Nat
        /\ M \in SUBSET N
    BY <2>t, LostType, SubsetsOfNumber
  <2>2. Cardinality(M) <= Cardinality(N)
    <3> HIDE DEF M, N
    <3> QED
      BY <2>1, FS_Subset
  <2>3. validURL => Cardinality(Lost) <= dropped /\ dropped <= Cardinality(M)
    BY <1>1 DEF SafetyInv, CountInv
  <2>4. dropped \in Nat
    BY <2>t DEF TypeInv, TypeOK
  <2>5. Accounted <=> (validURL => Cardinality(Lost) <= dropped /\ dropped <= Cardinality(N))
    BY DEF Accounted
  <2> HIDE DEF M, N
  <2> QED
    BY <2>1, <2>2, <2>3, <2>4, <2>5
<1> QED
  BY <1>1, SafetyAlways, PTL
=============================================================================
