---------------------------- MODULE AlertsProofs ----------------------------
(***************************************************************************)
(* What holds of Alerts for every number of rules, series, evaluations and *)
(* requests: the store is typed and its ids are never reused; as long as   *)
(* no evaluation is disturbed, history and notifier agree with the store   *)
(* and a series that stays is not resolved; and one evaluation that is     *)
(* left alone repairs what others have left behind.                        *)
(***************************************************************************)
EXTENDS Alerts, FiniteSetTheorems, WellFoundedInduction, TLAPS

(***************************************************************************)
(* The inductive invariants                                                *)
(***************************************************************************)

Rows == UNION {[S -> Row] : S \in SUBSET Fp}

TypeInv ==
    /\ clock \in 0 .. MaxTime
    /\ cond \in SUBSET Key /\ lapsed \in SUBSET Key
    /\ DOMAIN rules \subseteq Rule /\ rules \in [DOMAIN rules -> For]
    /\ DOMAIN instances \subseteq Key /\ instances \in [DOMAIN instances -> Row]
    /\ last \in [Key -> State \cup {"ok", "resolved"}]
    /\ gaps \in SUBSET Key
    /\ notified \in [Key -> {None, "firing", "resolved"}]
    /\ ev \in [Eval -> Evaluation(Rows)]
    /\ hd \in [Handler -> [pc : {"idle", "put", "delete"},
                            rule : Rule \cup {None}, for : For \cup {0}]]
    /\ calm \in BOOLEAN

\* What the locals of an evaluation know of each other.
ControlOf(v) ==
    /\ v.pc # "idle" => v.rule \in Rule
    /\ v.pc \notin {"eval", "record", "delete"} =>
         v.existing = <<>> /\ v.todo = {} /\ v.gone = {} /\ v.changes = <<>>
    /\ v.gone \subseteq DOMAIN v.existing /\ v.todo \cap v.gone = {}
    /\ v.pc = "record" => v.cur \in Fp /\ v.cur \notin v.todo \cup v.gone /\ v.to \in State
    /\ v.pc = "delete" => v.todo = {} /\ v.cur \in v.gone

Control ==
    /\ \A e \in Eval : ControlOf(ev[e])
    /\ \A h \in Handler : hd[h].pc # "idle" => hd[h].rule \in Rule
    /\ \A h \in Handler : hd[h].pc = "put" => hd[h].for \in For

\* An id is given to one key only, whether its row is in the table or was read from it.
Named(k, id) ==
    \/ k \in DOMAIN instances /\ instances[k].id = id
    \/ \E e \in Eval : /\ ev[e].rule = k[1]
                       /\ k[2] \in DOMAIN ev[e].existing /\ ev[e].existing[k[2]].id = id

IdsInv == \A k, l \in Key, id \in Nat : Named(k, id) /\ Named(l, id) => k = l

\* Nothing has interfered with the evaluation.
Undisturbed(e) == calm \/ ev[e].alone

SoloInv ==
    /\ \A e, o \in Eval :
         Active(e) /\ Active(o) /\ ev[o].rule = ev[e].rule /\ Undisturbed(e) => o = e
    /\ calm => \A e \in Eval : Underway(e) => ~ev[e].canceled

\* What it has read is what the table says, of the series it has not come to; and the
\* count it keeps is that of the rows it found and has written.
Kept(e, fp) ==
    LET k == <<ev[e].rule, fp>> IN
    /\ fp \in DOMAIN ev[e].existing <=> k \in DOMAIN instances
    /\ k \in DOMAIN instances => instances[k] = ev[e].existing[fp]

Tracks(e) == DOMAIN RowsOf(ev[e].rule) \cup DOMAIN ev[e].existing

SnapshotInv ==
    \A e \in Eval : Underway(e) /\ Undisturbed(e) =>
        /\ \A fp \in ev[e].todo \cup ev[e].gone : Kept(e, fp)
        /\ ev[e].tracked = Cardinality(Tracks(e))

-----------------------------------------------------------------------------

\* How far an evaluation that is left alone has come with its repair.
Due(e, fp) ==
    LET row == instances[<<ev[e].rule, fp>>] IN
    ev[e].now - row.activeAt >= ev[e].for => row.state = "firing"

RepairInv ==
    \A e \in Eval : ev[e].alone =>
        LET r == ev[e].rule IN
        /\ ev[e].pc = "list" => ev[e].present = Result(r)
        /\ Underway(e) =>
             /\ ev[e].todo \subseteq Result(r) /\ ev[e].gone \cap Result(r) = {}
             /\ DOMAIN RowsOf(r) \subseteq Result(r) \cup ev[e].gone
             /\ \A fp \in Result(r) \ ev[e].todo :
                  fp \in DOMAIN RowsOf(r) \/ ev[e].tracked >= MaxInstances
             /\ \A fp \in DOMAIN RowsOf(r) \ (ev[e].todo \cup ev[e].gone) : Due(e, fp)

-----------------------------------------------------------------------------

\* The evaluation is between a change of the row and its record, or the other way round.
At(e, pc, k) == ev[e].pc = pc /\ <<ev[e].rule, ev[e].cur>> = k
Between(k) == \E e \in Eval : At(e, "record", k) \/ At(e, "delete", k)

Was(state) == IF state = "resolved" THEN "ok" ELSE state
StateOf(k) == IF k \in DOMAIN instances THEN instances[k].state ELSE "ok"

\* The history of a series whose evaluation is between the two.
Halfway(e) ==
    LET k == <<ev[e].rule, ev[e].cur>> IN
    /\ ev[e].pc = "record" =>
         /\ Was(last[k]) = StateRead(e, ev[e].cur)
         /\ StateOf(k) = ev[e].to
         /\ ev[e].to = "pending" => StateRead(e, ev[e].cur) = "ok"
    /\ ev[e].pc = "delete" => last[k] = "resolved"

HistoryInv ==
    calm =>
        /\ gaps = {}
        /\ \A k \in Key : ~Between(k) => Was(last[k]) = StateOf(k)
        /\ \A e \in Eval : Halfway(e)

\* The evaluation is done with the series of a change it has collected, and the row and
\* the notifier are as the change says.
Settled(e, fp, to) ==
    LET k == <<ev[e].rule, fp>>
        deleting == ev[e].pc = "delete" /\ ev[e].cur = fp
    IN  /\ fp \notin ev[e].todo
        /\ fp \in ev[e].gone => to = "resolved" /\ deleting
        /\ ev[e].pc = "record" => ev[e].cur # fp
        /\ to \in State => StateOf(k) = to
        /\ to = "pending" => notified[k] # "firing"
        /\ to = "resolved" => k \notin DOMAIN instances \/ deleting

\* The changes of an evaluation are about different series.
Told(e) ==
    /\ \A i \in DOMAIN ev[e].changes :
         /\ Settled(e, ev[e].changes[i][1], ev[e].changes[i][2])
         /\ \A j \in DOMAIN ev[e].changes : ev[e].changes[i][1] = ev[e].changes[j][1] => i = j
    /\ ev[e].pc = "delete" => \E i \in DOMAIN ev[e].changes : ev[e].changes[i][1] = ev[e].cur
    /\ ev[e].pc = "record" =>
         (notified[<<ev[e].rule, ev[e].cur>>] = "firing" <=> StateRead(e, ev[e].cur) = "firing")

Changed(k) == \E e \in Eval : \E i \in DOMAIN ev[e].changes : k = <<ev[e].rule, ev[e].changes[i][1]>>

NotifyInv ==
    calm =>
        /\ \A e \in Eval : Told(e)
        /\ \A k \in Key : ~Changed(k) /\ ~Between(k) =>
             (notified[k] = "firing" <=> StateOf(k) = "firing")

\* Whoever is about to be resolved was absent.
LapseInv ==
    calm =>
        /\ Key \ cond \subseteq lapsed
        /\ \A e \in Eval :
             /\ ev[e].pc = "list" =>
                  \A fp \in Fp \ ev[e].present : <<ev[e].rule, fp>> \in lapsed
             /\ \A fp \in ev[e].gone : <<ev[e].rule, fp>> \in lapsed

-----------------------------------------------------------------------------
(* Sets, ids and rows *)

\* The pairs that WFMin compares.
NatLess == {p \in Nat \X Nat : p[1] < p[2]}

LEMMA NatLessWellFounded == IsWellFoundedOn(NatLess, Nat)
<1>1. NatLess = OpToRel(<, Nat)
  BY DEF NatLess, OpToRel
<1> QED
  BY <1>1, NatLessThanWellFounded

\* A set of natural numbers that is not empty has a least element.
LEMMA MinIn ==
    ASSUME NEW S \in SUBSET Nat, S # {}
    PROVE  Min(S) \in S /\ \A n \in S : Min(S) <= n
<1>1. PICK m \in S : \A n \in S : ~(<<n, m>> \in NatLess)
  BY WFMin, NatLessWellFounded
<1>2. ASSUME NEW n \in S, n < m
      PROVE  FALSE
  <2>1. <<n, m>> \in NatLess
    BY <1>2 DEF NatLess
  <2> QED
    BY <1>1, <2>1
<1>3. \A n \in S : m <= n
  BY <1>2
<1>4. Min(S) \in S /\ \A n \in S : Min(S) <= n
  BY <1>3 DEF Min
<1> QED
  BY <1>4

LEMMA NextOf ==
    ASSUME NEW e \in Eval, TypeInv, ev[e].todo # {}
    PROVE  Min(ev[e].todo) \in ev[e].todo /\ Min(ev[e].todo) \in Fp
<1>1. ev[e].todo \in SUBSET Fp
  BY DEF TypeInv, Evaluation
<1> QED
  BY <1>1, MinIn, FpAssumption

LEMMA RowsAre == \A f : f \in Rows <=> DOMAIN f \subseteq Fp /\ f \in [DOMAIN f -> Row]
BY DEF Rows

LEMMA ReadRows ==
    ASSUME TypeInv, NEW e \in Eval
    PROVE  /\ DOMAIN ev[e].existing \subseteq Fp
           /\ \A fp \in DOMAIN ev[e].existing : ev[e].existing[fp] \in Row
<1>1. ev[e].existing \in Rows
  BY DEF TypeInv, Evaluation
<1> QED
  BY <1>1, RowsAre

LEMMA KeysFinite == IsFiniteSet(Key)
BY FS_Product, FpAssumption, FiniteAssumption DEF Key

LEMMA RowsOfAre ==
    ASSUME TypeInv, NEW r \in Rule
    PROVE  /\ RowsOf(r) \in Rows
           /\ DOMAIN RowsOf(r) = {fp \in Fp : <<r, fp>> \in DOMAIN instances}
           /\ \A fp \in DOMAIN RowsOf(r) : RowsOf(r)[fp] = instances[<<r, fp>>]
<1>1. \A fp \in DOMAIN RowsOf(r) : RowsOf(r)[fp] \in Row
  BY DEF TypeInv, RowsOf
<1> QED
  BY <1>1, RowsAre DEF RowsOf

\* The values of a function with a finite domain.
LEMMA ImageFinite ==
    ASSUME NEW S, IsFiniteSet(S), NEW f, DOMAIN f = S
    PROVE  IsFiniteSet({f[x] : x \in S})
<1> DEFINE T == {f[x] : x \in S}
           g == [x \in S |-> f[x]]
<1>1. g \in Surjection(S, T)
  BY DEF Surjection
<1> QED
  BY <1>1, FS_Surjection

\* An id that nobody has.
LEMMA NewIdFresh ==
    ASSUME TypeInv
    PROVE  /\ NewId \in Nat
           /\ \A k \in DOMAIN instances : instances[k].id # NewId
           /\ \A e \in Eval : \A fp \in DOMAIN ev[e].existing : ev[e].existing[fp].id # NewId
<1> DEFINE Read(e) == {ev[e].existing[fp].id : fp \in DOMAIN ev[e].existing}
           Reads == {Read(e) : e \in Eval}
           Table == {instances[k].id : k \in DOMAIN instances}
           n == Cardinality(KnownIds)
<1>1. IsFiniteSet(Table)
  <2>1. IsFiniteSet(DOMAIN instances)
    BY KeysFinite, FS_Subset DEF TypeInv
  <2> DEFINE f == [k \in DOMAIN instances |-> instances[k].id]
  <2>2. IsFiniteSet({f[k] : k \in DOMAIN instances})
    BY <2>1, ImageFinite
  <2> QED
    BY <2>2
<1>2. \A e \in Eval : IsFiniteSet(Read(e))
  <2> TAKE e \in Eval
  <2>1. IsFiniteSet(DOMAIN ev[e].existing)
    BY ReadRows, FpAssumption, FS_Subset
  <2> DEFINE f == [fp \in DOMAIN ev[e].existing |-> ev[e].existing[fp].id]
  <2>2. IsFiniteSet({f[fp] : fp \in DOMAIN ev[e].existing})
    BY <2>1, ImageFinite
  <2> QED
    BY <2>2
<1>3. IsFiniteSet(UNION Reads)
  <2>1. IsFiniteSet(Reads)
    <3> DEFINE f == [e \in Eval |-> Read(e)]
    <3>1. IsFiniteSet({f[e] : e \in Eval})
      BY FiniteAssumption, ImageFinite
    <3> QED
      BY <3>1
  <2> QED
    BY <2>1, <1>2, FS_UNION
<1>4. KnownIds = Table \cup UNION Reads
  BY DEF KnownIds
<1>5. IsFiniteSet(KnownIds) /\ n \in Nat
  BY <1>1, <1>3, <1>4, FS_Union, FS_CardinalityType
<1>6. (0 .. n) \ KnownIds # {}
  <2>1. Cardinality(0 .. n) = n + 1 /\ IsFiniteSet(0 .. n)
    BY <1>5, FS_Interval
  <2>2. SUFFICES ASSUME 0 .. n \subseteq KnownIds
                 PROVE  FALSE
    OBVIOUS
  <2>3. n + 1 <= n
    BY <2>1, <2>2, <1>5, FS_Subset
  <2> QED
    BY <2>3, <1>5
<1>7. (0 .. n) \ KnownIds \in SUBSET Nat
  BY <1>5
<1>8. NewId \in (0 .. n) \ KnownIds
  BY <1>6, <1>7, MinIn DEF NewId
<1> QED
  BY <1>8, <1>5 DEF KnownIds

-----------------------------------------------------------------------------
(* The steps, for what the invariants need to know of them *)

LEMMA IdleType == IdleEval \in Evaluation(Rows)
<1>1. <<>> \in Rows
  <2>1. <<>> \in [{} -> Row] /\ DOMAIN <<>> = {}
    OBVIOUS
  <2> QED
    BY <2>1, RowsAre
<1>2. <<>> \in Seq(Fp \X (State \cup {"resolved"}))
  OBVIOUS
<1> QED
  BY <1>1, <1>2, TimeAssumption DEF IdleEval, Evaluation

LEMMA Appended ==
    ASSUME NEW S, NEW s \in Seq(S), NEW x \in S
    PROVE  Append(s, x) \in Seq(S)
OBVIOUS

LEMMA Tailed ==
    ASSUME NEW S, NEW s \in Seq(S), s # <<>>
    PROVE  Tail(s) \in Seq(S)
OBVIOUS

\* What a step of one evaluation leaves: the others, and what it was called with.
Only(e) == \A o \in Eval \ {e} : ev'[o] = ev[o]

Fixed(e) ==
    /\ ev'[e].rule = ev[e].rule /\ ev'[e].for = ev[e].for /\ ev'[e].now = ev[e].now
    /\ ev'[e].canceled = ev[e].canceled /\ ev'[e].alone = ev[e].alone

LEMMA EvType == TypeInv => ev \in [Eval -> Evaluation(Rows)]
BY DEF TypeInv

LEMMA Step ==
    ASSUME TypeInv, NEW e \in Eval, NEW v \in Evaluation(Rows), ev' = [ev EXCEPT ![e] = v]
    PROVE  ev' \in [Eval -> Evaluation(Rows)] /\ ev'[e] = v /\ Only(e)
BY EvType DEF Only

LEMMA ReturnIs ==
    ASSUME TypeInv, NEW e \in Eval, Return(e)
    PROVE  ev' \in [Eval -> Evaluation(Rows)] /\ ev'[e] = IdleEval /\ Only(e)
BY IdleType, Step DEF Return

\* Evaluations that are interfered with stay what they are.
SameBut(v, w) ==
    /\ w.pc = v.pc /\ w.rule = v.rule /\ w.for = v.for /\ w.now = v.now
    /\ w.present = v.present /\ w.existing = v.existing /\ w.tracked = v.tracked
    /\ w.todo = v.todo /\ w.gone = v.gone /\ w.cur = v.cur /\ w.to = v.to
    /\ w.changes = v.changes /\ w.canceled = v.canceled

LEMMA OvertakenIs ==
    ASSUME TypeInv, NEW r
    PROVE  /\ Overtaken(r) \in [Eval -> Evaluation(Rows)]
           /\ \A o \in Eval :
                /\ SameBut(ev[o], Overtaken(r)[o])
                /\ Overtaken(r)[o].alone <=> ev[o].alone /\ ev[o].rule # r
<1>1. ASSUME NEW v \in Evaluation(Rows)
      PROVE  LET w == [v EXCEPT !.alone = @ /\ v.rule # r]
             IN  /\ w \in Evaluation(Rows)
                 /\ SameBut(v, w)
                 /\ w.alone <=> v.alone /\ v.rule # r
  <2> DEFINE alone == v.alone /\ v.rule # r
  <2>1. alone \in BOOLEAN
    BY DEF Evaluation
  <2> HIDE DEF alone
  <2>2. [v EXCEPT !.alone = alone] \in Evaluation(Rows)
    BY <2>1 DEF Evaluation
  <2>3. SameBut(v, [v EXCEPT !.alone = alone]) /\ [v EXCEPT !.alone = alone].alone = alone
    BY DEF Evaluation, SameBut
  <2> QED
    BY <2>2, <2>3 DEF alone
<1>2. \A o \in Eval : ev[o] \in Evaluation(Rows)
  BY EvType
<1> QED
  BY <1>1, <1>2 DEF Overtaken

LEMMA BeginIs ==
    ASSUME TypeInv, NEW e \in Eval, NEW r \in Rule, Begin(e, r)
    PROVE  /\ ev' \in [Eval -> Evaluation(Rows)]
           /\ ev'[e].pc = "query" /\ ev'[e].rule = r
           /\ ev'[e].existing = <<>> /\ ev'[e].todo = {} /\ ev'[e].gone = {}
           /\ ev'[e].changes = <<>> /\ ev'[e].canceled = FALSE
           /\ ev'[e].alone <=> Others(r) = {}
           /\ \A o \in Eval \ {e} :
                /\ SameBut(ev[o], ev'[o])
                /\ ev'[o].alone <=> ev[o].alone /\ ev[o].rule # r
<1> DEFINE began == [IdleEval EXCEPT !.pc = "query", !.rule = r, !.for = rules[r],
                                     !.now = clock, !.alone = Others(r) = {}]
<1>1. rules[r] \in For /\ clock \in 0 .. MaxTime
  BY DEF Begin, TypeInv
<1>2. began \in Evaluation(Rows)
  BY <1>1, IdleType DEF Evaluation
<1>3. /\ began.pc = "query" /\ began.rule = r
      /\ began.existing = <<>> /\ began.todo = {} /\ began.gone = {}
      /\ began.changes = <<>> /\ began.canceled = FALSE
      /\ began.alone <=> Others(r) = {}
  BY DEF IdleEval
<1>4. ev' = [Overtaken(r) EXCEPT ![e] = began]
  BY DEF Begin
<1> HIDE DEF began
<1>5. ev' \in [Eval -> Evaluation(Rows)] /\ ev'[e] = began /\ \A o \in Eval \ {e} : ev'[o] = Overtaken(r)[o]
  BY <1>2, <1>4, OvertakenIs
<1> QED
  BY <1>3, <1>5, OvertakenIs

LEMMA QueryOKIs ==
    ASSUME TypeInv, NEW e \in Eval, QueryOK(e)
    PROVE  /\ ev' \in [Eval -> Evaluation(Rows)] /\ Only(e) /\ Fixed(e)
           /\ ev'[e].pc = "list" /\ ev'[e].present = Result(ev[e].rule)
           /\ ev'[e].existing = ev[e].existing /\ ev'[e].todo = ev[e].todo
           /\ ev'[e].gone = ev[e].gone /\ ev'[e].changes = ev[e].changes
<1> DEFINE res == Result(ev[e].rule)
<1>1. res \in SUBSET Fp
  BY DEF Result
<1>2. ev' = [ev EXCEPT ![e] = [ev[e] EXCEPT !.pc = "list", !.present = res]]
  BY DEF QueryOK
<1> HIDE DEF res
<1>3. ASSUME NEW v \in Evaluation(Rows)
      PROVE  LET w == [v EXCEPT !.pc = "list", !.present = res]
             IN  /\ w \in Evaluation(Rows)
                 /\ w.rule = v.rule /\ w.for = v.for /\ w.now = v.now
                 /\ w.canceled = v.canceled /\ w.alone = v.alone
                 /\ w.pc = "list" /\ w.present = res
                 /\ w.existing = v.existing /\ w.todo = v.todo
                 /\ w.gone = v.gone /\ w.changes = v.changes
  BY <1>1 DEF Evaluation
<1>4. ev[e] \in Evaluation(Rows)
  BY EvType
<1> QED
  BY <1>2, <1>3, <1>4, Step DEF Fixed, res

LEMMA ListIs ==
    ASSUME TypeInv, Control, NEW e \in Eval, List(e), ~ev[e].canceled
    PROVE  /\ ev' \in [Eval -> Evaluation(Rows)] /\ Only(e) /\ Fixed(e)
           /\ ev'[e].pc = "eval" /\ ev'[e].existing = RowsOf(ev[e].rule)
           /\ ev'[e].tracked = Cardinality(DOMAIN RowsOf(ev[e].rule))
           /\ ev'[e].todo = ev[e].present
           /\ ev'[e].gone = DOMAIN RowsOf(ev[e].rule) \ ev[e].present
           /\ ev'[e].changes = ev[e].changes
<1> DEFINE rows == RowsOf(ev[e].rule)
           n == Cardinality(DOMAIN rows)
           gone == DOMAIN rows \ ev[e].present
<1>1. rows \in Rows /\ DOMAIN rows \subseteq Fp
  BY RowsOfAre, RowsAre DEF Control, ControlOf, List
<1>2. n \in Nat
  BY <1>1, FpAssumption, FS_Subset, FS_CardinalityType
<1>3. gone \in SUBSET Fp
  BY <1>1
<1>4. ev' = [ev EXCEPT ![e] = [ev[e] EXCEPT !.pc = "eval", !.existing = rows, !.tracked = n,
                                            !.present = {}, !.todo = ev[e].present, !.gone = gone]]
  BY DEF List, Gone
<1> HIDE DEF rows, n, gone
<1>5. ASSUME NEW v \in Evaluation(Rows)
      PROVE  LET w == [v EXCEPT !.pc = "eval", !.existing = rows, !.tracked = n,
                                !.present = {}, !.todo = v.present, !.gone = gone]
             IN  /\ w \in Evaluation(Rows)
                 /\ w.rule = v.rule /\ w.for = v.for /\ w.now = v.now
                 /\ w.canceled = v.canceled /\ w.alone = v.alone
                 /\ w.pc = "eval" /\ w.existing = rows /\ w.tracked = n
                 /\ w.todo = v.present /\ w.gone = gone /\ w.changes = v.changes
  <2> DEFINE todo == v.present
             w == [v EXCEPT !.pc = "eval", !.existing = rows, !.tracked = n,
                            !.present = {}, !.todo = todo, !.gone = gone]
  <2>1. todo \in SUBSET Fp
    BY DEF Evaluation
  <2>2. w \in Evaluation(Rows)
    <3> HIDE DEF todo
    <3> QED
      BY <1>1, <1>2, <1>3, <2>1 DEF Evaluation
  <2>3. /\ w.rule = v.rule /\ w.for = v.for /\ w.now = v.now
        /\ w.canceled = v.canceled /\ w.alone = v.alone
        /\ w.pc = "eval" /\ w.existing = rows /\ w.tracked = n
        /\ w.todo = todo /\ w.gone = gone /\ w.changes = v.changes
    BY SMTT(20) DEF Evaluation
  <2> QED
    BY <2>2, <2>3
<1>6. ev[e] \in Evaluation(Rows)
  BY EvType
<1> QED
  BY <1>4, <1>5, <1>6, Step DEF Fixed, rows, n, gone

LEMMA RefuseIs ==
    ASSUME TypeInv, NEW e \in Eval, Refuse(e)
    PROVE  /\ ev' \in [Eval -> Evaluation(Rows)] /\ Only(e) /\ Fixed(e)
           /\ ev'[e].todo = ev[e].todo \ {Min(ev[e].todo)}
           /\ ev'[e].pc = ev[e].pc /\ ev'[e].existing = ev[e].existing
           /\ ev'[e].tracked = ev[e].tracked /\ ev'[e].gone = ev[e].gone
           /\ ev'[e].cur = ev[e].cur /\ ev'[e].to = ev[e].to /\ ev'[e].changes = ev[e].changes
<1> DEFINE m == Min(ev[e].todo)
<1>1. ev' = [ev EXCEPT ![e] = [ev[e] EXCEPT !.todo = ev[e].todo \ {m}]]
  BY DEF Refuse
<1> HIDE DEF m
<1>2. ASSUME NEW v \in Evaluation(Rows)
      PROVE  LET w == [v EXCEPT !.todo = v.todo \ {m}]
             IN  /\ w \in Evaluation(Rows)
                 /\ w.rule = v.rule /\ w.for = v.for /\ w.now = v.now
                 /\ w.canceled = v.canceled /\ w.alone = v.alone
                 /\ w.todo = v.todo \ {m}
                 /\ w.pc = v.pc /\ w.existing = v.existing /\ w.tracked = v.tracked
                 /\ w.gone = v.gone /\ w.cur = v.cur /\ w.to = v.to /\ w.changes = v.changes
  BY DEF Evaluation
<1>3. ev[e] \in Evaluation(Rows)
  BY EvType
<1> QED
  BY <1>1, <1>2, <1>3, Step DEF Fixed, m

LEMMA RecordIs ==
    ASSUME TypeInv, Control, NEW e \in Eval, Record(e)
    PROVE  /\ ev' \in [Eval -> Evaluation(Rows)] /\ Only(e) /\ Fixed(e)
           /\ ev'[e].pc = "eval"
           /\ ev'[e].changes = Append(ev[e].changes, <<ev[e].cur, ev[e].to>>)
           /\ ev'[e].existing = ev[e].existing /\ ev'[e].tracked = ev[e].tracked
           /\ ev'[e].todo = ev[e].todo /\ ev'[e].gone = ev[e].gone
<1> DEFINE c == <<ev[e].cur, ev[e].to>>
<1>1. c \in Fp \X (State \cup {"resolved"})
  BY DEF Record, Control, ControlOf
<1>2. ev' = [ev EXCEPT ![e] = [ev[e] EXCEPT !.pc = "eval", !.cur = 0, !.to = None,
                                            !.changes = Append(ev[e].changes, c)]]
  BY DEF Record
<1> HIDE DEF c
<1>3. ASSUME NEW v \in Evaluation(Rows)
      PROVE  LET w == [v EXCEPT !.pc = "eval", !.cur = 0, !.to = None,
                                !.changes = Append(v.changes, c)]
             IN  /\ w \in Evaluation(Rows)
                 /\ w.rule = v.rule /\ w.for = v.for /\ w.now = v.now
                 /\ w.canceled = v.canceled /\ w.alone = v.alone
                 /\ w.pc = "eval" /\ w.changes = Append(v.changes, c)
                 /\ w.existing = v.existing /\ w.tracked = v.tracked
                 /\ w.todo = v.todo /\ w.gone = v.gone
  <2>1. Append(v.changes, c) \in Seq(Fp \X (State \cup {"resolved"}))
    BY <1>1, Appended DEF Evaluation
  <2> QED
    BY <2>1 DEF Evaluation
<1>4. ev[e] \in Evaluation(Rows)
  BY EvType
<1> QED
  BY <1>2, <1>3, <1>4, Step DEF Fixed, c

LEMMA ResolveIs ==
    ASSUME TypeInv, Control, NEW e \in Eval, Resolve(e)
    PROVE  \E fp \in ev[e].gone :
             /\ AppendHistory(e, fp, ev[e].existing[fp].state, "resolved")
             /\ ev' \in [Eval -> Evaluation(Rows)] /\ Only(e) /\ Fixed(e)
             /\ ev'[e].pc = "delete" /\ ev'[e].cur = fp
             /\ ev'[e].changes = Append(ev[e].changes, <<fp, "resolved">>)
             /\ ev'[e].existing = ev[e].existing /\ ev'[e].tracked = ev[e].tracked
             /\ ev'[e].todo = ev[e].todo /\ ev'[e].gone = ev[e].gone
<1>1. PICK fp \in ev[e].gone :
         /\ AppendHistory(e, fp, ev[e].existing[fp].state, "resolved")
         /\ ev' = [ev EXCEPT ![e].pc = "delete", ![e].cur = fp,
                             ![e].changes = Append(@, <<fp, "resolved">>)]
  BY DEF Resolve
<1> DEFINE c == <<fp, "resolved">>
<1>2. fp \in Fp
  <2>1. ev[e].gone \in SUBSET Fp
    BY DEF TypeInv, Evaluation
  <2> QED
    BY <2>1
<1>3. c \in Fp \X (State \cup {"resolved"})
  BY <1>2
<1>4. ev' = [ev EXCEPT ![e] = [ev[e] EXCEPT !.pc = "delete", !.cur = fp,
                                            !.changes = Append(ev[e].changes, c)]]
  BY <1>1
<1> HIDE DEF c
<1>5. ASSUME NEW v \in Evaluation(Rows)
      PROVE  LET w == [v EXCEPT !.pc = "delete", !.cur = fp, !.changes = Append(v.changes, c)]
             IN  /\ w \in Evaluation(Rows)
                 /\ w.rule = v.rule /\ w.for = v.for /\ w.now = v.now
                 /\ w.canceled = v.canceled /\ w.alone = v.alone
                 /\ w.pc = "delete" /\ w.cur = fp /\ w.changes = Append(v.changes, c)
                 /\ w.existing = v.existing /\ w.tracked = v.tracked
                 /\ w.todo = v.todo /\ w.gone = v.gone
  <2>1. Append(v.changes, c) \in Seq(Fp \X (State \cup {"resolved"}))
    BY <1>3, Appended DEF Evaluation
  <2> QED
    BY <1>2, <2>1 DEF Evaluation
<1>6. ev[e] \in Evaluation(Rows)
  BY EvType
<1>7. /\ ev' \in [Eval -> Evaluation(Rows)] /\ Only(e) /\ Fixed(e)
      /\ ev'[e].pc = "delete" /\ ev'[e].cur = fp
      /\ ev'[e].changes = Append(ev[e].changes, c)
      /\ ev'[e].existing = ev[e].existing /\ ev'[e].tracked = ev[e].tracked
      /\ ev'[e].todo = ev[e].todo /\ ev'[e].gone = ev[e].gone
  BY <1>4, <1>5, <1>6, Step DEF Fixed
<1> QED
  BY <1>1, <1>7 DEF c

LEMMA DeleteIs ==
    ASSUME TypeInv, NEW e \in Eval, Delete(e)
    PROVE  /\ ev' \in [Eval -> Evaluation(Rows)] /\ Only(e) /\ Fixed(e)
           /\ ev'[e].pc = "eval" /\ ev'[e].gone = ev[e].gone \ {ev[e].cur}
           /\ ev'[e].existing = ev[e].existing /\ ev'[e].tracked = ev[e].tracked
           /\ ev'[e].todo = ev[e].todo /\ ev'[e].changes = ev[e].changes
<1>1. ev' = [ev EXCEPT ![e] = [ev[e] EXCEPT !.pc = "eval", !.gone = @ \ {ev[e].cur}, !.cur = 0]]
  BY DEF Delete
<1>2. ASSUME NEW v \in Evaluation(Rows)
      PROVE  LET w == [v EXCEPT !.pc = "eval", !.gone = @ \ {v.cur}, !.cur = 0]
             IN  /\ w \in Evaluation(Rows)
                 /\ w.rule = v.rule /\ w.for = v.for /\ w.now = v.now
                 /\ w.canceled = v.canceled /\ w.alone = v.alone
                 /\ w.pc = "eval" /\ w.gone = v.gone \ {v.cur}
                 /\ w.existing = v.existing /\ w.tracked = v.tracked
                 /\ w.todo = v.todo /\ w.changes = v.changes
  BY DEF Evaluation
<1>3. ev[e] \in Evaluation(Rows)
  BY EvType
<1> QED
  BY <1>1, <1>2, <1>3, Step DEF Fixed

LEMMA ForwardIs ==
    ASSUME TypeInv, NEW e \in Eval, Forward(e)
    PROVE  /\ ev' \in [Eval -> Evaluation(Rows)] /\ Only(e) /\ Fixed(e)
           /\ ev'[e].changes = Tail(ev[e].changes)
           /\ ev'[e].pc = ev[e].pc /\ ev'[e].existing = ev[e].existing
           /\ ev'[e].tracked = ev[e].tracked /\ ev'[e].cur = ev[e].cur
           /\ ev'[e].todo = ev[e].todo /\ ev'[e].gone = ev[e].gone
<1>1. ev' = [ev EXCEPT ![e] = [ev[e] EXCEPT !.changes = Tail(@)]]
  BY DEF Forward
<1>2. ASSUME NEW v \in Evaluation(Rows), v.changes # <<>>
      PROVE  LET w == [v EXCEPT !.changes = Tail(@)]
             IN  /\ w \in Evaluation(Rows)
                 /\ w.rule = v.rule /\ w.for = v.for /\ w.now = v.now
                 /\ w.canceled = v.canceled /\ w.alone = v.alone
                 /\ w.changes = Tail(v.changes)
                 /\ w.pc = v.pc /\ w.existing = v.existing
                 /\ w.tracked = v.tracked /\ w.cur = v.cur
                 /\ w.todo = v.todo /\ w.gone = v.gone
  <2>1. Tail(v.changes) \in Seq(Fp \X (State \cup {"resolved"}))
    BY <1>2, Tailed DEF Evaluation
  <2> QED
    BY <2>1 DEF Evaluation
<1>3. ev[e] \in Evaluation(Rows)
  BY EvType
<1>4. ev[e].changes # <<>>
  BY DEF Forward
<1> QED
  BY <1>1, <1>2, <1>3, <1>4, Step DEF Fixed

SameButCancel(v, w) ==
    /\ w.pc = v.pc /\ w.rule = v.rule /\ w.for = v.for /\ w.now = v.now
    /\ w.present = v.present /\ w.existing = v.existing /\ w.tracked = v.tracked
    /\ w.todo = v.todo /\ w.gone = v.gone /\ w.cur = v.cur /\ w.to = v.to
    /\ w.changes = v.changes /\ w.alone = v.alone

LEMMA CancelIs ==
    ASSUME TypeInv, NEW e \in Eval, Cancel(e)
    PROVE  /\ ev' \in [Eval -> Evaluation(Rows)] /\ Only(e)
           /\ SameButCancel(ev[e], ev'[e])
<1>1. ev' = [ev EXCEPT ![e] = [ev[e] EXCEPT !.canceled = TRUE]]
  BY DEF Cancel
<1>2. ASSUME NEW v \in Evaluation(Rows)
      PROVE  LET w == [v EXCEPT !.canceled = TRUE]
             IN  w \in Evaluation(Rows) /\ SameButCancel(v, w)
  BY DEF Evaluation, SameButCancel
<1>3. ev[e] \in Evaluation(Rows)
  BY EvType
<1> QED
  BY <1>1, <1>2, <1>3, Step

\* The row that is written.
LEMMA AdvancedIs ==
    ASSUME TypeInv, NEW e \in Eval, NEW fp \in Fp
    PROVE  /\ Advanced(e, fp) \in Row
           /\ fp \in DOMAIN ev[e].existing =>
                /\ Advanced(e, fp).id = ev[e].existing[fp].id
                /\ Advanced(e, fp).activeAt = ev[e].existing[fp].activeAt
           /\ fp \notin DOMAIN ev[e].existing =>
                Advanced(e, fp).id = NewId /\ Advanced(e, fp).activeAt = ev[e].now
           /\ Advanced(e, fp).state = "pending" => StateRead(e, fp) \in {"ok", "pending"}
           /\ ev[e].now - Advanced(e, fp).activeAt >= ev[e].for => Advanced(e, fp).state = "firing"
<1>1. ev[e].now \in 0 .. MaxTime /\ ev[e].now \in Nat /\ ev[e].for \in Nat
  BY ForAssumption, TimeAssumption DEF TypeInv, Evaluation
<1>2. CASE fp \in DOMAIN ev[e].existing
  <2> DEFINE cur == ev[e].existing[fp]
  <2>1. cur \in Row
    BY <1>2, ReadRows
  <2>2. Advanced(e, fp) = [cur EXCEPT !.state = NextTrue(cur.state, cur.activeAt, ev[e].now, ev[e].for)]
    BY <1>2 DEF Advanced
  <2>3. StateRead(e, fp) = cur.state
    BY <1>2 DEF StateRead
  <2> HIDE DEF cur
  <2>4. NextTrue(cur.state, cur.activeAt, ev[e].now, ev[e].for) \in State
    BY <2>1 DEF Row, State, NextTrue
  <2>5. Advanced(e, fp) \in Row
    BY <2>1, <2>2, <2>4 DEF Row
  <2>6. cur.state \in State /\ cur.activeAt \in Int
    BY <2>1 DEF Row
  <2>7. Advanced(e, fp).state = NextTrue(cur.state, cur.activeAt, ev[e].now, ev[e].for)
        /\ Advanced(e, fp).id = cur.id /\ Advanced(e, fp).activeAt = cur.activeAt
    BY <2>1, <2>2 DEF Row
  <2> QED
    BY <1>2, <2>3, <2>5, <2>6, <2>7 DEF NextTrue, State, cur
<1>3. CASE fp \notin DOMAIN ev[e].existing
  <2>1. NewId \in Nat
    BY NewIdFresh
  <2> DEFINE next == NextTrue("ok", ev[e].now, ev[e].now, ev[e].for)
  <2>2. Advanced(e, fp) = [id |-> NewId, state |-> next, activeAt |-> ev[e].now]
    BY <1>3 DEF Advanced
  <2>3. next \in State /\ (ev[e].for <= 0 => next = "firing")
    BY DEF NextTrue, State
  <2>4. StateRead(e, fp) = "ok"
    BY <1>3 DEF StateRead
  <2> HIDE DEF next
  <2> QED
    BY <1>1, <1>3, <2>1, <2>2, <2>3, <2>4 DEF Row
<1> QED
  BY <1>2, <1>3

LEMMA UpsertIs ==
    ASSUME TypeInv, Control, NEW e \in Eval, Upsert(e)
    PROVE  LET fp == Min(ev[e].todo)
               row == Advanced(e, fp)
               new == fp \notin DOMAIN ev[e].existing
               changed == row.state # StateRead(e, fp)
           IN  /\ ev' \in [Eval -> Evaluation(Rows)] /\ Only(e) /\ Fixed(e)
               /\ ev'[e].tracked = IF new THEN ev[e].tracked + 1 ELSE ev[e].tracked
               /\ ev'[e].todo = ev[e].todo \ {fp}
               /\ ev'[e].pc = IF changed THEN "record" ELSE "eval"
               /\ changed => ev'[e].cur = fp /\ ev'[e].to = row.state
               /\ ev'[e].existing = ev[e].existing /\ ev'[e].gone = ev[e].gone
               /\ ev'[e].changes = ev[e].changes
<1> DEFINE fp == Min(ev[e].todo)
           row == Advanced(e, fp)
           new == fp \notin DOMAIN ev[e].existing
           changed == row.state # StateRead(e, fp)
           tracked == IF new THEN ev[e].tracked + 1 ELSE ev[e].tracked
           pc == IF changed THEN "record" ELSE "eval"
           cur == IF changed THEN fp ELSE 0
           to == IF changed THEN row.state ELSE None
<1>1. ev' = [ev EXCEPT ![e] = [ev[e] EXCEPT !.tracked = tracked, !.todo = @ \ {fp},
                                            !.pc = pc, !.cur = cur, !.to = to]]
  BY DEF Upsert, Tracked
<1>2. fp \in Fp
  BY NextOf DEF Upsert
<1>3. row.state \in State
  BY <1>2, AdvancedIs DEF Row
<1>4. ev[e] \in Evaluation(Rows)
  BY EvType
<1>5. tracked \in Nat
  BY <1>4 DEF Evaluation
<1>6. pc \in {"record", "eval"} /\ cur \in Fp \cup {0} /\ to \in State \cup {None}
  BY <1>2, <1>3
<1> HIDE DEF fp, tracked, pc, cur, to
<1>7. ASSUME NEW v \in Evaluation(Rows)
      PROVE  LET w == [v EXCEPT !.tracked = tracked, !.todo = @ \ {fp},
                                !.pc = pc, !.cur = cur, !.to = to]
             IN  /\ w \in Evaluation(Rows)
                 /\ w.rule = v.rule /\ w.for = v.for /\ w.now = v.now
                 /\ w.canceled = v.canceled /\ w.alone = v.alone
                 /\ w.tracked = tracked /\ w.todo = v.todo \ {fp}
                 /\ w.pc = pc /\ w.cur = cur /\ w.to = to
                 /\ w.existing = v.existing /\ w.gone = v.gone /\ w.changes = v.changes
  <2> DEFINE todo == v.todo \ {fp}
             w == [v EXCEPT !.tracked = tracked, !.todo = todo, !.pc = pc, !.cur = cur, !.to = to]
  <2>0. todo \in SUBSET Fp
    BY DEF Evaluation
  <2>1. w \in Evaluation(Rows)
    <3> HIDE DEF todo
    <3> QED
      BY <1>5, <1>6, <2>0 DEF Evaluation
  <2>2. /\ w.rule = v.rule /\ w.for = v.for /\ w.now = v.now
        /\ w.canceled = v.canceled /\ w.alone = v.alone
        /\ w.tracked = tracked /\ w.todo = todo
        /\ w.pc = pc /\ w.cur = cur /\ w.to = to
        /\ w.existing = v.existing /\ w.gone = v.gone /\ w.changes = v.changes
    BY SMTT(20) DEF Evaluation
  <2> QED
    BY <2>1, <2>2
<1>8. /\ ev' \in [Eval -> Evaluation(Rows)] /\ Only(e) /\ Fixed(e)
      /\ ev'[e].tracked = tracked /\ ev'[e].todo = ev[e].todo \ {fp}
      /\ ev'[e].pc = pc /\ ev'[e].cur = cur /\ ev'[e].to = to
      /\ ev'[e].existing = ev[e].existing /\ ev'[e].gone = ev[e].gone
      /\ ev'[e].changes = ev[e].changes
  BY <1>1, <1>4, <1>7, Step DEF Fixed
<1> QED
  BY <1>8 DEF fp, tracked, pc, cur, to

\* The table after a row is written.
LEMMA Upserted ==
    ASSUME TypeInv, NEW k \in Key, NEW row \in Row, UpsertInstance(k, row)
    PROVE  /\ DOMAIN instances' = DOMAIN instances \cup {k}
           /\ instances' \in [DOMAIN instances' -> Row]
           /\ \A l \in DOMAIN instances \ {k} : instances'[l] = instances[l]
           /\ instances'[k].state = row.state /\ instances'[k].activeAt = row.activeAt
           /\ instances'[k].id = IF k \in DOMAIN instances THEN instances[k].id ELSE row.id
<1>1. \A l \in DOMAIN instances : instances[l] \in Row
  BY DEF TypeInv
<1>2. CASE k \in DOMAIN instances
  <2>1. [row EXCEPT !.id = instances[k].id] \in Row
    BY <1>1, <1>2 DEF Row
  <2>2. instances'[k] = [row EXCEPT !.id = instances[k].id]
    BY <1>2 DEF UpsertInstance
  <2>3. instances'[k].state = row.state /\ instances'[k].activeAt = row.activeAt
        /\ instances'[k].id = instances[k].id
    BY <2>2 DEF Row
  <2> QED
    BY <1>1, <1>2, <2>1, <2>2, <2>3 DEF UpsertInstance
<1>3. CASE k \notin DOMAIN instances
  BY <1>1, <1>3 DEF UpsertInstance
<1> QED
  BY <1>2, <1>3

\* The evaluation returns, whatever the reason.
Returns(e) ==
    /\ Underway(e) => StoreFails(e) \/ Finish(e)
    /\ Return(e)
    /\ UNCHANGED <<envVars, storeVars, feedVars, hd>>

\* Nothing happens to what evaluations read and write.
Quiet == UNCHANGED <<cond, instances, feedVars, ev>>

\* The steps, with those together that make no difference below.
LEMMA Cases ==
    ASSUME [Next]_vars
    PROVE  \/ Quiet
           \/ \E k \in Key : Flip(k)
           \/ \E e \in Eval :
                \/ Returns(e) \/ QueryOK(e) \/ (List(e) /\ ~ev[e].canceled)
                \/ Refuse(e) \/ Upsert(e) \/ Record(e) \/ Resolve(e) \/ Delete(e)
                \/ Forward(e) \/ Cancel(e) \/ \E r \in Rule : Begin(e, r)
           \/ Crash
           \/ \E h \in Handler, r \in Rule : DeleteInstances(h, r)
<1>1. CASE Tick BY <1>1 DEF Tick, Quiet, storeVars
<1>2. CASE UNCHANGED vars BY <1>2 DEF vars, Quiet, feedVars
<1>3. CASE \E h \in Handler : \/ \E r \in Rule : GetRule(h, r)
                              \/ \E f \in For : PutRule(h, f)
                              \/ DeleteRule(h)
  BY <1>3 DEF GetRule, PutRule, DeleteRule, Quiet, storeVars, envVars
<1>4. ASSUME NEW e \in Eval, QueryFails(e) \/ (List(e) /\ ev[e].canceled) \/ StoreFails(e) \/ Finish(e)
      PROVE  Returns(e)
  BY <1>4 DEF QueryFails, List, StoreFails, Finish, Returns, Underway
<1> QED
  BY <1>1, <1>2, <1>3, <1>4 DEF Next, EvalStep

-----------------------------------------------------------------------------
(* Type correctness *)

LEMMA InitTyped == Init => TypeInv /\ Control
<1> SUFFICES ASSUME Init
             PROVE  TypeInv /\ Control
  OBVIOUS
<1>1. instances = <<>> /\ DOMAIN instances = {}
  BY DEF Init
<1>2. instances \in [DOMAIN instances -> Row]
  BY <1>1
<1>3. ev \in [Eval -> Evaluation(Rows)]
  BY IdleType DEF Init
<1>4. ControlOf(IdleEval)
  BY DEF IdleEval, ControlOf
<1>5. TypeInv
  BY <1>1, <1>2, <1>3, TimeAssumption
  DEF TypeInv, Init, NoEntries, NoneNotified, IdleHandler, State, None
<1>6. Control
  BY <1>4 DEF Init, Control, IdleHandler
<1> QED
  BY <1>5, <1>6

LEMMA EvNext ==
    ASSUME TypeInv, Control, [Next]_vars
    PROVE  ev' \in [Eval -> Evaluation(Rows)]
<1>1. CASE Quiet BY <1>1, EvType DEF Quiet
<1>2. ASSUME NEW k \in Key, Flip(k)
      PROVE  ev' \in [Eval -> Evaluation(Rows)]
  BY <1>2, OvertakenIs DEF Flip
<1>3. CASE Crash
  BY <1>3, IdleType DEF Crash
<1>4. ASSUME NEW h \in Handler, NEW r \in Rule, DeleteInstances(h, r)
      PROVE  ev' \in [Eval -> Evaluation(Rows)]
  BY <1>4, OvertakenIs DEF DeleteInstances
<1>5. ASSUME NEW e \in Eval,
             \/ Returns(e) \/ QueryOK(e) \/ (List(e) /\ ~ev[e].canceled)
             \/ Refuse(e) \/ Upsert(e) \/ Record(e) \/ Resolve(e) \/ Delete(e)
             \/ Forward(e) \/ Cancel(e) \/ \E r \in Rule : Begin(e, r)
      PROVE  ev' \in [Eval -> Evaluation(Rows)]
  BY <1>5, ReturnIs, QueryOKIs, ListIs, RefuseIs, UpsertIs, RecordIs, ResolveIs, DeleteIs,
     ForwardIs, CancelIs, BeginIs DEF Returns
<1> QED
  BY <1>1, <1>2, <1>3, <1>4, <1>5, Cases

\* The table: a row is written, rows are deleted, or nothing happens.
LEMMA TableNext ==
    ASSUME TypeInv, Control, [Next]_vars
    PROVE  DOMAIN instances' \subseteq Key /\ instances' \in [DOMAIN instances' -> Row]
<1> DEFINE Goal == DOMAIN instances' \subseteq Key /\ instances' \in [DOMAIN instances' -> Row]
<1>1. CASE UNCHANGED instances
  BY <1>1 DEF TypeInv
<1>2. ASSUME NEW e \in Eval, Upsert(e)
      PROVE  Goal
  <2> DEFINE fp == Min(ev[e].todo)
  <2>1. fp \in Fp
    BY <1>2, NextOf DEF Upsert
  <2>2. <<ev[e].rule, fp>> \in Key
    BY <1>2, <2>1 DEF Upsert, Control, ControlOf, Key
  <2>3. Advanced(e, fp) \in Row
    BY <2>1, AdvancedIs
  <2>4. UpsertInstance(<<ev[e].rule, fp>>, Advanced(e, fp))
    BY <1>2 DEF Upsert
  <2> QED
    BY <2>2, <2>3, <2>4, Upserted DEF TypeInv
<1>3. ASSUME NEW S, instances' = [k \in DOMAIN instances \ S |-> instances[k]]
      PROVE  Goal
  BY <1>3 DEF TypeInv
<1>4. ASSUME NEW e \in Eval, Delete(e)
      PROVE  Goal
  BY <1>3, <1>4 DEF Delete
<1>5. ASSUME NEW h \in Handler, NEW r \in Rule, DeleteInstances(h, r)
      PROVE  Goal
  BY <1>5 DEF DeleteInstances, TypeInv
<1>6. ASSUME NEW e \in Eval,
             \/ Returns(e) \/ QueryOK(e) \/ (List(e) /\ ~ev[e].canceled)
             \/ Refuse(e) \/ Record(e) \/ Resolve(e)
             \/ Forward(e) \/ Cancel(e) \/ \E r \in Rule : Begin(e, r)
      PROVE  UNCHANGED instances
  BY <1>6 DEF Returns, QueryOK, List, Refuse, Record, Resolve, Forward, Cancel, Begin, storeVars
<1>7. Quiet \/ Crash \/ (\E k \in Key : Flip(k)) => UNCHANGED instances
  BY DEF Quiet, Crash, Flip, storeVars
<1> QED
  BY <1>1, <1>2, <1>4, <1>5, <1>6, <1>7, Cases

\* History, notifier and the series that were absent.
FeedTyped ==
    /\ lapsed \in SUBSET Key /\ gaps \in SUBSET Key
    /\ last \in [Key -> State \cup {"ok", "resolved"}]
    /\ notified \in [Key -> {None, "firing", "resolved"}]
    /\ calm \in BOOLEAN

LEMMA DisturbTyped ==
    ASSUME FeedTyped, NEW b, Disturb(b)
    PROVE  FeedTyped'
<1>1. NoEntries \in [Key -> State \cup {"ok", "resolved"}]
      /\ NoneNotified \in [Key -> {None, "firing", "resolved"}]
  BY DEF NoEntries, NoneNotified
<1> QED
  BY <1>1 DEF Disturb, FeedTyped, feedVars

LEMMA AppendTyped ==
    ASSUME FeedTyped, NEW e \in Eval, ev[e].rule \in Rule, NEW fp \in Fp,
           NEW prev, NEW new \in State \cup {"resolved"},
           AppendHistory(e, fp, prev, new), UNCHANGED <<lapsed, notified, calm>>
    PROVE  FeedTyped'
<1> DEFINE k == <<ev[e].rule, fp>>
<1>1. k \in Key
  BY DEF Key
<1> HIDE DEF k
<1>2. UNCHANGED last \/ last' = [last EXCEPT ![k] = new]
  BY DEF AppendHistory, k
<1>3. UNCHANGED gaps \/ gaps' = gaps \cup {k}
  BY DEF AppendHistory, k
<1> QED
  BY <1>1, <1>2, <1>3 DEF FeedTyped

LEMMA FeedNext ==
    ASSUME TypeInv, Control, [Next]_vars
    PROVE  FeedTyped'
<1>t. FeedTyped
  BY DEF TypeInv, FeedTyped
<1>1. CASE UNCHANGED feedVars
  BY <1>1, <1>t DEF feedVars, FeedTyped
<1>2. ASSUME NEW b, Disturb(b)
      PROVE  FeedTyped'
  BY <1>2, <1>t, DisturbTyped
<1>3. ASSUME NEW e \in Eval, Record(e)
      PROVE  FeedTyped'
  <2>1. ev[e].cur \in Fp /\ ev[e].to \in State /\ ev[e].rule \in Rule
    BY <1>3 DEF Record, Control, ControlOf
  <2> QED
    BY <1>3, <1>t, <2>1, AppendTyped DEF Record
<1>4. ASSUME NEW e \in Eval, Resolve(e)
      PROVE  FeedTyped'
  <2>1. PICK fp \in ev[e].gone : AppendHistory(e, fp, ev[e].existing[fp].state, "resolved")
    BY <1>4 DEF Resolve
  <2>2. fp \in Fp /\ ev[e].rule \in Rule
    BY <1>4, ReadRows DEF Resolve, Control, ControlOf
  <2> QED
    BY <1>4, <1>t, <2>1, <2>2, AppendTyped DEF Resolve
<1>5. ASSUME NEW e \in Eval, Forward(e)
      PROVE  FeedTyped'
  <2> DEFINE c == Head(ev[e].changes)
             k == <<ev[e].rule, c[1]>>
  <2>1. UNCHANGED notified \/ (c[2] \in Forwarded /\ notified' = [notified EXCEPT ![k] = c[2]])
    BY <1>5 DEF Forward
  <2> HIDE DEF c, k
  <2>2. c[2] \in Forwarded => c[2] \in {None, "firing", "resolved"}
    BY DEF Forwarded
  <2>3. notified' \in [Key -> {None, "firing", "resolved"}]
    BY <1>t, <2>1, <2>2 DEF FeedTyped
  <2> QED
    BY <1>5, <1>t, <2>3 DEF Forward, FeedTyped
<1>6. ASSUME NEW e \in Eval, QueryOK(e)
      PROVE  FeedTyped'
  BY <1>6, <1>t DEF QueryOK, FeedTyped
<1>7. ASSUME NEW k \in Key, Flip(k)
      PROVE  FeedTyped'
  BY <1>7, <1>t DEF Flip, FeedTyped
<1>8. ASSUME NEW e \in Eval,
             Returns(e) \/ List(e) \/ Refuse(e) \/ Upsert(e) \/ Delete(e)
      PROVE  UNCHANGED feedVars
  BY <1>8 DEF Returns, List, Refuse, Upsert, Delete
<1>9. ASSUME NEW e \in Eval, Cancel(e) \/ \E r \in Rule : Begin(e, r)
      PROVE  \E b : Disturb(b)
  BY <1>9 DEF Cancel, Begin
<1>10. Crash \/ (\E h \in Handler, r \in Rule : DeleteInstances(h, r)) => \E b : Disturb(b)
  BY DEF Crash, DeleteInstances
<1>11. Quiet => UNCHANGED feedVars
  BY DEF Quiet
<1> QED
  BY <1>1, <1>2, <1>3, <1>4, <1>5, <1>6, <1>7, <1>8, <1>9, <1>10, <1>11, Cases

\* The tables of rules and the requests.
RulesTyped ==
    /\ DOMAIN rules \subseteq Rule /\ rules \in [DOMAIN rules -> For]
    /\ hd \in [Handler -> [pc : {"idle", "put", "delete"},
                            rule : Rule \cup {None}, for : For \cup {0}]]
    /\ \A h \in Handler : hd[h].pc # "idle" => hd[h].rule \in Rule
    /\ \A h \in Handler : hd[h].pc = "put" => hd[h].for \in For

LEMMA RulesNext ==
    ASSUME RulesTyped, [Next]_vars
    PROVE  RulesTyped'
<1>i. IdleHandler \in [pc : {"idle", "put", "delete"}, rule : Rule \cup {None}, for : For \cup {0}]
      /\ IdleHandler.pc = "idle"
  BY DEF IdleHandler
<1>1. ASSUME NEW h \in Handler, NEW r \in Rule, GetRule(h, r)
      PROVE  RulesTyped'
  <2> DEFINE got == [pc |-> "put", rule |-> r, for |-> rules[r]]
  <2>1. rules[r] \in For
    BY <1>1 DEF GetRule, RulesTyped
  <2>2. got \in [pc : {"idle", "put", "delete"}, rule : Rule \cup {None}, for : For \cup {0}]
        /\ got.pc = "put" /\ got.rule \in Rule /\ got.for \in For
    BY <2>1
  <2>3. hd' = [hd EXCEPT ![h] = got] /\ UNCHANGED rules
    BY <1>1 DEF GetRule, storeVars
  <2> HIDE DEF got
  <2> QED
    BY <2>2, <2>3 DEF RulesTyped
<1>2. ASSUME NEW h \in Handler, NEW f \in For, PutRule(h, f)
      PROVE  RulesTyped'
  <2>1. hd[h].rule \in Rule
    BY <1>2 DEF PutRule, RulesTyped
  <2>2. DOMAIN rules' \subseteq Rule /\ rules' \in [DOMAIN rules' -> For]
    BY <1>2, <2>1 DEF PutRule, RulesTyped
  <2> QED
    BY <1>2, <1>i, <2>2 DEF PutRule, RulesTyped
<1>3. ASSUME NEW h \in Handler, DeleteRule(h)
      PROVE  RulesTyped'
  <2>1. DOMAIN rules' \subseteq Rule /\ rules' \in [DOMAIN rules' -> For]
    BY <1>3 DEF DeleteRule, RulesTyped
  <2> QED
    BY <1>3, <1>i, <2>1 DEF DeleteRule, RulesTyped
<1>4. ASSUME NEW h \in Handler, NEW r \in Rule, DeleteInstances(h, r)
      PROVE  RulesTyped'
  <2> DEFINE got == [pc |-> "delete", rule |-> r, for |-> 0]
  <2>1. got \in [pc : {"idle", "put", "delete"}, rule : Rule \cup {None}, for : For \cup {0}]
        /\ got.pc = "delete" /\ got.rule \in Rule
    OBVIOUS
  <2>2. hd' = [hd EXCEPT ![h] = got] /\ UNCHANGED rules
    BY <1>4 DEF DeleteInstances
  <2> HIDE DEF got
  <2> QED
    BY <2>1, <2>2 DEF RulesTyped
<1>5. CASE Crash
  BY <1>5, <1>i DEF Crash, storeVars, RulesTyped
<1>6. CASE UNCHANGED <<rules, hd>>
  BY <1>6 DEF RulesTyped
<1>7. Tick \/ (\E k \in Key : Flip(k)) \/ UNCHANGED vars => UNCHANGED <<rules, hd>>
  BY DEF Tick, Flip, vars, storeVars
<1>8. ASSUME NEW e \in Eval, EvalStep(e) \/ Cancel(e) \/ \E r \in Rule : Begin(e, r)
      PROVE  UNCHANGED <<rules, hd>>
  BY <1>8 DEF EvalStep, QueryFails, QueryOK, List, Refuse, Upsert, Record, Resolve, Delete,
     StoreFails, Forward, Finish, Cancel, Begin, storeVars
<1> QED
  BY <1>1, <1>2, <1>3, <1>4, <1>5, <1>6, <1>7, <1>8 DEF Next

LEMMA ClockNext ==
    ASSUME clock \in 0 .. MaxTime, cond \in SUBSET Key, [Next]_vars
    PROVE  clock' \in 0 .. MaxTime /\ cond' \in SUBSET Key
<1>1. CASE Tick
  BY <1>1, TimeAssumption DEF Tick
<1>2. ASSUME NEW k \in Key, Flip(k)
      PROVE  clock' = clock /\ cond' \in SUBSET Key
  BY <1>2 DEF Flip
<1>3. ASSUME NEW e \in Eval, EvalStep(e) \/ Cancel(e) \/ \E r \in Rule : Begin(e, r)
      PROVE  UNCHANGED <<clock, cond>>
  BY <1>3 DEF EvalStep, QueryFails, QueryOK, List, Refuse, Upsert, Record, Resolve, Delete,
     StoreFails, Forward, Finish, Cancel, Begin, envVars
<1>4. ASSUME NEW h \in Handler,
             \/ \E r \in Rule : GetRule(h, r) \/ DeleteInstances(h, r)
             \/ \E f \in For : PutRule(h, f)
             \/ DeleteRule(h)
      PROVE  UNCHANGED <<clock, cond>>
  BY <1>4 DEF GetRule, DeleteInstances, PutRule, DeleteRule, envVars
<1>5. Crash \/ UNCHANGED vars => UNCHANGED <<clock, cond>>
  BY DEF Crash, vars
<1> QED
  BY <1>1, <1>2, <1>3, <1>4, <1>5 DEF Next

LEMMA TypeNext ==
    ASSUME TypeInv, Control, [Next]_vars
    PROVE  TypeInv'
<1>1. RulesTyped'
  BY RulesNext DEF TypeInv, Control, RulesTyped
<1>2. clock' \in 0 .. MaxTime /\ cond' \in SUBSET Key
  BY ClockNext DEF TypeInv
<1> QED
  BY <1>1, <1>2, EvNext, TableNext, FeedNext DEF TypeInv, RulesTyped, FeedTyped

\* ControlOf says nothing of the fields that others change.
LEMMA SameControl ==
    ASSUME NEW v, NEW w, SameBut(v, w) \/ SameButCancel(v, w), ControlOf(v)
    PROVE  ControlOf(w)
BY DEF SameBut, SameButCancel, ControlOf

LEMMA ControlNext ==
    ASSUME TypeInv, Control, [Next]_vars
    PROVE  Control'
<1>h. RulesTyped'
  BY RulesNext DEF TypeInv, Control, RulesTyped
<1>c. \A e \in Eval : ControlOf(ev[e])
  BY DEF Control
<1>i. ControlOf(IdleEval)
  BY DEF IdleEval, ControlOf
<1> SUFFICES \A o \in Eval : ControlOf(ev'[o])
  BY <1>h DEF Control, RulesTyped, ControlOf
<1>o. ASSUME NEW e \in Eval, Only(e), ControlOf(ev'[e])
      PROVE  \A o \in Eval : ControlOf(ev'[o])
  BY <1>o, <1>c DEF Only
<1>1. CASE Quiet
  BY <1>1, <1>c DEF Quiet
<1>2. ASSUME NEW k \in Key, Flip(k)
      PROVE  \A o \in Eval : ControlOf(ev'[o])
  BY <1>2, <1>c, OvertakenIs, SameControl DEF Flip
<1>3. CASE Crash
  BY <1>3, <1>i DEF Crash
<1>4. ASSUME NEW h \in Handler, NEW r \in Rule, DeleteInstances(h, r)
      PROVE  \A o \in Eval : ControlOf(ev'[o])
  BY <1>4, <1>c, OvertakenIs, SameControl DEF DeleteInstances
<1>5. ASSUME NEW e \in Eval, Returns(e)
      PROVE  \A o \in Eval : ControlOf(ev'[o])
  BY <1>5, <1>i, <1>o, ReturnIs DEF Returns
<1>6. ASSUME NEW e \in Eval, QueryOK(e)
      PROVE  \A o \in Eval : ControlOf(ev'[o])
  <2>1. ControlOf(ev[e]) /\ ev[e].pc = "query"
    BY <1>6, <1>c DEF QueryOK
  <2> QED
    BY <1>6, <2>1, <1>o, QueryOKIs DEF Fixed, ControlOf
<1>7. ASSUME NEW e \in Eval, List(e), ~ev[e].canceled
      PROVE  \A o \in Eval : ControlOf(ev'[o])
  <2>1. ControlOf(ev[e]) /\ ev[e].pc = "list"
    BY <1>7, <1>c DEF List
  <2> QED
    BY <1>7, <2>1, <1>o, ListIs DEF Fixed, ControlOf
<1>8. ASSUME NEW e \in Eval, Refuse(e)
      PROVE  \A o \in Eval : ControlOf(ev'[o])
  <2>1. ControlOf(ev[e]) /\ ev[e].pc = "eval"
    BY <1>8, <1>c DEF Refuse
  <2> QED
    BY <1>8, <2>1, <1>o, RefuseIs DEF Fixed, ControlOf
<1>9. ASSUME NEW e \in Eval, Upsert(e)
      PROVE  \A o \in Eval : ControlOf(ev'[o])
  <2> DEFINE fp == Min(ev[e].todo)
             row == Advanced(e, fp)
             changed == row.state # StateRead(e, fp)
  <2>1. ControlOf(ev[e]) /\ ev[e].pc = "eval" /\ fp \in ev[e].todo /\ fp \in Fp
    BY <1>9, <1>c, NextOf DEF Upsert
  <2>2. row.state \in State
    BY <2>1, AdvancedIs DEF Row
  <2>3. /\ Only(e) /\ Fixed(e)
        /\ ev'[e].todo = ev[e].todo \ {fp}
        /\ ev'[e].pc = IF changed THEN "record" ELSE "eval"
        /\ changed => ev'[e].cur = fp /\ ev'[e].to = row.state
        /\ ev'[e].existing = ev[e].existing /\ ev'[e].gone = ev[e].gone
    BY <1>9, UpsertIs
  <2> HIDE DEF fp, row, changed
  <2> QED
    BY <2>1, <2>2, <2>3, <1>o DEF Fixed, ControlOf
<1>10. ASSUME NEW e \in Eval, Record(e)
      PROVE  \A o \in Eval : ControlOf(ev'[o])
  <2>1. ControlOf(ev[e]) /\ ev[e].pc = "record"
    BY <1>10, <1>c DEF Record
  <2> QED
    BY <1>10, <2>1, <1>o, RecordIs DEF Fixed, ControlOf
<1>11. ASSUME NEW e \in Eval, Resolve(e)
      PROVE  \A o \in Eval : ControlOf(ev'[o])
  <2>1. ControlOf(ev[e]) /\ ev[e].pc = "eval" /\ ev[e].todo = {}
    BY <1>11, <1>c DEF Resolve
  <2> QED
    BY <1>11, <2>1, <1>o, ResolveIs DEF Fixed, ControlOf
<1>12. ASSUME NEW e \in Eval, Delete(e)
      PROVE  \A o \in Eval : ControlOf(ev'[o])
  <2>1. ControlOf(ev[e]) /\ ev[e].pc = "delete"
    BY <1>12, <1>c DEF Delete
  <2> QED
    BY <1>12, <2>1, <1>o, DeleteIs DEF Fixed, ControlOf
<1>13. ASSUME NEW e \in Eval, Forward(e)
      PROVE  \A o \in Eval : ControlOf(ev'[o])
  <2>1. ControlOf(ev[e]) /\ ev[e].pc = "eval"
    BY <1>13, <1>c DEF Forward, Finished
  <2> QED
    BY <1>13, <2>1, <1>o, ForwardIs DEF Fixed, ControlOf
<1>14. ASSUME NEW e \in Eval, Cancel(e)
      PROVE  \A o \in Eval : ControlOf(ev'[o])
  BY <1>14, <1>c, <1>o, CancelIs, SameControl
<1>15. ASSUME NEW e \in Eval, NEW r \in Rule, Begin(e, r)
      PROVE  \A o \in Eval : ControlOf(ev'[o])
  <2>1. ControlOf(ev'[e])
    BY <1>15, BeginIs DEF ControlOf
  <2> QED
    BY <1>15, <2>1, <1>c, BeginIs, SameControl
<1> QED
  BY <1>1, <1>2, <1>3, <1>4, <1>5, <1>6, <1>7, <1>8, <1>9, <1>10, <1>11, <1>12, <1>13,
     <1>14, <1>15, Cases

-----------------------------------------------------------------------------
(* Ids *)

LEMMA IdleIs ==
    /\ IdleEval.pc = "idle" /\ IdleEval.rule = None /\ IdleEval.existing = <<>>
    /\ IdleEval.changes = <<>> /\ IdleEval.todo = {} /\ IdleEval.gone = {}
    /\ ~IdleEval.alone
BY DEF IdleEval

LEMMA IdsInit == Init => IdsInv
BY DEF Init, IdsInv, Named, IdleEval

\* Unless a row is written, no key gets an id it did not have.
LEMMA IdsKept ==
    ASSUME TypeInv, Control, [Next]_vars, \A e \in Eval : ~Upsert(e),
           NEW k \in Key, NEW id \in Nat, Named(k, id)'
    PROVE  Named(k, id)
<1>1. CASE Quiet
  BY <1>1 DEF Quiet, Named
<1>2. ASSUME NEW r, UNCHANGED instances, ev' = Overtaken(r)
      PROVE  Named(k, id)
  BY <1>2, OvertakenIs DEF Named, SameBut
<1>3. CASE Crash
  BY <1>3 DEF Crash, Named, IdleEval, storeVars
<1>4. ASSUME NEW h \in Handler, NEW r \in Rule, DeleteInstances(h, r)
      PROVE  Named(k, id)
  <2>1. /\ DOMAIN instances' \subseteq DOMAIN instances
        /\ \A l \in DOMAIN instances' : instances'[l] = instances[l]
    BY <1>4 DEF DeleteInstances
  <2> QED
    BY <1>4, <2>1, OvertakenIs DEF Named, SameBut, DeleteInstances
<1>5. ASSUME NEW e \in Eval, Only(e), ev'[e].rule = ev[e].rule,
             ev'[e].existing = ev[e].existing,
             DOMAIN instances' \subseteq DOMAIN instances,
             \A l \in DOMAIN instances' : instances'[l] = instances[l]
      PROVE  Named(k, id)
  BY <1>5 DEF Named, Only
<1>6. ASSUME NEW e \in Eval, ev'[e].existing = <<>>, UNCHANGED instances,
             \A o \in Eval \ {e} : ev'[o].rule = ev[o].rule /\ ev'[o].existing = ev[o].existing
      PROVE  Named(k, id)
  BY <1>6 DEF Named
<1>7. ASSUME NEW e \in Eval, Returns(e)
      PROVE  Named(k, id)
  BY <1>6, <1>7, ReturnIs DEF Returns, IdleEval, storeVars, Only
<1>8. ASSUME NEW e \in Eval, NEW r \in Rule, Begin(e, r)
      PROVE  Named(k, id)
  <2>1. /\ ev'[e].existing = <<>> /\ UNCHANGED instances
        /\ \A o \in Eval \ {e} : SameBut(ev[o], ev'[o])
    BY <1>8, BeginIs DEF Begin, storeVars
  <2>2. \A o \in Eval \ {e} : ev'[o].rule = ev[o].rule /\ ev'[o].existing = ev[o].existing
    BY <2>1 DEF SameBut
  <2> QED
    BY <1>6, <2>1, <2>2
<1>9. ASSUME NEW e \in Eval, List(e), ~ev[e].canceled
      PROVE  Named(k, id)
  <2>1. /\ Only(e) /\ ev'[e].rule = ev[e].rule /\ ev'[e].existing = RowsOf(ev[e].rule)
        /\ UNCHANGED instances
    BY <1>9, ListIs DEF Fixed, List, storeVars
  <2>2. ev[e].rule \in Rule
    BY <1>9 DEF List, Control, ControlOf
  <2> DEFINE r == ev[e].rule
  <2>3. k = <<k[1], k[2]>>
    BY DEF Key
  <2>4. ASSUME k[1] = r, k[2] \in DOMAIN RowsOf(r)
        PROVE  k \in DOMAIN instances /\ RowsOf(r)[k[2]] = instances[k]
    <3>1. k = <<r, k[2]>>
      BY <2>3, <2>4
    <3>2. r \in Rule
      BY <2>2
    <3> HIDE DEF r
    <3>3. <<r, k[2]>> \in DOMAIN instances /\ RowsOf(r)[k[2]] = instances[<<r, k[2]>>]
      BY <2>4, <3>2, RowsOfAre
    <3> QED
      BY <3>1, <3>3
  <2> QED
    BY <2>1, <2>4 DEF Named, Only
<1>10. ASSUME NEW e \in Eval, QueryOK(e) \/ Refuse(e) \/ Record(e) \/ Resolve(e)
                              \/ Forward(e) \/ Cancel(e)
       PROVE  Named(k, id)
  <2>1. UNCHANGED instances
    BY <1>10 DEF QueryOK, Refuse, Record, Resolve, Forward, Cancel, storeVars
  <2>2. Only(e) /\ ev'[e].rule = ev[e].rule /\ ev'[e].existing = ev[e].existing
    BY <1>10, QueryOKIs, RefuseIs, RecordIs, ResolveIs, ForwardIs, CancelIs DEF Fixed, SameButCancel
  <2> QED
    BY <1>5, <2>1, <2>2
<1>11. ASSUME NEW e \in Eval, Delete(e)
       PROVE  Named(k, id)
  <2>1. /\ DOMAIN instances' \subseteq DOMAIN instances
        /\ \A l \in DOMAIN instances' : instances'[l] = instances[l]
    BY <1>11 DEF Delete
  <2> QED
    BY <1>5, <1>11, <2>1, DeleteIs DEF Fixed
<1> QED
  BY <1>1, <1>2, <1>3, <1>4, <1>7, <1>8, <1>9, <1>10, <1>11, Cases DEF Flip, storeVars

LEMMA IdsNext ==
    ASSUME TypeInv, Control, IdsInv, [Next]_vars
    PROVE  IdsInv'
<1>1. CASE \A e \in Eval : ~Upsert(e)
  BY <1>1, IdsKept DEF IdsInv
<1>2. ASSUME NEW e \in Eval, Upsert(e)
      PROVE  IdsInv'
  <2> DEFINE fp == Min(ev[e].todo)
             row == Advanced(e, fp)
             key == <<ev[e].rule, fp>>
  <2>1. fp \in Fp /\ key \in Key /\ row \in Row /\ key[1] = ev[e].rule /\ key[2] = fp
    <3>1. fp \in Fp
      BY <1>2, NextOf DEF Upsert
    <3> QED
      BY <1>2, <3>1, AdvancedIs DEF Upsert, Control, ControlOf, Key
  <2>2. UpsertInstance(key, row)
    BY <1>2 DEF Upsert
  <2>3. /\ \A l \in DOMAIN instances' : l # key => l \in DOMAIN instances /\ instances'[l] = instances[l]
        /\ instances'[key].id = IF key \in DOMAIN instances THEN instances[key].id ELSE row.id
    <3> HIDE DEF fp, row, key
    <3>1. /\ DOMAIN instances' = DOMAIN instances \cup {key}
          /\ \A l \in DOMAIN instances \ {key} : instances'[l] = instances[l]
          /\ instances'[key].id = IF key \in DOMAIN instances THEN instances[key].id ELSE row.id
      BY <2>1, <2>2, Upserted
    <3> QED
      BY <3>1
  <2>4. \A o \in Eval : ev'[o].rule = ev[o].rule /\ ev'[o].existing = ev[o].existing
    BY <1>2, UpsertIs DEF Fixed, Only
  <2>5. Named(key, row.id) \/ row.id = NewId
    BY <2>1, AdvancedIs DEF Named
  <2> HIDE DEF fp, row, key
  <2>6. ASSUME NEW k \in Key, NEW id \in Nat, Named(k, id)'
        PROVE  Named(k, id) \/ (k = key /\ id = NewId)
    BY <2>3, <2>4, <2>5, <2>6 DEF Named
  <2>7. \A k \in Key : ~Named(k, NewId)
    BY NewIdFresh DEF Named
  <2> QED
    BY <2>6, <2>7 DEF IdsInv
<1> QED
  BY <1>1, <1>2

-----------------------------------------------------------------------------
(* Who is disturbed *)

LEMMA SoloInit == Init => SoloInv
BY DEF Init, SoloInv, Active, Underway, IdleEval

LEMMA StaysDisturbed ==
    ASSUME TypeInv, [Next]_vars
    PROVE  calm' => calm
<1>1. ASSUME NEW b, Disturb(b)
      PROVE  calm' => calm /\ ~b
  BY <1>1 DEF Disturb, feedVars, TypeInv
<1>2. ASSUME NEW e \in Eval, Cancel(e) \/ \E r \in Rule : Begin(e, r)
      PROVE  \E b : Disturb(b)
  BY <1>2 DEF Cancel, Begin
<1>3. Crash \/ (\E h \in Handler, r \in Rule : DeleteInstances(h, r)) => \E b : Disturb(b)
  BY DEF Crash, DeleteInstances
<1>4. ASSUME NEW e \in Eval,
             \/ Returns(e) \/ QueryOK(e) \/ (List(e) /\ ~ev[e].canceled)
             \/ Refuse(e) \/ Upsert(e) \/ Record(e) \/ Resolve(e) \/ Delete(e)
             \/ Forward(e)
      PROVE  UNCHANGED calm
  BY <1>4 DEF Returns, QueryOK, List, Refuse, Upsert, Record, Resolve, Delete, Forward, feedVars
<1>5. Quiet \/ (\E k \in Key : Flip(k)) => UNCHANGED calm
  BY DEF Quiet, Flip, feedVars
<1> QED
  BY <1>1, <1>2, <1>3, <1>4, <1>5, Cases

\* An evaluation that was called before the step is called as it was, or it has returned.
LEMMA Continues ==
    ASSUME TypeInv, Control, [Next]_vars, \A e \in Eval, r \in Rule : ~Begin(e, r), NEW o \in Eval,
           ev'[o].pc # "idle"
    PROVE  /\ ev[o].pc # "idle" /\ ev'[o].rule = ev[o].rule
           /\ ev'[o].alone => ev[o].alone
<1>1. CASE Quiet
  BY <1>1 DEF Quiet
<1>2. ASSUME NEW r, ev' = Overtaken(r)
      PROVE  ev[o].pc # "idle" /\ ev'[o].rule = ev[o].rule /\ (ev'[o].alone => ev[o].alone)
  BY <1>2, OvertakenIs DEF SameBut
<1>3. ~Crash
  BY IdleIs DEF Crash
<1>4. ASSUME NEW e \in Eval,
             \/ Returns(e) \/ QueryOK(e) \/ (List(e) /\ ~ev[e].canceled)
             \/ Refuse(e) \/ Upsert(e) \/ Record(e) \/ Resolve(e) \/ Delete(e)
             \/ Forward(e) \/ Cancel(e)
      PROVE  Only(e) /\ (ev'[e].pc = "idle" \/ Fixed(e) \/ SameButCancel(ev[e], ev'[e]))
  <2>1. CASE Returns(e)
    BY <2>1, ReturnIs, IdleIs DEF Returns
  <2>2. CASE ~Returns(e)
    BY <1>4, <2>2, QueryOKIs, ListIs, RefuseIs, UpsertIs, RecordIs, ResolveIs, DeleteIs,
       ForwardIs, CancelIs
  <2> QED
    BY <2>1, <2>2
<1>5. ASSUME NEW e \in Eval,
             \/ Returns(e) \/ QueryOK(e) \/ (List(e) /\ ~ev[e].canceled)
             \/ Refuse(e) \/ Upsert(e) \/ Record(e) \/ Resolve(e) \/ Delete(e)
             \/ Forward(e) \/ Cancel(e)
      PROVE  Returns(e) \/ ev[e].pc # "idle"
  BY <1>5 DEF QueryOK, List, Refuse, Upsert, Record, Resolve, Delete, Forward, Finished,
     Cancel, Active
<1>6. ASSUME NEW e \in Eval,
             \/ Returns(e) \/ QueryOK(e) \/ (List(e) /\ ~ev[e].canceled)
             \/ Refuse(e) \/ Upsert(e) \/ Record(e) \/ Resolve(e) \/ Delete(e)
             \/ Forward(e) \/ Cancel(e)
      PROVE  ev[o].pc # "idle" /\ ev'[o].rule = ev[o].rule /\ (ev'[o].alone => ev[o].alone)
  <2>1. CASE o # e
    BY <1>4, <1>6, <2>1 DEF Only
  <2>2. CASE o = e
    <3>1. ~Returns(e)
      BY <2>2, ReturnIs, IdleIs DEF Returns
    <3> QED
      BY <1>4, <1>5, <1>6, <2>2, <3>1 DEF Fixed, SameButCancel
  <2> QED
    BY <2>1, <2>2
<1>7. Quiet \/ (\E r : ev' = Overtaken(r))
          => ev[o].pc # "idle" /\ ev'[o].rule = ev[o].rule /\ (ev'[o].alone => ev[o].alone)
  BY <1>1, <1>2
<1>8. (\E k \in Key : Flip(k)) \/ (\E h \in Handler, r \in Rule : DeleteInstances(h, r))
          => \E r : ev' = Overtaken(r)
  BY DEF Flip, DeleteInstances
<1> QED
  BY <1>3, <1>6, <1>7, <1>8, Cases

LEMMA SoloNext ==
    ASSUME TypeInv, Control, SoloInv, [Next]_vars
    PROVE  SoloInv'
<1> DEFINE Solo == \A e, o \in Eval :
              Active(e) /\ Active(o) /\ ev[o].rule = ev[e].rule /\ Undisturbed(e) => o = e
           Uncanceled == calm => \A e \in Eval : Underway(e) => ~ev[e].canceled
<1>1. CASE \A e \in Eval, r \in Rule : ~Begin(e, r)
  <2>1. Solo'
    BY <1>1, Continues, StaysDisturbed DEF SoloInv, Active, Undisturbed
  <2>2. ASSUME calm', NEW o \in Eval, Underway(o)', ev'[o].canceled
        PROVE  FALSE
    <3>c. calm /\ (Underway(o) => ~ev[o].canceled)
      BY <2>2, StaysDisturbed DEF SoloInv
    <3>1. CASE Quiet
      BY <3>1, <3>c, <2>2 DEF Quiet, Underway
    <3>2. ASSUME NEW r, ev' = Overtaken(r)
          PROVE  FALSE
      BY <3>2, <3>c, <2>2, OvertakenIs DEF SameBut, Underway
    <3>3. ~Crash
      BY <2>2, IdleIs DEF Crash, Underway
    <3>4. ASSUME NEW e \in Eval, Returns(e)
          PROVE  FALSE
      BY <3>4, <3>c, <2>2, ReturnIs DEF Returns, Underway, Only, IdleEval
    <3>5. ASSUME NEW e \in Eval, Cancel(e)
          PROVE  FALSE
      <4>1. ~Underway(e)
        BY <3>5, <2>2, <3>c DEF Cancel, Disturb
      <4> QED
        BY <3>5, <3>c, <2>2, <4>1, CancelIs DEF SameButCancel, Underway, Only
    <3>6. ASSUME NEW e \in Eval, QueryOK(e) \/ (List(e) /\ ~ev[e].canceled)
          PROVE  FALSE
      BY <3>6, <3>c, <2>2, QueryOKIs, ListIs DEF Underway, Only, Fixed
    <3>7. ASSUME NEW e \in Eval,
                 Refuse(e) \/ Upsert(e) \/ Record(e) \/ Resolve(e) \/ Delete(e) \/ Forward(e)
          PROVE  FALSE
      <4>1. Underway(e)
        BY <3>7 DEF Refuse, Upsert, Record, Resolve, Delete, Forward, Finished, Underway
      <4>2. Only(e) /\ Fixed(e)
        BY <3>7, RefuseIs, UpsertIs, RecordIs, ResolveIs, DeleteIs, ForwardIs
      <4> QED
        BY <3>c, <2>2, <4>1, <4>2 DEF Only, Fixed, Underway
    <3> QED
      BY <1>1, <3>1, <3>2, <3>3, <3>4, <3>5, <3>6, <3>7, Cases DEF Flip, DeleteInstances
  <2> QED
    BY <2>1, <2>2 DEF SoloInv, Active, Undisturbed, Underway
<1>2. ASSUME NEW e \in Eval, NEW r \in Rule, Begin(e, r)
      PROVE  SoloInv'
  <2>1. /\ ev'[e].pc = "query" /\ ev'[e].rule = r /\ (ev'[e].alone <=> Others(r) = {})
        /\ \A o \in Eval \ {e} :
             SameBut(ev[o], ev'[o]) /\ (ev'[o].alone <=> ev[o].alone /\ ev[o].rule # r)
    BY <1>2, BeginIs
  <2>2. calm' => calm /\ Others(r) = {}
    BY <1>2 DEF Begin, Disturb, feedVars, TypeInv
  <2>3. \A o \in Eval : Active(o) /\ ev[o].rule = r => Others(r) # {}
    BY DEF Others
  <2>4. ~Active(e)
    BY <1>2 DEF Begin
  <2>5. Solo'
    BY <2>1, <2>2, <2>3, <2>4 DEF SoloInv, Active, Undisturbed, SameBut
  <2>6. Uncanceled'
    BY <2>1, <2>2 DEF SoloInv, Underway, SameBut
  <2> QED
    BY <2>5, <2>6 DEF SoloInv
<1> QED
  BY <1>1, <1>2

-----------------------------------------------------------------------------
(* What an evaluation does to the table, and what others leave it *)

\* Delete removes the row that was read, and no other.
LEMMA Removes ==
    ASSUME TypeInv, Control, IdsInv, NEW e \in Eval, Delete(e)
    PROVE  LET key == <<ev[e].rule, ev[e].cur>> IN
           /\ key \in Key /\ key \in DOMAIN instances
           /\ ev[e].cur \in Fp /\ ev[e].cur \in DOMAIN ev[e].existing
           /\ DOMAIN instances' = DOMAIN instances \ {key}
           /\ \A l \in DOMAIN instances' : instances'[l] = instances[l]
<1> DEFINE r == ev[e].rule
           fp == ev[e].cur
           key == <<r, fp>>
           id == ev[e].existing[fp].id
           rows == RowsWithId(id)
<1>1. r \in Rule /\ fp \in DOMAIN ev[e].existing
  BY DEF Delete, Control, ControlOf
<1>2. fp \in Fp /\ id \in Nat
  BY <1>1, ReadRows DEF Row
<1>3. key \in Key /\ key[1] = r /\ key[2] = fp
  BY <1>1, <1>2 DEF Key
<1>4. rows # {} /\ instances' = [k \in DOMAIN instances \ rows |-> instances[k]]
  BY DEF Delete
<1>5. Named(key, id)
  <2> HIDE DEF key
  <2> QED
    BY <1>1, <1>3 DEF Named
<1>6. \A k \in rows : k \in DOMAIN instances /\ k \in Key /\ instances[k].id = id
  BY DEF RowsWithId, TypeInv
<1> HIDE DEF r, key, id, rows
<1>7. \A k \in rows : k = key
  BY <1>2, <1>3, <1>5, <1>6 DEF IdsInv, Named
<1>8. rows = {key}
  BY <1>4, <1>7
<1>9. key \in DOMAIN instances
  BY <1>6, <1>8
<1> QED
  BY <1>1, <1>2, <1>3, <1>4, <1>8, <1>9 DEF key, r

\* Upsert writes the row of its series, and no other.
LEMMA Writes ==
    ASSUME TypeInv, Control, NEW e \in Eval, Upsert(e)
    PROVE  LET fp == Min(ev[e].todo)
               key == <<ev[e].rule, fp>>
           IN  /\ fp \in ev[e].todo /\ fp \in Fp /\ key \in Key
               /\ DOMAIN instances' = DOMAIN instances \cup {key}
               /\ \A l \in DOMAIN instances \ {key} : instances'[l] = instances[l]
               /\ instances'[key].state = Advanced(e, fp).state
               /\ instances'[key].activeAt = Advanced(e, fp).activeAt
<1> DEFINE fp == Min(ev[e].todo)
           key == <<ev[e].rule, fp>>
<1>1. fp \in ev[e].todo /\ fp \in Fp
  BY NextOf DEF Upsert
<1>2. key \in Key
  BY <1>1 DEF Upsert, Control, ControlOf, Key
<1>3. Advanced(e, fp) \in Row
  BY <1>1, AdvancedIs
<1>4. UpsertInstance(key, Advanced(e, fp))
  BY DEF Upsert
<1> QED
  BY <1>1, <1>2, <1>3, <1>4, Upserted

\* The rows of a rule are as they were.
SameRow(k) ==
    /\ k \in DOMAIN instances' <=> k \in DOMAIN instances
    /\ k \in DOMAIN instances => instances'[k] = instances[k]

SameRows(r) == \A fp \in Fp : SameRow(<<r, fp>>)

\* Its expression returns what it did.
SameCond(r) == \A fp \in Fp : <<r, fp>> \in cond' <=> <<r, fp>> \in cond

LEMMA SameRowsOf ==
    ASSUME NEW r, SameRows(r)
    PROVE  RowsOf(r)' = RowsOf(r)
BY DEF SameRows, SameRow, RowsOf

\* The evaluation is where it was, and so is what it works on.
Unaffected(o) ==
    /\ \/ SameBut(ev[o], ev'[o])
       \/ SameButCancel(ev[o], ev'[o])
    /\ ev'[o].alone => ev[o].alone
    /\ SameRows(ev[o].rule)
    /\ ev'[o].alone => SameCond(ev[o].rule)

\* A step of the evaluation itself.
Own(o) ==
    \/ QueryOK(o) \/ (List(o) /\ ~ev[o].canceled)
    \/ Refuse(o) \/ Upsert(o) \/ Record(o) \/ Resolve(o) \/ Delete(o)
    \/ Forward(o) \/ \E r \in Rule : Begin(o, r)

LEMMA SameResult ==
    ASSUME NEW r, SameCond(r)
    PROVE  Result(r)' = Result(r)
BY DEF Result, SameCond

\* Others cannot reach what an evaluation works on that stays undisturbed.
LEMMA Frame ==
    ASSUME TypeInv, Control, IdsInv, SoloInv, [Next]_vars, NEW o \in Eval,
           Active(o)', Undisturbed(o)'
    PROVE  Own(o) \/ Unaffected(o)
<1> DEFINE r == ev[o].rule
<1> USE DEF Unaffected
<1>s. ASSUME NEW s, UNCHANGED instances PROVE SameRows(s)
  BY <1>s DEF SameRows, SameRow
<1>r. ASSUME NEW s, UNCHANGED cond PROVE SameCond(s)
  BY <1>r DEF SameCond
<1>c. calm' => calm
  BY StaysDisturbed
<1>1. CASE Quiet
  BY <1>1, <1>s, <1>r DEF Quiet, SameBut
<1>2. ASSUME NEW k \in Key, Flip(k)
      PROVE  Unaffected(o)
  <2>1. SameBut(ev[o], ev'[o]) /\ (ev'[o].alone <=> ev[o].alone /\ ev[o].rule # k[1])
    BY <1>2, OvertakenIs DEF Flip
  <2>2. SameRows(r)
    BY <1>2, <1>s DEF Flip, storeVars
  <2>3. \A fp \in Fp : r # k[1] => <<r, fp>> # k
    BY DEF Key
  <2>4. r # k[1] => SameCond(r)
    <3> HIDE DEF r
    <3> QED
      BY <1>2, <2>3 DEF Flip, SameCond
  <2> QED
    BY <2>1, <2>2, <2>4
<1>3. ~Crash
  BY IdleIs DEF Crash, Active
<1>4. ASSUME NEW h \in Handler, NEW q \in Rule, DeleteInstances(h, q)
      PROVE  Unaffected(o)
  <2>1. SameBut(ev[o], ev'[o]) /\ (ev'[o].alone <=> ev[o].alone /\ ev[o].rule # q)
    BY <1>4, OvertakenIs DEF DeleteInstances
  <2>2. ~calm'
    BY <1>4, <1>c DEF DeleteInstances, Disturb
  <2>3. r # q
    BY <2>1, <2>2 DEF Undisturbed
  <2>4. SameRows(r)
    BY <1>4, <2>3 DEF DeleteInstances, SameRows, SameRow
  <2>5. UNCHANGED cond
    BY <1>4 DEF DeleteInstances
  <2> QED
    BY <2>1, <2>4, <2>5, <1>r
<1>5. ASSUME NEW e \in Eval, e # o, NEW q \in Rule, Begin(e, q)
      PROVE  Unaffected(o)
  <2>1. SameBut(ev[o], ev'[o]) /\ (ev'[o].alone => ev[o].alone)
    BY <1>5, BeginIs
  <2>2. UNCHANGED <<cond, instances>>
    BY <1>5 DEF Begin, envVars, storeVars
  <2> QED
    BY <2>1, <2>2, <1>s, <1>r
<1>6. ASSUME NEW e \in Eval,
             Returns(e) \/ QueryOK(e) \/ (List(e) /\ ~ev[e].canceled)
             \/ Refuse(e) \/ Upsert(e) \/ Record(e) \/ Resolve(e) \/ Delete(e)
             \/ Forward(e) \/ Cancel(e)
      PROVE  /\ Only(e) /\ UNCHANGED cond
             /\ Upsert(e) \/ Delete(e) \/ UNCHANGED instances
  <2>1. Only(e)
    BY <1>6, ReturnIs, QueryOKIs, ListIs, RefuseIs, UpsertIs, RecordIs, ResolveIs, DeleteIs,
       ForwardIs, CancelIs DEF Returns
  <2>2. UNCHANGED cond /\ (Upsert(e) \/ Delete(e) \/ UNCHANGED instances)
    BY <1>6 DEF Returns, QueryOK, List, Refuse, Upsert, Record, Resolve, Delete, Forward,
       Cancel, envVars, storeVars
  <2> QED
    BY <2>1, <2>2
<1>7. ASSUME NEW e \in Eval, e # o,
             Returns(e) \/ QueryOK(e) \/ (List(e) /\ ~ev[e].canceled)
             \/ Refuse(e) \/ Upsert(e) \/ Record(e) \/ Resolve(e) \/ Delete(e)
             \/ Forward(e) \/ Cancel(e)
      PROVE  Unaffected(o)
  <2>1. ev'[o] = ev[o] /\ Active(o) /\ Undisturbed(o)
    BY <1>6, <1>7, <1>c DEF Only, Active, Undisturbed
  <2>2. Active(e) => ev[e].rule # r
    BY <1>7, <2>1 DEF SoloInv
  <2>3. Upsert(e) \/ Delete(e) => SameRows(r)
    <3>1. ASSUME Upsert(e)
          PROVE  SameRows(r)
      <4> DEFINE key == <<ev[e].rule, Min(ev[e].todo)>>
      <4>1. /\ DOMAIN instances' = DOMAIN instances \cup {key}
            /\ \A l \in DOMAIN instances \ {key} : instances'[l] = instances[l]
        BY <3>1, Writes
      <4>2. \A fp \in Fp : <<r, fp>> # key
        BY <3>1, <2>2 DEF Upsert, Active
      <4> HIDE DEF key
      <4> QED
        BY <4>1, <4>2 DEF SameRows, SameRow
    <3>2. ASSUME Delete(e)
          PROVE  SameRows(r)
      <4> DEFINE key == <<ev[e].rule, ev[e].cur>>
      <4>1. /\ DOMAIN instances' = DOMAIN instances \ {key}
            /\ \A l \in DOMAIN instances' : instances'[l] = instances[l]
        BY <3>2, Removes
      <4>2. \A fp \in Fp : <<r, fp>> # key
        BY <3>2, <2>2 DEF Delete, Active
      <4> HIDE DEF key
      <4> QED
        BY <4>1, <4>2 DEF SameRows, SameRow
    <3> QED
      BY <3>1, <3>2
  <2> QED
    BY <1>6, <1>7, <2>1, <2>3, <1>s, <1>r DEF SameBut
<1>8. ASSUME Returns(o)
      PROVE  FALSE
  BY <1>8, ReturnIs, IdleIs DEF Returns, Active
<1>9. ASSUME Cancel(o)
      PROVE  Unaffected(o)
  BY <1>6, <1>9, CancelIs, <1>s, <1>r DEF Cancel, SameButCancel, storeVars
<1> QED
  BY <1>1, <1>2, <1>3, <1>4, <1>5, <1>7, <1>8, <1>9, Cases DEF Own

-----------------------------------------------------------------------------
(* What was read is still so, and the cap *)

SameLocals(v, w) ==
    /\ w.pc = v.pc /\ w.rule = v.rule /\ w.for = v.for /\ w.now = v.now
    /\ w.present = v.present /\ w.existing = v.existing /\ w.tracked = v.tracked
    /\ w.todo = v.todo /\ w.gone = v.gone /\ w.cur = v.cur /\ w.to = v.to
    /\ w.changes = v.changes

LEMMA UnaffectedIs ==
    ASSUME NEW o \in Eval, Unaffected(o)
    PROVE  SameLocals(ev[o], ev'[o])
BY DEF Unaffected, SameBut, SameButCancel, SameLocals

LEMMA SnapshotInit == Init => SnapshotInv
BY IdleIs DEF Init, SnapshotInv, Underway

LEMMA SnapshotNext ==
    ASSUME TypeInv, Control, IdsInv, SoloInv, SnapshotInv, [Next]_vars
    PROVE  SnapshotInv'
<1> SUFFICES ASSUME NEW o \in Eval, Underway(o)', Undisturbed(o)'
             PROVE  /\ \A fp \in ev'[o].todo \cup ev'[o].gone : Kept(o, fp)'
                    /\ ev'[o].tracked = Cardinality(Tracks(o)')
  BY DEF SnapshotInv
<1> DEFINE r == ev[o].rule
           keys == {fp \in Fp : <<r, fp>> \in DOMAIN instances}
           keys2 == {fp \in Fp : <<r, fp>> \in DOMAIN instances'}
<1>a. Active(o)'
  BY DEF Underway, Active
<1>t. ev[o] \in Evaluation(Rows) /\ ev[o].todo \subseteq Fp /\ ev[o].gone \subseteq Fp /\ ev[o].tracked \in Nat
  BY EvType DEF Evaluation
<1>u. Underway(o) /\ (calm' \/ ev[o].alone) =>
        /\ \A fp \in ev[o].todo \cup ev[o].gone : Kept(o, fp)
        /\ ev[o].tracked = Cardinality(Tracks(o))
  BY StaysDisturbed DEF SnapshotInv, Undisturbed
<1>k. Underway(o) => Tracks(o) = keys \cup DOMAIN ev[o].existing
  BY DEF Tracks, RowsOf
<1>l. ev'[o].rule = r => Tracks(o)' = keys2 \cup DOMAIN ev'[o].existing
  BY DEF Tracks, RowsOf
<1>1. CASE Unaffected(o)
  <2>1. SameLocals(ev[o], ev'[o]) /\ (ev'[o].alone => ev[o].alone) /\ SameRows(r)
    BY <1>1, UnaffectedIs DEF Unaffected
  <2>2. Underway(o) /\ (calm' \/ ev[o].alone)
    BY <2>1 DEF SameLocals, Underway, Undisturbed
  <2>3. keys2 = keys
    BY <2>1 DEF SameRows, SameRow
  <2>4. \A fp \in ev[o].todo \cup ev[o].gone : Kept(o, fp)'
    BY <1>t, <1>u, <2>1, <2>2 DEF Kept, SameLocals, SameRows, SameRow
  <2>5. Tracks(o)' = Tracks(o)
    BY <1>k, <1>l, <2>1, <2>2, <2>3 DEF SameLocals
  <2> QED
    BY <1>u, <2>1, <2>2, <2>4, <2>5 DEF SameLocals
<1>2. CASE List(o) /\ ~ev[o].canceled
  <2>1. /\ ev'[o].rule = r /\ ev'[o].existing = RowsOf(r)
        /\ ev'[o].tracked = Cardinality(DOMAIN RowsOf(r))
        /\ UNCHANGED instances
    BY <1>2, ListIs DEF Fixed, List, storeVars
  <2>2. r \in Rule
    BY <1>2 DEF List, Control, ControlOf
  <2>3. ev'[o].todo \cup ev'[o].gone \subseteq Fp
    BY EvNext DEF Evaluation
  <2>4. DOMAIN RowsOf(r) = keys /\ \A fp \in keys : RowsOf(r)[fp] = instances[<<r, fp>>]
    <3> HIDE DEF r
    <3> QED
      BY <2>2, RowsOfAre
  <2>5. \A fp \in ev'[o].todo \cup ev'[o].gone : Kept(o, fp)'
    BY <2>1, <2>3, <2>4 DEF Kept
  <2>6. Tracks(o)' = keys
    BY <1>l, <2>1, <2>4
  <2> QED
    BY <2>1, <2>4, <2>5, <2>6
<1>3. CASE Refuse(o) \/ Record(o) \/ Resolve(o) \/ Forward(o)
  <2>1. /\ Fixed(o) /\ ev'[o].existing = ev[o].existing /\ ev'[o].tracked = ev[o].tracked
        /\ ev'[o].todo \subseteq ev[o].todo /\ ev'[o].gone = ev[o].gone
    BY <1>3, RefuseIs, RecordIs, ResolveIs, ForwardIs
  <2>2. UNCHANGED instances /\ Underway(o)
    BY <1>3 DEF Refuse, Record, Resolve, Forward, Finished, storeVars, Underway
  <2>3. Underway(o) /\ (calm' \/ ev[o].alone)
    BY <2>1, <2>2 DEF Fixed, Undisturbed
  <2>4. \A fp \in ev[o].todo \cup ev[o].gone : Kept(o, fp)'
    BY <1>u, <2>1, <2>2, <2>3 DEF Kept, Fixed
  <2>5. Tracks(o)' = Tracks(o)
    BY <1>k, <1>l, <2>1, <2>2 DEF Fixed
  <2> QED
    BY <1>u, <2>1, <2>3, <2>4, <2>5
<1>4. CASE Upsert(o)
  <2> DEFINE fp == Min(ev[o].todo)
             new == fp \notin DOMAIN ev[o].existing
             key == <<r, fp>>
  <2>1. /\ Fixed(o) /\ ev'[o].existing = ev[o].existing
        /\ ev'[o].tracked = IF new THEN ev[o].tracked + 1 ELSE ev[o].tracked
        /\ ev'[o].todo = ev[o].todo \ {fp} /\ ev'[o].gone = ev[o].gone
    BY <1>4, UpsertIs
  <2>2. /\ fp \in ev[o].todo /\ fp \in Fp
        /\ DOMAIN instances' = DOMAIN instances \cup {key}
        /\ \A l \in DOMAIN instances \ {key} : instances'[l] = instances[l]
    BY <1>4, Writes
  <2>3. Underway(o) /\ (calm' \/ ev[o].alone) /\ fp \notin ev[o].gone
    BY <1>4, <2>1, <2>2 DEF Upsert, Underway, Fixed, Undisturbed, Control, ControlOf
  <2> HIDE DEF fp
  <2>4. \A q \in (ev[o].todo \ {fp}) \cup ev[o].gone : Kept(o, q)'
    BY <1>u, <2>1, <2>2, <2>3 DEF Kept, Fixed
  <2>5. keys2 = keys \cup {fp}
    BY <2>2
  <2>6. Tracks(o)' = Tracks(o) \cup {fp}
    BY <1>k, <1>l, <2>1, <2>3, <2>5 DEF Fixed
  <2>7. fp \in Tracks(o) <=> ~new
    BY <1>k, <1>u, <2>2, <2>3 DEF Kept
  <2>8. IsFiniteSet(Tracks(o))
    BY <1>k, <2>3, ReadRows, FpAssumption, FS_Subset, FS_Union
  <2>9. Cardinality(Tracks(o)') = IF new THEN Cardinality(Tracks(o)) + 1 ELSE Cardinality(Tracks(o))
    BY <2>6, <2>7, <2>8, FS_AddElement
  <2> QED
    BY <1>u, <2>1, <2>3, <2>4, <2>9
<1>5. CASE Delete(o)
  <2> DEFINE fp == ev[o].cur
             key == <<r, fp>>
  <2>1. /\ Fixed(o) /\ ev'[o].existing = ev[o].existing /\ ev'[o].tracked = ev[o].tracked
        /\ ev'[o].todo = ev[o].todo /\ ev'[o].gone = ev[o].gone \ {fp}
    BY <1>5, DeleteIs
  <2>2. /\ fp \in Fp /\ fp \in DOMAIN ev[o].existing
        /\ DOMAIN instances' = DOMAIN instances \ {key}
        /\ \A l \in DOMAIN instances' : instances'[l] = instances[l]
    BY <1>5, Removes
  <2>3. Underway(o) /\ (calm' \/ ev[o].alone) /\ ev[o].todo = {}
    BY <1>5, <2>1 DEF Delete, Underway, Fixed, Undisturbed, Control, ControlOf
  <2> HIDE DEF fp
  <2>4. ASSUME NEW q \in ev[o].gone \ {fp}
        PROVE  Kept(o, q)'
    <3>1. Kept(o, q) /\ <<r, q>> # key
      BY <1>u, <2>3
    <3> HIDE DEF key
    <3>2. /\ <<r, q>> \in DOMAIN instances' <=> <<r, q>> \in DOMAIN instances
          /\ <<r, q>> \in DOMAIN instances => instances'[<<r, q>>] = instances[<<r, q>>]
      BY <2>2, <3>1
    <3>3. ev'[o].rule = r /\ ev'[o].existing = ev[o].existing
      BY <2>1 DEF Fixed
    <3> QED
      BY <3>1, <3>2, <3>3 DEF Kept
  <2>5. keys2 = keys \ {fp}
    BY <2>2
  <2>6. Tracks(o)' = Tracks(o)
    <3>1. /\ Tracks(o) = keys \cup DOMAIN ev[o].existing
          /\ Tracks(o)' = keys2 \cup DOMAIN ev[o].existing
      BY <1>k, <1>l, <2>1, <2>3 DEF Fixed
    <3> HIDE DEF keys, keys2
    <3> QED
      BY <2>2, <2>5, <3>1
  <2> QED
    BY <1>u, <2>1, <2>3, <2>4, <2>6
<1>6. ~QueryOK(o) /\ \A q \in Rule : ~Begin(o, q)
  BY QueryOKIs, BeginIs DEF Underway
<1> QED
  BY <1>1, <1>2, <1>3, <1>4, <1>5, <1>6, <1>a, Frame DEF Own

LEMMA CapNext ==
    ASSUME TypeInv, Control, IdsInv, SoloInv, SnapshotInv, CapRespected, [Next]_vars
    PROVE  CapRespected'
<1> SUFFICES ASSUME calm', NEW r \in Rule
             PROVE  Cardinality(DOMAIN RowsOf(r)') <= MaxInstances
  BY DEF CapRespected
<1> DEFINE keys == {fp \in Fp : <<r, fp>> \in DOMAIN instances}
           keys2 == {fp \in Fp : <<r, fp>> \in DOMAIN instances'}
<1>c. calm
  BY StaysDisturbed
<1>k. DOMAIN RowsOf(r) = keys /\ DOMAIN RowsOf(r)' = keys2
  BY DEF RowsOf
<1>m. IsFiniteSet(keys) /\ IsFiniteSet(keys2) /\ Cardinality(keys) <= MaxInstances
      /\ Cardinality(keys) \in Nat /\ Cardinality(keys2) \in Nat
  BY <1>c, <1>k, FpAssumption, FS_Subset, FS_CardinalityType DEF CapRespected
<1> HIDE DEF keys, keys2
<1>1. CASE keys2 \subseteq keys
  <2>1. Cardinality(keys2) <= Cardinality(keys)
    BY <1>1, <1>m, FS_Subset
  <2> QED
    BY <2>1, <1>k, <1>m, CapAssumption
<1>2. ASSUME NEW e \in Eval, Upsert(e)
      PROVE  Cardinality(keys2) <= MaxInstances
  <2> DEFINE fp == Min(ev[e].todo)
             key == <<ev[e].rule, fp>>
  <2>1. /\ fp \in ev[e].todo /\ fp \in Fp
        /\ DOMAIN instances' = DOMAIN instances \cup {key}
    BY <1>2, Writes
  <2>2. Underway(e) /\ Undisturbed(e)
    BY <1>2, <1>c DEF Upsert, Underway, Undisturbed
  <2>3. Kept(e, fp) /\ ev[e].tracked = Cardinality(Tracks(e))
    BY <2>1, <2>2 DEF SnapshotInv
  <2>4. fp \notin DOMAIN ev[e].existing => ev[e].tracked < MaxInstances
    BY <1>2 DEF Upsert
  <2> HIDE DEF fp
  <2>5. CASE ev[e].rule # r \/ key \in DOMAIN instances
    <3>1. keys2 \subseteq keys
      BY <2>1, <2>5 DEF keys, keys2
    <3> QED
      BY <3>1, <1>1, <1>k
  <2>6. CASE ev[e].rule = r /\ key \notin DOMAIN instances
    <3>1. keys2 = keys \cup {fp} /\ fp \notin keys
      BY <2>1, <2>6 DEF keys, keys2
    <3>2. Tracks(e) = keys \cup DOMAIN ev[e].existing
      BY <2>6 DEF Tracks, RowsOf, keys
    <3>3. IsFiniteSet(Tracks(e)) /\ keys \subseteq Tracks(e)
      BY <3>2, <1>m, ReadRows, FpAssumption, FS_Subset, FS_Union
    <3>4. Cardinality(keys) <= ev[e].tracked /\ ev[e].tracked \in Nat
      BY <2>3, <3>3, FS_Subset, FS_CardinalityType
    <3>5. ev[e].tracked < MaxInstances
      BY <2>3, <2>4, <2>6 DEF Kept
    <3>6. Cardinality(keys2) = Cardinality(keys) + 1
      BY <3>1, <1>m, FS_AddElement
    <3> QED
      BY <3>4, <3>5, <3>6, <1>m, CapAssumption
  <2> QED
    BY <2>5, <2>6
<1>3. ASSUME DOMAIN instances' \subseteq DOMAIN instances
      PROVE  keys2 \subseteq keys
  BY <1>3 DEF keys, keys2
<1>4. ASSUME NEW e \in Eval,
             Returns(e) \/ QueryOK(e) \/ (List(e) /\ ~ev[e].canceled) \/ Refuse(e)
             \/ Record(e) \/ Resolve(e) \/ Delete(e)
             \/ Forward(e) \/ Cancel(e) \/ \E q \in Rule : Begin(e, q)
      PROVE  DOMAIN instances' \subseteq DOMAIN instances
  BY <1>4 DEF Returns, QueryOK, List, Refuse, Record, Resolve, Delete, Forward, Cancel, Begin,
     storeVars
<1>5. Quiet \/ Crash \/ (\E k \in Key : Flip(k))
      \/ (\E h \in Handler, q \in Rule : DeleteInstances(h, q))
        => DOMAIN instances' \subseteq DOMAIN instances
  BY DEF Quiet, Crash, Flip, DeleteInstances, storeVars
<1> QED
  BY <1>1, <1>2, <1>3, <1>4, <1>5, <1>k, Cases

-----------------------------------------------------------------------------
(* The repair *)

LEMMA RepairInit == Init => RepairInv
BY IdleIs DEF Init, RepairInv

LEMMA RepairNext ==
    ASSUME TypeInv, Control, IdsInv, SoloInv, SnapshotInv, RepairInv, [Next]_vars
    PROVE  RepairInv'
<1> DEFINE Goal(o) ==
             LET s == ev'[o].rule
                 result == {fp \in Fp : <<s, fp>> \in cond'}
                 keys == {fp \in Fp : <<s, fp>> \in DOMAIN instances'}
             IN  /\ ev'[o].pc = "list" => ev'[o].present = result
                 /\ Underway(o)' =>
                      /\ ev'[o].todo \subseteq result /\ ev'[o].gone \cap result = {}
                      /\ keys \subseteq result \cup ev'[o].gone
                      /\ \A fp \in result \ ev'[o].todo :
                           fp \in keys \/ ev'[o].tracked >= MaxInstances
                      /\ \A fp \in keys \ (ev'[o].todo \cup ev'[o].gone) : Due(o, fp)'
<1>g. SUFFICES ASSUME NEW o \in Eval, ev'[o].alone
               PROVE  Goal(o)
  BY DEF RepairInv, Result, RowsOf
<1> DEFINE r == ev[o].rule
           result == {fp \in Fp : <<r, fp>> \in cond}
           keys == {fp \in Fp : <<r, fp>> \in DOMAIN instances}
<1>a. CASE ~Active(o)'
  BY <1>a DEF Active, Underway
<1>b. CASE Active(o)'
  <2>t. ev[o].tracked \in Nat /\ ev[o].todo \subseteq Fp /\ ev[o].gone \subseteq Fp
    BY EvType DEF Evaluation
  <2>i. ev[o].alone =>
          /\ ev[o].pc = "list" => ev[o].present = result
          /\ Underway(o) =>
               /\ ev[o].todo \subseteq result /\ ev[o].gone \cap result = {}
               /\ keys \subseteq result \cup ev[o].gone
               /\ \A fp \in result \ ev[o].todo :
                    fp \in keys \/ ev[o].tracked >= MaxInstances
               /\ \A fp \in keys \ (ev[o].todo \cup ev[o].gone) : Due(o, fp)
    BY DEF RepairInv, Result, RowsOf
  <2>s. Underway(o) /\ ev[o].alone => \A fp \in ev[o].todo \cup ev[o].gone : Kept(o, fp)
    BY DEF SnapshotInv, Undisturbed
  <2>1. CASE Unaffected(o)
    <3>1. SameLocals(ev[o], ev'[o]) /\ ev[o].alone /\ SameRows(r) /\ SameCond(r)
      BY <1>g, <2>1, UnaffectedIs DEF Unaffected
    <3>2. /\ {fp \in Fp : <<r, fp>> \in cond'} = result
          /\ {fp \in Fp : <<r, fp>> \in DOMAIN instances'} = keys
      BY <3>1 DEF SameRows, SameRow, SameCond
    <3>3. ASSUME NEW fp \in keys, Due(o, fp)
          PROVE  Due(o, fp)'
      BY <3>1, <3>3 DEF Due, SameRows, SameRow, SameLocals
    <3>4. Underway(o)' => Underway(o)
      BY <3>1 DEF SameLocals, Underway
    <3> HIDE DEF keys, result
    <3> QED
      BY <2>i, <3>1, <3>2, <3>3, <3>4 DEF SameLocals
  <2>2. CASE QueryOK(o)
    <3>1. /\ ev'[o].rule = r /\ ev'[o].pc = "list" /\ ev'[o].present = result /\ UNCHANGED cond
      BY <2>2, QueryOKIs DEF Fixed, Result, QueryOK, envVars
    <3> QED
      BY <3>1 DEF Underway
  <2>3. CASE List(o) /\ ~ev[o].canceled
    <3>1. /\ ev'[o].rule = r /\ ev'[o].pc = "eval" /\ ev[o].alone
          /\ ev'[o].todo = ev[o].present /\ ev'[o].gone = keys \ ev[o].present
      BY <1>g, <2>3, ListIs DEF Fixed, RowsOf
    <3>2. ev[o].present = result /\ UNCHANGED <<cond, instances>>
      BY <2>3, <2>i, <3>1 DEF List, envVars, storeVars
    <3> QED
      BY <3>1, <3>2
  <2>4. CASE Refuse(o)
    <3> DEFINE fp == Min(ev[o].todo)
    <3>1. /\ Fixed(o) /\ ev'[o].tracked = ev[o].tracked /\ ev'[o].pc = ev[o].pc
          /\ ev'[o].todo = ev[o].todo \ {fp} /\ ev'[o].gone = ev[o].gone
      BY <2>4, RefuseIs
    <3>2. /\ UNCHANGED <<cond, instances>> /\ ev[o].pc = "eval"
          /\ ev[o].tracked >= MaxInstances /\ fp \notin DOMAIN ev[o].existing
      BY <2>4 DEF Refuse, envVars, storeVars
    <3>3. fp \in ev[o].todo
      BY <2>4, NextOf DEF Refuse
    <3>4. ev[o].alone /\ Underway(o)
      BY <1>g, <3>1, <3>2 DEF Fixed, Underway
    <3> HIDE DEF fp
    <3>5. fp \notin keys
      BY <2>s, <3>2, <3>3, <3>4 DEF Kept
    <3>6. \A q \in keys : Due(o, q) => Due(o, q)'
      BY <3>1, <3>2 DEF Due, Fixed
    <3>7. /\ ev'[o].rule = r
          /\ {q \in Fp : <<r, q>> \in cond'} = result
          /\ {q \in Fp : <<r, q>> \in DOMAIN instances'} = keys
      BY <3>1, <3>2 DEF Fixed
    <3> HIDE DEF keys, result
    <3> QED
      BY <2>i, <3>1, <3>2, <3>4, <3>5, <3>6, <3>7
  <2>5. CASE Upsert(o)
    <3> DEFINE fp == Min(ev[o].todo)
               key == <<r, fp>>
    <3>1. /\ Fixed(o) /\ ev'[o].tracked \in {ev[o].tracked, ev[o].tracked + 1}
          /\ ev'[o].pc # "list"
          /\ ev'[o].todo = ev[o].todo \ {fp} /\ ev'[o].gone = ev[o].gone
      BY <2>5, UpsertIs
    <3>2. /\ fp \in ev[o].todo /\ fp \in Fp
          /\ DOMAIN instances' = DOMAIN instances \cup {key}
          /\ \A l \in DOMAIN instances \ {key} : instances'[l] = instances[l]
          /\ instances'[key].state = Advanced(o, fp).state
          /\ instances'[key].activeAt = Advanced(o, fp).activeAt
      BY <2>5, Writes
    <3>3. UNCHANGED cond /\ Underway(o) /\ ev[o].alone
      BY <1>g, <2>5, <3>1 DEF Upsert, envVars, Underway, Fixed
    <3>4. ev[o].now - Advanced(o, fp).activeAt >= ev[o].for => Advanced(o, fp).state = "firing"
      BY <3>2, AdvancedIs
    <3>5. ASSUME NEW q, q = fp
          PROVE  Due(o, q)'
      BY <3>1, <3>2, <3>4, <3>5 DEF Due, Fixed
    <3> HIDE DEF fp
    <3>6. \A q \in keys \ {fp} : Due(o, q) => Due(o, q)'
      BY <3>1, <3>2 DEF Due, Fixed
    <3>7. /\ ev'[o].rule = r
          /\ {q \in Fp : <<r, q>> \in cond'} = result
          /\ {q \in Fp : <<r, q>> \in DOMAIN instances'} = keys \cup {fp}
      BY <3>1, <3>2, <3>3 DEF Fixed
    <3>8. ev[o].tracked >= MaxInstances => ev'[o].tracked >= MaxInstances
      BY <2>t, <3>1, CapAssumption
    <3> HIDE DEF keys, result
    <3> QED
      BY <2>i, <3>1, <3>2, <3>3, <3>5, <3>6, <3>7, <3>8
  <2>6. CASE Record(o) \/ Resolve(o) \/ Forward(o)
    <3>1. /\ Fixed(o) /\ ev'[o].tracked = ev[o].tracked
          /\ ev'[o].todo = ev[o].todo /\ ev'[o].gone = ev[o].gone
      BY <2>6, RecordIs, ResolveIs, ForwardIs
    <3>2. UNCHANGED <<cond, instances>> /\ Underway(o) /\ ev'[o].pc # "list"
      BY <2>6, RecordIs, ResolveIs, ForwardIs
      DEF Record, Resolve, Forward, Finished, envVars, storeVars, Underway
    <3>3. ev[o].alone
      BY <1>g, <3>1 DEF Fixed
    <3>4. \A q \in keys : Due(o, q) => Due(o, q)'
      BY <3>1, <3>2 DEF Due, Fixed
    <3>5. /\ ev'[o].rule = r
          /\ {q \in Fp : <<r, q>> \in cond'} = result
          /\ {q \in Fp : <<r, q>> \in DOMAIN instances'} = keys
      BY <3>1, <3>2 DEF Fixed
    <3> HIDE DEF keys, result
    <3> QED
      BY <2>i, <3>1, <3>2, <3>3, <3>4, <3>5
  <2>7. CASE Delete(o)
    <3> DEFINE fp == ev[o].cur
               key == <<r, fp>>
    <3>1. /\ Fixed(o) /\ ev'[o].tracked = ev[o].tracked /\ ev'[o].pc = "eval"
          /\ ev'[o].todo = ev[o].todo /\ ev'[o].gone = ev[o].gone \ {fp}
      BY <2>7, DeleteIs
    <3>2. /\ DOMAIN instances' = DOMAIN instances \ {key}
          /\ \A l \in DOMAIN instances' : instances'[l] = instances[l]
      BY <2>7, Removes
    <3>3. UNCHANGED cond /\ Underway(o) /\ ev[o].alone /\ fp \in ev[o].gone
      BY <1>g, <2>7, <3>1 DEF Delete, envVars, Underway, Fixed, Control, ControlOf
    <3> HIDE DEF fp
    <3>4. \A q \in keys \ {fp} : Due(o, q) => Due(o, q)'
      BY <3>1, <3>2 DEF Due, Fixed
    <3>5. /\ ev'[o].rule = r
          /\ {q \in Fp : <<r, q>> \in cond'} = result
          /\ {q \in Fp : <<r, q>> \in DOMAIN instances'} = keys \ {fp}
      BY <3>1, <3>2, <3>3 DEF Fixed
    <3> HIDE DEF keys, result
    <3> QED
      BY <2>i, <3>1, <3>3, <3>4, <3>5
  <2>8. ASSUME NEW q \in Rule, Begin(o, q)
        PROVE  Goal(o)
    BY <2>8, BeginIs DEF Underway
  <2> QED
    BY <1>b, <1>g, <2>1, <2>2, <2>3, <2>4, <2>5, <2>6, <2>7, <2>8, Frame DEF Own, Undisturbed
<1> QED
  BY <1>a, <1>b

LEMMA RepairShows == Control /\ SnapshotInv /\ RepairInv => Repairs
<1> SUFFICES ASSUME Control, SnapshotInv, RepairInv, NEW e \in Eval, Finished(e), ev[e].alone
             PROVE  LET rows == RowsOf(ev[e].rule)
                        result == Result(ev[e].rule)
                    IN  /\ DOMAIN rows \subseteq result
                        /\ \/ DOMAIN rows = result
                           \/ Cardinality(DOMAIN rows \cup DOMAIN ev[e].existing) >= MaxInstances
                        /\ \A fp \in DOMAIN rows :
                             ev[e].now - rows[fp].activeAt >= ev[e].for => rows[fp].state = "firing"
  BY DEF Repairs
<1> DEFINE keys == DOMAIN RowsOf(ev[e].rule)
<1>1. Underway(e) /\ ev[e].todo = {} /\ ev[e].gone = {}
  BY DEF Finished, Underway
<1>2. /\ keys \subseteq Result(ev[e].rule)
      /\ \A fp \in Result(ev[e].rule) : fp \in keys \/ ev[e].tracked >= MaxInstances
      /\ \A fp \in keys : Due(e, fp)
  BY <1>1 DEF RepairInv
<1>3. ev[e].tracked = Cardinality(keys \cup DOMAIN ev[e].existing)
  BY <1>1 DEF SnapshotInv, Undisturbed, Tracks
<1>4. \A fp \in keys : RowsOf(ev[e].rule)[fp] = instances[<<ev[e].rule, fp>>]
  BY DEF RowsOf
<1> QED
  BY <1>2, <1>3, <1>4 DEF Due

-----------------------------------------------------------------------------
(* Calm steps *)

\* As long as it is calm, a rule is evaluated by one evaluation at a time.
LEMMA Exclusive ==
    ASSUME SoloInv, calm, NEW e \in Eval, NEW o \in Eval, o # e, Active(e), Active(o)
    PROVE  ev[o].rule # ev[e].rule
BY DEF SoloInv, Undisturbed

\* Then an evaluation returns before it has read the table, or when it is finished.
LEMMA CalmReturn ==
    ASSUME TypeInv, Control, SoloInv, SnapshotInv, calm, NEW e \in Eval, Returns(e)
    PROVE  ~Underway(e) \/ (Finished(e) /\ ev[e].changes = <<>>)
<1>1. ASSUME StoreFails(e)
      PROVE  FALSE
  <2>1. Underway(e) /\ Undisturbed(e)
    BY <1>1 DEF StoreFails, Underway, Undisturbed
  <2>2. ~ev[e].canceled
    BY <2>1 DEF SoloInv
  <2>3. ev[e].pc = "delete" /\ RowsWithId(ev[e].existing[ev[e].cur].id) = {}
    BY <1>1, <2>2 DEF StoreFails
  <2> DEFINE key == <<ev[e].rule, ev[e].cur>>
  <2>4. ev[e].cur \in ev[e].gone /\ ev[e].cur \in DOMAIN ev[e].existing
    BY <2>3 DEF Control, ControlOf
  <2>5. key \in DOMAIN instances /\ instances[key] = ev[e].existing[ev[e].cur]
    BY <2>1, <2>4 DEF SnapshotInv, Kept
  <2> QED
    BY <2>3, <2>5 DEF RowsWithId
<1> QED
  BY <1>1 DEF Returns, Finish

Pausing(v) == v.pc \notin {"record", "delete"} /\ v.changes = <<>> /\ v.gone = {}

SameWork(v, w) ==
    /\ w.pc = v.pc /\ w.rule = v.rule /\ w.existing = v.existing
    /\ w.gone = v.gone /\ w.cur = v.cur /\ w.to = v.to /\ w.changes = v.changes
    /\ w.todo \subseteq v.todo

\* Nothing is written, recorded or forwarded, and what is under way stays.
Still ==
    /\ UNCHANGED <<instances, last, gaps, notified>>
    /\ \A o \in Eval :
         \/ SameWork(ev[o], ev'[o])
         \/ Pausing(ev[o]) /\ ev'[o].pc \notin {"record", "delete"} /\ ev'[o].changes = <<>>

LEMMA CalmSteps ==
    ASSUME TypeInv, Control, SoloInv, SnapshotInv, [Next]_vars, calm'
    PROVE  \/ Still
           \/ \E e \in Eval : Upsert(e) \/ Record(e) \/ Resolve(e) \/ Delete(e) \/ Forward(e)
<1>c. calm
  BY StaysDisturbed
<1>d. ASSUME NEW b, Disturb(b)
      PROVE  ~b /\ UNCHANGED feedVars
  BY <1>c, <1>d DEF Disturb
<1>1. CASE Quiet
  BY <1>1 DEF Quiet, feedVars, Still, SameWork
<1>2. ASSUME NEW k \in Key, Flip(k)
      PROVE  Still
  BY <1>2, OvertakenIs DEF Flip, Still, SameWork, SameBut, storeVars
<1>p. \A o \in Eval : ~Underway(o) => Pausing(ev[o])
  BY DEF Control, ControlOf, Underway, Pausing
<1>3. CASE Crash
  BY <1>3, <1>d, <1>p, IdleIs DEF Crash, Still, feedVars, storeVars
<1>4. ASSUME NEW h \in Handler, NEW r \in Rule, DeleteInstances(h, r)
      PROVE  FALSE
  BY <1>4, <1>d DEF DeleteInstances
<1>5. ASSUME NEW e \in Eval, Returns(e)
      PROVE  Still
  <2>1. Pausing(ev[e])
    BY <1>5, <1>c, <1>p, CalmReturn DEF Finished, Pausing
  <2>2. ev'[e] = IdleEval /\ Only(e)
    BY <1>5, ReturnIs DEF Returns
  <2> QED
    BY <1>5, <2>1, <2>2, IdleIs DEF Returns, Still, SameWork, Only, feedVars, storeVars
<1>6. ASSUME NEW e \in Eval, QueryOK(e)
      PROVE  Still
  <2>1. /\ Only(e) /\ ev'[e].pc = "list" /\ ev'[e].changes = ev[e].changes
        /\ UNCHANGED <<instances, last, gaps, notified>>
    BY <1>6, QueryOKIs DEF QueryOK, storeVars
  <2>2. Pausing(ev[e])
    BY <1>6, <1>p DEF QueryOK, Underway
  <2> QED
    BY <2>1, <2>2 DEF Still, SameWork, Only, Pausing
<1>7. ASSUME NEW e \in Eval, List(e), ~ev[e].canceled
      PROVE  Still
  <2>1. /\ Only(e) /\ ev'[e].pc = "eval" /\ ev'[e].changes = ev[e].changes
        /\ UNCHANGED <<instances, last, gaps, notified>>
    BY <1>7, ListIs DEF List, storeVars, feedVars
  <2>2. Pausing(ev[e])
    BY <1>7, <1>p DEF List, Underway
  <2> QED
    BY <2>1, <2>2 DEF Still, SameWork, Only, Pausing
<1>8. ASSUME NEW e \in Eval, Refuse(e)
      PROVE  Still
  <2>1. /\ Only(e) /\ Fixed(e)
        /\ ev'[e].todo = ev[e].todo \ {Min(ev[e].todo)}
        /\ ev'[e].pc = ev[e].pc /\ ev'[e].existing = ev[e].existing
        /\ ev'[e].gone = ev[e].gone
        /\ ev'[e].cur = ev[e].cur /\ ev'[e].to = ev[e].to /\ ev'[e].changes = ev[e].changes
    BY <1>8, RefuseIs
  <2>2. UNCHANGED <<instances, last, gaps, notified>>
    BY <1>8 DEF Refuse, storeVars, feedVars
  <2> QED
    BY <2>1, <2>2 DEF Still, SameWork, Only, Fixed
<1>9. ASSUME NEW e \in Eval, Cancel(e)
      PROVE  Still
  <2>1. Only(e) /\ SameButCancel(ev[e], ev'[e])
    BY <1>9, CancelIs
  <2>2. UNCHANGED <<instances, last, gaps, notified>>
    BY <1>9, <1>d DEF Cancel, storeVars, feedVars
  <2> QED
    BY <2>1, <2>2 DEF Still, SameWork, Only, SameButCancel
<1>10. ASSUME NEW e \in Eval, NEW r \in Rule, Begin(e, r)
       PROVE  Still
  <2>1. /\ ev'[e].pc = "query" /\ ev'[e].changes = <<>>
        /\ \A o \in Eval \ {e} : SameBut(ev[o], ev'[o])
    BY <1>10, BeginIs
  <2>2. UNCHANGED <<instances, last, gaps, notified>>
    BY <1>10, <1>d DEF Begin, storeVars, feedVars
  <2>3. Pausing(ev[e])
    BY <1>10, <1>p DEF Begin, Active, Underway
  <2> QED
    BY <2>1, <2>2, <2>3 DEF Still, SameWork, SameBut
<1> QED
  BY <1>1, <1>2, <1>3, <1>4, <1>5, <1>6, <1>7, <1>8, <1>9, <1>10, Cases

-----------------------------------------------------------------------------
(* The history of a calm store *)

LEMMA HistoryInit == Init => HistoryInv
<1> SUFFICES ASSUME Init
             PROVE  HistoryInv
  OBVIOUS
<1>1. \A k \in Key : Was(last[k]) = "ok" /\ StateOf(k) = "ok"
  BY DEF Init, NoEntries, Was, StateOf
<1>2. \A e \in Eval : ev[e].pc = "idle"
  BY IdleIs DEF Init
<1> QED
  BY <1>1, <1>2 DEF Init, HistoryInv, Halfway

\* What an evaluation reads of a series that it has not come to is what the table says.
LEMMA ReadIs ==
    ASSUME SnapshotInv, calm, NEW e \in Eval, Underway(e), NEW fp \in ev[e].todo \cup ev[e].gone
    PROVE  StateRead(e, fp) = StateOf(<<ev[e].rule, fp>>)
BY DEF SnapshotInv, Undisturbed, Kept, StateRead, StateOf

LEMMA OfState ==
    ASSUME TypeInv, NEW k \in Key
    PROVE  StateOf(k) \in State \cup {"ok"}
BY DEF TypeInv, StateOf, Row

\* An entry is appended to the history of a series.
Entry(e, fp, new) ==
    /\ UNCHANGED gaps
    /\ last'[<<ev[e].rule, fp>>] = new
    /\ \A k \in Key : k # <<ev[e].rule, fp>> => last'[k] = last[k]

LEMMA Entered ==
    ASSUME TypeInv, SoloInv, calm, NEW e \in Eval, Underway(e),
           NEW fp, <<ev[e].rule, fp>> \in Key, NEW prev, NEW new,
           AppendHistory(e, fp, prev, new), Was(last[<<ev[e].rule, fp>>]) = prev
    PROVE  Entry(e, fp, new)
<1> DEFINE key == <<ev[e].rule, fp>>
<1>1. ~ev[e].canceled
  BY DEF SoloInv
<1>2. last' = [last EXCEPT ![key] = new] /\ gaps' = gaps
  BY <1>1 DEF AppendHistory, Was
<1> HIDE DEF key
<1>3. key \in Key
  BY DEF key
<1>4. last'[key] = new /\ \A k \in Key : k # key => last'[k] = last[k]
  BY <1>2, <1>3 DEF TypeInv
<1> QED
  BY <1>2, <1>4 DEF key, Entry

LEMMA HistoryNext ==
    ASSUME TypeInv, Control, IdsInv, SoloInv, SnapshotInv, HistoryInv, [Next]_vars
    PROVE  HistoryInv'
<1> SUFFICES ASSUME calm'
             PROVE  /\ gaps' = {}
                    /\ \A k \in Key : ~Between(k)' => Was(last'[k]) = StateOf(k)'
                    /\ \A o \in Eval : Halfway(o)'
  BY DEF HistoryInv
<1>c. calm
  BY StaysDisturbed
<1>h. /\ gaps = {}
      /\ \A k \in Key : ~Between(k) => Was(last[k]) = StateOf(k)
      /\ \A o \in Eval : Halfway(o)
  BY <1>c DEF HistoryInv
<1> DEFINE Goal ==
             /\ gaps' = {}
             /\ \A k \in Key : ~Between(k)' => Was(last'[k]) = StateOf(k)'
             /\ \A o \in Eval : Halfway(o)'
<1>1. CASE Still
  <2>1. \A k \in Key : Between(k)' <=> Between(k)
    BY <1>1 DEF Still, SameWork, Pausing, Between, At
  <2>2. \A k \in Key : StateOf(k)' = StateOf(k)
    BY <1>1 DEF Still, StateOf
  <2>3. ASSUME NEW o \in Eval
        PROVE  Halfway(o)'
    <3>1. CASE SameWork(ev[o], ev'[o])
      BY <1>1, <1>h, <3>1 DEF SameWork, Halfway, Still, StateOf, StateRead, Was
    <3>2. CASE ev'[o].pc \notin {"record", "delete"}
      BY <3>2 DEF Halfway
    <3> QED
      BY <1>1, <3>1, <3>2 DEF Still
  <2> QED
    BY <1>1, <1>h, <2>1, <2>2, <2>3 DEF Still
<1>o. ASSUME NEW e \in Eval, Underway(e), Only(e), NEW key \in Key, key[1] = ev[e].rule,
             \A k \in Key : k # key => last'[k] = last[k] /\ StateOf(k)' = StateOf(k)
      PROVE  \A o \in Eval \ {e} : Halfway(o)'
  <2> SUFFICES ASSUME NEW o \in Eval \ {e}, ev[o].pc \in {"record", "delete"}
               PROVE  Halfway(o)'
    BY <1>o DEF Only, Halfway
  <2>1. ev'[o] = ev[o] /\ ev[o].rule # ev[e].rule
    BY <1>o, <1>c, Exclusive DEF Only, Underway, Active
  <2> DEFINE k == <<ev[o].rule, ev[o].cur>>
  <2>2. ev[o].rule \in Rule /\ ev[o].cur \in Fp /\ k \in Key /\ k # key
    BY <1>o, <2>1, ReadRows DEF Control, ControlOf, Key
  <2>3. last'[k] = last[k] /\ StateOf(k)' = (IF k \in DOMAIN instances THEN instances[k].state ELSE "ok")
    BY <1>o, <2>1, <2>2 DEF StateOf
  <2>4. Halfway(o)
    BY <1>h
  <2> QED
    BY <2>1, <2>3, <2>4 DEF Halfway, StateOf, StateRead, Was
<1>2. ASSUME NEW e \in Eval, Upsert(e)
      PROVE  Goal
  <2> DEFINE fp == Min(ev[e].todo)
             key == <<ev[e].rule, fp>>
             row == Advanced(e, fp)
             changed == row.state # StateRead(e, fp)
  <2>1. /\ Only(e) /\ Fixed(e) /\ ev'[e].existing = ev[e].existing
        /\ ev'[e].pc = IF changed THEN "record" ELSE "eval"
        /\ changed => ev'[e].cur = fp /\ ev'[e].to = row.state
    BY <1>2, UpsertIs
  <2>2. /\ fp \in ev[e].todo /\ fp \in Fp /\ key \in Key
        /\ DOMAIN instances' = DOMAIN instances \cup {key}
        /\ \A l \in DOMAIN instances \ {key} : instances'[l] = instances[l]
        /\ instances'[key].state = row.state
    BY <1>2, Writes
  <2>3. UNCHANGED <<last, gaps>> /\ ev[e].pc = "eval" /\ Underway(e)
    BY <1>2 DEF Upsert, feedVars, Underway
  <2>4. row.state = "pending" => StateRead(e, fp) \in {"ok", "pending"}
    BY <2>2, AdvancedIs
  <2>5. StateRead(e, fp) = StateOf(key)
    BY <1>c, <2>2, <2>3, ReadIs
  <2>6. key[1] = ev[e].rule
    OBVIOUS
  <2>7. ~Between(key)
    BY <2>3, <1>c, Exclusive DEF Between, At, Underway, Active
  <2> HIDE DEF fp, key, row
  <2>8. \A k \in Key : k # key => StateOf(k)' = StateOf(k)
    BY <2>2 DEF StateOf
  <2>9. instances'[key].state = row.state /\ key \in DOMAIN instances'
    BY <2>2
  <2>10. \A o \in Eval \ {e} : Halfway(o)'
    BY <1>o, <2>1, <2>2, <2>3, <2>6, <2>8
  <2>11. Was(last'[key]) = StateRead(e, fp)
    BY <1>h, <2>2, <2>3, <2>5, <2>7 DEF Was
  <2>12. Halfway(e)'
    BY <2>1, <2>3, <2>4, <2>9, <2>11 DEF Halfway, StateRead, StateOf, Fixed, key, Was
  <2>13. ASSUME NEW k \in Key, ~Between(k)'
         PROVE  Was(last'[k]) = StateOf(k)'
    <3>1. CASE k = key
      <4>1. ~changed
        BY <2>1, <2>13, <3>1 DEF Between, At, Fixed, key
      <4> QED
        BY <2>9, <2>11, <3>1, <4>1 DEF StateOf
    <3>2. CASE k # key
      <4>1. ~Between(k)
        BY <2>1, <2>3, <2>13 DEF Between, At, Only
      <4> QED
        BY <1>h, <2>3, <2>8, <3>2, <4>1
    <3> QED
      BY <3>1, <3>2
  <2> QED
    BY <1>h, <2>3, <2>10, <2>12, <2>13
<1>3. ASSUME NEW e \in Eval, Record(e)
      PROVE  Goal
  <2> DEFINE fp == ev[e].cur
             key == <<ev[e].rule, fp>>
  <2>1. Only(e) /\ Fixed(e) /\ ev'[e].pc = "eval"
    BY <1>3, RecordIs
  <2>2. /\ fp \in Fp /\ key \in Key /\ key[1] = ev[e].rule /\ ev[e].pc = "record"
        /\ ev[e].to \in State /\ Underway(e) /\ UNCHANGED instances
    BY <1>3 DEF Record, Control, ControlOf, Key, Underway
  <2>3. Was(last[key]) = StateRead(e, fp) /\ StateOf(key) = ev[e].to
    BY <1>h, <2>2 DEF Halfway
  <2>4. AppendHistory(e, fp, StateRead(e, fp), ev[e].to)
    BY <1>3 DEF Record
  <2>5. /\ UNCHANGED gaps /\ last'[key] = ev[e].to
        /\ \A k \in Key : k # key => last'[k] = last[k]
    <3>1. Entry(e, fp, ev[e].to)
      BY <1>c, <2>2, <2>3, <2>4, Entered
    <3> QED
      BY <3>1 DEF Entry
  <2>6. \A k \in Key : StateOf(k)' = StateOf(k)
    BY <2>2 DEF StateOf
  <2>7. \A o \in Eval \ {e} : Halfway(o)'
    <3> HIDE DEF key
    <3> QED
      BY <1>o, <2>1, <2>2, <2>5, <2>6
  <2>8. Halfway(e)'
    BY <2>1 DEF Halfway
  <2>9. ASSUME NEW k \in Key, ~Between(k)'
        PROVE  Was(last'[k]) = StateOf(k)'
    <3>1. CASE k = key
      BY <2>2, <2>3, <2>5, <2>6, <3>1 DEF Was, State
    <3>2. CASE k # key
      <4>1. ~Between(k)
        BY <2>1, <2>2, <2>9, <3>2 DEF Between, At, Only
      <4> QED
        BY <1>h, <2>5, <2>6, <3>2, <4>1
    <3> QED
      BY <3>1, <3>2
  <2> QED
    BY <1>h, <2>5, <2>7, <2>8, <2>9
<1>4. ASSUME NEW e \in Eval, Resolve(e)
      PROVE  Goal
  <2>1. PICK fp \in ev[e].gone :
          /\ AppendHistory(e, fp, ev[e].existing[fp].state, "resolved")
          /\ Only(e) /\ Fixed(e)
          /\ ev'[e].pc = "delete" /\ ev'[e].cur = fp
    BY <1>4, ResolveIs
  <2> DEFINE key == <<ev[e].rule, fp>>
  <2>2. ev[e].pc = "eval" /\ Underway(e) /\ UNCHANGED instances
    BY <1>4 DEF Resolve, Underway
  <2>3. fp \in Fp /\ fp \in DOMAIN ev[e].existing /\ key \in Key
    BY <2>2, ReadRows DEF Control, ControlOf, Key
  <2>4. StateRead(e, fp) = StateOf(key) /\ StateRead(e, fp) = ev[e].existing[fp].state
    BY <1>c, <2>2, <2>3, ReadIs DEF StateRead
  <2>5. ~Between(key)
    BY <2>2, <1>c, Exclusive DEF Between, At, Underway, Active
  <2>6. Was(last[key]) = ev[e].existing[fp].state
    BY <1>h, <2>3, <2>4, <2>5
  <2>7. /\ UNCHANGED gaps /\ last'[key] = "resolved"
        /\ \A k \in Key : k # key => last'[k] = last[k]
    <3>1. Entry(e, fp, "resolved")
      BY <1>c, <2>1, <2>2, <2>3, <2>6, Entered
    <3> QED
      BY <3>1 DEF Entry
  <2>8. \A k \in Key : StateOf(k)' = StateOf(k)
    BY <2>2 DEF StateOf
  <2>9. \A o \in Eval \ {e} : Halfway(o)'
    <3>1. key[1] = ev[e].rule
      OBVIOUS
    <3> HIDE DEF key
    <3> QED
      BY <1>o, <2>1, <2>2, <2>3, <2>7, <2>8, <3>1
  <2>10. Halfway(e)'
    BY <2>1, <2>7 DEF Halfway, Fixed
  <2>11. ASSUME NEW k \in Key, ~Between(k)'
         PROVE  Was(last'[k]) = StateOf(k)'
    <3>1. k # key
      BY <2>1, <2>11 DEF Between, At, Fixed
    <3>2. ~Between(k)
      BY <2>1, <2>2, <2>11 DEF Between, At, Only
    <3> QED
      BY <1>h, <2>7, <2>8, <3>1, <3>2
  <2> QED
    BY <1>h, <2>7, <2>9, <2>10, <2>11
<1>5. ASSUME NEW e \in Eval, Delete(e)
      PROVE  Goal
  <2> DEFINE fp == ev[e].cur
             key == <<ev[e].rule, fp>>
  <2>1. Only(e) /\ Fixed(e) /\ ev'[e].pc = "eval"
    BY <1>5, DeleteIs
  <2>2. /\ key \in Key /\ key[1] = ev[e].rule
        /\ DOMAIN instances' = DOMAIN instances \ {key}
        /\ \A l \in DOMAIN instances' : instances'[l] = instances[l]
    BY <1>5, Removes
  <2>3. UNCHANGED <<last, gaps>> /\ ev[e].pc = "delete" /\ Underway(e)
    BY <1>5 DEF Delete, feedVars, Underway
  <2>4. last[key] = "resolved"
    BY <1>h, <2>3 DEF Halfway
  <2>5. /\ \A k \in Key : k # key => StateOf(k)' = StateOf(k)
        /\ \A k \in Key : k = key => StateOf(k)' = "ok"
    <3> HIDE DEF key
    <3> QED
      BY <2>2 DEF StateOf
  <2>6. \A o \in Eval \ {e} : Halfway(o)'
    <3> HIDE DEF key
    <3> QED
      BY <1>o, <2>1, <2>2, <2>3, <2>5
  <2>7. Halfway(e)'
    BY <2>1 DEF Halfway
  <2>8. ASSUME NEW k \in Key, ~Between(k)'
        PROVE  Was(last'[k]) = StateOf(k)'
    <3>1. CASE k = key
      BY <2>3, <2>4, <2>5, <3>1 DEF Was
    <3>2. CASE k # key
      <4>1. ~Between(k)
        BY <2>1, <2>3, <2>8, <3>2 DEF Between, At, Only
      <4> QED
        BY <1>h, <2>3, <2>5, <3>2, <4>1
    <3> QED
      BY <3>1, <3>2
  <2> QED
    BY <1>h, <2>3, <2>6, <2>7, <2>8
<1>6. ASSUME NEW e \in Eval, Forward(e)
      PROVE  Goal
  <2>1. Only(e) /\ ev'[e].pc = "eval" /\ ev[e].pc = "eval"
    BY <1>6, ForwardIs DEF Forward, Finished
  <2>2. UNCHANGED <<last, gaps, instances>>
    BY <1>6 DEF Forward, storeVars
  <2>3. \A k \in Key : (Between(k)' <=> Between(k)) /\ StateOf(k)' = StateOf(k)
    BY <2>1, <2>2 DEF Between, At, Only, StateOf
  <2>4. ASSUME NEW o \in Eval
        PROVE  Halfway(o)'
    BY <1>h, <2>1, <2>2 DEF Halfway, Only, StateOf, StateRead, Was
  <2> QED
    BY <1>h, <2>2, <2>3, <2>4
<1> QED
  BY <1>1, <1>2, <1>3, <1>4, <1>5, <1>6, CalmSteps

LEMMA HistoryShows ==
    TypeInv /\ HistoryInv => HistoryChained /\ HistoryAgrees
<1> SUFFICES ASSUME TypeInv, HistoryInv, calm
             PROVE  /\ gaps = {}
                    /\ \A r \in DOMAIN rules : Idle(r) => \A fp \in Fp :
                         IF <<r, fp>> \in DOMAIN instances
                         THEN last[<<r, fp>>] = instances[<<r, fp>>].state
                         ELSE last[<<r, fp>>] \in {"ok", "resolved"}
  BY DEF HistoryChained, HistoryAgrees
<1>1. ASSUME NEW r \in DOMAIN rules, Idle(r), NEW fp \in Fp
      PROVE  IF <<r, fp>> \in DOMAIN instances
             THEN last[<<r, fp>>] = instances[<<r, fp>>].state
             ELSE last[<<r, fp>>] \in {"ok", "resolved"}
  <2> DEFINE k == <<r, fp>>
  <2>1. k \in Key /\ k[1] = r
    BY <1>1 DEF TypeInv, Key
  <2>2. ~Between(k)
    BY <1>1, <2>1 DEF Between, At, Idle, Active
  <2> HIDE DEF k
  <2>3. Was(last[k]) = StateOf(k)
    BY <2>1, <2>2 DEF HistoryInv
  <2>4. k \in DOMAIN instances => instances[k].state \in State
    BY DEF TypeInv, Row
  <2>5. last[k] \in State \cup {"ok", "resolved"}
    BY <2>1 DEF TypeInv
  <2>6. IF k \in DOMAIN instances THEN last[k] = instances[k].state ELSE last[k] \in {"ok", "resolved"}
    BY <2>3, <2>4, <2>5 DEF Was, StateOf, State
  <2> QED
    BY <2>6 DEF k
<1> QED
  BY <1>1 DEF HistoryInv

-----------------------------------------------------------------------------
(* What the notifier has been told of a calm store *)

LEMMA NotifyInit == Init => NotifyInv
<1> SUFFICES ASSUME Init
             PROVE  NotifyInv
  OBVIOUS
<1>1. \A k \in Key : notified[k] # "firing" /\ StateOf(k) # "firing"
  BY DEF Init, NoneNotified, StateOf, None
<1>2. \A e \in Eval : ev[e].pc = "idle" /\ ev[e].changes = <<>>
  BY IdleIs DEF Init
<1>3. \A e \in Eval : Told(e)
  BY <1>2 DEF Told
<1> QED
  BY <1>1, <1>3 DEF NotifyInv

LEMMA ChangeIs ==
    ASSUME TypeInv, Control, NEW e \in Eval, NEW i \in DOMAIN ev[e].changes
    PROVE  /\ Underway(e) /\ ev[e].rule \in Rule
           /\ ev[e].changes[i][1] \in Fp /\ ev[e].changes[i][2] \in State \cup {"resolved"}
<1>1. ev[e].changes \in Seq(Fp \X (State \cup {"resolved"}))
  BY EvType DEF Evaluation
<1>2. ev[e].changes[i] \in Fp \X (State \cup {"resolved"})
  BY <1>1
<1> QED
  BY <1>2 DEF Control, ControlOf, Underway

LEMMA AppendIs ==
    ASSUME NEW S, NEW s \in Seq(S), NEW x \in S
    PROVE  /\ DOMAIN Append(s, x) = DOMAIN s \cup {Len(s) + 1}
           /\ Len(s) + 1 \notin DOMAIN s
           /\ Append(s, x)[Len(s) + 1] = x
           /\ \A i \in DOMAIN s : Append(s, x)[i] = s[i]
OBVIOUS

LEMMA TailIs ==
    ASSUME NEW S, NEW s \in Seq(S), s # <<>>
    PROVE  /\ 1 \in DOMAIN s /\ Head(s) = s[1]
           /\ \A i \in DOMAIN Tail(s) : i \in Int /\ i + 1 \in DOMAIN s /\ i + 1 # 1 /\ Tail(s)[i] = s[i + 1]
           /\ \A i \in DOMAIN s \ {1} : i - 1 \in DOMAIN Tail(s) /\ Tail(s)[i - 1] = s[i]
<1>1. Len(s) \in Nat /\ Len(s) # 0 /\ DOMAIN s = 1 .. Len(s)
  OBVIOUS
<1>2. DOMAIN Tail(s) = 1 .. Len(s) - 1 /\ \A i \in 1 .. Len(s) - 1 : Tail(s)[i] = s[i + 1]
  BY <1>1
<1> QED
  BY <1>1, <1>2

\* Changes that are appended leave the others.
LEMMA StaysChanged ==
    ASSUME NEW e \in Eval, Only(e), Fixed(e), NEW k, Changed(k), NEW n,
           DOMAIN ev'[e].changes = DOMAIN ev[e].changes \cup {n},
           \A i \in DOMAIN ev[e].changes : ev'[e].changes[i] = ev[e].changes[i]
    PROVE  Changed(k)'
<1>1. PICK o \in Eval : \E i \in DOMAIN ev[o].changes : k = <<ev[o].rule, ev[o].changes[i][1]>>
  BY DEF Changed
<1>2. PICK i \in DOMAIN ev[o].changes : k = <<ev[o].rule, ev[o].changes[i][1]>>
  BY <1>1
<1>3. i \in DOMAIN ev'[o].changes /\ k = <<ev'[o].rule, ev'[o].changes[i][1]>>
  BY <1>2 DEF Only, Fixed
<1> QED
  BY <1>3 DEF Changed

LEMMA NotifyNext ==
    ASSUME TypeInv, Control, IdsInv, SoloInv, SnapshotInv, HistoryInv, NotifyInv, [Next]_vars
    PROVE  NotifyInv'
<1> DEFINE Goal ==
             /\ \A o \in Eval : Told(o)'
             /\ \A k \in Key : ~Changed(k)' /\ ~Between(k)' =>
                  (notified'[k] = "firing" <=> StateOf(k)' = "firing")
<1> SUFFICES ASSUME calm'
             PROVE  Goal
  BY DEF NotifyInv
<1>c. calm
  BY StaysDisturbed
<1>h. /\ \A o \in Eval : Told(o)
      /\ \A k \in Key : ~Changed(k) /\ ~Between(k) =>
           (notified[k] = "firing" <=> StateOf(k) = "firing")
  BY <1>c DEF NotifyInv
<1>1. CASE Still
  <2>1. \A k \in Key : (Between(k)' <=> Between(k)) /\ (Changed(k)' <=> Changed(k))
    BY <1>1 DEF Still, SameWork, Pausing, Between, At, Changed
  <2>2. \A k : StateOf(k)' = StateOf(k)
    BY <1>1 DEF Still, StateOf
  <2>3. ASSUME NEW o \in Eval
        PROVE  Told(o)'
    <3>1. CASE SameWork(ev[o], ev'[o])
      <4>1. ASSUME NEW fp, NEW to, Settled(o, fp, to)
            PROVE  Settled(o, fp, to)'
        BY <1>1, <2>2, <3>1, <4>1 DEF Settled, SameWork, Still
      <4>2. \A fp : StateRead(o, fp)' = StateRead(o, fp)
        BY <3>1 DEF StateRead, SameWork
      <4>3. Told(o)
        BY <1>h
      <4> QED
        BY <1>1, <3>1, <4>1, <4>2, <4>3 DEF Told, SameWork, Still
    <3>2. CASE ev'[o].pc \notin {"record", "delete"} /\ ev'[o].changes = <<>>
      BY <3>2 DEF Told
    <3> QED
      BY <1>1, <3>1, <3>2 DEF Still
  <2> QED
    BY <1>1, <1>h, <2>1, <2>2, <2>3 DEF Still
<1>o. ASSUME NEW e \in Eval, Underway(e), Only(e), NEW key \in Key, key[1] = ev[e].rule,
             \A k \in Key : k # key =>
                /\ notified'[k] = notified[k]
                /\ StateOf(k)' = StateOf(k)
                /\ k \in DOMAIN instances' <=> k \in DOMAIN instances
      PROVE  \A o \in Eval \ {e} : Told(o)'
  <2> SUFFICES ASSUME NEW o \in Eval \ {e}
               PROVE  Told(o)'
    OBVIOUS
  <2>1. ev'[o] = ev[o] /\ Told(o)
    BY <1>h, <1>o DEF Only
  <2>2. CASE ~Underway(o)
    BY <2>1, <2>2 DEF Told, Underway, Control, ControlOf
  <2>3. CASE Underway(o)
    <3>1. ev[o].rule # ev[e].rule /\ ev[o].rule \in Rule
      BY <1>o, <1>c, <2>3, Exclusive DEF Underway, Active, Control, ControlOf
    <3>2. \A fp \in Fp : <<ev[o].rule, fp>> \in Key /\ <<ev[o].rule, fp>> # key
      BY <1>o, <3>1 DEF Key
    <3>3. ASSUME NEW fp \in Fp, NEW to, Settled(o, fp, to)
          PROVE  Settled(o, fp, to)'
      <4> DEFINE k == <<ev[o].rule, fp>>
      <4>1. /\ notified'[k] = notified[k]
            /\ (IF k \in DOMAIN instances' THEN instances'[k].state ELSE "ok") = StateOf(k)
            /\ k \in DOMAIN instances' <=> k \in DOMAIN instances
        BY <1>o, <3>2 DEF StateOf
      <4> QED
        BY <2>1, <3>3, <4>1 DEF Settled, StateOf
    <3>4. \A i \in DOMAIN ev[o].changes : ev[o].changes[i][1] \in Fp
      BY ChangeIs
    <3>5. ev[o].pc = "record" => notified'[<<ev[o].rule, ev[o].cur>>] = notified[<<ev[o].rule, ev[o].cur>>]
      BY <1>o, <3>2 DEF Control, ControlOf
    <3> QED
      BY <2>1, <3>3, <3>4, <3>5 DEF Told, StateRead
  <2> QED
    BY <2>2, <2>3
<1>2. ASSUME NEW e \in Eval, Upsert(e)
      PROVE  Goal
  <2> DEFINE fp == Min(ev[e].todo)
             key == <<ev[e].rule, fp>>
             row == Advanced(e, fp)
             changed == row.state # StateRead(e, fp)
  <2>1. /\ Only(e) /\ Fixed(e) /\ ev'[e].existing = ev[e].existing
        /\ ev'[e].pc = IF changed THEN "record" ELSE "eval"
        /\ changed => ev'[e].cur = fp /\ ev'[e].to = row.state
        /\ ev'[e].todo = ev[e].todo \ {fp} /\ ev'[e].gone = ev[e].gone
        /\ ev'[e].changes = ev[e].changes
    BY <1>2, UpsertIs
  <2>2. /\ fp \in ev[e].todo /\ fp \in Fp /\ key \in Key
        /\ DOMAIN instances' = DOMAIN instances \cup {key}
        /\ \A l \in DOMAIN instances \ {key} : instances'[l] = instances[l]
        /\ instances'[key].state = row.state
    BY <1>2, Writes
  <2>3. UNCHANGED notified /\ ev[e].pc = "eval" /\ Underway(e)
    BY <1>2 DEF Upsert, feedVars, Underway
  <2>4. StateRead(e, fp) = StateOf(key)
    BY <1>c, <2>2, <2>3, ReadIs
  <2>5. key[1] = ev[e].rule /\ key[2] = fp
    OBVIOUS
  <2>6. ~Between(key) /\ ~Changed(key)
    <3>1. \A o \in Eval : Underway(o) /\ ev[o].rule = ev[e].rule => o = e
      BY <2>3, <1>c, Exclusive DEF Underway, Active
    <3>2. \A i \in DOMAIN ev[e].changes : ev[e].changes[i][1] # fp
      <4>1. Told(e)
        BY <1>h
      <4> HIDE DEF fp
      <4> QED
        BY <2>2, <4>1 DEF Told, Settled
    <3> QED
      BY <2>3, <3>1, <3>2, ChangeIs DEF Between, At, Changed, Underway
  <2> HIDE DEF fp, key, row
  <2>7. \A k \in Key : k # key =>
           StateOf(k)' = StateOf(k) /\ (k \in DOMAIN instances' <=> k \in DOMAIN instances)
    BY <2>2 DEF StateOf
  <2>8. \A o \in Eval \ {e} : Told(o)'
    BY <1>o, <2>1, <2>2, <2>3, <2>5, <2>7
  <2>9. notified[key] = "firing" <=> StateRead(e, fp) = "firing"
    BY <1>h, <2>2, <2>4, <2>6
  <2>10. \A q \in Fp : q # fp => <<ev[e].rule, q>> \in Key /\ <<ev[e].rule, q>> # key
    BY <2>2, <2>5 DEF Key
  <2>11. ASSUME NEW q \in Fp, NEW to, Settled(e, q, to)
         PROVE  Settled(e, q, to)'
    <3> DEFINE k == <<ev[e].rule, q>>
    <3>1. q # fp
      BY <2>2, <2>11 DEF Settled
    <3>2. /\ (IF k \in DOMAIN instances' THEN instances'[k].state ELSE "ok") = StateOf(k)
          /\ k \in DOMAIN instances' <=> k \in DOMAIN instances
      BY <2>7, <2>10, <3>1 DEF StateOf
    <3> QED
      BY <2>1, <2>3, <2>11, <3>1, <3>2 DEF Settled, StateOf, Fixed
  <2>12. Told(e)'
    <3>1. \A i \in DOMAIN ev[e].changes : ev[e].changes[i][1] \in Fp
      BY ChangeIs
    <3>2. ev'[e].pc = "record" =>
            (notified'[<<ev'[e].rule, ev'[e].cur>>] = "firing" <=> StateRead(e, ev[e].cur)' = "firing")
      BY <2>1, <2>3, <2>9 DEF StateRead, Fixed, key
    <3>3. \A i \in DOMAIN ev'[e].changes : Settled(e, ev[e].changes[i][1], ev[e].changes[i][2])'
      BY <1>h, <2>1, <2>11, <3>1 DEF Told
    <3>4. ev'[e].pc # "delete"
      BY <2>1
    <3>5. \A i, j \in DOMAIN ev'[e].changes :
             ev'[e].changes[i][1] = ev'[e].changes[j][1] => i = j
      <4>1. Told(e) /\ ev'[e].changes = ev[e].changes
        BY <1>h, <2>1
      <4> QED
        BY <4>1 DEF Told
    <3> QED
      BY <3>2, <3>3, <3>4, <3>5 DEF Told
  <2>13. ASSUME NEW k \in Key, ~Changed(k)', ~Between(k)'
         PROVE  notified'[k] = "firing" <=> StateOf(k)' = "firing"
    <3>1. CASE k = key
      <4>1. ~changed
        BY <2>1, <2>13, <3>1 DEF Between, At, Fixed, key
      <4>2. StateOf(k)' = row.state
        BY <2>2, <3>1 DEF StateOf
      <4> QED
        BY <2>3, <2>9, <3>1, <4>1, <4>2
    <3>2. CASE k # key
      <4>1. ~Between(k) /\ ~Changed(k)
        BY <2>1, <2>3, <2>13 DEF Between, At, Only, Changed, Fixed
      <4> QED
        BY <1>h, <2>3, <2>7, <3>2, <4>1
    <3> QED
      BY <3>1, <3>2
  <2> QED
    BY <2>8, <2>12, <2>13
<1>3. ASSUME NEW e \in Eval, Record(e)
      PROVE  Goal
  <2> DEFINE fp == ev[e].cur
             key == <<ev[e].rule, fp>>
             n == Len(ev[e].changes) + 1
  <2>1. /\ Only(e) /\ Fixed(e) /\ ev'[e].pc = "eval"
        /\ ev'[e].changes = Append(ev[e].changes, <<fp, ev[e].to>>)
        /\ ev'[e].todo = ev[e].todo /\ ev'[e].gone = ev[e].gone
    BY <1>3, RecordIs
  <2>2. /\ fp \in Fp /\ key \in Key /\ key[1] = ev[e].rule /\ ev[e].pc = "record"
        /\ ev[e].to \in State /\ Underway(e) /\ UNCHANGED <<instances, notified>>
        /\ fp \notin ev[e].todo \cup ev[e].gone
    BY <1>3 DEF Record, Control, ControlOf, Key, Underway
  <2>3. /\ DOMAIN ev'[e].changes = DOMAIN ev[e].changes \cup {n} /\ n \notin DOMAIN ev[e].changes
        /\ ev'[e].changes[n] = <<fp, ev[e].to>>
        /\ \A i \in DOMAIN ev[e].changes : ev'[e].changes[i] = ev[e].changes[i]
    <3>1. ev[e].changes \in Seq(Fp \X (State \cup {"resolved"}))
      BY EvType DEF Evaluation
    <3>2. <<fp, ev[e].to>> \in Fp \X (State \cup {"resolved"})
      BY <2>2
    <3> DEFINE c == <<fp, ev[e].to>>
    <3>3. ev'[e].changes = Append(ev[e].changes, c)
      BY <2>1
    <3> HIDE DEF fp, c
    <3>4. /\ DOMAIN ev'[e].changes = DOMAIN ev[e].changes \cup {n} /\ n \notin DOMAIN ev[e].changes
          /\ ev'[e].changes[n] = c
          /\ \A i \in DOMAIN ev[e].changes : ev'[e].changes[i] = ev[e].changes[i]
      BY <3>1, <3>2, <3>3, AppendIs DEF c
    <3> QED
      BY <3>4 DEF c
  <2>4. \A k : StateOf(k)' = StateOf(k)
    BY <2>2 DEF StateOf
  <2>5. /\ StateOf(key) = ev[e].to
        /\ ev[e].to = "pending" => notified[key] # "firing"
        /\ \A i \in DOMAIN ev[e].changes : ev[e].changes[i][1] # fp
    <3>1. Halfway(e) /\ Told(e)
      BY <1>c, <1>h DEF HistoryInv
    <3> QED
      BY <2>2, <3>1 DEF Halfway, Told, Settled
  <2>6. \A o \in Eval \ {e} : Told(o)'
    <3> HIDE DEF key
    <3> QED
      BY <1>o, <2>1, <2>2, <2>4
  <2>7. ASSUME NEW q, NEW to, Settled(e, q, to), q # fp
        PROVE  Settled(e, q, to)'
    BY <2>1, <2>2, <2>4, <2>7 DEF Settled, Fixed
  <2>8. ASSUME NEW q, NEW to, q = fp, to = ev[e].to
        PROVE  Settled(e, q, to)'
    BY <2>1, <2>2, <2>4, <2>5, <2>8 DEF Settled, Fixed, State
  <2>9. Told(e)'
    <3>1. Told(e)
      BY <1>h
    <3>2. ev'[e].changes[n][1] = fp /\ ev'[e].changes[n][2] = ev[e].to
      BY <2>3
    <3> HIDE DEF fp, n
    <3>3. \A i \in DOMAIN ev'[e].changes : Settled(e, ev[e].changes[i][1], ev[e].changes[i][2])'
      BY <2>3, <2>5, <2>7, <2>8, <3>1, <3>2 DEF Told
    <3>4. \A i, j \in DOMAIN ev'[e].changes :
             ev'[e].changes[i][1] = ev'[e].changes[j][1] => i = j
      BY <2>3, <2>5, <3>1, <3>2 DEF Told
    <3> QED
      BY <2>1, <3>3, <3>4 DEF Told
  <2>10. ASSUME NEW k \in Key, ~Changed(k)', ~Between(k)'
         PROVE  notified'[k] = "firing" <=> StateOf(k)' = "firing"
    <3>1. ~Changed(k)
      BY <2>1, <2>3, <2>10, StaysChanged
    <3>4. k # key
      <4> HIDE DEF n
      <4> QED
        BY <2>1, <2>3, <2>10 DEF Changed, Fixed
    <3>2. ~Between(k)
      BY <2>1, <2>2, <2>10, <3>4 DEF Between, At, Only
    <3> QED
      BY <1>h, <2>2, <2>4, <3>1, <3>2
  <2> QED
    BY <2>6, <2>9, <2>10
<1>4. ASSUME NEW e \in Eval, Resolve(e)
      PROVE  Goal
  <2>1. PICK fp \in ev[e].gone :
          /\ Only(e) /\ Fixed(e)
          /\ ev'[e].pc = "delete" /\ ev'[e].cur = fp
          /\ ev'[e].changes = Append(ev[e].changes, <<fp, "resolved">>)
          /\ ev'[e].todo = ev[e].todo /\ ev'[e].gone = ev[e].gone
    BY <1>4, ResolveIs
  <2> DEFINE key == <<ev[e].rule, fp>>
             n == Len(ev[e].changes) + 1
  <2>2. /\ ev[e].pc = "eval" /\ ev[e].todo = {} /\ Underway(e) /\ UNCHANGED <<instances, notified>>
    BY <1>4 DEF Resolve, Underway
  <2>3. fp \in Fp /\ key \in Key /\ key[1] = ev[e].rule
    BY <2>2, ReadRows DEF Control, ControlOf, Key
  <2>4. /\ DOMAIN ev'[e].changes = DOMAIN ev[e].changes \cup {n} /\ n \notin DOMAIN ev[e].changes
        /\ ev'[e].changes[n] = <<fp, "resolved">>
        /\ \A i \in DOMAIN ev[e].changes : ev'[e].changes[i] = ev[e].changes[i]
    <3>1. ev[e].changes \in Seq(Fp \X (State \cup {"resolved"}))
      BY EvType DEF Evaluation
    <3>2. <<fp, "resolved">> \in Fp \X (State \cup {"resolved"})
      BY <2>3
    <3> QED
      BY <2>1, <3>1, <3>2, AppendIs
  <2>5. \A k : StateOf(k)' = StateOf(k)
    BY <2>2 DEF StateOf
  <2>6. \A i \in DOMAIN ev[e].changes : ev[e].changes[i][1] # fp
    BY <1>h, <2>1, <2>2 DEF Told, Settled
  <2>7. \A o \in Eval \ {e} : Told(o)'
    <3> HIDE DEF key
    <3> QED
      BY <1>o, <2>1, <2>2, <2>3, <2>5
  <2>8. ASSUME NEW q, NEW to, Settled(e, q, to), q # fp
        PROVE  Settled(e, q, to)'
    BY <2>1, <2>2, <2>5, <2>8 DEF Settled, Fixed
  <2>9. Settled(e, fp, "resolved")'
    BY <2>1, <2>2 DEF Settled, Fixed, State
  <2>10. Told(e)'
    <3>1. Told(e)
      BY <1>h
    <3>2. ev'[e].changes[n][1] = fp /\ ev'[e].changes[n][2] = "resolved" /\ n \in DOMAIN ev'[e].changes
      BY <2>4
    <3> HIDE DEF n
    <3>3. \A i \in DOMAIN ev'[e].changes : Settled(e, ev[e].changes[i][1], ev[e].changes[i][2])'
      BY <2>4, <2>6, <2>8, <2>9, <3>1, <3>2 DEF Told
    <3>4. \A i, j \in DOMAIN ev'[e].changes :
             ev'[e].changes[i][1] = ev'[e].changes[j][1] => i = j
      BY <2>4, <2>6, <3>1, <3>2 DEF Told
    <3> QED
      BY <2>1, <3>2, <3>3, <3>4 DEF Told
  <2>11. ASSUME NEW k \in Key, ~Changed(k)', ~Between(k)'
         PROVE  notified'[k] = "firing" <=> StateOf(k)' = "firing"
    <3>1. ~Changed(k)
      BY <2>1, <2>4, <2>11, StaysChanged
    <3>2. ~Between(k)
      BY <2>1, <2>2, <2>11 DEF Between, At, Only
    <3> QED
      BY <1>h, <2>2, <2>5, <3>1, <3>2
  <2> QED
    BY <2>7, <2>10, <2>11
<1>5. ASSUME NEW e \in Eval, Delete(e)
      PROVE  Goal
  <2> DEFINE fp == ev[e].cur
             key == <<ev[e].rule, fp>>
  <2>1. /\ Only(e) /\ Fixed(e) /\ ev'[e].pc = "eval" /\ ev'[e].gone = ev[e].gone \ {fp}
        /\ ev'[e].todo = ev[e].todo /\ ev'[e].changes = ev[e].changes
    BY <1>5, DeleteIs
  <2>2. /\ key \in Key /\ key[1] = ev[e].rule /\ fp \in Fp
        /\ DOMAIN instances' = DOMAIN instances \ {key}
        /\ \A l \in DOMAIN instances' : instances'[l] = instances[l]
    BY <1>5, Removes
  <2>3. /\ UNCHANGED notified /\ ev[e].pc = "delete" /\ Underway(e) /\ fp \in ev[e].gone
    BY <1>5 DEF Delete, feedVars, Underway, Control, ControlOf
  <2>4. \A k \in Key : k # key =>
           StateOf(k)' = StateOf(k) /\ (k \in DOMAIN instances' <=> k \in DOMAIN instances)
    <3> HIDE DEF key
    <3> QED
      BY <2>2 DEF StateOf
  <2>5. \A o \in Eval \ {e} : Told(o)'
    <3> HIDE DEF key
    <3> QED
      BY <1>o, <2>1, <2>2, <2>3, <2>4
  <2>6. \A q \in Fp : q # fp => <<ev[e].rule, q>> \in Key /\ <<ev[e].rule, q>> # key
    BY <2>2 DEF Key
  <2>7. ASSUME NEW q \in Fp, NEW to \in State \cup {"resolved"}, Settled(e, q, to)
        PROVE  Settled(e, q, to)'
    <3> DEFINE k == <<ev[e].rule, q>>
    <3>1. CASE q = fp
      BY <2>1, <2>2, <2>3, <2>7, <3>1 DEF Settled, Fixed, State
    <3>2. CASE q # fp
      <4>1. /\ (IF k \in DOMAIN instances' THEN instances'[k].state ELSE "ok") = StateOf(k)
            /\ k \in DOMAIN instances' <=> k \in DOMAIN instances
        BY <2>4, <2>6, <3>2 DEF StateOf
      <4> QED
        BY <2>1, <2>3, <2>7, <3>2, <4>1 DEF Settled, StateOf, Fixed
    <3> QED
      BY <3>1, <3>2
  <2>8. Told(e)'
    <3>1. \A i \in DOMAIN ev[e].changes :
            ev[e].changes[i][1] \in Fp /\ ev[e].changes[i][2] \in State \cup {"resolved"}
      BY ChangeIs
    <3>2. \A i \in DOMAIN ev'[e].changes : Settled(e, ev[e].changes[i][1], ev[e].changes[i][2])'
      BY <1>h, <2>1, <2>7, <3>1 DEF Told
    <3>3. \A i, j \in DOMAIN ev'[e].changes :
             ev'[e].changes[i][1] = ev'[e].changes[j][1] => i = j
      <4>1. Told(e) /\ ev'[e].changes = ev[e].changes
        BY <1>h, <2>1
      <4> QED
        BY <4>1 DEF Told
    <3> QED
      BY <2>1, <3>2, <3>3 DEF Told
  <2>9. ASSUME NEW k \in Key, ~Changed(k)', ~Between(k)'
        PROVE  notified'[k] = "firing" <=> StateOf(k)' = "firing"
    <3>1. ~Changed(k)
      BY <2>1, <2>9 DEF Changed, Only, Fixed
    <3>2. k # key
      BY <1>h, <2>3, <3>1 DEF Changed, Told
    <3>3. ~Between(k)
      BY <2>1, <2>3, <2>9, <3>2 DEF Between, At, Only
    <3> QED
      BY <1>h, <2>3, <2>4, <3>1, <3>2, <3>3
  <2> QED
    BY <2>5, <2>8, <2>9
<1>6. ASSUME NEW e \in Eval, Forward(e)
      PROVE  Goal
  <2> DEFINE fp == ev[e].changes[1][1]
             to == ev[e].changes[1][2]
             key == <<ev[e].rule, fp>>
  <2>1. /\ Only(e) /\ Fixed(e) /\ ev'[e].changes = Tail(ev[e].changes)
        /\ ev'[e].pc = ev[e].pc /\ ev'[e].todo = ev[e].todo /\ ev'[e].gone = ev[e].gone
    BY <1>6, ForwardIs
  <2>2. /\ ev[e].pc = "eval" /\ Underway(e) /\ UNCHANGED instances /\ ev[e].changes # <<>>
    BY <1>6 DEF Forward, Finished, Underway, storeVars
  <2>3. /\ 1 \in DOMAIN ev[e].changes /\ Head(ev[e].changes) = ev[e].changes[1]
        /\ \A i \in DOMAIN ev'[e].changes :
             i \in Int /\ i + 1 \in DOMAIN ev[e].changes /\ i + 1 # 1 /\ ev'[e].changes[i] = ev[e].changes[i + 1]
        /\ \A i \in DOMAIN ev[e].changes \ {1} :
             i - 1 \in DOMAIN ev'[e].changes /\ ev'[e].changes[i - 1] = ev[e].changes[i]
    <3>1. ev[e].changes \in Seq(Fp \X (State \cup {"resolved"}))
      BY EvType DEF Evaluation
    <3> QED
      BY <2>1, <2>2, <3>1, TailIs
  <2>4. fp \in Fp /\ to \in State \cup {"resolved"} /\ key \in Key /\ key[1] = ev[e].rule
    BY <2>3, ChangeIs DEF Key
  <2>5. /\ notified'[key] = IF to \in {"firing", "resolved"} THEN to ELSE notified[key]
        /\ \A k \in Key : k # key => notified'[k] = notified[k]
    <3>1. notified' = IF to \notin {"firing", "resolved"} THEN notified
                      ELSE [notified EXCEPT ![key] = to]
      BY <1>6, <1>c, <2>3 DEF Forward, Forwarded
    <3> HIDE DEF key, to
    <3> QED
      BY <2>4, <3>1 DEF TypeInv
  <2>6. Told(e) /\ Settled(e, fp, to)
    BY <1>h, <2>3 DEF Told
  <2>7. \A k : StateOf(k)' = StateOf(k)
    BY <2>2 DEF StateOf
  <2>8. notified'[key] = "firing" <=> StateOf(key) = "firing"
    BY <2>2, <2>4, <2>5, <2>6 DEF Settled, State, StateOf
  <2>9. \A o \in Eval \ {e} : Told(o)'
    <3> HIDE DEF key
    <3> QED
      BY <1>o, <2>1, <2>2, <2>4, <2>5, <2>7
  <2> HIDE DEF fp, to
  <2>10. ASSUME NEW q \in Fp, NEW t, Settled(e, q, t), q # fp
         PROVE  Settled(e, q, t)'
    <3>1. <<ev[e].rule, q>> \in Key /\ <<ev[e].rule, q>> # key
      BY <2>4, <2>10 DEF Key
    <3> QED
      BY <2>1, <2>2, <2>5, <2>7, <2>10, <3>1 DEF Settled, Fixed
  <2>11. Told(e)'
    <3>1. \A i \in DOMAIN ev[e].changes : ev[e].changes[i][1] \in Fp
      BY ChangeIs
    <3>2. \A i \in DOMAIN ev[e].changes \ {1} : ev[e].changes[i][1] # fp
      BY <2>3, <2>6 DEF Told, fp
    <3>3. \A i \in DOMAIN ev'[e].changes : Settled(e, ev[e].changes[i][1], ev[e].changes[i][2])'
      BY <2>3, <2>6, <2>10, <3>1, <3>2 DEF Told
    <3>4. ASSUME NEW i \in DOMAIN ev'[e].changes, NEW j \in DOMAIN ev'[e].changes,
                 ev'[e].changes[i][1] = ev'[e].changes[j][1]
          PROVE  i = j
      <4>1. i + 1 = j + 1 /\ i \in Int /\ j \in Int
        BY <2>3, <2>6, <3>4 DEF Told
      <4> QED
        BY <4>1
    <3> QED
      BY <2>1, <2>2, <3>3, <3>4 DEF Told
  <2>12. ASSUME NEW k \in Key, ~Changed(k)', ~Between(k)'
         PROVE  notified'[k] = "firing" <=> StateOf(k)' = "firing"
    <3>1. CASE k = key
      BY <2>7, <2>8, <3>1
    <3>2. CASE k # key
      <4>1. \A o \in Eval \ {e} : \A i \in DOMAIN ev[o].changes : k # <<ev[o].rule, ev[o].changes[i][1]>>
        BY <2>1, <2>12 DEF Changed, Only
      <4>2. ASSUME NEW i \in DOMAIN ev[e].changes
            PROVE  k # <<ev[e].rule, ev[e].changes[i][1]>>
        <5>1. CASE i = 1
          BY <3>2, <5>1 DEF fp
        <5>2. CASE i # 1
          <6>1. i - 1 \in DOMAIN ev'[e].changes /\ ev'[e].changes[i - 1] = ev[e].changes[i]
            BY <2>3, <5>2
          <6>2. k # <<ev'[e].rule, ev'[e].changes[i - 1][1]>>
            BY <2>12, <6>1 DEF Changed
          <6> QED
            BY <2>1, <6>1, <6>2 DEF Fixed
        <5> QED
          BY <5>1, <5>2
      <4>3. ~Changed(k)
        BY <4>1, <4>2 DEF Changed
      <4>4. ~Between(k)
        BY <2>1, <2>2, <2>12 DEF Between, At, Only
      <4> QED
        BY <1>h, <2>5, <2>7, <3>2, <4>3, <4>4
    <3> QED
      BY <3>1, <3>2
  <2> QED
    BY <2>9, <2>11, <2>12
<1> QED
  BY <1>1, <1>2, <1>3, <1>4, <1>5, <1>6, CalmSteps

LEMMA NotifyShows == TypeInv /\ NotifyInv /\ Control => NotifierAgrees
<1> SUFFICES ASSUME TypeInv, NotifyInv, Control, calm, NEW r \in DOMAIN rules, Idle(r), NEW fp \in Fp
             PROVE  notified[<<r, fp>>] = "firing" <=>
                      (<<r, fp>> \in DOMAIN instances /\ instances[<<r, fp>>].state = "firing")
  BY DEF NotifierAgrees
<1> DEFINE k == <<r, fp>>
<1>1. k \in Key /\ k[1] = r
  BY DEF TypeInv, Key
<1>2. ~Between(k)
  BY <1>1 DEF Between, At, Idle, Active
<1>3. ~Changed(k)
  BY <1>1, ChangeIs DEF Changed, Idle, Active, Underway
<1> HIDE DEF k
<1>4. notified[k] = "firing" <=> StateOf(k) = "firing"
  BY <1>1, <1>2, <1>3 DEF NotifyInv
<1> QED
  BY <1>4 DEF k, StateOf

-----------------------------------------------------------------------------
(* Who is resolved *)

LEMMA LapseInit == Init => LapseInv
<1> SUFFICES ASSUME Init
             PROVE  LapseInv
  OBVIOUS
<1>1. \A e \in Eval : ev[e].pc = "idle" /\ ev[e].gone = {}
  BY IdleIs DEF Init
<1> QED
  BY <1>1 DEF Init, LapseInv

LEMMA LapseNext ==
    ASSUME TypeInv, Control, SoloInv, LapseInv, [Next]_vars
    PROVE  LapseInv'
<1> DEFINE Absent(v) ==
             /\ v.pc = "list" => \A fp \in Fp \ v.present : <<v.rule, fp>> \in lapsed'
             /\ \A fp \in v.gone : <<v.rule, fp>> \in lapsed'
           Goal == Key \ cond' \subseteq lapsed' /\ \A o \in Eval : Absent(ev'[o])
<1> SUFFICES ASSUME calm'
             PROVE  Goal
  BY DEF LapseInv
<1>c. calm
  BY StaysDisturbed
<1>h. /\ Key \ cond \subseteq lapsed
      /\ \A o \in Eval :
           /\ ev[o].pc = "list" => \A fp \in Fp \ ev[o].present : <<ev[o].rule, fp>> \in lapsed
           /\ \A fp \in ev[o].gone : <<ev[o].rule, fp>> \in lapsed
  BY <1>c DEF LapseInv
<1>d. ASSUME NEW b, Disturb(b)
      PROVE  ~b /\ UNCHANGED lapsed
  BY <1>c, <1>d DEF Disturb, feedVars
<1>k. lapsed \subseteq lapsed' => \A o \in Eval : Absent(ev[o])
  BY <1>h
<1>s. ASSUME NEW v, NEW w, SameBut(v, w) \/ SameButCancel(v, w), Absent(v)
      PROVE  Absent(w)
  BY <1>s DEF SameBut, SameButCancel
<1>1. CASE Quiet
  BY <1>1, <1>h, <1>k DEF Quiet, feedVars
<1>2. ASSUME NEW k \in Key, Flip(k)
      PROVE  Goal
  <2>1. lapsed' = (IF k \in cond THEN lapsed \cup {k} ELSE lapsed)
        /\ cond' = (IF k \in cond THEN cond \ {k} ELSE cond \cup {k})
    BY <1>2, <1>c DEF Flip
  <2>2. \A o \in Eval : Absent(ev[o]) /\ SameBut(ev[o], ev'[o])
    BY <1>2, <1>k, <2>1, OvertakenIs DEF Flip
  <2>3. \A o \in Eval : Absent(ev'[o])
    <3> HIDE DEF Absent
    <3> QED
      BY <1>s, <2>2
  <2> QED
    BY <1>h, <2>1, <2>3
<1>3. CASE Crash
  BY <1>3, <1>d, <1>h, IdleIs DEF Crash
<1>4. ASSUME NEW h \in Handler, NEW r \in Rule, DeleteInstances(h, r)
      PROVE  FALSE
  BY <1>4, <1>d DEF DeleteInstances
<1>o. ASSUME NEW e \in Eval, Only(e), UNCHANGED <<cond, lapsed>>, Absent(ev'[e])
      PROVE  Goal
  BY <1>o, <1>h, <1>k DEF Only
<1>5. ASSUME NEW e \in Eval, Returns(e)
      PROVE  Goal
  <2>1. ev'[e] = IdleEval /\ Only(e) /\ UNCHANGED <<cond, lapsed>>
    BY <1>5, ReturnIs DEF Returns, feedVars, envVars
  <2>2. Absent(ev'[e])
    BY <2>1, IdleIs
  <2> QED
    BY <1>o, <2>1, <2>2
<1>6. ASSUME NEW e \in Eval, QueryOK(e)
      PROVE  Goal
  <2> DEFINE r == ev[e].rule
             found == {<<r, fp>> : fp \in Result(r)}
  <2>1. /\ Only(e) /\ Fixed(e) /\ ev'[e].pc = "list" /\ ev'[e].present = Result(r)
        /\ ev'[e].gone = ev[e].gone
    BY <1>6, QueryOKIs
  <2>2. lapsed' = lapsed \ found /\ UNCHANGED cond /\ r \in Rule /\ ev[e].gone = {} /\ Active(e)
    BY <1>6, <1>c DEF QueryOK, envVars, Control, ControlOf, Active
  <2>3. \A k \in found : k \in cond
    BY DEF Result
  <2>4. ASSUME NEW fp \in Fp \ Result(r)
        PROVE  <<r, fp>> \in lapsed'
    <3>1. <<r, fp>> \notin cond /\ <<r, fp>> \in Key
      BY <2>2, <2>4 DEF Result, Key
    <3> HIDE DEF found, r
    <3> QED
      BY <1>h, <2>2, <2>3, <3>1
  <2>5. Absent(ev'[e])
    BY <2>1, <2>2, <2>4 DEF Fixed
  <2>6. ASSUME NEW o \in Eval \ {e}
        PROVE  Absent(ev'[o])
    <3>1. ev'[o] = ev[o]
      BY <2>1 DEF Only
    <3>2. CASE Active(o)
      <4>1. ev[o].rule # r
        BY <1>c, <2>2, <3>2, Exclusive
      <4>2. \A fp : <<ev[o].rule, fp>> \notin found
        BY <4>1
      <4> HIDE DEF found, r
      <4> QED
        BY <1>h, <2>2, <3>1, <4>2
    <3>3. CASE ~Active(o)
      BY <3>1, <3>3 DEF Active, Control, ControlOf
    <3> QED
      BY <3>2, <3>3
  <2>7. Key \ cond' \subseteq lapsed'
    <3> HIDE DEF found
    <3> QED
      BY <1>h, <2>2, <2>3
  <2> QED
    BY <2>5, <2>6, <2>7
<1>7. ASSUME NEW e \in Eval, List(e), ~ev[e].canceled
      PROVE  Goal
  <2>1. /\ Only(e) /\ Fixed(e) /\ ev'[e].pc = "eval"
        /\ ev'[e].gone = DOMAIN RowsOf(ev[e].rule) \ ev[e].present
    BY <1>7, ListIs
  <2>2. ev[e].pc = "list" /\ UNCHANGED <<cond, lapsed>>
    BY <1>7 DEF List, feedVars, envVars
  <2>3. DOMAIN RowsOf(ev[e].rule) \subseteq Fp
    BY DEF RowsOf
  <2>4. Absent(ev'[e])
    BY <1>h, <2>1, <2>2, <2>3 DEF Fixed
  <2> QED
    BY <1>o, <2>1, <2>2, <2>4
<1>8. ASSUME NEW e \in Eval,
             Refuse(e) \/ Upsert(e) \/ Record(e) \/ Resolve(e) \/ Delete(e) \/ Forward(e)
      PROVE  Goal
  <2>1. /\ Only(e) /\ Fixed(e) /\ ev'[e].pc # "list" /\ ev'[e].gone \subseteq ev[e].gone
    BY <1>8, RefuseIs, UpsertIs, RecordIs, ResolveIs, DeleteIs, ForwardIs
    DEF Refuse, Forward, Finished
  <2>2. UNCHANGED <<cond, lapsed>>
    BY <1>8 DEF Refuse, Upsert, Record, Resolve, Delete, Forward, envVars, feedVars
  <2>3. Absent(ev'[e])
    BY <1>h, <2>1, <2>2 DEF Fixed
  <2> QED
    BY <1>o, <2>1, <2>2, <2>3
<1>9. ASSUME NEW e \in Eval, Cancel(e)
      PROVE  Goal
  <2>1. Only(e) /\ SameButCancel(ev[e], ev'[e])
    BY <1>9, CancelIs
  <2>2. UNCHANGED <<cond, lapsed>>
    BY <1>9, <1>d DEF Cancel
  <2>3. Absent(ev[e])
    BY <1>k, <2>2
  <2>4. Absent(ev'[e])
    <3> HIDE DEF Absent
    <3> QED
      BY <1>s, <2>1, <2>3
  <2> QED
    BY <1>o, <2>1, <2>2, <2>4
<1>10. ASSUME NEW e \in Eval, NEW r \in Rule, Begin(e, r)
       PROVE  Goal
  <2>1. /\ ev'[e].pc = "query" /\ ev'[e].gone = {}
        /\ \A o \in Eval \ {e} : SameBut(ev[o], ev'[o])
    BY <1>10, BeginIs
  <2>2. UNCHANGED <<cond, lapsed>>
    BY <1>10, <1>d DEF Begin, envVars
  <2>3. Absent(ev'[e])
    BY <2>1
  <2>4. \A o \in Eval : Absent(ev[o])
    BY <1>k, <2>2
  <2>5. \A o \in Eval \ {e} : Absent(ev'[o])
    <3> HIDE DEF Absent
    <3> QED
      BY <1>s, <2>1, <2>4
  <2> QED
    BY <1>h, <2>2, <2>3, <2>5
<1> QED
  BY <1>1, <1>2, <1>3, <1>4, <1>5, <1>6, <1>7, <1>8, <1>9, <1>10, Cases

\* Rows disappear when they are resolved or their rule is deleted.
LEMMA LapseShows ==
    ASSUME TypeInv, Control, IdsInv, LapseInv, [Next]_vars, calm',
           NEW k \in DOMAIN instances \ DOMAIN instances'
    PROVE  k \in lapsed
<1>c. calm
  BY StaysDisturbed
<1>1. ASSUME NEW e \in Eval, Delete(e)
      PROVE  k \in lapsed
  <2> DEFINE key == <<ev[e].rule, ev[e].cur>>
  <2>1. k = key
    BY <1>1, Removes
  <2>2. ev[e].cur \in ev[e].gone
    BY <1>1 DEF Delete, Control, ControlOf
  <2> QED
    BY <1>c, <2>1, <2>2 DEF LapseInv
<1>2. ASSUME NEW h \in Handler, NEW r \in Rule, DeleteInstances(h, r)
      PROVE  FALSE
  BY <1>2, <1>c DEF DeleteInstances, Disturb
<1>3. ASSUME NEW e \in Eval, Upsert(e)
      PROVE  FALSE
  BY <1>3, Writes
<1>4. ASSUME NEW e \in Eval,
             Returns(e) \/ QueryOK(e) \/ (List(e) /\ ~ev[e].canceled) \/ Refuse(e)
             \/ Record(e) \/ Resolve(e)
             \/ Forward(e) \/ Cancel(e) \/ \E q \in Rule : Begin(e, q)
      PROVE  FALSE
  BY <1>4 DEF Returns, QueryOK, List, Refuse, Record, Resolve, Forward, Cancel, Begin, storeVars
<1>5. ~(Quiet \/ Crash \/ (\E q \in Key : Flip(q)))
  BY DEF Quiet, Crash, Flip, storeVars
<1> QED
  BY <1>1, <1>2, <1>3, <1>4, <1>5, Cases

-----------------------------------------------------------------------------
(* The theorems *)

StoreInv == TypeInv /\ Control /\ IdsInv

AllInv ==
    /\ StoreInv /\ SoloInv /\ SnapshotInv /\ CapRespected
    /\ RepairInv /\ HistoryInv /\ NotifyInv /\ LapseInv

LEMMA StoreInvariant == Spec => []StoreInv
<1>1. Init => StoreInv
  BY InitTyped, IdsInit DEF StoreInv
<1>2. StoreInv /\ [Next]_vars => StoreInv'
  BY TypeNext, ControlNext, IdsNext DEF StoreInv
<1> QED
  BY <1>1, <1>2, PTL DEF Spec

\* No row is there at first.
LEMMA CapInit == Init => CapRespected
<1> SUFFICES ASSUME Init, NEW r \in Rule
             PROVE  Cardinality(DOMAIN RowsOf(r)) <= MaxInstances
  BY DEF CapRespected
<1>1. DOMAIN RowsOf(r) = {}
  BY DEF Init, RowsOf
<1>2. Cardinality({}) = 0
  BY FS_EmptySet
<1> QED
  BY <1>1, <1>2, CapAssumption

LEMMA AllInvariant == Spec => []AllInv
<1>1. Init => AllInv
  BY InitTyped, IdsInit, SoloInit, SnapshotInit, CapInit, RepairInit, HistoryInit, NotifyInit,
     LapseInit DEF AllInv, StoreInv
<1>2. AllInv /\ [Next]_vars => AllInv'
  BY TypeNext, ControlNext, IdsNext, SoloNext, SnapshotNext, CapNext, RepairNext, HistoryNext,
     NotifyNext, LapseNext DEF AllInv, StoreInv
<1> QED
  BY <1>1, <1>2, PTL DEF Spec

\* An instance has an id of its own, and everything has its type.
LEMMA Typed == StoreInv => TypeOK
<1> SUFFICES ASSUME StoreInv
             PROVE  TypeOK
  OBVIOUS
<1>1. \A k, l \in DOMAIN instances : instances[k].id = instances[l].id => k = l
  <2>1. \A k \in DOMAIN instances : k \in Key /\ instances[k].id \in Nat /\ Named(k, instances[k].id)
    BY DEF StoreInv, TypeInv, Row, Named
  <2> QED
    BY <2>1 DEF StoreInv, IdsInv
<1>2. \A e \in Eval : LET rows == ev[e].existing
                      IN  DOMAIN rows \subseteq Fp /\ rows \in [DOMAIN rows -> Row]
  BY EvType, RowsAre DEF StoreInv, Evaluation
<1>3. ev \in [Eval -> Evaluation({ev[e].existing : e \in Eval})]
  <2>1. ASSUME NEW v \in Evaluation(Rows), NEW S, v.existing \in S
        PROVE  v \in Evaluation(S)
    BY <2>1 DEF Evaluation
  <2>2. \A e \in Eval : ev[e] \in Evaluation(Rows) /\ ev[e].existing \in {ev[o].existing : o \in Eval}
    BY EvType DEF StoreInv
  <2>3. \A e \in Eval : ev[e] \in Evaluation({ev[o].existing : o \in Eval})
    BY <2>1, <2>2
  <2> QED
    BY <2>3 DEF StoreInv, TypeInv
<1> QED
  BY <1>1, <1>2, <1>3 DEF StoreInv, TypeInv, TypeOK

\* Type correctness: rules and instances are what the tables hold, the id of a row
\* (uuid.NewString) is not the id of another one, and what an evaluation has read and
\* collected is of the types of its locals.
THEOREM TypeCorrect == Spec => []TypeOK
<1>1. StoreInv => TypeOK
  BY Typed
<1> QED
  BY <1>1, StoreInvariant, PTL

\* As long as evaluations neither overlap nor are cut off, the entries of a series in
\* alert_history chain, the last one is the state of its instance, and EvaluateRule never
\* tracks more series of a rule than MaxInstances.
THEOREM CalmStore == Spec => []SoundWhenCalm
<1>1. AllInv => SoundWhenCalm
  BY Typed, HistoryShows DEF AllInv, SoundWhenCalm, StoreInv
<1> QED
  BY <1>1, AllInvariant, PTL

\* As long as that is so, forwardNotifications has told the dispatcher between two
\* evaluations of a rule of exactly the instances that fire.
THEOREM NotifierTold == Spec => []NotifierAgrees
<1>1. AllInv => NotifierAgrees
  BY NotifyShows DEF AllInv, StoreInv
<1> QED
  BY <1>1, AllInvariant, PTL

\* Whatever overlaps, cancelations, crashes and edits have left in the table, one
\* EvaluateRule that nothing interferes with leaves what its query returned: active, firing
\* when the duration has passed, and nothing else, up to the cap.
THEOREM OneEvaluationRepairs == Spec => []Repairs
<1>1. AllInv => Repairs
  BY RepairShows DEF AllInv, StoreInv
<1> QED
  BY <1>1, AllInvariant, PTL

\* As long as evaluations neither overlap nor are cut off, a row only goes when its series
\* was absent: a failing query, a restart or an edit of the rule resolves nothing.
THEOREM NoFalseResolution == Spec => NoFalseAllClear
<1>1. AllInv /\ [Next]_vars =>
        [calm' => \A k \in DOMAIN instances \ DOMAIN instances' : k \in lapsed]_vars
  BY LapseShows DEF AllInv, StoreInv
<1> QED
  BY <1>1, AllInvariant, PTL DEF Spec, NoFalseAllClear
=============================================================================
