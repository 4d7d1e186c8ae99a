--------------------------- MODULE SchedulerProofs ---------------------------
(***************************************************************************)
(* The safety of the rule scheduler, proved for every set of rules,        *)
(* intervals and requests and every number of changes.                     *)
(***************************************************************************)
EXTENDS Scheduler, SequenceTheorems, TLAPS

(***************************************************************************)
(* Type correctness.                                                       *)
(***************************************************************************)
LEMMA InitType == Init => TypeOK
<1> SUFFICES ASSUME Init PROVE TypeOK OBVIOUS
<1>1. Version = 0 .. MaxEdits /\ 0 \in Version BY MaxEditsAssumption DEF Version
<1>2. list \in [Reconciler -> [rules : [Rule -> Interval \cup {Disabled}], version : Version]]
  BY <1>1 DEF Init, NoRules
<1>3. roots \in Seq([parent : {"main", "background"}, canceled : BOOLEAN]) /\ root \in 0 .. Len(roots)
  BY DEF Init
<1>4. tasks \in [Rule -> Seq(Task)] /\ \A r \in Rule : running[r] \in 0 .. Len(tasks[r])
  BY DEF Init
<1> QED BY <1>1, <1>2, <1>3, <1>4 DEF Init, TypeOK

\* More roots make more tasks well typed.
LEMMA MoreRoots ==
    ASSUME Len(roots) \in Nat, Len(roots') \in Nat, Len(roots') >= Len(roots)
    PROVE  Task \subseteq Task' /\ \A r \in Rule : Seq(Task) \subseteq Seq(Task')
<1>1. 1 .. Len(roots) \subseteq 1 .. Len(roots') OBVIOUS
<1>2. Task \subseteq Task' BY <1>1 DEF Task
<1> QED BY <1>2, SeqMonotonic

\* A root is created.
LEMMA WithRootType ==
    ASSUME TypeOK, NEW parent \in {"main", "background"}
    PROVE  /\ WithRoot(parent) \in Seq([parent : {"main", "background"}, canceled : BOOLEAN])
           /\ Len(WithRoot(parent)) = Len(roots) + 1
           /\ \A i \in 1 .. Len(roots) : WithRoot(parent)[i] = roots[i]
           /\ WithRoot(parent)[Len(roots) + 1].parent = parent
           /\ DOMAIN WithRoot(parent) = 1 .. Len(roots) + 1
<1> DEFINE Root == [parent : {"main", "background"}, canceled : BOOLEAN]
<1> DEFINE new == [parent |-> parent, canceled |-> parent = "main" /\ signalled]
<1>1. new \in Root /\ new.parent = parent BY DEF TypeOK
<1>2. roots \in Seq(Root) BY DEF TypeOK
<1> HIDE DEF new, Root
<1>3. /\ Append(roots, new) \in Seq(Root)
      /\ Len(Append(roots, new)) = Len(roots) + 1
      /\ \A i \in 1 .. Len(roots) : Append(roots, new)[i] = roots[i]
      /\ Append(roots, new)[Len(roots) + 1] = new
  BY <1>1, <1>2, AppendProperties
<1>4. DOMAIN Append(roots, new) = 1 .. Len(roots) + 1 BY <1>3, LenProperties
<1> QED BY <1>1, <1>3, <1>4 DEF WithRoot, new, Root

\* A goroutine goes from one state to another.
LEMMA SetStateType ==
    ASSUME TypeOK, NEW r \in Rule, NEW i \in DOMAIN tasks[r], NEW st \in {"wait", "eval", "done"},
           SetState(r, i, st), UNCHANGED <<storeVars, reconcilerVars, schedVars, booted, signalled,
                                           stopper, applied>>
    PROVE  /\ TypeOK'
           /\ tasks'[r] = [tasks[r] EXCEPT ![i].state = st]
           /\ \A q \in Rule : q # r => tasks'[q] = tasks[q]
           /\ \A q \in Rule : Len(tasks'[q]) = Len(tasks[q]) /\ DOMAIN tasks'[q] = DOMAIN tasks[q]
<1> USE DEF storeVars, reconcilerVars, schedVars
<1>1. tasks \in [Rule -> Seq(Task)] /\ Task' = Task BY DEF TypeOK, Task
<1>2. /\ tasks'[r] = [tasks[r] EXCEPT ![i] = [tasks[r][i] EXCEPT !.state = st]]
      /\ \A q \in Rule : q # r => tasks'[q] = tasks[q]
      /\ DOMAIN tasks' = Rule
      /\ tasks' = [tasks EXCEPT ![r] = tasks'[r]]
  BY <1>1 DEF SetState
<1>3. tasks[r] \in Seq(Task) /\ i \in 1 .. Len(tasks[r]) /\ tasks[r][i] \in Task
  BY <1>1, LenProperties, ElementOfSeq
<1>4. [tasks[r][i] EXCEPT !.state = st] \in Task BY <1>3 DEF Task
<1>5. tasks'[r] \in Seq(Task) /\ Len(tasks'[r]) = Len(tasks[r])
  BY <1>2, <1>3, <1>4, ExceptSeq
<1>6. tasks' \in [Rule -> Seq(Task)] BY <1>1, <1>2, <1>5
<1>7. \A q \in Rule : Len(tasks'[q]) = Len(tasks[q]) /\ DOMAIN tasks'[q] = DOMAIN tasks[q]
  BY <1>1, <1>2, <1>3, <1>5, LenProperties
<1>8. TypeOK' BY <1>1, <1>6, <1>7 DEF TypeOK, Version
<1>9. tasks'[r] = [tasks[r] EXCEPT ![i].state = st] BY <1>2
<1> QED BY <1>2, <1>7, <1>8, <1>9

\* Signal and Stop cancel contexts and change nothing else of them.
LEMMA CancelRoots ==
    ASSUME TypeOK, \/ Signal
                   \/ Stop
    PROVE  /\ roots' \in Seq([parent : {"main", "background"}, canceled : BOOLEAN])
           /\ Len(roots') = Len(roots) /\ DOMAIN roots' = DOMAIN roots
           /\ \A i \in DOMAIN roots : /\ roots'[i].parent = roots[i].parent
                                      /\ roots[i].canceled => roots'[i].canceled
                                      /\ Signal /\ roots[i].parent = "background" =>
                                            roots'[i].canceled = roots[i].canceled
                                      /\ Stop /\ i # root => roots'[i] = roots[i]
           /\ Stop /\ root # 0 => roots'[root].canceled
<1> DEFINE Root == [parent : {"main", "background"}, canceled : BOOLEAN]
<1>1. roots \in Seq(Root) /\ DOMAIN roots = 1 .. Len(roots) /\ Len(roots) \in Nat
  BY LenProperties DEF TypeOK
<1>2. \A i \in DOMAIN roots : roots[i] \in Root BY <1>1, ElementOfSeq
<1>3. CASE Signal
  <2>1. roots' = [i \in 1 .. Len(roots) |-> [roots[i] EXCEPT !.canceled = @ \/ roots[i].parent = "main"]]
    BY <1>1, <1>3 DEF Signal
  <2>2. \A i \in 1 .. Len(roots) :
           /\ [roots[i] EXCEPT !.canceled = @ \/ roots[i].parent = "main"] \in Root
           /\ [roots[i] EXCEPT !.canceled = @ \/ roots[i].parent = "main"].parent = roots[i].parent
           /\ [roots[i] EXCEPT !.canceled = @ \/ roots[i].parent = "main"].canceled
                 = (roots[i].canceled \/ roots[i].parent = "main")
    BY <1>1, <1>2
  <2>3. roots' \in [1 .. Len(roots) -> Root] BY <2>1, <2>2
  <2>4. roots' \in Seq(Root) /\ Len(roots') = Len(roots) BY <1>1, <2>3
  <2>5. ~Stop BY <1>3 DEF Signal, Stop
  <2>6. DOMAIN roots' = DOMAIN roots BY <1>1, <2>4, LenProperties
  <2>7. ASSUME NEW i \in DOMAIN roots
        PROVE  /\ roots'[i].parent = roots[i].parent
               /\ roots'[i].canceled = (roots[i].canceled \/ roots[i].parent = "main")
               /\ roots[i].canceled \in BOOLEAN
    BY <1>1, <1>2, <2>1, <2>2
  <2> QED BY <2>4, <2>5, <2>6, <2>7
<1>4. CASE Stop /\ root = 0
  BY <1>1, <1>4 DEF Stop, Signal
<1>5. CASE Stop /\ root # 0
  <2>1. root \in 1 .. Len(roots) BY <1>1, <1>5 DEF TypeOK
  <2>2. roots' = [roots EXCEPT ![root] = [roots[root] EXCEPT !.canceled = TRUE]]
    BY <1>1, <1>5, <2>1 DEF Stop
  <2>3. /\ [roots[root] EXCEPT !.canceled = TRUE] \in Root
        /\ [roots[root] EXCEPT !.canceled = TRUE].parent = roots[root].parent
        /\ [roots[root] EXCEPT !.canceled = TRUE].canceled
    BY <1>1, <1>2, <2>1
  <2>4. /\ roots' \in Seq(Root)
        /\ Len(roots') = Len(roots)
        /\ \A j \in 1 .. Len(roots) :
              roots'[j] = IF j = root THEN [roots[root] EXCEPT !.canceled = TRUE] ELSE roots[j]
    BY <1>1, <2>1, <2>2, <2>3, ExceptSeq
  <2>5. ~Signal BY <1>5 DEF Signal, Stop
  <2> QED BY <1>1, <2>1, <2>3, <2>4, <2>5, LenProperties
<1> QED BY <1>3, <1>4, <1>5

LEMMA CanceledType ==
    ASSUME TypeOK, NEW r \in Rule
    PROVE  /\ Canceled(r) \in Seq(Task) /\ Len(Canceled(r)) = Len(tasks[r])
           /\ \A i \in 1 .. Len(tasks[r]) :
                 IF i = running[r] THEN Canceled(r)[i] = [tasks[r][i] EXCEPT !.canceled = TRUE]
                 ELSE Canceled(r)[i] = tasks[r][i]
<1>1. tasks[r] \in Seq(Task) /\ running[r] \in 0 .. Len(tasks[r]) /\ Len(tasks[r]) \in Nat
  BY LenProperties DEF TypeOK
<1>2. CASE running[r] = 0 BY <1>1, <1>2 DEF Canceled
<1>3. CASE running[r] # 0
  <2> DEFINE t == [tasks[r][running[r]] EXCEPT !.canceled = TRUE]
  <2>1. running[r] \in 1 .. Len(tasks[r]) BY <1>1, <1>3
  <2>2. t \in Task
    <3>1. tasks[r][running[r]] \in Task BY <1>1, <2>1, ElementOfSeq
    <3> QED BY <3>1 DEF Task
  <2>3. Canceled(r) = [tasks[r] EXCEPT ![running[r]] = t] BY <1>3 DEF Canceled
  <2> HIDE DEF t
  <2>4. /\ Canceled(r) \in Seq(Task)
        /\ Len(Canceled(r)) = Len(tasks[r])
        /\ \A j \in 1 .. Len(tasks[r]) :
              Canceled(r)[j] = IF j = running[r] THEN t ELSE tasks[r][j]
    BY <1>1, <2>1, <2>2, <2>3, ExceptSeq
  <2> QED BY <2>4 DEF t
<1> QED BY <1>2, <1>3

\* What Reconcile does with the contexts ...
LEMMA ReconcileRoots ==
    ASSUME TypeOK, NEW c \in Reconciler, Reconcile(c)
    PROVE  /\ roots' \in Seq([parent : {"main", "background"}, canceled : BOOLEAN])
           /\ Len(roots) \in Nat /\ Len(roots') >= Len(roots) /\ Len(roots') \in Nat
           /\ \A i \in 1 .. Len(roots) : roots'[i] = roots[i]
           /\ root' \in 1 .. Len(roots')
           /\ root # 0 => root' = root /\ roots' = roots
           /\ root = 0 => /\ root' = Len(roots) + 1 /\ Len(roots') = Len(roots) + 1
                          /\ roots'[root'].parent = "background"
<1>1. roots \in Seq([parent : {"main", "background"}, canceled : BOOLEAN]) /\ Len(roots) \in Nat
      /\ root \in 0 .. Len(roots)
  BY LenProperties DEF TypeOK
<1>2. CASE root = 0
  <2>1. roots' = WithRoot("background") /\ root' = Len(roots) + 1 BY <1>2 DEF Reconcile
  <2> QED BY <1>1, <1>2, <2>1, WithRootType
<1>3. CASE root # 0 BY <1>1, <1>3 DEF Reconcile
<1> QED BY <1>2, <1>3

\* ... and with the goroutines of a rule.
LEMMA ReconcileTasks ==
    ASSUME TypeOK, NEW c \in Reconciler, Reconcile(c), NEW r \in Rule
    PROVE  /\ list[c].rules[r] \in Interval \cup {Disabled}
           /\ Kept(r, list[c].rules) =>
                 /\ list[c].rules[r] # Disabled
                 /\ tasks'[r] = tasks[r] /\ running'[r] = running[r]
           /\ ~Kept(r, list[c].rules) /\ list[c].rules[r] = Disabled =>
                 tasks'[r] = Canceled(r) /\ running'[r] = 0
           /\ ~Kept(r, list[c].rules) /\ list[c].rules[r] # Disabled =>
                 /\ tasks'[r] = Append(Canceled(r), NewTask(list[c].rules[r], root'))
                 /\ running'[r] = Len(tasks[r]) + 1
                 /\ NewTask(list[c].rules[r], root') \in Task'
<1> DEFINE d == list[c].rules
<1>1. d \in [Rule -> Interval \cup {Disabled}] BY DEF TypeOK
<1>2. ASSUME Kept(r, d) PROVE d[r] # Disabled
  <2>1. tasks[r] \in Seq(Task) /\ running[r] \in 1 .. Len(tasks[r])
    BY <1>2, LenProperties DEF Kept, TypeOK
  <2>2. tasks[r][running[r]] \in Task BY <2>1, ElementOfSeq
  <2>3. tasks[r][running[r]].interval \in Interval BY <2>2 DEF Task
  <2> QED BY <1>2, <2>3, IntervalAssumption DEF Kept, Disabled
<1>3. tasks'[r] = IF Kept(r, d) THEN tasks[r]
                  ELSE IF d[r] = Disabled THEN Canceled(r)
                  ELSE Append(Canceled(r), NewTask(d[r], root'))
  BY DEF Reconcile
<1>4. running'[r] = IF d[r] = Disabled THEN 0
                    ELSE IF Kept(r, d) THEN running[r] ELSE Len(tasks[r]) + 1
  BY DEF Reconcile
<1>5. ASSUME d[r] # Disabled PROVE NewTask(d[r], root') \in Task'
  <2>1. d[r] \in Interval /\ root' \in 1 .. Len(roots') BY <1>1, <1>5, ReconcileRoots
  <2> QED BY <2>1 DEF NewTask, Task
<1> QED BY <1>1, <1>2, <1>3, <1>4, <1>5

LEMMA ReconcileType ==
    ASSUME TypeOK, NEW c \in Reconciler, Reconcile(c)
    PROVE  TypeOK'
<1>1. Task \subseteq Task' /\ Seq(Task) \subseteq Seq(Task')
  <2>1. 1 .. Len(roots) \subseteq 1 .. Len(roots') BY ReconcileRoots
  <2>2. Task \subseteq Task' BY <2>1 DEF Task
  <2> QED BY <2>2, SeqMonotonic
<1>2. ASSUME NEW r \in Rule
      PROVE  tasks'[r] \in Seq(Task') /\ running'[r] \in 0 .. Len(tasks'[r])
  <2>1. tasks[r] \in Seq(Task) /\ running[r] \in 0 .. Len(tasks[r]) /\ Len(tasks[r]) \in Nat
    BY LenProperties DEF TypeOK
  <2>2. Canceled(r) \in Seq(Task') /\ Len(Canceled(r)) = Len(tasks[r]) BY <1>1, CanceledType
  <2>3. CASE Kept(r, list[c].rules) BY <1>1, <2>1, <2>3, ReconcileTasks
  <2>4. CASE ~Kept(r, list[c].rules) /\ list[c].rules[r] = Disabled
    BY <2>1, <2>2, <2>4, ReconcileTasks
  <2>5. CASE ~Kept(r, list[c].rules) /\ list[c].rules[r] # Disabled
    <3>1. NewTask(list[c].rules[r], root') \in Task' BY <2>5, ReconcileTasks
    <3>2. /\ Append(Canceled(r), NewTask(list[c].rules[r], root')) \in Seq(Task')
          /\ Len(Append(Canceled(r), NewTask(list[c].rules[r], root'))) = Len(tasks[r]) + 1
      BY <2>2, <3>1, AppendProperties
    <3>3. /\ tasks'[r] = Append(Canceled(r), NewTask(list[c].rules[r], root'))
          /\ running'[r] = Len(tasks[r]) + 1
      BY <2>5, ReconcileTasks
    <3> QED BY <2>1, <3>2, <3>3
  <2> QED BY <2>3, <2>4, <2>5
<1>3. tasks' \in [Rule -> Seq(Task')]
  <2>1. DOMAIN tasks' = Rule /\ tasks' = [r \in Rule |-> tasks'[r]] BY DEF Reconcile
  <2> QED BY <1>2, <2>1
<1>4. roots' \in Seq([parent : {"main", "background"}, canceled : BOOLEAN])
      /\ root' \in 0 .. Len(roots')
  BY ReconcileRoots
<1>5. /\ list' \in [Reconciler -> [rules : [Rule -> Interval \cup {Disabled}], version : Version]]
      /\ pc' \in [Reconciler -> {"idle", "list", "apply"}]
      /\ applied' \in Version
  <2>1. NoRules \in [Rule -> Interval \cup {Disabled}] /\ 0 \in Version
    BY MaxEditsAssumption DEF NoRules, Version
  <2> QED BY <2>1 DEF Reconcile, TypeOK
<1>6. /\ rules' \in [Rule -> Interval \cup {Disabled}] /\ edits' \in Version
      /\ booted' \in BOOLEAN /\ signalled' \in BOOLEAN
      /\ stopper' \in {"none", "wait", "returned", "closed"}
  BY DEF Reconcile, storeVars, TypeOK
<1>7. Version' = Version BY DEF Version
<1> QED BY <1>2, <1>3, <1>4, <1>5, <1>6, <1>7 DEF TypeOK

LEMMA StartType ==
    ASSUME TypeOK, Start
    PROVE  TypeOK'
<1>1. /\ roots' \in Seq([parent : {"main", "background"}, canceled : BOOLEAN])
      /\ Len(roots') = Len(roots) + 1 /\ Len(roots) \in Nat /\ Len(roots') \in Nat
  BY WithRootType, LenProperties DEF Start, TypeOK
<1>2. root' \in 0 .. Len(roots') BY <1>1 DEF Start
<1>3. Seq(Task) \subseteq Seq(Task')
  <2>1. 1 .. Len(roots) \subseteq 1 .. Len(roots') BY <1>1
  <2>2. Task \subseteq Task' BY <2>1 DEF Task
  <2> QED BY <2>2, SeqMonotonic
<1>4. tasks' \in [Rule -> Seq(Task')] BY <1>3 DEF Start, TypeOK
<1>5. pc' \in [Reconciler -> {"idle", "list", "apply"}] BY DEF Start, TypeOK
<1> QED BY <1>1, <1>2, <1>4, <1>5 DEF Start, storeVars, TypeOK, Version

LEMMA CancelType ==
    ASSUME TypeOK, Signal \/ Stop
    PROVE  TypeOK'
<1>1. /\ roots' \in Seq([parent : {"main", "background"}, canceled : BOOLEAN])
      /\ Len(roots') = Len(roots) /\ Len(roots) \in Nat
  BY CancelRoots, LenProperties DEF TypeOK
<1>2. Task' = Task BY <1>1 DEF Task
<1>3. tasks' = tasks /\ \A r \in Rule : running'[r] \in 0 .. Len(tasks'[r])
  <2>1. \A r \in Rule : Len(tasks[r]) \in Nat BY LenProperties DEF TypeOK
  <2> QED BY <2>1 DEF Signal, Stop, TypeOK
<1>4. root' \in 0 .. Len(roots') BY <1>1 DEF Signal, Stop, TypeOK
<1> QED BY <1>1, <1>2, <1>3, <1>4 DEF Signal, Stop, storeVars, reconcilerVars, TypeOK, Version

LEMMA StoreType ==
    ASSUME TypeOK,
           \/ \E h \in Handler, r \in Rule, i \in Interval \cup {Disabled} : Edit(h, r, i)
           \/ \E c \in Reconciler : ListRules(c)
           \/ StopReturn \/ CloseStore \/ UNCHANGED vars
    PROVE  TypeOK'
<1>1. ASSUME NEW h \in Handler, NEW r \in Rule, NEW i \in Interval \cup {Disabled}, Edit(h, r, i)
      PROVE  TypeOK'
  <2>1. edits' \in Version /\ rules' \in [Rule -> Interval \cup {Disabled}]
    BY <1>1, MaxEditsAssumption DEF Edit, TypeOK, Version
  <2>2. pc' \in [Reconciler -> {"idle", "list", "apply"}] BY <1>1 DEF Edit, TypeOK, Reconciler
  <2> QED BY <1>1, <2>1, <2>2 DEF Edit, schedVars, TypeOK, Task, Version
<1>2. ASSUME NEW c \in Reconciler, ListRules(c) PROVE TypeOK'
  <2>1. pc' \in [Reconciler -> {"idle", "list", "apply"}] BY <1>2 DEF ListRules, TypeOK
  <2>2. list' \in [Reconciler -> [rules : [Rule -> Interval \cup {Disabled}], version : Version]]
    <3>1. [rules |-> rules, version |-> edits] \in
             [rules : [Rule -> Interval \cup {Disabled}], version : Version]
      BY DEF TypeOK
    <3> QED BY <1>2, <3>1 DEF ListRules, TypeOK
  <2> QED BY <1>2, <2>1, <2>2 DEF ListRules, storeVars, schedVars, TypeOK, Task, Version
<1>3. CASE StopReturn \/ CloseStore
  BY <1>3 DEF StopReturn, CloseStore, storeVars, reconcilerVars, schedVars, TypeOK, Task, Version
<1>4. CASE UNCHANGED vars BY <1>4 DEF vars, TypeOK, Task, Version
<1> QED BY <1>1, <1>2, <1>3, <1>4

\* What the goroutine i of rule r does.
LoopStep(r, i) == Tick(r, i) \/ EvalReturns(r, i) \/ LoopExits(r, i)

LEMMA LoopStepType ==
    ASSUME TypeOK, NEW r \in Rule, NEW i \in 1 .. MaxTasks, LoopStep(r, i)
    PROVE  /\ TypeOK'
           /\ i \in DOMAIN tasks[r] /\ tasks[r][i].state # "done"
           /\ \E st \in {"wait", "eval", "done"} :
                 /\ tasks'[r] = [tasks[r] EXCEPT ![i].state = st]
                 /\ st = "done" => Done(tasks[r][i])
           /\ \A q \in Rule : q # r => tasks'[q] = tasks[q]
           /\ \A q \in Rule : Len(tasks'[q]) = Len(tasks[q]) /\ DOMAIN tasks'[q] = DOMAIN tasks[q]
           /\ UNCHANGED <<storeVars, reconcilerVars, schedVars, booted, signalled, stopper, applied>>
<1>1. CASE Tick(r, i) BY <1>1, SetStateType DEF Tick
<1>2. CASE EvalReturns(r, i) BY <1>2, SetStateType DEF EvalReturns
<1>3. CASE LoopExits(r, i) BY <1>3, SetStateType DEF LoopExits
<1> QED BY <1>1, <1>2, <1>3 DEF LoopStep

LEMMA NextType == TypeOK /\ [Next]_vars => TypeOK'
BY ReconcileType, StartType, CancelType, StoreType, LoopStepType DEF Next, LoopStep

LEMMA TypeInvariant == Spec => []TypeOK
BY InitType, NextType, PTL DEF Spec

(***************************************************************************)
(* LiveIsRunning.  The strengthening says which contexts can be left       *)
(* behind without being canceled: those that Reconcile made before Start,  *)
(* which hang off the background context, so that nothing cancels them     *)
(* later and Abandoned, once true, remains so.                             *)
(***************************************************************************)
RootInv ==
    /\ \A i \in DOMAIN roots : i # root /\ ~roots[i].canceled => roots[i].parent = "background"
    /\ ~booted => \A i \in DOMAIN roots : roots[i].parent = "background"

TimerInv == TypeOK /\ RootInv /\ LiveIsRunning

\* The steps that leave the contexts alone.
Plain ==
    \/ \E h \in Handler, r \in Rule, i \in Interval \cup {Disabled} : Edit(h, r, i)
    \/ \E c \in Reconciler : ListRules(c)
    \/ \E r \in Rule : \E i \in 1 .. MaxTasks : LoopStep(r, i)
    \/ StopReturn \/ CloseStore \/ UNCHANGED vars

LEMMA PlainKeeps ==
    ASSUME TypeOK, Plain
    PROVE  UNCHANGED <<roots, root, running, booted, signalled>>
BY LoopStepType
   DEF Plain, Edit, ListRules, StopReturn, CloseStore, vars, schedVars

LEMMA Cases ==
    ASSUME [Next]_vars
    PROVE  \/ \E c \in Reconciler : Reconcile(c)
           \/ Signal
           \/ Start
           \/ Stop
           \/ Plain
BY DEF Next, Plain, LoopStep

\* A context stays where it is, and canceled if it is.
LEMMA RootsKept ==
    ASSUME TypeOK, [Next]_vars
    PROVE  /\ DOMAIN roots = 1 .. Len(roots) /\ DOMAIN roots' = 1 .. Len(roots')
           /\ Len(roots) \in Nat /\ Len(roots') \in Nat /\ Len(roots) <= Len(roots')
           /\ \A i \in DOMAIN roots : /\ roots'[i].parent = roots[i].parent
                                      /\ roots[i].canceled => roots'[i].canceled
<1>1. TypeOK' BY NextType
<1>2. /\ DOMAIN roots = 1 .. Len(roots) /\ DOMAIN roots' = 1 .. Len(roots')
      /\ Len(roots) \in Nat /\ Len(roots') \in Nat
  BY <1>1, LenProperties DEF TypeOK
<1>3. ASSUME NEW c \in Reconciler, Reconcile(c)
      PROVE  Len(roots) <= Len(roots') /\ \A i \in DOMAIN roots : roots'[i] = roots[i]
  BY <1>2, <1>3, ReconcileRoots
<1>4. CASE Signal \/ Stop
  <2>1. Len(roots') = Len(roots) BY <1>4, CancelRoots
  <2>2. \A i \in DOMAIN roots : /\ roots'[i].parent = roots[i].parent
                                /\ roots[i].canceled => roots'[i].canceled
    BY <1>4, CancelRoots
  <2>3. Len(roots) <= Len(roots') BY <1>2, <2>1
  <2> QED BY <1>2, <2>2, <2>3
<1>5. CASE Start
  BY <1>2, <1>5, WithRootType DEF Start
<1>6. CASE Plain BY <1>2, <1>6, PlainKeeps
<1> QED BY <1>2, <1>3, <1>4, <1>5, <1>6, Cases

\* Nobody cancels an abandoned context.
LEMMA AbandonedStays ==
    ASSUME TypeOK, RootInv, [Next]_vars, Abandoned
    PROVE  Abandoned'
<1>1. PICK i \in DOMAIN roots : i # root /\ ~roots[i].canceled BY DEF Abandoned
<1>2. roots[i].parent = "background" /\ i \in DOMAIN roots' /\ i \in 1 .. Len(roots)
  BY <1>1, RootsKept DEF RootInv
<1>3. root \in 0 .. Len(roots) /\ Len(roots) \in Nat BY RootsKept DEF TypeOK
<1>4. ASSUME NEW c \in Reconciler, Reconcile(c) PROVE roots'[i] = roots[i] /\ i # root'
  BY <1>1, <1>2, <1>3, <1>4, ReconcileRoots
<1>5. CASE Signal
  <2>1. roots'[i].canceled = roots[i].canceled /\ root' = root
    BY <1>2, <1>5, CancelRoots DEF Signal
  <2> QED BY <1>1, <1>2, <2>1 DEF Abandoned
<1>6. CASE Start
  <2>1. roots'[i] = roots[i] /\ root' = Len(roots) + 1 BY <1>2, <1>6, WithRootType DEF Start
  <2> QED BY <1>1, <1>2, <1>3, <2>1 DEF Abandoned
<1>7. CASE Stop
  <2>1. roots'[i] = roots[i] /\ root' = 0 BY <1>1, <1>7, CancelRoots DEF Stop
  <2> QED BY <1>1, <1>2, <2>1 DEF Abandoned
<1>8. CASE Plain BY <1>1, <1>8, PlainKeeps DEF Abandoned
<1> QED BY <1>1, <1>2, <1>4, <1>5, <1>6, <1>7, <1>8, Cases DEF Abandoned

LEMMA RootStep ==
    ASSUME TypeOK, RootInv, [Next]_vars
    PROVE  RootInv'
<1>1. root \in 0 .. Len(roots) BY DEF TypeOK
<1>2. ASSUME NEW c \in Reconciler, Reconcile(c) PROVE RootInv'
  <2>1. booted' = booted BY <1>2 DEF Reconcile
  <2>2. CASE root # 0
    <3>1. root' = root /\ roots' = roots BY <1>2, <2>2, ReconcileRoots
    <3> QED BY <2>1, <3>1 DEF RootInv
  <2>3. CASE root = 0
    <3>1. /\ root' = Len(roots) + 1 /\ Len(roots') = Len(roots) + 1
          /\ roots'[root'].parent = "background"
          /\ \A i \in 1 .. Len(roots) : roots'[i] = roots[i]
      BY <1>2, <2>3, ReconcileRoots
    <3>2. \A i \in DOMAIN roots' : i = root' \/ (i \in DOMAIN roots /\ i # root /\ roots'[i] = roots[i])
      BY <2>3, <3>1, RootsKept
    <3> QED BY <2>1, <3>1, <3>2 DEF RootInv
  <2> QED BY <2>2, <2>3
<1>3. CASE Signal
  <2>1. DOMAIN roots' = DOMAIN roots BY <1>3, CancelRoots
  <2>2. \A i \in DOMAIN roots : /\ roots'[i].parent = roots[i].parent
                                /\ roots[i].canceled => roots'[i].canceled
    BY <1>3, CancelRoots
  <2>3. root' = root /\ booted' = booted BY <1>3 DEF Signal
  <2>4. ASSUME NEW i \in DOMAIN roots', i # root', ~roots'[i].canceled
        PROVE  roots'[i].parent = "background"
    <3>1. i \in DOMAIN roots /\ i # root /\ ~roots[i].canceled BY <2>1, <2>2, <2>3, <2>4
    <3> QED BY <2>2, <3>1 DEF RootInv
  <2>5. ~booted' => \A i \in DOMAIN roots' : roots'[i].parent = "background"
    BY <2>1, <2>2, <2>3 DEF RootInv
  <2> QED BY <2>4, <2>5 DEF RootInv
<1>4. CASE Start
  <2>1. /\ root' = Len(roots) + 1 /\ Len(roots') = Len(roots) + 1 /\ booted' = TRUE /\ ~booted
        /\ \A i \in 1 .. Len(roots) : roots'[i] = roots[i]
    BY <1>4, WithRootType DEF Start
  <2>2. \A i \in DOMAIN roots' : i = root' \/ (i \in DOMAIN roots /\ roots'[i] = roots[i])
    BY <2>1, RootsKept
  <2> QED BY <2>1, <2>2 DEF RootInv
<1>5. CASE Stop
  <2>1. /\ DOMAIN roots' = DOMAIN roots /\ root' = 0 /\ booted' = booted
        /\ root # 0 => roots'[root].canceled
        /\ \A i \in DOMAIN roots : i # root => roots'[i] = roots[i]
        /\ \A i \in DOMAIN roots : roots'[i].parent = roots[i].parent
    BY <1>5, CancelRoots DEF Stop
  <2>2. 0 \notin DOMAIN roots BY RootsKept
  <2> QED BY <2>1, <2>2 DEF RootInv
<1>6. CASE Plain BY <1>6, PlainKeeps DEF RootInv
<1> QED BY <1>2, <1>3, <1>4, <1>5, <1>6, Cases

\* Live, of a goroutine t and contexts rs.
LiveIn(t, rs) == t.state # "done" /\ ~t.canceled /\ ~rs[t.root].canceled

\* If no context but root was left alive, Reconcile keeps one live goroutine a rule.
LEMMA ReconcileLive ==
    ASSUME TypeOK, NEW c \in Reconciler, Reconcile(c), [Next]_vars,
           \A i \in DOMAIN roots : i # root => roots[i].canceled,
           NEW r \in Rule, NEW i \in DOMAIN tasks'[r],
           \A j \in DOMAIN tasks[r] : LiveIn(tasks[r][j], roots) => running[r] = j,
           LiveIn(tasks'[r][i], roots')
    PROVE  running'[r] = i
<1>1. /\ tasks[r] \in Seq(Task) /\ Len(tasks[r]) \in Nat /\ DOMAIN tasks[r] = 1 .. Len(tasks[r])
      /\ running[r] \in 0 .. Len(tasks[r])
  BY LenProperties DEF TypeOK
<1>2. \A j \in 1 .. Len(tasks[r]) : tasks[r][j].root \in 1 .. Len(roots)
  <2>1. \A j \in 1 .. Len(tasks[r]) : tasks[r][j] \in Task BY <1>1, ElementOfSeq
  <2> QED BY <2>1 DEF Task
<1>3. ASSUME NEW j \in 1 .. Len(tasks[r]), LiveIn(tasks[r][j], roots') PROVE running[r] = j
  <2>1. ~roots[tasks[r][j].root].canceled BY <1>2, <1>3, RootsKept DEF LiveIn
  <2> QED BY <1>1, <1>3, <2>1 DEF LiveIn
<1>4. CASE Kept(r, list[c].rules)
  <2>1. tasks'[r] = tasks[r] /\ running'[r] = running[r] BY <1>4, ReconcileTasks
  <2> QED BY <1>1, <1>3, <2>1
<1>5. ASSUME NEW j \in 1 .. Len(tasks[r]) PROVE ~LiveIn(Canceled(r)[j], roots')
  <2>1. CASE j = running[r]
    <3>1. Canceled(r)[j] = [tasks[r][j] EXCEPT !.canceled = TRUE] BY <2>1, CanceledType
    <3>2. tasks[r][j] \in Task BY <1>1, ElementOfSeq
    <3> QED BY <3>1, <3>2 DEF LiveIn, Task
  <2>2. CASE j # running[r]
    <3>1. Canceled(r)[j] = tasks[r][j] BY <2>2, CanceledType
    <3> QED BY <1>3, <2>2, <3>1
  <2> QED BY <2>1, <2>2
<1>6. Canceled(r) \in Seq(Task) /\ Len(Canceled(r)) = Len(tasks[r]) BY CanceledType
<1>7. CASE ~Kept(r, list[c].rules) /\ list[c].rules[r] = Disabled
  <2>1. tasks'[r] = Canceled(r) BY <1>7, ReconcileTasks
  <2>2. i \in 1 .. Len(tasks[r]) BY <1>6, <2>1, LenProperties
  <2> QED BY <1>5, <2>1, <2>2
<1>8. CASE ~Kept(r, list[c].rules) /\ list[c].rules[r] # Disabled
  <2> DEFINE new == NewTask(list[c].rules[r], root')
  <2>1. tasks'[r] = Append(Canceled(r), new) /\ running'[r] = Len(tasks[r]) + 1
    BY <1>8, ReconcileTasks
  <2> HIDE DEF new
  <2>2. DOMAIN tasks'[r] = 1 .. Len(tasks[r]) + 1
        /\ \A j \in 1 .. Len(tasks[r]) : tasks'[r][j] = Canceled(r)[j]
    BY <1>1, <1>6, <2>1
  <2>3. CASE i \in 1 .. Len(tasks[r]) BY <1>5, <2>2, <2>3
  <2>4. CASE i = Len(tasks[r]) + 1 BY <2>1, <2>4
  <2> QED BY <1>1, <2>2, <2>3, <2>4
<1> QED BY <1>4, <1>7, <1>8

LEMMA LiveStep ==
    ASSUME TypeOK, RootInv, LiveIsRunning, [Next]_vars
    PROVE  LiveIsRunning'
<1> SUFFICES ASSUME ~Abandoned', NEW r \in Rule, NEW i \in DOMAIN tasks'[r],
                    LiveIn(tasks'[r][i], roots')
             PROVE  running'[r] = i
  BY DEF LiveIsRunning, Live, Done, LiveIn
<1>1. \A j \in DOMAIN roots : j # root => roots[j].canceled
  BY AbandonedStays DEF Abandoned
<1>2. \A j \in DOMAIN tasks[r] : LiveIn(tasks[r][j], roots) => running[r] = j
  BY <1>1 DEF LiveIsRunning, Abandoned, Live, Done, LiveIn
<1>3. /\ tasks[r] \in Seq(Task) /\ DOMAIN tasks[r] = 1 .. Len(tasks[r])
      /\ \A j \in DOMAIN tasks[r] : tasks[r][j] \in Task
  BY LenProperties, ElementOfSeq DEF TypeOK
<1>4. \A j \in DOMAIN tasks[r] : tasks[r][j].root \in DOMAIN roots
  BY <1>3, RootsKept DEF Task
<1>5. ASSUME tasks'[r] = tasks[r], running'[r] = running[r] PROVE running'[r] = i
  BY <1>2, <1>4, <1>5, RootsKept DEF LiveIn
<1>6. ASSUME NEW c \in Reconciler, Reconcile(c) PROVE running'[r] = i
  BY <1>1, <1>2, <1>6, ReconcileLive
<1>7. CASE Signal BY <1>5, <1>7 DEF Signal
<1>8. CASE Start BY <1>5, <1>8 DEF Start
<1>9. CASE Stop
  <2>1. root' = 0 /\ tasks' = tasks BY <1>9 DEF Stop
  <2>2. tasks[r][i].root \in DOMAIN roots' /\ tasks[r][i].root # root'
    BY <1>4, <2>1, RootsKept
  <2>3. roots'[tasks[r][i].root].canceled BY <2>2 DEF Abandoned
  <2> QED BY <2>1, <2>3 DEF LiveIn
<1>10. ASSUME NEW q \in Rule, NEW k \in 1 .. MaxTasks, LoopStep(q, k) PROVE running'[r] = i
  <2>1. running' = running /\ roots' = roots /\ DOMAIN tasks'[r] = DOMAIN tasks[r]
    BY <1>10, LoopStepType DEF schedVars
  <2>2. CASE q # r BY <1>5, <1>10, <2>1, <2>2, LoopStepType
  <2>3. CASE q = r
    <3>1. PICK st \in {"wait", "eval", "done"} : tasks'[r] = [tasks[r] EXCEPT ![k].state = st]
      BY <1>10, <2>3, LoopStepType
    <3>2. k \in DOMAIN tasks[r] /\ tasks[r][k].state # "done" BY <1>10, <2>3, LoopStepType
    <3>3. LiveIn(tasks[r][i], roots)
      <4>1. CASE i = k
        <5>1. tasks'[r][i] = [tasks[r][i] EXCEPT !.state = st] BY <1>3, <3>1, <3>2, <4>1
        <5> QED BY <1>3, <2>1, <3>2, <4>1, <5>1 DEF LiveIn, Task
      <4>2. CASE i # k
        <5>1. tasks'[r][i] = tasks[r][i] BY <1>3, <2>1, <3>1, <4>2
        <5> QED BY <2>1, <5>1
      <4> QED BY <4>1, <4>2
    <3> QED BY <1>2, <2>1, <3>3
  <2> QED BY <2>2, <2>3
<1>11. CASE \/ \E h \in Handler, q \in Rule, k \in Interval \cup {Disabled} : Edit(h, q, k)
            \/ \E c \in Reconciler : ListRules(c)
            \/ StopReturn \/ CloseStore \/ UNCHANGED vars
  <2>1. tasks' = tasks /\ running' = running
    BY <1>11 DEF Edit, ListRules, StopReturn, CloseStore, vars, schedVars
  <2> QED BY <1>5, <2>1
<1> QED BY <1>6, <1>7, <1>8, <1>9, <1>10, <1>11, Cases DEF Plain

LEMMA TimerInvariant == Spec => []TimerInv
<1>1. Init => TimerInv
  BY InitType DEF Init, TimerInv, RootInv, LiveIsRunning
<1>2. TimerInv /\ [Next]_vars => TimerInv'
  BY NextType, RootStep, LiveStep DEF TimerInv
<1> QED BY <1>1, <1>2, PTL DEF Spec

\* No rule is evaluated by two timers, and Reconcile and Stop reach every goroutine
\* that runs (scheduler.go:58-123), in every order of requests, Start, the signal and
\* Stop, unless Start has abandoned the context an early Reconcile made.
THEOREM OneTimerPerRule == Spec => []OneTimer
BY TimerInvariant, PTL DEF TimerInv, OneTimer

(***************************************************************************)
(* QuietStore.  Once Stop has returned, every goroutine is done until      *)
(* someone arms the scheduler again.                                       *)
(***************************************************************************)
QuietInv ==
    stopper \in {"returned", "closed"} /\ root = 0 =>
        \A r \in Rule : \A i \in DOMAIN tasks[r] : tasks[r][i].state = "done"

LEMMA QuietStep ==
    ASSUME TypeOK, QuietInv, [Next]_vars
    PROVE  QuietInv'
<1>1. ASSUME NEW c \in Reconciler, Reconcile(c) PROVE QuietInv'
  BY <1>1, ReconcileRoots DEF QuietInv
<1>2. CASE Start
  <2>1. root' = Len(roots) + 1 /\ Len(roots) \in Nat BY <1>2, RootsKept DEF Start
  <2> QED BY <2>1 DEF QuietInv
<1>3. CASE Stop BY <1>3 DEF Stop, QuietInv
<1>4. CASE StopReturn BY <1>4 DEF StopReturn, QuietInv
<1>5. ASSUME NEW r \in Rule, NEW i \in 1 .. MaxTasks, LoopStep(r, i) PROVE QuietInv'
  <2>1. i \in DOMAIN tasks[r] /\ tasks[r][i].state # "done" /\ UNCHANGED <<root, stopper>>
    BY <1>5, LoopStepType DEF schedVars
  <2> QED BY <2>1 DEF QuietInv
<1>6. CASE \/ \E h \in Handler, r \in Rule, i \in Interval \cup {Disabled} : Edit(h, r, i)
           \/ \E c \in Reconciler : ListRules(c)
           \/ Signal \/ CloseStore \/ UNCHANGED vars
  <2>1. UNCHANGED <<tasks, root>> /\ (stopper' = stopper \/ stopper = "returned")
    BY <1>6 DEF Edit, ListRules, Signal, CloseStore, vars, schedVars
  <2> QED BY <2>1 DEF QuietInv
<1> QED BY <1>1, <1>2, <1>3, <1>4, <1>5, <1>6, Cases DEF Plain

\* When Stop has returned, no evaluation reads or writes the store any more and none
\* will, so that Service.Stop may close it (alerts.go:133-142), unless a late Start or
\* request arms the scheduler again.
THEOREM NothingAfterStop == Spec => []QuietStore
<1>1. Init => QuietInv BY DEF Init, QuietInv
<1>2. TypeOK /\ QuietInv /\ [Next]_vars => QuietInv' BY QuietStep
<1>3. QuietInv => QuietStore BY DEF QuietInv, QuietStore, Rearmed, Live
<1> QED BY <1>1, <1>2, <1>3, TypeInvariant, PTL DEF Spec

(***************************************************************************)
(* NewestListWins.  A list of the newest version is the store's, and what  *)
(* Reconcile leaves running for it stays alive until the signal.           *)
(***************************************************************************)
Newest == \A c \in Reconciler : pc[c] = "apply" /\ list[c].version = edits => list[c].rules = rules

Bounded == applied <= edits /\ \A c \in Reconciler : list[c].version <= edits

Alive ==
    /\ stopper # "none" => signalled
    /\ ~signalled => \A i \in DOMAIN roots : ~roots[i].canceled
    /\ \A r \in Rule : running[r] # 0 => ~tasks[r][running[r]].canceled
    /\ \A r \in Rule : \A i \in DOMAIN tasks[r] : tasks[r][i].state = "done" => Done(tasks[r][i])

Runs(r) == IF rules[r] = Disabled THEN running[r] = 0
           ELSE running[r] # 0 /\ tasks[r][running[r]].interval = rules[r]

\* Version 0 is applied once Service.Start has been through reconcile.
NewestRuns ==
    ~signalled /\ applied = edits /\ (edits > 0 \/ (booted /\ pc[Boot] = "idle")) =>
        \A r \in Rule : Runs(r)

NewestInv == Newest /\ Bounded /\ Alive /\ NewestRuns

LEMMA NewestMatches ==
    ASSUME TypeOK, NewestInv
    PROVE  NewestListWins
<1> SUFFICES ASSUME Quiet, applied = edits, NEW r \in Rule
             PROVE  IF rules[r] = Disabled THEN running[r] = 0
                    ELSE /\ running[r] # 0
                         /\ tasks[r][running[r]].interval = rules[r]
                         /\ Live(tasks[r][running[r]])
  BY DEF NewestListWins, Matches
<1>1. ~signalled /\ booted /\ pc[Boot] = "idle" BY DEF Quiet, Reconciler
<1>2. Runs(r) BY <1>1 DEF NewestInv, NewestRuns
<1>3. ASSUME running[r] # 0 PROVE Live(tasks[r][running[r]])
  <2>1. tasks[r] \in Seq(Task) /\ running[r] \in 1 .. Len(tasks[r])
    BY <1>3, LenProperties DEF TypeOK
  <2>2. tasks[r][running[r]] \in Task /\ running[r] \in DOMAIN tasks[r]
    BY <2>1, ElementOfSeq, LenProperties
  <2>3. tasks[r][running[r]].root \in DOMAIN roots
    BY <2>2, LenProperties DEF Task, TypeOK
  <2> QED BY <1>1, <1>3, <2>2, <2>3 DEF NewestInv, Alive, Live, Done
<1> QED BY <1>2, <1>3 DEF Runs

\* What Reconcile makes of the goroutines of a rule.
LEMMA ReconcileTask ==
    ASSUME TypeOK, Alive, NEW c \in Reconciler, Reconcile(c), NEW r \in Rule
    PROVE  /\ list[c].rules[r] = Disabled => running'[r] = 0
           /\ list[c].rules[r] # Disabled =>
                 running'[r] # 0 /\ tasks'[r][running'[r]].interval = list[c].rules[r]
           /\ running'[r] # 0 => ~tasks'[r][running'[r]].canceled
           /\ \A i \in DOMAIN tasks'[r] : tasks'[r][i].state = "done" =>
                 /\ i \in DOMAIN tasks[r] /\ tasks[r][i].state = "done"
                 /\ tasks'[r][i].root = tasks[r][i].root
                 /\ tasks[r][i].canceled => tasks'[r][i].canceled
<1> DEFINE d == list[c].rules
<1>1. /\ tasks[r] \in Seq(Task) /\ Len(tasks[r]) \in Nat /\ DOMAIN tasks[r] = 1 .. Len(tasks[r])
      /\ running[r] \in 0 .. Len(tasks[r])
      /\ \A i \in 1 .. Len(tasks[r]) : tasks[r][i] \in Task
  BY LenProperties, ElementOfSeq DEF TypeOK
<1>2. CASE Kept(r, d)
  <2>1. d[r] # Disabled /\ tasks'[r] = tasks[r] /\ running'[r] = running[r] BY <1>2, ReconcileTasks
  <2>2. running[r] # 0 /\ tasks[r][running[r]].interval = d[r] BY <1>2 DEF Kept
  <2>3. ~tasks[r][running[r]].canceled BY <2>2 DEF Alive
  <2> QED BY <2>1, <2>2, <2>3
<1>3. /\ Canceled(r) \in Seq(Task) /\ Len(Canceled(r)) = Len(tasks[r])
      /\ DOMAIN Canceled(r) = 1 .. Len(tasks[r])
  BY CanceledType, LenProperties
<1>4. ASSUME NEW i \in 1 .. Len(tasks[r])
      PROVE  /\ Canceled(r)[i].state = tasks[r][i].state
             /\ Canceled(r)[i].root = tasks[r][i].root
             /\ tasks[r][i].canceled => Canceled(r)[i].canceled
  <2>1. CASE i = running[r]
    <3>1. Canceled(r)[i] = [tasks[r][i] EXCEPT !.canceled = TRUE] BY <2>1, CanceledType
    <3> QED BY <1>1, <3>1 DEF Task
  <2>2. CASE i # running[r] BY <2>2, CanceledType
  <2> QED BY <2>1, <2>2
<1>5. CASE ~Kept(r, d) /\ d[r] = Disabled
  <2>1. tasks'[r] = Canceled(r) /\ running'[r] = 0 BY <1>5, ReconcileTasks
  <2> QED BY <1>1, <1>3, <1>4, <1>5, <2>1
<1>6. CASE ~Kept(r, d) /\ d[r] # Disabled
  <2> DEFINE new == NewTask(d[r], root')
  <2>1. tasks'[r] = Append(Canceled(r), new) /\ running'[r] = Len(tasks[r]) + 1
    BY <1>6, ReconcileTasks
  <2>2. new.interval = d[r] /\ ~new.canceled /\ new.state = "wait" BY DEF NewTask
  <2> HIDE DEF new
  <2>3. /\ DOMAIN tasks'[r] = 1 .. Len(tasks[r]) + 1
        /\ \A j \in 1 .. Len(tasks[r]) : tasks'[r][j] = Canceled(r)[j]
        /\ tasks'[r][Len(tasks[r]) + 1] = new
    BY <1>1, <1>3, <2>1
  <2>4. running'[r] # 0 /\ tasks'[r][running'[r]] = new BY <1>1, <2>1, <2>3
  <2>5. ASSUME NEW i \in DOMAIN tasks'[r], tasks'[r][i].state = "done"
        PROVE  i \in 1 .. Len(tasks[r])
    BY <1>1, <2>2, <2>3, <2>5
  <2> QED BY <1>1, <1>4, <1>6, <2>2, <2>3, <2>4, <2>5
<1> QED BY <1>2, <1>5, <1>6

\* What a step of a goroutine changes of any: its state, to done if it is canceled.
LEMMA LoopTask ==
    ASSUME TypeOK, NEW q \in Rule, NEW k \in 1 .. MaxTasks, LoopStep(q, k),
           NEW r \in Rule, NEW i \in DOMAIN tasks[r]
    PROVE  /\ tasks'[r][i].interval = tasks[r][i].interval
           /\ tasks'[r][i].root = tasks[r][i].root
           /\ tasks'[r][i].canceled = tasks[r][i].canceled
           /\ tasks'[r][i].state = "done" => tasks[r][i].state = "done" \/ Done(tasks[r][i])
<1>1. /\ DOMAIN tasks[r] = 1 .. Len(tasks[r])
      /\ \A j \in DOMAIN tasks[r] : tasks[r][j] \in Task
  BY LenProperties, ElementOfSeq DEF TypeOK
<1>2. CASE q # r BY <1>2, LoopStepType
<1>3. CASE q = r
  <2>1. PICK st \in {"wait", "eval", "done"} :
           /\ tasks'[r] = [tasks[r] EXCEPT ![k].state = st]
           /\ st = "done" => Done(tasks[r][k])
    BY <1>3, LoopStepType
  <2>2. k \in DOMAIN tasks[r] BY <1>3, LoopStepType
  <2>3. CASE i = k
    <3>1. tasks'[r][i] = [tasks[r][i] EXCEPT !.state = st] BY <2>1, <2>3
    <3> QED BY <1>1, <2>1, <2>3, <3>1 DEF Task
  <2>4. CASE i # k
    <3>1. tasks'[r][i] = tasks[r][i] BY <1>1, <2>1, <2>4
    <3> QED BY <3>1
  <2> QED BY <2>3, <2>4
<1> QED BY <1>2, <1>3

\* Only Reconcile and the goroutines themselves touch the goroutines.
LEMMA TasksKept ==
    ASSUME [Next]_vars
    PROVE  \/ \E c \in Reconciler : Reconcile(c)
           \/ \E q \in Rule : \E k \in 1 .. MaxTasks : LoopStep(q, k)
           \/ tasks' = tasks /\ (running' = running \/ Stop)
BY DEF Next, LoopStep, Edit, ListRules, Signal, Start, Stop, StopReturn, CloseStore, vars, schedVars

LEMMA NewestKept ==
    ASSUME TypeOK, Newest, Bounded, [Next]_vars
    PROVE  Newest' /\ Bounded'
<1>1. /\ edits \in Nat /\ applied \in Nat
      /\ \A c \in Reconciler : list[c].version \in Nat
  <2>1. Version \subseteq Nat BY MaxEditsAssumption DEF Version
  <2>2. \A c \in Reconciler : list[c].version \in Version BY DEF TypeOK
  <2> QED BY <2>1, <2>2 DEF TypeOK
<1>2. ASSUME NEW h \in Handler, NEW r \in Rule, NEW i \in Interval \cup {Disabled}, Edit(h, r, i)
      PROVE  Newest' /\ Bounded'
  <2>1. edits' = edits + 1 /\ list' = list /\ applied' = applied BY <1>2 DEF Edit
  <2>2. \A c \in Reconciler : list[c].version <= edits BY DEF Bounded
  <2>3. \A c \in Reconciler : list'[c].version <= edits' /\ list'[c].version # edits'
    BY <1>1, <2>1, <2>2
  <2>4. applied' <= edits' BY <1>1, <2>1 DEF Bounded
  <2> QED BY <2>3, <2>4 DEF Newest, Bounded
<1>3. ASSUME NEW c \in Reconciler, ListRules(c) PROVE Newest' /\ Bounded'
  <2>1. UNCHANGED <<rules, edits, applied>> BY <1>3 DEF ListRules, storeVars
  <2>2. \A b \in Reconciler : b # c => list'[b] = list[b] /\ pc'[b] = pc[b]
    BY <1>3 DEF ListRules, TypeOK
  <2>3. \/ list' = list /\ pc'[c] = "idle"
        \/ list'[c].version = edits /\ list'[c].rules = rules
    BY <1>3 DEF ListRules, TypeOK
  <2>4. Newest' BY <2>1, <2>2, <2>3 DEF Newest
  <2>5. \A b \in Reconciler : list'[b].version <= edits
    BY <1>1, <2>2, <2>3 DEF Bounded
  <2> QED BY <2>1, <2>4, <2>5 DEF Bounded
<1>4. ASSUME NEW c \in Reconciler, Reconcile(c) PROVE Newest' /\ Bounded'
  <2>1. /\ UNCHANGED <<rules, edits>> /\ applied' = list[c].version
        /\ pc'[c] = "idle" /\ list'[c].version = 0
    BY <1>4 DEF Reconcile, storeVars, TypeOK
  <2>2. \A b \in Reconciler : b # c => list'[b] = list[b] /\ pc'[b] = pc[b]
    BY <1>4 DEF Reconcile, TypeOK
  <2>3. Newest' BY <2>1, <2>2 DEF Newest
  <2>4. \A b \in Reconciler : list'[b].version <= edits
    BY <1>1, <2>1, <2>2 DEF Bounded
  <2> QED BY <2>1, <2>3, <2>4 DEF Bounded
<1>5. CASE Start
  <2>1. UNCHANGED <<rules, edits, applied, list>> BY <1>5 DEF Start, storeVars
  <2>2. \A b \in Reconciler : pc'[b] = "apply" => pc[b] = "apply" BY <1>5 DEF Start, TypeOK
  <2> QED BY <2>1, <2>2 DEF Newest, Bounded
<1>6. CASE UNCHANGED <<rules, edits, applied, list, pc>> BY <1>6 DEF Newest, Bounded
<1>7. ASSUME NEW q \in Rule, NEW k \in 1 .. MaxTasks, LoopStep(q, k) PROVE Newest' /\ Bounded'
  BY <1>6, <1>7, LoopStepType DEF storeVars, reconcilerVars
<1>8. CASE Signal \/ Stop \/ StopReturn \/ CloseStore \/ UNCHANGED vars
  BY <1>6, <1>8 DEF Signal, Stop, StopReturn, CloseStore, vars, storeVars, reconcilerVars
<1> QED BY <1>2, <1>3, <1>4, <1>5, <1>7, <1>8, Cases DEF Plain

\* A root made before the signal is not canceled.
LEMMA FreshRoots ==
    ASSUME TypeOK, ~signalled, \A i \in DOMAIN roots : ~roots[i].canceled,
           NEW parent \in {"main", "background"}
    PROVE  \A i \in DOMAIN WithRoot(parent) : ~WithRoot(parent)[i].canceled
<1> DEFINE new == [parent |-> parent, canceled |-> parent = "main" /\ signalled]
<1>1. ~new.canceled OBVIOUS
<1>2. roots \in Seq([parent : {"main", "background"}, canceled : BOOLEAN]) BY DEF TypeOK
<1> HIDE DEF new
<1>3. Append(roots, new)[Len(roots) + 1] = new
      /\ \A i \in 1 .. Len(roots) : Append(roots, new)[i] = roots[i]
  BY <1>2
<1>4. WithRoot(parent) = Append(roots, new) BY DEF WithRoot, new
<1>5. DOMAIN WithRoot(parent) = 1 .. Len(roots) + 1 /\ DOMAIN roots = 1 .. Len(roots)
  BY <1>2, WithRootType, LenProperties
<1>6. Len(roots) \in Nat BY <1>2, LenProperties
<1>7. ASSUME NEW i \in 1 .. Len(roots) + 1 PROVE i \in 1 .. Len(roots) \/ i = Len(roots) + 1
  BY <1>6
<1> QED BY <1>1, <1>3, <1>4, <1>5, <1>7

LEMMA AliveStep ==
    ASSUME TypeOK, Alive, [Next]_vars
    PROVE  Alive'
<1>1. (stopper # "none" => signalled)'
  <2>1. \/ stopper' = stopper /\ signalled' = signalled
        \/ Signal /\ stopper' = stopper
        \/ stopper' # "none" /\ signalled' = signalled /\ (signalled \/ stopper # "none")
    <3>1. ASSUME NEW q \in Rule, NEW k \in 1 .. MaxTasks, LoopStep(q, k)
          PROVE  stopper' = stopper /\ signalled' = signalled
      BY <3>1, LoopStepType
    <3> QED BY <3>1, Cases
      DEF Plain, Edit, ListRules, Reconcile, Signal, Start, Stop, StopReturn, CloseStore, vars
  <2> QED BY <2>1 DEF Alive, Signal
<1>2. (~signalled => \A i \in DOMAIN roots : ~roots[i].canceled)'
  <2> SUFFICES ASSUME ~signalled' PROVE \A i \in DOMAIN roots' : ~roots'[i].canceled OBVIOUS
  <2>1. ~Signal BY DEF Signal
  <2>2. signalled' = signalled
    BY <2>1, PlainKeeps, Cases DEF Reconcile, Start, Stop
  <2>3. \A i \in DOMAIN roots : ~roots[i].canceled BY <2>2 DEF Alive
  <2>4. ASSUME NEW c \in Reconciler, Reconcile(c)
        PROVE  roots' = roots \/ roots' = WithRoot("background")
    BY <2>4 DEF Reconcile
  <2>5. CASE Start BY <2>2, <2>3, <2>5, FreshRoots DEF Start
  <2>6. ~Stop BY <2>2 DEF Stop
  <2>7. CASE Plain BY <2>3, <2>7, PlainKeeps
  <2>8. ASSUME NEW c \in Reconciler, Reconcile(c)
        PROVE  \A i \in DOMAIN roots' : ~roots'[i].canceled
    BY <2>2, <2>3, <2>4, <2>8, FreshRoots
  <2> QED BY <2>1, <2>5, <2>6, <2>7, <2>8, Cases
<1>3. (\A r \in Rule : running[r] # 0 => ~tasks[r][running[r]].canceled)'
  <2> SUFFICES ASSUME NEW r \in Rule, running'[r] # 0
               PROVE  ~tasks'[r][running'[r]].canceled
    OBVIOUS
  <2>1. ASSUME NEW c \in Reconciler, Reconcile(c) PROVE ~tasks'[r][running'[r]].canceled
    BY <2>1, ReconcileTask
  <2>2. ASSUME NEW q \in Rule, NEW k \in 1 .. MaxTasks, LoopStep(q, k)
        PROVE  ~tasks'[r][running'[r]].canceled
    <3>1. running' = running BY <2>2, LoopStepType DEF schedVars
    <3>2. running[r] \in DOMAIN tasks[r]
      <4>1. running[r] \in 0 .. Len(tasks[r]) /\ tasks[r] \in Seq(Task) BY DEF TypeOK
      <4>2. DOMAIN tasks[r] = 1 .. Len(tasks[r]) /\ Len(tasks[r]) \in Nat BY <4>1, LenProperties
      <4> QED BY <3>1, <4>1, <4>2
    <3>3. ~tasks[r][running[r]].canceled BY <3>1 DEF Alive
    <3>4. tasks'[r][running[r]].canceled = tasks[r][running[r]].canceled
      BY <2>2, <3>2, LoopTask
    <3> QED BY <3>1, <3>3, <3>4
  <2>3. CASE tasks' = tasks /\ (running' = running \/ Stop)
    <3>1. CASE running' = running BY <2>3, <3>1 DEF Alive
    <3>2. CASE Stop BY <3>2 DEF Stop
    <3> QED BY <2>3, <3>1, <3>2
  <2> QED BY <2>1, <2>2, <2>3, TasksKept
<1>4. (\A r \in Rule : \A i \in DOMAIN tasks[r] : tasks[r][i].state = "done" => Done(tasks[r][i]))'
  <2> SUFFICES ASSUME NEW r \in Rule, NEW i \in DOMAIN tasks'[r], tasks'[r][i].state = "done"
               PROVE  tasks'[r][i].canceled \/ roots'[tasks'[r][i].root].canceled
    BY DEF Done
  <2>1. /\ DOMAIN tasks[r] = 1 .. Len(tasks[r])
        /\ \A j \in DOMAIN tasks[r] : tasks[r][j] \in Task
    BY LenProperties, ElementOfSeq DEF TypeOK
  <2>2. \A j \in DOMAIN tasks[r] : tasks[r][j].root \in DOMAIN roots
    BY <2>1, RootsKept DEF Task
  <2>3. ASSUME i \in DOMAIN tasks[r], Done(tasks[r][i]),
               tasks'[r][i].root = tasks[r][i].root,
               tasks[r][i].canceled => tasks'[r][i].canceled
        PROVE  tasks'[r][i].canceled \/ roots'[tasks'[r][i].root].canceled
    BY <2>2, <2>3, RootsKept DEF Done
  <2>4. ASSUME NEW c \in Reconciler, Reconcile(c)
        PROVE  tasks'[r][i].canceled \/ roots'[tasks'[r][i].root].canceled
    <3>1. /\ i \in DOMAIN tasks[r] /\ tasks[r][i].state = "done"
          /\ tasks'[r][i].root = tasks[r][i].root
          /\ tasks[r][i].canceled => tasks'[r][i].canceled
      BY <2>4, ReconcileTask
    <3>2. Done(tasks[r][i]) BY <3>1 DEF Alive
    <3> QED BY <2>3, <3>1, <3>2
  <2>5. ASSUME NEW q \in Rule, NEW k \in 1 .. MaxTasks, LoopStep(q, k)
        PROVE  tasks'[r][i].canceled \/ roots'[tasks'[r][i].root].canceled
    <3>1. i \in DOMAIN tasks[r] BY <2>5, LoopStepType
    <3>2. /\ tasks'[r][i].root = tasks[r][i].root
          /\ tasks'[r][i].canceled = tasks[r][i].canceled
          /\ tasks[r][i].state = "done" \/ Done(tasks[r][i])
      BY <2>5, <3>1, LoopTask
    <3>3. Done(tasks[r][i]) BY <3>1, <3>2 DEF Alive
    <3> QED BY <2>3, <3>1, <3>2, <3>3
  <2>6. CASE tasks' = tasks
    <3>1. i \in DOMAIN tasks[r] /\ Done(tasks[r][i]) BY <2>6 DEF Alive
    <3> QED BY <2>3, <2>6, <3>1
  <2> QED BY <2>4, <2>5, <2>6, TasksKept
<1> QED BY <1>1, <1>2, <1>3, <1>4 DEF Alive

LEMMA NewestRunsStep ==
    ASSUME TypeOK, NewestInv, [Next]_vars
    PROVE  NewestRuns'
<1> SUFFICES ASSUME ~signalled', applied' = edits', edits' > 0 \/ (booted' /\ pc'[Boot] = "idle"),
                    NEW r \in Rule
             PROVE  Runs(r)'
  BY DEF NewestRuns
<1>1. edits \in Nat /\ applied \in Nat
  <2>1. Version \subseteq Nat BY MaxEditsAssumption DEF Version
  <2> QED BY <2>1 DEF TypeOK
<1>2. ASSUME UNCHANGED <<rules, edits, applied, signalled, booted, running, tasks>>,
             pc'[Boot] = pc[Boot]
      PROVE  Runs(r)'
  BY <1>2 DEF NewestInv, NewestRuns, Runs
<1>3. ASSUME NEW c \in Reconciler, Reconcile(c) PROVE Runs(r)'
  <2>1. /\ UNCHANGED <<rules, edits>> /\ list[c].version = edits /\ pc[c] = "apply"
    BY <1>3 DEF Reconcile, storeVars
  <2>2. list[c].rules = rules BY <2>1 DEF NewestInv, Newest
  <2>3. Alive BY DEF NewestInv
  <2> QED BY <1>3, <2>1, <2>2, <2>3, ReconcileTask DEF Runs
<1>4. ASSUME NEW h \in Handler, NEW q \in Rule, NEW i \in Interval \cup {Disabled}, Edit(h, q, i)
      PROVE  FALSE
  BY <1>1, <1>4 DEF Edit, NewestInv, Bounded
<1>5. ASSUME NEW c \in Reconciler, ListRules(c) PROVE Runs(r)'
  <2>1. UNCHANGED <<rules, edits, applied, signalled, booted, running, tasks, stopper>>
    BY <1>5 DEF ListRules, storeVars, schedVars
  <2>2. CASE c # Boot
    <3>1. pc'[Boot] = pc[Boot] BY <1>5, <2>2 DEF ListRules, TypeOK, Reconciler
    <3> QED BY <1>2, <2>1, <3>1
  <2>3. CASE c = Boot
    <3>1. stopper # "closed" BY <2>1 DEF NewestInv, Alive
    <3>2. pc'[Boot] = "apply" BY <1>5, <2>3, <3>1 DEF ListRules, TypeOK
    <3>3. edits > 0 BY <2>1, <3>2
    <3> QED BY <2>1, <3>3 DEF NewestInv, NewestRuns, Runs
  <2> QED BY <2>2, <2>3
<1>6. CASE Start
  <2>1. UNCHANGED <<rules, edits, applied, signalled, running, tasks>> /\ pc'[Boot] = "list"
    BY <1>6 DEF Start, storeVars, TypeOK, Reconciler
  <2>2. edits > 0 BY <2>1
  <2> QED BY <2>1, <2>2 DEF NewestInv, NewestRuns, Runs
<1>7. ~Signal BY DEF Signal
<1>8. ~Stop BY DEF Stop
<1>9. ASSUME NEW q \in Rule, NEW k \in 1 .. MaxTasks, LoopStep(q, k) PROVE Runs(r)'
  <2>1. UNCHANGED <<rules, edits, applied, signalled, booted, running, pc>>
    BY <1>9, LoopStepType DEF storeVars, reconcilerVars, schedVars
  <2>2. Runs(r) BY <2>1 DEF NewestInv, NewestRuns
  <2>3. CASE rules[r] = Disabled BY <2>1, <2>2, <2>3 DEF Runs
  <2>4. CASE rules[r] # Disabled
    <3>1. running[r] # 0 /\ tasks[r][running[r]].interval = rules[r] BY <2>2, <2>4 DEF Runs
    <3>2. running[r] \in DOMAIN tasks[r]
      <4>1. running[r] \in 0 .. Len(tasks[r]) /\ tasks[r] \in Seq(Task) BY DEF TypeOK
      <4>2. DOMAIN tasks[r] = 1 .. Len(tasks[r]) /\ Len(tasks[r]) \in Nat BY <4>1, LenProperties
      <4> QED BY <3>1, <4>1, <4>2
    <3>3. tasks'[r][running[r]].interval = tasks[r][running[r]].interval
      BY <1>9, <3>2, LoopTask
    <3> QED BY <2>1, <2>4, <3>1, <3>3 DEF Runs
  <2> QED BY <2>3, <2>4
<1>10. CASE StopReturn \/ CloseStore \/ UNCHANGED vars
  BY <1>2, <1>10 DEF StopReturn, CloseStore, vars, storeVars, reconcilerVars, schedVars
<1> QED BY <1>3, <1>4, <1>5, <1>6, <1>7, <1>8, <1>9, <1>10, Cases DEF Plain

\* Whatever order the requests and Service.Start read the rules and apply their lists
\* in, once the list of the newest rules was applied last, what runs is what the store
\* says (alerts.go:272-286, scheduler.go:58-98).
THEOREM NewestWins == Spec => []NewestListWins
<1>1. Init => NewestInv
  BY MaxEditsAssumption DEF Init, NewestInv, Newest, Bounded, Alive, NewestRuns
<1>2. TypeOK /\ NewestInv /\ [Next]_vars => NewestInv'
  BY NewestKept, AliveStep, NewestRunsStep DEF NewestInv
<1>3. TypeOK /\ NewestInv => NewestListWins BY NewestMatches
<1> QED BY <1>1, <1>2, <1>3, TypeInvariant, PTL DEF Spec
=============================================================================
