------------------------------ MODULE Scheduler ------------------------------
(***************************************************************************)
(* The rule scheduler (internal/alerts/scheduler) and what drives it: the  *)
(* API handlers, which change a rule in the store and then have            *)
(* Service.reconcile list the rules and apply the list, Service.Start,     *)
(* which main runs in a goroutine, and Service.Stop.                       *)
(*                                                                         *)
(* A rule of the store is its interval; Disabled stands for a rule that is *)
(* absent, disabled or without a positive interval, which Reconcile treats *)
(* alike.  A root is a context that Start or Reconcile created with        *)
(* context.WithCancel.  Start, Reconcile and the first half of Stop hold   *)
(* s.mu and are one step each; ListRules is one statement of the store.    *)
(***************************************************************************)
EXTENDS Integers, Sequences, FiniteSets

CONSTANTS
    Rule,           \* rule ids
    Interval,       \* evaluation intervals
    Handler,        \* API requests in progress at a time
    MaxEdits        \* bound: changes of rules

ASSUME IntervalAssumption == Interval \subseteq Nat \ {0}
ASSUME MaxEditsAssumption == MaxEdits \in Nat

Disabled == 0
Boot == "boot"                      \* the goroutine of Service.Start
Reconciler == Handler \cup {Boot}

VARIABLES
    rules,      \* the store: Rule -> interval, or Disabled
    edits,      \* number of changes so far: the version of rules
    pc,         \* Reconciler -> "idle", "list" or "apply"
    list,       \* Reconciler -> [rules, version]: what ListRules returned
    roots,      \* sequence of root contexts: [parent, canceled]
    root,       \* s.ctx: an index of roots, 0 for nil
    running,    \* s.running: Rule -> an index of tasks[r], 0 for none
    tasks,      \* Rule -> sequence of the goroutines started for it
    booted,     \* Service.Start has called Scheduler.Start
    signalled,  \* main's context is canceled
    stopper,    \* Service.Stop: "none", "wait", "returned" or "closed"
    applied     \* history: the version of the list applied last

vars == <<rules, edits, pc, list, roots, root, running, tasks, booted, signalled, stopper, applied>>

storeVars == <<rules, edits>>
reconcilerVars == <<pc, list>>
schedVars == <<roots, root, running>>

Task == [interval : Interval, root : 1 .. Len(roots), canceled : BOOLEAN,
         state : {"wait", "eval", "done"}]
Version == 0 .. MaxEdits

TypeOK ==
    /\ rules \in [Rule -> Interval \cup {Disabled}]
    /\ edits \in Version /\ applied \in Version
    /\ pc \in [Reconciler -> {"idle", "list", "apply"}]
    /\ list \in [Reconciler -> [rules : [Rule -> Interval \cup {Disabled}], version : Version]]
    /\ roots \in Seq([parent : {"main", "background"}, canceled : BOOLEAN])
    /\ root \in 0 .. Len(roots)
    /\ tasks \in [Rule -> Seq(Task)]
    /\ \A r \in Rule : running[r] \in 0 .. Len(tasks[r])
    /\ booted \in BOOLEAN /\ signalled \in BOOLEAN
    /\ stopper \in {"none", "wait", "returned", "closed"}

NoRules == [r \in Rule |-> Disabled]

\* The store may hold rules from an earlier run of the process.
Init ==
    /\ rules \in [Rule -> Interval \cup {Disabled}]
    /\ edits = 0 /\ applied = 0
    /\ pc = [c \in Reconciler |-> "idle"]
    /\ list = [c \in Reconciler |-> [rules |-> NoRules, version |-> 0]]
    /\ roots = <<>> /\ root = 0
    /\ running = [r \in Rule |-> 0]
    /\ tasks = [r \in Rule |-> <<>>]
    /\ booted = FALSE /\ signalled = FALSE
    /\ stopper = "none"

-----------------------------------------------------------------------------
(* Contexts *)

\* context.WithCancel(parent).
WithRoot(parent) ==
    Append(roots, [parent |-> parent, canceled |-> parent = "main" /\ signalled])

\* Mutant: the task's context does not derive from the root.
DoneOwnOnly(t) == t.canceled

\* ctx.Done() of a task is closed.
Done(t) == t.canceled \/ roots[t.root].canceled

Live(t) == t.state # "done" /\ ~Done(t)

\* SIGTERM: every root derived from main's context is canceled.
Signal ==
    /\ ~signalled
    /\ signalled' = TRUE
    /\ roots' = [i \in DOMAIN roots |->
                   [roots[i] EXCEPT !.canceled = @ \/ roots[i].parent = "main"]]
    /\ UNCHANGED <<storeVars, reconcilerVars, root, running, tasks, booted, stopper, applied>>

-----------------------------------------------------------------------------
(* Rule changes *)

\* A handler creates, updates, enables, disables or deletes a rule.
Edit(h, r, i) ==
    /\ pc[h] = "idle"
    /\ stopper # "closed"
    /\ edits < MaxEdits
    /\ rules[r] # i
    /\ rules' = [rules EXCEPT ![r] = i]
    /\ edits' = edits + 1
    /\ pc' = [pc EXCEPT ![h] = "list"]
    /\ UNCHANGED <<list, schedVars, tasks, booted, signalled, stopper, applied>>

\* Service.reconcile: the rules are read ...
ListRules(c) ==
    /\ pc[c] = "list"
    /\ IF stopper = "closed"        \* the store is closed: the error is logged
       THEN /\ pc' = [pc EXCEPT ![c] = "idle"]
            /\ UNCHANGED list
       ELSE /\ pc' = [pc EXCEPT ![c] = "apply"]
            /\ list' = [list EXCEPT ![c] = [rules |-> rules, version |-> edits]]
    /\ UNCHANGED <<storeVars, schedVars, tasks, booted, signalled, stopper, applied>>

\* Mutant: a goroutine that runs is left alone whatever its interval.
KeptAnyInterval(r, desired) == running[r] # 0 /\ desired[r] # Disabled

\* A goroutine that runs for r and that the list leaves alone.
Kept(r, desired) == running[r] # 0 /\ tasks[r][running[r]].interval = desired[r]

NewTask(i, ctx) == [interval |-> i, root |-> ctx, canceled |-> FALSE, state |-> "wait"]

\* Mutant: it is only forgotten.
Forgotten(r) == tasks[r]

\* The goroutines of r after tk.cancel of the one that runs.
Canceled(r) ==
    IF running[r] = 0 THEN tasks[r] ELSE [tasks[r] EXCEPT ![running[r]].canceled = TRUE]

\* ... and Scheduler.Reconcile makes the goroutines match them.
Reconcile(c) ==
    /\ pc[c] = "apply"
    /\ pc' = [pc EXCEPT ![c] = "idle"]
    /\ list' = [list EXCEPT ![c] = [rules |-> NoRules, version |-> 0]]
    /\ roots' = IF root = 0 THEN WithRoot("background") ELSE roots
    /\ root' = IF root = 0 THEN Len(roots) + 1 ELSE root
    /\ LET desired == list[c].rules IN
         /\ tasks' = [r \in Rule |->
              IF Kept(r, desired) THEN tasks[r]
              ELSE IF desired[r] = Disabled THEN Canceled(r)
              ELSE Append(Canceled(r), NewTask(desired[r], root'))]
         /\ running' = [r \in Rule |->
              IF desired[r] = Disabled THEN 0
              ELSE IF Kept(r, desired) THEN running[r] ELSE Len(tasks[r]) + 1]
    /\ applied' = list[c].version
    /\ UNCHANGED <<storeVars, booted, signalled, stopper>>

-----------------------------------------------------------------------------
(* The goroutine of a rule: Scheduler.loop *)

SetState(r, i, st) == tasks' = [tasks EXCEPT ![r][i].state = st]

\* The ticker is ready: the rule is evaluated, canceled or not, as select may
\* take either case.
Tick(r, i) ==
    /\ i \in DOMAIN tasks[r]
    /\ tasks[r][i].state = "wait"
    /\ SetState(r, i, "eval")
    /\ UNCHANGED <<storeVars, reconcilerVars, schedVars, booted, signalled, stopper, applied>>

\* The evaluation returns (module Alerts has its steps).
EvalReturns(r, i) ==
    /\ i \in DOMAIN tasks[r]
    /\ tasks[r][i].state = "eval"
    /\ SetState(r, i, "wait")
    /\ UNCHANGED <<storeVars, reconcilerVars, schedVars, booted, signalled, stopper, applied>>

\* ctx.Done() is ready.
LoopExits(r, i) ==
    /\ i \in DOMAIN tasks[r]
    /\ tasks[r][i].state = "wait"
    /\ Done(tasks[r][i])
    /\ SetState(r, i, "done")
    /\ UNCHANGED <<storeVars, reconcilerVars, schedVars, booted, signalled, stopper, applied>>

-----------------------------------------------------------------------------
(* Service.Start and Service.Stop *)

\* Scheduler.Start; Service.Start then reconciles.
Start ==
    /\ ~booted
    /\ booted' = TRUE
    /\ roots' = WithRoot("main")
    /\ root' = Len(roots) + 1
    /\ pc' = [pc EXCEPT ![Boot] = "list"]
    /\ UNCHANGED <<storeVars, list, running, tasks, signalled, stopper, applied>>

\* Scheduler.Stop under s.mu.  main calls it once the server has stopped
\* listening, which follows the signal; requests may still be in progress.
Stop ==
    /\ signalled
    /\ stopper = "none"
    /\ stopper' = "wait"
    /\ running' = [r \in Rule |-> 0]
    /\ root' = 0
    /\ roots' = IF root = 0 THEN roots ELSE [roots EXCEPT ![root].canceled = TRUE]
    /\ UNCHANGED <<storeVars, reconcilerVars, tasks, booted, signalled, applied>>

\* Mutant: Stop does not wait for the goroutines.
StopReturnsAtOnce ==
    /\ stopper = "wait"
    /\ stopper' = "returned"
    /\ UNCHANGED <<storeVars, reconcilerVars, schedVars, tasks, booted, signalled, applied>>

\* s.wg.Wait() returns.
StopReturn ==
    /\ stopper = "wait"
    /\ \A r \in Rule : \A i \in DOMAIN tasks[r] : tasks[r][i].state = "done"
    /\ stopper' = "returned"
    /\ UNCHANGED <<storeVars, reconcilerVars, schedVars, tasks, booted, signalled, applied>>

\* The notifier has stopped; the store is closed.
CloseStore ==
    /\ stopper = "returned"
    /\ stopper' = "closed"
    /\ UNCHANGED <<storeVars, reconcilerVars, schedVars, tasks, booted, signalled, applied>>

-----------------------------------------------------------------------------

\* Every applied list belongs to a change or to Service.Start.
MaxTasks == MaxEdits + 1

Next ==
    \/ \E h \in Handler, r \in Rule, i \in Interval \cup {Disabled} : Edit(h, r, i)
    \/ \E c \in Reconciler : ListRules(c) \/ Reconcile(c)
    \/ \E r \in Rule : \E i \in 1 .. MaxTasks : Tick(r, i) \/ EvalReturns(r, i) \/ LoopExits(r, i)
    \/ Signal
    \/ Start
    \/ Stop
    \/ StopReturn
    \/ CloseStore

\* An evaluation ends, as its query has a timeout; a goroutine that is canceled
\* does not lose the choice of select for ever, and Stop goes on when it can.
Fairness ==
    /\ \A r \in Rule : \A i \in 1 .. MaxTasks :
         WF_vars(EvalReturns(r, i)) /\ SF_vars(LoopExits(r, i))
    /\ WF_vars(StopReturn)

Spec == Init /\ [][Next]_vars /\ Fairness

-----------------------------------------------------------------------------
(* Properties *)

\* Start has replaced a context that an early Reconcile had made: nobody can
\* cancel it any more.
Abandoned == \E i \in DOMAIN roots : i # root /\ ~roots[i].canceled

\* A goroutine that is not canceled is the one s.running has for its rule: a
\* rule is never evaluated by two timers, and a later Reconcile or Stop reaches
\* every goroutine, across replaced intervals, Start, the signal and Stop, unless
\* Start has abandoned a context.
LiveIsRunning ==
    Abandoned \/ \A r \in Rule : \A i \in DOMAIN tasks[r] : Live(tasks[r][i]) => running[r] = i

Quiet == booted /\ ~signalled /\ \A c \in Reconciler : pc[c] = "idle"

\* The rules of the store are the rules that run, at their intervals.
Matches ==
    \A r \in Rule :
        IF rules[r] = Disabled THEN running[r] = 0
        ELSE /\ running[r] # 0
             /\ tasks[r][running[r]].interval = rules[r]
             /\ Live(tasks[r][running[r]])

\* If the newest list was applied last, the goroutines match the store, whatever
\* order the earlier lists were read and applied in.
NewestListWins == Quiet /\ applied = edits => Matches

\* Whenever no change is in progress, the goroutines match the store: nothing
\* promises that the newest list is applied last.
RulesTakeEffect == Quiet => Matches

\* No evaluation is in progress when the store is closed, and none will start,
\* unless a late Service.Start or a request that outlived Stop has armed the
\* scheduler again.
Rearmed == stopper # "none" /\ root # 0

QuietStore ==
    stopper \in {"returned", "closed"} /\ ~Rearmed =>
        \A r \in Rule : \A i \in DOMAIN tasks[r] :
            tasks[r][i].state # "eval" /\ ~Live(tasks[r][i])

\* Stop returns, whatever the goroutines do, unless a request that outlived the
\* server arms the scheduler again, under a context nobody cancels, or Start had
\* abandoned one.
StopReturns ==
    stopper = "wait" ~>
        stopper # "wait" \/ (Rearmed /\ roots[root].parent = "background") \/ Abandoned

\* No rule has two timers (Reconcile).
OneTimer == TypeOK /\ LiveIsRunning
=============================================================================
