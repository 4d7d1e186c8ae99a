------------------------------- MODULE Alerts -------------------------------
(***************************************************************************)
(* Alert evaluation (internal/alerts/evaluator, state and Service.evaluate *)
(* of alerts.go) over the SQLite store (storage/sqlite.go), with the API   *)
(* handlers that change rules underneath it (api/rules.go).                *)
(*                                                                         *)
(* The store has one connection, so each statement is one step.  What an   *)
(* evaluation read stays in its local state while timers, requests to      *)
(* evaluate, rule edits, cancelations and crashes interleave.  A rule is   *)
(* its "for" duration; an instance is a row of alert_instances.  Of        *)
(* alert_history, an append-only table, and of what the dispatcher was     *)
(* given, the model keeps the last entry of a series, and only for as long *)
(* as evaluations are undisturbed (calm): of the others nothing is claimed.*)
(***************************************************************************)
EXTENDS Integers, Sequences, FiniteSets, FiniteSetsExt, Functions

None == "none"

CONSTANTS
    Rule,           \* rule ids
    Fp,             \* fingerprints of the series an expression may return, in their order
    For,            \* "for" durations
    Eval,           \* evaluations in progress at a time
    Handler,        \* rule requests in progress at a time
    MaxInstances,   \* Options.MaxInstances
    MaxTime,        \* bound: the clock
    MaxFlips,       \* bound: changes of what the expression returns
    MaxDisruptions  \* bound: rule requests, cancelations and crashes

ASSUME FpAssumption == Fp \subseteq Nat \ {0} /\ IsFiniteSet(Fp)
ASSUME ForAssumption == For \subseteq Nat
ASSUME FiniteAssumption == IsFiniteSet(Rule) /\ IsFiniteSet(Eval) /\ None \notin Rule

\* evaluator.New replaces a cap that is not positive by its default.
ASSUME CapAssumption == MaxInstances \in Nat \ {0}
ASSUME TimeAssumption == MaxTime \in Nat

Key == Rule \X Fp

VARIABLES
    clock,
    cond,       \* the series the expressions return now
    rules,      \* table alert_rules: a partial function Rule -> For
    instances,  \* table alert_instances: Key -> row, a partial function
    last,       \* table alert_history: Key -> the new state of its last entry
    gaps,       \* keys with an entry whose previous state was not that state
    notified,   \* Key -> the notification handed to the dispatcher last
    ev,         \* Eval -> the locals of EvaluateRule
    hd,         \* Handler -> the locals of the request
    lapsed,     \* history: series that were absent since a query of the rule last returned them
    calm,       \* history: no two evaluations of a rule overlapped, none was cut off
    flips,
    disruptions

vars == <<clock, cond, rules, instances, last, gaps, notified, ev, hd, lapsed, calm,
          flips, disruptions>>
storeVars == <<rules, instances>>
feedVars == <<last, gaps, notified, lapsed, calm>>
envVars == <<clock, cond, flips, disruptions>>

State == {"pending", "firing"}
Row == [id : Nat, state : State, activeAt : 0 .. MaxTime]

\* The locals of EvaluateRule, where the rows it has read are of one of these sets.
Evaluation(Rows) ==
    [pc : {"idle", "query", "list", "eval", "record", "delete"},
     rule : Rule \cup {None}, for : For \cup {0}, now : 0 .. MaxTime,
     present : SUBSET Fp, existing : Rows, tracked : Nat,
     todo : SUBSET Fp, gone : SUBSET Fp, cur : Fp \cup {0}, to : State \cup {None},
     changes : Seq(Fp \X (State \cup {"resolved"})), canceled : BOOLEAN, alone : BOOLEAN]

\* An evaluation that is not in progress.
IdleEval ==
    [pc |-> "idle", rule |-> None, for |-> 0, now |-> 0, present |-> {}, existing |-> <<>>,
     tracked |-> 0, todo |-> {}, gone |-> {}, cur |-> 0, to |-> None, changes |-> <<>>,
     canceled |-> FALSE, alone |-> FALSE]

IdleHandler == [pc |-> "idle", rule |-> None, for |-> 0]

NoEntries == [k \in Key |-> "ok"]
NoneNotified == [k \in Key |-> None]

Init ==
    /\ clock = 0
    /\ cond \in SUBSET Key
    /\ rules \in [Rule -> For]
    /\ instances = <<>>
    /\ last = NoEntries /\ gaps = {} /\ notified = NoneNotified /\ lapsed = Key
    /\ ev = [e \in Eval |-> IdleEval]
    /\ hd = [h \in Handler |-> IdleHandler]
    /\ calm = TRUE
    /\ flips = 0 /\ disruptions = 0

TypeOK ==
    /\ clock \in 0 .. MaxTime
    /\ cond \subseteq Key /\ lapsed \subseteq Key
    /\ DOMAIN rules \subseteq Rule /\ rules \in [DOMAIN rules -> For]
    /\ DOMAIN instances \subseteq Key /\ instances \in [DOMAIN instances -> Row]
    /\ \A k, l \in DOMAIN instances : instances[k].id = instances[l].id => k = l
    /\ last \in [Key -> State \cup {"ok", "resolved"}]
    /\ gaps \subseteq Key
    /\ notified \in [Key -> {None, "firing", "resolved"}]
    /\ ev \in [Eval -> Evaluation({ev[e].existing : e \in Eval})]
    /\ \A e \in Eval : LET rows == ev[e].existing
                     IN  DOMAIN rows \subseteq Fp /\ rows \in [DOMAIN rows -> Row]
    /\ hd \in [Handler -> [pc : {"idle", "put", "delete"},
                            rule : Rule \cup {None}, for : For \cup {0}]]
    /\ calm \in BOOLEAN

-----------------------------------------------------------------------------
(* The state machine *)

\* state.Next for a condition that is true: it returns the next state.
NextTrue(cur, activeAt, now, for) ==
    CASE cur = "firing"  -> "firing"
      [] cur = "pending" -> IF now - activeAt >= for THEN "firing" ELSE "pending"
      [] cur = "ok"      -> IF for <= 0 THEN "firing" ELSE "pending"

-----------------------------------------------------------------------------
(* The environment *)

Tick ==
    /\ clock < MaxTime
    /\ clock' = clock + 1
    /\ UNCHANGED <<cond, storeVars, feedVars, ev, hd, flips, disruptions>>

\* The evaluations after a step that interferes with those of r.
Overtaken(r) == [o \in Eval |-> [ev[o] EXCEPT !.alone = @ /\ ev[o].rule # r]]

\* The expression of a rule starts or stops returning a series.
Flip(k) ==
    /\ flips < MaxFlips
    /\ flips' = flips + 1
    /\ cond' = IF k \in cond THEN cond \ {k} ELSE cond \cup {k}
    /\ lapsed' = IF k \in cond /\ calm THEN lapsed \cup {k} ELSE lapsed
    /\ ev' = Overtaken(k[1])
    /\ UNCHANGED <<clock, storeVars, last, gaps, notified, hd, calm, disruptions>>

-----------------------------------------------------------------------------
(* Evaluations *)

Active(e) == ev[e].pc # "idle"

\* The store has changed, or is about to, by what the evaluation read.
Underway(e) == ev[e].pc \in {"eval", "record", "delete"}

\* What the history and the notifier have been told is followed until an
\* evaluation is disturbed: another one overlaps it, or it is cut off.
Disturb(disturbed) ==
    IF calm /\ disturbed
    THEN /\ calm' = FALSE
         /\ last' = NoEntries /\ gaps' = {} /\ notified' = NoneNotified /\ lapsed' = Key
    ELSE UNCHANGED feedVars

Others(r) == {o \in Eval : Active(o) /\ ev[o].rule = r}

Return(e) == ev' = [ev EXCEPT ![e] = IdleEval]

\* Service.evaluate, from the timer of the rule or from a request, up to the query.
Begin(e, r) ==
    /\ ~Active(e)
    /\ r \in DOMAIN rules
    /\ ev' = [Overtaken(r) EXCEPT
                ![e] = [IdleEval EXCEPT !.pc = "query", !.rule = r, !.for = rules[r],
                                        !.now = clock, !.alone = Others(r) = {}]]
    /\ Disturb(Others(r) # {})
    /\ UNCHANGED <<envVars, storeVars, hd>>

\* Mutant: a query that fails counts as an empty answer.
QueryFailsEmpty(e) ==
    /\ ev[e].pc = "query"
    /\ ev' = [ev EXCEPT ![e].pc = "list", ![e].present = {}]
    /\ UNCHANGED <<envVars, storeVars, feedVars, hd>>

\* The datasource is unknown or disabled, or the query fails: the state is held.
QueryFails(e) ==
    /\ ev[e].pc = "query"
    /\ Return(e)
    /\ UNCHANGED <<envVars, storeVars, feedVars, hd>>

\* The series the expression of a rule returns.
Result(r) == {fp \in Fp : <<r, fp>> \in cond}

QueryOK(e) ==
    /\ ev[e].pc = "query"
    /\ ~ev[e].canceled
    /\ ev' = [ev EXCEPT ![e].pc = "list", ![e].present = Result(ev[e].rule)]
    /\ lapsed' = IF calm THEN lapsed \ {<<ev[e].rule, fp>> : fp \in Result(ev[e].rule)} ELSE lapsed
    /\ UNCHANGED <<envVars, storeVars, last, gaps, notified, hd, calm>>

RowsOf(r) == [fp \in {fp \in Fp : <<r, fp>> \in DOMAIN instances} |-> instances[<<r, fp>>]]

\* Mutant: nothing is resolved.
GoneNever(rows, present) == {}

\* The instances whose series disappeared.
Gone(rows, present) == DOMAIN rows \ present

\* ListInstancesByRule, and indexSamples.
List(e) ==
    /\ ev[e].pc = "list"
    /\ IF ev[e].canceled
       THEN Return(e)
       ELSE LET rows == RowsOf(ev[e].rule) IN
            ev' = [ev EXCEPT ![e].pc = "eval",
                             ![e].existing = rows,
                             ![e].tracked = Cardinality(DOMAIN rows),
                             ![e].present = {},
                             ![e].todo = ev[e].present,
                             ![e].gone = Gone(rows, ev[e].present)]
    /\ UNCHANGED <<envVars, storeVars, feedVars, hd>>

KnownIds == {instances[k].id : k \in DOMAIN instances} \cup
            UNION {{ev[e].existing[fp].id : fp \in DOMAIN ev[e].existing} : e \in Eval}

\* uuid.NewString: an id nobody has.
NewId == Min((0 .. Cardinality(KnownIds)) \ KnownIds)

\* The row the loop body writes for a series that the query returned.
Advanced(e, fp) ==
    LET known == fp \in DOMAIN ev[e].existing
        cur == IF known THEN ev[e].existing[fp]
               ELSE [id |-> NewId, state |-> "ok", activeAt |-> ev[e].now]
    IN  [cur EXCEPT !.state = NextTrue(cur.state, cur.activeAt, ev[e].now, ev[e].for)]

StateRead(e, fp) == IF fp \in DOMAIN ev[e].existing THEN ev[e].existing[fp].state ELSE "ok"

\* INSERT ... ON CONFLICT(rule_id, fingerprint) DO UPDATE: a row keeps its id.
UpsertInstance(k, row) ==
    instances' = [l \in DOMAIN instances \cup {k} |->
        IF l # k THEN instances[l]
        ELSE IF k \in DOMAIN instances THEN [row EXCEPT !.id = instances[k].id] ELSE row]

\* The local tracked, once a row is written.
Tracked(e, new) == IF new THEN ev[e].tracked + 1 ELSE ev[e].tracked

\* A new series beyond the cap is refused.
Refuse(e) ==
    /\ ev[e].pc = "eval" /\ ev[e].todo # {}
    /\ LET fp == Min(ev[e].todo) IN
         /\ fp \notin DOMAIN ev[e].existing
         /\ ev[e].tracked >= MaxInstances
         /\ ev' = [ev EXCEPT ![e].todo = @ \ {fp}]
    /\ UNCHANGED <<envVars, storeVars, feedVars, hd>>

\* The row of the next series is written.
Upsert(e) ==
    /\ ev[e].pc = "eval" /\ ev[e].todo # {}
    /\ ~ev[e].canceled
    /\ LET fp == Min(ev[e].todo)
           row == Advanced(e, fp)
           new == fp \notin DOMAIN ev[e].existing
           changed == row.state # StateRead(e, fp)
       IN  /\ new => ev[e].tracked < MaxInstances
           /\ UpsertInstance(<<ev[e].rule, fp>>, row)
           /\ ev' = [ev EXCEPT ![e].tracked = Tracked(e, new),
                               ![e].todo = @ \ {fp},
                               ![e].pc = IF changed THEN "record" ELSE "eval",
                               ![e].cur = IF changed THEN fp ELSE 0,
                               ![e].to = IF changed THEN row.state ELSE None]
    /\ UNCHANGED <<envVars, rules, feedVars, hd>>

\* AppendHistory; an error is ignored.
AppendHistory(e, fp, prev, new) ==
    LET k == <<ev[e].rule, fp>>
        was == IF last[k] = "resolved" THEN "ok" ELSE last[k]
    IN  IF ev[e].canceled \/ ~calm
        THEN UNCHANGED <<last, gaps>>
        ELSE /\ last' = [last EXCEPT ![k] = new]
             /\ gaps' = IF prev = was THEN gaps ELSE gaps \cup {k}

\* Mutant: the transition to firing is not recorded.
RecordPendingOnly(e) ==
    /\ ev[e].pc = "record"
    /\ IF ev[e].to = "pending"
       THEN AppendHistory(e, ev[e].cur, StateRead(e, ev[e].cur), ev[e].to)
       ELSE UNCHANGED <<last, gaps>>
    /\ ev' = [ev EXCEPT ![e].pc = "eval", ![e].cur = 0, ![e].to = None,
                        ![e].changes = Append(@, <<ev[e].cur, ev[e].to>>)]
    /\ UNCHANGED <<envVars, rules, instances, notified, hd, lapsed, calm>>

\* The transition of the row just written is recorded.
Record(e) ==
    /\ ev[e].pc = "record"
    /\ AppendHistory(e, ev[e].cur, StateRead(e, ev[e].cur), ev[e].to)
    /\ ev' = [ev EXCEPT ![e].pc = "eval", ![e].cur = 0, ![e].to = None,
                        ![e].changes = Append(@, <<ev[e].cur, ev[e].to>>)]
    /\ UNCHANGED <<envVars, rules, instances, notified, hd, lapsed, calm>>

\* A series has disappeared: its resolution is recorded ...
Resolve(e) ==
    /\ ev[e].pc = "eval" /\ ev[e].todo = {}
    /\ \E fp \in ev[e].gone :
         /\ AppendHistory(e, fp, ev[e].existing[fp].state, "resolved")
         /\ ev' = [ev EXCEPT ![e].pc = "delete", ![e].cur = fp,
                             ![e].changes = Append(@, <<fp, "resolved">>)]
    /\ UNCHANGED <<envVars, rules, instances, notified, hd, lapsed, calm>>

RowsWithId(id) == {k \in DOMAIN instances : instances[k].id = id}

\* ... and DeleteInstance removes the row it was read from.
Delete(e) ==
    /\ ev[e].pc = "delete"
    /\ ~ev[e].canceled
    /\ LET rows == RowsWithId(ev[e].existing[ev[e].cur].id) IN
         /\ rows # {}
         /\ instances' = [k \in DOMAIN instances \ rows |-> instances[k]]
    /\ ev' = [ev EXCEPT ![e].pc = "eval", ![e].gone = @ \ {ev[e].cur}, ![e].cur = 0]
    /\ UNCHANGED <<envVars, rules, feedVars, hd>>

\* A statement fails, as the context is canceled or another evaluation has
\* deleted the row: EvaluateRule returns without the changes it collected.
StoreFails(e) ==
    /\ \/ /\ ev[e].pc = "eval" /\ ev[e].todo # {}
          /\ ev[e].canceled
          /\ Min(ev[e].todo) \in DOMAIN ev[e].existing \/ ev[e].tracked < MaxInstances
       \/ /\ ev[e].pc = "delete"
          /\ ev[e].canceled \/ RowsWithId(ev[e].existing[ev[e].cur].id) = {}
    /\ Return(e)
    /\ UNCHANGED <<envVars, storeVars, feedVars, hd>>

Finished(e) == ev[e].pc = "eval" /\ ev[e].todo = {} /\ ev[e].gone = {}

\* Mutant: resolutions are not forwarded.
ForwardedFiring == {"firing"}

\* forwardNotifications: the states it hands to the dispatcher.
Forwarded == {"firing", "resolved"}

\* The next change is looked at.
Forward(e) ==
    /\ Finished(e) /\ ev[e].changes # <<>>
    /\ LET c == Head(ev[e].changes) IN
         notified' = IF c[2] \notin Forwarded \/ ~calm THEN notified
                     ELSE [notified EXCEPT ![<<ev[e].rule, c[1]>>] = c[2]]
    /\ ev' = [ev EXCEPT ![e].changes = Tail(@)]
    /\ UNCHANGED <<envVars, storeVars, last, gaps, hd, lapsed, calm>>

Finish(e) ==
    /\ Finished(e) /\ ev[e].changes = <<>>
    /\ Return(e)
    /\ UNCHANGED <<envVars, storeVars, feedVars, hd>>

-----------------------------------------------------------------------------
(* Cancelations and crashes *)

\* The timer is stopped by a rule edit or a shutdown, or the client of the
\* request goes away: the store refuses the statements that are left.
Cancel(e) ==
    /\ Active(e) /\ ~ev[e].canceled
    /\ disruptions < MaxDisruptions
    /\ disruptions' = disruptions + 1
    /\ ev' = [ev EXCEPT ![e].canceled = TRUE]
    /\ Disturb(Underway(e))
    /\ UNCHANGED <<clock, cond, flips, storeVars, hd>>

\* The process is killed and starts again; the tables are on disk.
Crash ==
    /\ disruptions < MaxDisruptions
    /\ disruptions' = disruptions + 1
    /\ ev' = [e \in Eval |-> IdleEval]
    /\ hd' = [h \in Handler |-> IdleHandler]
    /\ Disturb(\E e \in Eval : Underway(e))
    /\ UNCHANGED <<clock, cond, flips, storeVars>>

-----------------------------------------------------------------------------
(* Rule requests *)

\* updateRule and setEnabled read the rule ...
GetRule(h, r) ==
    /\ hd[h].pc = "idle"
    /\ disruptions < MaxDisruptions
    /\ r \in DOMAIN rules
    /\ disruptions' = disruptions + 1
    /\ hd' = [hd EXCEPT ![h] = [pc |-> "put", rule |-> r, for |-> rules[r]]]
    /\ UNCHANGED <<clock, cond, flips, storeVars, feedVars, ev>>

\* ... and write it back, with another duration or with the one they read.
PutRule(h, for) ==
    /\ hd[h].pc = "put"
    /\ rules' = [r \in DOMAIN rules \cup {hd[h].rule} |->
                    IF r = hd[h].rule THEN for ELSE rules[r]]
    /\ hd' = [hd EXCEPT ![h] = IdleHandler]
    /\ UNCHANGED <<envVars, instances, feedVars, ev>>

\* DeleteRule is two statements: the instances of the rule ...
DeleteInstances(h, r) ==
    /\ hd[h].pc = "idle"
    /\ disruptions < MaxDisruptions
    /\ r \in DOMAIN rules
    /\ disruptions' = disruptions + 1
    /\ instances' = [k \in {k \in DOMAIN instances : k[1] # r} |-> instances[k]]
    /\ hd' = [hd EXCEPT ![h] = [pc |-> "delete", rule |-> r, for |-> 0]]
    /\ Disturb(TRUE)
    /\ ev' = Overtaken(r)
    /\ UNCHANGED <<clock, cond, flips, rules>>

\* ... and the rule.
DeleteRule(h) ==
    /\ hd[h].pc = "delete"
    /\ rules' = [r \in DOMAIN rules \ {hd[h].rule} |-> rules[r]]
    /\ hd' = [hd EXCEPT ![h] = IdleHandler]
    /\ UNCHANGED <<envVars, instances, feedVars, ev>>

-----------------------------------------------------------------------------

EvalStep(e) ==
    \/ QueryFails(e) \/ QueryOK(e)
    \/ List(e) \/ Refuse(e) \/ Upsert(e) \/ Record(e)
    \/ Resolve(e) \/ Delete(e) \/ StoreFails(e)
    \/ Forward(e) \/ Finish(e)

Next ==
    \/ Tick
    \/ \E k \in Key : Flip(k)
    \/ \E e \in Eval : EvalStep(e) \/ Cancel(e) \/ \E r \in Rule : Begin(e, r)
    \/ Crash
    \/ \E h \in Handler :
         \/ \E r \in Rule : GetRule(h, r) \/ DeleteInstances(h, r)
         \/ \E f \in For : PutRule(h, f)
         \/ DeleteRule(h)

Spec == Init /\ [][Next]_vars

-----------------------------------------------------------------------------
(* Properties *)

\* As long as evaluations neither overlap nor are cut off, the history of a series
\* is a chain: each entry starts from the state that the one before it ended in.
HistoryChained == calm => gaps = {}

\* Between such evaluations the last entry of a series is the state of its
\* instance, and a series without an instance is resolved or never was active.
Idle(r) == \A e \in Eval : Active(e) => ev[e].rule # r

HistoryAgrees ==
    \A r \in DOMAIN rules : calm /\ Idle(r) =>
        \A fp \in Fp :
            IF <<r, fp>> \in DOMAIN instances
            THEN last[<<r, fp>>] = instances[<<r, fp>>].state
            ELSE last[<<r, fp>>] \in {"ok", "resolved"}

\* Between such evaluations omni-notify has been told of the instances that fire,
\* and of no other series that it fires.
NotifierAgrees ==
    \A r \in DOMAIN rules : calm /\ Idle(r) =>
        \A fp \in Fp :
            notified[<<r, fp>>] = "firing" <=>
              (<<r, fp>> \in DOMAIN instances /\ instances[<<r, fp>>].state = "firing")

\* A rule never tracks more series than the cap.
CapRespected ==
    calm => \A r \in Rule : Cardinality(DOMAIN RowsOf(r)) <= MaxInstances

\* A series that is there all the time is never resolved: not by a failing query,
\* not by a restart, not by an edit of the rule.
NoFalseAllClear ==
    [][calm' => \A k \in DOMAIN instances \ DOMAIN instances' : k \in lapsed]_vars

\* One evaluation that nothing overlaps repairs whatever overlaps, cancelations,
\* crashes and edits have left behind: when it is through, what the expression
\* returned is active, and fires if its duration has passed, and nothing else is
\* active.  The cap may keep a series out, also for instances that the same
\* evaluation resolves.
Repairs ==
    \A e \in Eval : Finished(e) /\ ev[e].alone =>
        LET rows == RowsOf(ev[e].rule)
            result == Result(ev[e].rule)
        IN
        /\ DOMAIN rows \subseteq result
        /\ DOMAIN rows = result \/ Cardinality(DOMAIN rows \cup DOMAIN ev[e].existing) >= MaxInstances
        /\ \A fp \in DOMAIN rows :
             ev[e].now - rows[fp].activeAt >= ev[e].for => rows[fp].state = "firing"

\* The instances of a deleted rule are gone.
NoOrphans ==
    \A k \in DOMAIN instances :
        \/ k[1] \in DOMAIN rules
        \/ ~Idle(k[1])
        \/ \E h \in Handler : hd[h].pc # "idle" /\ hd[h].rule = k[1]

\* As long as evaluations neither overlap nor are cut off, history, instances and
\* cap fit together.
SoundWhenCalm == TypeOK /\ HistoryChained /\ HistoryAgrees /\ CapRespected
=============================================================================
