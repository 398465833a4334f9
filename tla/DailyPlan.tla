----------------------------- MODULE DailyPlan -----------------------------
(***************************************************************************)
(* The daily plan, composed with the habit whose completions it writes.    *)
(* Plans hold tasks; a task linked to the habit completes the day of its   *)
(* plan through the older entry points of RewardsService (base award and   *)
(* reversal only), while toggles of the same day go through HabitRewards.  *)
(*                                                                         *)
(* Plan requests interleave with toggles between statements.  A plan       *)
(* transaction reads the completion row without a lock; from its first     *)
(* write to its commit it is one step, because it then holds the row or    *)
(* the user lock.  A removal locks the user row before the completion row, *)
(* a toggle the other way round: PostgreSQL aborts one of them (Deadlock). *)
(* Experience is added after the commit, in a transaction of its own.      *)
(***************************************************************************)
EXTENDS HabitRewards

CONSTANTS
    Writers,     \* concurrent daily-plan requests
    Plans,       \* plan ids
    Tasks,       \* task ids, each used once
    PlanCoins,   \* COINS_PER_COMPLETION.FULL, whatever the habit overrides
    NoTask,      \* model value: no such task yet
    GoneTask     \* model value: the task was deleted

ASSUME DailyPlanAssumption == PlanCoins \in Nat \ {0} /\ Plans \subseteq Days

VARIABLES
    planDay,     \* planDate of each plan, 0 when there is no such plan
    task,        \* DailyPlanTask rows
    sourced,     \* the task a day's completion row is sourced from
    plan,        \* what each plan request has read so far
    overlapped   \* history: two requests have been open at the same time

planTables == <<planDay, task, sourced>>
planVars == <<vars, planTables, plan, overlapped>>

Statuses == {"PENDING", "COMPLETED", "SKIPPED"}
Task == [on : Plans, linked : BOOLEAN, status : Statuses]
IsTask(t) == task[t] \notin {NoTask, GoneTask}
TasksOf(p) == {t \in Tasks : IsTask(t) /\ task[t].on = p}

Resting == [pc |-> "idle", op |-> 0, t |-> NoTask, was |-> NoTask,
            ask |-> NoTask, day |-> 0, row |-> NoRow, found |-> {},
            p |-> 0, fresh |-> {}, xpDelta |-> 0, xp |-> 0, level |-> 1]

Open == {r \in Requests : req[r].pc # "idle"}
            \cup {w \in Writers : plan[w].pc # "idle"}
Idling(w) == plan[w].pc = "idle" /\ ops < MaxOps

(* A step that opens request w marks the history when another is open.      *)
Opens(w, q) ==
    /\ plan' = [plan EXCEPT ![w] = [q EXCEPT !.op = ops + 1]]
    /\ ops' = ops + 1
    /\ overlapped' = (overlapped \/ Open # {})

Closes(w) == plan' = [plan EXCEPT ![w] = Resting]
Refused(w) ==
    /\ Closes(w)
    /\ UNCHANGED <<tables, req, ops, planTables, overlapped>>

(* The locks of toggles that have written the rows of these days.           *)
Holders(ds) ==
    {r \in Requests : req[r].pc \in {"wrote", "user"} /\ ~req[r].adopted
                        /\ req[r].day \in ds}

-----------------------------------------------------------------------------
(* reverseCompletionAward: the latest award of the kind, which may have     *)
(* been reversed already; the caught conflict has aborted the transaction.  *)
AwardsOf(row) == {e \in ledger : e.type = row.kind /\ e.ref[1] = row.id}
LatestAward(row) ==
    {e \in AwardsOf(row) : \A x \in AwardsOf(row) : x.op <= e.op}
Reversible(rows) == UNION {LatestAward(row) : row \in rows}

(* Mutant: the unlinked task's coins stay.                                  *)
NotReversed(w, rows) == UNCHANGED <<reversals, coins>>

ReverseAwards(w, rows) ==
    LET taken == Reversible(rows) \ ReversedRows
    IN  /\ reversals' = reversals \cup Reversal(plan[w], taken)
        /\ coins' = coins - Total(taken)

Stuck(rows) == ConflictAborts /\ Reversible(rows) \cap ReversedRows # {}

(* A row read earlier is still there, under its id.                         *)
Present(d, row) == completion[d] # NoRow /\ completion[d].id = row.id

-----------------------------------------------------------------------------
(* Tasks.  updateTask reads the task with its plan; syncCompletion, inside  *)
(* the transaction, reads the row of the plan's day.  `ask` is the task as  *)
(* the request wants it; a field it leaves out keeps its old value.         *)
BeginTask(w, t, ask) ==
    /\ Idling(w) /\ IsTask(t)
    /\ planDay[ask.on] # 0
    /\ ask.linked => habit # "gone"
    /\ Opens(w, [Resting EXCEPT !.pc = "task", !.t = t, !.was = task[t],
                                !.ask = ask, !.day = planDay[task[t].on]])
    /\ UNCHANGED <<tables, req, planTables>>

ReadRow(w) ==
    LET q == plan[w]
    IN  /\ q.pc = "task"
        /\ IF q.was.linked /\ habit = "gone"
             THEN Refused(w)
             ELSE /\ plan' = [plan EXCEPT
                       ![w].pc = "write", ![w].row = completion[q.day],
                       ![w].found = IF sourced[q.day] = q.t THEN {q.day} ELSE {}]
                  /\ UNCHANGED <<tables, req, ops, planTables, overlapped>>

Completes(q) ==
    /\ q.was.linked /\ q.ask.status = "COMPLETED"
    /\ q.row # NoRow => ~q.row.status
Uncompletes(q) ==
    /\ q.was.linked /\ q.ask.status # "COMPLETED"
    /\ q.was.status = "COMPLETED" /\ q.row # NoRow /\ q.found # {}

(* The task row is written last; by now it may be gone, or its new plan.    *)
Writable(q) ==
    IsTask(q.t) /\ planDay[q.ask.on] # 0 /\ (q.ask.linked => habit # "gone")
WritesTask(w) == task' = [task EXCEPT ![plan[w].t] = plan[w].ask]
Commits(w, delta) ==
    plan' = [plan EXCEPT ![w] =
        IF delta = 0 THEN Resting ELSE [@ EXCEPT !.pc = "xp", !.xpDelta = delta]]

(* Mutant: a row that exists already is completed without an award.         *)
AwardsNewRows(w, row) ==
    LET e == Entry(plan[w].op, "FULL", row.id, 0, PlanCoins)
    IN  IF plan[w].row = NoRow
          THEN ledger' = ledger \cup {e} /\ coins' = coins + PlanCoins
          ELSE UNCHANGED <<ledger, coins>>

AwardsRow(w, row) ==
    LET e == Entry(plan[w].op, "FULL", row.id, 0, PlanCoins)
    IN  ledger' = ledger \cup {e} /\ coins' = coins + PlanCoins

(* The row is updated by id, or inserted under the unique (habitId, date).  *)
CompleteDay(w) ==
    LET q == plan[w]
        writes == IF q.row = NoRow THEN completion[q.day] = NoRow
                                   ELSE Present(q.day, q.row)
        row == IF q.row = NoRow
                 THEN [id |-> q.op, status |-> TRUE, kind |-> "FULL"]
                 ELSE [completion[q.day] EXCEPT !.status = TRUE]
    IN  /\ q.pc = "write" /\ Completes(q) /\ Holders({q.day}) = {}
        /\ IF habit # "gone" /\ writes /\ Writable(q)
             THEN /\ completion' = [completion EXCEPT ![q.day] = row]
                  /\ sourced' = [sourced EXCEPT ![q.day] = q.t]
                  /\ AwardsRow(w, row)
                  /\ WritesTask(w)
                  /\ Commits(w, XpGain)
                  /\ UNCHANGED <<habit, reversals, user, frozen, owned,
                                 allocations, bundle, req, ops, planDay,
                                 overlapped>>
             ELSE Refused(w)

UncompleteDay(w) ==
    LET q == plan[w]
    IN  /\ q.pc = "write" /\ Uncompletes(q) /\ Holders({q.day}) = {}
        /\ IF Present(q.day, q.row) /\ ~Stuck({q.row}) /\ Writable(q)
             THEN /\ completion' = [completion EXCEPT ![q.day] = NoRow]
                  /\ sourced' = [sourced EXCEPT ![q.day] = NoTask]
                  /\ ReverseAwards(w, {q.row})
                  /\ WritesTask(w)
                  /\ Commits(w, -XpGain)
                  /\ UNCHANGED <<habit, ledger, user, frozen, owned,
                                 allocations, bundle, req, ops, planDay,
                                 overlapped>>
             ELSE Refused(w)

EditTask(w) ==
    LET q == plan[w]
    IN  /\ q.pc = "write" /\ Completes(q) = FALSE /\ Uncompletes(q) = FALSE
        /\ IF Writable(q)
             THEN /\ WritesTask(w) /\ Commits(w, 0)
                  /\ UNCHANGED <<tables, req, ops, planDay, sourced, overlapped>>
             ELSE Refused(w)

(* createTask stores any status and touches no completion.                  *)
CreateTask(w, t, new) ==
    /\ Idling(w) /\ task[t] = NoTask /\ planDay[new.on] # 0
    /\ new.linked => habit # "gone"
    /\ task' = [task EXCEPT ![t] = new]
    /\ ops' = ops + 1
    /\ UNCHANGED <<tables, req, planDay, sourced, plan, overlapped>>

-----------------------------------------------------------------------------
(* Removals.  removeDailyPlanCompletion finds one row sourced from the      *)
(* task, on any day, and reverses its award before it deletes it.           *)
Sourced(ts) ==
    {d \in Days : completion[d] # NoRow /\ sourced[d] \in {t \in ts : task[t].linked}}
OnePerTask(ts) ==
    {ds \in SUBSET Sourced(ts) :
        \A d \in Sourced(ts) : Cardinality({x \in ds : sourced[x] = sourced[d]}) = 1}

BeginDelete(w, t) ==
    /\ Idling(w) /\ IsTask(t)
    /\ \E ds \in OnePerTask({t}) :
          Opens(w, [Resting EXCEPT !.pc = "delete", !.t = t,
                                   !.found = {<<d, completion[d]>> : d \in ds}])
    /\ UNCHANGED <<tables, req, planTables>>

(* createPlan finds or makes the plan of its day, updatePlan may move it    *)
(* (unique userId and planDate); both may replace all of its tasks.         *)
BeginPlan(w, p, d, fresh) ==
    /\ Idling(w)
    /\ \A o \in Plans \ {p} : planDay[o] # d
    /\ \A t \in DOMAIN fresh : task[t] = NoTask
    /\ \E ds \in OnePerTask(TasksOf(p)) :
          Opens(w, [Resting EXCEPT
              !.pc = "plan", !.p = p, !.day = d, !.fresh = fresh,
              !.found = {<<x, completion[x]>> : x \in ds}])
    /\ UNCHANGED <<tables, req, planTables>>

RowsFound(q) == {f[2] : f \in q.found}
Awarded(q) == {row \in RowsFound(q) : row.status}
DaysFound(q) == {f[1] : f \in q.found}
Removable(q) ==
    /\ \A f \in q.found : Present(f[1], f[2])
    /\ ~Stuck(Awarded(q))
RemovesRows(w) ==
    LET ds == DaysFound(plan[w])
    IN  /\ completion' = [d \in Days |-> IF d \in ds THEN NoRow ELSE completion[d]]
        /\ sourced' = [d \in Days |-> IF d \in ds THEN NoTask ELSE sourced[d]]
        /\ ReverseAwards(w, Awarded(plan[w]))

CommitDelete(w) ==
    LET q == plan[w]
    IN  /\ q.pc = "delete" /\ Holders(DaysFound(q)) = {}
        /\ IF IsTask(q.t) /\ Removable(q)
             THEN /\ RemovesRows(w)
                  /\ task' = [task EXCEPT ![q.t] = GoneTask]
                  /\ Commits(w, IF Awarded(q) = {} THEN 0 ELSE -XpGain)
                  /\ UNCHANGED <<habit, ledger, user, frozen, owned,
                                 allocations, bundle, req, ops, planDay,
                                 overlapped>>
             ELSE Refused(w)

(* replaceItems: all rows of the old tasks, then the tasks, then the new    *)
(* ones.  No experience is taken back.                                      *)
CommitPlan(w) ==
    LET q == plan[w]
        clash == \E o \in Plans \ {q.p} : planDay[o] = q.day
        unlinkable == habit = "gone"
                        /\ \E t \in DOMAIN q.fresh : q.fresh[t].linked
    IN  /\ q.pc = "plan" /\ Holders(DaysFound(q)) = {}
        /\ IF Removable(q) /\ ~clash /\ ~unlinkable
                /\ \A t \in DOMAIN q.fresh : task[t] = NoTask
             THEN /\ RemovesRows(w)
                  /\ planDay' = [planDay EXCEPT ![q.p] = q.day]
                  /\ task' = [t \in Tasks |->
                        IF t \in DOMAIN q.fresh THEN q.fresh[t]
                        ELSE IF t \in TasksOf(q.p) THEN GoneTask ELSE task[t]]
                  /\ Closes(w)
                  /\ UNCHANGED <<habit, ledger, user, frozen, owned,
                                 allocations, bundle, req, ops, overlapped>>
             ELSE Refused(w)

(* The plan without its items: a new day or title, nothing else.            *)
MovePlan(w, p, d) ==
    /\ Idling(w)
    /\ \A o \in Plans \ {p} : planDay[o] # d
    /\ planDay' = [planDay EXCEPT ![p] = d]
    /\ ops' = ops + 1
    /\ UNCHANGED <<tables, req, task, sourced, plan, overlapped>>

(* deletePlan: the tasks cascade, their completions stay.                   *)
DeletePlan(w, p) ==
    /\ Idling(w) /\ planDay[p] # 0
    /\ planDay' = [planDay EXCEPT ![p] = 0]
    /\ task' = [t \in Tasks |-> IF t \in TasksOf(p) THEN GoneTask ELSE task[t]]
    /\ ops' = ops + 1
    /\ UNCHANGED <<tables, req, sourced, plan, overlapped>>

(* A removal that reverses an award holds the user row and waits for a      *)
(* completion row; its holder waits for the user row.  One is aborted.      *)
Deadlock(w) ==
    LET q == plan[w]
        ds == IF q.pc = "write" THEN (IF Uncompletes(q) THEN {q.day} ELSE {})
              ELSE IF Awarded(q) # {} THEN DaysFound(q) ELSE {}
    IN  /\ q.pc \in {"write", "delete", "plan"}
        /\ \E r \in Holders(ds) :
              \/ Refused(w)
              \/ /\ req' = [req EXCEPT ![r] = Idle]
                 /\ UNCHANGED <<tables, ops, planTables, plan, overlapped>>

-----------------------------------------------------------------------------
(* addExperience, after the commit: read, then write absolute values.       *)
ReadXp(w) ==
    /\ plan[w].pc = "xp"
    /\ plan' = [plan EXCEPT ![w].pc = "addxp", ![w].xp = user.xp,
                            ![w].level = user.level]
    /\ UNCHANGED <<tables, req, ops, planTables, overlapped>>

XpAfter(q) ==
    LET xp == IF q.xp + q.xpDelta < 0 THEN 0 ELSE q.xp + q.xpDelta
    IN  IF xp >= XpNeeded(q.level)
          THEN [xp |-> xp - XpNeeded(q.level), level |-> q.level + 1]
          ELSE [xp |-> xp, level |-> q.level]

WriteXp(w) ==
    LET q == plan[w]
    IN  /\ q.pc = "addxp"
        /\ user' = XpAfter(q)
        /\ Closes(w)
        /\ UNCHANGED <<habit, completion, ledger, reversals, coins, frozen, owned,
                       allocations, bundle, req, ops, planTables, overlapped>>

(* A crash or a disconnect; what was committed stays, experience is lost.   *)
AbandonPlan(w) == plan[w].pc # "idle" /\ Refused(w)

-----------------------------------------------------------------------------
(* The user starts with a plan for each of the first days and, in one of    *)
(* them, a task for the habit.                                              *)
PlanInit ==
    /\ Init
    /\ planDay = [p \in Plans |-> p]
    /\ \E t \in Tasks, p \in Plans :
          task = [x \in Tasks |->
                     IF x = t THEN [on |-> p, linked |-> TRUE, status |-> "PENDING"]
                     ELSE NoTask]
    /\ sourced = [d \in Days |-> NoTask]
    /\ plan = [w \in Writers |-> Resting]
    /\ overlapped = FALSE

(* Toggles, purchases and the habit's own removal, with what cascades: a    *)
(* deleted row takes its source along, a deleted habit unlinks its tasks.   *)
HabitStep ==
    /\ Next
    /\ sourced' = [d \in Days |->
                      IF completion'[d] = NoRow THEN NoTask ELSE sourced[d]]
    /\ task' = [t \in Tasks |->
                   IF habit' = "gone" /\ IsTask(t)
                     THEN [task[t] EXCEPT !.linked = FALSE] ELSE task[t]]
    /\ overlapped' = (overlapped \/ (ops' # ops /\ Open # {}))
    /\ UNCHANGED <<planDay, plan>>

TaskStep(w) ==
    \/ \E t \in Tasks, new \in Task : BeginTask(w, t, new) \/ CreateTask(w, t, new)
    \/ ReadRow(w) \/ CompleteDay(w) \/ UncompleteDay(w) \/ EditTask(w)
    \/ \E t \in Tasks : BeginDelete(w, t)
    \/ CommitDelete(w)

PlanStep(w) ==
    \/ \E p \in Plans, d \in Days :
          \/ \E ts \in SUBSET Tasks : \E fresh \in [ts -> Task] :
                (\A t \in ts : fresh[t].on = p) /\ BeginPlan(w, p, d, fresh)
          \/ MovePlan(w, p, d)
    \/ CommitPlan(w)
    \/ \E p \in Plans : DeletePlan(w, p)

PlanNext ==
    \/ HabitStep
    \/ \E w \in Writers : TaskStep(w) \/ PlanStep(w) \/ ReadXp(w) \/ WriteXp(w)
                             \/ Deadlock(w) \/ AbandonPlan(w)

PlanSpec == PlanInit /\ [][PlanNext]_planVars

-----------------------------------------------------------------------------
(* PROPERTIES                                                               *)

(* Types of the plan's tables and requests.                                 *)
PlanTypeOK ==
    /\ TypeOK
    /\ planDay \in [Plans -> Days \cup {0}]
    /\ \A t \in Tasks : IsTask(t) => task[t] \in Task
    /\ sourced \in [Days -> Tasks \cup {NoTask}]
    /\ \A d \in Days : sourced[d] # NoTask => completion[d] # NoRow
    /\ \A p, o \in Plans : planDay[p] = planDay[o] /\ planDay[p] # 0 => p = o

(* While no two toggles of a day are open together, and however many plan   *)
(* requests race with them, a completed day has a standing award of its     *)
(* kind: two services write the row, two engines the ledger.                *)
CompletedIsPaid ==
    \A d \in DoneDays(completion) :
        \E e \in Outstanding :
            e.ref[1] = completion[d].id /\ e.type = completion[d].kind

(* Until two requests overlap, toggles and plan steps in any order leave    *)
(* exactly one standing award per completed day, and none without one.      *)
QuietDaysPaidExactly == ~overlapped /\ habit # "gone" => DayPaidExactly

(* Candidate statements the code breaks; see the README.                    *)
PlanStreakIntact == ~overlapped => StreakBonusIntact
PlanAllocationsBacked == ~overlapped => AllocationsBacked
OneDayPerTask ==
    \A d, x \in Days : sourced[d] # NoTask /\ sourced[d] = sourced[x] => d = x
=============================================================================
