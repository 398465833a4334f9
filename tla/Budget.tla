------------------------------- MODULE Budget -------------------------------
(***************************************************************************)
(* The budgets, expenses and expense categories of one user.  An expense   *)
(* belongs to at most one budget, chosen by the user or resolved from its   *)
(* date; updating or deleting a budget resolves its expenses again.        *)
(*                                                                         *)
(* A day is two instants, its midnight and its evening, because some tests  *)
(* compare instants and others whole days.  Requests read, then write: a    *)
(* transaction is one step, the reads before it another.  Titles, notes,    *)
(* incomes and the dates of the weeks are left out; amounts are naturals, so *)
(* the tolerance MONEY_EPSILON of the allocations has nothing to forgive.   *)
(***************************************************************************)
EXTENDS Integers, Sequences, FiniteSets, FiniteSetsExt

CONSTANTS
    Callers,      \* concurrent HTTP requests
    Budgets,      \* budget ids; no result depends on their order
    Expenses,     \* expense ids
    Cost,         \* amount of each expense
    Categories,   \* the user's own expense categories
    NumDays,      \* days 0 .. NumDays - 1
    Periods,      \* pairs of instants a client may send
    Scopes,       \* period types in use
    Amounts,      \* amounts a client may send
    WeekPlans,    \* sequences of week amounts a client may send
    Allocs,       \* category allocations: [Categories -> Nat], 0 for none
    MaxOps,       \* bound: requests started in a behaviour
    None          \* model value: no row, no budget

Instants == 0 .. 2 * NumDays - 1

(* A Budget row with the weeks of its plan and its category allocations.    *)
Row == [scope : Scopes, start : Instants, end : Instants, amount : Nat,
        weeks : Seq(Nat), alloc : [Categories -> Nat]]

ASSUME BudgetAssumption ==
    /\ NumDays \in Nat \ {0} /\ MaxOps \in Nat
    /\ IsFiniteSet(Budgets) /\ IsFiniteSet(Expenses) /\ IsFiniteSet(Categories)
    /\ None \notin Budgets /\ None \notin Row
    /\ Cost \in [Expenses -> Nat \ {0}]
    /\ Periods \subseteq (0 .. 2 * NumDays - 1) \X (0 .. 2 * NumDays - 1)
    /\ Scopes \subseteq {"DAILY", "WEEKLY", "CUSTOM", "MONTHLY"}
    /\ Amounts \subseteq Nat /\ WeekPlans \subseteq Seq(Nat)
    /\ Allocs \subseteq [Categories -> Nat]

VARIABLES
    budget,       \* Budget rows with their BudgetBreakdown and allocation rows
    expense,      \* Expense rows
    categories,   \* the user's ExpenseCategory rows
    defaults,     \* rows of one default category name, shared by all users
    call,         \* what each request has read
    ops,          \* requests started so far
    overlapped    \* history: two requests have been open at the same time

rows == <<budget, expense, categories, defaults>>
vars == <<rows, call, ops, overlapped>>

DayStart(i) == 2 * (i \div 2)
DayEnd(i) == DayStart(i) + 1

Total(f, S) == MapThenSumSet(LAMBDA x : f[x], S)
Stored(b) == budget[b] # None

-----------------------------------------------------------------------------
(* normalizeBudget: what the period rules make of a request.                *)
Ask == {[scope |-> s, start |-> p[1], end |-> p[2], amount |-> a,
         weeks |-> w, alloc |-> l] :
            s \in Scopes, p \in Periods, a \in Amounts, w \in WeekPlans,
            l \in Allocs}

(* Mutant: the weekly total is the amount the client sent.                  *)
AmountAsSent(ask) == ask.amount

AmountOf(ask) ==
    IF ask.scope = "WEEKLY" THEN Total(ask.weeks, DOMAIN ask.weeks)
    ELSE ask.amount

Refused(ask) ==
    \/ ask.end < ask.start
    \/ ask.scope = "WEEKLY" /\ (ask.weeks = <<>> \/ \E i \in DOMAIN ask.weeks : ask.weeks[i] = 0)
    \/ AmountOf(ask) = 0
    \/ Total(ask.alloc, Categories) > AmountOf(ask)

Normalized(ask) ==
    [ask EXCEPT !.amount = AmountOf(ask),
                !.weeks = IF ask.scope = "WEEKLY" THEN @ ELSE <<>>]

Allocated(ask) == {c \in Categories : ask.alloc[c] > 0}

-----------------------------------------------------------------------------
(* Which budget an expense belongs to.                                      *)
Contains(b, at) ==
    at >= DayStart(budget[b].start) /\ at <= DayEnd(budget[b].end)

(* Mutant: the periods are compared by their instants, not by their days.   *)
OverlapByInstant(ask, except) ==
    \E b \in Budgets \ {except} :
        /\ Stored(b) /\ budget[b].scope = ask.scope
        /\ budget[b].start <= ask.end /\ budget[b].end >= ask.start

Overlap(ask, except) ==
    \E b \in Budgets \ {except} :
        /\ Stored(b) /\ budget[b].scope = ask.scope
        /\ budget[b].start <= DayEnd(ask.end)
        /\ budget[b].end >= DayStart(ask.start)

Priority == [DAILY |-> 1, WEEKLY |-> 2, CUSTOM |-> 3, MONTHLY |-> 4]
DurationDays(row) == (row.end \div 2) - (row.start \div 2) + 1

(* Shorter budgets first, then the more specific period type.               *)
Before(x, y) ==
    \/ DurationDays(x) < DurationDays(y)
    \/ /\ DurationDays(x) = DurationDays(y)
       /\ Priority[x.scope] < Priority[y.scope]

(* The rows whose stored instants enclose the date; a tie is no answer.     *)
Candidates(table, at) ==
    {b \in Budgets : table[b] # None /\ table[b].start <= at /\ at <= table[b].end}
Best(table, at) ==
    {b \in Candidates(table, at) :
        \A c \in Candidates(table, at) : ~Before(table[c], table[b])}
Resolve(table, at) ==
    IF Cardinality(Best(table, at)) = 1
      THEN CHOOSE b \in Best(table, at) : TRUE ELSE None
Ambiguous(at) == Cardinality(Best(budget, at)) > 1

-----------------------------------------------------------------------------
(* Requests.                                                                *)
Idle == [pc |-> "idle", b |-> None, e |-> None, ask |-> None, at |-> 0]
Open == {c \in Callers : call[c].pc # "idle"}

Counts == ops < MaxOps /\ ops' = ops + 1
Starts(c, q) ==
    /\ call[c].pc = "idle" /\ Counts
    /\ call' = [call EXCEPT ![c] = q]
    /\ overlapped' = (overlapped \/ Open # {})
    /\ UNCHANGED rows
Ends(c) ==
    /\ call' = [call EXCEPT ![c] = Idle]
    /\ UNCHANGED <<ops, overlapped>>

(* A request of one statement, or of one transaction, is one step.          *)
AtOnce ==
    /\ Counts
    /\ overlapped' = (overlapped \/ Open # {})
    /\ UNCHANGED call

Checked(ask, except) ==
    ~Refused(ask) /\ Allocated(ask) \subseteq categories /\ ~Overlap(ask, except)

CheckCreate(c, b, ask) ==
    /\ ~Stored(b) /\ Checked(ask, None)
    /\ Starts(c, [Idle EXCEPT !.pc = "create", !.b = b, !.ask = Normalized(ask)])

(* A PATCH merges what it leaves out with the rows it reads.                *)
CheckUpdate(c, b, ask) ==
    /\ Stored(b) /\ Checked(ask, b)
    /\ Starts(c, [Idle EXCEPT !.pc = "update", !.b = b, !.ask = Normalized(ask)])

InsertBudget(c) ==
    LET q == call[c]
    IN  /\ q.pc = "create"
        /\ budget' = IF ~Stored(q.b) /\ Allocated(q.ask) \subseteq categories
                       THEN [budget EXCEPT ![q.b] = q.ask] ELSE budget
        /\ Ends(c)
        /\ UNCHANGED <<expense, categories, defaults>>

(* Expenses a budget no longer holds are resolved against the new rows.     *)
Relinked(table, moved) ==
    [e \in Expenses |->
        IF e \in moved
          THEN [expense[e] EXCEPT !.budget = Resolve(table, expense[e].at)]
          ELSE expense[e]]

Linked(b) == {e \in Expenses : expense[e] # None /\ expense[e].budget = b}

(* Mutant: the expenses are compared with the period before the update.     *)
LeavesOldPeriod(row, b) == {e \in Linked(b) : ~Contains(b, expense[e].at)}

LeavesPeriod(row, b) ==
    {e \in Linked(b) : \/ expense[e].at < DayStart(row.start)
                       \/ expense[e].at > DayEnd(row.end)}

WriteUpdate(c) ==
    LET q == call[c]
        table == [budget EXCEPT ![q.b] = q.ask]
        moved == LeavesPeriod(q.ask, q.b)
    IN  /\ q.pc = "update"
        /\ IF Stored(q.b) /\ Allocated(q.ask) \subseteq categories
             THEN budget' = table /\ expense' = Relinked(table, moved)
             ELSE UNCHANGED <<budget, expense>>
        /\ Ends(c)
        /\ UNCHANGED <<categories, defaults>>

DeleteBudget(b) ==
    LET table == [budget EXCEPT ![b] = None]
    IN  /\ Stored(b) /\ AtOnce
        /\ budget' = table
        /\ expense' = Relinked(table, Linked(b))
        /\ UNCHANGED <<categories, defaults>>

(* The requested budget must hold the day; otherwise one is resolved.       *)
ResolveExpense(c, pc, e, at, asked) ==
    /\ asked # None => Stored(asked) /\ Contains(asked, at)
    /\ Starts(c, [Idle EXCEPT !.pc = pc, !.e = e, !.at = at,
                     !.b = IF asked # None THEN asked ELSE Resolve(budget, at)])

CreateExpense(c, e, at, asked) ==
    expense[e] = None /\ ResolveExpense(c, "createExpense", e, at, asked)

(* An update that names no budget resolves one, whatever was chosen before. *)
UpdateExpense(c, e, at, asked) ==
    expense[e] # None /\ ResolveExpense(c, "updateExpense", e, at, asked)

(* The foreign key refuses a budget that has been deleted in between, and an *)
(* update fails when its expense has been.                                  *)
WriteExpense(c) ==
    LET q == call[c]
    IN  /\ q.pc \in {"createExpense", "updateExpense"}
        /\ expense' = IF /\ q.b = None \/ Stored(q.b)
                         /\ (q.pc = "createExpense") = (expense[q.e] = None)
                        THEN [expense EXCEPT ![q.e] = [at |-> q.at, budget |-> q.b]]
                        ELSE expense
        /\ Ends(c)
        /\ UNCHANGED <<budget, categories, defaults>>

DeleteExpense(e) ==
    /\ expense[e] # None /\ AtOnce
    /\ expense' = [expense EXCEPT ![e] = None]
    /\ UNCHANGED <<budget, categories, defaults>>

(* Deleting a category cascades to its allocations.                         *)
CreateCategory(k) ==
    /\ k \notin categories /\ AtOnce
    /\ categories' = categories \cup {k}
    /\ UNCHANGED <<budget, expense, defaults>>

DeleteCategory(k) ==
    /\ k \in categories /\ AtOnce
    /\ categories' = categories \ {k}
    /\ budget' = [b \in Budgets |->
                     IF Stored(b) THEN [budget[b] EXCEPT !.alloc[k] = 0] ELSE None]
    /\ UNCHANGED <<expense, defaults>>

(* ensureUserDefaults: no unique index covers the rows without a user.      *)
ListCategories(c) ==
    defaults = 0 /\ Starts(c, [Idle EXCEPT !.pc = "defaults"])

SeedDefaults(c) ==
    /\ call[c].pc = "defaults"
    /\ defaults' = defaults + 1
    /\ Ends(c)
    /\ UNCHANGED <<budget, expense, categories>>

Abandon(c) == call[c].pc # "idle" /\ Ends(c) /\ UNCHANGED rows

-----------------------------------------------------------------------------
(* prisma/repair-budget-links.ts, run while no request is open: valid links *)
(* stay, ambiguous dates are reported and left, all others are resolved.    *)
ValidLink(e) ==
    expense[e].budget # None /\ Contains(expense[e].budget, expense[e].at)

(* Mutant: an expense that no budget holds keeps the link it has.           *)
RepairsFoundOnly(e) ==
    expense[e] # None /\ ~ValidLink(e) /\ Resolve(budget, expense[e].at) # None

Repairs(e) == expense[e] # None /\ ~ValidLink(e) /\ ~Ambiguous(expense[e].at)

RepairLinks ==
    /\ Open = {} /\ AtOnce
    /\ expense' = Relinked(budget, {e \in Expenses : Repairs(e)})
    /\ UNCHANGED <<budget, categories, defaults>>

Init ==
    /\ budget = [b \in Budgets |-> None]
    /\ expense = [e \in Expenses |-> None]
    /\ categories = Categories
    /\ defaults = 0
    /\ call = [c \in Callers |-> Idle]
    /\ ops = 0
    /\ overlapped = FALSE

Next ==
    \/ \E c \in Callers :
          \/ \E b \in Budgets, ask \in Ask :
                CheckCreate(c, b, ask) \/ CheckUpdate(c, b, ask)
          \/ \E e \in Expenses, at \in Instants, asked \in Budgets \cup {None} :
                CreateExpense(c, e, at, asked) \/ UpdateExpense(c, e, at, asked)
          \/ InsertBudget(c) \/ WriteUpdate(c) \/ WriteExpense(c)
          \/ ListCategories(c) \/ SeedDefaults(c) \/ Abandon(c)
    \/ \E b \in Budgets : DeleteBudget(b)
    \/ \E e \in Expenses : DeleteExpense(e)
    \/ \E k \in Categories : CreateCategory(k) \/ DeleteCategory(k)
    \/ RepairLinks

Spec == Init /\ [][Next]_vars

-----------------------------------------------------------------------------
(* The figures a budget is shown with, and the summary of a window.         *)
SpentOn(es) == Total(Cost, es)
BudgetedExpenseTotal(b) == SpentOn(Linked(b))

PeriodExpenses(b) ==
    {e \in Expenses : expense[e] # None /\ Contains(b, expense[e].at)}

(* Math.round(100 * part / whole)                                           *)
UsagePercent(part, whole) == (200 * part + whole) \div (2 * whole)

(* resolveSummaryScope and summary, for all instants.                       *)
SummaryScope(asked) ==
    IF asked # "AUTO" THEN asked
    ELSE LET present == {s \in {"MONTHLY", "WEEKLY", "DAILY"} :
                            \E b \in Budgets : Stored(b) /\ budget[b].scope = s}
         IN  IF present = {} THEN "AUTO"
             ELSE CHOOSE s \in present : \A t \in present : Priority[s] >= Priority[t]
Scoped(asked) ==
    {b \in Budgets : Stored(b) /\ budget[b].scope = SummaryScope(asked)}
Summary(asked) ==
    LET spent == SpentOn({e \in Expenses : expense[e] # None})
        budgeted == SpentOn(UNION {Linked(b) : b \in Scoped(asked)})
        planned == Total([b \in Scoped(asked) |-> budget[b].amount], Scoped(asked))
    IN  [total |-> spent, budgeted |-> budgeted, unbudgeted |-> spent - budgeted,
         remaining |-> planned - budgeted,
         overspent |-> IF budgeted > planned THEN budgeted - planned ELSE 0,
         warning |-> IF planned = 0 \/ UsagePercent(budgeted, planned) < 80 THEN "none"
                     ELSE IF UsagePercent(budgeted, planned) >= 100 THEN "above"
                     ELSE "close"]

-----------------------------------------------------------------------------
(* PROPERTIES                                                               *)

(* Types of the rows and the requests.                                      *)
TypeOK ==
    /\ budget \in [Budgets -> Row \cup {None}]
    /\ \A b \in Budgets : Stored(b) => budget[b].start <= budget[b].end
    /\ expense \in [Expenses -> {None} \cup
                        [at : Instants, budget : Budgets \cup {None}]]
    /\ categories \subseteq Categories /\ defaults \in Nat
    /\ ops \in 0 .. MaxOps

(* Whatever requests race, a weekly budget is worth the sum of its weeks,   *)
(* only a weekly one has weeks, its categories are allocated no more than   *)
(* the budget holds, and no expense points at a budget that is gone.        *)
BudgetsAddUp ==
    /\ \A b \in {x \in Budgets : Stored(x)} :
          /\ budget[b].scope = "WEEKLY"
                => budget[b].amount = Total(budget[b].weeks, DOMAIN budget[b].weeks)
          /\ budget[b].scope # "WEEKLY" => budget[b].weeks = <<>>
          /\ Total(budget[b].alloc, Categories) <= budget[b].amount
          /\ Allocated(budget[b]) \subseteq categories
    /\ \A e \in Expenses : expense[e] # None /\ expense[e].budget # None
          => Stored(expense[e].budget)

(* Until two requests overlap, budgets of one scope share no day, and so no *)
(* date is ambiguous; overlapping checks may both pass.                     *)
ScopesDisjoint ==
    ~overlapped =>
        /\ \A b, c \in {x \in Budgets : Stored(x)} :
              budget[b].scope = budget[c].scope
                /\ budget[b].start <= DayEnd(budget[c].end)
                /\ budget[c].start <= DayEnd(budget[b].end) => b = c
        /\ \A at \in Instants : ~Ambiguous(at)
        /\ defaults <= 1

(* Until two requests overlap, moving and deleting budgets leaves every     *)
(* linked expense in the period of its budget: no budget shows more budgeted *)
(* than spent in its period, a summary shows what its budgets show, and an  *)
(* overspent scope is warned about.                                         *)
LinksInPeriod ==
    ~overlapped =>
        \A b \in {x \in Budgets : Stored(x)} :
            /\ \A e \in Linked(b) : Contains(b, expense[e].at)
            /\ BudgetedExpenseTotal(b) <= SpentOn(PeriodExpenses(b))
            /\ LET sum == Summary(budget[b].scope)
                   shown == [x \in Budgets |-> BudgetedExpenseTotal(x)]
               IN  /\ sum.budgeted = Total(shown, Scoped(budget[b].scope))
                   /\ sum.overspent > 0 => sum.warning = "above"

(* After any race the repair leaves a link outside its period only where    *)
(* the date itself is ambiguous, and touches no valid link.                 *)
RepairHeals ==
    [][RepairLinks =>
          /\ \A e \in Expenses : expense[e] # None =>
                \/ expense'[e].budget = None \/ Ambiguous(expense[e].at)
                \/ Contains(expense'[e].budget, expense'[e].at)
          /\ \A e \in Expenses : expense[e] # None /\ ValidLink(e)
                => expense'[e] = expense[e]]_vars
=============================================================================
