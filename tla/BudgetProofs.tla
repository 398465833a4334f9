----------------------------- MODULE BudgetProofs -----------------------------
(* Theorems of Budget for any number of requests, budgets, expenses and       *)
(* categories and any calendar: budgets add up whatever races, and while      *)
(* requests do not overlap no scope has two budgets for a day and every link   *)
(* lies in its budget's period; the repair restores that.                     *)
EXTENDS Budget, Sums

(* What the checks of a budget request let through.                           *)
Fair(row) ==
    /\ row \in Row /\ row.amount > 0 /\ row.start <= row.end
    /\ row.scope = "WEEKLY" => row.amount = Total(row.weeks, DOMAIN row.weeks)
    /\ row.scope # "WEEKLY" => row.weeks = <<>>
    /\ Total(row.alloc, Categories) <= row.amount

Link == [at : Instants, budget : Budgets \cup {None}]
Fields == {"pc", "b", "e", "ask", "at"}

CallOK(q) ==
    /\ q = [f \in Fields |-> q[f]]
    /\ q.pc \in {"create", "update"} => q.b \in Budgets /\ Fair(q.ask)
    /\ q.pc \in {"createExpense", "updateExpense"} =>
          q.e \in Expenses /\ q.at \in Instants /\ q.b \in Budgets \cup {None}

BudgetsOK == \A b \in Budgets : Stored(b) => Fair(budget[b]) /\ Allocated(budget[b]) \subseteq categories
LinksOK == \A e \in Expenses : expense[e] # None /\ expense[e].budget # None
                                => Stored(expense[e].budget)
CallsOK == call = [c \in Callers |-> call[c]] /\ \A c \in Callers : CallOK(call[c])

TableInv ==
    /\ budget = [b \in Budgets |-> budget[b]] /\ BudgetsOK
    /\ expense \in [Expenses -> {None} \cup Link] /\ LinksOK
    /\ CallsOK /\ ops \in Nat

-----------------------------------------------------------------------------
(* The operators.                                                           *)

LEMMA IdleOK == CallOK(Idle) /\ Idle.pc = "idle" /\ Idle = [f \in Fields |-> Idle[f]]
  BY DEF Idle, CallOK, Fields

LEMMA TotalIsSum == ASSUME NEW f, NEW S PROVE Total(f, S) = SumOver(f, S)
  BY DEF Total, SumOver

(* What a request's period rules make of it, if they accept it, adds up.    *)
LEMMA NormalizedFair ==
    ASSUME NEW ask \in Ask, ~Refused(ask)
    PROVE  Fair(Normalized(ask))
<1> DEFINE row == Normalized(ask)
<1>1. PICK p \in Periods :
         /\ ask.scope \in Scopes /\ ask.start = p[1] /\ ask.end = p[2]
         /\ ask.amount \in Amounts /\ ask.weeks \in WeekPlans /\ ask.alloc \in Allocs
         /\ ask = [scope |-> ask.scope, start |-> p[1], end |-> p[2],
                   amount |-> ask.amount, weeks |-> ask.weeks, alloc |-> ask.alloc]
  BY DEF Ask
<1>2. /\ ask.start \in Instants /\ ask.end \in Instants /\ ask.amount \in Nat
      /\ ask.weeks \in Seq(Nat) /\ ask.alloc \in [Categories -> Nat]
  BY <1>1, BudgetAssumption DEF Instants
<1>3. AmountOf(ask) \in Nat
  <2>1. SumOver(ask.weeks, DOMAIN ask.weeks) \in Nat
    <3>1. DOMAIN ask.weeks = 1 .. Len(ask.weeks) /\ Len(ask.weeks) \in Nat
      BY <1>2
    <3>4. Len(ask.weeks) \in Int /\ 1 \in Int
      BY <3>1
    <3>2. IsFiniteSet(DOMAIN ask.weeks)
      BY <3>1, <3>4, FS_Interval
    <3>3. \A x \in DOMAIN ask.weeks : ask.weeks[x] \in Nat
      BY <1>2
    <3> QED
      BY <3>2, <3>3, SumNat
  <2> QED
    BY <1>2, <2>1, TotalIsSum DEF AmountOf
<1>4. Total(ask.alloc, Categories) \in Nat
  BY <1>2, BudgetAssumption, SumNat, TotalIsSum
<1>5. AmountOf(ask) > 0 /\ Total(ask.alloc, Categories) <= AmountOf(ask)
      /\ ask.start <= ask.end
  BY <1>2, <1>3, <1>4 DEF Refused, Instants
<1>6. /\ row.scope = ask.scope /\ row.start = ask.start /\ row.end = ask.end
      /\ row.alloc = ask.alloc /\ row.amount = AmountOf(ask)
      /\ row.weeks = (IF ask.scope = "WEEKLY" THEN ask.weeks ELSE <<>>)
      /\ row = [scope |-> row.scope, start |-> row.start, end |-> row.end,
                amount |-> row.amount, weeks |-> row.weeks, alloc |-> row.alloc]
  <2> DEFINE a == AmountOf(ask)
             w == IF ask.scope = "WEEKLY" THEN ask.weeks ELSE <<>>
  <2>1. row = [ask EXCEPT !.amount = a, !.weeks = w]
    BY <1>1 DEF Normalized
  <2> HIDE DEF a, row
  <2>2. /\ row.scope = ask.scope /\ row.start = ask.start /\ row.end = ask.end
        /\ row.alloc = ask.alloc /\ row.amount = a /\ row.weeks = w
        /\ row = [scope |-> row.scope, start |-> row.start, end |-> row.end,
                  amount |-> row.amount, weeks |-> row.weeks, alloc |-> row.alloc]
    <3> HIDE DEF w
    <3> QED
      BY <1>1, <2>1
  <2> QED
    BY <2>2 DEF a
<1>7. row.scope = "WEEKLY" => row.amount = Total(row.weeks, DOMAIN row.weeks)
  BY <1>6 DEF AmountOf
<1> HIDE DEF row
<1>8. row.weeks \in Seq(Nat)
  BY <1>2, <1>6
<1>9. row \in Row
  BY <1>1, <1>2, <1>3, <1>6, <1>8 DEF Row
<1> QED
  BY <1>5, <1>6, <1>7, <1>9 DEF Fair, row

(* A date resolves to a stored budget that encloses it, or to none.         *)
LEMMA Resolved ==
    ASSUME NEW table, NEW at, Resolve(table, at) # None
    PROVE  /\ Resolve(table, at) \in Best(table, at)
           /\ Resolve(table, at) \in Budgets
           /\ table[Resolve(table, at)] # None
           /\ table[Resolve(table, at)].start <= at /\ at <= table[Resolve(table, at)].end
<1>1. Cardinality(Best(table, at)) = 1
  BY DEF Resolve
<1>2. Best(table, at) # {}
  BY <1>1, FS_EmptySet
<1>3. Resolve(table, at) \in Best(table, at)
  BY <1>1, <1>2 DEF Resolve
<1> QED
  BY <1>3 DEF Best, Candidates

(* Links that are resolved anew lead to budgets of the new table.           *)
LEMMA RelinkedOK ==
    ASSUME expense \in [Expenses -> {None} \cup Link], NEW table, NEW moved,
           \A e \in Expenses : e \in moved => expense[e] # None
    PROVE  /\ Relinked(table, moved) \in [Expenses -> {None} \cup Link]
           /\ \A e \in Expenses :
                 IF e \in moved
                   THEN /\ Relinked(table, moved)[e].at = expense[e].at
                        /\ Relinked(table, moved)[e].budget = Resolve(table, expense[e].at)
                   ELSE Relinked(table, moved)[e] = expense[e]
<1>1. ASSUME NEW e \in Expenses, e \in moved
      PROVE  /\ Relinked(table, moved)[e] \in Link
             /\ Relinked(table, moved)[e].at = expense[e].at
             /\ Relinked(table, moved)[e].budget = Resolve(table, expense[e].at)
  <2> DEFINE to == Resolve(table, expense[e].at)
  <2>1. expense[e] \in Link
    BY <1>1
  <2>2. to \in Budgets \cup {None}
    BY Resolved
  <2>3. Relinked(table, moved)[e] = [expense[e] EXCEPT !.budget = to]
    BY <1>1 DEF Relinked
  <2> HIDE DEF to
  <2>4. /\ [expense[e] EXCEPT !.budget = to] \in Link
        /\ [expense[e] EXCEPT !.budget = to].at = expense[e].at
        /\ [expense[e] EXCEPT !.budget = to].budget = to
    BY <2>1, <2>2 DEF Link
  <2> QED
    BY <2>3, <2>4 DEF to
<1>2. ASSUME NEW e \in Expenses, e \notin moved
      PROVE  Relinked(table, moved)[e] = expense[e]
  BY <1>2 DEF Relinked
<1>3. Relinked(table, moved) = [e \in Expenses |-> Relinked(table, moved)[e]]
  BY DEF Relinked
<1>4. \A e \in Expenses : Relinked(table, moved)[e] \in {None} \cup Link
  BY <1>1, <1>2
<1> QED
  BY <1>1, <1>2, <1>3, <1>4

-----------------------------------------------------------------------------
(* The tables and the requests, action by action.                           *)

(* A request that reads, goes on or ends, and leaves the tables.            *)
LEMMA CallKeeps ==
    ASSUME TableInv, NEW c \in Callers, NEW q, CallOK(q),
           call' = [call EXCEPT ![c] = q], UNCHANGED rows, ops' \in Nat
    PROVE  TableInv'
<1>1. CallsOK'
  BY DEF TableInv, CallsOK, CallOK
<1>2. BudgetsOK' /\ LinksOK'
  BY DEF rows, TableInv, BudgetsOK, LinksOK, Stored
<1> QED
  BY <1>1, <1>2 DEF rows, TableInv

LEMMA StartsKeep ==
    ASSUME TableInv, NEW c \in Callers,
           \/ \E b \in Budgets, ask \in Ask : CheckCreate(c, b, ask) \/ CheckUpdate(c, b, ask)
           \/ \E e \in Expenses, at \in Instants, asked \in Budgets \cup {None} :
                 CreateExpense(c, e, at, asked) \/ UpdateExpense(c, e, at, asked)
           \/ ListCategories(c) \/ Abandon(c)
    PROVE  TableInv'
<1>0. ops \in Nat
  BY DEF TableInv
<1>1. ASSUME NEW b \in Budgets, NEW ask \in Ask,
             CheckCreate(c, b, ask) \/ CheckUpdate(c, b, ask)
      PROVE  TableInv'
  <2> DEFINE row == Normalized(ask)
  <2>1. Fair(row)
    BY <1>1, NormalizedFair DEF CheckCreate, CheckUpdate, Checked
  <2>2. PICK pc \in {"create", "update"} :
           Starts(c, [Idle EXCEPT !.pc = pc, !.b = b, !.ask = row])
    BY <1>1 DEF CheckCreate, CheckUpdate
  <2> DEFINE q == [Idle EXCEPT !.pc = pc, !.b = b, !.ask = row]
  <2> HIDE DEF row
  <2>3. q = [f \in Fields |-> q[f]] /\ q.pc = pc /\ q.b = b /\ q.ask = row
    BY IdleOK DEF Fields
  <2>4. call' = [call EXCEPT ![c] = q] /\ UNCHANGED rows /\ ops' \in Nat
    BY <1>0, <2>2 DEF Starts, Counts
  <2> HIDE DEF q
  <2>5. CallOK(q)
    BY <2>1, <2>3 DEF CallOK
  <2> QED
    BY <2>4, <2>5, CallKeeps
<1>2. ASSUME NEW e \in Expenses, NEW at \in Instants, NEW asked \in Budgets \cup {None},
             NEW pc \in {"createExpense", "updateExpense"}, ResolveExpense(c, pc, e, at, asked)
      PROVE  TableInv'
  <2> DEFINE b == IF asked # None THEN asked ELSE Resolve(budget, at)
             q == [Idle EXCEPT !.pc = pc, !.e = e, !.at = at, !.b = b]
  <2>1. Starts(c, q)
    BY <1>2 DEF ResolveExpense
  <2>2. b \in Budgets \cup {None}
    BY Resolved
  <2>4. call' = [call EXCEPT ![c] = q] /\ UNCHANGED rows /\ ops' \in Nat
    BY <1>0, <2>1 DEF Starts, Counts
  <2> HIDE DEF b
  <2>3. q = [f \in Fields |-> q[f]] /\ q.pc = pc /\ q.e = e /\ q.at = at /\ q.b = b
    BY IdleOK DEF Fields
  <2> HIDE DEF q
  <2>5. CallOK(q)
    BY <2>2, <2>3 DEF CallOK
  <2> QED
    BY <2>4, <2>5, CallKeeps
<1>3. CASE ListCategories(c)
  <2> DEFINE q == [Idle EXCEPT !.pc = "defaults"]
  <2>1. call' = [call EXCEPT ![c] = q] /\ UNCHANGED rows /\ ops' \in Nat
    BY <1>0, <1>3 DEF ListCategories, Starts, Counts
  <2>2. q = [f \in Fields |-> q[f]] /\ q.pc = "defaults"
    BY IdleOK DEF Fields
  <2> HIDE DEF q
  <2>3. CallOK(q)
    BY <2>2 DEF CallOK
  <2> QED
    BY <2>1, <2>3, CallKeeps
<1>4. CASE Abandon(c)
  BY <1>0, <1>4, IdleOK, CallKeeps DEF Abandon, Ends
<1> QED
  BY <1>1, <1>2, <1>3, <1>4 DEF CreateExpense, UpdateExpense

LEMMA EndKeeps ==
    ASSUME TableInv, NEW c \in Callers, Ends(c)
    PROVE  CallsOK' /\ ops' \in Nat
<1>1. call' = [call EXCEPT ![c] = Idle] /\ ops' = ops /\ ops \in Nat /\ CallsOK
  BY DEF Ends, TableInv
<1> QED
  BY <1>1, IdleOK DEF CallsOK, CallOK

LEMMA AtOnceKeeps ==
    ASSUME TableInv, AtOnce
    PROVE  CallsOK' /\ ops' \in Nat
<1>1. call' = call /\ ops' = ops + 1 /\ ops \in Nat /\ CallsOK
  BY DEF AtOnce, Counts, TableInv
<1> QED
  BY <1>1 DEF CallsOK, CallOK

(* A table whose rows are the old ones but for a fair row put in.           *)
LEMMA RowPut ==
    ASSUME budget = [b \in Budgets |-> budget[b]], BudgetsOK, NEW b \in Budgets, NEW row, Fair(row),
           Allocated(row) \subseteq categories, UNCHANGED categories,
           budget' = [budget EXCEPT ![b] = row]
    PROVE  /\ budget' = [x \in Budgets |-> budget'[x]] /\ BudgetsOK'
           /\ \A x \in Budgets : Stored(x) => Stored(x)'
<1>1. row # None
  BY BudgetAssumption DEF Fair
<1>2. /\ budget' = [x \in Budgets |-> budget'[x]]
      /\ \A x \in Budgets : budget'[x] = IF x = b THEN row ELSE budget[x]
  OBVIOUS
<1>3. ASSUME NEW x \in Budgets, budget'[x] # None
      PROVE  Fair(budget'[x]) /\ Allocated(budget'[x]) \subseteq categories
  BY <1>2, <1>3 DEF BudgetsOK, Stored
<1> QED
  BY <1>1, <1>2, <1>3 DEF BudgetsOK, Stored

LEMMA InsertKeeps ==
    ASSUME TableInv, NEW c \in Callers, InsertBudget(c)
    PROVE  TableInv'
<1> DEFINE q == call[c]
<1>1. /\ q.b \in Budgets /\ Fair(q.ask) /\ Ends(c)
      /\ UNCHANGED <<expense, categories, defaults>>
      /\ budget' = IF ~Stored(q.b) /\ Allocated(q.ask) \subseteq categories
                     THEN [budget EXCEPT ![q.b] = q.ask] ELSE budget
  BY DEF InsertBudget, TableInv, CallsOK, CallOK
<1> HIDE DEF q
<1>2. /\ budget' = [x \in Budgets |-> budget'[x]] /\ BudgetsOK'
      /\ \A x \in Budgets : Stored(x) => Stored(x)'
  <2>1. CASE budget' = budget
    BY <1>1, <2>1 DEF TableInv, BudgetsOK, Stored
  <2>2. CASE budget' # budget
    BY <1>1, <2>2, RowPut DEF TableInv
  <2> QED
    BY <2>1, <2>2
<1>3. LinksOK'
  BY <1>1, <1>2 DEF TableInv, LinksOK, Link
<1> QED
  BY <1>1, <1>2, <1>3, EndKeeps DEF TableInv

(* Links resolved against a table lead into it, if the others do.           *)
LEMMA LinksKeep ==
    ASSUME TableInv, NEW moved, moved \subseteq Expenses,
           \A e \in moved : expense[e] # None,
           expense' = Relinked(budget', moved),
           \A e \in Expenses \ moved : expense[e] # None /\ expense[e].budget # None
                                         => budget'[expense[e].budget] # None
    PROVE  expense' \in [Expenses -> {None} \cup Link] /\ LinksOK'
<1>0. expense \in [Expenses -> {None} \cup Link]
  BY DEF TableInv
<1>1. /\ expense' \in [Expenses -> {None} \cup Link]
      /\ \A e \in Expenses :
            IF e \in moved
              THEN /\ expense'[e].at = expense[e].at
                   /\ expense'[e].budget = Resolve(budget', expense[e].at)
              ELSE expense'[e] = expense[e]
  BY <1>0, RelinkedOK
<1>2. ASSUME NEW e \in moved, expense'[e].budget # None
      PROVE  budget'[expense'[e].budget] # None
  BY <1>1, <1>2, Resolved
<1> QED
  BY <1>1, <1>2 DEF LinksOK, Stored

LEMMA LinkLeads ==
    ASSUME TableInv, NEW e \in Expenses, expense[e] # None, expense[e].budget # None
    PROVE  expense[e].budget \in Budgets /\ Stored(expense[e].budget)
<1>1. expense[e] \in Link
  BY DEF TableInv
<1> QED
  BY <1>1 DEF TableInv, LinksOK, Link

LEMMA UpdateKeeps ==
    ASSUME TableInv, NEW c \in Callers, WriteUpdate(c)
    PROVE  TableInv'
<1> DEFINE q == call[c]
           moved == LeavesPeriod(q.ask, q.b)
<1>1. /\ q.b \in Budgets /\ Fair(q.ask) /\ Ends(c) /\ UNCHANGED <<categories, defaults>>
      /\ IF Stored(q.b) /\ Allocated(q.ask) \subseteq categories
           THEN /\ budget' = [budget EXCEPT ![q.b] = q.ask]
                /\ expense' = Relinked([budget EXCEPT ![q.b] = q.ask], moved)
           ELSE UNCHANGED <<budget, expense>>
  BY DEF WriteUpdate, TableInv, CallsOK, CallOK
<1>2. moved \subseteq Expenses /\ \A e \in moved : expense[e] # None
  BY DEF LeavesPeriod, Linked
<1> HIDE DEF q, moved
<1>3. CallsOK' /\ ops' \in Nat
  BY <1>1, EndKeeps
<1>4. CASE Stored(q.b) /\ Allocated(q.ask) \subseteq categories
  <2>1. /\ budget' = [x \in Budgets |-> budget'[x]] /\ BudgetsOK'
        /\ \A x \in Budgets : Stored(x) => Stored(x)'
    BY <1>1, <1>4, RowPut DEF TableInv
  <2>2. \A e \in Expenses : expense[e] # None /\ expense[e].budget # None
           => budget'[expense[e].budget] # None
    <3> SUFFICES ASSUME NEW e \in Expenses, expense[e] # None, expense[e].budget # None
                 PROVE  budget'[expense[e].budget] # None
      OBVIOUS
    <3> DEFINE b == expense[e].budget
    <3>1. b \in Budgets /\ Stored(b)
      BY LinkLeads
    <3> HIDE DEF b
    <3>2. budget'[b] # None
      BY <2>1, <3>1 DEF Stored
    <3> QED
      BY <3>2 DEF b
  <2>3. expense' = Relinked(budget', moved)
    BY <1>1, <1>4
  <2>4. expense' \in [Expenses -> {None} \cup Link] /\ LinksOK'
    BY <1>2, <2>2, <2>3, LinksKeep
  <2> QED
    BY <1>3, <2>1, <2>4 DEF TableInv
<1>5. CASE UNCHANGED <<budget, expense>>
  BY <1>1, <1>3, <1>5 DEF TableInv, BudgetsOK, LinksOK, Stored
<1> QED
  BY <1>1, <1>4, <1>5

LEMMA DeleteBudgetKeeps ==
    ASSUME TableInv, NEW b \in Budgets, DeleteBudget(b)
    PROVE  TableInv'
<1>1. /\ budget' = [budget EXCEPT ![b] = None] /\ AtOnce
      /\ expense' = Relinked(budget', Linked(b)) /\ UNCHANGED categories
  BY DEF DeleteBudget
<1>2. /\ budget' = [x \in Budgets |-> budget'[x]]
      /\ \A x \in Budgets : budget'[x] = IF x = b THEN None ELSE budget[x]
  BY <1>1 DEF TableInv
<1>3. BudgetsOK'
  BY <1>1, <1>2 DEF TableInv, BudgetsOK, Stored
<1>4. ASSUME NEW e \in Expenses \ Linked(b), expense[e] # None, expense[e].budget # None
      PROVE  budget'[expense[e].budget] # None
  <2> DEFINE x == expense[e].budget
  <2>1. x \in Budgets /\ Stored(x) /\ x # b
    BY <1>4, LinkLeads DEF Linked
  <2> HIDE DEF x
  <2>2. budget'[x] # None
    BY <1>2, <2>1 DEF Stored
  <2> QED
    BY <2>2 DEF x
<1>5. Linked(b) \subseteq Expenses /\ \A e \in Linked(b) : expense[e] # None
  BY DEF Linked
<1>6. expense' \in [Expenses -> {None} \cup Link] /\ LinksOK'
  BY <1>1, <1>4, <1>5, LinksKeep
<1> QED
  BY <1>1, <1>2, <1>3, <1>6, AtOnceKeeps DEF TableInv

LEMMA ExpenseKeeps ==
    ASSUME TableInv, NEW c \in Callers, WriteExpense(c)
    PROVE  TableInv'
<1> DEFINE q == call[c]
           link == [at |-> q.at, budget |-> q.b]
<1>1. /\ q.e \in Expenses /\ q.at \in Instants /\ q.b \in Budgets \cup {None} /\ Ends(c)
      /\ UNCHANGED <<budget, categories, defaults>>
      /\ expense' = [expense EXCEPT ![q.e] = link] \/ expense' = expense
      /\ expense' # expense => q.b = None \/ Stored(q.b)
  BY DEF WriteExpense, TableInv, CallsOK, CallOK
<1> HIDE DEF q
<1>2. link \in Link /\ link.budget = q.b
  BY <1>1 DEF Link
<1> HIDE DEF link
<1>3. BudgetsOK' /\ budget' = [b \in Budgets |-> budget'[b]] /\ \A x \in Budgets : Stored(x)' = Stored(x)
  BY <1>1 DEF TableInv, BudgetsOK, Stored
<1>4. expense' \in [Expenses -> {None} \cup Link]
  BY <1>1, <1>2 DEF TableInv
<1>5. LinksOK'
  <2>1. ASSUME NEW e \in Expenses, expense'[e] # None, expense'[e].budget # None
        PROVE  Stored(expense'[e].budget)
    BY <1>1, <1>2, <2>1 DEF TableInv, LinksOK
  <2> QED
    BY <1>1, <2>1 DEF LinksOK, Stored
<1> QED
  BY <1>1, <1>3, <1>4, <1>5, EndKeeps DEF TableInv

LEMMA DeleteExpenseKeeps ==
    ASSUME TableInv, NEW e \in Expenses, DeleteExpense(e)
    PROVE  TableInv'
<1>1. /\ expense' = [expense EXCEPT ![e] = None] /\ AtOnce
      /\ UNCHANGED <<budget, categories, defaults>>
  BY DEF DeleteExpense
<1>2. BudgetsOK' /\ budget' = [b \in Budgets |-> budget'[b]]
  BY <1>1 DEF TableInv, BudgetsOK, Stored
<1>3. expense' \in [Expenses -> {None} \cup Link] /\ LinksOK'
  BY <1>1 DEF TableInv, LinksOK, Stored
<1> QED
  BY <1>1, <1>2, <1>3, AtOnceKeeps DEF TableInv

(* A row that loses an allocation is still fair.                            *)
LEMMA LessAllocated ==
    ASSUME NEW row, Fair(row), NEW k \in Categories
    PROVE  /\ Fair([row EXCEPT !.alloc[k] = 0])
           /\ Allocated([row EXCEPT !.alloc[k] = 0]) \subseteq Allocated(row) \ {k}
<1> DEFINE alloc == [row.alloc EXCEPT ![k] = 0]
           less == [row EXCEPT !.alloc[k] = 0]
<1>1. /\ less.scope = row.scope /\ less.start = row.start /\ less.end = row.end
      /\ less.amount = row.amount /\ less.weeks = row.weeks /\ less.alloc = alloc
      /\ less \in Row /\ alloc \in [Categories -> Nat]
  BY DEF Fair, Row
<1>2. \A x \in Categories : /\ alloc[x] \in Nat /\ row.alloc[x] \in Nat /\ alloc[x] <= row.alloc[x]
                            /\ (x # k => alloc[x] = row.alloc[x]) /\ alloc[k] = 0
  BY DEF Fair, Row
<1> HIDE DEF less, alloc
<1>3. Total(alloc, Categories) <= row.amount
  <2>1. SumOver(alloc, Categories) <= SumOver(row.alloc, Categories)
    <3> DEFINE had == row.alloc
    <3>1. \A x \in Categories : alloc[x] \in Nat /\ had[x] \in Nat /\ alloc[x] <= had[x]
      BY <1>2
    <3> HIDE DEF had
    <3>2. Summands(alloc, Categories) /\ Summands(had, Categories)
      BY <3>1 DEF Summands
    <3>3. SumOver(alloc, Categories) <= SumOver(had, Categories)
      BY <3>1, <3>2, SumGrows, BudgetAssumption
    <3> QED
      BY <3>3 DEF had
  <2>2. /\ SumOver(alloc, Categories) \in Nat /\ SumOver(row.alloc, Categories) \in Nat
        /\ row.amount \in Nat
    BY <1>2, SumNat, BudgetAssumption DEF Fair, Row
  <2>3. SumOver(row.alloc, Categories) <= row.amount
    BY TotalIsSum DEF Fair
  <2> QED
    BY <2>1, <2>2, <2>3, TotalIsSum
<1>4. Fair(less)
  BY <1>1, <1>3 DEF Fair
<1>5. Allocated(less) \subseteq Allocated(row) \ {k}
  BY <1>1, <1>2 DEF Allocated
<1> QED
  BY <1>4, <1>5 DEF less

LEMMA DeleteCategoryKeeps ==
    ASSUME TableInv, NEW k \in Categories, DeleteCategory(k)
    PROVE  TableInv'
<1>1. /\ categories' = categories \ {k} /\ AtOnce /\ UNCHANGED <<expense, defaults>>
      /\ budget' = [b \in Budgets |->
                       IF Stored(b) THEN [budget[b] EXCEPT !.alloc[k] = 0] ELSE None]
  BY DEF DeleteCategory
<1>2. budget' = [b \in Budgets |-> budget'[b]]
  BY <1>1
<1>3. ASSUME NEW b \in Budgets, Stored(b)
      PROVE  /\ Fair(budget'[b]) /\ budget'[b] # None
             /\ Allocated(budget'[b]) \subseteq categories'
  <2>1. budget'[b] = [budget[b] EXCEPT !.alloc[k] = 0]
    BY <1>1, <1>3
  <2>2. Fair(budget[b]) /\ Allocated(budget[b]) \subseteq categories
    BY <1>3 DEF TableInv, BudgetsOK
  <2>3. Fair(budget'[b]) /\ Allocated(budget'[b]) \subseteq Allocated(budget[b]) \ {k}
    BY <2>1, <2>2, LessAllocated
  <2>4. budget'[b] # None
    BY <2>3, BudgetAssumption DEF Fair
  <2> QED
    BY <1>1, <2>2, <2>3, <2>4
<1>4. \A b \in Budgets : ~Stored(b) => budget'[b] = None
  BY <1>1
<1>5. BudgetsOK'
  BY <1>3, <1>4 DEF BudgetsOK, Stored
<1>6. LinksOK'
  BY <1>1, <1>3 DEF TableInv, LinksOK, Link, Stored
<1> QED
  BY <1>1, <1>2, <1>5, <1>6, AtOnceKeeps DEF TableInv

LEMMA RepairKeeps ==
    ASSUME TableInv, RepairLinks
    PROVE  TableInv'
<1> DEFINE moved == {e \in Expenses : Repairs(e)}
<1>1. /\ AtOnce /\ UNCHANGED <<budget, categories, defaults>>
      /\ expense' = Relinked(budget', moved)
  BY DEF RepairLinks
<1>2. moved \subseteq Expenses /\ \A e \in moved : expense[e] # None
  BY DEF Repairs
<1> HIDE DEF moved
<1>3. \A e \in Expenses : expense[e] # None /\ expense[e].budget # None
           => budget'[expense[e].budget] # None
  BY <1>1, LinkLeads DEF Stored
<1>4. expense' \in [Expenses -> {None} \cup Link] /\ LinksOK'
  BY <1>1, <1>2, <1>3, LinksKeep
<1>5. BudgetsOK' /\ budget' = [b \in Budgets |-> budget'[b]]
  BY <1>1 DEF TableInv, BudgetsOK, Stored
<1> QED
  BY <1>1, <1>4, <1>5, AtOnceKeeps DEF TableInv

LEMMA QuietTables ==
    ASSUME TableInv, UNCHANGED <<budget, expense>>, CallsOK', ops' \in Nat,
           categories \subseteq categories'
    PROVE  TableInv'
  BY DEF TableInv, BudgetsOK, LinksOK, Stored

LEMMA TableInit == Init => TableInv
<1> SUFFICES ASSUME Init PROVE TableInv
  OBVIOUS
<1>1. \A c \in Callers : call[c] = Idle
  BY DEF Init
<1>2. CallsOK
  <2>1. call = [c \in Callers |-> call[c]]
    BY DEF Init
  <2> QED
    BY <1>1, <2>1, IdleOK DEF CallsOK
<1>3. budget = [b \in Budgets |-> budget[b]] /\ BudgetsOK
  BY DEF Init, BudgetsOK, Stored
<1>4. expense \in [Expenses -> {None} \cup Link] /\ LinksOK
  BY DEF Init, LinksOK
<1> QED
  BY <1>2, <1>3, <1>4 DEF Init, TableInv

LEMMA TableStep == TableInv /\ [Next]_vars => TableInv'
<1> SUFFICES ASSUME TableInv, [Next]_vars PROVE TableInv'
  OBVIOUS
<1>1. ASSUME NEW c \in Callers,
             \/ \E b \in Budgets, ask \in Ask : CheckCreate(c, b, ask) \/ CheckUpdate(c, b, ask)
             \/ \E e \in Expenses, at \in Instants, asked \in Budgets \cup {None} :
                   CreateExpense(c, e, at, asked) \/ UpdateExpense(c, e, at, asked)
             \/ ListCategories(c) \/ Abandon(c)
      PROVE  TableInv'
  BY <1>1, StartsKeep
<1>2. ASSUME NEW c \in Callers, SeedDefaults(c)
      PROVE  TableInv'
  BY <1>2, EndKeeps, QuietTables DEF SeedDefaults
<1>3. ASSUME NEW k \in Categories, CreateCategory(k)
      PROVE  TableInv'
  BY <1>3, AtOnceKeeps, QuietTables DEF CreateCategory
<1>4. CASE UNCHANGED vars
  BY <1>4 DEF vars, rows, TableInv, BudgetsOK, LinksOK, CallsOK, CallOK, Stored
<1> QED
  BY <1>1, <1>2, <1>3, <1>4, InsertKeeps, UpdateKeeps, DeleteBudgetKeeps, ExpenseKeeps,
     DeleteExpenseKeeps, DeleteCategoryKeeps, RepairKeeps DEF Next

(* Whatever requests race, budgets, weeks, allocations and links add up.    *)
THEOREM BudgetsKept == Spec => []BudgetsAddUp
<1>1. TableInv => BudgetsAddUp
  <2> SUFFICES ASSUME TableInv PROVE BudgetsAddUp
    OBVIOUS
  <2>1. ASSUME NEW b \in Budgets, Stored(b)
        PROVE  Fair(budget[b]) /\ Allocated(budget[b]) \subseteq categories
    BY <2>1 DEF TableInv, BudgetsOK
  <2>2. \A e \in Expenses : expense[e] # None /\ expense[e].budget # None
           => Stored(expense[e].budget)
    BY DEF TableInv, LinksOK
  <2> QED
    BY <2>1, <2>2 DEF BudgetsAddUp, Fair
<1> QED
  BY <1>1, TableInit, TableStep, PTL DEF Spec

(* What a step does to the counters and the categories.                     *)
LEMMA CountersMove ==
    ASSUME [Next]_vars
    PROVE  /\ ops' = ops \/ Counts
           /\ overlapped => overlapped'
           /\ categories' \subseteq categories \cup Categories
           /\ defaults' \in {defaults, defaults + 1}
<1> DEFINE Moves == /\ ops' = ops \/ Counts
                    /\ overlapped => overlapped'
                    /\ categories' \subseteq categories \cup Categories
                    /\ defaults' \in {defaults, defaults + 1}
<1> SUFFICES Moves
  OBVIOUS
<1>1. ASSUME NEW c, NEW q, Starts(c, q) PROVE Moves
  BY <1>1 DEF Starts, rows
<1>2. ASSUME NEW c, Ends(c), categories' = categories, defaults' \in {defaults, defaults + 1}
      PROVE  Moves
  BY <1>2 DEF Ends
<1>3. ASSUME AtOnce, categories' \subseteq categories \cup Categories, defaults' = defaults
      PROVE  Moves
  BY <1>3 DEF AtOnce
<1> HIDE DEF Moves
<1>4. ASSUME NEW c \in Callers,
             \/ \E b \in Budgets, ask \in Ask : CheckCreate(c, b, ask) \/ CheckUpdate(c, b, ask)
             \/ \E e \in Expenses, at \in Instants, asked \in Budgets \cup {None} :
                   CreateExpense(c, e, at, asked) \/ UpdateExpense(c, e, at, asked)
             \/ ListCategories(c)
      PROVE  Moves
  <2>1. ASSUME NEW b, NEW ask, CheckCreate(c, b, ask) PROVE Moves
    BY <1>1, <2>1 DEF CheckCreate
  <2>2. ASSUME NEW b, NEW ask, CheckUpdate(c, b, ask) PROVE Moves
    BY <1>1, <2>2 DEF CheckUpdate
  <2>3. ASSUME NEW pc, NEW e, NEW at, NEW asked, ResolveExpense(c, pc, e, at, asked) PROVE Moves
    BY <1>1, <2>3 DEF ResolveExpense
  <2>4. ASSUME ListCategories(c) PROVE Moves
    BY <1>1, <2>4 DEF ListCategories
  <2> QED
    BY <1>4, <2>1, <2>2, <2>3, <2>4 DEF CreateExpense, UpdateExpense
<1>5. ASSUME NEW c \in Callers, \/ InsertBudget(c) \/ WriteUpdate(c) \/ WriteExpense(c)
                                \/ SeedDefaults(c) \/ Abandon(c)
      PROVE  Moves
  <2>1. CASE InsertBudget(c)
    BY <1>2, <2>1 DEF InsertBudget
  <2>2. CASE WriteUpdate(c)
    BY <1>2, <2>2 DEF WriteUpdate
  <2>3. CASE WriteExpense(c)
    BY <1>2, <2>3 DEF WriteExpense
  <2>4. CASE SeedDefaults(c)
    BY <1>2, <2>4 DEF SeedDefaults
  <2>5. CASE Abandon(c)
    BY <1>2, <2>5 DEF Abandon, rows
  <2> QED
    BY <1>5, <2>1, <2>2, <2>3, <2>4, <2>5
<1>6. ASSUME NEW b \in Budgets, DeleteBudget(b) PROVE Moves
  BY <1>3, <1>6 DEF DeleteBudget
<1>7. ASSUME NEW e \in Expenses, DeleteExpense(e) PROVE Moves
  BY <1>3, <1>7 DEF DeleteExpense
<1>8. ASSUME NEW k \in Categories, CreateCategory(k) PROVE Moves
  <2>1. AtOnce /\ categories' = categories \cup {k} /\ defaults' = defaults
    BY <1>8 DEF CreateCategory
  <2> QED
    BY <1>3, <2>1
<1>9. ASSUME NEW k \in Categories, DeleteCategory(k) PROVE Moves
  <2>1. AtOnce /\ categories' = categories \ {k} /\ defaults' = defaults
    BY <1>9 DEF DeleteCategory
  <2> QED
    BY <1>3, <2>1
<1>10. CASE RepairLinks
  BY <1>3, <1>10 DEF RepairLinks
<1>11. CASE UNCHANGED vars
  BY <1>11 DEF vars, rows, Moves
<1> QED
  BY <1>4, <1>5, <1>6, <1>7, <1>8, <1>9, <1>10, <1>11 DEF Next

(* The rows, the categories and the counters keep their types.              *)
THEOREM BudgetTypes == Spec => []TypeOK
<1> DEFINE Counted == categories \subseteq Categories /\ defaults \in Nat /\ ops \in 0 .. MaxOps
<1>1. Init => Counted
  BY BudgetAssumption DEF Init
<1>2. ASSUME Counted, [Next]_vars PROVE Counted'
  <2>1. ASSUME ops' = ops \/ Counts PROVE ops' \in 0 .. MaxOps
    BY <1>2, <2>1, BudgetAssumption DEF Counts
  <2> QED
    BY <1>2, <2>1, CountersMove
<1>3. TableInv /\ Counted => TypeOK
  <2> SUFFICES ASSUME TableInv, Counted PROVE TypeOK
    OBVIOUS
  <2>1. \A b \in Budgets : Stored(b) => budget[b] \in Row /\ budget[b].start <= budget[b].end
    BY DEF TableInv, BudgetsOK, Fair
  <2>2. budget \in [Budgets -> Row \cup {None}]
    BY <2>1 DEF TableInv, Stored
  <2>3. expense \in [Expenses -> {None} \cup [at : Instants, budget : Budgets \cup {None}]]
    BY DEF TableInv, Link
  <2> QED
    BY <2>1, <2>2, <2>3 DEF TypeOK
<1> HIDE DEF Counted
<1> QED
  BY <1>1, <1>2, <1>3, TableInit, TableStep, PTL DEF Spec

-----------------------------------------------------------------------------
(* While no two requests are open at once, what a request has read still     *)
(* holds when it writes.                                                     *)

Spans(row, at) == at >= DayStart(row.start) /\ at <= DayEnd(row.end)
Apart(x, y) ==
    ~(x.scope = y.scope /\ x.start <= DayEnd(y.end) /\ y.start <= DayEnd(x.end))

Current(q) ==
    /\ q.pc = "create" => ~Overlap(q.ask, None)
    /\ q.pc = "update" => ~Overlap(q.ask, q.b)
    /\ q.pc \in {"createExpense", "updateExpense"} => q.b = None \/ (Stored(q.b) /\ Spans(budget[q.b], q.at))
    /\ q.pc = "defaults" => defaults = 0

AloneAtWork == \A c, d \in Callers : call[c].pc # "idle" /\ call[d].pc # "idle" => c = d
AllCurrent == \A c \in Callers : Current(call[c])
RowsApart == \A b, c \in Budgets : Stored(b) /\ Stored(c) /\ b # c => Apart(budget[b], budget[c])
Held == \A e \in Expenses : expense[e] # None /\ expense[e].budget # None
                               => Spans(budget[expense[e].budget], expense[e].at)
TablesQuiet == RowsApart /\ Held /\ defaults \in {0, 1}

QuietState == AloneAtWork /\ AllCurrent /\ TablesQuiet
QuietInv == ~overlapped => QuietState

LEMMA FairNumbers ==
    ASSUME NEW row, Fair(row)
    PROVE  row.start \in Int /\ row.end \in Int /\ row.start <= row.end
  BY BudgetAssumption DEF Fair, Row, Instants

(* With no request open there is nothing to be out of date.                 *)
LEMMA AllIdle ==
    ASSUME \A c \in Callers : call'[c].pc = "idle"
    PROVE  AloneAtWork' /\ AllCurrent'
  BY DEF AloneAtWork, AllCurrent, Current

LEMMA AtOnceIdle ==
    ASSUME AtOnce, ~overlapped'
    PROVE  AloneAtWork' /\ AllCurrent'
<1>1. \A c \in Callers : call'[c].pc = "idle"
  BY DEF AtOnce, Open
<1> QED
  BY <1>1, AllIdle

LEMMA EndIdle ==
    ASSUME AloneAtWork, CallsOK, NEW c \in Callers, call[c].pc # "idle", Ends(c)
    PROVE  AloneAtWork' /\ AllCurrent'
<1>1. call' = [call EXCEPT ![c] = Idle] /\ call = [d \in Callers |-> call[d]]
  BY DEF Ends, CallsOK
<1>2. \A d \in Callers : call'[d].pc = "idle"
  BY <1>1, IdleOK DEF AloneAtWork
<1> QED
  BY <1>2, AllIdle

(* A request that has just read is up to date.                              *)
LEMMA StartCurrent ==
    ASSUME TableInv, QuietState, NEW c \in Callers, NEW q, Starts(c, q), Current(q), ~overlapped'
    PROVE  QuietState'
<1>1. /\ call' = [call EXCEPT ![c] = q] /\ UNCHANGED rows
      /\ \A d \in Callers : call[d].pc = "idle"
  BY DEF Starts, Open
<1>2. \A d \in Callers : call'[d] = IF d = c THEN q ELSE call[d]
  BY <1>1 DEF TableInv, CallsOK
<1>3. AloneAtWork'
  BY <1>1, <1>2 DEF AloneAtWork
<1>4. AllCurrent'
  BY <1>1, <1>2 DEF AllCurrent, Current, rows, Overlap, Stored
<1>5. TablesQuiet'
  BY <1>1 DEF QuietState, TablesQuiet, RowsApart, Held, rows, Stored
<1> QED
  BY <1>3, <1>4, <1>5 DEF QuietState

(* The checks a request makes, and the budget it finds.                     *)
LEMMA StartsQuiet ==
    ASSUME TableInv, QuietState, NEW c \in Callers, ~overlapped',
           \/ \E b \in Budgets, ask \in Ask : CheckCreate(c, b, ask) \/ CheckUpdate(c, b, ask)
           \/ \E e \in Expenses, at \in Instants, asked \in Budgets \cup {None} :
                 CreateExpense(c, e, at, asked) \/ UpdateExpense(c, e, at, asked)
           \/ ListCategories(c)
    PROVE  QuietState'
<1>1. ASSUME NEW b \in Budgets, NEW ask \in Ask,
             CheckCreate(c, b, ask) \/ CheckUpdate(c, b, ask)
      PROVE  QuietState'
  <2> DEFINE row == Normalized(ask)
  <2>1. row.scope = ask.scope /\ row.start = ask.start /\ row.end = ask.end
    BY DEF Normalized, Ask
  <2>2. \A x : Overlap(row, x) = Overlap(ask, x)
    BY <2>1 DEF Overlap
  <2> HIDE DEF row
  <2>3. PICK pc \in {"create", "update"}, except \in Budgets \cup {None} :
           /\ ~Overlap(row, except) /\ except = IF pc = "create" THEN None ELSE b
           /\ Starts(c, [Idle EXCEPT !.pc = pc, !.b = b, !.ask = row])
    <3>1. CASE CheckCreate(c, b, ask)
      BY <2>2, <3>1 DEF CheckCreate, Checked, row
    <3>2. CASE CheckUpdate(c, b, ask)
      BY <2>2, <3>2 DEF CheckUpdate, Checked, row
    <3> QED
      BY <1>1, <3>1, <3>2
  <2> DEFINE q == [Idle EXCEPT !.pc = pc, !.b = b, !.ask = row]
  <2>4. q.pc = pc /\ q.b = b /\ q.ask = row
    BY DEF Idle
  <2>5. Starts(c, q)
    BY <2>3
  <2> HIDE DEF q
  <2>6. Current(q)
    BY <2>3, <2>4 DEF Current
  <2> QED
    BY <2>5, <2>6, StartCurrent
<1>2. ASSUME NEW e \in Expenses, NEW at \in Instants, NEW asked \in Budgets \cup {None},
             NEW pc \in {"createExpense", "updateExpense"}, ResolveExpense(c, pc, e, at, asked)
      PROVE  QuietState'
  <2> DEFINE b == IF asked # None THEN asked ELSE Resolve(budget, at)
             q == [Idle EXCEPT !.pc = pc, !.e = e, !.at = at, !.b = b]
  <2>1. Starts(c, q) /\ (asked # None => Stored(asked) /\ Spans(budget[asked], at))
    BY <1>2 DEF ResolveExpense, Contains, Spans
  <2>2. b = None \/ (Stored(b) /\ Spans(budget[b], at))
    <3>1. ASSUME asked = None, b # None
          PROVE  Stored(b) /\ Spans(budget[b], at)
      <4>1. /\ b \in Budgets /\ budget[b] # None
            /\ budget[b].start <= at /\ at <= budget[b].end
        BY <3>1, Resolved
      <4> HIDE DEF b
      <4>2. Fair(budget[b])
        BY <4>1 DEF TableInv, BudgetsOK, Stored
      <4>3. budget[b].start \in Int /\ budget[b].end \in Int /\ at \in Int
        BY <4>2, FairNumbers, BudgetAssumption DEF Instants
      <4> QED
        BY <4>1, <4>3 DEF Stored, Spans, DayStart, DayEnd
    <3> QED
      BY <2>1, <3>1
  <2> HIDE DEF b
  <2>3. q.pc = pc /\ q.at = at /\ q.b = b
    BY DEF Idle
  <2> HIDE DEF q
  <2>4. Current(q)
    BY <2>2, <2>3 DEF Current
  <2> QED
    BY <2>1, <2>4, StartCurrent
<1>3. CASE ListCategories(c)
  <2> DEFINE q == [Idle EXCEPT !.pc = "defaults"]
  <2>1. Starts(c, q) /\ defaults = 0
    BY <1>3 DEF ListCategories
  <2>2. q.pc = "defaults"
    BY DEF Idle
  <2> HIDE DEF q
  <2> QED
    BY <2>1, <2>2, StartCurrent DEF Current
<1> QED
  BY <1>1, <1>2, <1>3 DEF CreateExpense, UpdateExpense

(* A period that overlaps no other budget of its scope lies apart of them.   *)
LEMMA NoOverlapApart ==
    ASSUME NEW row, Fair(row), NEW except, ~Overlap(row, except),
           NEW b \in Budgets \ {except}, Stored(b), Fair(budget[b])
    PROVE  Apart(row, budget[b]) /\ Apart(budget[b], row)
<1> DEFINE x == budget[b]
<1>1. x.scope = row.scope => ~(x.start <= DayEnd(row.end) /\ x.end >= DayStart(row.start))
  BY DEF Overlap
<1>2. /\ x.start \in Int /\ x.end \in Int /\ x.start <= x.end
      /\ row.start \in Int /\ row.end \in Int /\ row.start <= row.end
  BY FairNumbers
<1> HIDE DEF x
<1>3. row.start <= DayEnd(x.end) => x.end >= DayStart(row.start)
  BY <1>2 DEF DayStart, DayEnd
<1>4. Apart(row, x) /\ Apart(x, row)
  BY <1>1, <1>3 DEF Apart
<1> QED
  BY <1>4 DEF x

LEMMA PutApart ==
    ASSUME TableInv, RowsApart, NEW b \in Budgets, NEW row, Fair(row),
           NEW except, except \in {b, None}, except = None => ~Stored(b), ~Overlap(row, except),
           budget' = [budget EXCEPT ![b] = row]
    PROVE  RowsApart'
<1>1. \A x \in Budgets : budget'[x] = IF x = b THEN row ELSE budget[x]
  BY DEF TableInv
<1>2. ASSUME NEW x \in Budgets, Stored(x), x # b
      PROVE  Apart(row, budget[x]) /\ Apart(budget[x], row)
  <2>1. x \in Budgets \ {except} /\ Fair(budget[x])
    BY <1>2, BudgetAssumption DEF TableInv, BudgetsOK
  <2> QED
    BY <1>2, <2>1, NoOverlapApart
<1>3. ASSUME NEW x \in Budgets, NEW y \in Budgets, budget'[x] # None, budget'[y] # None, x # y
      PROVE  Apart(budget'[x], budget'[y])
  BY <1>1, <1>2, <1>3 DEF RowsApart, Stored
<1> QED
  BY <1>3 DEF RowsApart, Stored

(* A resolved date lies in its budget's period.                             *)
LEMMA HeldKept ==
    ASSUME expense \in [Expenses -> {None} \cup Link], BudgetsOK',
           NEW moved, moved \subseteq Expenses, \A e \in moved : expense[e] # None,
           expense' = Relinked(budget', moved),
           \A e \in Expenses \ moved : expense[e] # None /\ expense[e].budget # None
               => Spans(budget'[expense[e].budget], expense[e].at)
    PROVE  Held'
<1>1. \A e \in Expenses :
            IF e \in moved
              THEN /\ expense'[e].at = expense[e].at
                   /\ expense'[e].budget = Resolve(budget', expense[e].at)
              ELSE expense'[e] = expense[e]
  BY RelinkedOK
<1>2. ASSUME NEW e \in moved, expense'[e].budget # None
      PROVE  Spans(budget'[expense'[e].budget], expense'[e].at)
  <2> DEFINE at == expense[e].at
             b == Resolve(budget', at)
  <2>1. expense'[e].at = at /\ expense'[e].budget = b /\ b # None
    BY <1>1, <1>2
  <2>2. at \in Int
    <3>1. expense[e] \in Link
      OBVIOUS
    <3> QED
      BY <3>1, BudgetAssumption DEF Link, Instants
  <2>3. b \in Budgets /\ budget'[b] # None /\ budget'[b].start <= at /\ at <= budget'[b].end
    BY <2>1, Resolved
  <2> HIDE DEF at, b
  <2>4. Fair(budget'[b])
    BY <2>3 DEF BudgetsOK, Stored
  <2>5. budget'[b].start \in Int /\ budget'[b].end \in Int
    BY <2>4, FairNumbers
  <2>6. Spans(budget'[b], at)
    BY <2>2, <2>3, <2>5 DEF Spans, DayStart, DayEnd
  <2> QED
    BY <2>1, <2>6
<1>3. ASSUME NEW e \in Expenses \ moved, expense'[e] # None, expense'[e].budget # None
      PROVE  Spans(budget'[expense'[e].budget], expense'[e].at)
  BY <1>1, <1>3
<1> QED
  BY <1>2, <1>3 DEF Held

-----------------------------------------------------------------------------
(* The writes of a request that nothing has overtaken.                      *)

LEMMA InsertQuiet ==
    ASSUME TableInv, QuietState, NEW c \in Callers, InsertBudget(c)
    PROVE  QuietState'
<1> DEFINE q == call[c]
<1>1. /\ q.pc = "create" /\ q.b \in Budgets /\ Fair(q.ask) /\ Ends(c)
      /\ UNCHANGED <<expense, categories, defaults>>
      /\ budget' = IF ~Stored(q.b) /\ Allocated(q.ask) \subseteq categories
                     THEN [budget EXCEPT ![q.b] = q.ask] ELSE budget
      /\ Current(q) /\ TablesQuiet
  BY DEF InsertBudget, TableInv, CallsOK, CallOK, QuietState, AllCurrent
<1>2. AloneAtWork' /\ AllCurrent'
  BY <1>1, EndIdle DEF QuietState, TableInv
<1> HIDE DEF q
<1>3. CASE budget' = budget
  BY <1>1, <1>2, <1>3 DEF QuietState, TablesQuiet, RowsApart, Held, Stored
<1>4. CASE budget' # budget
  <2>1. ~Stored(q.b) /\ budget' = [budget EXCEPT ![q.b] = q.ask] /\ ~Overlap(q.ask, None)
    BY <1>1, <1>4 DEF Current
  <2>2. RowsApart'
    BY <1>1, <2>1, PutApart DEF TablesQuiet
  <2>3. \A x \in Budgets : Stored(x) => budget'[x] = budget[x]
    BY <2>1 DEF TableInv
  <2>4. Held'
    <3>1. ASSUME NEW e \in Expenses, expense[e] # None, expense[e].budget # None
          PROVE  Spans(budget'[expense[e].budget], expense[e].at)
      <4> DEFINE b == expense[e].budget
      <4>1. b \in Budgets /\ Stored(b) /\ Spans(budget[b], expense[e].at)
        BY <1>1, <3>1, LinkLeads DEF TablesQuiet, Held
      <4> HIDE DEF b
      <4>2. Spans(budget'[b], expense[e].at)
        BY <2>3, <4>1
      <4> QED
        BY <4>2 DEF b
    <3> QED
      BY <1>1, <3>1 DEF Held
  <2> QED
    BY <1>1, <1>2, <2>2, <2>4 DEF QuietState, TablesQuiet
<1> QED
  BY <1>3, <1>4

LEMMA UpdateQuiet ==
    ASSUME TableInv, TableInv', QuietState, NEW c \in Callers, WriteUpdate(c)
    PROVE  QuietState'
<1> DEFINE q == call[c]
           moved == LeavesPeriod(q.ask, q.b)
<1>1. /\ q.pc = "update" /\ q.b \in Budgets /\ Fair(q.ask) /\ Ends(c)
      /\ UNCHANGED <<categories, defaults>>
      /\ IF Stored(q.b) /\ Allocated(q.ask) \subseteq categories
           THEN /\ budget' = [budget EXCEPT ![q.b] = q.ask]
                /\ expense' = Relinked([budget EXCEPT ![q.b] = q.ask], moved)
           ELSE UNCHANGED <<budget, expense>>
      /\ Current(q) /\ TablesQuiet
  BY DEF WriteUpdate, TableInv, CallsOK, CallOK, QuietState, AllCurrent
<1>2. AloneAtWork' /\ AllCurrent'
  BY <1>1, EndIdle DEF QuietState, TableInv
<1>3. /\ moved \subseteq Expenses /\ \A e \in moved : expense[e] # None
      /\ \A e \in Expenses \ moved : expense[e] # None /\ expense[e].budget = q.b
           => ~(expense[e].at < DayStart(q.ask.start)) /\ ~(expense[e].at > DayEnd(q.ask.end))
  BY DEF LeavesPeriod, Linked
<1> HIDE DEF q, moved
<1>4. CASE UNCHANGED <<budget, expense>>
  BY <1>1, <1>2, <1>4 DEF QuietState, TablesQuiet, RowsApart, Held, Stored
<1>5. CASE Stored(q.b) /\ Allocated(q.ask) \subseteq categories
  <2>1. /\ budget' = [budget EXCEPT ![q.b] = q.ask] /\ expense' = Relinked(budget', moved)
        /\ ~Overlap(q.ask, q.b)
    BY <1>1, <1>5 DEF Current
  <2>2. RowsApart'
    BY <1>1, <2>1, PutApart, BudgetAssumption DEF TablesQuiet
  <2>3. \A x \in Budgets : budget'[x] = IF x = q.b THEN q.ask ELSE budget[x]
    BY <2>1 DEF TableInv
  <2>4. ASSUME NEW e \in Expenses \ moved, expense[e] # None, expense[e].budget # None
        PROVE  Spans(budget'[expense[e].budget], expense[e].at)
    <3> DEFINE b == expense[e].budget
               at == expense[e].at
    <3>1. b \in Budgets /\ Spans(budget[b], at)
      BY <1>1, <2>4, LinkLeads DEF TablesQuiet, Held
    <3>2. at \in Int
      <4>1. expense[e] \in Link
        BY <2>4 DEF TableInv
      <4> QED
        BY <4>1, BudgetAssumption DEF Link, Instants
    <3>3. b = q.b => ~(at < DayStart(q.ask.start)) /\ ~(at > DayEnd(q.ask.end))
      BY <1>3, <2>4
    <3> HIDE DEF b, at
    <3>4. q.ask.start \in Int /\ q.ask.end \in Int
      BY <1>1, FairNumbers
    <3>5. b = q.b => Spans(q.ask, at)
      BY <3>2, <3>3, <3>4 DEF Spans, DayStart, DayEnd
    <3>6. Spans(budget'[b], at)
      BY <2>3, <3>1, <3>5
    <3> QED
      BY <3>6 DEF b, at
  <2>5. Held'
    BY <1>3, <2>1, <2>4, HeldKept DEF TableInv
  <2> QED
    BY <1>1, <1>2, <2>2, <2>5 DEF QuietState, TablesQuiet
<1> QED
  BY <1>1, <1>4, <1>5

LEMMA DeleteBudgetQuiet ==
    ASSUME TableInv, TableInv', QuietState, NEW b \in Budgets, DeleteBudget(b), ~overlapped'
    PROVE  QuietState'
<1>1. /\ budget' = [budget EXCEPT ![b] = None] /\ AtOnce
      /\ expense' = Relinked(budget', Linked(b)) /\ UNCHANGED <<categories, defaults>>
  BY DEF DeleteBudget
<1>2. AloneAtWork' /\ AllCurrent' /\ TablesQuiet
  BY <1>1, AtOnceIdle DEF QuietState
<1>3. \A x \in Budgets : budget'[x] = IF x = b THEN None ELSE budget[x]
  BY <1>1 DEF TableInv
<1>4. RowsApart'
  BY <1>2, <1>3 DEF TablesQuiet, RowsApart, Stored
<1>5. ASSUME NEW e \in Expenses \ Linked(b), expense[e] # None, expense[e].budget # None
      PROVE  Spans(budget'[expense[e].budget], expense[e].at)
  <2> DEFINE x == expense[e].budget
  <2>1. x \in Budgets /\ x # b /\ Spans(budget[x], expense[e].at)
    BY <1>2, <1>5, LinkLeads DEF TablesQuiet, Held, Linked
  <2> HIDE DEF x
  <2>2. Spans(budget'[x], expense[e].at)
    BY <1>3, <2>1
  <2> QED
    BY <2>2 DEF x
<1>6. Linked(b) \subseteq Expenses /\ \A e \in Linked(b) : expense[e] # None
  BY DEF Linked
<1>7. Held'
  BY <1>1, <1>5, <1>6, HeldKept DEF TableInv
<1> QED
  BY <1>1, <1>2, <1>4, <1>7 DEF QuietState, TablesQuiet

LEMMA ExpenseQuiet ==
    ASSUME TableInv, QuietState, NEW c \in Callers, WriteExpense(c)
    PROVE  QuietState'
<1> DEFINE q == call[c]
           link == [at |-> q.at, budget |-> q.b]
<1>1. /\ q.pc \in {"createExpense", "updateExpense"} /\ q.e \in Expenses /\ Ends(c)
      /\ UNCHANGED <<budget, categories, defaults>>
      /\ expense' = [expense EXCEPT ![q.e] = link] \/ expense' = expense
      /\ expense' # expense => q.b = None \/ Stored(q.b)
      /\ Current(q) /\ TablesQuiet
  BY DEF WriteExpense, TableInv, CallsOK, CallOK, QuietState, AllCurrent
<1>2. AloneAtWork' /\ AllCurrent'
  BY <1>1, EndIdle DEF QuietState, TableInv
<1>3. link.at = q.at /\ link.budget = q.b
  OBVIOUS
<1> HIDE DEF q, link
<1>4. q.b # None => Spans(budget[q.b], q.at)
  BY <1>1 DEF Current
<1>5. \A e \in Expenses : expense'[e] = expense[e] \/ expense'[e] = link
  BY <1>1 DEF TableInv
<1>6. ASSUME NEW e \in Expenses, expense'[e] # None, expense'[e].budget # None
      PROVE  Spans(budget[expense'[e].budget], expense'[e].at)
  <2>1. CASE expense'[e] = expense[e]
    BY <1>1, <1>6, <2>1 DEF TablesQuiet, Held
  <2>2. CASE expense'[e] = link
    BY <1>3, <1>4, <1>6, <2>2
  <2> QED
    BY <1>5, <2>1, <2>2
<1>7. Held' /\ RowsApart'
  BY <1>1, <1>6 DEF TablesQuiet, Held, RowsApart, Stored
<1> QED
  BY <1>1, <1>2, <1>7 DEF QuietState, TablesQuiet

LEMMA DeleteExpenseQuiet ==
    ASSUME TableInv, QuietState, NEW e \in Expenses, DeleteExpense(e), ~overlapped'
    PROVE  QuietState'
<1>1. /\ expense' = [expense EXCEPT ![e] = None] /\ AtOnce
      /\ UNCHANGED <<budget, categories, defaults>>
  BY DEF DeleteExpense
<1>2. AloneAtWork' /\ AllCurrent' /\ TablesQuiet
  BY <1>1, AtOnceIdle DEF QuietState
<1>3. \A x \in Expenses : expense'[x] = IF x = e THEN None ELSE expense[x]
  BY <1>1 DEF TableInv
<1>4. Held' /\ RowsApart'
  BY <1>1, <1>2, <1>3 DEF TablesQuiet, Held, RowsApart, Stored
<1> QED
  BY <1>1, <1>2, <1>4 DEF QuietState, TablesQuiet

LEMMA DeleteCategoryQuiet ==
    ASSUME TableInv, QuietState, NEW k \in Categories, DeleteCategory(k), ~overlapped'
    PROVE  QuietState'
<1>1. /\ AtOnce /\ UNCHANGED <<expense, defaults>>
      /\ budget' = [b \in Budgets |->
                       IF Stored(b) THEN [budget[b] EXCEPT !.alloc[k] = 0] ELSE None]
  BY DEF DeleteCategory
<1>2. AloneAtWork' /\ AllCurrent' /\ TablesQuiet
  BY <1>1, AtOnceIdle DEF QuietState
<1>3. ASSUME NEW b \in Budgets, Stored(b)
      PROVE  /\ budget'[b].scope = budget[b].scope /\ budget'[b].start = budget[b].start
             /\ budget'[b].end = budget[b].end
  <2>1. budget'[b] = [budget[b] EXCEPT !.alloc[k] = 0] /\ budget[b] \in Row
    BY <1>1, <1>3 DEF TableInv, BudgetsOK, Fair
  <2> QED
    BY <2>1 DEF Row
<1>4. \A b \in Budgets : ~Stored(b) => budget'[b] = None
  BY <1>1
<1>5. RowsApart'
  BY <1>2, <1>3, <1>4 DEF TablesQuiet, RowsApart, Stored, Apart
<1>6. ASSUME NEW e \in Expenses, expense[e] # None, expense[e].budget # None
      PROVE  Spans(budget'[expense[e].budget], expense[e].at)
  <2> DEFINE b == expense[e].budget
  <2>1. b \in Budgets /\ Stored(b) /\ Spans(budget[b], expense[e].at)
    BY <1>2, <1>6, LinkLeads DEF TablesQuiet, Held
  <2> HIDE DEF b
  <2>2. Spans(budget'[b], expense[e].at)
    BY <1>3, <2>1 DEF Spans
  <2> QED
    BY <2>2 DEF b
<1>7. Held'
  BY <1>1, <1>6 DEF Held
<1> QED
  BY <1>1, <1>2, <1>5, <1>7 DEF QuietState, TablesQuiet

LEMMA RepairQuiet ==
    ASSUME TableInv, TableInv', QuietState, RepairLinks, ~overlapped'
    PROVE  QuietState'
<1> DEFINE moved == {e \in Expenses : Repairs(e)}
<1>1. /\ AtOnce /\ UNCHANGED <<budget, categories, defaults>>
      /\ expense' = Relinked(budget', moved)
  BY DEF RepairLinks
<1>2. moved \subseteq Expenses /\ \A e \in moved : expense[e] # None
  BY DEF Repairs
<1> HIDE DEF moved
<1>3. AloneAtWork' /\ AllCurrent' /\ TablesQuiet
  BY <1>1, AtOnceIdle DEF QuietState
<1>4. \A e \in Expenses \ moved : expense[e] # None /\ expense[e].budget # None
           => Spans(budget'[expense[e].budget], expense[e].at)
  BY <1>1, <1>3 DEF TablesQuiet, Held
<1>5. Held'
  BY <1>1, <1>2, <1>4, HeldKept DEF TableInv
<1>6. RowsApart'
  BY <1>1, <1>3 DEF TablesQuiet, RowsApart, Stored
<1> QED
  BY <1>1, <1>3, <1>5, <1>6 DEF QuietState, TablesQuiet

LEMMA QuietInit == Init => QuietInv
<1> SUFFICES ASSUME Init PROVE QuietState
  BY DEF QuietInv
<1>1. \A c \in Callers : call[c] = Idle
  BY DEF Init
<1>2. AloneAtWork /\ AllCurrent
  BY <1>1, IdleOK DEF AloneAtWork, AllCurrent, Current
<1>3. TablesQuiet
  BY DEF Init, TablesQuiet, RowsApart, Held, Stored
<1> QED
  BY <1>2, <1>3 DEF QuietState

LEMMA SameTables ==
    ASSUME QuietState, AloneAtWork', AllCurrent', UNCHANGED <<budget, expense>>, defaults' \in {0, 1}
    PROVE  QuietState'
  BY DEF QuietState, TablesQuiet, RowsApart, Held, Stored

LEMMA QuietStep == TableInv /\ TableInv' /\ QuietInv /\ [Next]_vars => QuietInv'
<1> SUFFICES ASSUME TableInv, TableInv', QuietInv, [Next]_vars, ~overlapped' PROVE QuietState'
  BY DEF QuietInv
<1>0. ~overlapped
  BY CountersMove
<1>1. QuietState
  BY <1>0 DEF QuietInv
<1>2. ASSUME NEW c \in Callers,
             \/ \E b \in Budgets, ask \in Ask : CheckCreate(c, b, ask) \/ CheckUpdate(c, b, ask)
             \/ \E e \in Expenses, at \in Instants, asked \in Budgets \cup {None} :
                   CreateExpense(c, e, at, asked) \/ UpdateExpense(c, e, at, asked)
             \/ ListCategories(c)
      PROVE  QuietState'
  BY <1>1, <1>2, StartsQuiet
<1>3. ASSUME NEW c \in Callers, SeedDefaults(c)
      PROVE  QuietState'
  <2>1. /\ Ends(c) /\ call[c].pc = "defaults" /\ defaults' = defaults + 1
        /\ UNCHANGED <<budget, expense>>
    BY <1>3 DEF SeedDefaults
  <2>2. defaults = 0
    BY <1>1, <2>1 DEF QuietState, AllCurrent, Current
  <2>3. AloneAtWork' /\ AllCurrent'
    BY <1>1, <2>1, EndIdle DEF QuietState, TableInv
  <2> QED
    BY <1>1, <2>1, <2>2, <2>3, SameTables
<1>4. ASSUME NEW c \in Callers, Abandon(c)
      PROVE  QuietState'
  <2>1. Ends(c) /\ call[c].pc # "idle" /\ UNCHANGED rows
    BY <1>4 DEF Abandon
  <2>2. AloneAtWork' /\ AllCurrent'
    BY <1>1, <2>1, EndIdle DEF QuietState, TableInv
  <2> QED
    BY <1>1, <2>1, <2>2, SameTables DEF rows, QuietState, TablesQuiet
<1>5. ASSUME NEW k \in Categories, CreateCategory(k)
      PROVE  QuietState'
  <2>1. AtOnce /\ UNCHANGED <<budget, expense, defaults>>
    BY <1>5 DEF CreateCategory
  <2> QED
    BY <1>1, <2>1, AtOnceIdle, SameTables DEF QuietState, TablesQuiet
<1>6. CASE UNCHANGED vars
  BY <1>1, <1>6 DEF vars, rows, QuietState, AloneAtWork, AllCurrent, TablesQuiet, RowsApart, Held,
     Current, Overlap, Stored
<1> QED
  BY <1>1, <1>2, <1>3, <1>4, <1>5, <1>6, InsertQuiet, UpdateQuiet, DeleteBudgetQuiet, ExpenseQuiet,
     DeleteExpenseQuiet, DeleteCategoryQuiet, RepairQuiet DEF Next

-----------------------------------------------------------------------------
(* What the quiet tables show.                                              *)

LEMMA QuietHolds == Spec => [](TableInv /\ QuietInv)
  BY TableInit, TableStep, QuietInit, QuietStep, PTL DEF Spec

(* Two best budgets of a date are of one scope, and so they overlap.         *)
LEMMA NoneAmbiguous ==
    ASSUME TableInv, RowsApart, NEW at \in Instants
    PROVE  ~Ambiguous(at)
<1>1. ASSUME NEW b \in Best(budget, at), NEW c \in Best(budget, at)
      PROVE  b = c
  <2> DEFINE x == budget[b]
             y == budget[c]
  <2>1. /\ b \in Budgets /\ c \in Budgets /\ Stored(b) /\ Stored(c)
        /\ x.start <= at /\ at <= x.end /\ y.start <= at /\ at <= y.end
        /\ ~Before(x, y) /\ ~Before(y, x)
    BY DEF Best, Candidates, Stored
  <2>2. Fair(x) /\ Fair(y)
    BY <2>1 DEF TableInv, BudgetsOK
  <2>3. b # c => Apart(x, y)
    BY <2>1 DEF RowsApart
  <2> HIDE DEF x, y
  <2>4. /\ x.start \in Int /\ x.end \in Int /\ y.start \in Int /\ y.end \in Int /\ at \in Int
        /\ x.scope \in DOMAIN Priority /\ y.scope \in DOMAIN Priority
    <3>1. x.start \in Int /\ x.end \in Int /\ y.start \in Int /\ y.end \in Int
      BY <2>2, FairNumbers
    <3>2. at \in Int
      BY BudgetAssumption DEF Instants
    <3>3. x.scope \in Scopes /\ y.scope \in Scopes
      BY <2>2 DEF Fair, Row
    <3>4. Scopes \subseteq DOMAIN Priority
      BY BudgetAssumption DEF Priority
    <3> QED
      BY <3>1, <3>2, <3>3, <3>4
  <2>5. DurationDays(x) \in Int /\ DurationDays(y) \in Int
    BY <2>4 DEF DurationDays
  <2>6. ~(Priority[x.scope] < Priority[y.scope]) /\ ~(Priority[y.scope] < Priority[x.scope])
    BY <2>1, <2>5 DEF Before
  <2>7. x.scope = y.scope
    BY <2>4, <2>6 DEF Priority
  <2>8. x.start <= DayEnd(y.end) /\ y.start <= DayEnd(x.end)
    BY <2>1, <2>4 DEF DayStart, DayEnd
  <2> QED
    BY <2>3, <2>7, <2>8 DEF Apart
<1>2. Cardinality(Best(budget, at)) \in {0, 1}
  <2>1. CASE Best(budget, at) = {}
    BY <2>1, FS_EmptySet
  <2>2. CASE Best(budget, at) # {}
    <3>1. PICK b : Best(budget, at) = {b}
      BY <1>1, <2>2
    <3> QED
      BY <3>1, FS_Singleton
  <2> QED
    BY <2>1, <2>2
<1> QED
  BY <1>2 DEF Ambiguous

(* Until two requests overlap, no two budgets of a scope share a day, and     *)
(* every date resolves to one budget or none.                                *)
THEOREM ScopesKeptApart == Spec => []ScopesDisjoint
<1>1. TableInv /\ QuietInv => ScopesDisjoint
  <2> SUFFICES ASSUME TableInv, QuietState PROVE ScopesDisjoint
    BY DEF QuietInv, ScopesDisjoint
  <2>1. \A b, c \in {x \in Budgets : Stored(x)} :
           budget[b].scope = budget[c].scope
             /\ budget[b].start <= DayEnd(budget[c].end)
             /\ budget[c].start <= DayEnd(budget[b].end) => b = c
    BY DEF QuietState, TablesQuiet, RowsApart, Apart
  <2>2. \A at \in Instants : ~Ambiguous(at)
    BY NoneAmbiguous DEF QuietState, TablesQuiet
  <2>3. defaults <= 1
    BY DEF QuietState, TablesQuiet
  <2> QED
    BY <2>1, <2>2, <2>3 DEF ScopesDisjoint
<1> QED
  BY <1>1, QuietHolds, PTL

LEMMA CostsNat ==
    ASSUME NEW es, es \subseteq Expenses
    PROVE  /\ IsFiniteSet(es) /\ Summands(Cost, es) /\ \A e \in es : Cost[e] \in Nat
           /\ SpentOn(es) \in Nat /\ SpentOn(es) = SumOver(Cost, es)
<1>1. IsFiniteSet(es) /\ \A e \in es : Cost[e] \in Nat
  BY BudgetAssumption, FS_Subset
<1> QED
  BY <1>1, SumNat, TotalIsSum DEF Summands, SpentOn

(* What budgets of a set show adds up to what is spent on their expenses.    *)
LEMMA ShownAddsUp ==
    ASSUME NEW S, S \subseteq Budgets
    PROVE  SpentOn(UNION {Linked(b) : b \in S})
             = Total([x \in Budgets |-> BudgetedExpenseTotal(x)], S)
<1> DEFINE part == [x \in S |-> Linked(x)]
           shown == [x \in Budgets |-> BudgetedExpenseTotal(x)]
           all == UNION {Linked(b) : b \in S}
<1>1. \A x \in S : part[x] = Linked(x) /\ part[x] \subseteq Expenses
  BY DEF Linked
<1>2. \A x, y \in S : x # y => part[x] \cap part[y] = {}
  BY DEF Linked
<1>3. \A x \in S : shown[x] = SumOver(Cost, part[x])
  BY <1>1, CostsNat DEF BudgetedExpenseTotal
<1>4. all = UNION {part[x] : x \in S} /\ all \subseteq Expenses
  BY <1>1
<1>5. IsFiniteSet(S) /\ IsFiniteSet(Expenses) /\ Summands(Cost, Expenses)
  BY BudgetAssumption, FS_Subset, CostsNat
<1> HIDE DEF part, shown, all
<1>6. SumOver(Cost, UNION {part[x] : x \in S}) = SumOver(shown, S)
  BY <1>1, <1>2, <1>3, <1>5, SumOfParts
<1>7. SpentOn(all) = Total(shown, S)
  BY <1>4, <1>6, CostsNat, TotalIsSum
<1> QED
  BY <1>7 DEF all, shown

(* More than planned is at least a hundred percent.                         *)
LEMMA OverHundred ==
    ASSUME NEW part \in Nat, NEW whole \in Nat, whole > 0, part > whole
    PROVE  ~(UsagePercent(part, whole) < 80) /\ UsagePercent(part, whole) >= 100
<1>1. (200 * part + whole) \div (2 * whole) >= 100
  OBVIOUS
<1>2. (200 * part + whole) \div (2 * whole) \in Int
  OBVIOUS
<1> QED
  BY <1>1, <1>2 DEF UsagePercent

(* Until two requests overlap, a linked expense lies in its budget's period, *)
(* a budget shows no more than is spent in its period, a summary adds up, and *)
(* an overspent scope is warned about.                                       *)
THEOREM LinksKeptInPeriod == Spec => []LinksInPeriod
<1>1. ASSUME TableInv, QuietState, NEW b \in Budgets, Stored(b)
      PROVE  /\ \A e \in Linked(b) : Contains(b, expense[e].at)
             /\ BudgetedExpenseTotal(b) <= SpentOn(PeriodExpenses(b))
             /\ LET sum == Summary(budget[b].scope)
                    shown == [x \in Budgets |-> BudgetedExpenseTotal(x)]
                IN  /\ sum.budgeted = Total(shown, Scoped(budget[b].scope))
                    /\ sum.overspent > 0 => sum.warning = "above"
  <2>1. ASSUME NEW e \in Linked(b) PROVE Contains(b, expense[e].at)
    <3>1. expense[e] # None /\ expense[e].budget = b /\ b # None /\ e \in Expenses
      BY <2>1, BudgetAssumption DEF Linked
    <3> QED
      BY <1>1, <3>1 DEF QuietState, TablesQuiet, Held, Contains, Spans
  <2>2. BudgetedExpenseTotal(b) <= SpentOn(PeriodExpenses(b))
    <3>1. Linked(b) \subseteq PeriodExpenses(b) /\ PeriodExpenses(b) \subseteq Expenses
      BY <2>1 DEF Linked, PeriodExpenses
    <3>2. SumOver(Cost, Linked(b)) <= SumOver(Cost, PeriodExpenses(b))
      BY <3>1, CostsNat, SumOfMore
    <3> QED
      BY <3>1, <3>2, CostsNat DEF BudgetedExpenseTotal
  <2> DEFINE scope == budget[b].scope
             S == Scoped(scope)
             amounts == [x \in S |-> budget[x].amount]
             budgeted == SpentOn(UNION {Linked(x) : x \in S})
             planned == Total(amounts, S)
             sum == Summary(scope)
  <2>3. b \in S /\ S \subseteq Budgets
    <3>1. Fair(budget[b])
      BY <1>1 DEF TableInv, BudgetsOK
    <3>2. scope \in {"DAILY", "WEEKLY", "CUSTOM", "MONTHLY"}
      BY <3>1, BudgetAssumption DEF Fair, Row
    <3>3. SummaryScope(scope) = scope
      BY <3>2 DEF SummaryScope
    <3> QED
      BY <1>1, <3>3 DEF Scoped
  <2>4. \A x \in S : amounts[x] \in Nat /\ amounts[x] > 0
    <3>1. ASSUME NEW x \in S PROVE budget[x].amount \in Nat /\ budget[x].amount > 0
      <4>1. Fair(budget[x])
        BY <1>1, <3>1 DEF Scoped, TableInv, BudgetsOK
      <4> QED
        BY <4>1 DEF Fair, Row
    <3> QED
      BY <3>1
  <2>5. /\ sum.budgeted = budgeted
        /\ sum.overspent = (IF budgeted > planned THEN budgeted - planned ELSE 0)
        /\ sum.warning = (IF planned = 0 \/ UsagePercent(budgeted, planned) < 80 THEN "none"
                          ELSE IF UsagePercent(budgeted, planned) >= 100 THEN "above"
                          ELSE "close")
    BY DEF Summary
  <2>6. budgeted = Total([x \in Budgets |-> BudgetedExpenseTotal(x)], S)
    BY <2>3, ShownAddsUp
  <2>7. budgeted \in Nat
    <3>1. UNION {Linked(x) : x \in S} \subseteq Expenses
      BY DEF Linked
    <3> QED
      BY <3>1, CostsNat
  <2> HIDE DEF S, amounts
  <2>8. planned \in Nat /\ planned > 0
    <3>1. IsFiniteSet(S) /\ {b} \subseteq S
      BY <2>3, BudgetAssumption, FS_Subset
    <3>2. SumOver(amounts, {b}) <= SumOver(amounts, S) /\ SumOver(amounts, S) \in Nat
      BY <2>4, <3>1, SumOfMore, SumNat
    <3>3. SumOver(amounts, {b}) = amounts[b]
      BY <2>3, <2>4, SumOfOne
    <3> QED
      BY <2>3, <2>4, <3>2, <3>3, TotalIsSum
  <2> HIDE DEF budgeted, planned, sum
  <2>9. sum.overspent > 0 => sum.warning = "above"
    <3>1. ASSUME budgeted > planned PROVE sum.warning = "above"
      BY <2>5, <2>7, <2>8, <3>1, OverHundred
    <3>2. ASSUME ~(budgeted > planned) PROVE ~(sum.overspent > 0)
      BY <2>5, <3>2
    <3> QED
      BY <3>1, <3>2
  <2> QED
    BY <2>1, <2>2, <2>5, <2>6, <2>9 DEF sum, S
<1>2. TableInv /\ QuietInv => LinksInPeriod
  BY <1>1 DEF QuietInv, LinksInPeriod
<1> QED
  BY <1>2, QuietHolds, PTL

(* The repair leaves a link outside its period only where the date is          *)
(* ambiguous, whatever raced before it, and touches no valid link.            *)
THEOREM RepairRestores == Spec => RepairHeals
<1> DEFINE Heals ==
           /\ \A e \in Expenses : expense[e] # None =>
                 \/ expense'[e].budget = None \/ Ambiguous(expense[e].at)
                 \/ Contains(expense'[e].budget, expense'[e].at)
           /\ \A e \in Expenses : expense[e] # None /\ ValidLink(e)
                 => expense'[e] = expense[e]
<1>1. ASSUME TableInv, RepairLinks PROVE Heals
  <2> DEFINE moved == {e \in Expenses : Repairs(e)}
  <2>1. expense' = Relinked(budget, moved) /\ \A e \in Expenses : e \in moved => expense[e] # None
    BY <1>1 DEF RepairLinks, Repairs
  <2>2. \A e \in Expenses : e \in moved <=> Repairs(e)
    OBVIOUS
  <2> HIDE DEF moved
  <2>3. \A e \in Expenses :
           IF e \in moved
             THEN /\ expense'[e].at = expense[e].at
                  /\ expense'[e].budget = Resolve(budget, expense[e].at)
             ELSE expense'[e] = expense[e]
    BY <1>1, <2>1, RelinkedOK DEF TableInv
  <2>4. ASSUME NEW e \in Expenses, expense[e] # None, e \notin moved
        PROVE  \/ Ambiguous(expense[e].at)
               \/ Contains(expense'[e].budget, expense'[e].at)
    BY <2>2, <2>3, <2>4 DEF Repairs, ValidLink
  <2>5. ASSUME NEW e \in Expenses, e \in moved, expense'[e].budget # None
        PROVE  Contains(expense'[e].budget, expense'[e].at)
    <3> DEFINE at == expense[e].at
               b == Resolve(budget, at)
    <3>1. expense'[e].at = at /\ expense'[e].budget = b /\ b # None
      BY <2>3, <2>5
    <3>2. at \in Int
      <4>1. expense[e] \in Link
        BY <1>1, <2>1, <2>5 DEF TableInv
      <4> QED
        BY <4>1, BudgetAssumption DEF Link, Instants
    <3>3. b \in Budgets /\ budget[b] # None /\ budget[b].start <= at /\ at <= budget[b].end
      BY <3>1, Resolved
    <3> HIDE DEF at, b
    <3>4. budget[b].start \in Int /\ budget[b].end \in Int
      <4>1. Fair(budget[b])
        BY <1>1, <3>3 DEF TableInv, BudgetsOK, Stored
      <4> QED
        BY <4>1, FairNumbers
    <3>5. Contains(b, at)
      BY <3>2, <3>3, <3>4 DEF Contains, DayStart, DayEnd
    <3> QED
      BY <3>1, <3>5
  <2>6. ASSUME NEW e \in Expenses, ValidLink(e) PROVE expense'[e] = expense[e]
    BY <2>2, <2>3, <2>6 DEF Repairs
  <2> QED
    BY <2>4, <2>5, <2>6
<1>2. TableInv => [RepairLinks => Heals]_vars
  BY <1>1
<1>3. Spec => [][RepairLinks => Heals]_vars
  <2> HIDE DEF Heals
  <2> QED
    BY <1>2, TableInit, TableStep, PTL DEF Spec
<1> QED
  BY <1>3 DEF RepairHeals

===============================================================================
