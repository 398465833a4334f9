---------------------------- MODULE HabitRewards ----------------------------
(***************************************************************************)
(* One habit of one user: its completion rows (one per day), the reward    *)
(* ledger, the cached coin balance, the experience points, the streak      *)
(* freezes, the reward-fund allocations and the temptation bundle, under   *)
(* concurrent HTTP requests.                                               *)
(*                                                                         *)
(* Requests interleave between database statements.  The database is       *)
(* PostgreSQL at READ COMMITTED: a statement sees what is committed when   *)
(* it starts, a write locks its row until the transaction ends.  Two       *)
(* reductions keep the number of steps small:                              *)
(*   - an uncommitted completion row lives in its request's record and the *)
(*     row lock is "some request past its row write holds that day";       *)
(*   - once a transaction updates the user row (experience, coins) every   *)
(*     other transaction of that user waits for it, so everything from     *)
(*     that update to the commit is one step (Settle).  The read of the    *)
(*     experience points comes before that lock and is a step of its own.  *)
(* Rows of one table are the elements of one set; REVERSAL rows of the     *)
(* ledger are kept apart because they name the row they reverse.           *)
(***************************************************************************)
EXTENDS Integers, FiniteSets, FiniteSetsExt

CONSTANTS
    Requests,        \* concurrent HTTP requests
    NumDays,         \* days 1 .. NumDays, all scheduled and not in the future
    Kinds,           \* completion kinds the habit has configured
    Coins,           \* coins per kind, defaults or the habit's overrides
    Milestones,      \* streak lengths that earn a bonus
    StreakBonus,     \* bonus per milestone
    Thresholds,      \* evidence points that earn the identity bonus
    IdentityBonus,
    Linked,          \* the habit is linked to one ACTIVE identity
    HasFund,         \* habit.rewardFundAmount is set
    FreezeCost,
    Items, ItemCost, \* reward shop
    XpGain, BaseXp, XpStep,
    ConflictAborts,  \* PostgreSQL: a failed statement aborts its transaction
    MaxOps,          \* bound: requests started in a behaviour
    NoRow            \* model value: no completion row

ASSUME HabitRewardsAssumption ==
    /\ NumDays \in Nat \ {0}
    /\ Kinds \subseteq {"FULL", "MINIMUM", "EMERGENCY"} /\ "FULL" \in Kinds
    /\ Coins \in [Kinds -> Nat \ {0}]
    /\ Milestones \subseteq Nat \ {0}
    /\ StreakBonus \in [Milestones -> Nat \ {0}]
    /\ Thresholds \subseteq Nat \ {0}
    /\ IdentityBonus \in Nat \ {0}
    /\ Linked \in BOOLEAN /\ HasFund \in BOOLEAN /\ ConflictAborts \in BOOLEAN
    /\ FreezeCost \in Nat \ {0} /\ Items \subseteq Nat
    /\ ItemCost \in [Items -> Nat \ {0}]
    /\ XpGain \in Nat \ {0} /\ BaseXp \in Nat /\ XpStep \in Nat
    /\ XpGain <= BaseXp
    /\ MaxOps \in Nat
    /\ NoRow \notin [id : Nat, status : BOOLEAN, kind : Kinds]

ASSUME FinitelyManyBonuses == IsFiniteSet(Milestones) /\ IsFiniteSet(Thresholds)

Days == 1 .. NumDays

VARIABLES
    habit,        \* "live", "archived" or "gone"
    completion,   \* the row of each day, or NoRow
    ledger,       \* award, bonus, debit and adjustment rows of RewardLedger
    reversals,    \* REVERSAL rows of RewardLedger, reversalOfId as a record
    coins,        \* User.coins, the cached balance
    user,         \* User.xp and User.level
    frozen,       \* days with a StreakFreeze row
    owned,        \* items with a RewardRedemption row
    allocations,  \* completionId of every HabitRewardAllocation row
    bundle,       \* status of the habit's temptation bundle
    req,          \* what each request has read and written so far
    ops           \* requests started so far

tables == <<habit, completion, ledger, reversals, coins, user, frozen, owned,
            allocations, bundle>>
vars == <<tables, req, ops>>

Row == [id : Nat, status : BOOLEAN, kind : Kinds]

(* A ledger row: when it was written, its type, what it is about and its   *)
(* signed amount.  The type and the reference together are the             *)
(* idempotency key of a STREAK or IDENTITY bonus.                          *)
Entry(op, type, a, b, amount) ==
    [op |-> op, type |-> type, ref |-> <<a, b>>, amount |-> amount]

LedgerTypes == {"FULL", "MINIMUM", "EMERGENCY", "STREAK", "IDENTITY",
                "FREEZE", "REDEMPTION", "ADJUSTMENT"}

Total(rows) == MapThenSumSet(LAMBDA e : e.amount, rows)

(* Mutant: the unique reversalOfId dropped, no row looks reversed.          *)
NothingReversed == {}

ReversedRows == {v.of : v \in reversals}
LedgerSum == Total(ledger) - Total(ReversedRows)

-----------------------------------------------------------------------------
(* What a toggle asks for.  "plain" is the legacy toggle with neither a     *)
(* value nor a kind; "enough" is whether the value reaches the goal.        *)
Asks == [plain : {TRUE}, kind : {"FULL"}, enough : {TRUE}]
        \cup [plain : {FALSE}, kind : Kinds, enough : BOOLEAN]

IsCompleted(ask) == ask.kind = "FULL" => ask.enough

Idle == [pc |-> "idle", op |-> 0, day |-> 0,
         ask |-> [plain |-> TRUE, kind |-> "FULL", enough |-> TRUE],
         existing |-> NoRow, row |-> NoRow, seen |-> 0,
         xp |-> 0, level |-> 1, adopted |-> FALSE, changed |-> FALSE]

(* The award this request believes the day already carries: taken from the  *)
(* row it read before its transaction.                                      *)
PriorAward(q) == q.existing # NoRow /\ q.existing.status
Removing(q) == q.existing # NoRow /\ q.ask.plain
KindChanged(q) ==
    PriorAward(q) /\ IsCompleted(q.ask) /\ q.existing.kind # q.ask.kind
Earning(q) == ~Removing(q) /\ IsCompleted(q.ask) /\ ~PriorAward(q)
Losing(q) == PriorAward(q) /\ (Removing(q) \/ ~IsCompleted(q.ask))

(* Mutant: a toggle-off leaves the experience it gave.                      *)
XpNeverTaken(q) == IF Earning(q) THEN XpGain ELSE 0

XpDelta(q) == IF Earning(q) THEN XpGain ELSE IF Losing(q) THEN -XpGain ELSE 0

(* The row lock of a day: no other transaction has written its row.  An     *)
(* adopted row was only read.                                               *)
RowFree(r) ==
    \A s \in Requests \ {r} :
        req[s].pc \in {"wrote", "user"} /\ ~req[s].adopted
            => req[s].day # req[r].day

Done(r) == req' = [req EXCEPT ![r] = Idle]
Fail(r) == Done(r) /\ UNCHANGED <<tables, ops>>

-----------------------------------------------------------------------------
(* Streaks and bonuses, computed inside the transaction.  `rows` is what    *)
(* the transaction sees: the committed rows with its own write.             *)
DoneDays(rows) == {d \in Days : rows[d] # NoRow /\ rows[d].status}
Kept(rows, d) == d \in DoneDays(rows) \/ d \in frozen

(* computeCurrentStreak: the run of kept days that ends at d begins at s.    *)
Run(rows, s, d) ==
    /\ s <= d /\ \A x \in s .. d : Kept(rows, x)
    /\ s > 1 => ~Kept(rows, s - 1)

(* isMilestoneCycleIntact; days outside the modelled calendar are not kept. *)
CycleIntact(rows, e) ==
    \A i \in 0 .. e.ref[1] - 1 :
        e.ref[2] + i \in Days /\ Kept(rows, e.ref[2] + i)

(* Mutant: the claimed idempotency keys are not looked up.                  *)
NoKeysClaimed == {}

StreakKeys == {e.ref : e \in {x \in ledger : x.type = "STREAK"}}

(* Milestones the run has reached and whose key is not in the ledger yet.   *)
NewMilestones(rows, d) ==
    {k \in Milestones \X Days :
        Run(rows, k[2], d) /\ k[1] <= d + 1 - k[2] /\ k \notin StreakKeys}

StreakClaims(rows, q) ==
    {Entry(q.op, "STREAK", k[1], k[2], StreakBonus[k[1]]) :
        k \in NewMilestones(rows, q.day)}

EvidencePoints(rows) ==
    MapThenSumSet(LAMBDA d : IF rows[d].kind = "FULL" THEN 2 ELSE 1,
                  DoneDays(rows))

IdentityClaims(rows, q) ==
    {Entry(q.op, "IDENTITY", t, 0, IdentityBonus) :
        t \in {x \in Thresholds :
                 /\ Linked
                 /\ x <= EvidencePoints(rows)
                 /\ ~\E e \in ledger : e.type = "IDENTITY" /\ e.ref[1] = x}}

Awards(rows, q) ==
    {Entry(q.op, q.ask.kind, q.row.id, 0, Coins[q.ask.kind])}
        \cup StreakClaims(rows, q) \cup IdentityClaims(rows, q)

(* reverseBaseAward: the latest award row of the prior kind, reversed or    *)
(* not (the query filters on the award's own reversalOfId).                 *)
BaseAwards(q) ==
    {e \in ledger : e.type = q.existing.kind /\ e.ref[1] = q.existing.id}
LatestBase(q) ==
    {e \in BaseAwards(q) : \A x \in BaseAwards(q) : x.op <= e.op}

(* Mutant: a removed day never takes a streak bonus back.                   *)
NoStreakBreaks(rows) == {}

BrokenStreaks(rows) ==
    {e \in ledger : e.type = "STREAK" /\ ~CycleIntact(rows, e)}

ToReverse(rows, q) == LatestBase(q) \cup BrokenStreaks(rows)
Reversal(q, S) == {[op |-> q.op, of |-> e] : e \in S}

-----------------------------------------------------------------------------
Init ==
    /\ habit = "live"
    /\ completion = [d \in Days |-> NoRow]
    /\ ledger = {} /\ reversals = {} /\ coins = 0
    /\ user = [xp |-> 0, level |-> 1]
    /\ frozen = {} /\ owned = {} /\ allocations = {}
    /\ bundle = "LOCKED"
    /\ req = [r \in Requests |-> Idle]
    /\ ops = 0

(* toggleCompletion, before its transaction: the habit and the day's row    *)
(* are read with plain queries.                                             *)
Begin(r, d, ask) ==
    /\ req[r].pc = "idle" /\ ops < MaxOps
    /\ habit # "gone"
    /\ completion[d] = NoRow => habit # "archived"
    /\ req' = [req EXCEPT ![r] =
                [Idle EXCEPT !.pc = "read", !.op = ops + 1, !.day = d,
                             !.ask = ask, !.existing = completion[d]]]
    /\ ops' = ops + 1
    /\ UNCHANGED tables

(* The first statement of the transaction on an existing row: delete or     *)
(* update by id.  The row may be gone by now (P2025).                       *)
WriteExisting(r) ==
    LET q == req[r]
        now == completion[q.day]
        next == IF q.ask.plain THEN NoRow
                ELSE [id |-> q.existing.id, status |-> IsCompleted(q.ask),
                      kind |-> q.ask.kind]
    IN  /\ q.pc = "read" /\ q.existing # NoRow /\ RowFree(r)
        /\ IF now # NoRow /\ now.id = q.existing.id
             THEN /\ req' = [req EXCEPT ![r].pc = "wrote", ![r].row = next]
                  /\ UNCHANGED <<tables, ops>>
             ELSE Fail(r)

(* Or the insert of a new row, which meets the unique (habitId, date) index *)
(* when another request created the row meanwhile.                          *)
CreateRow(r) ==
    LET q == req[r]
    IN  /\ q.pc = "read" /\ q.existing = NoRow /\ RowFree(r)
        /\ habit # "gone" /\ completion[q.day] = NoRow
        /\ req' = [req EXCEPT ![r].pc = "wrote",
                              ![r].row = [id |-> q.op,
                                          status |-> IsCompleted(q.ask),
                                          kind |-> q.ask.kind]]
        /\ UNCHANGED <<tables, ops>>

CreateConflict(r) ==
    LET q == req[r]
        raced == completion[q.day]
    IN  /\ q.pc = "read" /\ q.existing = NoRow /\ RowFree(r)
        /\ habit = "gone" \/ raced # NoRow
        /\ IF habit = "gone" \/ ConflictAborts
             THEN Fail(r)
             ELSE /\ req' = [req EXCEPT
                        ![r].pc = IF raced.status THEN "post" ELSE "wrote",
                        ![r].row = raced, ![r].adopted = TRUE]
                  /\ UNCHANGED <<tables, ops>>

(* addExperienceTx reads the user row before it writes absolute values.     *)
ReadUser(r) ==
    /\ req[r].pc = "wrote" /\ XpDelta(req[r]) # 0
    /\ req' = [req EXCEPT ![r].pc = "user", ![r].xp = user.xp,
                          ![r].level = user.level]
    /\ UNCHANGED <<tables, ops>>

XpNeeded(level) == BaseXp + (level - 1) * XpStep

ExperienceAfter(q) ==
    LET xp == IF q.xp + XpDelta(q) < 0 THEN 0 ELSE q.xp + XpDelta(q)
    IN  IF xp >= XpNeeded(q.level)
          THEN [xp |-> xp - XpNeeded(q.level), level |-> q.level + 1]
          ELSE [xp |-> xp, level |-> q.level]

(* What the transaction sees, and what it still has to undo and to pay.     *)
View(q) == IF q.adopted THEN completion ELSE [completion EXCEPT ![q.day] = q.row]
(* Mutant: a win re-logged as another kind keeps its first award.           *)
NeverSwaps(q) == FALSE

Swapping(q) == ~Removing(q) /\ KindChanged(q)
Reverses(q) == Losing(q) \/ Swapping(q)
Pays(q) == Earning(q) \/ Swapping(q)
AllocationDue(q) == Earning(q) /\ q.ask.kind = "FULL" /\ HasFund

(* Unique violations the code catches and goes on from.  PostgreSQL has     *)
(* aborted the transaction by then: the next statement fails, and if there  *)
(* is none the COMMIT rolls back without an error.                          *)
AllocationConflict(q) == AllocationDue(q) /\ q.row.id \in allocations
BaseConflict(q) == Reverses(q) /\ LatestBase(q) \cap ReversedRows # {}
StreakConflicts(q) ==
    IF Reverses(q) THEN BrokenStreaks(View(q)) \cap ReversedRows ELSE {}
Conflicting(q) ==
    ConflictAborts
    /\ (AllocationConflict(q) \/ BaseConflict(q) \/ StreakConflicts(q) # {})

(* The allocation is the last statement of an award, and on a downgrade the *)
(* last streak reversal is; a removal and a kind swap always run more.      *)
MayCommitSilently(q) ==
    \/ AllocationConflict(q)
    \/ /\ Losing(q) /\ ~Removing(q) /\ ~BaseConflict(q)
       /\ Cardinality(StreakConflicts(q)) = 1
MayFail(q) ==
    /\ ~AllocationConflict(q)
    /\ MayCommitSilently(q) => BrokenStreaks(View(q)) # StreakConflicts(q)

ReadyToSettle(q) ==
    q.pc = "user" \/ (q.pc = "wrote" /\ XpDelta(q) = 0)

Undone(q) == IF Reverses(q) THEN ToReverse(View(q), q) \ ReversedRows ELSE {}
Paid(q) == IF Pays(q) THEN Awards(View(q), q) ELSE {}

(* Mutant: only the base award reaches the cached balance.                  *)
CoinsWithoutBonuses(q) ==
    coins - Total(Undone(q)) + IF Pays(q) THEN Coins[q.ask.kind] ELSE 0

CoinsAfter(q) == coins - Total(Undone(q)) + Total(Paid(q))

(* Mutant: the allocation of a removed completion stays.                    *)
AllocationsKept(q) ==
    IF AllocationDue(q) THEN allocations \cup {q.row.id} ELSE allocations

AllocationsAfter(q) ==
    IF Removing(q) THEN allocations \ {q.existing.id}
    ELSE IF AllocationDue(q) THEN allocations \cup {q.row.id}
    ELSE allocations

(* The rest of the transaction and its commit.                              *)
Settle(r) ==
    LET q == req[r]
        rows == View(q)
    IN  /\ ReadyToSettle(q) /\ ~Conflicting(q)
        /\ completion' = rows
        /\ user' = IF XpDelta(q) = 0 THEN user ELSE ExperienceAfter(q)
        /\ reversals' = reversals \cup Reversal(q, Undone(q))
        /\ ledger' = ledger \cup Paid(q)
        /\ coins' = CoinsAfter(q)
        /\ bundle' = IF Earning(q) /\ q.ask.kind = "FULL"
                       THEN "UNLOCKED" ELSE bundle
        /\ allocations' = AllocationsAfter(q)
        /\ req' = [req EXCEPT ![r].pc = "post",
                              ![r].changed = (completion # rows)]
        /\ UNCHANGED <<habit, frozen, owned, ops>>

(* The same with a conflict: an error response, or a success response for a *)
(* transaction that left nothing behind.                                    *)
SettleConflict(r) ==
    /\ ReadyToSettle(req[r]) /\ Conflicting(req[r])
    /\ \/ MayFail(req[r]) /\ Fail(r)
       \/ /\ MayCommitSilently(req[r])
          /\ req' = [req EXCEPT ![r].pc = "post"]
          /\ UNCHANGED <<tables, ops>>

(* After the commit: badges, then the domain events; a crash loses them.    *)
Announce(r) ==
    /\ req[r].pc = "post"
    /\ Done(r) /\ UNCHANGED <<tables, ops>>

(* Client disconnect, process crash or transaction timeout: an open         *)
(* transaction rolls back.                                                  *)
Abandon(r) == req[r].pc # "idle" /\ Fail(r)

-----------------------------------------------------------------------------
(* Streak freezes.  The checks read without locks; the debit, the balance   *)
(* check after it and the unique (habitId, date) row commit together.       *)
FreezeCheck(r, d) ==
    /\ req[r].pc = "idle" /\ ops < MaxOps
    /\ habit = "live" /\ ~Kept(completion, d)
    /\ req' = [req EXCEPT ![r] = [Idle EXCEPT !.pc = "freeze", !.op = ops + 1,
                                              !.day = d]]
    /\ ops' = ops + 1
    /\ UNCHANGED tables

(* Mutant: the unique day dropped.                                          *)
FreezeAnyway(q) == habit # "gone"

(* A purchase debits first, checks the new balance and inserts its unique   *)
(* row last; any refusal rolls all of it back.                              *)
Covered(debit) == coins + debit.amount >= 0
FreezeInserts(q) == q.day \notin frozen /\ habit # "gone"
RedeemInserts(q) == q.seen \notin owned

FreezeSettle(r) ==
    LET q == req[r]
        debit == Entry(q.op, "FREEZE", q.day, 0, -FreezeCost)
    IN  /\ q.pc = "freeze"
        /\ IF Covered(debit) /\ FreezeInserts(q)
             THEN /\ ledger' = ledger \cup {debit}
                  /\ coins' = coins + debit.amount
                  /\ frozen' = frozen \cup {q.day}
                  /\ Done(r)
                  /\ UNCHANGED <<habit, completion, reversals, user, owned,
                                 allocations, bundle, ops>>
             ELSE Fail(r)

(* The reward shop: the same shape, unique on (userId, itemId).             *)
RedeemCheck(r, i) ==
    /\ req[r].pc = "idle" /\ ops < MaxOps
    /\ i \notin owned
    /\ req' = [req EXCEPT ![r] = [Idle EXCEPT !.pc = "redeem", !.op = ops + 1,
                                              !.seen = i]]
    /\ ops' = ops + 1
    /\ UNCHANGED tables

RedeemSettle(r) ==
    LET q == req[r]
        debit == Entry(q.op, "REDEMPTION", q.seen, 0, -ItemCost[q.seen])
    IN  /\ q.pc = "redeem"
        /\ IF Covered(debit) /\ RedeemInserts(q)
             THEN /\ ledger' = ledger \cup {debit}
                  /\ coins' = coins + debit.amount
                  /\ owned' = owned \cup {q.seen}
                  /\ Done(r)
                  /\ UNCHANGED <<habit, completion, reversals, user, frozen,
                                 allocations, bundle, ops>>
             ELSE Fail(r)

-----------------------------------------------------------------------------
(* The habit itself: archived when it has completions or identity links,    *)
(* deleted outright, with everything that cascades, when it had none at the *)
(* time of the count.                                                       *)
DeleteCount(r) ==
    /\ req[r].pc = "idle" /\ ops < MaxOps /\ habit # "gone"
    /\ req' = [req EXCEPT ![r] =
            [Idle EXCEPT !.pc = "delete", !.op = ops + 1,
                !.seen = Cardinality({d \in Days : completion[d] # NoRow})
                         + IF Linked THEN 1 ELSE 0]]
    /\ ops' = ops + 1
    /\ UNCHANGED tables

ArchiveHabit(r) ==
    /\ req[r].pc = "delete" /\ req[r].seen > 0
    /\ habit' = IF habit = "gone" THEN "gone" ELSE "archived"
    /\ Done(r)
    /\ UNCHANGED <<completion, ledger, reversals, coins, user, frozen, owned,
                   allocations, bundle, ops>>

(* The delete waits for the row locks of open transactions.                 *)
DeleteHabit(r) ==
    /\ req[r].pc = "delete" /\ req[r].seen = 0
    /\ \A s \in Requests : req[s].pc \notin {"wrote", "user"}
    /\ habit' = "gone"
    /\ completion' = [d \in Days |-> NoRow]
    /\ frozen' = {} /\ allocations' = {}
    /\ Done(r)
    /\ UNCHANGED <<ledger, reversals, coins, user, owned, bundle, ops>>

-----------------------------------------------------------------------------
Toggle(r) ==
    \/ \E d \in Days, ask \in Asks : Begin(r, d, ask)
    \/ WriteExisting(r) \/ CreateRow(r) \/ CreateConflict(r)
    \/ ReadUser(r) \/ Settle(r) \/ SettleConflict(r) \/ Announce(r)

Purchase(r) ==
    \/ \E d \in Days : FreezeCheck(r, d)
    \/ FreezeSettle(r)
    \/ \E i \in Items : RedeemCheck(r, i)
    \/ RedeemSettle(r)

Remove(r) == DeleteCount(r) \/ ArchiveHabit(r) \/ DeleteHabit(r)

Next ==
    \E r \in Requests : Toggle(r) \/ Purchase(r) \/ Remove(r) \/ Abandon(r)

Spec == Init /\ [][Next]_vars

-----------------------------------------------------------------------------
(* PROPERTIES                                                               *)

BaseTypes == {"FULL", "MINIMUM", "EMERGENCY"}
EntryRows == [op : Nat, type : LedgerTypes, ref : Nat \X Nat, amount : Int]
Stages == {"idle", "read", "wrote", "user", "post", "freeze", "redeem",
           "delete"}

Request ==
    [pc : Stages, op : Nat, day : Days \cup {0}, ask : Asks,
     existing : Row \cup {NoRow}, row : Row \cup {NoRow}, seen : Nat,
     xp : Nat, level : Nat \ {0}, adopted : BOOLEAN, changed : BOOLEAN]

TablesOK ==
    /\ habit \in {"live", "archived", "gone"}
    /\ completion \in [Days -> Row \cup {NoRow}]
    /\ \A e \in ledger : e \in EntryRows
    /\ \A v \in reversals : v.op \in Nat /\ v.of \in EntryRows
    /\ user \in [xp : Nat, level : Nat \ {0}]
    /\ frozen \subseteq Days /\ owned \subseteq Items
    /\ allocations \subseteq Nat
    /\ bundle \in {"LOCKED", "UNLOCKED"}

(* Every variable holds values the tables can hold, whatever interleaving   *)
(* of requests wrote them.  The balance is an integer by BalanceMatchesLedger.*)
TypeOK == TablesOK /\ req \in [Requests -> Request] /\ ops \in Nat

(* The cached User.coins equals the sum of the ledger after every commit,   *)
(* whatever toggles, purchases and deletions race (rewards.service header). *)
BalanceMatchesLedger == coins = LedgerSum

(* Only rows that earned coins are reversed, each at most once, although    *)
(* several requests may hold the same stale award (unique reversalOfId).    *)
ReversedOnce ==
    /\ \A v \in reversals : v.of \in ledger /\ v.of.amount > 0
    /\ \A v, w \in reversals : v.of = w.of => v = w

(* A streak bonus is paid once per cycle and an identity bonus once ever,   *)
(* although claimed keys are read before the insert.                        *)
BonusOncePerKey ==
    \A e, f \in ledger :
        (e.type \in {"STREAK", "IDENTITY"} /\ e.type = f.type /\ e.ref = f.ref)
            => e = f

(* Racing purchases charge once for each day protected and each item owned. *)
ChargedOnce ==
    /\ \A e, f \in ledger :
          (e.type \in {"FREEZE", "REDEMPTION"} /\ e.type = f.type
             /\ e.ref = f.ref) => e = f
    /\ \A i \in Items :
          i \in owned <=> \E e \in ledger : e.type = "REDEMPTION" /\ e.ref[1] = i
    /\ habit # "gone" => \A d \in Days :
          d \in frozen <=> \E e \in ledger : e.type = "FREEZE" /\ e.ref[1] = d

(* A reward-fund allocation belongs to a completion row that still exists:  *)
(* it dies with the completion, whoever removes it.                         *)
AllocationsBacked ==
    \A a \in allocations : \E d \in Days : completion[d] # NoRow
                                            /\ completion[d].id = a

Outstanding == {e \in ledger : e.type \in BaseTypes /\ e \notin ReversedRows}

(* Requests one after the other: the base awards still standing are exactly *)
(* those of the completed days, one each and of the day's kind, after any   *)
(* sequence of logs, downgrades, swaps, removals and failures.              *)
DayPaidExactly ==
    /\ \A e \in Outstanding : \E d \in DoneDays(completion) :
          completion[d].id = e.ref[1] /\ completion[d].kind = e.type
    /\ \A d \in DoneDays(completion) :
          Cardinality({e \in Outstanding : e.ref[1] = completion[d].id}) = 1

(* Requests one after the other: a streak bonus stands only while its cycle *)
(* is intact.                                                               *)
StreakBonusIntact ==
    habit # "gone" =>
        \A e \in ledger \ ReversedRows :
            e.type = "STREAK" => CycleIntact(completion, e)

(* Experience follows the completed days: a toggle-off takes back what the  *)
(* toggle-on gave (habit.service.ts:402).                                   *)
EarnedXp == MapThenSumSet(XpNeeded, 1 .. user.level - 1) + user.xp
XpFollowsCompletions ==
    habit # "gone" => EarnedXp = XpGain * Cardinality(DoneDays(completion))

(* A base award is never standing twice for one completion (the guarantee   *)
(* at habit.service.ts:400).                                                *)
NoDoubleAward ==
    \A e, f \in Outstanding : e.ref = f.ref => e = f

(* A reversal that meets an already reversed row is a no-op, so it does not *)
(* make the request fail (reward-engine.service.ts:407).                    *)
ReversalRetriesAreNoOps ==
    \A r \in Requests :
        ReadyToSettle(req[r]) /\ Conflicting(req[r]) => ~Reverses(req[r])

(* What toggleCompletion emits once its transaction is over.                *)
SaysCompleted(q) == q.pc = "post" /\ q.row # NoRow /\ q.row.status

(* Events are emitted on real transitions only (docs/domain-events.md:29).  *)
EventsAreTransitions ==
    \A r \in Requests : SaysCompleted(req[r]) => req[r].changed

(* An event follows a transaction that changed state: with no other request *)
(* around, the row is stored as the event says.                             *)
EventsFollowCommits ==
    \A r \in Requests :
        SaysCompleted(req[r]) => completion[req[r].day] = req[r].row

(* Completed days are never destroyed with their habit: a habit that has    *)
(* history is archived (habit.service.ts:175).                              *)
HistoryKept ==
    [][habit' = "gone" /\ habit # "gone" => DoneDays(completion) = {}]_vars

(* An archived habit receives no new win (habit.service.ts:422).            *)
ArchivedEarnsNothing ==
    [][habit = "archived"
         => Cardinality(DoneDays(completion')) <= Cardinality(DoneDays(completion))]_vars

(* The ledger implements the account of RewardAccount: no interleaving of   *)
(* requests grants a taken credit again, takes one twice or overdraws.      *)
Credits == {e \in ledger : e.amount > 0}
Debits == {e \in ledger : e.amount < 0}
Account == INSTANCE RewardAccount WITH
    Rows <- EntryRows, Sum <- Total, standing <- Credits \ ReversedRows,
    closed <- ReversedRows, spent <- Debits, balance <- coins
AccountSpec == Account!Spec
=============================================================================
