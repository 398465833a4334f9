# Verification of the habit tracker backend

TLA+ models of this NestJS/Prisma/PostgreSQL service where its correctness
depends on the order in which things happen - several requests of one user,
webhook deliveries, scheduled dispatches and process crashes, between any two
database statements - or on rules applied to every possible history. TLC checks
the models on small instances; TLAPS proves, for every value of the constants,
the rules of the reward ledger with both services that write it, of payments,
accounts, budgets, reviews, stacks, proposals, notifications and the advice a habit
is given.

Paths below are relative to the application's `src/` (`module/...`,
`core/...`) or to the repository root (`prisma/`, `docs/`).

## 1. Inventory

| Part | State it keeps | Operations | Modelled in |
|---|---|---|---|
| Habit completions (`module/habit/habit.service.ts`) | `Completion` (one row per habit and day), `Habit.isArchived` | `toggleCompletion`, `deleteHabit`, `cleanupExpiredHabits` | `HabitRewards`, `Identities` |
| Reward engine and ledger (`module/rewards/reward-engine.service.ts`, `rewards.service.ts`) | `RewardLedger` (append-only, unique `idempotencyKey` and `reversalOfId`), `User.coins` cache | award, reverse, claim milestones, repair | `HabitRewards`, `DailyPlan`, `BalanceRepair`, abstractly `RewardAccount` |
| Experience (`module/profile/profile.service.ts`) | `User.xp`, `User.level` | `addExperienceTx`, `addExperience` | `HabitRewards`, `DailyPlan` |
| Streak freezes, reward shop | `StreakFreeze` (unique habit and day), `RewardRedemption` (unique user and item) | `purchaseFreeze`, `redeemItem` | `HabitRewards` |
| Daily plan (`module/daily-plan/`) | `DailyPlan`, `DailyPlanTask`; completions with `source = DAILY_PLAN` | create, update, move, delete of plans and tasks, which write completions, coins and experience | `DailyPlan` |
| Habit stacking (`core/utils/stack.utils.ts`, `assertStackTarget`) | `Habit.stackAfterHabitId` | create, update, archive, delete | `HabitStack` |
| Identities, temptation bundles, reminders | `Identity`, `IdentityHabit`, `TemptationBundle`, `Reminder` | create, link, evidence, delete; lock, release, use; enable, silence | `Identities` |
| Subscription (`module/subscription/`) | `UserSubscription`, `PaymentTransaction`, `SubscriptionWebhookEvent` | guard, checkout, verify, cancel, resume, six webhook handlers, free access by an admin | `Billing` |
| Authentication, accounts (`module/auth/`, `module/users/`, `module/admin/users/`) | `User` with hashed refresh token, reset digest, `isSuspended`; audit log; the trial row | sign up, sign in, refresh, log out, reset, change password, suspend, delete | `Sessions` |
| Adaptive proposals (`module/habit/adaptive.service.ts`) | `HabitAdjustmentProposal` (unique habit, fingerprint, status), proposal rows of `BehavioralEvent` | suggest, accept, reject, evaluate outcomes | `AdaptiveProposals`, analysis in `Guidance` |
| Behaviour engine (`core/utils/behavior-analytics.utils.ts`, `schedule`, `streak`) | none | rates, streaks, patterns, difficulty, risk, momentum, signals | `BehaviorAnalytics` |
| Interventions, coach, overload, weekly trend | the coach's cache of model texts, per process | eleven ordered rules, frequency filter, the coach's answer, overload report with its contributors, weekly trend and the review without a model | `Guidance`, `Insights` |
| Awards (`module/awards/`) | `UserBadge` | which badges are due | `Awards`, `Insights` |
| Notifications, behavioural events | `NotificationDelivery`, `BehavioralEvent` | candidates, deliver, push, open, act, dismiss, prune | `Outreach` |
| Weekly review (`module/analytics/weekly-review.service.ts`) | `WeeklyBehaviorReview` (one row per user and week), a map of generations in flight per process | get, generate, store, regenerate | `WeeklyReview` |
| Budget (`module/budget/`, `prisma/repair-budget-links.ts`) | `Budget`, weeks, allocations, `Expense`, `ExpenseCategory` | create, update, delete, resolve, summarise, repair | `Budget` |
| Older statistics, admin listings, export, timeline, journal, templates, mail, AI, PDF, seed scripts | read only, single-row writes, or I/O | - | no |

How they interact. Controllers call services directly; there is no queue and
no lock. Everything shared is in PostgreSQL, at READ COMMITTED, but for the
weekly review's map of generations in flight, which each process has for itself. A completion
calls the profile service (experience) and the reward engine inside one
interactive transaction, and awards and domain events after its commit. The
daily plan writes the same completion rows through the older base-only entry
points of `RewardsService`. The subscription guard runs in front of every
authenticated request, and Paystack calls back through webhooks. An accepted
proposal edits the habit through `updateHabit`.

What is hard about this code:

- most decisions are taken on rows read **before** or without the transaction
  that acts on them (completions, subscription rows, proposals, stack edges);
- unique indexes are the only protection against duplicates, and the code often
  *catches* their violation inside a transaction that PostgreSQL has already
  aborted;
- webhooks arrive late, twice or not at all, and race with the polling
  `verify`;
- adaptive proposals, sessions, notifications and reviews use no transactions:
  what was written before a failure stays, and an update by id overwrites what
  came in between;
- one day has two meanings, the client's date and the server's instant, and
  dozens of thresholds turn a log of days into advice: what they do together
  on every log is more than tests enumerate.

`PROJECT.json` lists the hazards one by one, each with its line and the
properties that watch it. What makes each part correct:

- *ledger*: a row is reversed once, a bonus is paid once per key, a purchase is
  charged once, the account never spends what it has not, the cache is the sum of the ledger;
- *completions*: the standing awards and the experience are those of the
  completed days;
- *subscription*: access follows confirmed payments, unless an admin gives it; a
  payment that has settled was applied and buys nothing more; access ends when the
  period ends, and sooner only by a stale read;
- *daily plan*: its completions are paid by the same ledger, once;
- *stacks*: no cycle, and no refusal without one;
- *proposals*: one open proposal, resolved once, measured when due;
- *budgets*: amounts add up, one budget per scope and day, links follow periods;
- *sessions*: a reset changes its own account while its token is young and a trial
  never restarts, whatever overlaps; until requests overlap a session ends when it is
  ended, a reset token is the newest and works once, the audit trail tells the status;
- *insights*: keeping the schedule is never punished, a risk is answered, logging
  helps;
- *outreach*: a bounded number of deliveries a day, no reminder twice in its week;
- *bundles*: released by a FULL completion, used once;
- *reviews*: generated once at a time, stored only when the week is over, and kept
  but for a regeneration, which loses the review if it fails after its delete.

## 2. The modules

Which module builds on which:

    RewardAccount <-- HabitRewards --> DailyPlan            (ledger, completions)
                          |-> BalanceRepair
    BehaviorAnalytics -> Guidance ---\
                     \-> Awards ------+-> Insights          (pure rules, then days)
    Identities -> WeeklyReview                              (one log, its reports)
    Billing, HabitStack, AdaptiveProposals, Budget, Sessions, Outreach
    MC*                                                     (instances for TLC)
    DailyPlan, Sums -> RewardLedgerProofs                   (proofs)
    Budget, Sums -> BudgetProofs, Billing -> BillingProofs,
    WeeklyReview -> WeeklyReviewProofs, Sessions -> SessionsProofs,
    AdaptiveProposals, HabitStack, Sums -> HabitProofs,
    Insights, Outreach, Sums -> GuidanceProofs

An arrow to the right is `EXTENDS`, the arrow to `RewardAccount` a refinement.
In all modules a *request* (`req`, `call`, `job`, `plan`) is a record: the
statement it is at and what it has read. Two awaited statements are two steps,
a transaction is one step or, where its locks let others in between, several.

**`HabitRewards`** is the core. One habit, its days, one user. `Begin` is
everything before the transaction (`findOne`, `completion.findUnique`, the
archived check); `WriteExisting`, `CreateRow` and `CreateConflict` are the first
statement of the transaction; `ReadUser` is the first half of
`addExperienceTx`; `Settle` is the rest including the commit; `Announce` the
events; `Abandon` a crash, a disconnect or the transaction timeout.
`FreezeCheck`/`FreezeSettle`, `RedeemCheck`/`RedeemSettle` and
`DeleteCount`/`ArchiveHabit`/`DeleteHabit` are the purchases and `deleteHabit`.

Two reductions are made, both from row locks. An uncommitted completion row is
invisible to others, so it stays in the record of its request, and another
write of that day waits (`RowFree`). From the moment a transaction updates the
`User` row until it commits, every other transaction that awards, reverses or
buys for that user waits for it at its own update; since the engine's reads in
between are of that user's rows only, the stretch is one step. The read of the
experience points comes *before* that lock and is a step of its own.

`ConflictAborts` says what a failed statement does to its transaction.
PostgreSQL aborts it: whatever the `catch` does, later statements fail, or a
`COMMIT` with nothing after the failure rolls back without an error.
`SettleConflict` models the two outcomes. All runs use `TRUE`. With `FALSE` (a
savepoint around each statement) the module describes what the `catch` blocks
were written for; the theorems hold for both values, but for `FundsAreBacked`.

Data: a ledger row is its operation, type, reference and signed amount. The
idempotency keys `sm:<habit>:<m>:<cycle>` and `im:<identity>:<t>` are the type
and reference. Days are 1 .. `NumDays`, all scheduled and none in the future.
A value is only whether it reaches the goal. A habit has at most one linked,
ACTIVE identity, and per-habit coin overrides are positive.

**`RewardAccount`** is the abstract specification of the ledger: a credit is
granted once, taken back at most once, never returns; coins are spent only when
there; the balance moves by exactly those amounts. `HabitRewards` implements it
with `standing <- Credits \ ReversedRows`, `closed <- ReversedRows`,
`spent <- Debits`, `balance <- coins` (`AccountSpec`), and so does `DailyPlan`,
whose writers use the older entry points of the same ledger. What it does *not*
promise is what the code breaks: that a day is awarded once.

**`BalanceRepair`** extends `HabitRewards` with the three statements of
`repairBalanceFromCache`.

**`DailyPlan`** extends `HabitRewards`: plans, tasks, and the completion a task
is the source of (`sourced`). A plan request reads its task, then the completion
row without a lock; from its first write to its commit it is one step, because
it then holds the row or the user. A removal locks the user before the
completion and a toggle the other way round; PostgreSQL aborts one of them
(`Deadlock`). Experience follows the commit, in a transaction of its own.

**`Billing`**: the subscription row, the payments of checkouts, the webhook gate
and Paystack. `Resolve`/`Persist` are `getEffectiveSubscription`, run before
`Access`, `Cancel`, `Resume` and `SetFree`; `VerifyRead`, `VerifyAsk`,
`VerifyFail`, `Activate`, `MarkSuccess` are the statements of `verify`, `PlanGone` its
throw when the configuration has lost the plan; `Deliver`, `PassGate` and one or two
steps per webhook kind are `webhook.service.ts`. A handler may find no user
(`NoUserMatches`); a field that an event may lack - the next payment date, the end
of the invoiced period, the cancel flag - is a choice between writing it and leaving
what is there. Paystack (`Pay`, `Renew`, `Invoice`, `Stop`) is external:
it charges when it likes after the due time and leaves an event deliverable for
ever, so delay, reordering, loss and repetition are all behaviours. Time is a
counter; a null `currentPeriodEnd` is `Forever`, a null `gracePeriodEndsAt` is 0,
as `computeEffectiveStatus` treats them. `activated` (when each reference activated the
row) and `granted` (an admin has set free access) are history variables.

**`HabitStack`**: the edges of one user's habits. `Stack` is the check of the
target, `CheckChain` the read of all edges and `wouldCreateStackCycle`,
`WriteStack` the write; other requests come in between. The walk is a recursive
*function* of the depth whose value is the set of habits from which the walk, at
that depth, meets the habit or runs out of steps (which the code reports as a
cycle).

**`AdaptiveProposals`**: the proposals of one habit. The analysis is an input
(`Evidence`): some fingerprint or none. Every await is a step.

**`Sessions`**: one e-mail address and the accounts it names over time. Each
handler of `auth.service.ts`, of the account parts of `users.service.ts` and of
`admin-users.service.ts` reads the row, hashes or signs, and writes the row by
id. `issued` are the tokens clients hold. The stored refresh token is a bcrypt
hash, and bcrypt compares 72 bytes; the signed tokens of one account agree in
those, so a token matches whenever any hash is stored (`Matches`). `live`, `asked`,
`resets`, `unlogged` and `overlapped` are history variables.

**`Budget`**: budgets with their weeks and allocations, expenses, categories.
A day is two instants, its midnight and its evening, because some comparisons
are of instants and others of whole days (`DayEnd`, `Contains`, `Ambiguous`).
`normalizeBudget` and its rules are operators over a record of what the client
sent; reading and writing are separate steps. Amounts are naturals, so the
tolerance `MONEY_EPSILON` of the code's doubles is not exercised.

**`Identities`**: what hangs on a habit - identities and their levels, bundles,
the reminder - and the end of a habit. A toggle is one step here, because
`HabitRewards` has its races. **`WeeklyReview`** extends it with the review of
one week: preferences and clock, the stored row, the map of generations in
flight of each server process, the facts in two reads, the language model
(external: any answer, none, or a refusal), the write of the row, which may fail
unnoticed (`StoresNot`), regeneration, crashes, and database errors that end a request
and those waiting for it (`Fails`). `answered` and `failed` are history variables: a
review was stored, and a regeneration died, threw or could not store after its delete.

**`BehaviorAnalytics`** is `behavior-analytics.utils.ts` with the schedule and
streak helpers it uses: each function an operator over a habit and its log.
Rates are whole parts of `One` = 10^7 where the code has doubles; windows are
constants. **`Guidance`** is what reads the reports: `INTERVENTION_RULES` in their
order, the coach (its frequency filter and whose words it answers with: the cache's,
the model's or its own), `analyzeAdaptation`, the overload of a portfolio with the
habits it is put down to, the trend of a week and the review written without a
model. **`Awards`** is which badges are due. **`Insights`** makes a behaviour of
them: completions are logged, changed, undone, also for past days, and days pass.

**`Outreach`**: candidates with their priorities, cooldowns and the daily cap;
`markDelivered`; the hourly dispatcher, which asks, pushes, then records, and can
fail or die after each; the interactions with their order of steps; retention.
A phone confirms what it fetched or what was delivered before; `markDelivered` takes
any twenty fingerprints, and that the app sends no others is assumed.
What is due is an input; what makes it due is in `Guidance`.

`MC*` modules give scaled-down values and the symmetry sets.

## 3. What the runs check

| Run | Bounds | Shows |
|---|---|---|
| `HabitSeq` | 1 request, 3 days, FULL/MINIMUM, milestones 2 and 3, identity threshold 3, fund, freeze, 1 item, 5 operations | after any sequence of logs, downgrades, swaps, freezes, removals and failures the cache is the ledger sum, each completed day has one standing award of its kind, standing streak bonuses have intact cycles, and experience is that of the completed days |
| `HabitRace` | 2 requests, 2 days, milestone 2, no linked identity (so the habit can be deleted outright in a race with the rest), 4 operations | reversed once; bonus once per key; charged once; allocations have a completion; implements `RewardAccount`, which also spends no coin that is not there |
| `PlanRace` | 1 toggle and 1 plan writer, 2 days, 1 plan, 2 tasks, 3 operations | a completed day is always paid while one toggle of it is open at a time; exactly once until requests overlap |
| `BillingRace` | 2 handlers that may crash, a checkout and a renewal, charge, failed and not-renew events, free access of 2 ticks, 2 ticks | one handler per event; only a confirmed payment or free access makes an account look paid; a closed payment was applied, and once settled never buys again; only a stale read ends access early |
| `BillingRetry` | 1 handler that does not crash, a checkout and a renewal, charge, failed, sync, invoice and disable events, 3 ticks, fair | one period per payment until another payment is applied; overdue access is noticed |
| `StackSeq` | 4 habits, walk of 2 steps, 1 request | no cycle stored; the bounded walk misses none |
| `AdaptiveSeq` | 1 request that may crash, 2 fingerprints, 3 proposals, 2 days | one open proposal; resolved once |
| `BudgetRace` | 2 callers, 2 budgets, 1 expense, 1 category, 3 days of 2 instants, 4 periods (one reversed), 4 operations | amounts, weeks and allocations add up and no link dangles, whatever races; scopes are disjoint and links in their periods until requests overlap; the repair script heals what a race leaves |
| `SessionsRace` | 2 callers, 2 passwords, 1 tick, 5 operations | one trial per account, and resets of the token's own account while the token is young, whatever races; sessions end when they are ended, a reset token is the newest and works once, the audit trail is a chain, until requests overlap |
| `Insights` | windows of 3, 5 and 7 days, 6 days, 4 schedules, one of them also with a later start, FULL/MINIMUM/EMERGENCY, alone, next to a habit never done, next to one always done, two tones, any answer of the model and any content of the cache | keeping the schedule is never punished, nor by the review without a model; a habit at risk is answered with the engine's action; a full completion today never makes anything look worse |
| `Outreach` | 1 phone, 1 dispatcher, 2 days, a week of 2, a cooldown of 1, 1 candidate a request, a cap of 1, 4 rows read back, 2 pushes | a day's deliveries are bounded; a reminder is pushed again only if its push was never recorded; what a user does with a notification is recorded in order |
| `ReviewRace` | 2 callers at 2 processes, 1 crash, 1 habit, 2 days, 2 identities, 1 bundle, 4 operations | bundles are used once; one generation at a time in a process and nobody waits for none; only reviews of finished weeks are stored, and one is gone only while another is made or after a regeneration that failed |

Why the bounds are enough. Every race in this code is between a read and the
write based on it, so two requests reach it; four or five operations let others
follow in the same window, enough for two requests to hold an award that a third
reversed, or a deleted account's token to meet its successor. Three days and
milestones 2 and 3 give nested cycles, a gap in the middle and a freeze that
fills it. A period of two ticks with a grace of one gives a due, an overdue and a
lapsed moment; three ticks are a period and a lapse after it, and let a renewal
follow a checkout whose webhook is still to come. Four habits
with a walk of two steps have chains shorter than, as long as and longer than
the walk. Three proposals allow an expired one to return and meet the unique
index. Six days fill all windows of `Insights` and leave a whole previous week
for the trend; every log of them is explored. The budget's periods include a
day, two overlapping in a day's evening and one that ends before it starts. One
candidate a request with a cap of one makes the cap bite; four rows read back are all
that the run's deliveries can amount to within a cooldown. Experience levels are
kept out of `HabitSeq` (`BaseXp` = 1000) because a decrement across a level
loses points; see section 6.

Bounds, all in guards: `MaxOps` (requests started), `MaxTime`, `MaxClock`,
`MaxDay` (time), `MaxRows` (proposals), `MaxPushes`, `MaxCrashes`. Configurations
say `CHECK_DEADLOCK FALSE` only where such a bound ends the behaviour. Symmetry is
used only with safety properties. `PROJECT.json` names for each property a mutant
of a mapped definition that TLC finds violating it.

*Until requests overlap.* Some properties hold when requests do not overlap and
fail when they do; the code guarantees no more. `HabitSeq`, `BillingRetry`,
`StackSeq` and `AdaptiveSeq` have one request at a time for that reason. In
`DailyPlan`, `Budget` and `Sessions` a history variable `overlapped` says whether
two requests have been open at once, so that one run tells both kinds of
property apart: `QuietDaysPaidExactly`, `ScopesDisjoint`, `LinksInPeriod`,
`SessionsEnd`, `AuditChain` and the second half of `ResetsOnce` ask for `~overlapped`. Section 6
lists what overlapping does.

Every module states its type invariant. Those of `HabitRewards`, `Billing`, `Budget`,
`HabitStack`, `Insights` and `Outreach` are proved (section 5); `Sessions`, `WeeklyReview` and
`AdaptiveProposals` have theirs in the inductive invariants of their proofs as far
as these need it.

## 4. Fairness

Only `LapseIsNoticed` needs it (`FairSpec`). `WF(Tick)`: time passes.
`WF(Decide \/ Settle \/ Webhook)` for each request: a handler that started
finishes; Node runs every continuation, and the run has no crashes. `SF` on
the `Resolve` of an ordinary access: the code expires accounts only when a
request looks at them, so "noticed" means nothing for a user who never
returns; strong, because the slot for a request may be busy in between. Nothing
is assumed of Paystack.

## 5. What is proved

The theorems of seven modules, with the sums of `Sums` beneath them, are proved for every
value of the constants. Assumed are the `ASSUME`s of the modules:

- `HabitRewardsAssumption`: types and signs of the constants, and
  `XpGain <= BaseXp`, so that one award crosses at most one level, which lets
  `ExperienceAfter` take one step of the code's loop; `FinitelyManyBonuses`: the
  tables of milestones and thresholds are finite, constant arrays in the code;
- `DailyPlanAssumption`: a task's award is positive, plans are numbered by days;
- `BillingAssumption`: types, periods of at least one tick, checkouts and renewals
  are different references;
- `BudgetAssumption`: types, finite tables, positive prices;
- `StackAssumption`: the walk takes at least one step, `NoHabit` is no habit;
- `ReviewAssumption`, `SessionsAssumption`, `AdaptiveAssumption`: types, and the
  absent value (`None`, `Nothing`) is not one of the values it stands beside;
- `OutreachAssumption`: types, finitely many requesters, positive limits, and a
  cooldown no shorter than the rest of a week, as `COOLDOWN_DAYS` has it;
- `AnalyticsAssumption`, `GuidanceAssumption`, `InsightsAssumption`: types, the
  windows in their order, samples of at least one.

Numbers of requests, processes, days, accounts, references, habits, budgets,
proposals, milestones and prices are otherwise arbitrary. Some rules of this code
hold only while requests take turns. Then the turn-taking is part of the statement,
as narrow as the proof allows: the property itself says "until two requests overlap"
(its module has the variable `overlapped`), or the theorem has the form
`Spec /\ []Hypothesis => []Property`, the hypothesis a state predicate defined just
before it. The runs allow the states it excludes or a configuration of section 6
shows what happens there.

**Sums** (`Sums`). The library's sum over a set takes the elements in an order nobody
chooses. That the order does not matter (`SumAdds`), and with it what disjoint sets,
a larger term or one more element do to a sum, is an induction over finite sets
stated without an operator parameter: if some part of a finite set failed there
would be a smallest such part (`Smallest`, from the well-foundedness of strict
inclusion), and taking its first element away leads to a contradiction.

**The reward ledger** (`RewardLedgerProofs`).

- `TypeCorrect`: `Spec => []TypeOK`, one lemma per action.
- `ReversedAtMostOnce`, `BonusPaidOnce`, `ChargedAtMostOnce`: `ReversedOnce`,
  `BonusOncePerKey` and `ChargedOnce` always hold, whatever overlaps.
- `FundsAreBacked`, given `ConflictAborts`: `AllocationsBacked` always holds.
- `ImplementsAccount`: `Spec => AccountSpec`.
- `BalanceIsTheSum`: `BalanceMatchesLedger` always holds.
- `DaysPaidExactly`, `StreaksStand`, under `[]OneAtATime` (no two toggles, purchases
  or removals are open together): `DayPaidExactly` and `StreakBonusIntact`.
- `XpFollows`, under `[]OneAtATime` and `[]NothingClamped`: `XpFollowsCompletions`.

None of the ledger rules is inductive alone. The invariant is `LedgerInv`: the
type invariant; `FreshOps` (every operation number in a request or a ledger row has
been started, so a new request's rows are new); `SignedByType` (awards and bonuses
are positive, debits negative); and the three rules. A step that writes the
ledger is of one of three kinds - it settles a completion, it settles a
purchase, or it leaves the ledger alone (`StepKinds`) - and each kind is one step
of the account. `Settle` reverses only standing credits, because a conflicting
reversal either aborts (`ConflictAborts`) or is skipped, and grants rows of an
operation that has written none.

The allocations need another invariant, `FundInv`: nobody goes on with a row that
another transaction created (`adopted` is never set when a conflict aborts),
whoever is in a transaction has locked the row it writes, and no two are in one of
the same day. So the row an allocation names cannot be removed or reverted
between the two statements. For the balance, `BalanceInv` adds to `LedgerInv` that
the ledger is finite and that the balance is its sum; every step that writes adds a
finite set of new rows and takes back a set of standing ones (`MoveBalances`).

What a day is paid needs `ExactInv`: a done day has exactly one standing award of its
row and kind, and it is the newest of those (`PaidOnce`), so that the reversal, which
looks for the newest, finds it; rows have numbers of their own (`RowIds`); and what the
open request has read is still so (`UpToDate`), which is what the hypothesis buys and
what `HabitDoubleAward` refutes without it.

Experience needs `XpInv`. The profile holds a level and the points within it, the
property speaks of the total, so the proof adds up what all levels below cost. At the
first level a toggle-off never takes more than is there, which is proved; beyond it
the code clamps at zero and the total is lost, which `NothingClamped` excludes and
nothing else. `TypeOK` bounds neither the level nor the points.

**The daily plan** (`RewardLedgerProofs`), for any number of plan requests, plans, tasks
and toggles.

- `PlanReversesOnce`: `PlanSpec => []ReversedOnce`.
- `PlanBalanceIsTheSum`: `PlanSpec => []BalanceMatchesLedger`.
- `PlanImplementsAccount`: `PlanSpec => AccountSpec`, the refinement that `HabitRace`
  checks of the toggles alone.
- `PlanPaysExactly`: `PlanSpec => []QuietDaysPaidExactly`.
- `CompletedStaysPaid`, under `[]OneToggleADay` (no two toggles of one day between their
  reading of the row and their settlement): `CompletedIsPaid`, while any number of plan
  requests race with the toggles and with each other.

`PlanInv` is `BalanceInv` with what plan requests add: what each carries at its
statements, tasks in plans that exist, and `PlanFresh`. A plan request writes its award
under an operation number it took when it began, so that number must be in no row
of the ledger and in no other open request, toggles included. For the toggles the
ledger's own lemmas are used again; they say of every step that a new row bears the
number of a request that was open and that an open request has the number it had or
a new one (`Numbered`). A plan step leaves the tables alone, or is a case of
`PlanWrites`: it pays one award or takes standing ones back.

For `PlanPaysExactly`, `QuietInv` says that until two requests overlap one is at work at
most and every day is settled (`AllQuiet`). `RaceInv`, for `CompletedStaysPaid`, is
about requests that do overlap: a row is never given a number that somebody still
holds (`RowNumbers`), and a row that a toggle has read as done stays done, and of its
kind, until it is deleted (`Reads`). A stale toggle therefore takes an award back only
where it pays another one.

**The subscription** (`BillingProofs`).

- `BillingTyped`: `Spec => []TypeOK`. The strengthening is `Staged`, what a request
  carries at each of its stages, and that no renewal falls due after the last
  period.
- `HandledOnce`: `OneHandlerPerEvent`. `GateInv`: whoever handles an event has
  its gate row, and two who handle the same are one.
- `PaidOnly`: `PaidMeansPaid`. `PaidInv` adds to the type invariant what every writer
  carries: a request about to activate, mark or grant grace, a stored reference, a
  successful payment and an event that Paystack sent all stand on a paid charge, and
  a row read earlier looks paid only if something was, or free access was given. It
  makes a trial look `ACTIVE`, and cancelling then stores `NON_RENEWING`
  (`BillingCancelFree`), so the property names it.
- `ClosedIsApplied`: `SettledIsApplied`, whatever overlaps and crashes. `AppliedInv`: a
  request about to mark a payment has activated the row with it.
- `EarlyOnlyIfStale`: `EarlyExpiryIsStale`, whatever overlaps and crashes: a request
  that read the row as it still is found it lapsed, and time does not undo that.
- `SettlesForGood`: `SettledForGood`, whatever overlaps and crashes. A settled checkout
  is open to no request and no delivery, so nothing can begin to work on it.

**The weekly review and bundles** (`WeeklyReviewProofs`).

- `FlightAlone`: `OneGeneration`. `FlightInv`: the map of a process names a request
  exactly when that request is generating there, and whoever waits finds a name in it.
- `StoredAfterEnd`: `StoredIsOver`. A request that will store is one that read the
  clock after the end, and the end does not pass away.
- `KeptOnceReviewed`, given that a row differs from the absent row: `ReviewKept`. It
  says where a review can be lost, not that it is kept: a regeneration that fails
  after its delete leaves none (`RegenerationKeepsOne`, section 6).
- `BundleLives`: `BundleLife`. `LifeInv`: a bundle was used at most once, not at all
  while it is locked or unlocked, and is unlocked or used only if its habit was
  completed in full.

**Accounts** (`SessionsProofs`).

- `TrialOnce`: `TrialRunsOnce`. `TrialInv`: ids are given in order, so a request that
  outlives its account names no later one, and a request that is about to create
  a missing trial carries the date of the account that now has the address.
- `ResetsInTurn`: `ResetsOnce`. `AskedInv`, whatever overlaps: a token on the row, and
  one a request has found, was asked for by that account at the time it says, and the
  row holds the newest (`AskedStart`, `AskedStep`). The rest - newest
  and first use - holds until two requests overlap.
- `SessionsEnded`, `AuditChained`: `SessionsEnd`, `AuditChain`, until two requests
  overlap, the second also until an entry is lost. `QuietInv` adds to `TrialInv`
  what holds until then (`QuietState`): one request at work at most
  (`AloneAtWork`), tokens and sessions that agree but for the two rows it has yet to
  write (`SessionsMatch`), reset tokens used in their order, the trail
  a chain up to the entry it has yet to write (`StatusLogged`), and rows it has read
  still so (`Current`).

**Budgets** (`BudgetProofs`).

- `BudgetTypes`: `Spec => []TypeOK`.
- `BudgetsKept`: `BudgetsAddUp`, whatever overlaps and fails. `TableInv`: every row is
  fair, allocations are in categories that exist, links lead to budgets that exist,
  and the rows requests carry are fair already.
- `ScopesKeptApart`, `LinksKeptInPeriod`: `ScopesDisjoint`, `LinksInPeriod`, until two
  requests overlap. `QuietInv`: one request at work (`AloneAtWork`), what it has checked
  is still so (`AllCurrent`), rows apart and links inside but for those it is changing
  (`TablesQuiet`). That the linked expenses do not exceed those of the period is an
  inequality between two sums, hence `Sums`.
- `RepairRestores`: `RepairHeals`, after any race.

**Habit stacks** (`HabitProofs`).

- `StackTyped`: `Spec => []TypeOK`.
- `WalkIsEnough`: `WalkFindsCycles` always holds: a write the walk lets pass closes no
  cycle, whatever the chain's length and the walk's depth. A walk that starts inside
  the loop that the new edge would close never leaves it (`LoopIsWalked`: there would
  be a smallest depth at which it does), so it meets the habit or runs out of depth,
  which counts as a cycle: the bound refuses stacks and never lets a cycle through.
- `RefusedRightly`: `UpdatesRefusedRightly`, which is in no run. What the walk reports is a cycle or a
  chain longer than the walk, never a shorter chain that ends.
- `StacksEnd`, under `[]WritesInTurn` (no two updates between their check and their
  write): `StackAcyclic`, which `StackRace` refutes without it.

**Proposals** (`HabitProofs`), for any number of requests at a time. Both hypotheses
are about the few statements between a look-up and the write based on it.

- `OneOpenProposal`, under `[]SuggestedInTurn` (no two suggestions stand between what
  they find open and what they create): `OneOpen`. `OpenInv`: what such a suggestion
  has found open, or found missing, is all that is open.
- `ResolvedForGood`, under `[]DecidedInTurn` (nothing else accepts, rejects or expires
  the proposal that is being answered): `ResolvedOnce`. `AnswerInv`: a proposal being
  answered is still open.

`ShapeInv` is the shape of rows and requests; `EveryStep` reduces each action to the
few things it can do to the rows. With two requests both hypotheses can fail:
`AdaptiveTwice` refutes `ResolvedOnce` then.

**Notifications** (`GuidanceProofs`), for any number of phones, dispatchers, days,
habits and situations.

- `OutreachTyped`: `OutreachSpec => []OutreachTypeOK`.
- `FunnelKept`: `FunnelOrdered`, whatever overlaps, fails or is pruned. `FunnelInv`:
  every event is about a delivery that was there before it (`EventsOnRows`), since a
  step is recorded beside its `DELIVERED` event and retention takes events only.
- `DayBounded`, under `[]ReadsAll` (a request reads back every delivery of the
  cooldown): `DayBound`. The cap is looked at when insights are fetched, so `DayInv`
  counts what is still to be confirmed as if it had been: the day's deliveries
  stay below the cap plus the room the requesters have left, a sum that every
  fetch, push and confirmation changes in one summand (`SumChanges`).
- `PushesOnce`, under `[]ReadsAll` and for one dispatcher: `PushedOnce`. `PushInv`: every
  push of a reminder so far was lost but at most one, which has left a row or is about to,
  and a reminder that waits to be pushed has no such push. A fetched reminder has no row
  in the cooldown, and an older row is of an earlier week (`Weeks`), hence of another
  fingerprint. `PushedOnce` fails without either hypothesis (section 6).

`ReadsAll` is not something the code ensures: it reads 200 rows, in no order, of a
cooldown of 365 days. It holds as long as a user has had no more than 200 deliveries
in a year; beyond them neither the day's bound nor the single push is guaranteed.

**The rules over a log** (`GuidanceProofs`), for any log, habits, windows, thresholds of a
sample and number of days. They are arithmetic on reports, not inductions over steps:
what is said of one log is said of all.

- `RiskAlwaysAnswered`: `RiskIsAnswered`. Some of the ten rules applies, so there is a
  least one; a habit at risk that is due and not done satisfies the seventh at the
  latest, and all up to there call for something that the default frequency lets pass
  (`FirstRule`). Neither the cache nor the model changes the action.
- `InsightsTyped`: `Spec => []TypeOK`.
- `PerfectAlwaysSafe`: `PerfectIsSafe`. Every eligible day of a kept schedule is done
  (`KeepingLoads`), so each rate is full or there is none (`KeepingRates`), no share of a
  reduced version (`KeepingShares`) and no weekday worse than another
  (`KeepingWeekdays`); the score keeps at most the share of a trend from nothing and is
  LOW (`LowRisk`). That no rule, no redesign and no review calls for less follows from
  those figures. The redesign needs one more: a habit of so many times a week with
  enough samples has a rate, provided that nothing is on record from before its start;
  the property says so, and `PerfectKeepsFrequency` shows why (section 6).

Only model-checked: the liveness property `LapseIsNoticed`, which rests on fairness;
`OnePeriodPerPayment`, which crashes and overlaps refute and `SettledForGood` replaces
as the guarantee for any number of handlers;
`LoggingHelps` of `Insights`, which compares every rounded and weighted figure of two
reports; and the type invariants of the modules not named here.

## 6. Where code and comments disagree

Each statement below is one that the code, a comment or a document makes and the
model of the code violates. Where a configuration is named, `tlc -config X.cfg M`
shows it; the configurations are kept apart from the runs. The others are
operators of the modules: put the operator in the place of the properties of the
named run's configuration.

| Configuration, module | Property | What happens |
|---|---|---|
| `HabitDoubleAward`, `MCHabitRewards` | `NoDoubleAward` | two overlapping logs both read an unfinished day and both award it; `habit.service.ts:400` says "the reward ledger enforces uniqueness per completion", but the base award has no key (`reward-engine.service.ts:126`) |
| `HabitReversal`, `MCHabitRewards` | `ReversalRetriesAreNoOps` | "unique reversalOfId makes retries no-ops" (`reward-engine.service.ts:407`): the caught violation has aborted the transaction. The streak query (208) filters on the award's own `reversalOfId` and finds a reversed bonus for ever, so after one broken streak every later toggle-off or downgrade of the habit fails |
| `HabitRepair`, `MCBalanceRepair` | `RepairReconciles` | the sum and the cache are two snapshots and the write is absolute; `rewards.service.ts:199` says equal "by construction" |
| `HabitXpLost`, `MCHabitRewards` | `XpFollowsCompletions` | two completions read the same points and write absolute values: one gain is lost |
| `BillingClobber`, `MCBilling` | `ExpiresOnlyWhenOverdue` | an expiry decided on a stale row overwrites an activation (`subscription.service.ts:191`) |
| `BillingTwoPeriods`, `MCBilling` | `OnePeriodPerPayment` | a verification after a crash activates a second period for one payment |
| `BillingCancelFree`, `MCBilling` | `NonRenewingLapses` | cancelling under free access makes a trial NON_RENEWING without a period end: it never lapses |
| `BillingStopFirst`, `MCBilling` | `NonRenewingLapses` | the same, by a disable webhook that arrives before the charge |
| `StackRace`, `MCHabitStack` | `StackAcyclic` | two updates close a cycle together |
| `AdaptiveOutcome`, `MCAdaptiveProposals` | `LookupsMeasure` | outcomes are looked for among rows with outcome null, acceptance writes 'PENDING' (`adaptive.service.ts:205`, 229): no accepted proposal is ever measured |
| `AdaptiveTwice`, `MCAdaptiveProposals` | `ResolvedOnce` | an acceptance overwrites a rejection |

Without a configuration:

- `HabitRewards` (configuration `HabitSeq` or `HabitRace`): `EventsAreTransitions` -
  a same-kind re-log emits a completion event (`docs/domain-events.md:29`);
  `EventsFollowCommits` - the caught allocation conflict rolls the commit back, the
  response and the event say completed; `HistoryKept` - a completion logged between
  count and delete goes with the habit; `ArchivedEarnsNothing` - an archived
  habit's unfinished row can be completed; `XpFollowsCompletions` with a `BaseXp` of
  10 - a toggle-off just after a level-up is clamped at zero
  (`profile.service.ts:159`).
- `DailyPlan` (`PlanRace`): `CompletedIsPaid` with two `Requests` - two toggles of one
  day both read it completed in full; one swaps it to MINIMUM, the other, a re-log of the
  same kind, writes FULL back and pays nothing, so a FULL day holds a MINIMUM award;
  `PlanStreakIntact` - the older entry points take back the
  base award only, a streak bonus stands after its cycle is broken;
  `PlanAllocationsBacked` with `MaxOps = 4` - a task set back deletes the completion and
  leaves its fund allocation;
  `OneDayPerTask` - a moved plan leaves completions of one task on two days.
  Replaced tasks lose coins but keep their experience.
- `Billing` (`BillingRetry`): `ChargeBuysOnce` - the charge webhook looks only at the
  last reference and activates again for an earlier one, so a checkout's webhook that
  arrives after a renewal buys a second period, though the comment reads "If the charge
  has already been processed for this exact reference, skip" (`webhook.service.ts:158`).
  `Billing` (`BillingRace`): `SuccessIsFinal` - a slow failed verification overwrites
  the success of the webhook; `RecordedChargeApplies` - a crash or an error
  after the gate row, or a user not found, loses the charge: Paystack's retry is a
  duplicate.
- `HabitStack` (`StackSeq`): `ConflictsAreCycles` - creating a habit after another is always
  refused as circular (`habit.service.ts:280`).
- `AdaptiveProposals` (`AdaptiveSeq`): `StaleExpires` - a proposal whose fingerprint expired once
  before cannot expire again; `BaselineBeforeChange` - a second acceptance takes its
  baseline from the changed habit.
- `Identities`, `WeeklyReview` (`ReviewRace`): `FullReleases` - a day raised from MINIMUM to
  FULL releases no bundle; `RegenerationKeepsOne` - a regeneration that dies, throws or
  cannot store after its delete leaves the week without the row that
  "Regeneration keeps ONE row per week" (`weekly-review.service.ts:169`) speaks of;
  `ArchivedAreSilent` - a reminder can be enabled on an archived habit; `EvidenceKept`, `LevelsKept` - unlinking its habits takes an identity's
  evidence away, and then the identity may be erased; `FinishedIsFinal` - a request after
  the week's end is answered with the running week's review still in flight. Two
  processes may generate the same review; the last writer's row stands, although
  the comment says "the winner's row stands".
- `Insights` (`Insights`): `BackfillHelps`, an action property - completing a
  forgotten past day raises the risk; `OverloadAgrees` - the interventions' overload
  has not the high-risk share of the report, "single source of truth consumed by
  BOTH"; `CoachSpeaksOfHabit` - the coach's cache is keyed by a fingerprint that names
  neither habit nor tone, so a habit may be answered with the words written for
  another, though "losing it must never change results" (`coach.service.ts:251`);
  `PerfectHasNoHardestDay` - the weakest day of a perfect log is named as the hardest;
  `PerfectKeepsFrequency` - days done before the habit's start count as samples but not
  in the rate, and an unknown rate is read as none (`adaptive-analysis.utils.ts:170`): a
  user who has missed nothing is told to do the habit less often;
  `AdviceAgrees` - the habit is told to keep its routine while a smaller one
  is proposed; `StreaksAgree`, `StreakBadgeEarned` - the profile's streak tolerates
  growing gaps, and the streak badges with it; `PerfectWeekEarned` - a window before any
  habit existed is a perfect week; `EastKeepsStreak` - users whose day begins before
  the server's lose their streak for hours; `TrendFollowsHabits` - the weekly trend
  compares a weighted rate with an unweighted mean.
- `Outreach` (`Outreach`): `DailyCeiling` - requesters that ask together exceed
  `MAX_PER_DAY`; `NeverPushedTwice` - a push whose record fails is sent again;
  `PushedOnce` with two dispatchers, or with `Take` = 1 (200 rows are read back
  unordered, so the cap and the cooldown stop binding beyond 200 deliveries a year); `UrgentFirst` with `Situations <- MCCrowded` - the scan stops before an
  urgent habit.
- Read off the rules while modelling: total abandonment is never CRITICAL; a first
  completion can raise AT_RISK; a perfect interval habit is never CONSISTENT; the
  MINIMAL frequency silences REDUCE_DIFFICULTY; `WEEKLY_REVIEW_READY` and some declared
  intervention types are never produced; an intervention's fingerprint does not name
  its habit; budget auto-resolution compares the raw end date, so the last day's
  evening expenses are not linked.

## 7. Not modelled, and why

- Single-row updates with no condition worth a property: titles, notes, order of
  tasks, plan summaries, incomes, journal entries, templates, push tokens.
- Read-only parts: admin listings and dashboards, export, timeline, older
  statistics.
- I/O: mail, PDF, the transport of push messages, the language model's text (its
  success, failure and retries are in `WeeklyReview`).
- Arithmetic of time zones: the client's day is an input. `EastKeepsStreak` is
  about where the two meanings of a day meet.
- Several habits sharing one user row in `HabitRewards` (experience and balance are
  locked per user), the creation of a missing subscription row, plan codes, prices
  and currencies, the 400-row limit of the streak query.
- Seed scripts.

## 8. What is left

1. `LoggingHelps` as a theorem: the monotonicity of each figure, rounding included.
2. `DailyPlan` with two plan writers and two plans (more states than TLC explores in
   a few minutes), and several habits in `HabitRewards`.
