------------------------- MODULE RewardLedgerProofs -------------------------
(* Theorems about the reward ledger, for every number of requests, days,     *)
(* kinds, milestones and prices.  First of HabitRewards by itself: types,    *)
(* the rules of the ledger, the refinement of the account, the reward-fund   *)
(* allocations, the balance, and what is paid for a day and a streak.  Then  *)
(* of DailyPlan, where the daily plan writes the same ledger through an      *)
(* engine of its own.                                                        *)
EXTENDS DailyPlan, Sums

(* A request before it begins.                                              *)
LEMMA IdleType == Idle \in Request
  BY HabitRewardsAssumption DEF Idle, Request, Stages, Asks, Row

(* What a request's record promises to its next handler: whoever pays has a *)
(* row (its own write or the one it adopted), whoever touches a day knows   *)
(* which, and a redemption names a shop item.                               *)
Sound(q) ==
    /\ q.pc \in {"wrote", "user"} /\ ~Removing(q) => q.row # NoRow
    /\ q.pc \in {"read", "wrote", "user", "post", "freeze"} => q.day \in Days
    /\ q.pc = "redeem" => q.seen \in Items

SoundRequests == \A r \in Requests : Sound(req[r])

TypeInv == TypeOK /\ SoundRequests

(* An idle request holds no reading of the tables.                          *)
LEMMA IdleSound == Sound(Idle) /\ Idle.pc = "idle"
  BY DEF Sound, Idle

(* Every handler replaces the record of one request; what is left to show   *)
(* for each is that the new record is sound and the tables keep their types.*)
LEMMA Replaced ==
    ASSUME TypeInv, NEW r \in Requests, NEW q \in Request, Sound(q),
           req' = [req EXCEPT ![r] = q], TablesOK', ops' \in Nat
    PROVE  TypeInv'
<1>1. req' \in [Requests -> Request]
  BY DEF TypeInv, TypeOK
<1>2. \A s \in Requests : Sound(req'[s])
  BY DEF TypeInv, TypeOK, SoundRequests
<1>3. SoundRequests'
  BY <1>2 DEF SoundRequests, Sound, Removing
<1> QED
  BY <1>1, <1>3 DEF TypeInv, TypeOK

(* A step that writes no table keeps the types of the tables.               *)
LEMMA TablesKept ==
    ASSUME TypeInv, UNCHANGED tables
    PROVE  TablesOK'
  BY DEF TypeInv, TypeOK, TablesOK, tables

(* The record of a request before the step.                                 *)
LEMMA Before ==
    ASSUME TypeInv, NEW r \in Requests
    PROVE  /\ req[r] \in Request /\ Sound(req[r]) /\ ops \in Nat /\ TablesOK
           /\ req[r].ask.kind \in Kinds
  BY HabitRewardsAssumption DEF TypeInv, TypeOK, SoundRequests, Request, Asks

(* Operations are numbered from 1.                                          *)
LEMMA Counted ==
    ASSUME TypeInv
    PROVE  ops + 1 \in Nat
  BY DEF TypeInv, TypeOK

(* A request that fails leaves the types.                                   *)
LEMMA FailKeeps ==
    ASSUME TypeInv, NEW r \in Requests, Fail(r)
    PROVE  TypeInv'
  BY IdleType, IdleSound, Replaced, TablesKept, Before DEF Fail, Done

(* The first state is well typed.                                           *)
LEMMA InitType == Init => TypeInv
<1> SUFFICES ASSUME Init PROVE TypeInv
  OBVIOUS
<1>1. req \in [Requests -> Request] /\ SoundRequests
  BY IdleType, IdleSound DEF Init, SoundRequests
<1>2. TablesOK
  BY DEF Init, TablesOK
<1> QED
  BY <1>1, <1>2 DEF Init, TypeInv, TypeOK

-----------------------------------------------------------------------------
(* Types of what the handlers compute.                                      *)

(* What a request sees of the completions are rows or none.                 *)
LEMMA RowsSeen ==
    ASSUME TypeOK, NEW r \in Requests
    PROVE  View(req[r]) \in [Days -> Row \cup {NoRow}]
  BY DEF TypeOK, TablesOK, View, Request

(* The experience settled is a natural number and a level.                  *)
LEMMA ExperienceType ==
    ASSUME TypeOK, NEW r \in Requests
    PROVE  ExperienceAfter(req[r]) \in [xp : Nat, level : Nat \ {0}]
<1> DEFINE q == req[r]
<1>1. q.xp \in Nat /\ q.level \in Nat \ {0} /\ XpDelta(q) \in Int
  BY HabitRewardsAssumption DEF TypeOK, Request, XpDelta
<1>2. XpNeeded(q.level) \in Nat
  BY <1>1, HabitRewardsAssumption DEF XpNeeded
<1> QED
  BY <1>1, <1>2 DEF ExperienceAfter

(* Every award is a positive number of coins.                               *)
LEMMA Prices ==
    /\ \A k \in Kinds : Coins[k] \in Int /\ Coins[k] > 0
    /\ \A m \in Milestones : StreakBonus[m] \in Int /\ StreakBonus[m] > 0
    /\ IdentityBonus \in Int /\ IdentityBonus > 0
<1>1. \A n \in Nat \ {0} : n \in Int /\ n > 0
  OBVIOUS
<1> QED
  BY <1>1, HabitRewardsAssumption

(* The entries of a completion are ledger rows that add coins.              *)
LEMMA AwardTypes ==
    ASSUME TypeOK, NEW r \in Requests, req[r].row # NoRow,
           NEW rows \in [Days -> Row \cup {NoRow}]
    PROVE  \A e \in Awards(rows, req[r]) : e \in EntryRows /\ e.amount > 0
<1> DEFINE q == req[r]
<1>0. q \in Request /\ q.ask.kind \in Kinds /\ q.row.id \in Nat /\ q.op \in Nat
  BY HabitRewardsAssumption DEF TypeOK, Request, Asks, Row
<1> DEFINE base == Entry(q.op, q.ask.kind, q.row.id, 0, Coins[q.ask.kind])
<1>1. base \in EntryRows /\ base.amount > 0
  <2>1. q.ask.kind \in LedgerTypes
    BY <1>0, HabitRewardsAssumption DEF LedgerTypes
  <2>2. Coins[q.ask.kind] \in Int /\ Coins[q.ask.kind] > 0
    BY <1>0, Prices
  <2> QED
    BY <1>0, <2>1, <2>2 DEF Entry, EntryRows
<1>2. ASSUME NEW e \in StreakClaims(rows, q)
      PROVE  e \in EntryRows /\ e.amount > 0
  <2>1. PICK k \in NewMilestones(rows, q.day) :
            e = Entry(q.op, "STREAK", k[1], k[2], StreakBonus[k[1]])
    BY DEF StreakClaims
  <2>2. k[1] \in Milestones /\ k[1] \in Nat /\ k[2] \in Nat
    <3>1. k \in Milestones \X Days
      BY DEF NewMilestones
    <3>2. k[1] \in Milestones /\ k[2] \in Days
      BY <3>1
    <3>3. Days \subseteq Nat /\ Milestones \subseteq Nat
      BY HabitRewardsAssumption DEF Days
    <3> QED
      BY <3>2, <3>3
  <2>3. StreakBonus[k[1]] \in Int /\ StreakBonus[k[1]] > 0
    BY <2>2, Prices
  <2>4. "STREAK" \in LedgerTypes
    BY DEF LedgerTypes
  <2> QED
    BY <1>0, <2>1, <2>2, <2>3, <2>4 DEF Entry, EntryRows
<1>3. ASSUME NEW e \in IdentityClaims(rows, q)
      PROVE  e \in EntryRows /\ e.amount > 0
  <2>1. PICK t \in Thresholds : e = Entry(q.op, "IDENTITY", t, 0, IdentityBonus)
    BY DEF IdentityClaims
  <2>2. t \in Nat /\ "IDENTITY" \in LedgerTypes
    BY HabitRewardsAssumption DEF LedgerTypes
  <2> QED
    BY <1>0, <2>1, <2>2, Prices DEF Entry, EntryRows
<1> QED
  BY <1>1, <1>2, <1>3 DEF Awards

-----------------------------------------------------------------------------
(* One lemma per handler.                                                   *)

(* A completion begins.                                                     *)
LEMMA BeginType ==
    ASSUME TypeInv, NEW r \in Requests, NEW d \in Days, NEW ask \in Asks,
           Begin(r, d, ask)
    PROVE  TypeInv'
<1> DEFINE q == [Idle EXCEPT !.pc = "read", !.op = ops + 1, !.day = d,
                             !.ask = ask, !.existing = completion[d]]
<1>1. q \in Request
  <2>1. completion[d] \in Row \cup {NoRow} /\ ops + 1 \in Nat
    BY Before DEF TablesOK
  <2> QED
    BY <2>1, IdleType DEF Request, Stages
<1>2. Sound(q)
  <2>1. q.pc = "read" /\ q.day = d
    BY IdleType DEF Request
  <2> HIDE DEF q
  <2> QED
    BY <2>1 DEF Sound
<1>3. req' = [req EXCEPT ![r] = q] /\ ops' = ops + 1 /\ UNCHANGED tables
  BY DEF Begin
<1> HIDE DEF q
<1> QED
  BY <1>1, <1>2, <1>3, Replaced, TablesKept, Counted

(* The row of the day is written over.                                      *)
LEMMA WriteExistingType ==
    ASSUME TypeInv, NEW r \in Requests, WriteExisting(r)
    PROVE  TypeInv'
<1> DEFINE q == req[r]
           next == IF q.ask.plain THEN NoRow
                   ELSE [id |-> q.existing.id, status |-> IsCompleted(q.ask),
                         kind |-> q.ask.kind]
           q2 == [q EXCEPT !.pc = "wrote", !.row = next]
<1>1. CASE Fail(r)
  BY <1>1, FailKeeps
<1>2. CASE /\ req' = [req EXCEPT ![r].pc = "wrote", ![r].row = next]
           /\ UNCHANGED <<tables, ops>>
  <2>1. /\ q.pc = "read" /\ q.existing # NoRow /\ q.existing \in Row
        /\ IsCompleted(q.ask) \in BOOLEAN /\ q.ask \in Asks
    BY Before DEF Request, IsCompleted, WriteExisting
  <2>2. next \in Row \cup {NoRow} /\ (~q.ask.plain => next # NoRow)
    <3>1. CASE q.ask.plain
      BY <3>1
    <3>2. CASE ~q.ask.plain
      <4> DEFINE new == [id |-> q.existing.id, status |-> IsCompleted(q.ask),
                         kind |-> q.ask.kind]
      <4>1. q.existing.id \in Nat /\ q.ask.kind \in Kinds
        BY <2>1, HabitRewardsAssumption DEF Row, Asks
      <4>2. new \in Row
        BY <2>1, <4>1 DEF Row
      <4>3. new # NoRow
        BY <4>2, HabitRewardsAssumption DEF Row
      <4>4. next = new
        BY <3>2
      <4> HIDE DEF new, next
      <4> QED
        BY <4>2, <4>3, <4>4
    <3> QED
      BY <3>1, <3>2
  <2> HIDE DEF next
  <2>3. q2 \in Request
    <3>1. q \in Request /\ "wrote" \in Stages
      BY Before DEF Stages
    <3> QED
      BY <2>2, <3>1 DEF Request
  <2>4. Sound(q2)
    <3>1. /\ q2.pc = "wrote" /\ q2.row = next /\ q2.existing = q.existing
          /\ q2.day = q.day /\ q2.ask = q.ask /\ q.day \in Days
      BY <2>1, Before DEF Request, Sound
    <3> HIDE DEF q2
    <3> QED
      BY <2>1, <2>2, <3>1 DEF Sound, Removing
  <2>5. req' = [req EXCEPT ![r] = q2]
    BY <1>2
  <2> QED
    BY <1>2, <2>3, <2>4, <2>5, Replaced, TablesKept, Before
<1> QED
  BY <1>1, <1>2 DEF WriteExisting

(* The row of the day is created.                                           *)
LEMMA CreateRowType ==
    ASSUME TypeInv, NEW r \in Requests, CreateRow(r)
    PROVE  TypeInv'
<1> DEFINE q == req[r]
           new == [id |-> q.op, status |-> IsCompleted(q.ask),
                   kind |-> q.ask.kind]
           q2 == [q EXCEPT !.pc = "wrote", !.row = new]
<1>1. new \in Row /\ new # NoRow
  <2>1. IsCompleted(q.ask) \in BOOLEAN /\ q.op \in Nat
    BY Before DEF Request, IsCompleted
  <2> QED
    BY <2>1, Before, HabitRewardsAssumption DEF Row
<1>2. q.pc = "read" /\ req' = [req EXCEPT ![r] = q2] /\ UNCHANGED <<tables, ops>>
  BY DEF CreateRow
<1> HIDE DEF new
<1>3. q2 \in Request
  <2>1. q \in Request /\ "wrote" \in Stages
    BY Before DEF Stages
  <2> QED
    BY <1>1, <2>1 DEF Request
<1>4. Sound(q2)
  BY <1>1, <1>2, Before DEF Request, Sound
<1> QED
  BY <1>2, <1>3, <1>4, Replaced, TablesKept, Before

(* The row of the day was created by another request.                       *)
LEMMA CreateConflictType ==
    ASSUME TypeInv, NEW r \in Requests, CreateConflict(r)
    PROVE  TypeInv'
<1> DEFINE q == req[r]
           raced == completion[q.day]
           q2 == [q EXCEPT !.pc = IF raced.status THEN "post" ELSE "wrote",
                           !.row = raced, !.adopted = TRUE]
<1>1. CASE Fail(r)
  BY <1>1, FailKeeps
<1>2. CASE /\ habit # "gone" /\ req' = [req EXCEPT ![r] = q2]
           /\ UNCHANGED <<tables, ops>>
  <2>1. q.pc = "read" /\ q.day \in Days /\ raced # NoRow
    BY <1>2, Before DEF CreateConflict, Sound
  <2>2. raced \in Row
    BY <2>1, Before DEF TablesOK
  <2> HIDE DEF raced
  <2>3. q2 \in Request
    <3>1. q \in Request /\ {"post", "wrote"} \subseteq Stages
      BY Before DEF Stages
    <3> QED
      BY <2>2, <3>1 DEF Request
  <2>4. Sound(q2)
    BY <2>1, <2>2, Before DEF Request, Sound
  <2> QED
    BY <1>2, <2>3, <2>4, Replaced, TablesKept, Before
<1> QED
  BY <1>1, <1>2 DEF CreateConflict

(* The user is read before the settlement.                                  *)
LEMMA ReadUserType ==
    ASSUME TypeInv, NEW r \in Requests, ReadUser(r)
    PROVE  TypeInv'
<1> DEFINE q == req[r]
           q2 == [q EXCEPT !.pc = "user", !.xp = user.xp, !.level = user.level]
<1>1. q.pc = "wrote" /\ req' = [req EXCEPT ![r] = q2] /\ UNCHANGED <<tables, ops>>
  BY DEF ReadUser
<1>2. q2 \in Request
  <2>1. q \in Request /\ "user" \in Stages /\ user \in [xp : Nat, level : Nat \ {0}]
    BY Before DEF Stages, TablesOK
  <2> QED
    BY <2>1 DEF Request
<1>3. Sound(q2)
  BY <1>1, Before DEF Request, Sound, Removing
<1> QED
  BY <1>1, <1>2, <1>3, Replaced, TablesKept, Before

(* A request ends after its commit, with or without its events.             *)
LEMMA AnnounceType ==
    ASSUME TypeInv, NEW r \in Requests, Announce(r) \/ Abandon(r)
    PROVE  TypeInv'
  BY FailKeeps DEF Announce, Abandon, Fail

(* The settlement writes user, ledger and history.                          *)
LEMMA SettleType ==
    ASSUME TypeInv, NEW r \in Requests, Settle(r)
    PROVE  TypeInv'
<1> DEFINE q == req[r]
           rows == View(q)
           undone == Undone(q)
           paid == Paid(q)
           changed == (completion # rows)
           q2 == [q EXCEPT !.pc = "post", !.changed = changed]
<1>0. q.pc \in {"wrote", "user"} /\ q.day \in Days
  BY Before DEF Settle, ReadyToSettle, Sound
<1>1. rows \in [Days -> Row \cup {NoRow}]
  BY RowsSeen DEF TypeInv
<1>2. \A e \in paid : e \in EntryRows
  <2>1. ASSUME Pays(q) PROVE q.row # NoRow
    BY <1>0, <2>1, Before DEF Sound, Pays, Earning, Swapping
  <2> QED
    BY <1>1, <2>1, AwardTypes DEF TypeInv, Paid
<1>3. \A e \in undone : e \in EntryRows
  <2>1. \A e \in ToReverse(rows, q) : e \in ledger
    BY DEF ToReverse, LatestBase, BaseAwards, BrokenStreaks
  <2> QED
    BY <2>1, Before DEF TablesOK, Undone
<1>4. TablesOK'
  <2>1. completion' \in [Days -> Row \cup {NoRow}]
    BY <1>1 DEF Settle
  <2>2. \A e \in ledger' : e \in EntryRows
    BY <1>2, Before DEF Settle, TablesOK
  <2>3. \A v \in reversals' : v.op \in Nat /\ v.of \in EntryRows
    <3>1. \A v \in Reversal(q, undone) : v.op \in Nat /\ v.of \in EntryRows
      BY <1>3, Before DEF Reversal, Request
    <3> QED
      BY <3>1, Before DEF Settle, TablesOK
  <2>4. user' \in [xp : Nat, level : Nat \ {0}]
    BY ExperienceType, Before DEF Settle, TablesOK, TypeInv
  <2>5. allocations' \subseteq Nat
    <3>1. ASSUME Removing(q) \/ AllocationDue(q)
          PROVE  allocations' \subseteq Nat
      <4>1. CASE Removing(q)
        BY <4>1, Before DEF Settle, TablesOK, AllocationsAfter
      <4>2. CASE ~Removing(q) /\ AllocationDue(q)
        <5>1. q.row \in Row
          BY <4>2, <1>0, Before DEF Sound, Request
        <5>2. q.row.id \in Nat
          BY <5>1 DEF Row
        <5> QED
          BY <4>2, <5>2, Before DEF Settle, TablesOK, AllocationsAfter
      <4> QED
        BY <3>1, <4>1, <4>2
    <3> QED
      BY <3>1, Before DEF Settle, TablesOK, AllocationsAfter
  <2>6. bundle' \in {"LOCKED", "UNLOCKED"}
    BY Before DEF Settle, TablesOK
  <2> QED
    BY <2>1, <2>2, <2>3, <2>4, <2>5, <2>6, Before DEF Settle, TablesOK
<1>5. q2 \in Request
  <2>1. changed \in BOOLEAN
    OBVIOUS
  <2> HIDE DEF changed
  <2>2. q \in Request /\ "post" \in Stages
    BY Before DEF Stages
  <2> QED
    BY <2>1, <2>2 DEF Request
<1>6. Sound(q2)
  <2>1. q2.pc = "post" /\ q2.day = q.day
    BY Before DEF Request
  <2> HIDE DEF q2
  <2> QED
    BY <2>1, <1>0 DEF Sound
<1>7. req' = [req EXCEPT ![r] = q2] /\ ops' = ops
  BY DEF Settle
<1> HIDE DEF q2
<1> QED
  BY <1>4, <1>5, <1>6, <1>7, Replaced, Before

(* The settlement finds a bonus already granted.                            *)
LEMMA SettleConflictType ==
    ASSUME TypeInv, NEW r \in Requests, SettleConflict(r)
    PROVE  TypeInv'
<1> DEFINE q == req[r]
           q2 == [q EXCEPT !.pc = "post"]
<1>1. CASE Fail(r)
  BY <1>1, FailKeeps
<1>2. CASE req' = [req EXCEPT ![r] = q2] /\ UNCHANGED <<tables, ops>>
  <2>1. q2 \in Request
    <3>1. q \in Request /\ "post" \in Stages
      BY Before DEF Stages
    <3> QED
      BY <3>1 DEF Request
  <2>2. Sound(q2)
    BY Before DEF Request, Sound, SettleConflict, ReadyToSettle
  <2> QED
    BY <1>2, <2>1, <2>2, Replaced, TablesKept, Before
<1> QED
  BY <1>1, <1>2 DEF SettleConflict

(* A freeze begins.                                                         *)
LEMMA FreezeCheckType ==
    ASSUME TypeInv, NEW r \in Requests, NEW d \in Days, FreezeCheck(r, d)
    PROVE  TypeInv'
<1> DEFINE q == [Idle EXCEPT !.pc = "freeze", !.op = ops + 1, !.day = d]
<1>1. q \in Request
  BY Counted, IdleType DEF Request, Stages
<1>2. Sound(q)
  BY IdleType DEF Request, Sound
<1>3. req' = [req EXCEPT ![r] = q] /\ ops' = ops + 1 /\ UNCHANGED tables
  BY DEF FreezeCheck
<1> HIDE DEF q
<1> QED
  BY <1>1, <1>2, <1>3, Replaced, TablesKept, Counted

(* A redemption begins.                                                     *)
LEMMA RedeemCheckType ==
    ASSUME TypeInv, NEW r \in Requests, NEW i \in Items, RedeemCheck(r, i)
    PROVE  TypeInv'
<1> DEFINE q == [Idle EXCEPT !.pc = "redeem", !.op = ops + 1, !.seen = i]
<1>1. q \in Request
  BY Counted, IdleType, HabitRewardsAssumption DEF Request, Stages
<1>2. Sound(q)
  BY IdleType DEF Request, Sound
<1>3. req' = [req EXCEPT ![r] = q] /\ ops' = ops + 1 /\ UNCHANGED tables
  BY DEF RedeemCheck
<1> HIDE DEF q
<1> QED
  BY <1>1, <1>2, <1>3, Replaced, TablesKept, Counted

(* A purchase writes one debit row.                                         *)
LEMMA DebitType ==
    ASSUME NEW op \in Nat, NEW type \in {"FREEZE", "REDEMPTION"},
           NEW a \in Nat, NEW cost \in Nat \ {0}
    PROVE  /\ Entry(op, type, a, 0, -cost) \in EntryRows
           /\ Entry(op, type, a, 0, -cost).amount < 0
  BY DEF Entry, EntryRows, LedgerTypes

(* A freeze is paid and granted.                                            *)
LEMMA FreezeSettleType ==
    ASSUME TypeInv, NEW r \in Requests, FreezeSettle(r)
    PROVE  TypeInv'
<1> DEFINE q == req[r]
           e == Entry(q.op, "FREEZE", q.day, 0, -FreezeCost)
<1>1. CASE Fail(r)
  BY <1>1, FailKeeps
<1>2. CASE /\ ledger' = ledger \cup {e} /\ frozen' = frozen \cup {q.day}
           /\ Done(r)
           /\ UNCHANGED <<habit, completion, reversals, user, owned,
                          allocations, bundle, ops>>
  <2>1. q.day \in Days /\ q.day \in Nat /\ q.op \in Nat
    BY Before, HabitRewardsAssumption DEF FreezeSettle, Sound, Request, Days
  <2>2. e \in EntryRows
    BY <2>1, DebitType, HabitRewardsAssumption
  <2>3. TablesOK'
    BY <1>2, <2>1, <2>2, Before DEF TablesOK
  <2> QED
    BY <1>2, <2>3, IdleType, IdleSound, Replaced, Before DEF Done
<1> QED
  BY <1>1, <1>2 DEF FreezeSettle

(* A redemption is paid.                                                    *)
LEMMA RedeemSettleType ==
    ASSUME TypeInv, NEW r \in Requests, RedeemSettle(r)
    PROVE  TypeInv'
<1> DEFINE q == req[r]
           e == Entry(q.op, "REDEMPTION", q.seen, 0, -ItemCost[q.seen])
<1>1. CASE Fail(r)
  BY <1>1, FailKeeps
<1>2. CASE /\ ledger' = ledger \cup {e} /\ owned' = owned \cup {q.seen}
           /\ Done(r)
           /\ UNCHANGED <<habit, completion, reversals, user, frozen,
                          allocations, bundle, ops>>
  <2>1. q.seen \in Items /\ q.seen \in Nat /\ q.op \in Nat
    BY Before, HabitRewardsAssumption DEF RedeemSettle, Sound, Request
  <2>2. e \in EntryRows
    BY <2>1, DebitType, HabitRewardsAssumption
  <2>3. TablesOK'
    BY <1>2, <2>1, <2>2, Before DEF TablesOK
  <2> QED
    BY <1>2, <2>3, IdleType, IdleSound, Replaced, Before DEF Done
<1> QED
  BY <1>1, <1>2 DEF RedeemSettle

(* A removal counts the completions.                                        *)
LEMMA DeleteCountType ==
    ASSUME TypeInv, NEW r \in Requests, DeleteCount(r)
    PROVE  TypeInv'
<1> DEFINE n == Cardinality({d \in Days : completion[d] # NoRow})
           m == n + IF Linked THEN 1 ELSE 0
           q == [Idle EXCEPT !.pc = "delete", !.op = ops + 1, !.seen = m]
<1>1. m \in Nat
  <2>1. IsFiniteSet({d \in Days : completion[d] # NoRow})
    <3>1. IsFiniteSet(Days)
      BY FS_Interval, HabitRewardsAssumption DEF Days
    <3>2. {d \in Days : completion[d] # NoRow} \subseteq Days
      OBVIOUS
    <3> QED
      BY <3>1, <3>2, FS_Subset
  <2>2. n \in Nat
    BY <2>1, FS_CardinalityType
  <2> QED
    BY <2>2
<1>2. req' = [req EXCEPT ![r] = q] /\ ops' = ops + 1 /\ UNCHANGED tables
  BY DEF DeleteCount
<1> HIDE DEF m
<1>3. q \in Request
  BY <1>1, Counted, IdleType DEF Request, Stages
<1>4. Sound(q)
  BY IdleType DEF Request, Sound
<1> HIDE DEF q
<1> QED
  BY <1>2, <1>3, <1>4, Replaced, TablesKept, Counted

(* A habit is archived or deleted.                                          *)
LEMMA RemoveType ==
    ASSUME TypeInv, NEW r \in Requests, ArchiveHabit(r) \/ DeleteHabit(r)
    PROVE  TypeInv'
<1>1. TablesOK'
  BY Before DEF ArchiveHabit, DeleteHabit, TablesOK
<1> QED
  BY <1>1, IdleType, IdleSound, Replaced, Before
     DEF ArchiveHabit, DeleteHabit, Done

(* Every step keeps the types.                                              *)
LEMMA TypeStep == TypeInv /\ [Next]_vars => TypeInv'
<1> SUFFICES ASSUME TypeInv, [Next]_vars PROVE TypeInv'
  OBVIOUS
<1>1. ASSUME NEW r \in Requests, Toggle(r) PROVE TypeInv'
  BY <1>1, BeginType, WriteExistingType, CreateRowType, CreateConflictType,
     ReadUserType, SettleType, SettleConflictType, AnnounceType DEF Toggle
<1>2. ASSUME NEW r \in Requests, Purchase(r) PROVE TypeInv'
  BY <1>2, FreezeCheckType, FreezeSettleType, RedeemCheckType,
     RedeemSettleType DEF Purchase
<1>3. ASSUME NEW r \in Requests, Remove(r) PROVE TypeInv'
  BY <1>3, DeleteCountType, RemoveType DEF Remove
<1>4. CASE UNCHANGED vars
  BY <1>4, TablesKept DEF TypeInv, TypeOK, SoundRequests, vars
<1> QED
  BY <1>1, <1>2, <1>3, <1>4, AnnounceType DEF Next

(* Every reachable state has well-typed tables and request records.         *)
THEOREM TypeCorrect == Spec => []TypeOK
<1>1. TypeInv => TypeOK
  BY DEF TypeInv
<1> QED
  BY <1>1, InitType, TypeStep, PTL DEF Spec

-----------------------------------------------------------------------------
DebitTypes == {"FREEZE", "REDEMPTION"}

(* The sign of a row follows from its type: only awards and bonuses are     *)
(* positive, so only they can be reversed.                                  *)
SignedByType ==
    \A e \in ledger : IF e.type \in DebitTypes THEN e.amount < 0 ELSE e.amount > 0

(* The rows a request is about to write are not in the ledger: operations   *)
(* are numbered, no two open requests share a number, and a request whose   *)
(* transaction is still open has written nothing under its own.             *)
Underway(q) == q.pc \notin {"idle", "post"}
FreshOps ==
    /\ \A e \in ledger : e.op <= ops
    /\ \A r \in Requests : req[r].op <= ops
    /\ \A r \in Requests : Underway(req[r]) =>
          /\ \A e \in ledger : e.op # req[r].op
          /\ \A s \in Requests \ {r} : Underway(req[s]) => req[s].op # req[r].op

(* The step keeps the numbers apart: a new row bears the number of a request *)
(* that was open, and an open request has the one it had or the next.       *)
Numbered ==
    /\ FreshOps'
    /\ \/ ops' = ops
       \/ ops' = ops + 1
    /\ \A e \in ledger' : \/ e \in ledger
                          \/ \E r \in Requests : Underway(req[r]) /\ e.op = req[r].op
    /\ \A r \in Requests : Underway(req'[r]) =>
          \/ Underway(req[r]) /\ req'[r].op = req[r].op
          \/ req'[r].op = ops + 1 /\ ops' = ops + 1

LedgerInv ==
    TypeInv /\ FreshOps /\ SignedByType /\ ReversedOnce /\ BonusOncePerKey
            /\ ChargedOnce

-----------------------------------------------------------------------------
(* The rows one Settle writes and reverses.                                 *)

(* What a settlement pays are its own entries that add coins.               *)
LEMMA PaidRows ==
    ASSUME TypeInv, NEW r \in Requests, req[r].pc \in {"wrote", "user"}
    PROVE  \A e \in Paid(req[r]) :
             /\ e \in EntryRows /\ e.amount > 0 /\ e.op = req[r].op
             /\ e.type \notin DebitTypes
<1> DEFINE q == req[r]
<1> SUFFICES ASSUME Pays(q), NEW e \in Awards(View(q), q)
             PROVE  /\ e \in EntryRows /\ e.amount > 0 /\ e.op = q.op
                    /\ e.type \notin DebitTypes
  BY DEF Paid
<1>1. q.row # NoRow
  BY Before DEF Sound, Pays, Earning, Swapping
<1>2. e \in EntryRows /\ e.amount > 0
  BY <1>1, AwardTypes, RowsSeen DEF TypeInv
<1>3. e.op = q.op
  BY DEF Awards, StreakClaims, IdentityClaims, Entry
<1>4. e.type \in {q.ask.kind, "STREAK", "IDENTITY"}
  BY DEF Awards, StreakClaims, IdentityClaims, Entry
<1>5. q.ask.kind \in {"FULL", "MINIMUM", "EMERGENCY"}
  BY Before, HabitRewardsAssumption
<1> QED
  BY <1>2, <1>3, <1>4, <1>5 DEF DebitTypes

(* What a settlement undoes are entries not reversed before.                *)
LEMMA UndoneRows ==
    ASSUME LedgerInv, NEW r \in Requests
    PROVE  \A e \in Undone(req[r]) :
             e \in ledger /\ e \notin ReversedRows /\ e.amount > 0
<1> DEFINE q == req[r]
<1> SUFFICES ASSUME Reverses(q), NEW e \in ToReverse(View(q), q) \ ReversedRows
             PROVE  e \in ledger /\ e.amount > 0
  BY DEF Undone
<1>1. CASE e \in LatestBase(q)
  <2>1. e \in ledger /\ e.type = q.existing.kind
    BY <1>1 DEF LatestBase, BaseAwards
  <2>2. q.existing \in Row
    <3>1. q.existing # NoRow
      BY DEF Reverses, Losing, Swapping, KindChanged, PriorAward
    <3> QED
      BY <3>1, Before DEF LedgerInv, Request
  <2>3. q.existing.kind \in {"FULL", "MINIMUM", "EMERGENCY"}
    BY <2>2, HabitRewardsAssumption DEF Row
  <2> QED
    BY <2>1, <2>3 DEF LedgerInv, SignedByType, DebitTypes
<1>2. CASE e \in BrokenStreaks(View(q))
  BY <1>2 DEF BrokenStreaks, LedgerInv, SignedByType, DebitTypes
<1> QED
  BY <1>1, <1>2 DEF ToReverse

(* A settlement pays with entries nobody has written yet.                   *)
LEMMA PaidIsNew ==
    ASSUME LedgerInv, NEW r \in Requests, req[r].pc \in {"wrote", "user"}
    PROVE  Paid(req[r]) \cap ledger = {}
  BY PaidRows DEF LedgerInv, FreshOps, Underway

-----------------------------------------------------------------------------
(* The parts of the invariant that Settle can disturb.                      *)

(* A settlement reverses no entry a second time.                            *)
LEMMA SettleReversedOnce ==
    ASSUME LedgerInv, NEW r \in Requests, Settle(r)
    PROVE  ReversedOnce'
<1> DEFINE q == req[r]
<1>1. /\ ledger' = ledger \cup Paid(q)
      /\ reversals' = reversals \cup Reversal(q, Undone(q))
  BY DEF Settle
<1>2. \A v \in Reversal(q, Undone(q)) :
         v.op = q.op /\ v.of \in Undone(q) /\ v = [op |-> q.op, of |-> v.of]
  BY DEF Reversal
<1>3. \A v \in Reversal(q, Undone(q)) :
         v.of \in ledger /\ v.of.amount > 0 /\ v.of \notin ReversedRows
  BY <1>2, UndoneRows
<1>4. \A v, w \in Reversal(q, Undone(q)) : v.of = w.of => v = w
  BY <1>2
<1>5. \A v \in reversals : v.of \in ReversedRows
  BY DEF ReversedRows
<1>6. \A v \in reversals' : v.of \in ledger' /\ v.of.amount > 0
  BY <1>1, <1>3 DEF LedgerInv, ReversedOnce
<1>7. \A v, w \in reversals' : v.of = w.of => v = w
  BY <1>1, <1>3, <1>4, <1>5 DEF LedgerInv, ReversedOnce
<1> QED
  BY <1>6, <1>7 DEF ReversedOnce

(* A settlement grants no bonus a second time.                              *)
LEMMA SettleBonusOnce ==
    ASSUME LedgerInv, NEW r \in Requests, Settle(r)
    PROVE  BonusOncePerKey'
<1> DEFINE q == req[r]
           rows == View(q)
           S == {"STREAK", "IDENTITY"}
<1>0. q.ask.kind \notin S
  BY Before, HabitRewardsAssumption DEF LedgerInv
<1>1. ASSUME NEW e \in Paid(q), e.type \in S
      PROVE  /\ e.type = "STREAK" => e \in StreakClaims(rows, q)
             /\ e.type = "IDENTITY" => e \in IdentityClaims(rows, q)
  <2>1. e \in Awards(rows, q)
    BY <1>1 DEF Paid
  <2>2. \A x \in StreakClaims(rows, q) : x.type = "STREAK"
    BY DEF StreakClaims, Entry
  <2>3. \A x \in IdentityClaims(rows, q) : x.type = "IDENTITY"
    BY DEF IdentityClaims, Entry
  <2>4. e \in StreakClaims(rows, q) \cup IdentityClaims(rows, q)
    BY <1>0, <1>1, <2>1 DEF Awards, Entry
  <2> QED
    BY <1>1, <2>2, <2>3, <2>4
<1>2. ASSUME NEW e \in StreakClaims(rows, q)
      PROVE  /\ e = Entry(q.op, "STREAK", e.ref[1], e.ref[2], StreakBonus[e.ref[1]])
             /\ \A f \in ledger : f.type = "STREAK" => f.ref # e.ref
  <2>1. PICK k \in NewMilestones(rows, q.day) :
            e = Entry(q.op, "STREAK", k[1], k[2], StreakBonus[k[1]])
    BY DEF StreakClaims
  <2>2. e.ref = <<k[1], k[2]>> /\ k \in Milestones \X Days /\ k \notin StreakKeys
    BY <2>1 DEF Entry, NewMilestones
  <2>3. k = <<k[1], k[2]>>
    BY <2>2
  <2> QED
    BY <2>1, <2>2, <2>3 DEF StreakKeys
<1>3. ASSUME NEW e \in IdentityClaims(rows, q)
      PROVE  /\ e = Entry(q.op, "IDENTITY", e.ref[1], 0, IdentityBonus)
             /\ e.ref = <<e.ref[1], 0>>
             /\ \A f \in ledger : f.type = "IDENTITY" => f.ref[1] # e.ref[1]
  BY DEF IdentityClaims, Entry
<1>4. ASSUME NEW e \in Paid(q), NEW f \in Paid(q), e.type \in S,
             e.type = f.type, e.ref = f.ref
      PROVE  e = f
  BY <1>1, <1>2, <1>3, <1>4
<1>5. ASSUME NEW e \in Paid(q), NEW f \in ledger, e.type \in S, e.type = f.type
      PROVE  e.ref # f.ref
  BY <1>1, <1>2, <1>3, <1>5
<1>6. ledger' = ledger \cup Paid(q)
  BY DEF Settle
<1>7. ASSUME NEW e \in ledger', NEW f \in ledger', e.type \in S,
             e.type = f.type, e.ref = f.ref
      PROVE  e = f
  BY <1>4, <1>5, <1>6, <1>7 DEF LedgerInv, BonusOncePerKey
<1> QED
  BY <1>7 DEF BonusOncePerKey

(* A settlement charges nothing.                                            *)
LEMMA SettleCharges ==
    ASSUME LedgerInv, NEW r \in Requests, Settle(r)
    PROVE  ChargedOnce'
<1>1. \A e \in Paid(req[r]) : e.type \notin DebitTypes
  BY PaidRows DEF LedgerInv, Settle, ReadyToSettle
<1>2. ledger' = ledger \cup Paid(req[r]) /\ UNCHANGED <<habit, frozen, owned>>
  BY DEF Settle
<1> QED
  BY <1>1, <1>2 DEF LedgerInv, ChargedOnce, DebitTypes

-----------------------------------------------------------------------------
(* Freshness: a step replaces the record of one request.  It starts a new   *)
(* operation, or goes on with the one it has.                               *)

(* A request that goes on, or writes at its end, keeps its number its own.  *)
LEMMA FreshKept ==
    ASSUME LedgerInv, NEW r \in Requests,
           \A s \in Requests \ {r} : req'[s] = req[s],
           Underway(req'[r]) => Underway(req[r]) /\ req'[r].op = req[r].op,
           req'[r].op <= ops, ops' = ops,
           \A e \in ledger' : \/ e \in ledger
                              \/ /\ e.op = req[r].op
                                 /\ Underway(req[r]) /\ ~Underway(req'[r])
    PROVE  Numbered
<1>1. \A e \in ledger' : e.op <= ops
  BY DEF LedgerInv, FreshOps
<1>2. \A s \in Requests : req'[s].op <= ops
  BY DEF LedgerInv, FreshOps
<1>3. ASSUME NEW s \in Requests, Underway(req'[s])
      PROVE  /\ \A e \in ledger' : e.op # req'[s].op
             /\ \A t \in Requests \ {s} : Underway(req'[t]) => req'[t].op # req'[s].op
  <2>1. Underway(req[s]) /\ req'[s].op = req[s].op
    BY <1>3
  <2>2. \A e \in ledger' : e.op # req[s].op
    BY <1>3, <2>1 DEF LedgerInv, FreshOps
  <2>3. \A t \in Requests \ {s} :
           Underway(req'[t]) => Underway(req[t]) /\ req'[t].op = req[t].op
    OBVIOUS
  <2> QED
    BY <2>1, <2>2, <2>3 DEF LedgerInv, FreshOps
<1>4. FreshOps'
  BY <1>1, <1>2, <1>3 DEF FreshOps, Underway
<1> QED
  BY <1>4 DEF Numbered

(* A request that begins has a number nobody has used.                      *)
LEMMA FreshStarted ==
    ASSUME LedgerInv, NEW r \in Requests,
           \A s \in Requests \ {r} : req'[s] = req[s],
           req'[r].op = ops + 1, ops' = ops + 1, ledger' = ledger
    PROVE  Numbered
<1>1. ops \in Nat /\ \A s \in Requests : req[s].op \in Nat
  BY Before DEF LedgerInv, Request
<1>2. \A e \in ledger : e.op \in Nat
  BY Before DEF LedgerInv, TablesOK, EntryRows
<1>3. /\ \A e \in ledger : e.op <= ops /\ e.op # ops + 1
      /\ \A s \in Requests : req[s].op <= ops /\ req[s].op # ops + 1
  BY <1>1, <1>2 DEF LedgerInv, FreshOps
<1>4. /\ \A e \in ledger' : e.op <= ops + 1
      /\ \A s \in Requests : req'[s].op <= ops + 1
  BY <1>1, <1>2, <1>3
<1>5. ASSUME NEW s \in Requests, Underway(req'[s])
      PROVE  /\ \A e \in ledger' : e.op # req'[s].op
             /\ \A t \in Requests \ {s} : Underway(req'[t]) => req'[t].op # req'[s].op
  BY <1>3, <1>5 DEF LedgerInv, FreshOps
<1>6. FreshOps'
  BY <1>4, <1>5 DEF FreshOps, Underway
<1>7. \A s \in Requests : Underway(req'[s]) =>
         \/ Underway(req[s]) /\ req'[s].op = req[s].op
         \/ req'[s].op = ops + 1 /\ ops' = ops + 1
  OBVIOUS
<1> QED
  BY <1>6, <1>7 DEF Numbered

(* The operations that begin a request.                                     *)
LEMMA StartsFresh ==
    ASSUME LedgerInv, NEW r \in Requests,
           \/ \E d \in Days, ask \in Asks : Begin(r, d, ask)
           \/ \E d \in Days : FreezeCheck(r, d)
           \/ \E i \in Items : RedeemCheck(r, i)
           \/ DeleteCount(r)
    PROVE  Numbered /\ UNCHANGED tables
<1>1. /\ \A s \in Requests \ {r} : req'[s] = req[s]
      /\ req'[r].op = ops + 1 /\ ops' = ops + 1 /\ UNCHANGED tables
  <2>0. req \in [Requests -> Request]
    BY DEF LedgerInv, TypeInv, TypeOK
  <2>1. ASSUME NEW d \in Days, NEW ask \in Asks, Begin(r, d, ask)
        PROVE  /\ \A s \in Requests \ {r} : req'[s] = req[s]
               /\ req'[r].op = ops + 1 /\ ops' = ops + 1 /\ UNCHANGED tables
    BY <2>0, <2>1, IdleType DEF Begin, Request
  <2>2. ASSUME NEW d \in Days, FreezeCheck(r, d)
        PROVE  /\ \A s \in Requests \ {r} : req'[s] = req[s]
               /\ req'[r].op = ops + 1 /\ ops' = ops + 1 /\ UNCHANGED tables
    BY <2>0, <2>2, IdleType DEF FreezeCheck, Request
  <2>3. ASSUME NEW i \in Items, RedeemCheck(r, i)
        PROVE  /\ \A s \in Requests \ {r} : req'[s] = req[s]
               /\ req'[r].op = ops + 1 /\ ops' = ops + 1 /\ UNCHANGED tables
    BY <2>0, <2>3, IdleType DEF RedeemCheck, Request
  <2>4. ASSUME DeleteCount(r)
        PROVE  /\ \A s \in Requests \ {r} : req'[s] = req[s]
               /\ req'[r].op = ops + 1 /\ ops' = ops + 1 /\ UNCHANGED tables
    BY <2>0, <2>4, IdleType DEF DeleteCount, Request
  <2> QED
    BY <2>1, <2>2, <2>3, <2>4
<1> QED
  BY <1>1, FreshStarted DEF tables

(* A request that ends has written only under its own number.               *)
LEMMA DoneFresh ==
    ASSUME LedgerInv, NEW r \in Requests, Done(r), ops' = ops,
           \A e \in ledger' : e \in ledger \/ (e.op = req[r].op /\ Underway(req[r]))
    PROVE  Numbered
<1>1. /\ \A s \in Requests \ {r} : req'[s] = req[s]
      /\ ~Underway(req'[r]) /\ req'[r].op = 0
  BY DEF LedgerInv, TypeInv, TypeOK, Done, Underway, Idle
<1>2. 0 <= ops
  BY DEF LedgerInv, TypeInv, TypeOK
<1> QED
  BY <1>1, <1>2, FreshKept

(* The steps of a request before and after its settlement.                  *)
LEMMA GoesOnFresh ==
    ASSUME LedgerInv, NEW r \in Requests,
           \/ WriteExisting(r) \/ CreateRow(r) \/ CreateConflict(r)
           \/ ReadUser(r) \/ SettleConflict(r) \/ Announce(r) \/ Abandon(r)
    PROVE  Numbered /\ UNCHANGED tables
<1>1. ops' = ops /\ UNCHANGED tables
  BY DEF WriteExisting, CreateRow, CreateConflict, ReadUser, SettleConflict,
         Announce, Abandon, Fail
<1>2. CASE Done(r)
  BY <1>1, <1>2, DoneFresh DEF tables
<1>3. CASE ~Done(r)
  <2>1. \A s \in Requests \ {r} : req'[s] = req[s]
    BY <1>3 DEF LedgerInv, TypeInv, TypeOK, WriteExisting, CreateRow, CreateConflict,
           ReadUser, SettleConflict, Announce, Abandon, Fail
  <2>2. req'[r].op = req[r].op
    BY <1>3 DEF LedgerInv, TypeInv, TypeOK, Request, WriteExisting, CreateRow,
           CreateConflict, ReadUser, SettleConflict, Announce, Abandon, Fail
  <2>3. Underway(req[r])
    BY <1>3 DEF Underway, WriteExisting, CreateRow, CreateConflict, ReadUser,
           SettleConflict, ReadyToSettle, Announce, Abandon, Fail
  <2> QED
    BY <1>1, <2>1, <2>2, <2>3, FreshKept DEF tables, LedgerInv, FreshOps
<1> QED
  BY <1>2, <1>3

(* A settlement keeps the numbers apart.                                    *)
LEMMA SettleFresh ==
    ASSUME LedgerInv, NEW r \in Requests, Settle(r)
    PROVE  Numbered
<1>1. req[r].pc \in {"wrote", "user"}
  BY DEF Settle, ReadyToSettle
<1>2. /\ \A s \in Requests \ {r} : req'[s] = req[s]
      /\ req'[r].pc = "post" /\ req'[r].op = req[r].op
  BY DEF Settle, LedgerInv, TypeInv, TypeOK, Request
<1>3. Underway(req[r]) /\ ~Underway(req'[r])
  BY <1>1, <1>2 DEF Underway
<1>4. \A e \in ledger' : e \in ledger \/ e.op = req[r].op
  BY <1>1, PaidRows DEF Settle, LedgerInv
<1>5. ops' = ops /\ req'[r].op <= ops
  BY <1>2 DEF Settle, LedgerInv, FreshOps
<1> QED
  BY <1>2, <1>3, <1>4, <1>5, FreshKept

-----------------------------------------------------------------------------
(* The invariant, action by action.                                         *)

Rules == SignedByType /\ ReversedOnce /\ BonusOncePerKey /\ ChargedOnce

(* Steps that write no ledger row keep the rules; the habit may only go.    *)
LEMMA RulesKept ==
    ASSUME LedgerInv, UNCHANGED <<ledger, reversals, owned>>,
           habit' # "gone" => habit # "gone" /\ frozen' = frozen
    PROVE  Rules'
  BY DEF LedgerInv, Rules, SignedByType, ReversedOnce, BonusOncePerKey, ChargedOnce

(* A settlement keeps the rules of the ledger.                              *)
LEMMA SettleRules ==
    ASSUME LedgerInv, NEW r \in Requests, Settle(r)
    PROVE  Rules'
<1>1. SignedByType'
  BY PaidRows DEF Settle, ReadyToSettle, LedgerInv, SignedByType
<1> QED
  BY <1>1, SettleReversedOnce, SettleBonusOnce, SettleCharges DEF Rules

(* The debit row of a purchase, and what its handler found before.          *)
LEMMA PurchaseRow ==
    ASSUME LedgerInv, NEW r \in Requests,
           FreezeSettle(r) \/ RedeemSettle(r), ~Fail(r)
    PROVE  \E e \in EntryRows :
             /\ ledger' = ledger \cup {e} /\ e.op = req[r].op
             /\ e.amount < 0 /\ e.type \in DebitTypes
             /\ coins + e.amount >= 0 /\ coins' = coins + e.amount
             /\ Done(r) /\ UNCHANGED <<reversals, habit, ops>>
             /\ IF e.type = "FREEZE"
                  THEN /\ habit # "gone" /\ e.ref[1] \in Days /\ e.ref = <<e.ref[1], 0>>
                       /\ e.ref[1] \notin frozen
                       /\ frozen' = frozen \cup {e.ref[1]} /\ UNCHANGED owned
                  ELSE /\ e.ref[1] \in Items /\ e.ref = <<e.ref[1], 0>>
                       /\ e.ref[1] \notin owned
                       /\ owned' = owned \cup {e.ref[1]} /\ UNCHANGED frozen
<1> DEFINE q == req[r]
<1>1. CASE FreezeSettle(r)
  <2> DEFINE e == Entry(q.op, "FREEZE", q.day, 0, -FreezeCost)
  <2>1. q.day \in Days /\ q.day \in Nat /\ q.op \in Nat
    BY <1>1, Before, HabitRewardsAssumption
       DEF LedgerInv, FreezeSettle, Sound, Request, Days
  <2>2. /\ e \in EntryRows /\ e.amount < 0 /\ e.op = q.op /\ e.type = "FREEZE"
        /\ e.ref = <<q.day, 0>>
    BY <2>1, HabitRewardsAssumption DEF Entry, EntryRows, LedgerTypes
  <2>3. /\ ledger' = ledger \cup {e}
        /\ coins + e.amount >= 0 /\ coins' = coins + e.amount
        /\ Done(r) /\ UNCHANGED <<reversals, habit, ops, owned>>
        /\ habit # "gone" /\ q.day \notin frozen /\ frozen' = frozen \cup {q.day}
    BY <1>1 DEF FreezeSettle, Covered, FreezeInserts
  <2> HIDE DEF e
  <2> QED
    BY <2>1, <2>2, <2>3 DEF DebitTypes
<1>2. CASE RedeemSettle(r)
  <2> DEFINE e == Entry(q.op, "REDEMPTION", q.seen, 0, -ItemCost[q.seen])
  <2>1. q.seen \in Items /\ q.seen \in Nat /\ q.op \in Nat
    BY <1>2, Before, HabitRewardsAssumption
       DEF LedgerInv, RedeemSettle, Sound, Request
  <2>2. /\ e \in EntryRows /\ e.amount < 0 /\ e.op = q.op /\ e.type = "REDEMPTION"
        /\ e.ref = <<q.seen, 0>>
    BY <2>1, HabitRewardsAssumption DEF Entry, EntryRows, LedgerTypes
  <2>3. /\ ledger' = ledger \cup {e}
        /\ coins + e.amount >= 0 /\ coins' = coins + e.amount
        /\ Done(r) /\ UNCHANGED <<reversals, habit, ops, frozen>>
        /\ q.seen \notin owned /\ owned' = owned \cup {q.seen}
    BY <1>2 DEF RedeemSettle, Covered, RedeemInserts
  <2> HIDE DEF e
  <2> QED
    BY <2>1, <2>2, <2>3 DEF DebitTypes
<1> QED
  BY <1>1, <1>2

(* A purchase keeps the rules of the ledger.                                *)
LEMMA PurchaseKeeps ==
    ASSUME LedgerInv, NEW r \in Requests,
           FreezeSettle(r) \/ RedeemSettle(r), ~Fail(r)
    PROVE  Rules' /\ Numbered
<1>1. PICK e \in EntryRows :
        /\ ledger' = ledger \cup {e} /\ e.op = req[r].op
        /\ e.amount < 0 /\ e.type \in DebitTypes
        /\ Done(r) /\ UNCHANGED <<reversals, habit, ops>>
        /\ IF e.type = "FREEZE"
             THEN /\ habit # "gone" /\ e.ref[1] \in Days /\ e.ref = <<e.ref[1], 0>>
                  /\ e.ref[1] \notin frozen
                  /\ frozen' = frozen \cup {e.ref[1]} /\ UNCHANGED owned
             ELSE /\ e.ref[1] \in Items /\ e.ref = <<e.ref[1], 0>>
                  /\ e.ref[1] \notin owned
                  /\ owned' = owned \cup {e.ref[1]} /\ UNCHANGED frozen
  BY PurchaseRow
<1>2. SignedByType' /\ ReversedOnce' /\ BonusOncePerKey'
  BY <1>1 DEF LedgerInv, SignedByType, ReversedOnce, BonusOncePerKey, DebitTypes
<1>3. ChargedOnce'
  <2>1. CASE e.type = "FREEZE"
    BY <1>1, <2>1 DEF LedgerInv, ChargedOnce
  <2>2. CASE e.type = "REDEMPTION"
    BY <1>1, <2>2 DEF LedgerInv, ChargedOnce
  <2> QED
    BY <1>1, <2>1, <2>2 DEF DebitTypes
<1>4. Numbered
  <2>1. Underway(req[r])
    BY DEF Underway, FreezeSettle, RedeemSettle
  <2> QED
    BY <1>1, <2>1, DoneFresh
<1> QED
  BY <1>2, <1>3, <1>4 DEF Rules

(* A removal keeps the rules of the ledger.                                 *)
LEMMA RemoveKeeps ==
    ASSUME LedgerInv, NEW r \in Requests, ArchiveHabit(r) \/ DeleteHabit(r)
    PROVE  Rules' /\ Numbered
<1>1. Rules'
  BY RulesKept DEF ArchiveHabit, DeleteHabit
<1>2. Numbered
  BY DoneFresh DEF ArchiveHabit, DeleteHabit
<1> QED
  BY <1>1, <1>2

(* Every step keeps the rules of the ledger.                                *)
LEMMA RulesStep ==
    ASSUME LedgerInv, [Next]_vars
    PROVE  Rules' /\ Numbered
<1>1. CASE UNCHANGED vars
  BY <1>1, RulesKept DEF vars, tables, LedgerInv, FreshOps, Numbered, Underway
<1>2. ASSUME NEW r \in Requests, Toggle(r) PROVE Rules' /\ Numbered
  <2>1. CASE Settle(r)
    BY <2>1, SettleRules, SettleFresh
  <2>2. CASE ~Settle(r)
    BY <1>2, <2>2, StartsFresh, GoesOnFresh, RulesKept DEF Toggle, tables
  <2> QED
    BY <2>1, <2>2
<1>3. ASSUME NEW r \in Requests, Purchase(r) PROVE Rules' /\ Numbered
  <2>1. CASE Fail(r)
    BY <2>1, DoneFresh, RulesKept DEF Fail, tables
  <2>2. CASE ~Fail(r) /\ (FreezeSettle(r) \/ RedeemSettle(r))
    BY <2>2, PurchaseKeeps
  <2>3. CASE ~(FreezeSettle(r) \/ RedeemSettle(r))
    BY <1>3, <2>3, StartsFresh, RulesKept DEF Purchase, tables
  <2> QED
    BY <2>1, <2>2, <2>3
<1>4. ASSUME NEW r \in Requests, Remove(r) PROVE Rules' /\ Numbered
  BY <1>4, RemoveKeeps, StartsFresh, RulesKept DEF Remove, tables
<1>5. ASSUME NEW r \in Requests, Abandon(r) PROVE Rules' /\ Numbered
  BY <1>5, GoesOnFresh, RulesKept DEF tables
<1> QED
  BY <1>1, <1>2, <1>3, <1>4, <1>5 DEF Next

(* The invariant is inductive.                                              *)
LEMMA LedgerStep == LedgerInv /\ [Next]_vars => LedgerInv'
  BY RulesStep, TypeStep DEF LedgerInv, Rules, Numbered

(* The empty ledger keeps its rules.                                        *)
LEMMA LedgerStart == Init => LedgerInv
<1> SUFFICES ASSUME Init PROVE FreshOps /\ Rules
  BY InitType DEF LedgerInv, Rules
<1> QED
  BY DEF Init, Idle, FreshOps, Underway, Rules, SignedByType, ReversedOnce,
         BonusOncePerKey, ChargedOnce

(* The invariant holds of every reachable state.                            *)
LEMMA LedgerAlways == Spec => []LedgerInv
  BY LedgerStart, LedgerStep, PTL DEF Spec

(* Whatever requests race, only credits are reversed, each at most once,    *)
(* though several of them read the same award (reward-engine.service:414).  *)
THEOREM ReversedAtMostOnce == Spec => []ReversedOnce
<1>1. LedgerInv => ReversedOnce
  BY DEF LedgerInv
<1> QED
  BY <1>1, LedgerAlways, PTL

(* A streak bonus is paid once a cycle and an identity bonus once ever,     *)
(* though the claimed keys are read before the insert.                      *)
THEOREM BonusPaidOnce == Spec => []BonusOncePerKey
<1>1. LedgerInv => BonusOncePerKey
  BY DEF LedgerInv
<1> QED
  BY <1>1, LedgerAlways, PTL

(* Racing purchases charge once for each day protected and item owned, and  *)
(* what is protected or owned was charged.                                  *)
THEOREM ChargedAtMostOnce == Spec => []ChargedOnce
<1>1. LedgerInv => ChargedOnce
  BY DEF LedgerInv
<1> QED
  BY <1>1, LedgerAlways, PTL

-----------------------------------------------------------------------------
(* Steps that leave the ledger, its reversals and the balance alone.        *)
Quiet == UNCHANGED <<ledger, reversals, coins>>

(* A step leaves the account alone, settles, or spends.                     *)
LEMMA StepKinds ==
    ASSUME LedgerInv, [Next]_vars
    PROVE  \/ Quiet
           \/ \E r \in Requests : Settle(r)
           \/ \E r \in Requests : (FreezeSettle(r) \/ RedeemSettle(r)) /\ ~Fail(r)
<1>1. CASE UNCHANGED vars
  BY <1>1 DEF vars, tables, Quiet
<1>2. ASSUME NEW r \in Requests, Toggle(r), ~Settle(r) PROVE Quiet
  BY <1>2, StartsFresh, GoesOnFresh DEF Toggle, tables, Quiet
<1>3. ASSUME NEW r \in Requests, Purchase(r), ~(FreezeSettle(r) \/ RedeemSettle(r))
      PROVE  Quiet
  BY <1>3, StartsFresh DEF Purchase, tables, Quiet
<1>4. ASSUME NEW r \in Requests, Fail(r) PROVE Quiet
  BY <1>4 DEF Fail, tables, Quiet
<1>5. ASSUME NEW r \in Requests, Remove(r) PROVE Quiet
  BY <1>5, StartsFresh DEF Remove, ArchiveHabit, DeleteHabit, tables, Quiet
<1>6. ASSUME NEW r \in Requests, Abandon(r) PROVE Quiet
  BY <1>4, <1>6 DEF Abandon
<1> QED
  BY <1>1, <1>2, <1>3, <1>4, <1>5, <1>6 DEF Next, Purchase

-----------------------------------------------------------------------------
(* HabitRewards implements RewardAccount.                                   *)

(* What a settlement undoes is reversed afterwards, and nothing else.       *)
LEMMA NewlyReversed ==
    ASSUME NEW r \in Requests, Settle(r)
    PROVE  ReversedRows' = ReversedRows \cup Undone(req[r])
<1> DEFINE q == req[r]
           U == Undone(q)
<1>1. reversals' = reversals \cup Reversal(q, U)
  BY DEF Settle
<1> HIDE DEF U
<1>2. \A v \in Reversal(q, U) : v.of \in U
  BY DEF Reversal
<1>3. \A e \in U : \E v \in Reversal(q, U) : v.of = e
  <2> TAKE e \in U
  <2>1. [op |-> q.op, of |-> e] \in Reversal(q, U)
    BY DEF Reversal
  <2> QED
    BY <2>1
<1> QED
  BY <1>1, <1>2, <1>3 DEF ReversedRows, U

(* Paying new rows and taking back standing ones is a move of the account.  *)
LEMMA AccountMoves ==
    ASSUME LedgerInv, NEW P, NEW U,
           \A e \in P : e \in EntryRows /\ e.amount > 0 /\ e \notin ledger,
           \A e \in U : e \in ledger /\ e \notin ReversedRows /\ e.amount > 0,
           ledger' = ledger \cup P, ReversedRows' = ReversedRows \cup U,
           coins' = coins - Total(U) + Total(P)
    PROVE  Account!Move
<1> DEFINE standing == Credits \ ReversedRows
<1>1. ReversedRows \subseteq ledger
  BY DEF ReversedRows, LedgerInv, ReversedOnce
<1>2. \A e \in ledger : e \in EntryRows
  BY Before DEF LedgerInv, TypeInv, TypeOK, TablesOK
<1>3. Credits' = Credits \cup P
  BY DEF Credits
<1>4. ~(\E e \in P : e.amount < 0)
  BY DEF EntryRows
<1>5. UNCHANGED Debits
  BY <1>4 DEF Debits
<1>6. U \subseteq standing
  BY DEF Credits
<1>7. P \cap (ReversedRows \cup Debits) = {} /\ P \cap standing = {} /\ P \cap U = {}
  BY <1>1 DEF Debits, Credits
<1>8. ReversedRows' \ ReversedRows = U
  OBVIOUS
<1>9. standing' = (standing \ U) \cup P
  BY <1>1, <1>3, <1>7
<1>10. standing' \ standing = P
  BY <1>7, <1>9
<1> HIDE DEF standing
<1> QED
  BY <1>5, <1>6, <1>7, <1>8, <1>9, <1>10 DEF Account!Move, standing

(* A settlement is a move of the abstract account.                          *)
LEMMA SettleMoves ==
    ASSUME LedgerInv, NEW r \in Requests, Settle(r)
    PROVE  Account!Move
<1> DEFINE P == Paid(req[r])
           U == Undone(req[r])
<1>1. /\ \A e \in P : e \in EntryRows /\ e.amount > 0 /\ e \notin ledger
      /\ \A e \in U : e \in ledger /\ e \notin ReversedRows /\ e.amount > 0
  BY PaidRows, PaidIsNew, UndoneRows DEF Settle, ReadyToSettle, LedgerInv
<1>2. /\ ledger' = ledger \cup P /\ coins' = coins - Total(U) + Total(P)
      /\ ReversedRows' = ReversedRows \cup U
  BY NewlyReversed DEF Settle, CoinsAfter
<1> HIDE DEF P, U
<1> QED
  BY <1>1, <1>2, AccountMoves

(* A purchase is a spending of the abstract account.                        *)
LEMMA PurchaseSpends ==
    ASSUME LedgerInv, NEW r \in Requests,
           FreezeSettle(r) \/ RedeemSettle(r), ~Fail(r)
    PROVE  Account!Spend
<1>1. PICK e \in EntryRows :
        /\ ledger' = ledger \cup {e} /\ e.op = req[r].op
        /\ e.amount < 0 /\ coins + e.amount >= 0 /\ coins' = coins + e.amount
        /\ UNCHANGED reversals
  BY PurchaseRow
<1>2. e \notin ledger
  BY <1>1 DEF LedgerInv, FreshOps, Underway, FreezeSettle, RedeemSettle
<1>3. Debits' = Debits \cup {e} /\ e \in Debits' \ Debits
  BY <1>1, <1>2 DEF Debits
<1>4. ~(e.amount > 0)
  BY <1>1 DEF EntryRows
<1>5. UNCHANGED Credits
  BY <1>1, <1>4 DEF Credits
<1>6. UNCHANGED ReversedRows
  BY <1>1 DEF ReversedRows
<1> QED
  BY <1>1, <1>3, <1>5, <1>6 DEF Account!Spend

(* Every step of the habit is one of the account, or leaves it alone.       *)
LEMMA AccountStep ==
    ASSUME LedgerInv, [Next]_vars
    PROVE  [Account!Next]_(Account!account)
<1>1. CASE Quiet
  BY <1>1 DEF Quiet, Account!account, Credits, Debits, ReversedRows
<1> QED
  BY <1>1, StepKinds, SettleMoves, PurchaseSpends DEF Account!Next

(* The empty account.                                                       *)
LEMMA AccountStart == Init => Account!Init
  BY DEF Init, Account!Init, Credits, Debits, ReversedRows

(* Every behaviour of the toggles, purchases and deletions is one of the    *)
(* account: a credit is granted once, taken back once and never returns,    *)
(* and coins are spent only when they are there.                            *)
THEOREM ImplementsAccount == Spec => AccountSpec
  BY AccountStart, AccountStep, LedgerAlways, PTL DEF Spec, AccountSpec, Account!Spec

-----------------------------------------------------------------------------
(* Reward-fund allocations.  While a transaction is open its day's row is    *)
(* locked: it is still the row the request read, or still absent.           *)
Locked(q) ==
    /\ ~q.adopted
    /\ IF q.existing = NoRow
         THEN completion[q.day] = NoRow /\ q.row # NoRow
         ELSE /\ completion[q.day] # NoRow /\ completion[q.day].id = q.existing.id
              /\ q.ask.plain \/ (q.row # NoRow /\ q.row.id = q.existing.id)

InTransaction(q) == q.pc \in {"wrote", "user"}

RowsLocked ==
    /\ \A r \in Requests : ~req[r].adopted
    /\ \A r \in Requests : InTransaction(req[r]) => Locked(req[r])
    /\ \A r, s \in Requests :
          InTransaction(req[r]) /\ InTransaction(req[s]) /\ r # s
             => req[r].day # req[s].day

FundInv == TypeInv /\ RowsLocked /\ AllocationsBacked

(* A step that leaves the rows, and takes at most its own request into or   *)
(* out of a transaction, keeps the locks.                                   *)
LEMMA LocksKept ==
    ASSUME FundInv, NEW r \in Requests,
           completion' = completion, allocations' = allocations,
           \A s \in Requests \ {r} : req'[s] = req[s],
           ~req'[r].adopted,
           InTransaction(req'[r]) =>
             /\ Locked(req'[r])
             /\ \A s \in Requests \ {r} :
                   InTransaction(req[s]) => req[s].day # req'[r].day
    PROVE  RowsLocked' /\ AllocationsBacked'
<1>1. AllocationsBacked'
  BY DEF FundInv, AllocationsBacked
<1>2. \A s \in Requests : ~req'[s].adopted
  BY DEF FundInv, RowsLocked
<1>3. ASSUME NEW s \in Requests, InTransaction(req'[s])
      PROVE  Locked(req[s])'
  <2>1. Locked(req'[s])
    BY <1>3 DEF FundInv, RowsLocked
  <2> QED
    BY <2>1 DEF Locked
<1>4. ASSUME NEW s \in Requests, NEW t \in Requests, s # t,
             InTransaction(req'[s]), InTransaction(req'[t])
      PROVE  req'[s].day # req'[t].day
  BY <1>4 DEF FundInv, RowsLocked
<1> QED
  BY <1>1, <1>2, <1>3, <1>4 DEF RowsLocked, InTransaction

(* A request that gives up, or is not in a transaction yet, holds no lock.  *)
LEMMA OutsideKeeps ==
    ASSUME FundInv, NEW r \in Requests,
           completion' = completion, allocations' = allocations,
           req' = [req EXCEPT ![r] = req'[r]],
           ~req'[r].adopted, ~InTransaction(req'[r])
    PROVE  RowsLocked' /\ AllocationsBacked'
<1>1. \A s \in Requests \ {r} : req'[s] = req[s]
  BY DEF FundInv, TypeInv, TypeOK
<1> QED
  BY <1>1, LocksKept

(* The operations that only look, and the ends of a request.                *)
LEMMA LooksKeep ==
    ASSUME FundInv, NEW r \in Requests,
           \/ \E d \in Days, ask \in Asks : Begin(r, d, ask)
           \/ \E d \in Days : FreezeCheck(r, d)
           \/ \E i \in Items : RedeemCheck(r, i)
           \/ DeleteCount(r) \/ ArchiveHabit(r)
           \/ FreezeSettle(r) \/ RedeemSettle(r)
           \/ Announce(r) \/ Abandon(r) \/ Fail(r)
    PROVE  RowsLocked' /\ AllocationsBacked'
<1>0. req \in [Requests -> Request]
  BY DEF FundInv, TypeInv, TypeOK
<1>1. completion' = completion /\ allocations' = allocations
  BY DEF Begin, FreezeCheck, RedeemCheck, DeleteCount, ArchiveHabit, FreezeSettle,
         RedeemSettle, Announce, Abandon, Fail, tables
<1>2. CASE Done(r)
  <2>1. /\ req' = [req EXCEPT ![r] = req'[r]]
        /\ ~req'[r].adopted /\ ~InTransaction(req'[r])
    BY <1>0, <1>2 DEF Done, Idle, InTransaction
  <2> QED
    BY <1>1, <2>1, OutsideKeeps
<1>3. CASE ~Done(r)
  <2> DEFINE Outside(q) == /\ req' = [req EXCEPT ![r] = q]
                           /\ ~q.adopted /\ ~InTransaction(q)
  <2>1. \E q : Outside(q)
    <3>1. CASE \E d \in Days, ask \in Asks : Begin(r, d, ask)
      <4> PICK d \in Days, ask \in Asks : Begin(r, d, ask)
        BY <3>1
      <4>1. Outside([Idle EXCEPT !.pc = "read", !.op = ops + 1, !.day = d,
                                 !.ask = ask, !.existing = completion[d]])
        BY DEF Begin, Idle, InTransaction
      <4> QED
        BY <4>1
    <3>2. CASE \E d \in Days : FreezeCheck(r, d)
      <4> PICK d \in Days : FreezeCheck(r, d)
        BY <3>2
      <4>1. Outside([Idle EXCEPT !.pc = "freeze", !.op = ops + 1, !.day = d])
        BY DEF FreezeCheck, Idle, InTransaction
      <4> QED
        BY <4>1
    <3>3. CASE \E i \in Items : RedeemCheck(r, i)
      <4> PICK i \in Items : RedeemCheck(r, i)
        BY <3>3
      <4>1. Outside([Idle EXCEPT !.pc = "redeem", !.op = ops + 1, !.seen = i])
        BY DEF RedeemCheck, Idle, InTransaction
      <4> QED
        BY <4>1
    <3>4. CASE DeleteCount(r)
      <4> DEFINE n == Cardinality({d \in Days : completion[d] # NoRow})
                        + IF Linked THEN 1 ELSE 0
      <4>1. req' = [req EXCEPT ![r] =
                      [Idle EXCEPT !.pc = "delete", !.op = ops + 1, !.seen = n]]
        BY <3>4 DEF DeleteCount
      <4> HIDE DEF n
      <4>2. Outside([Idle EXCEPT !.pc = "delete", !.op = ops + 1, !.seen = n])
        BY <4>1 DEF Idle, InTransaction
      <4> QED
        BY <4>2
    <3>5. ~(\/ ArchiveHabit(r) \/ FreezeSettle(r) \/ RedeemSettle(r)
            \/ Announce(r) \/ Abandon(r) \/ Fail(r))
      BY <1>3 DEF ArchiveHabit, FreezeSettle, RedeemSettle, Announce, Abandon, Fail
    <3> QED
      BY <3>1, <3>2, <3>3, <3>4, <3>5, Zenon
  <2> PICK q : Outside(q)
    BY <2>1
  <2>2. req'[r] = q
    BY <1>0
  <2> QED
    BY <1>1, <2>2, OutsideKeeps
<1> QED
  BY <1>2, <1>3

(* The first write of a transaction takes the lock of its day.              *)
LEMMA WritesKeep ==
    ASSUME FundInv, NEW r \in Requests, WriteExisting(r) \/ CreateRow(r), ~Fail(r)
    PROVE  RowsLocked' /\ AllocationsBacked'
<1> DEFINE q == req[r]
<1>0. req \in [Requests -> Request] /\ ~q.adopted
  BY DEF FundInv, TypeInv, TypeOK, RowsLocked
<1>1. /\ completion' = completion /\ allocations' = allocations
      /\ \A s \in Requests \ {r} : req'[s] = req[s]
      /\ req'[r].day = q.day /\ req'[r].existing = q.existing
      /\ req'[r].ask = q.ask /\ ~req'[r].adopted /\ RowFree(r)
  BY <1>0 DEF WriteExisting, CreateRow, Request, tables
<1>2. Locked(req'[r])
  <2>1. CASE WriteExisting(r)
    <3> DEFINE new == [id |-> q.existing.id, status |-> IsCompleted(q.ask),
                       kind |-> q.ask.kind]
    <3>1. /\ q.existing # NoRow /\ completion[q.day] # NoRow
          /\ completion[q.day].id = q.existing.id
          /\ req'[r].row = IF q.ask.plain THEN NoRow ELSE new
      BY <1>0, <2>1 DEF WriteExisting, Request
    <3>2. new \in Row
      BY <3>1, Before DEF FundInv, Request, Row, IsCompleted
    <3>3. new # NoRow /\ new.id = q.existing.id
      BY <3>2, HabitRewardsAssumption DEF Row
    <3> HIDE DEF new
    <3> QED
      BY <1>1, <3>1, <3>3 DEF Locked
  <2>2. CASE CreateRow(r)
    <3> DEFINE new == [id |-> q.op, status |-> IsCompleted(q.ask), kind |-> q.ask.kind]
    <3>1. /\ q.existing = NoRow /\ completion[q.day] = NoRow /\ req'[r].row = new
      BY <1>0, <2>2 DEF CreateRow, Request
    <3>2. new \in Row
      BY Before DEF FundInv, Request, Row, IsCompleted
    <3>3. new # NoRow
      BY <3>2, HabitRewardsAssumption DEF Row
    <3> HIDE DEF new
    <3> QED
      BY <1>1, <3>1, <3>3 DEF Locked
  <2> QED
    BY <2>1, <2>2
<1>3. \A s \in Requests \ {r} : InTransaction(req[s]) => req[s].day # req'[r].day
  BY <1>1 DEF RowFree, InTransaction, FundInv, RowsLocked
<1> QED
  BY <1>1, <1>2, <1>3, LocksKept

(* The read of the user happens under the lock.                             *)
LEMMA ReadKeeps ==
    ASSUME FundInv, NEW r \in Requests, ReadUser(r)
    PROVE  RowsLocked' /\ AllocationsBacked'
<1>0. req \in [Requests -> Request]
  BY DEF FundInv, TypeInv, TypeOK
<1>1. /\ completion' = completion /\ allocations' = allocations
      /\ \A s \in Requests \ {r} : req'[s] = req[s]
      /\ req'[r].day = req[r].day /\ req'[r].existing = req[r].existing
      /\ req'[r].ask = req[r].ask /\ req'[r].row = req[r].row
      /\ req'[r].adopted = req[r].adopted /\ InTransaction(req[r])
  BY <1>0 DEF ReadUser, Request, tables, InTransaction
<1>2. Locked(req'[r]) /\ ~req'[r].adopted
  BY <1>1 DEF FundInv, RowsLocked, Locked
<1>3. \A s \in Requests \ {r} : InTransaction(req[s]) => req[s].day # req'[r].day
  BY <1>1 DEF FundInv, RowsLocked
<1> QED
  BY <1>1, <1>2, <1>3, LocksKept

(* The commit stores the request's own row; the other open transactions are *)
(* about other days.                                                        *)
LEMMA SettleFunds ==
    ASSUME FundInv, NEW r \in Requests, Settle(r)
    PROVE  RowsLocked' /\ AllocationsBacked'
<1> DEFINE q == req[r]
<1>0. /\ req \in [Requests -> Request] /\ Locked(q) /\ InTransaction(q)
      /\ completion \in [Days -> Row \cup {NoRow}]
  BY DEF FundInv, TypeInv, TypeOK, TablesOK, RowsLocked, Settle, ReadyToSettle,
         InTransaction
<1>1. q.day \in Days /\ (~Removing(q) => q.row # NoRow)
  BY <1>0, Before DEF FundInv, Sound, InTransaction
<1>2. \A d \in Days : completion'[d] = IF d = q.day THEN q.row ELSE completion[d]
  BY <1>0, <1>1 DEF Settle, View, Locked
<1>3. /\ \A s \in Requests \ {r} : req'[s] = req[s]
      /\ ~InTransaction(req'[r]) /\ ~req'[r].adopted
  BY <1>0 DEF Settle, Request, Locked, InTransaction
<1>4. ASSUME NEW s \in Requests, InTransaction(req'[s])
      PROVE  Locked(req[s])'
  <2>1. /\ s # r /\ req'[s] = req[s] /\ Locked(req[s])
        /\ req[s].day # q.day /\ req[s].day \in Days
    BY <1>0, <1>3, <1>4, Before DEF FundInv, RowsLocked, Sound, InTransaction
  <2>2. completion'[req[s].day] = completion[req[s].day]
    BY <1>2, <2>1
  <2> QED
    BY <2>1, <2>2 DEF Locked
<1>5. RowsLocked'
  BY <1>3, <1>4 DEF FundInv, RowsLocked, InTransaction
<1>6. ASSUME NEW a \in allocations'
      PROVE  \E d \in Days : completion'[d] # NoRow /\ completion'[d].id = a
  <2>1. CASE Removing(q)
    <3>1. a \in allocations /\ a # q.existing.id /\ q.existing # NoRow
      BY <1>6, <2>1 DEF Settle, AllocationsAfter, Removing
    <3>2. PICK d \in Days : completion[d] # NoRow /\ completion[d].id = a
      BY <3>1 DEF FundInv, AllocationsBacked
    <3>3. d # q.day
      BY <1>0, <3>1, <3>2 DEF Locked
    <3> QED
      BY <1>2, <3>2, <3>3
  <2>2. CASE ~Removing(q)
    <3>1. a \in allocations \/ a = q.row.id
      BY <1>6, <2>2 DEF Settle, AllocationsAfter
    <3>2. CASE a = q.row.id
      BY <1>1, <1>2, <2>2, <3>2
    <3>3. CASE a \in allocations
      <4>1. PICK d \in Days : completion[d] # NoRow /\ completion[d].id = a
        BY <3>3 DEF FundInv, AllocationsBacked
      <4>2. CASE d = q.day
        BY <1>0, <1>1, <1>2, <2>2, <4>1, <4>2 DEF Locked, Removing
      <4>3. CASE d # q.day
        BY <1>2, <4>1, <4>3
      <4> QED
        BY <4>2, <4>3
    <3> QED
      BY <3>1, <3>2, <3>3
  <2> QED
    BY <2>1, <2>2
<1> QED
  BY <1>5, <1>6 DEF AllocationsBacked

(* The habit goes, when no transaction is open, with rows and allocations.  *)
LEMMA DeleteFunds ==
    ASSUME FundInv, NEW r \in Requests, DeleteHabit(r)
    PROVE  RowsLocked' /\ AllocationsBacked'
<1>1. \A s \in Requests : ~InTransaction(req'[s]) /\ ~req'[s].adopted
  BY DEF FundInv, TypeInv, TypeOK, RowsLocked, DeleteHabit, Done, Idle, InTransaction
<1> QED
  BY <1>1 DEF RowsLocked, AllocationsBacked, DeleteHabit, InTransaction

(* PostgreSQL aborts the transaction whose insert met another one, so no    *)
(* request ever goes on with a row that somebody else may remove.           *)
LEMMA FundStep ==
    ASSUME ConflictAborts
    PROVE  FundInv /\ [Next]_vars => FundInv'
<1> SUFFICES ASSUME FundInv, [Next]_vars PROVE RowsLocked' /\ AllocationsBacked'
  BY TypeStep DEF FundInv
<1>1. CASE UNCHANGED vars
  BY <1>1 DEF vars, tables, FundInv, RowsLocked, Locked, InTransaction, AllocationsBacked
<1>2. ASSUME NEW r \in Requests, Fail(r) PROVE RowsLocked' /\ AllocationsBacked'
  BY <1>2, LooksKeep
<1>3. ASSUME NEW r \in Requests, SettleConflict(r)
      PROVE  RowsLocked' /\ AllocationsBacked'
  <2>1. CASE Fail(r)
    BY <1>2, <2>1
  <2>2. CASE ~Fail(r)
    <3>1. /\ completion' = completion /\ allocations' = allocations
          /\ req' = [req EXCEPT ![r] = req'[r]]
          /\ ~req'[r].adopted /\ ~InTransaction(req'[r])
      BY <1>3, <2>2 DEF SettleConflict, FundInv, TypeInv, TypeOK, RowsLocked, Request,
         InTransaction, tables
    <3> QED
      BY <3>1, OutsideKeeps
  <2> QED
    BY <2>1, <2>2
<1>4. ASSUME NEW r \in Requests, CreateConflict(r)
      PROVE  RowsLocked' /\ AllocationsBacked'
  BY <1>2, <1>4 DEF CreateConflict
<1>5. ASSUME NEW r \in Requests, Toggle(r) PROVE RowsLocked' /\ AllocationsBacked'
  BY <1>2, <1>3, <1>4, <1>5, LooksKeep, WritesKeep, ReadKeeps, SettleFunds DEF Toggle
<1>6. ASSUME NEW r \in Requests, Purchase(r) PROVE RowsLocked' /\ AllocationsBacked'
  BY <1>6, LooksKeep DEF Purchase
<1>7. ASSUME NEW r \in Requests, Remove(r) PROVE RowsLocked' /\ AllocationsBacked'
  BY <1>7, LooksKeep, DeleteFunds DEF Remove
<1>8. ASSUME NEW r \in Requests, Abandon(r) PROVE RowsLocked' /\ AllocationsBacked'
  BY <1>8, LooksKeep
<1> QED
  BY <1>1, <1>5, <1>6, <1>7, <1>8 DEF Next

(* A reward-fund allocation dies with its completion, whoever removes it:   *)
(* PostgreSQL's row locks and aborted transactions are enough.              *)
THEOREM FundsAreBacked ==
    ASSUME ConflictAborts
    PROVE  Spec => []AllocationsBacked
<1>1. Init => FundInv
  BY InitType DEF Init, FundInv, RowsLocked, Idle, InTransaction, AllocationsBacked
<1>2. FundInv /\ [Next]_vars => FundInv'
  BY FundStep
<1>3. FundInv => AllocationsBacked
  BY DEF FundInv
<1> QED
  BY <1>1, <1>2, <1>3, PTL DEF Spec

-----------------------------------------------------------------------------
(* The balance.  Totals of ledger rows are sums of their amounts.           *)
AmountIn(S) == [e \in S |-> e.amount]
Amounts(S) == \A e \in S : e.amount \in Int

RowParts(S, g) ==
    g = [s \in SUBSET S |->
            IF s = {} THEN 0 ELSE First(s).amount + g[s \ {First(s)}]]

LEMMA TotalIs ==
    ASSUME NEW S
    PROVE  Total(S) = (CHOOSE g : RowParts(S, g))[S]
  BY DEF Total, MapThenSumSet, MapThenFoldSet, RowParts, First

LEMMA TotalIsSum ==
    ASSUME NEW S, NEW T, S \subseteq T
    PROVE  Total(S) = SumOver(AmountIn(T), S)
<1>1. ASSUME NEW g PROVE RowParts(S, g) <=> Parts(AmountIn(T), S, g)
  <2>1. \A s \in SUBSET S : s # {} => First(s).amount = AmountIn(T)[First(s)]
    BY FirstIn DEF AmountIn
  <2>2. \A s \in SUBSET S :
          (IF s = {} THEN 0 ELSE First(s).amount + g[s \ {First(s)}])
          = (IF s = {} THEN 0 ELSE AmountIn(T)[First(s)] + g[s \ {First(s)}])
    BY <2>1
  <2> QED
    BY <2>2 DEF RowParts, Parts
<1>2. (CHOOSE g : RowParts(S, g)) = (CHOOSE g : Parts(AmountIn(T), S, g))
  BY <1>1
<1> QED
  BY <1>2, TotalIs, SumIs

LEMMA TotalOfNone == Total({}) = 0
  BY TotalIsSum, SumOfNone

(* A total of integers is one.                                              *)
LEMMA TotalType ==
    ASSUME NEW S, IsFiniteSet(S), Amounts(S)
    PROVE  Total(S) \in Int
<1>1. Summands(AmountIn(S), S)
  BY DEF Summands, AmountIn, Amounts
<1> QED
  BY <1>1, TotalIsSum, SumType

(* A row added to a total.                                                  *)
LEMMA TotalAdds ==
    ASSUME NEW S, IsFiniteSet(S), NEW e, e \notin S, Amounts(S), e.amount \in Int
    PROVE  Total(S \cup {e}) = Total(S) + e.amount
<1> DEFINE f == AmountIn(S \cup {e})
<1>1. Summands(f, S) /\ f[e] = e.amount
  BY DEF Summands, AmountIn, Amounts
<1>2. Total(S) = SumOver(f, S) /\ Total(S \cup {e}) = SumOver(f, S \cup {e})
  BY TotalIsSum
<1> HIDE DEF f
<1> QED
  BY <1>1, <1>2, SumAdds

(* Totals of disjoint sets add up.                                          *)
LEMMA TotalUnion ==
    ASSUME NEW S, NEW T, IsFiniteSet(S), IsFiniteSet(T), S \cap T = {},
           Amounts(S), Amounts(T)
    PROVE  Total(S \cup T) = Total(S) + Total(T)
<1> DEFINE f == AmountIn(S \cup T)
<1>1. Summands(f, S) /\ Summands(f, T)
  BY DEF Summands, AmountIn, Amounts
<1>2. /\ Total(S) = SumOver(f, S) /\ Total(T) = SumOver(f, T)
      /\ Total(S \cup T) = SumOver(f, S \cup T)
  BY TotalIsSum
<1> HIDE DEF f
<1> QED
  BY <1>1, <1>2, SumUnion

(* The image of a finite set is finite.                                     *)
LEMMA ImageFinite ==
    ASSUME NEW S, NEW T, IsFiniteSet(S), NEW f \in [S -> T],
           \A t \in T : \E s \in S : f[s] = t
    PROVE  IsFiniteSet(T)
<1>1. f \in Surjection(S, T)
  BY DEF Surjection
<1> QED
  BY <1>1, FS_Surjection

(* What a settlement pays is finite.                                        *)
LEMMA FinitelyPaid ==
    ASSUME NEW r \in Requests
    PROVE  IsFiniteSet(Paid(req[r]))
<1> DEFINE q == req[r]
           rows == View(q)
           base == Entry(q.op, q.ask.kind, q.row.id, 0, Coins[q.ask.kind])
<1>1. IsFiniteSet(NewMilestones(rows, q.day))
  <2>1. IsFiniteSet(Days)
    BY FS_Interval, HabitRewardsAssumption DEF Days
  <2>2. IsFiniteSet(Milestones \X Days)
    BY <2>1, FinitelyManyBonuses, FS_Product
  <2>3. NewMilestones(rows, q.day) \subseteq Milestones \X Days
    BY DEF NewMilestones
  <2> QED
    BY <2>2, <2>3, FS_Subset
<1>2. IsFiniteSet(StreakClaims(rows, q))
  <2> DEFINE f == [k \in NewMilestones(rows, q.day) |->
                     Entry(q.op, "STREAK", k[1], k[2], StreakBonus[k[1]])]
  <2>1. \A e \in StreakClaims(rows, q) :
           \E k \in NewMilestones(rows, q.day) : f[k] = e
    BY DEF StreakClaims
  <2>2. f \in [NewMilestones(rows, q.day) -> StreakClaims(rows, q)]
    BY DEF StreakClaims
  <2> HIDE DEF f, rows, q
  <2> QED
    BY <1>1, <2>1, <2>2, ImageFinite
<1>3. IsFiniteSet(IdentityClaims(rows, q))
  <2> DEFINE due == {x \in Thresholds :
                 /\ Linked
                 /\ x <= EvidencePoints(rows)
                 /\ ~\E e \in ledger : e.type = "IDENTITY" /\ e.ref[1] = x}
  <2>1. IsFiniteSet(due)
    BY FinitelyManyBonuses, FS_Subset
  <2> DEFINE f == [t \in due |-> Entry(q.op, "IDENTITY", t, 0, IdentityBonus)]
  <2>2. IdentityClaims(rows, q)
          = {Entry(q.op, "IDENTITY", t, 0, IdentityBonus) : t \in due}
    BY Zenon DEF IdentityClaims
  <2> HIDE DEF due
  <2>3. /\ \A e \in IdentityClaims(rows, q) : \E t \in due : f[t] = e
        /\ f \in [due -> IdentityClaims(rows, q)]
    BY <2>2
  <2> HIDE DEF f, rows, q
  <2> QED
    BY <2>1, <2>3, ImageFinite
<1>4. IsFiniteSet({base})
  BY FS_Singleton
<1>5. IsFiniteSet(Awards(rows, q))
  BY <1>2, <1>3, <1>4, FS_Union DEF Awards
<1> QED
  BY <1>5, FS_EmptySet DEF Paid

(* The ledger is finite, and the balance is its sum.                        *)
BalanceInv == LedgerInv /\ IsFiniteSet(ledger) /\ BalanceMatchesLedger

(* The rows taken back are rows of the ledger, all of them integers.        *)
LEMMA LedgerAmounts ==
    ASSUME LedgerInv
    PROVE  ReversedRows \subseteq ledger /\ Amounts(ledger)
  BY DEF ReversedRows, LedgerInv, ReversedOnce, TypeInv, TypeOK, TablesOK,
         EntryRows, Amounts

(* Paying new rows and taking back standing ones keeps the balance.         *)
LEMMA MoveBalances ==
    ASSUME BalanceInv, NEW P, NEW U, IsFiniteSet(P), Amounts(P),
           ledger \cap P = {}, U \subseteq ledger, ReversedRows \cap U = {},
           ledger' = ledger \cup P, ReversedRows' = ReversedRows \cup U,
           coins' = coins - Total(U) + Total(P)
    PROVE  IsFiniteSet(ledger)' /\ BalanceMatchesLedger'
<1>1. ReversedRows \subseteq ledger /\ Amounts(ledger)
  BY LedgerAmounts DEF BalanceInv
<1>2. IsFiniteSet(U) /\ IsFiniteSet(ReversedRows) /\ IsFiniteSet(ledger \cup P)
  BY <1>1, FS_Subset, FS_Union DEF BalanceInv
<1>3. Amounts(U) /\ Amounts(ReversedRows)
  BY <1>1 DEF Amounts
<1>4. /\ Total(ledger \cup P) = Total(ledger) + Total(P)
      /\ Total(ReversedRows \cup U) = Total(ReversedRows) + Total(U)
  BY <1>1, <1>2, <1>3, TotalUnion DEF BalanceInv
<1>5. /\ Total(ledger) \in Int /\ Total(P) \in Int
      /\ Total(ReversedRows) \in Int /\ Total(U) \in Int
  BY <1>1, <1>2, <1>3, TotalType DEF BalanceInv
<1>6. coins = Total(ledger) - Total(ReversedRows)
  BY DEF BalanceInv, BalanceMatchesLedger, LedgerSum
<1>7. coins' = Total(ledger \cup P) - Total(ReversedRows \cup U)
  BY <1>4, <1>5, <1>6
<1>8. LedgerSum' = Total(ledger \cup P) - Total(ReversedRows \cup U)
  BY DEF LedgerSum
<1> QED
  BY <1>2, <1>7, <1>8 DEF BalanceMatchesLedger

(* A settlement moves the balance by what it pays and takes back.           *)
LEMMA SettleBalances ==
    ASSUME BalanceInv, NEW r \in Requests, Settle(r)
    PROVE  IsFiniteSet(ledger)' /\ BalanceMatchesLedger'
<1> DEFINE P == Paid(req[r])
           U == Undone(req[r])
<1>1. /\ ledger' = ledger \cup P /\ coins' = coins - Total(U) + Total(P)
      /\ ledger \cap P = {} /\ ReversedRows \cap U = {} /\ U \subseteq ledger
      /\ Amounts(P)
  BY PaidRows, PaidIsNew, UndoneRows
     DEF Settle, ReadyToSettle, CoinsAfter, BalanceInv, LedgerInv, EntryRows, Amounts
<1>2. IsFiniteSet(P) /\ ReversedRows' = ReversedRows \cup U
  BY FinitelyPaid, NewlyReversed
<1> HIDE DEF P, U
<1> QED
  BY <1>1, <1>2, MoveBalances

(* A purchase moves the balance by its debit.                               *)
LEMMA PurchaseBalances ==
    ASSUME BalanceInv, NEW r \in Requests,
           FreezeSettle(r) \/ RedeemSettle(r), ~Fail(r)
    PROVE  IsFiniteSet(ledger)' /\ BalanceMatchesLedger'
<1>1. PICK e \in EntryRows :
        /\ ledger' = ledger \cup {e} /\ e.op = req[r].op
        /\ coins' = coins + e.amount /\ UNCHANGED reversals
  BY PurchaseRow DEF BalanceInv
<1>2. e \notin ledger /\ e.amount \in Int
  BY <1>1 DEF BalanceInv, LedgerInv, FreshOps, Underway, FreezeSettle, RedeemSettle,
              EntryRows
<1>3. IsFiniteSet(ledger) /\ IsFiniteSet(ledger \cup {e}) /\ IsFiniteSet(ReversedRows)
  BY LedgerAmounts, FS_AddElement, FS_Subset DEF BalanceInv
<1>4. Total(ledger \cup {e}) = Total(ledger) + e.amount
  BY <1>2, <1>3, LedgerAmounts, TotalAdds DEF BalanceInv
<1>5. Total(ledger) \in Int /\ Total(ReversedRows) \in Int
  BY <1>3, LedgerAmounts, TotalType DEF BalanceInv, Amounts
<1>6. ReversedRows' = ReversedRows
  BY <1>1 DEF ReversedRows
<1>7. LedgerSum' = Total(ledger \cup {e}) - Total(ReversedRows)
  BY <1>1, <1>6 DEF LedgerSum
<1> QED
  BY <1>1, <1>2, <1>3, <1>4, <1>5, <1>7 DEF BalanceInv, BalanceMatchesLedger, LedgerSum

(* Every step keeps the balance.                                            *)
LEMMA BalanceStep == BalanceInv /\ [Next]_vars => BalanceInv'
<1> SUFFICES ASSUME BalanceInv, [Next]_vars
             PROVE  IsFiniteSet(ledger)' /\ BalanceMatchesLedger'
  BY LedgerStep DEF BalanceInv
<1>1. CASE Quiet
  BY <1>1 DEF Quiet, BalanceInv, BalanceMatchesLedger, LedgerSum, ReversedRows
<1> QED
  BY <1>1, StepKinds, SettleBalances, PurchaseBalances DEF BalanceInv

(* The empty ledger has no balance.                                         *)
LEMMA BalanceStart == Init => BalanceInv
<1> SUFFICES ASSUME Init PROVE IsFiniteSet(ledger) /\ BalanceMatchesLedger
  BY LedgerStart DEF BalanceInv
<1>1. ledger = {} /\ ReversedRows = {} /\ coins = 0
  BY DEF Init, ReversedRows
<1>2. Total(ledger) = 0 /\ Total(ReversedRows) = 0
  BY <1>1, TotalOfNone, Zenon
<1> QED
  BY <1>1, <1>2, FS_EmptySet DEF BalanceMatchesLedger, LedgerSum

(* The cached User.coins equals the sum of the ledger after every commit,   *)
(* for any number of overlapping toggles, purchases and deletions           *)
(* (rewards.service.ts:199 calls it equal "by construction").               *)
THEOREM BalanceIsTheSum == Spec => []BalanceMatchesLedger
<1>1. BalanceInv => BalanceMatchesLedger
  BY DEF BalanceInv
<1> QED
  BY <1>1, BalanceStart, BalanceStep, PTL DEF Spec

-----------------------------------------------------------------------------
(* One request at a time.  What a day is worth: a done day has one standing *)
(* award, of its row and kind, and that award is the newest of the two.     *)
OneAtATime ==
    \A r, s \in Requests : req[r].pc # "idle" /\ req[s].pc # "idle" => r = s

DoneAt(d) == completion[d] # NoRow /\ completion[d].status
BaseRows == {e \in ledger : e.type \in BaseTypes}
PaidFor(d) == {e \in Outstanding : DoneAt(d) /\ e.ref[1] = completion[d].id}

RowIds ==
    /\ \A d, x \in Days :
          completion[d] # NoRow /\ completion[x] # NoRow
            /\ completion[d].id = completion[x].id => d = x
    /\ \A d \in Days : completion[d] # NoRow =>
          /\ completion[d].id <= ops
          /\ ~completion[d].status => completion[d].kind = "FULL"

PaidOnce ==
    /\ \A e \in Outstanding : \E d \in Days :
          DoneAt(d) /\ e.ref[1] = completion[d].id /\ e.type = completion[d].kind
    /\ \A d \in Days : DoneAt(d) =>
          \E e \in Outstanding : e.ref[1] = completion[d].id
    /\ \A e, f \in Outstanding : e.ref[1] = f.ref[1] => e = f
    /\ \A e \in Outstanding, x \in BaseRows :
          x.type = e.type /\ x.ref[1] = e.ref[1] /\ x # e => x.op < e.op

(* The days of ds take new rows, their awards are taken back and those that *)
(* are done now get a fresh one: every done day is paid once again.         *)
LEMMA Repaid ==
    ASSUME PaidOnce, RowIds, RowIds', NEW ds \in SUBSET Days, NEW fresh,
           \A d \in Days \ ds : completion'[d] = completion[d],
           BaseRows' = BaseRows \cup fresh,
           Outstanding' = (Outstanding \ UNION {PaidFor(d) : d \in ds}) \cup fresh,
           \A d \in ds : completion'[d] # NoRow /\ completion'[d].status
              => \E b \in fresh : b.ref[1] = completion'[d].id,
           \A b \in fresh : /\ \E d \in ds : /\ completion'[d] # NoRow
                                             /\ completion'[d].status
                                             /\ b.ref[1] = completion'[d].id
                                             /\ b.type = completion'[d].kind
                            /\ \A e \in ledger : e.op < b.op,
           \A b, c \in fresh : b = c
    PROVE  PaidOnce'
<1> DEFINE left == Outstanding \ UNION {PaidFor(d) : d \in ds}
           now == left \cup fresh
<1>1. \A e \in left : e \in Outstanding /\ (\A d \in ds : e \notin PaidFor(d))
  OBVIOUS
<1>2. ASSUME NEW e \in left
      PROVE  \E d \in Days \ ds : /\ completion'[d] # NoRow /\ completion'[d].status
                                  /\ e.ref[1] = completion'[d].id
                                  /\ e.type = completion'[d].kind
  <2>1. PICK d \in Days : DoneAt(d) /\ e.ref[1] = completion[d].id
                                    /\ e.type = completion[d].kind
    BY <1>1 DEF PaidOnce
  <2>2. d \notin ds
    BY <1>1, <2>1 DEF PaidFor
  <2> QED
    BY <2>1, <2>2 DEF DoneAt
<1>3. ASSUME NEW e \in left, NEW b \in fresh
      PROVE  e.ref[1] # b.ref[1]
  <2>1. PICK d \in Days \ ds : completion'[d] # NoRow /\ e.ref[1] = completion'[d].id
    BY <1>2
  <2>2. PICK x \in ds : completion'[x] # NoRow /\ b.ref[1] = completion'[x].id
    OBVIOUS
  <2> QED
    BY <2>1, <2>2 DEF RowIds
<1>4. \A e \in now : \E d \in Days :
          (completion'[d] # NoRow /\ completion'[d].status)
            /\ e.ref[1] = completion'[d].id /\ e.type = completion'[d].kind
  BY <1>2
<1>5. ASSUME NEW d \in Days, completion'[d] # NoRow, completion'[d].status
      PROVE  \E e \in now : e.ref[1] = completion'[d].id
  <2>1. CASE d \in ds
    BY <1>5, <2>1
  <2>2. CASE d \notin ds
    <3>1. completion'[d] = completion[d]
      BY <2>2
    <3>2. PICK e \in Outstanding : e.ref[1] = completion[d].id
      BY <1>5, <3>1 DEF PaidOnce, DoneAt
    <3>3. ASSUME NEW x \in ds, e \in PaidFor(x) PROVE FALSE
      <4>1. x \in Days /\ DoneAt(x) /\ completion[x].id = completion[d].id
        BY <3>2, <3>3 DEF PaidFor
      <4> QED
        BY <1>5, <2>2, <3>1, <4>1 DEF DoneAt, RowIds
    <3> QED
      BY <3>1, <3>2, <3>3
  <2> QED
    BY <2>1, <2>2
<1>6. \A e, f \in now : e.ref[1] = f.ref[1] => e = f
  BY <1>3 DEF PaidOnce
<1>7. ASSUME NEW e \in now, NEW x \in BaseRows', x.type = e.type,
             x.ref[1] = e.ref[1], x # e
      PROVE  x.op < e.op
  <2>1. CASE e \in fresh /\ x \in fresh
    BY <1>7, <2>1
  <2>2. CASE e \in fresh /\ x \in BaseRows
    BY <2>2 DEF BaseRows
  <2>3. CASE e \in left /\ x \in fresh
    BY <1>3, <1>7, <2>3
  <2>4. CASE e \in left /\ x \in BaseRows
    BY <1>1, <1>7, <2>4 DEF PaidOnce
  <2> QED
    BY <2>1, <2>2, <2>3, <2>4
<1>8. Outstanding' = now
  OBVIOUS
<1> HIDE DEF now
<1> QED
  BY <1>4, <1>5, <1>6, <1>7, <1>8 DEF PaidOnce, DoneAt

-----------------------------------------------------------------------------
(* The row a toggle writes when the row it read is still the day's.         *)
WrittenRow(q) ==
    LET new(id) == [id |-> id, status |-> IsCompleted(q.ask), kind |-> q.ask.kind]
    IN  IF q.existing = NoRow THEN new(q.op)
        ELSE IF q.ask.plain THEN NoRow ELSE new(q.existing.id)

(* What a request has read is still so, and nothing bears its number yet.   *)
UpToDate(q) ==
    /\ q.pc \in {"read", "wrote", "user"} =>
          /\ ~q.adopted /\ q.existing = completion[q.day]
          /\ \A e \in ledger : e.op < q.op
          /\ \A d \in Days : completion[d] # NoRow => completion[d].id < q.op
    /\ q.pc \in {"wrote", "user"} => q.row = WrittenRow(q)
    /\ q.pc = "delete" /\ q.seen = 0 => \A d \in Days : completion[d] = NoRow

PaidState == LedgerInv /\ RowIds /\ PaidOnce

(* The award of a done day is the one a reversal finds.                     *)
LEMMA LatestIsPaid ==
    ASSUME PaidState, NEW d \in Days, DoneAt(d)
    PROVE  /\ \E p : PaidFor(d) = {p}
           /\ {e \in ledger : /\ e.type = completion[d].kind /\ e.ref[1] = completion[d].id
                              /\ \A x \in {y \in ledger : y.type = completion[d].kind
                                                /\ y.ref[1] = completion[d].id} : x.op <= e.op}
                = PaidFor(d)
<1> DEFINE row == completion[d]
           Same == {y \in ledger : y.type = row.kind /\ y.ref[1] = row.id}
<1>1. PICK p \in Outstanding : p.ref[1] = row.id
  BY DEF PaidState, PaidOnce
<1>2. p \in ledger /\ p.type \in BaseTypes
  BY DEF Outstanding
<1>3. p.type = row.kind
  BY <1>1 DEF PaidState, PaidOnce, RowIds, DoneAt
<1>4. PaidFor(d) = {p}
  BY <1>1 DEF PaidFor, PaidState, PaidOnce
<1>5. \A x \in Same : x # p => x.op < p.op
  BY <1>1, <1>2, <1>3 DEF PaidState, PaidOnce, BaseRows
<1>6. \A x \in ledger : x.op \in Nat
  BY Before DEF PaidState, LedgerInv, TypeInv, TypeOK, TablesOK, EntryRows
<1>7. p \in Same
  BY <1>1, <1>2, <1>3
<1>8. {e \in Same : \A x \in Same : x.op <= e.op} = {p}
  BY <1>2, <1>5, <1>6, <1>7
<1> QED
  BY <1>4, <1>8

(* Entries of base type that a settlement writes and takes back.            *)
LEMMA SettleBase ==
    ASSUME LedgerInv, NEW r \in Requests, Settle(r)
    PROVE  LET q == req[r]
               base == Entry(q.op, q.ask.kind, q.row.id, 0, Coins[q.ask.kind])
           IN  /\ BaseRows' = BaseRows \cup (IF Pays(q) THEN {base} ELSE {})
               /\ Outstanding' = (Outstanding \ (IF Reverses(q) THEN LatestBase(q) ELSE {}))
                                    \cup (IF Pays(q) THEN {base} ELSE {})
<1> DEFINE q == req[r]
           base == Entry(q.op, q.ask.kind, q.row.id, 0, Coins[q.ask.kind])
           fresh == IF Pays(q) THEN {base} ELSE {}
           gone == IF Reverses(q) THEN LatestBase(q) ELSE {}
<1>0. /\ ledger' = ledger \cup Paid(q) /\ ReversedRows' = ReversedRows \cup Undone(q)
      /\ Paid(q) \cap ledger = {} /\ Undone(q) \subseteq ledger
      /\ ReversedRows \subseteq ledger
  BY PaidIsNew, UndoneRows, NewlyReversed, LedgerAmounts DEF Settle, ReadyToSettle
<1>1. {e \in Paid(q) : e.type \in BaseTypes} = fresh
  <2>1. q.ask.kind \in BaseTypes
    BY Before, HabitRewardsAssumption DEF LedgerInv, BaseTypes
  <2>2. base.type = q.ask.kind
    BY DEF Entry
  <2>3. \A e \in StreakClaims(View(q), q) \cup IdentityClaims(View(q), q) :
           e.type \notin BaseTypes
    BY DEF StreakClaims, IdentityClaims, Entry, BaseTypes
  <2> HIDE DEF base
  <2>4. Pays(q) => Paid(q) = {base} \cup (StreakClaims(View(q), q) \cup IdentityClaims(View(q), q))
    BY DEF Paid, Awards, base
  <2>5. ~Pays(q) => Paid(q) = {}
    BY DEF Paid
  <2> QED
    BY <2>1, <2>2, <2>3, <2>4, <2>5
<1>2. {e \in Undone(q) : e.type \in BaseTypes} \cup {}
        = {e \in gone \ ReversedRows : e.type \in BaseTypes}
  <2>1. \A e \in BrokenStreaks(View(q)) : e.type \notin BaseTypes
    BY DEF BrokenStreaks, BaseTypes
  <2> QED
    BY <2>1 DEF Undone, ToReverse
<1> HIDE DEF base, fresh, gone
<1>3. BaseRows' = BaseRows \cup fresh
  BY <1>0, <1>1 DEF BaseRows
<1>4. Outstanding' = (Outstanding \ gone) \cup fresh
  BY <1>0, <1>1, <1>2 DEF Outstanding
<1> QED
  BY <1>3, <1>4 DEF base, fresh, gone

(* A settlement leaves the day it is about paid as it is done.              *)
LEMMA SettleExact ==
    ASSUME PaidState, NEW r \in Requests, Settle(r), UpToDate(req[r])
    PROVE  RowIds' /\ PaidOnce'
<1> DEFINE q == req[r]
           d0 == q.day
           base == Entry(q.op, q.ask.kind, q.row.id, 0, Coins[q.ask.kind])
           fresh == IF Pays(q) THEN {base} ELSE {}
<1>0. /\ q.pc \in {"wrote", "user"} /\ ops' = ops /\ q \in Request /\ d0 \in Days
      /\ q.op \in Nat /\ ops \in Nat /\ q.op <= ops
      /\ completion \in [Days -> Row \cup {NoRow}] /\ q.ask.kind \in Kinds
  BY Before DEF PaidState, LedgerInv, FreshOps, Settle, ReadyToSettle, Sound, TablesOK, Request
<1>1. /\ ~q.adopted /\ q.existing = completion[d0] /\ q.row = WrittenRow(q)
      /\ \A e \in ledger : e.op < q.op
      /\ \A d \in Days : completion[d] # NoRow => completion[d].id < q.op
  BY <1>0 DEF UpToDate
<1>2. \A d \in Days : completion'[d] = IF d = d0 THEN q.row ELSE completion[d]
  BY <1>0, <1>1 DEF Settle, View
<1>3. PriorAward(q) <=> DoneAt(d0)
  BY <1>1 DEF PriorAward, DoneAt
<1>4. q.row # NoRow =>
        /\ q.row.status = IsCompleted(q.ask) /\ q.row.kind = q.ask.kind
        /\ q.row.id = IF q.existing = NoRow THEN q.op ELSE q.existing.id
  BY <1>1 DEF WrittenRow
<1>5. Removing(q) <=> q.row = NoRow
  <2>1. Removing(q) => q.row = NoRow
    BY <1>1 DEF Removing, WrittenRow
  <2>2. ~Removing(q) => q.row # NoRow
    BY <1>0, Before DEF PaidState, LedgerInv, Sound
  <2> QED
    BY <2>1, <2>2
<1>6. ~IsCompleted(q.ask) => q.ask.kind = "FULL"
  BY DEF IsCompleted
<1>7. \A d \in Days : d # d0 /\ completion[d] # NoRow /\ q.row # NoRow
                        => completion[d].id # q.row.id
  <2>1. \A d \in Days : completion[d] # NoRow => completion[d].id \in Nat
    BY <1>0 DEF Row
  <2> QED
    BY <1>0, <1>1, <1>4, <2>1 DEF PaidState, RowIds
<1>8. RowIds'
  <2>1. q.row # NoRow => q.row.id <= ops /\ (~q.row.status => q.row.kind = "FULL")
    BY <1>0, <1>1, <1>4, <1>6 DEF PaidState, RowIds
  <2>2. \A d, x \in Days : completion'[d] # NoRow /\ completion'[x] # NoRow
            /\ completion'[d].id = completion'[x].id => d = x
    BY <1>2, <1>7 DEF PaidState, RowIds
  <2>3. \A d \in Days : completion'[d] # NoRow =>
          /\ completion'[d].id <= ops'
          /\ ~completion'[d].status => completion'[d].kind = "FULL"
    BY <1>0, <1>2, <2>1 DEF PaidState, RowIds
  <2> QED
    BY <2>2, <2>3 DEF RowIds
<1>9. /\ BaseRows' = BaseRows \cup fresh
      /\ Outstanding' = (Outstanding \ (IF Reverses(q) THEN LatestBase(q) ELSE {}))
                          \cup fresh
  BY SettleBase DEF PaidState
<1>10. base.type = q.ask.kind /\ base.ref[1] = q.row.id /\ base.op = q.op
  BY DEF Entry
<1> HIDE DEF base
<1>11. CASE Reverses(q) \/ ~PriorAward(q)
  <2>1. (IF Reverses(q) THEN LatestBase(q) ELSE {}) = PaidFor(d0)
    <3>1. CASE PriorAward(q)
      <4>1. LatestBase(q) = PaidFor(d0)
        BY <1>0, <1>1, <1>3, <3>1, LatestIsPaid, Zenon DEF LatestBase, BaseAwards
      <4> QED
        BY <1>11, <3>1, <4>1
    <3>2. CASE ~PriorAward(q)
      <4>1. PaidFor(d0) = {}
        BY <1>3, <3>2 DEF PaidFor
      <4> QED
        BY <3>2, <4>1 DEF Reverses, Losing, Swapping, KindChanged
    <3> QED
      BY <3>1, <3>2
  <2>2. Pays(q) <=> q.row # NoRow /\ q.row.status
    BY <1>4, <1>5, <1>11
       DEF Pays, Earning, Swapping, KindChanged, Reverses, Losing
  <2>3. UNION {PaidFor(d) : d \in {d0}} = PaidFor(d0)
    OBVIOUS
  <2>4. {d0} \in SUBSET Days
    BY <1>0
  <2>5. \A d \in Days \ {d0} : completion'[d] = completion[d]
    BY <1>2
  <2>6. completion'[d0] = q.row
    BY <1>0, <1>2
  <2>7. \A d \in {d0} : completion'[d] # NoRow /\ completion'[d].status
              => \E b \in fresh : b.ref[1] = completion'[d].id
    BY <1>10, <2>2, <2>6
  <2>8. \A b \in fresh : /\ \E d \in {d0} : /\ completion'[d] # NoRow
                                            /\ completion'[d].status
                                            /\ b.ref[1] = completion'[d].id
                                            /\ b.type = completion'[d].kind
                         /\ \A e \in ledger : e.op < b.op
    BY <1>1, <1>4, <1>10, <2>2, <2>6
  <2>9. Outstanding' = (Outstanding \ UNION {PaidFor(d) : d \in {d0}}) \cup fresh
    BY <1>9, <2>1, <2>3
  <2>10. \A b, c \in fresh : b = c
    OBVIOUS
  <2>11. PaidOnce /\ RowIds
    BY DEF PaidState
  <2>12. BaseRows' = BaseRows \cup fresh
    BY <1>9
  <2> HIDE DEF fresh, d0
  <2> QED
    BY <1>8, <2>4, <2>5, <2>7, <2>8, <2>9, <2>10, <2>11, <2>12, Repaid
<1>12. CASE ~Reverses(q) /\ PriorAward(q)
  <2>1. ~Removing(q) /\ IsCompleted(q.ask) /\ q.existing.kind = q.ask.kind
    BY <1>12 DEF Reverses, Losing, Swapping, KindChanged
  <2>2. ~Pays(q)
    BY <1>12 DEF Pays, Earning, Reverses
  <2>3. /\ q.row # NoRow /\ q.row.status /\ q.row.id = completion[d0].id
        /\ q.row.kind = completion[d0].kind
    BY <1>1, <1>4, <1>5, <1>12, <2>1 DEF PriorAward
  <2>4. \A d \in Days : /\ DoneAt(d) <=> completion'[d] # NoRow /\ completion'[d].status
                        /\ DoneAt(d) => /\ completion'[d].id = completion[d].id
                                        /\ completion'[d].kind = completion[d].kind
    BY <1>2, <1>3, <1>12, <2>3 DEF DoneAt
  <2>5. Outstanding' = Outstanding /\ BaseRows' = BaseRows
    BY <1>9, <1>12, <2>2
  <2>6. \A e \in Outstanding : \E d \in Days :
          /\ completion'[d] # NoRow /\ completion'[d].status
          /\ e.ref[1] = completion'[d].id /\ e.type = completion'[d].kind
    BY <2>4 DEF PaidState, PaidOnce
  <2>7. \A d \in Days : completion'[d] # NoRow /\ completion'[d].status =>
          \E e \in Outstanding : e.ref[1] = completion'[d].id
    BY <2>4 DEF PaidState, PaidOnce
  <2>8. /\ \A e, f \in Outstanding : e.ref[1] = f.ref[1] => e = f
        /\ \A e \in Outstanding, x \in BaseRows :
              x.type = e.type /\ x.ref[1] = e.ref[1] /\ x # e => x.op < e.op
    BY DEF PaidState, PaidOnce
  <2> QED
    BY <1>8, <2>5, <2>6, <2>7, <2>8 DEF PaidOnce, DoneAt
<1> QED
  BY <1>8, <1>11, <1>12

(* A step that leaves the rows and the awards leaves every day paid.        *)
LEMMA StillPaid ==
    ASSUME PaidState, completion' = completion, BaseRows' = BaseRows,
           Outstanding' = Outstanding, ops' = ops \/ ops' = ops + 1
    PROVE  RowIds' /\ PaidOnce'
<1>1. \A d \in Days : completion[d] # NoRow => completion[d].id <= ops'
  <2>1. ops \in Nat /\ completion \in [Days -> Row \cup {NoRow}]
    BY Before DEF PaidState, LedgerInv, TypeInv, TypeOK, TablesOK
  <2> QED
    BY <2>1 DEF PaidState, RowIds, Row
<1> QED
  BY <1>1 DEF PaidState, RowIds, PaidOnce, DoneAt

(* The row a done day has and the row it will have.                         *)
RowsStay == completion' = completion /\ ledger' = ledger /\ reversals' = reversals

(* A step of a request settles, spends, deletes, or leaves all rows alone.  *)
LEMMA RowsKinds ==
    ASSUME LedgerInv, NEW r \in Requests, Toggle(r) \/ Purchase(r) \/ Remove(r) \/ Abandon(r),
           ~Settle(r), ~DeleteHabit(r)
    PROVE  /\ completion' = completion /\ BaseRows' = BaseRows
           /\ Outstanding' = Outstanding /\ (ops' = ops \/ ops' = ops + 1)
           /\ \/ RowsStay
              \/ (FreezeSettle(r) \/ RedeemSettle(r)) /\ ~Fail(r)
<1>1. CASE (FreezeSettle(r) \/ RedeemSettle(r)) /\ ~Fail(r)
  <2>1. completion' = completion /\ ops' = ops /\ reversals' = reversals
    BY <1>1 DEF FreezeSettle, RedeemSettle
  <2>2. PICK e \in EntryRows : ledger' = ledger \cup {e} /\ e.type \in DebitTypes
    BY <1>1, PurchaseRow
  <2>3. BaseRows' = BaseRows /\ Outstanding' = Outstanding
    BY <2>1, <2>2 DEF BaseRows, Outstanding, DebitTypes, BaseTypes, ReversedRows
  <2> QED
    BY <1>1, <2>1, <2>3
<1>2. CASE ~((FreezeSettle(r) \/ RedeemSettle(r)) /\ ~Fail(r))
  <2>1. RowsStay /\ (ops' = ops \/ ops' = ops + 1)
    <3>1. CASE Toggle(r) \/ Abandon(r)
      BY <3>1, StartsFresh, GoesOnFresh DEF Toggle, Numbered, tables, RowsStay
    <3>2. CASE Purchase(r)
      BY <1>2, <3>2, StartsFresh DEF Purchase, Numbered, Fail, tables, RowsStay
    <3>3. CASE Remove(r)
      BY <3>3, StartsFresh DEF Remove, Numbered, ArchiveHabit, tables, RowsStay
    <3> QED
      BY <3>1, <3>2, <3>3
  <2>2. BaseRows' = BaseRows /\ Outstanding' = Outstanding
    BY <2>1 DEF BaseRows, Outstanding, ReversedRows, RowsStay
  <2>3. completion' = completion
    BY <2>1 DEF RowsStay
  <2> QED
    BY <2>1, <2>2, <2>3
<1> QED
  BY <1>1, <1>2

(* Only a settlement and a removal can change what days are paid.           *)
LEMMA PaidKinds ==
    ASSUME PaidState, NEW r \in Requests, Toggle(r) \/ Purchase(r) \/ Remove(r) \/ Abandon(r),
           ~Settle(r), ~DeleteHabit(r)
    PROVE  /\ RowIds' /\ PaidOnce' /\ completion' = completion
           /\ \/ RowsStay
              \/ (FreezeSettle(r) \/ RedeemSettle(r)) /\ ~Fail(r)
<1>1. LedgerInv
  BY DEF PaidState
<1> QED
  BY <1>1, RowsKinds, StillPaid

(* A request that is not in a toggle or a removal has nothing to keep.      *)
Unbound(q) == q.pc \notin {"read", "wrote", "user", "delete"}

LEMMA UnboundUpToDate ==
    ASSUME NEW s \in Requests, Unbound(req'[s])
    PROVE  UpToDate(req[s])'
  BY DEF Unbound, UpToDate

(* What a toggle reads first is what it finds in its transaction.           *)
LEMMA BeginUpToDate ==
    ASSUME PaidState, NEW r \in Requests, NEW d \in Days, NEW ask \in Asks,
           Begin(r, d, ask)
    PROVE  UpToDate(req[r])'
<1> DEFINE q == [Idle EXCEPT !.pc = "read", !.op = ops + 1, !.day = d,
                             !.ask = ask, !.existing = completion[d]]
<1>1. req'[r] = q /\ UNCHANGED tables
  BY DEF Begin, PaidState, LedgerInv, TypeInv, TypeOK
<1>2. q.pc = "read" /\ q.op = ops + 1 /\ q.day = d /\ q.existing = completion[d] /\ ~q.adopted
  BY DEF Idle
<1> HIDE DEF q
<1>3. /\ \A e \in ledger : e.op < ops + 1
      /\ \A x \in Days : completion[x] # NoRow => completion[x].id < ops + 1
  <2>1. /\ ops \in Nat /\ completion \in [Days -> Row \cup {NoRow}]
        /\ \A e \in ledger : e.op \in Nat /\ e.op <= ops
    BY Before DEF PaidState, LedgerInv, TypeInv, TypeOK, TablesOK, FreshOps, EntryRows
  <2> QED
    BY <2>1 DEF PaidState, RowIds, Row
<1> QED
  BY <1>1, <1>2, <1>3 DEF UpToDate, tables

(* And what it writes is made from it.                                      *)
LEMMA GoesOnUpToDate ==
    ASSUME PaidState, NEW r \in Requests, UpToDate(req[r]),
           WriteExisting(r) \/ CreateRow(r) \/ CreateConflict(r) \/ ReadUser(r)
    PROVE  UpToDate(req[r])'
<1> DEFINE q == req[r]
<1>0. q \in Request /\ req \in [Requests -> Request] /\ UNCHANGED tables
  BY Before, GoesOnFresh DEF PaidState, LedgerInv, TypeInv, TypeOK
<1>1. CASE Fail(r)
  <2>1. Unbound(req'[r])
    BY <1>0, <1>1 DEF Fail, Done, Idle, Unbound
  <2> QED
    BY <2>1, UnboundUpToDate
<1>2. CASE ~Fail(r)
  <2>1. /\ q.pc \in {"read", "wrote"} /\ req'[r].pc \in {"wrote", "user"}
        /\ req'[r].op = q.op /\ req'[r].day = q.day /\ req'[r].ask = q.ask
        /\ req'[r].existing = q.existing /\ ~req'[r].adopted
        /\ req'[r].row = WrittenRow(q)
    <3>1. CASE WriteExisting(r)
      BY <1>0, <1>2, <3>1 DEF WriteExisting, UpToDate, WrittenRow, Request
    <3>2. CASE CreateRow(r)
      BY <1>0, <3>2 DEF CreateRow, UpToDate, WrittenRow, Request
    <3>3. CASE CreateConflict(r)
      BY <1>2, <3>3 DEF CreateConflict, UpToDate
    <3>4. CASE ReadUser(r)
      BY <1>0, <3>4 DEF ReadUser, UpToDate, Request
    <3> QED
      BY <3>1, <3>2, <3>3, <3>4
  <2>2. WrittenRow(req'[r]) = WrittenRow(q)
    BY <2>1 DEF WrittenRow
  <2> QED
    BY <1>0, <2>1, <2>2 DEF UpToDate, tables
<1> QED
  BY <1>1, <1>2

(* A removal that counted nothing still finds nothing.                      *)
LEMMA CountUpToDate ==
    ASSUME PaidState, NEW r \in Requests, DeleteCount(r)
    PROVE  UpToDate(req[r])'
<1> DEFINE all == {d \in Days : completion[d] # NoRow}
           n == Cardinality(all) + IF Linked THEN 1 ELSE 0
<1>1. IsFiniteSet(all)
  <2>1. IsFiniteSet(Days) /\ all \subseteq Days
    BY FS_Interval, HabitRewardsAssumption DEF Days
  <2> QED
    BY <2>1, FS_Subset
<1>2. n = 0 => all = {}
  BY <1>1, FS_CardinalityType, FS_EmptySet
<1>3. req' = [req EXCEPT ![r] = [Idle EXCEPT !.pc = "delete", !.op = ops + 1,
                                             !.seen = n]]
  BY DEF DeleteCount
<1> HIDE DEF n
<1>4. req'[r].pc = "delete" /\ req'[r].seen = n
  BY <1>3 DEF Idle, PaidState, LedgerInv, TypeInv, TypeOK
<1>5. completion' = completion
  BY DEF DeleteCount, tables
<1> QED
  BY <1>2, <1>4, <1>5 DEF UpToDate

(* The other handlers end a toggle, or have nothing to do with one.         *)
LEMMA EndsUnbound ==
    ASSUME TypeInv, NEW r \in Requests,
           \/ \E d \in Days : FreezeCheck(r, d)
           \/ \E i \in Items : RedeemCheck(r, i)
           \/ FreezeSettle(r) \/ RedeemSettle(r) \/ Settle(r) \/ SettleConflict(r)
           \/ ArchiveHabit(r) \/ DeleteHabit(r) \/ Announce(r) \/ Abandon(r)
    PROVE  Unbound(req'[r])
<1>0. req \in [Requests -> Request]
  BY DEF TypeInv, TypeOK
<1>1. CASE Done(r)
  BY <1>0, <1>1 DEF Done, Idle, Unbound
<1>2. CASE Settle(r)
  BY <1>0, <1>2 DEF Settle, Unbound, Request
<1>3. CASE SettleConflict(r) /\ ~Fail(r)
  BY <1>0, <1>3 DEF SettleConflict, Unbound, Request
<1>4. ASSUME NEW d \in Days, FreezeCheck(r, d) PROVE Unbound(req'[r])
  BY <1>0, <1>4 DEF FreezeCheck, Idle, Unbound
<1>5. ASSUME NEW i \in Items, RedeemCheck(r, i) PROVE Unbound(req'[r])
  BY <1>0, <1>5 DEF RedeemCheck, Idle, Unbound
<1>6. FreezeSettle(r) \/ RedeemSettle(r) \/ ArchiveHabit(r) \/ DeleteHabit(r)
        \/ Announce(r) \/ Abandon(r) \/ Fail(r) => Done(r)
  BY DEF FreezeSettle, RedeemSettle, ArchiveHabit, DeleteHabit, Announce, Abandon, Fail
<1> QED
  BY <1>1, <1>2, <1>3, <1>4, <1>5, <1>6

(* A step replaces the record of one request.                               *)
LEMMA OthersLeft ==
    ASSUME TypeInv, NEW r \in Requests, Toggle(r) \/ Purchase(r) \/ Remove(r) \/ Abandon(r)
    PROVE  \A s \in Requests \ {r} : req'[s] = req[s]
<1>1. \E q : req' = [req EXCEPT ![r] = q]
  BY Zenon DEF Toggle, Purchase, Remove, Abandon, Begin, WriteExisting, CreateRow,
     CreateConflict, ReadUser, Settle, SettleConflict, Announce, FreezeCheck,
     FreezeSettle, RedeemCheck, RedeemSettle, DeleteCount, ArchiveHabit,
     DeleteHabit, Fail, Done
<1> QED
  BY <1>1 DEF TypeInv, TypeOK

(* A step of one request, the others resting unless it only begins.         *)
LEMMA ExactStep ==
    ASSUME PaidState, \A s \in Requests : UpToDate(req[s]),
           NEW r \in Requests, Toggle(r) \/ Purchase(r) \/ Remove(r) \/ Abandon(r),
           req[r].pc # "idle" => \A s \in Requests \ {r} : req[s].pc = "idle"
    PROVE  RowIds' /\ PaidOnce' /\ \A s \in Requests : UpToDate(req[s])'
<1>0. TypeInv /\ \A s \in Requests \ {r} : req'[s] = req[s]
  BY OthersLeft DEF PaidState, LedgerInv
<1>1. RowIds' /\ PaidOnce'
  <2>1. CASE DeleteHabit(r)
    <3>1. \A d \in Days : completion[d] = NoRow
      BY <2>1 DEF DeleteHabit, UpToDate
    <3>2. completion' = completion
      BY <2>1, <3>1 DEF DeleteHabit, PaidState, LedgerInv, TypeInv, TypeOK, TablesOK
    <3>3. BaseRows' = BaseRows /\ Outstanding' = Outstanding /\ ops' = ops
      BY <2>1 DEF DeleteHabit, BaseRows, Outstanding, ReversedRows
    <3> QED
      BY <3>2, <3>3, StillPaid
  <2> QED
    BY <2>1, SettleExact, PaidKinds
<1>2. UpToDate(req[r])'
  <2>1. CASE Toggle(r)
    BY <1>0, <2>1, BeginUpToDate, GoesOnUpToDate, EndsUnbound, UnboundUpToDate DEF Toggle
  <2>2. CASE Purchase(r)
    BY <1>0, <2>2, EndsUnbound, UnboundUpToDate DEF Purchase
  <2>3. CASE Remove(r)
    BY <1>0, <2>3, CountUpToDate, EndsUnbound, UnboundUpToDate DEF Remove
  <2> QED
    BY <1>0, <2>1, <2>2, <2>3, EndsUnbound, UnboundUpToDate
<1>3. ASSUME NEW s \in Requests \ {r} PROVE UpToDate(req[s])'
  <2>1. CASE req[r].pc = "idle"
    <3>1. UNCHANGED tables
      <4>1. CASE Toggle(r)
        BY <2>1, <4>1 DEF Toggle, Begin, WriteExisting, CreateRow, CreateConflict,
           ReadUser, Settle, SettleConflict, ReadyToSettle, Announce
      <4>2. CASE Purchase(r)
        BY <2>1, <4>2 DEF Purchase, FreezeCheck, FreezeSettle, RedeemCheck, RedeemSettle
      <4>3. CASE Remove(r)
        BY <2>1, <4>3 DEF Remove, DeleteCount, ArchiveHabit, DeleteHabit
      <4> QED
        BY <2>1, <4>1, <4>2, <4>3 DEF Abandon
    <3> QED
      BY <1>0, <3>1 DEF UpToDate, tables
  <2>2. CASE req[r].pc # "idle"
    <3>1. Unbound(req'[s])
      BY <1>0, <2>2 DEF Unbound
    <3> QED
      BY <3>1, UnboundUpToDate
  <2> QED
    BY <2>1, <2>2
<1> QED
  BY <1>1, <1>2, <1>3

-----------------------------------------------------------------------------
(* Streak bonuses, one request at a time.  Days kept stay kept until a      *)
(* settlement that takes every broken bonus back.                           *)
LEMMA StreaksKept ==
    ASSUME StreakBonusIntact, habit' # "gone" => habit # "gone",
           frozen \subseteq frozen',
           \A d \in DoneDays(completion) : d \in DoneDays(completion'),
           \A e \in (ledger \ ReversedRows)' : e.type = "STREAK" =>
              e \in ledger \ ReversedRows \/ CycleIntact(completion, e)'
    PROVE  StreakBonusIntact'
<1> SUFFICES ASSUME habit' # "gone", NEW e \in (ledger \ ReversedRows)', e.type = "STREAK"
             PROVE  CycleIntact(completion, e)'
  BY DEF StreakBonusIntact
<1>1. CASE e \in ledger \ ReversedRows
  <2>1. CycleIntact(completion, e)
    BY <1>1 DEF StreakBonusIntact
  <2> QED
    BY <2>1 DEF CycleIntact, Kept
<1> QED
  BY <1>1

(* A settlement claims bonuses of runs that are whole, and takes back those *)
(* of cycles that are broken whenever it can break one.                     *)
LEMMA SettleStreaks ==
    ASSUME PaidState, StreakBonusIntact, NEW r \in Requests, Settle(r), UpToDate(req[r])
    PROVE  StreakBonusIntact'
<1> DEFINE q == req[r]
           rows == View(q)
           claims == StreakClaims(rows, q)
<1>0. /\ completion' = rows /\ habit' = habit /\ frozen' = frozen
      /\ ledger' = ledger \cup Paid(q) /\ ReversedRows' = ReversedRows \cup Undone(q)
      /\ Paid(q) \cap ledger = {}
      /\ q.day \in Days
  BY PaidIsNew, NewlyReversed, Before
     DEF PaidState, LedgerInv, Settle, ReadyToSettle, Sound
<1>1. \A e \in Paid(q) : e.type = "STREAK" => e \in claims
  <2>1. q.ask.kind # "STREAK"
    BY Before, HabitRewardsAssumption DEF PaidState, LedgerInv
  <2>2. \A e \in IdentityClaims(rows, q) : e.type # "STREAK"
    BY DEF IdentityClaims, Entry
  <2> QED
    BY <2>1, <2>2 DEF Paid, Awards, Entry
<1>2. \A e \in claims : CycleIntact(rows, e)
  <2> SUFFICES ASSUME NEW e \in claims PROVE CycleIntact(rows, e)
    OBVIOUS
  <2>1. PICK k \in NewMilestones(rows, q.day) :
           e = Entry(q.op, "STREAK", k[1], k[2], StreakBonus[k[1]])
    BY DEF StreakClaims
  <2>2. /\ k \in Milestones \X Days /\ Run(rows, k[2], q.day)
        /\ k[1] <= q.day + 1 - k[2]
    BY DEF NewMilestones
  <2>3. k[1] \in Nat /\ k[2] \in Nat /\ k[2] >= 1 /\ q.day \in Nat /\ q.day <= NumDays
    <3>1. k[1] \in Milestones /\ k[2] \in Days
      BY <2>2
    <3>2. \A m \in Milestones : m \in Nat
      BY HabitRewardsAssumption
    <3>3. \A n \in Days : n \in Nat /\ n >= 1 /\ n <= NumDays
      BY HabitRewardsAssumption DEF Days
    <3> QED
      BY <1>0, <3>1, <3>2, <3>3
  <2>4. e.ref[1] = k[1] /\ e.ref[2] = k[2]
    BY <2>1 DEF Entry
  <2>5. ASSUME NEW i \in 0 .. k[1] - 1
        PROVE  k[2] + i \in Days /\ k[2] + i \in k[2] .. q.day
    BY <2>2, <2>3, HabitRewardsAssumption DEF Days
  <2> QED
    BY <2>2, <2>4, <2>5 DEF CycleIntact, Run
<1>3. CASE Reverses(q)
  <2>1. \A e \in ledger \ ReversedRows' : e.type = "STREAK" => CycleIntact(rows, e)
    BY <1>0, <1>3 DEF Undone, ToReverse, BrokenStreaks
  <2>2. \A e \in ledger' \ ReversedRows' : e.type = "STREAK" => CycleIntact(rows, e)
    BY <1>0, <1>1, <1>2, <2>1
  <2>3. \A e : CycleIntact(rows, e) => CycleIntact(completion, e)'
    BY <1>0 DEF CycleIntact, Kept
  <2> HIDE DEF rows
  <2> QED
    BY <2>2, <2>3 DEF StreakBonusIntact
<1>4. CASE ~Reverses(q)
  <2>1. ~Losing(q) /\ ~Swapping(q)
    BY <1>4 DEF Reverses
  <2>2. q.existing = completion[q.day] /\ q.row = WrittenRow(q) /\ ~q.adopted
    BY DEF UpToDate, Settle, ReadyToSettle
  <2>3. \A d \in DoneDays(completion) : d \in DoneDays(rows)
    <3>1. rows = [completion EXCEPT ![q.day] = q.row]
      BY <2>2 DEF View
    <3>2. PriorAward(q) => q.row # NoRow /\ q.row.status
      <4>1. PriorAward(q) => ~Removing(q) /\ IsCompleted(q.ask)
        BY <2>1 DEF Losing
      <4>2. q.row # NoRow \/ Removing(q)
        BY <1>0, Before DEF PaidState, LedgerInv, Sound, Settle, ReadyToSettle
      <4>3. PriorAward(q) => q.row.status = IsCompleted(q.ask)
        BY <2>2, <4>1 DEF WrittenRow, Removing, PriorAward
      <4> QED
        BY <4>1, <4>2, <4>3
    <3>3. completion \in [Days -> Row \cup {NoRow}]
      BY Before DEF PaidState, LedgerInv, TypeInv, TypeOK, TablesOK
    <3> QED
      BY <1>0, <2>2, <3>1, <3>2, <3>3 DEF DoneDays, PriorAward
  <2>4. \A e : CycleIntact(rows, e) => CycleIntact(completion, e)'
    BY <1>0 DEF CycleIntact, Kept
  <2>5. \A e \in (ledger \ ReversedRows)' : e.type = "STREAK" =>
              e \in ledger \ ReversedRows \/ CycleIntact(completion, e)'
    BY <1>0, <1>1, <1>2, <2>4
  <2>6. \A d \in DoneDays(completion) : d \in DoneDays(completion')
    BY <1>0, <2>3
  <2> QED
    BY <1>0, <2>5, <2>6, StreaksKept
<1> QED
  BY <1>3, <1>4

(* Any other step writes no streak bonus, and unmakes no day.               *)
LEMMA StreakStep ==
    ASSUME PaidState, StreakBonusIntact, NEW r \in Requests, UpToDate(req[r]),
           Toggle(r) \/ Purchase(r) \/ Remove(r) \/ Abandon(r)
    PROVE  StreakBonusIntact'
<1>1. CASE Settle(r)
  BY <1>1, SettleStreaks
<1>2. CASE DeleteHabit(r)
  BY <1>2 DEF DeleteHabit, StreakBonusIntact
<1>3. CASE ~Settle(r) /\ ~DeleteHabit(r)
  <2>1. completion' = completion
    BY <1>3, PaidKinds
  <2>2. \A e \in (ledger \ ReversedRows)' : e.type = "STREAK" => e \in ledger \ ReversedRows
    <3>1. CASE RowsStay
      BY <3>1 DEF RowsStay, ReversedRows
    <3>2. CASE (FreezeSettle(r) \/ RedeemSettle(r)) /\ ~Fail(r)
      BY <3>2, PurchaseRow DEF PaidState, ReversedRows, DebitTypes
    <3> QED
      BY <1>3, <3>1, <3>2, PaidKinds
  <2>3. (habit' # "gone" => habit # "gone") /\ frozen \subseteq frozen'
    <3>1. CASE Toggle(r) \/ Abandon(r)
      BY <1>3, <3>1, StartsFresh, GoesOnFresh DEF PaidState, Toggle, tables
    <3>2. CASE Purchase(r)
      BY <3>2, StartsFresh
         DEF PaidState, Purchase, FreezeSettle, RedeemSettle, Fail, tables
    <3>3. CASE Remove(r)
      BY <1>3, <3>3, StartsFresh DEF PaidState, Remove, ArchiveHabit, tables
    <3> QED
      BY <3>1, <3>2, <3>3
  <2> QED
    BY <2>1, <2>2, <2>3, StreaksKept
<1> QED
  BY <1>1, <1>2, <1>3

-----------------------------------------------------------------------------
ExactInv ==
    PaidState /\ StreakBonusIntact /\ \A r \in Requests : UpToDate(req[r])

(* At first there is nothing to pay.                                        *)
LEMMA ExactStart == Init => ExactInv
<1> SUFFICES ASSUME Init PROVE ExactInv
  OBVIOUS
<1>1. RowIds /\ PaidOnce /\ StreakBonusIntact
  BY DEF Init, RowIds, PaidOnce, Outstanding, DoneAt, StreakBonusIntact
<1>2. \A r \in Requests : UpToDate(req[r])
  BY DEF Init, Idle, UpToDate
<1> QED
  BY <1>1, <1>2, LedgerStart DEF ExactInv, PaidState

(* One request at a time keeps days and awards together.                    *)
LEMMA ExactAlways == OneAtATime /\ ExactInv /\ [Next]_vars => ExactInv'
<1> SUFFICES ASSUME OneAtATime, ExactInv, [Next]_vars PROVE ExactInv'
  OBVIOUS
<1>1. LedgerInv'
  BY LedgerStep DEF ExactInv, PaidState
<1>2. ASSUME NEW r \in Requests, Toggle(r) \/ Purchase(r) \/ Remove(r) \/ Abandon(r)
      PROVE  ExactInv'
  <2>1. req[r].pc # "idle" => \A s \in Requests \ {r} : req[s].pc = "idle"
    BY DEF OneAtATime
  <2> QED
    BY <1>1, <1>2, <2>1, ExactStep, StreakStep DEF ExactInv, PaidState
<1>3. CASE UNCHANGED vars
  <2>1. RowIds' /\ PaidOnce' /\ StreakBonusIntact' /\ \A r \in Requests : UpToDate(req[r])'
    BY <1>3 DEF ExactInv, PaidState, vars, tables, RowIds, PaidOnce, Outstanding, BaseRows,
       ReversedRows, DoneAt, StreakBonusIntact, CycleIntact, Kept, UpToDate
  <2> QED
    BY <1>1, <2>1 DEF ExactInv, PaidState
<1> QED
  BY <1>2, <1>3 DEF Next

(* What the invariant says of a day, in the words of the property.          *)
LEMMA ExactlyPaid == PaidState => DayPaidExactly
<1> SUFFICES ASSUME PaidState PROVE DayPaidExactly
  OBVIOUS
<1>1. \A d \in Days : d \in DoneDays(completion) <=> DoneAt(d)
  BY DEF DoneDays, DoneAt
<1>2. ASSUME NEW d \in Days, DoneAt(d)
      PROVE  Cardinality({e \in Outstanding : e.ref[1] = completion[d].id}) = 1
  <2>1. PICK p : PaidFor(d) = {p}
    BY <1>2, LatestIsPaid
  <2>2. {e \in Outstanding : e.ref[1] = completion[d].id} = {p}
    BY <1>2, <2>1 DEF PaidFor
  <2> QED
    BY <2>2, FS_Singleton
<1>3. DoneDays(completion) \subseteq Days
  BY DEF DoneDays
<1> QED
  BY <1>1, <1>2, <1>3 DEF DayPaidExactly, PaidState, PaidOnce

(* With requests one after the other the standing base awards are exactly   *)
(* those of the completed days, one each and of the day's kind, after any   *)
(* sequence of logs, downgrades, swaps, removals and failures.              *)
THEOREM DaysPaidExactly == Spec /\ []OneAtATime => []DayPaidExactly
<1>1. ExactInv => DayPaidExactly
  BY ExactlyPaid DEF ExactInv
<1> QED
  BY <1>1, ExactStart, ExactAlways, PTL DEF Spec

(* With requests one after the other a streak bonus stands only while its   *)
(* cycle is intact.                                                         *)
THEOREM StreaksStand == Spec /\ []OneAtATime => []StreakBonusIntact
<1>1. ExactInv => StreakBonusIntact
  BY DEF ExactInv
<1> QED
  BY <1>1, ExactStart, ExactAlways, PTL DEF Spec

-----------------------------------------------------------------------------
(* Experience, one request at a time.  What a level costs.                  *)
Costs == [l \in Nat |-> XpNeeded(l)]

CostParts(S, g) ==
    g = [s \in SUBSET S |->
            IF s = {} THEN 0 ELSE XpNeeded(First(s)) + g[s \ {First(s)}]]

LEMMA CostIs ==
    ASSUME NEW S
    PROVE  MapThenSumSet(XpNeeded, S) = (CHOOSE g : CostParts(S, g))[S]
  BY DEF MapThenSumSet, MapThenFoldSet, CostParts, First

LEMMA CostIsSum ==
    ASSUME NEW S, S \subseteq Nat
    PROVE  MapThenSumSet(XpNeeded, S) = SumOver(Costs, S)
<1>1. ASSUME NEW g PROVE CostParts(S, g) <=> Parts(Costs, S, g)
  <2>1. \A s \in SUBSET S : s # {} => XpNeeded(First(s)) = Costs[First(s)]
    BY FirstIn DEF Costs
  <2>2. \A s \in SUBSET S :
          (IF s = {} THEN 0 ELSE XpNeeded(First(s)) + g[s \ {First(s)}])
          = (IF s = {} THEN 0 ELSE Costs[First(s)] + g[s \ {First(s)}])
    BY <2>1
  <2> QED
    BY <2>2 DEF CostParts, Parts
<1>2. (CHOOSE g : CostParts(S, g)) = (CHOOSE g : Parts(Costs, S, g))
  BY <1>1
<1> QED
  BY <1>2, CostIs, SumIs

(* The points that were spent on reaching a level.                          *)
Spent(level) == SumOver(Costs, 1 .. level - 1)

LEMMA SpentAre ==
    ASSUME NEW n \in Nat \ {0}
    PROVE  /\ Spent(n) \in Int /\ Spent(1) = 0
           /\ Spent(n + 1) = Spent(n) + XpNeeded(n)
<1>1. \A l \in Nat \ {0} : Costs[l] = XpNeeded(l) /\ Costs[l] \in Int
  BY HabitRewardsAssumption DEF Costs, XpNeeded
<1>2. IsFiniteSet(1 .. n - 1) /\ Summands(Costs, 1 .. n - 1)
  BY <1>1, FS_Interval DEF Summands
<1>3. 1 .. (n + 1) - 1 = (1 .. n - 1) \cup {n} /\ n \notin 1 .. n - 1
  OBVIOUS
<1>4. SumOver(Costs, (1 .. n - 1) \cup {n}) = SumOver(Costs, 1 .. n - 1) + Costs[n]
  BY <1>1, <1>2, <1>3, SumAdds
<1>5. 1 .. 1 - 1 = {}
  OBVIOUS
<1>6. Spent(1) = 0
  BY <1>5, SumOfNone DEF Spent
<1>7. Spent(n) \in Int
  BY <1>2, SumType DEF Spent
<1> QED
  BY <1>1, <1>3, <1>4, <1>6, <1>7 DEF Spent

LEMMA EarnedIs ==
    ASSUME user.level \in Nat
    PROVE  EarnedXp = Spent(user.level) + user.xp
<1>1. 1 .. user.level - 1 \subseteq Nat
  OBVIOUS
<1> QED
  BY <1>1, CostIsSum DEF EarnedXp, Spent

(* A settlement completes a day, takes a completed one back or leaves the   *)
(* completed days alone.                                                    *)
LEMMA DoneMoves ==
    ASSUME PaidState, NEW r \in Requests, Settle(r), UpToDate(req[r])
    PROVE  LET q == req[r]
               done == DoneDays(completion)
           IN  /\ q.day \in Days
               /\ Earning(q) => q.day \notin done /\ DoneDays(completion') = done \cup {q.day}
               /\ Losing(q) => q.day \in done /\ DoneDays(completion') = done \ {q.day}
               /\ ~Earning(q) /\ ~Losing(q) => DoneDays(completion') = done
<1> DEFINE q == req[r]
           d0 == q.day
<1>0. /\ q.pc \in {"wrote", "user"} /\ d0 \in Days
      /\ completion \in [Days -> Row \cup {NoRow}]
      /\ ~Removing(q) => q.row # NoRow
  BY Before DEF PaidState, LedgerInv, Settle, ReadyToSettle, Sound, TablesOK, Request
<1>1. ~q.adopted /\ q.existing = completion[d0] /\ q.row = WrittenRow(q)
  BY <1>0 DEF UpToDate
<1>2. \A d \in Days : completion'[d] = IF d = d0 THEN q.row ELSE completion[d]
  BY <1>0, <1>1 DEF Settle, View
<1>3. q.row # NoRow => q.row.status = IsCompleted(q.ask)
  BY <1>1 DEF WrittenRow
<1>4. Removing(q) => q.row = NoRow
  BY <1>1 DEF Removing, WrittenRow
<1>5. d0 \in DoneDays(completion) <=> PriorAward(q)
  BY <1>0, <1>1 DEF DoneDays, PriorAward
<1>6. d0 \in DoneDays(completion') <=> ~Removing(q) /\ IsCompleted(q.ask)
  BY <1>0, <1>2, <1>3, <1>4 DEF DoneDays
<1>7. \A d \in Days : d # d0 => (d \in DoneDays(completion') <=> d \in DoneDays(completion))
  BY <1>2 DEF DoneDays
<1>8. DoneDays(completion) \subseteq Days /\ DoneDays(completion') \subseteq Days
  BY DEF DoneDays
<1> HIDE DEF q
<1> QED
  BY <1>0, <1>5, <1>6, <1>7, <1>8 DEF Earning, Losing, PriorAward, Removing, q

(* Beyond the first level no toggle-off is about to take more points than   *)
(* the level holds, where the code stops at zero.                           *)
NothingClamped ==
    \A r \in Requests : req[r].pc = "user" /\ req[r].level > 1 =>
        req[r].xp + XpDelta(req[r]) >= 0

(* The points a toggle has read are still the user's.                       *)
XpCurrent ==
    \A r \in Requests : req[r].pc = "user" =>
        req[r].xp = user.xp /\ req[r].level = user.level

(* Experience that is not clamped.                                          *)
LEMMA ExperienceIs ==
    ASSUME NEW r, req[r].xp \in Int, XpDelta(req[r]) \in Int,
           req[r].xp + XpDelta(req[r]) >= 0
    PROVE  LET q == req[r]
               after == ExperienceAfter(q)
               sum == q.xp + XpDelta(q)
           IN  /\ sum >= XpNeeded(q.level) =>
                    after.xp = sum - XpNeeded(q.level) /\ after.level = q.level + 1
               /\ ~(sum >= XpNeeded(q.level)) => after.xp = sum /\ after.level = q.level
<1> DEFINE q == req[r]
<1>1. (IF q.xp + XpDelta(q) < 0 THEN 0 ELSE q.xp + XpDelta(q)) = q.xp + XpDelta(q)
  OBVIOUS
<1> QED
  BY <1>1 DEF ExperienceAfter

LEMMA SettleXp ==
    ASSUME PaidState, NothingClamped, XpCurrent, XpFollowsCompletions,
           NEW r \in Requests, Settle(r), UpToDate(req[r])
    PROVE  XpFollowsCompletions'
<1> DEFINE q == req[r]
           done == DoneDays(completion)
           new == DoneDays(completion')
           n == Cardinality(done)
           delta == XpDelta(q)
<1> SUFFICES ASSUME habit' # "gone"
             PROVE  EarnedXp' = XpGain * Cardinality(new)
  BY DEF XpFollowsCompletions, DoneDays
<1>1. /\ user.xp \in Nat /\ user.level \in Nat \ {0} /\ habit = habit'
      /\ XpGain \in Nat \ {0} /\ delta \in {XpGain, -XpGain, 0}
  BY HabitRewardsAssumption, Before
     DEF PaidState, LedgerInv, TablesOK, Settle, XpDelta
<1>2. Spent(user.level) + user.xp = XpGain * n
  BY <1>1, EarnedIs DEF XpFollowsCompletions
<1>3. IsFiniteSet(done) /\ n \in Nat /\ (done # {} => n >= 1)
  <2>1. IsFiniteSet(Days)
    BY FS_Interval, HabitRewardsAssumption DEF Days
  <2>2. IsFiniteSet(done)
    BY <2>1, FS_Subset DEF DoneDays
  <2> QED
    BY <2>2, FS_CardinalityType, FS_EmptySet
<1>4. XpGain * Cardinality(new) = XpGain * n + delta
  <2>1. CASE Earning(q)
    <3>1. Cardinality(new) = n + 1 /\ delta = XpGain
      BY <1>3, <2>1, DoneMoves, FS_AddElement DEF XpDelta
    <3> QED
      BY <1>1, <1>3, <3>1
  <2>2. CASE Losing(q)
    <3>1. Cardinality(new) = n - 1 /\ delta = -XpGain
      BY <1>3, <2>2, DoneMoves, FS_RemoveElement DEF XpDelta, Earning, Losing
    <3> QED
      BY <1>1, <1>3, <3>1
  <2>3. CASE ~Earning(q) /\ ~Losing(q)
    <3>1. Cardinality(new) = n /\ delta = 0
      BY <2>3, DoneMoves DEF XpDelta
    <3> QED
      BY <1>1, <1>3, <3>1
  <2> QED
    BY <2>1, <2>2, <2>3
<1>5. /\ user'.level \in Nat \ {0}
      /\ Spent(user'.level) + user'.xp = Spent(user.level) + user.xp + delta
  <2>1. CASE delta = 0
    BY <1>1, <2>1, SpentAre DEF Settle
  <2>2. CASE delta # 0
    <3>1. q.pc = "user" /\ q.xp = user.xp /\ q.level = user.level
      BY <2>2 DEF Settle, ReadyToSettle, XpCurrent
    <3>2. user.xp + delta >= 0
      <4>1. CASE user.level = 1
        <5>1. user.xp = XpGain * n
          BY <1>1, <1>2, <4>1, SpentAre
        <5>2. delta < 0 => n >= 1
          BY <1>1, <1>3, DoneMoves DEF XpDelta
        <5>3. n >= 1 => XpGain * n >= XpGain
          BY <1>1, <1>3
        <5> QED
          BY <1>1, <5>1, <5>2, <5>3
      <4>2. CASE user.level > 1
        BY <3>1, <4>2 DEF NothingClamped
      <4> QED
        BY <1>1, <4>1, <4>2
    <3>3. user' = ExperienceAfter(q)
      BY <2>2 DEF Settle
    <3>4. /\ user.xp + delta >= XpNeeded(user.level) =>
               user'.xp = user.xp + delta - XpNeeded(user.level) /\ user'.level = user.level + 1
          /\ ~(user.xp + delta >= XpNeeded(user.level)) =>
               user'.xp = user.xp + delta /\ user'.level = user.level
      <4>1. q.xp \in Int /\ delta \in Int /\ q.xp + delta >= 0 /\ XpNeeded(q.level) \in Int
        BY <1>1, <3>1, <3>2, HabitRewardsAssumption DEF XpNeeded
      <4>2. /\ q.xp + delta >= XpNeeded(q.level) =>
                 user'.xp = q.xp + delta - XpNeeded(q.level) /\ user'.level = q.level + 1
            /\ ~(q.xp + delta >= XpNeeded(q.level)) =>
                 user'.xp = q.xp + delta /\ user'.level = q.level
        BY <3>3, <4>1, ExperienceIs
      <4> QED
        BY <3>1, <4>1, <4>2
    <3>5. XpNeeded(user.level) \in Int
      BY <1>1, HabitRewardsAssumption DEF XpNeeded
    <3> HIDE DEF delta
    <3>6. CASE user.xp + delta >= XpNeeded(user.level)
      <4>1. user'.level = user.level + 1 /\ user'.xp = user.xp + delta - XpNeeded(user.level)
        BY <3>4, <3>6
      <4>2. Spent(user.level + 1) = Spent(user.level) + XpNeeded(user.level)
            /\ Spent(user.level) \in Int
        BY <1>1, SpentAre
      <4>3. delta \in Int
        BY <1>1
      <4> QED
        BY <1>1, <3>5, <4>1, <4>2, <4>3
    <3>7. CASE ~(user.xp + delta >= XpNeeded(user.level))
      <4>1. user'.level = user.level /\ user'.xp = user.xp + delta
        BY <3>4, <3>7
      <4>2. Spent(user.level) \in Int
        BY <1>1, SpentAre
      <4>3. delta \in Int
        BY <1>1
      <4> QED
        BY <1>1, <4>1, <4>2, <4>3
    <3> QED
      BY <3>6, <3>7
  <2> QED
    BY <2>1, <2>2
<1>6. EarnedXp' = Spent(user'.level) + user'.xp
  <2>1. 1 .. user'.level - 1 \subseteq Nat
    BY <1>5
  <2> QED
    BY <2>1, CostIsSum DEF EarnedXp, Spent
<1> QED
  BY <1>2, <1>4, <1>5, <1>6

XpInv == XpFollowsCompletions /\ XpCurrent

LEMMA HabitReturnsNever ==
    ASSUME LedgerInv, NEW r \in Requests,
           Toggle(r) \/ Purchase(r) \/ Remove(r) \/ Abandon(r), habit = "gone", ~Settle(r)
    PROVE  habit' = "gone"
<1>1. CASE Toggle(r) \/ Abandon(r)
  BY <1>1, StartsFresh, GoesOnFresh DEF Toggle, tables
<1>2. CASE Purchase(r)
  BY <1>2, StartsFresh DEF Purchase, FreezeSettle, RedeemSettle, Fail, tables
<1>3. CASE Remove(r)
  BY <1>3, StartsFresh DEF Remove, ArchiveHabit, DeleteHabit, tables
<1> QED
  BY <1>1, <1>2, <1>3

(* Only the read of the user brings a toggle to the point where it writes   *)
(* experience.                                                              *)
LEMMA ReadsXp ==
    ASSUME TypeInv, NEW r \in Requests,
           Toggle(r) \/ Purchase(r) \/ Remove(r) \/ Abandon(r), ~ReadUser(r)
    PROVE  req'[r].pc # "user"
<1>0. req \in [Requests -> Request]
  BY DEF TypeInv, TypeOK
<1>1. ASSUME NEW d \in Days, NEW ask \in Asks, Begin(r, d, ask) PROVE req'[r].pc # "user"
  BY <1>0, <1>1 DEF Begin, Idle
<1>2. CASE Fail(r)
  BY <1>0, <1>2 DEF Fail, Done, Idle
<1>3. CASE WriteExisting(r)
  BY <1>0, <1>2, <1>3 DEF WriteExisting, Request
<1>4. CASE CreateRow(r)
  BY <1>0, <1>4 DEF CreateRow, Request
<1>5. CASE CreateConflict(r)
  BY <1>0, <1>2, <1>5 DEF CreateConflict, Request
<1>6. CASE DeleteCount(r)
  BY <1>0, <1>6 DEF DeleteCount, Idle
<1>7. CASE \/ \E d \in Days : FreezeCheck(r, d)
           \/ \E i \in Items : RedeemCheck(r, i)
           \/ FreezeSettle(r) \/ RedeemSettle(r) \/ Settle(r) \/ SettleConflict(r)
           \/ ArchiveHabit(r) \/ DeleteHabit(r) \/ Announce(r) \/ Abandon(r)
  BY <1>7, EndsUnbound DEF Unbound
<1> QED
  BY <1>1, <1>3, <1>4, <1>5, <1>6, <1>7 DEF Toggle, Purchase, Remove

LEMMA OneKeepsXp ==
    ASSUME ExactInv, NothingClamped, XpInv, NEW r \in Requests,
           Toggle(r) \/ Purchase(r) \/ Remove(r) \/ Abandon(r),
           req[r].pc # "idle" => \A s \in Requests \ {r} : req[s].pc = "idle"
    PROVE  XpInv'
<1>0. TypeInv /\ \A s \in Requests \ {r} : req'[s] = req[s]
  BY OthersLeft DEF ExactInv, PaidState, LedgerInv
<1>1. CASE Settle(r)
  <2>1. XpFollowsCompletions'
    BY <1>1, SettleXp DEF ExactInv, XpInv
  <2>2. req'[r].pc # "user"
    BY <1>0, <1>1 DEF Settle, TypeInv, TypeOK, Request
  <2>3. \A s \in Requests \ {r} : req'[s].pc = "idle"
    BY <1>0, <1>1 DEF Settle, ReadyToSettle
  <2> QED
    BY <2>1, <2>2, <2>3 DEF XpInv, XpCurrent
<1>2. CASE ~Settle(r)
  <2>1. user' = user
    BY <1>2, Zenon DEF Toggle, Purchase, Remove, Abandon, Begin, WriteExisting, CreateRow,
       CreateConflict, ReadUser, SettleConflict, Announce, FreezeCheck, tables,
       FreezeSettle, RedeemCheck, RedeemSettle, DeleteCount, ArchiveHabit,
       DeleteHabit, Fail, Done
  <2>2. XpFollowsCompletions'
    <3>1. CASE DeleteHabit(r)
      BY <3>1 DEF DeleteHabit, XpFollowsCompletions
    <3>2. CASE ~DeleteHabit(r)
      <4>1. completion' = completion
        BY <1>2, <3>2, PaidKinds DEF ExactInv
      <4>2. habit' # "gone" => habit # "gone"
        BY <1>2, HabitReturnsNever DEF ExactInv, PaidState
      <4> QED
        BY <2>1, <4>1, <4>2 DEF XpInv, XpFollowsCompletions, EarnedXp, DoneDays
    <3> QED
      BY <3>1, <3>2
  <2>3. req'[r].pc = "user" => req'[r].xp = user.xp /\ req'[r].level = user.level
    <3>1. CASE ReadUser(r)
      BY <1>0, <3>1 DEF ReadUser, TypeInv, TypeOK, Request
    <3> QED
      BY <1>0, <3>1, ReadsXp
  <2> QED
    BY <1>0, <2>1, <2>2, <2>3 DEF XpInv, XpCurrent
<1> QED
  BY <1>1, <1>2

(* With requests one after the other, experience is that of the completed   *)
(* days, levels gained on the way included, as long as no toggle-off takes  *)
(* more than the level holds.                                               *)
THEOREM XpFollows ==
    Spec /\ []OneAtATime /\ []NothingClamped => []XpFollowsCompletions
<1>1. Init => XpInv
  <2> SUFFICES ASSUME Init PROVE XpInv
    OBVIOUS
  <2>1. user.level = 1 /\ user.xp = 0 /\ DoneDays(completion) = {}
    BY DEF Init, DoneDays
  <2>2. EarnedXp = 0
    BY <2>1, EarnedIs, SpentAre
  <2>3. Cardinality(DoneDays(completion)) = 0
    BY <2>1, FS_EmptySet
  <2>4. XpGain * 0 = 0
    BY HabitRewardsAssumption
  <2> QED
    BY <2>2, <2>3, <2>4 DEF XpInv, XpFollowsCompletions, XpCurrent, Init, Idle
<1>2. OneAtATime /\ NothingClamped /\ ExactInv /\ XpInv /\ [Next]_vars => XpInv'
  <2> SUFFICES ASSUME OneAtATime, NothingClamped, ExactInv, XpInv, [Next]_vars
               PROVE  XpInv'
    OBVIOUS
  <2>1. ASSUME NEW r \in Requests, Toggle(r) \/ Purchase(r) \/ Remove(r) \/ Abandon(r)
        PROVE  XpInv'
    <3>1. req[r].pc # "idle" => \A s \in Requests \ {r} : req[s].pc = "idle"
      BY DEF OneAtATime
    <3> QED
      BY <2>1, <3>1, OneKeepsXp
  <2>2. CASE UNCHANGED vars
    BY <2>2 DEF vars, tables, XpInv, XpFollowsCompletions, XpCurrent, EarnedXp, DoneDays
  <2> QED
    BY <2>1, <2>2 DEF Next
<1>3. XpInv => XpFollowsCompletions
  BY DEF XpInv
<1> QED
  BY <1>1, <1>2, <1>3, ExactStart, ExactAlways, PTL DEF Spec

-----------------------------------------------------------------------------
(* The daily plan and the toggles write one ledger through two engines.      *)
(* Whatever requests of both overlap, the rules of the ledger hold, the      *)
(* balance is its sum, and together they implement the abstract account.     *)

PlanFields == {"pc", "op", "t", "was", "ask", "day", "row", "found", "p", "fresh",
               "xpDelta", "xp", "level"}

(* What a plan request carries at each of its statements.                   *)
PlanOK(q) ==
    /\ q = [f \in PlanFields |-> q[f]]
    /\ q.op \in Nat
    /\ q.pc \in {"task", "write"} => q.day \in Days /\ q.ask \in Task
    /\ q.pc = "write" => q.row \in Row \cup {NoRow}
    /\ q.pc \in {"delete", "plan"} => \A f \in q.found : f[1] \in Days /\ f[2] \in Row
    /\ q.pc = "plan" =>
          /\ q.day \in Days /\ q.p \in Plans
          /\ \A t \in DOMAIN q.fresh : q.fresh[t] \in Task /\ q.fresh[t].on = q.p
    /\ q.pc \in {"xp", "addxp"} => q.xpDelta \in Int
    /\ q.pc = "addxp" => q.xp \in Nat /\ q.level \in Nat \ {0}

PlansOK == plan = [w \in Writers |-> plan[w]] /\ \A w \in Writers : PlanOK(plan[w])

(* A task is in a plan that exists.                                         *)
TasksOK ==
    /\ planDay \in [Plans -> Days \cup {0}]
    /\ task = [t \in Tasks |-> task[t]]
    /\ \A t \in Tasks : IsTask(t) => task[t] \in Task /\ planDay[task[t].on] # 0

(* The number a plan request will write its award under is its own.         *)
Writing(q) == q.pc \in {"task", "write"}
PlanFresh ==
    /\ \A w \in Writers : plan[w].op <= ops
    /\ \A w \in Writers : Writing(plan[w]) =>
          /\ \A e \in ledger : e.op # plan[w].op
          /\ \A r \in Requests : Underway(req[r]) => req[r].op # plan[w].op
          /\ \A v \in Writers \ {w} : Writing(plan[v]) => plan[v].op # plan[w].op

PlanInv == BalanceInv /\ TasksOK /\ PlansOK /\ PlanFresh

-----------------------------------------------------------------------------
(* A plan request before it begins.                                         *)
LEMMA RestingOK == PlanOK(Resting) /\ Resting.op = 0 /\ ~Writing(Resting)
  BY DEF Resting, PlanOK, PlanFields, Writing

(* Types the invariant holds of.                                            *)
LEMMA PlanBefore ==
    ASSUME PlanInv
    PROVE  /\ ops \in Nat /\ TablesOK /\ req \in [Requests -> Request]
           /\ \A e \in ledger : e \in EntryRows /\ e.op \in Nat
           /\ \A r \in Requests : req[r].op \in Nat
           /\ \A w \in Writers : PlanOK(plan[w]) /\ plan[w].op \in Nat
  BY DEF PlanInv, BalanceInv, LedgerInv, TypeInv, TypeOK, TablesOK, Request, PlansOK,
         PlanOK, EntryRows

(* A plan request goes on; if it writes an award it is no longer writing.   *)
LEMMA PlanGoesOn ==
    ASSUME PlanInv, NEW w \in Writers, NEW q, PlanOK(q),
           plan' = [plan EXCEPT ![w] = q], ops' = ops, q.op <= ops,
           Writing(q) => Writing(plan[w]) /\ q.op = plan[w].op,
           \A e \in ledger' : \/ e \in ledger
                              \/ /\ e.op = plan[w].op
                                 /\ Writing(plan[w]) /\ ~Writing(q),
           \A r \in Requests : req'[r] = req[r] \/ req'[r] = Idle
    PROVE  PlansOK' /\ PlanFresh' /\ FreshOps'
<1>1. \A v \in Writers : plan'[v] = IF v = w THEN q ELSE plan[v]
  BY DEF PlanInv, PlansOK
<1>2. PlansOK'
  BY <1>1 DEF PlanInv, PlansOK
<1>3. Idle.op = 0 /\ ~Underway(Idle) /\ ops \in Nat
  BY PlanBefore DEF Idle, Underway
<1>4. \A e \in ledger' : e.op <= ops
  BY DEF PlanInv, PlanFresh, BalanceInv, LedgerInv, FreshOps
<1>5. \A r \in Requests :
         /\ req'[r].op <= ops
         /\ Underway(req'[r]) => Underway(req[r]) /\ req'[r].op = req[r].op
  BY <1>3 DEF PlanInv, BalanceInv, LedgerInv, FreshOps
<1>6. \A r \in Requests : Underway(req'[r]) =>
         /\ \A e \in ledger' : e.op # req'[r].op
         /\ \A s \in Requests \ {r} : Underway(req'[s]) => req'[s].op # req'[r].op
  BY <1>5 DEF PlanInv, PlanFresh, BalanceInv, LedgerInv, FreshOps
<1>7. FreshOps'
  BY <1>4, <1>5, <1>6 DEF FreshOps, Underway
<1>8. \A v \in Writers :
         /\ plan'[v].op <= ops
         /\ Writing(plan'[v]) => Writing(plan[v]) /\ plan'[v].op = plan[v].op
  BY <1>1 DEF PlanInv, PlanFresh
<1>9. ASSUME NEW v \in Writers, Writing(plan'[v])
      PROVE  /\ \A e \in ledger' : e.op # plan'[v].op
             /\ \A r \in Requests : Underway(req'[r]) => req'[r].op # plan'[v].op
             /\ \A x \in Writers \ {v} : Writing(plan'[x]) => plan'[x].op # plan'[v].op
  <2>1. Writing(plan[v]) /\ plan'[v].op = plan[v].op
    BY <1>8, <1>9
  <2>2. v = w => Writing(q)
    BY <1>1, <1>9
  <2>3. \A e \in ledger' : e.op # plan[v].op
    BY <2>1, <2>2 DEF PlanInv, PlanFresh
  <2> QED
    BY <1>5, <1>8, <2>1, <2>3 DEF PlanInv, PlanFresh
<1> QED
  BY <1>2, <1>7, <1>8, <1>9 DEF PlanFresh, Writing

(* A plan request begins, or does all it does at once.                      *)
LEMMA PlanStarts ==
    ASSUME PlanInv, NEW w \in Writers, NEW q, PlanOK(q),
           \/ plan' = [plan EXCEPT ![w] = q] /\ q.op = ops + 1
           \/ plan' = plan,
           ops' = ops + 1, ledger' = ledger, req' = req
    PROVE  PlansOK' /\ PlanFresh' /\ FreshOps'
<1>1. \A v \in Writers : \/ plan'[v] = plan[v]
                         \/ v = w /\ plan'[v] = q /\ q.op = ops + 1
  BY DEF PlanInv, PlansOK
<1>2. PlansOK'
  BY <1>1 DEF PlanInv, PlansOK
<1>3. ops \in Nat /\ (\A e \in ledger : e.op \in Nat /\ e.op <= ops)
  BY PlanBefore DEF PlanInv, BalanceInv, LedgerInv, FreshOps
<1>4. /\ \A r \in Requests : req[r].op \in Nat /\ req[r].op <= ops
      /\ \A v \in Writers : plan[v].op \in Nat /\ plan[v].op <= ops
  BY PlanBefore DEF PlanInv, PlanFresh, BalanceInv, LedgerInv, FreshOps
<1>5. FreshOps'
  <2>1. /\ \A e \in ledger' : e.op <= ops + 1
        /\ \A r \in Requests : req'[r].op <= ops + 1
    BY <1>3, <1>4
  <2> QED
    BY <2>1 DEF PlanInv, BalanceInv, LedgerInv, FreshOps, Underway
<1>6. PlanFresh'
  <2>1. \A v \in Writers : plan'[v].op <= ops + 1
    BY <1>1, <1>3, <1>4
  <2>2. ASSUME NEW v \in Writers, Writing(plan'[v])
        PROVE  /\ \A e \in ledger : e.op # plan'[v].op
               /\ \A r \in Requests : Underway(req[r]) => req[r].op # plan'[v].op
               /\ \A x \in Writers \ {v} : Writing(plan'[x]) => plan'[x].op # plan'[v].op
    <3>1. CASE plan'[v] = plan[v]
      <4>1. ASSUME NEW x \in Writers \ {v}, Writing(plan'[x])
            PROVE  plan'[x].op # plan'[v].op
        BY <1>1, <1>3, <1>4, <2>2, <3>1, <4>1 DEF PlanInv, PlanFresh
      <4> QED
        BY <2>2, <3>1, <4>1 DEF PlanInv, PlanFresh
    <3>2. CASE plan'[v].op = ops + 1 /\ v = w
      <4>1. \A x \in Writers \ {v} : plan'[x].op <= ops
        BY <1>1, <1>4, <3>2
      <4> QED
        BY <1>3, <1>4, <3>2, <4>1
    <3> QED
      BY <1>1, <3>1, <3>2
  <2> QED
    BY <2>1, <2>2 DEF PlanFresh, Writing, Underway
<1> QED
  BY <1>2, <1>5, <1>6

(* The ledger's invariant when only requests and their numbers change.      *)
LEMMA LedgerLeft ==
    ASSUME PlanInv, UNCHANGED tables, FreshOps', ops' \in Nat,
           req' = req \/ \E r \in Requests : req' = [req EXCEPT ![r] = Idle]
    PROVE  BalanceInv'
<1>1. TypeInv'
  <2>1. CASE req' = req
    BY <2>1, TablesKept DEF PlanInv, BalanceInv, LedgerInv, TypeInv, TypeOK,
       SoundRequests, Sound, Removing
  <2>2. ASSUME NEW r \in Requests, req' = [req EXCEPT ![r] = Idle] PROVE TypeInv'
    BY <2>2, IdleType, IdleSound, Replaced, TablesKept DEF PlanInv, BalanceInv, LedgerInv
  <2> QED
    BY <2>1, <2>2
<1> QED
  BY <1>1 DEF tables, PlanInv, BalanceInv, LedgerInv, SignedByType, ReversedOnce,
     BonusOncePerKey, ChargedOnce, BalanceMatchesLedger, LedgerSum, ReversedRows

(* A request that is refused, or aborted with the other one going on.       *)
LEMMA RefusedKeeps ==
    ASSUME PlanInv, NEW w \in Writers, Refused(w) \/ Deadlock(w)
    PROVE  PlanInv' /\ UNCHANGED tables
<1>1. CASE Refused(w)
  <2>1. /\ plan' = [plan EXCEPT ![w] = Resting] /\ ops' = ops /\ req' = req
        /\ UNCHANGED tables /\ UNCHANGED <<planDay, task>> /\ ledger' = ledger
    BY <1>1 DEF Refused, Closes, planTables, tables
  <2>2. ops \in Nat /\ Resting.op <= ops
    BY PlanBefore, RestingOK
  <2>3. PlansOK' /\ PlanFresh' /\ FreshOps'
    <3>1. /\ \A e \in ledger' : e \in ledger
          /\ \A r \in Requests : req'[r] = req[r]
      BY <2>1
    <3> QED
      BY <2>1, <2>2, <3>1, RestingOK, PlanGoesOn
  <2>4. BalanceInv'
    BY <2>1, <2>2, <2>3, LedgerLeft
  <2>5. TasksOK'
    BY <2>1 DEF PlanInv, TasksOK, IsTask
  <2> QED
    BY <2>1, <2>3, <2>4, <2>5 DEF PlanInv
<1>2. ASSUME NEW r \in Requests, req' = [req EXCEPT ![r] = Idle],
             UNCHANGED <<tables, ops, planTables, plan>>
      PROVE  PlanInv' /\ UNCHANGED tables
  <2>1. /\ ops' = ops /\ ledger' = ledger /\ UNCHANGED tables
        /\ UNCHANGED <<planDay, task, plan>>
    BY <1>2 DEF planTables, tables
  <2>2. ops \in Nat /\ PlanOK(plan[w]) /\ plan[w].op <= ops
        /\ plan' = [plan EXCEPT ![w] = plan[w]]
    BY <2>1, PlanBefore DEF PlanInv, PlanFresh, PlansOK
  <2>3. \A s \in Requests : req'[s] = req[s] \/ req'[s] = Idle
    BY <1>2, PlanBefore
  <2>4. PlansOK' /\ PlanFresh' /\ FreshOps'
    <3> DEFINE q == plan[w]
    <3>1. /\ PlanOK(q) /\ plan' = [plan EXCEPT ![w] = q] /\ q.op <= ops
          /\ Writing(q) => Writing(plan[w]) /\ q.op = plan[w].op
      BY <2>2
    <3>2. ops' = ops /\ \A e \in ledger' : e \in ledger
      BY <2>1
    <3> HIDE DEF q
    <3> QED
      BY <2>3, <3>1, <3>2, PlanGoesOn
  <2>5. BalanceInv'
    BY <1>2, <2>1, <2>2, <2>4, LedgerLeft
  <2>6. TasksOK'
    BY <2>1 DEF PlanInv, TasksOK, IsTask
  <2> QED
    BY <2>1, <2>4, <2>5, <2>6 DEF PlanInv
<1>3. CASE Deadlock(w)
  <2>1. \/ Refused(w)
        \/ \E r \in Requests : /\ req' = [req EXCEPT ![r] = Idle]
                              /\ UNCHANGED <<tables, ops, planTables, plan, overlapped>>
    BY <1>3 DEF Deadlock, Holders
  <2> QED
    BY <1>1, <1>2, <2>1
<1> QED
  BY <1>1, <1>3

(* A request that starts, with the tables as they are.                      *)
LEMMA StartKeeps ==
    ASSUME PlanInv, NEW w \in Writers, NEW q, PlanOK(q),
           \/ plan' = [plan EXCEPT ![w] = q] /\ q.op = ops + 1
           \/ plan' = plan,
           ops' = ops + 1, req' = req, UNCHANGED tables, TasksOK'
    PROVE  PlanInv'
<1>1. ledger' = ledger /\ ops' \in Nat
  BY PlanBefore DEF tables
<1>2. PlansOK' /\ PlanFresh' /\ FreshOps'
  BY <1>1, PlanStarts
<1>3. BalanceInv'
  BY <1>1, <1>2, LedgerLeft
<1> QED
  BY <1>2, <1>3 DEF PlanInv

(* A request that goes on, with the tables as they are.                     *)
LEMMA GoingOnKeeps ==
    ASSUME PlanInv, NEW w \in Writers, NEW q, PlanOK(q),
           plan' = [plan EXCEPT ![w] = q], q.op <= ops,
           Writing(q) => Writing(plan[w]) /\ q.op = plan[w].op,
           ops' = ops, req' = req, UNCHANGED tables, TasksOK'
    PROVE  PlanInv'
<1>1. ledger' = ledger /\ ops' \in Nat
  BY PlanBefore DEF tables
<1>2. PlansOK' /\ PlanFresh' /\ FreshOps'
  BY <1>1, PlanGoesOn
<1>3. BalanceInv'
  BY <1>1, <1>2, LedgerLeft
<1> QED
  BY <1>2, <1>3 DEF PlanInv

(* Requests that begin read tasks of plans that exist and rows that do.     *)
LEMMA BeginTaskKeeps ==
    ASSUME PlanInv, NEW w \in Writers, NEW t \in Tasks, NEW ask \in Task,
           BeginTask(w, t, ask)
    PROVE  PlanInv' /\ UNCHANGED tables
<1> DEFINE q == [[Resting EXCEPT !.pc = "task", !.t = t, !.was = task[t],
                                 !.ask = ask, !.day = planDay[task[t].on]]
                   EXCEPT !.op = ops + 1]
<1>1. /\ plan' = [plan EXCEPT ![w] = q] /\ ops' = ops + 1 /\ req' = req
      /\ UNCHANGED tables /\ UNCHANGED <<planDay, task>> /\ IsTask(t)
  BY DEF BeginTask, Opens, planTables
<1>2. planDay[task[t].on] \in Days
  BY <1>1 DEF PlanInv, TasksOK, Task
<1>3. PlanOK(q) /\ q.op = ops + 1
  <2>1. q = [f \in PlanFields |-> q[f]]
    BY DEF PlanFields, Resting
  <2>2. /\ q.pc = "task" /\ q.op = ops + 1 /\ q.ask = ask
        /\ q.day = planDay[task[t].on]
    BY DEF Resting
  <2> HIDE DEF q
  <2> QED
    BY <1>2, <2>1, <2>2, PlanBefore DEF PlanOK
<1>4. TasksOK'
  BY <1>1 DEF PlanInv, TasksOK, IsTask
<1> HIDE DEF q
<1> QED
  BY <1>1, <1>3, <1>4, StartKeeps

(* A task's removal and a plan's change find completed rows.                *)
LEMMA FoundRows ==
    ASSUME PlanInv, NEW ts, NEW ds \in OnePerTask(ts)
    PROVE  \A f \in {<<d, completion[d]>> : d \in ds} : f[1] \in Days /\ f[2] \in Row
<1>1. \A d \in ds : d \in Days /\ completion[d] # NoRow
  BY DEF OnePerTask, Sourced
<1>2. \A d \in Days : completion[d] \in Row \cup {NoRow}
  BY PlanBefore DEF TablesOK
<1> QED
  BY <1>1, <1>2

(* A removal begins.                                                        *)
LEMMA BeginDeleteKeeps ==
    ASSUME PlanInv, NEW w \in Writers, NEW t \in Tasks, BeginDelete(w, t)
    PROVE  PlanInv' /\ UNCHANGED tables
<1>1. PICK ds \in OnePerTask({t}) :
        Opens(w, [Resting EXCEPT !.pc = "delete", !.t = t,
                                 !.found = {<<d, completion[d]>> : d \in ds}])
  BY DEF BeginDelete
<1> DEFINE found == {<<d, completion[d]>> : d \in ds}
           q == [[Resting EXCEPT !.pc = "delete", !.t = t, !.found = found]
                   EXCEPT !.op = ops + 1]
<1>2. \A f \in found : f[1] \in Days /\ f[2] \in Row
  BY FoundRows
<1>3. /\ plan' = [plan EXCEPT ![w] = q] /\ ops' = ops + 1 /\ req' = req
      /\ UNCHANGED tables /\ UNCHANGED <<planDay, task>>
  BY <1>1 DEF BeginDelete, Opens, planTables
<1> HIDE DEF found
<1>4. PlanOK(q) /\ q.op = ops + 1
  <2>1. q = [f \in PlanFields |-> q[f]]
    BY DEF PlanFields, Resting
  <2>2. q.pc = "delete" /\ q.op = ops + 1 /\ q.found = found
    BY DEF Resting
  <2> HIDE DEF q
  <2> QED
    BY <1>2, <2>1, <2>2, PlanBefore DEF PlanOK
<1>5. TasksOK'
  BY <1>3 DEF PlanInv, TasksOK, IsTask
<1> HIDE DEF q
<1> QED
  BY <1>3, <1>4, <1>5, StartKeeps

(* A plan's change begins.                                                  *)
LEMMA BeginPlanKeeps ==
    ASSUME PlanInv, NEW w \in Writers, NEW p \in Plans, NEW day \in Days,
           NEW ts \in SUBSET Tasks, NEW fresh \in [ts -> Task],
           \A t \in ts : fresh[t].on = p, BeginPlan(w, p, day, fresh)
    PROVE  PlanInv' /\ UNCHANGED tables
<1>1. PICK ds \in OnePerTask(TasksOf(p)) :
        Opens(w, [Resting EXCEPT
              !.pc = "plan", !.p = p, !.day = day, !.fresh = fresh,
              !.found = {<<x, completion[x]>> : x \in ds}])
  BY DEF BeginPlan
<1> DEFINE found == {<<x, completion[x]>> : x \in ds}
           q == [[Resting EXCEPT !.pc = "plan", !.p = p, !.day = day,
                                 !.fresh = fresh, !.found = found]
                   EXCEPT !.op = ops + 1]
<1>2. \A f \in found : f[1] \in Days /\ f[2] \in Row
  BY FoundRows
<1>3. /\ plan' = [plan EXCEPT ![w] = q] /\ ops' = ops + 1 /\ req' = req
      /\ UNCHANGED tables /\ UNCHANGED <<planDay, task>>
  BY <1>1 DEF BeginPlan, Opens, planTables
<1> HIDE DEF found
<1>4. PlanOK(q) /\ q.op = ops + 1
  <2>1. q = [f \in PlanFields |-> q[f]]
    BY DEF PlanFields, Resting
  <2>2. /\ q.pc = "plan" /\ q.op = ops + 1 /\ q.found = found
        /\ q.p = p /\ q.day = day /\ q.fresh = fresh
    BY DEF Resting
  <2> HIDE DEF q
  <2> QED
    BY <1>2, <2>1, <2>2, PlanBefore DEF PlanOK
<1>5. TasksOK'
  BY <1>3 DEF PlanInv, TasksOK, IsTask
<1> HIDE DEF q
<1> QED
  BY <1>3, <1>4, <1>5, StartKeeps

(* What touches no completion: creating a task, moving and deleting a plan. *)
LEMMA AtOnceKeeps ==
    ASSUME PlanInv, NEW w \in Writers,
           \/ \E t \in Tasks, new \in Task : CreateTask(w, t, new)
           \/ \E p \in Plans, d \in Days : MovePlan(w, p, d)
           \/ \E p \in Plans : DeletePlan(w, p)
    PROVE  PlanInv' /\ UNCHANGED tables
<1>1. plan' = plan /\ ops' = ops + 1 /\ req' = req /\ UNCHANGED tables
  BY DEF CreateTask, MovePlan, DeletePlan
<1>2. TasksOK'
  <2>1. ASSUME NEW t \in Tasks, NEW new \in Task, CreateTask(w, t, new)
        PROVE  TasksOK'
    BY <2>1 DEF CreateTask, PlanInv, TasksOK, IsTask, Task
  <2>2. ASSUME NEW p \in Plans, NEW d \in Days, MovePlan(w, p, d)
        PROVE  TasksOK'
    <3>1. d \in Days \cup {0} /\ d # 0
      BY DEF Days
    <3> QED
      BY <2>2, <3>1 DEF MovePlan, PlanInv, TasksOK, IsTask, Task
  <2>3. ASSUME NEW p \in Plans, DeletePlan(w, p)
        PROVE  TasksOK'
    BY <2>3 DEF DeletePlan, PlanInv, TasksOK, IsTask, Task, TasksOf
  <2> QED
    BY <2>1, <2>2, <2>3
<1> QED
  BY <1>1, <1>2, StartKeeps, RestingOK

(* The row is read, or the habit is gone.                                   *)
LEMMA ReadRowKeeps ==
    ASSUME PlanInv, NEW w \in Writers, ReadRow(w)
    PROVE  PlanInv' /\ UNCHANGED tables
<1> DEFINE found == IF sourced[plan[w].day] = plan[w].t THEN {plan[w].day} ELSE {}
           q == [plan[w] EXCEPT !.pc = "write", !.row = completion[plan[w].day],
                                !.found = found]
<1>1. CASE Refused(w)
  BY <1>1, RefusedKeeps
<1>2. CASE ~Refused(w)
  <2>1. /\ plan' = [plan EXCEPT ![w] = q] /\ ops' = ops /\ req' = req
        /\ UNCHANGED tables /\ UNCHANGED <<planDay, task>> /\ plan[w].pc = "task"
    BY <1>2 DEF ReadRow, planTables
  <2>2. PlanOK(plan[w]) /\ completion \in [Days -> Row \cup {NoRow}]
    BY PlanBefore DEF TablesOK
  <2> HIDE DEF found
  <2>3. PlanOK(q) /\ q.op = plan[w].op /\ Writing(plan[w])
    BY <2>1, <2>2 DEF PlanOK, PlanFields, Writing
  <2>4. q.op <= ops
    BY <2>3 DEF PlanInv, PlanFresh
  <2>5. TasksOK'
    BY <2>1 DEF PlanInv, TasksOK, IsTask
  <2> HIDE DEF q
  <2> QED
    BY <2>1, <2>3, <2>4, <2>5, GoingOnKeeps
<1> QED
  BY <1>1, <1>2

-----------------------------------------------------------------------------
(* Transactions of the plan that write the tables.                          *)

(* The balance is an integer.                                               *)
LEMMA CoinsType ==
    ASSUME PlanInv
    PROVE  coins \in Int
<1>1. /\ IsFiniteSet(ledger) /\ IsFiniteSet(ReversedRows)
      /\ Amounts(ledger) /\ Amounts(ReversedRows)
  BY LedgerAmounts, FS_Subset DEF PlanInv, BalanceInv, Amounts
<1> QED
  BY <1>1, TotalType DEF PlanInv, BalanceInv, BalanceMatchesLedger, LedgerSum

(* What is reversed afterwards.                                             *)
LEMMA ReversedAfter ==
    ASSUME NEW q, NEW U, reversals' = reversals \cup Reversal(q, U)
    PROVE  ReversedRows' = ReversedRows \cup U
<1>1. \A v \in Reversal(q, U) : v.of \in U
  BY DEF Reversal
<1>2. \A e \in U : \E v \in Reversal(q, U) : v.of = e
  <2> TAKE e \in U
  <2>1. [op |-> q.op, of |-> e] \in Reversal(q, U)
    BY DEF Reversal
  <2> QED
    BY <2>1
<1> QED
  BY <1>1, <1>2 DEF ReversedRows

(* A plan transaction that pays its own award or takes awards back keeps    *)
(* the invariant and is a move of the account.                              *)
LEMMA PlanWrites ==
    ASSUME PlanInv, NEW w \in Writers, NEW q, PlanOK(q), NEW P, NEW U,
           plan' = [plan EXCEPT ![w] = q], q.op <= ops, ~Writing(q),
           req' = req, ops' = ops, TablesOK', TasksOK',
           UNCHANGED <<habit, frozen, owned>>,
           IsFiniteSet(P),
           \A e \in P : /\ e \in EntryRows /\ e.amount > 0 /\ e.type = "FULL"
                        /\ e.op = plan[w].op /\ Writing(plan[w]),
           \A e \in U : e \in ledger /\ e \notin ReversedRows /\ e.amount > 0,
           ledger' = ledger \cup P,
           reversals' = reversals \cup Reversal(plan[w], U),
           coins' = coins - Total(U) + Total(P)
    PROVE  PlanInv' /\ Account!Move
<1>1. PlansOK' /\ PlanFresh' /\ FreshOps'
  <2>1. /\ \A e \in ledger' : \/ e \in ledger
                              \/ /\ e.op = plan[w].op
                                 /\ Writing(plan[w]) /\ ~Writing(q)
        /\ \A r \in Requests : req'[r] = req[r]
    OBVIOUS
  <2> QED
    BY <2>1, PlanGoesOn
<1>2. TypeInv'
  BY DEF PlanInv, BalanceInv, LedgerInv, TypeInv, TypeOK, SoundRequests, Sound, Removing
<1>3. ReversedRows' = ReversedRows \cup U
  BY ReversedAfter
<1>4. \A e \in P : e \notin ledger /\ e.amount \in Int
  BY DEF PlanInv, PlanFresh, EntryRows
<1>5. SignedByType' /\ BonusOncePerKey' /\ ChargedOnce'
  <2>1. \A e \in ledger' : \/ e \in ledger
                           \/ e.amount > 0 /\ e.type = "FULL"
    OBVIOUS
  <2>2. \A e \in ledger : e \in ledger'
    OBVIOUS
  <2> QED
    BY <2>1, <2>2 DEF PlanInv, BalanceInv, LedgerInv, SignedByType, DebitTypes,
       BonusOncePerKey, ChargedOnce
<1>6. ReversedOnce'
  <2>1. \A v \in Reversal(plan[w], U) : /\ v.of \in U
                                        /\ v = [op |-> plan[w].op, of |-> v.of]
    BY DEF Reversal
  <2>2. \A v \in reversals : v.of \in ReversedRows
    BY DEF ReversedRows
  <2>3. \A v \in reversals' : v.of \in ledger' /\ v.of.amount > 0
    BY <2>1 DEF PlanInv, BalanceInv, LedgerInv, ReversedOnce
  <2>4. \A v, x \in reversals' : v.of = x.of => v = x
    BY <2>1, <2>2 DEF PlanInv, BalanceInv, LedgerInv, ReversedOnce
  <2> QED
    BY <2>3, <2>4 DEF ReversedOnce
<1>7. IsFiniteSet(ledger)' /\ BalanceMatchesLedger'
  <2>1. Amounts(P) /\ ledger \cap P = {} /\ U \subseteq ledger /\ ReversedRows \cap U = {}
    BY <1>4 DEF Amounts
  <2> QED
    BY <1>3, <2>1, MoveBalances DEF PlanInv
<1>8. Account!Move
  BY <1>3, <1>4, AccountMoves DEF PlanInv, BalanceInv
<1> QED
  BY <1>1, <1>2, <1>5, <1>6, <1>7, <1>8 DEF PlanInv, BalanceInv, LedgerInv

(* A transaction that writes neither ledger nor balance.                    *)
LEMMA PlanLeaves ==
    ASSUME PlanInv, NEW w \in Writers, NEW q, PlanOK(q),
           plan' = [plan EXCEPT ![w] = q], q.op <= ops, ~Writing(q),
           req' = req, ops' = ops, TablesOK', TasksOK',
           UNCHANGED <<habit, frozen, owned, ledger, reversals, coins>>
    PROVE  PlanInv' /\ Account!Move
<1> DEFINE none == {}
<1>1. /\ IsFiniteSet(none) /\ Total(none) = 0 /\ coins \in Int
      /\ \A e : e \notin none
  BY FS_EmptySet, TotalOfNone, CoinsType
<1>2. ledger' = ledger \cup none /\ reversals' = reversals \cup Reversal(plan[w], none)
  BY DEF Reversal
<1> HIDE DEF none
<1>3. coins' = coins - Total(none) + Total(none)
  BY <1>1
<1> QED
  BY <1>1, <1>2, <1>3, PlanWrites

(* The awards a removal reverses are standing rows that earned coins.       *)
LEMMA TakenStand ==
    ASSUME PlanInv, NEW rows, \A row \in rows : row \in Row
    PROVE  \A e \in Reversible(rows) : e \in ledger /\ e.amount > 0
<1> TAKE e \in Reversible(rows)
<1>1. PICK row \in rows : e \in LatestAward(row)
  BY DEF Reversible
<1>2. e \in ledger /\ e.type = row.kind
  BY <1>1 DEF LatestAward, AwardsOf
<1>3. row.kind \in {"FULL", "MINIMUM", "EMERGENCY"}
  BY HabitRewardsAssumption DEF Row
<1> QED
  BY <1>2, <1>3 DEF PlanInv, BalanceInv, LedgerInv, SignedByType, DebitTypes

(* A transaction that reverses the awards of some rows.                     *)
LEMMA PlanReverses ==
    ASSUME PlanInv, NEW w \in Writers, NEW q, PlanOK(q),
           NEW rows, \A row \in rows : row \in Row, ReverseAwards(w, rows),
           plan' = [plan EXCEPT ![w] = q], q.op <= ops, ~Writing(q),
           req' = req, ops' = ops, TablesOK', TasksOK',
           UNCHANGED <<habit, frozen, owned, ledger>>
    PROVE  PlanInv' /\ Account!Move
<1> DEFINE U == Reversible(rows) \ ReversedRows
<1>1. \A e \in U : e \in ledger /\ e \notin ReversedRows /\ e.amount > 0
  BY TakenStand
<1>2. reversals' = reversals \cup Reversal(plan[w], U) /\ coins' = coins - Total(U)
  BY DEF ReverseAwards
<1> HIDE DEF U
<1>3. Total(U) \in Int
  <2>1. U \subseteq ledger /\ Amounts(ledger)
    BY <1>1, LedgerAmounts DEF PlanInv, BalanceInv
  <2>2. IsFiniteSet(U) /\ Amounts(U)
    BY <2>1, FS_Subset DEF PlanInv, BalanceInv, Amounts
  <2> QED
    BY <2>2, TotalType
<1>4. IsFiniteSet({}) /\ Total({}) = 0 /\ coins \in Int /\ ledger' = ledger \cup {}
  BY FS_EmptySet, TotalOfNone, CoinsType
<1>5. coins' = coins - Total(U) + Total({})
  BY <1>2, <1>3, <1>4
<1> QED
  BY <1>1, <1>2, <1>4, <1>5, PlanWrites

(* What a request is after its commit.                                      *)
LEMMA Committed ==
    ASSUME PlanInv, NEW w \in Writers, NEW delta \in Int, Commits(w, delta)
    PROVE  \E q : /\ plan' = [plan EXCEPT ![w] = q] /\ PlanOK(q) /\ q.op <= ops
                  /\ ~Writing(q)
<1>1. CASE delta = 0
  <2>1. Resting.op <= ops
    BY RestingOK, PlanBefore
  <2> QED
    BY <1>1, <2>1, RestingOK DEF Commits
<1>2. CASE delta # 0
  <2> DEFINE q == [plan[w] EXCEPT !.pc = "xp", !.xpDelta = delta]
  <2>1. plan' = [plan EXCEPT ![w] = q]
    BY <1>2 DEF Commits
  <2>2. PlanOK(plan[w]) /\ plan[w].op <= ops
    BY PlanBefore DEF PlanInv, PlanFresh
  <2>3. PlanOK(q) /\ q.op <= ops /\ ~Writing(q)
    BY <2>2 DEF PlanOK, PlanFields, Writing
  <2> HIDE DEF q
  <2> QED
    BY <2>1, <2>3
<1> QED
  BY <1>1, <1>2

(* A task that is written is in a plan that exists.                         *)
LEMMA TaskWritten ==
    ASSUME PlanInv, NEW w \in Writers, plan[w].pc = "write", Writable(plan[w]),
           WritesTask(w), UNCHANGED planDay
    PROVE  TasksOK'
  BY PlanBefore DEF PlanOK, PlanInv, TasksOK, IsTask, Writable, WritesTask

(* The day's row is written and paid under the request's own number.        *)
LEMMA CompleteDayKeeps ==
    ASSUME PlanInv, NEW w \in Writers, CompleteDay(w)
    PROVE  PlanInv' /\ (UNCHANGED tables \/ Account!Move)
<1>1. CASE Refused(w)
  BY <1>1, RefusedKeeps
<1>2. CASE ~Refused(w)
  <2> DEFINE o == plan[w]
             row == IF o.row = NoRow
                      THEN [id |-> o.op, status |-> TRUE, kind |-> "FULL"]
                      ELSE [completion[o.day] EXCEPT !.status = TRUE]
             e == Entry(o.op, "FULL", row.id, 0, PlanCoins)
  <2>1. /\ o.pc = "write" /\ Writable(o) /\ WritesTask(w) /\ Commits(w, XpGain)
        /\ completion' = [completion EXCEPT ![o.day] = row] /\ AwardsRow(w, row)
        /\ o.row # NoRow => completion[o.day] # NoRow
        /\ UNCHANGED <<habit, reversals, user, frozen, owned, allocations, bundle>>
        /\ req' = req /\ ops' = ops /\ planDay' = planDay
    BY <1>2 DEF CompleteDay, Present
  <2>2. o.op \in Nat /\ o.day \in Days /\ TablesOK
    BY <2>1, PlanBefore DEF PlanOK
  <2>3. row \in Row
    <3>1. CASE o.row = NoRow
      <4>1. row = [id |-> o.op, status |-> TRUE, kind |-> "FULL"]
        BY <3>1
      <4> QED
        BY <2>2, <4>1, HabitRewardsAssumption DEF Row
    <3>2. CASE o.row # NoRow
      <4>1. completion[o.day] \in Row
        BY <2>1, <2>2, <3>2 DEF TablesOK
      <4>2. row = [completion[o.day] EXCEPT !.status = TRUE]
        BY <3>2
      <4> HIDE DEF row
      <4> QED
        BY <4>1, <4>2 DEF Row
    <3> QED
      BY <3>1, <3>2
  <2>4. /\ ledger' = ledger \cup {e} /\ coins' = coins + PlanCoins
        /\ e.amount = PlanCoins /\ e.type = "FULL" /\ e.op = o.op
    BY <2>1 DEF AwardsRow, Entry
  <2>5. e \in EntryRows /\ PlanCoins \in Nat /\ PlanCoins > 0
    <3>1. row.id \in Nat
      BY <2>3 DEF Row
    <3> HIDE DEF row
    <3> QED
      BY <2>2, <3>1, DailyPlanAssumption DEF Entry, EntryRows, LedgerTypes
  <2>6. Writing(o)
    BY <2>1 DEF Writing
  <2>7. TasksOK'
    BY <2>1, TaskWritten
  <2>8. PICK q : /\ plan' = [plan EXCEPT ![w] = q] /\ PlanOK(q) /\ q.op <= ops
                 /\ ~Writing(q)
    BY <2>1, Committed, HabitRewardsAssumption
  <2> HIDE DEF row
  <2>9. completion' \in [Days -> Row \cup {NoRow}]
    BY <2>1, <2>2, <2>3 DEF TablesOK
  <2> HIDE DEF e
  <2>10. TablesOK'
    BY <2>1, <2>2, <2>4, <2>5, <2>9 DEF TablesOK
  <2> DEFINE P == {e}
             U == {}
  <2>11. IsFiniteSet(P) /\ Total(P) = PlanCoins /\ Total(U) = 0 /\ coins \in Int
    <3>1. Amounts({}) /\ IsFiniteSet({})
      BY FS_EmptySet DEF Amounts
    <3>2. Total({} \cup {e}) = Total({}) + e.amount
      BY <2>4, <2>5, <3>1, TotalAdds
    <3>3. {} \cup {e} = P /\ IsFiniteSet(P) /\ U = {}
      BY FS_Singleton
    <3> HIDE DEF P, U
    <3>4. Total(P) = Total({}) + e.amount /\ Total(U) = Total({})
      BY <3>2, <3>3, Zenon
    <3> QED
      BY <2>4, <2>5, <3>3, <3>4, TotalOfNone, CoinsType
  <2>12. /\ \A x \in P : /\ x \in EntryRows /\ x.amount > 0 /\ x.type = "FULL"
                         /\ x.op = plan[w].op /\ Writing(plan[w])
         /\ \A x \in U : x \in ledger /\ x \notin ReversedRows /\ x.amount > 0
    BY <2>4, <2>5, <2>6
  <2>13. ledger' = ledger \cup P /\ reversals' = reversals \cup Reversal(plan[w], U)
    BY <2>1, <2>4 DEF Reversal
  <2> HIDE DEF P, U
  <2>14. coins' = coins - Total(U) + Total(P)
    BY <2>4, <2>5, <2>11
  <2> QED
    BY <2>1, <2>7, <2>8, <2>10, <2>11, <2>12, <2>13, <2>14, PlanWrites
<1> QED
  BY <1>1, <1>2

(* What a reversal writes is typed.                                         *)
LEMMA ReversalsTyped ==
    ASSUME PlanInv, NEW w \in Writers, NEW rows, \A row \in rows : row \in Row,
           ReverseAwards(w, rows), completion' \in [Days -> Row \cup {NoRow}],
           UNCHANGED <<habit, ledger, user, frozen, owned, allocations, bundle>>
    PROVE  TablesOK'
<1> DEFINE U == Reversible(rows) \ ReversedRows
<1>1. \A e \in U : e \in ledger
  BY TakenStand
<1>2. reversals' = reversals \cup Reversal(plan[w], U)
  BY DEF ReverseAwards
<1> HIDE DEF U
<1>3. TablesOK /\ plan[w].op \in Nat
  BY PlanBefore
<1>4. \A v \in reversals' : v.op \in Nat /\ v.of \in EntryRows
  <2>1. \A v \in Reversal(plan[w], U) : v.op = plan[w].op /\ v.of \in U
    BY DEF Reversal
  <2> QED
    BY <1>1, <1>2, <1>3, <2>1 DEF TablesOK
<1> QED
  BY <1>3, <1>4 DEF TablesOK

(* The day's row is deleted and its award taken back.                       *)
LEMMA UncompleteDayKeeps ==
    ASSUME PlanInv, NEW w \in Writers, UncompleteDay(w)
    PROVE  PlanInv' /\ (UNCHANGED tables \/ Account!Move)
<1>1. CASE Refused(w)
  BY <1>1, RefusedKeeps
<1>2. CASE ~Refused(w)
  <2> DEFINE o == plan[w]
  <2>1. /\ o.pc = "write" /\ Writable(o) /\ WritesTask(w) /\ Commits(w, -XpGain)
        /\ completion' = [completion EXCEPT ![o.day] = NoRow]
        /\ ReverseAwards(w, {o.row}) /\ o.row # NoRow
        /\ UNCHANGED <<habit, ledger, user, frozen, owned, allocations, bundle>>
        /\ req' = req /\ ops' = ops /\ planDay' = planDay
    BY <1>2 DEF UncompleteDay, Uncompletes
  <2>2. o.row \in Row /\ TablesOK
    BY <2>1, PlanBefore DEF PlanOK
  <2>3. TasksOK'
    BY <2>1, TaskWritten
  <2>4. PICK q : /\ plan' = [plan EXCEPT ![w] = q] /\ PlanOK(q) /\ q.op <= ops
                 /\ ~Writing(q)
    BY <2>1, Committed, HabitRewardsAssumption
  <2>5. completion' \in [Days -> Row \cup {NoRow}]
    BY <2>1, <2>2 DEF TablesOK
  <2>6. TablesOK'
    BY <2>1, <2>2, <2>5, ReversalsTyped
  <2> QED
    BY <2>1, <2>2, <2>3, <2>4, <2>6, PlanReverses
<1> QED
  BY <1>1, <1>2

(* A task that touches no completion is written.                            *)
LEMMA EditTaskKeeps ==
    ASSUME PlanInv, NEW w \in Writers, EditTask(w)
    PROVE  PlanInv' /\ UNCHANGED tables
<1>1. CASE Refused(w)
  BY <1>1, RefusedKeeps
<1>2. CASE ~Refused(w)
  <2>1. /\ plan[w].pc = "write" /\ Writable(plan[w]) /\ WritesTask(w)
        /\ Commits(w, 0) /\ req' = req /\ ops' = ops /\ planDay' = planDay
        /\ UNCHANGED tables
    BY <1>2 DEF EditTask
  <2>2. TasksOK'
    BY <2>1, TaskWritten
  <2>3. PICK q : /\ plan' = [plan EXCEPT ![w] = q] /\ PlanOK(q) /\ q.op <= ops
                 /\ ~Writing(q)
    BY <2>1, Committed
  <2> QED
    BY <2>1, <2>2, <2>3, GoingOnKeeps
<1> QED
  BY <1>1, <1>2

(* The rows a removal deletes.                                              *)
LEMMA RowsRemoved ==
    ASSUME PlanInv, NEW w \in Writers, plan[w].pc \in {"delete", "plan"},
           RemovesRows(w),
           UNCHANGED <<habit, ledger, user, frozen, owned, allocations, bundle>>
    PROVE  /\ \A row \in Awarded(plan[w]) : row \in Row
           /\ ReverseAwards(w, Awarded(plan[w])) /\ TablesOK'
<1>1. \A row \in Awarded(plan[w]) : row \in Row
  BY PlanBefore DEF Awarded, RowsFound, PlanOK
<1>2. completion' \in [Days -> Row \cup {NoRow}]
  BY PlanBefore DEF RemovesRows, TablesOK
<1>3. ReverseAwards(w, Awarded(plan[w]))
  BY DEF RemovesRows
<1> QED
  BY <1>1, <1>2, <1>3, ReversalsTyped

(* A task is removed with its completion.                                   *)
LEMMA CommitDeleteKeeps ==
    ASSUME PlanInv, NEW w \in Writers, CommitDelete(w)
    PROVE  PlanInv' /\ (UNCHANGED tables \/ Account!Move)
<1>1. CASE Refused(w)
  BY <1>1, RefusedKeeps
<1>2. CASE ~Refused(w)
  <2>1. /\ plan[w].pc = "delete" /\ RemovesRows(w)
        /\ task' = [task EXCEPT ![plan[w].t] = GoneTask]
        /\ Commits(w, IF Awarded(plan[w]) = {} THEN 0 ELSE -XpGain)
        /\ UNCHANGED <<habit, ledger, user, frozen, owned, allocations, bundle>>
        /\ req' = req /\ ops' = ops /\ planDay' = planDay
    BY <1>2 DEF CommitDelete
  <2>2. TasksOK'
    BY <2>1 DEF PlanInv, TasksOK, IsTask
  <2>3. (IF Awarded(plan[w]) = {} THEN 0 ELSE -XpGain) \in Int
    BY HabitRewardsAssumption
  <2>4. PICK q : /\ plan' = [plan EXCEPT ![w] = q] /\ PlanOK(q) /\ q.op <= ops
                 /\ ~Writing(q)
    BY <2>1, <2>3, Committed
  <2>5. /\ \A row \in Awarded(plan[w]) : row \in Row
        /\ ReverseAwards(w, Awarded(plan[w])) /\ TablesOK'
    BY <2>1, RowsRemoved
  <2> QED
    BY <2>1, <2>2, <2>4, <2>5, PlanReverses
<1> QED
  BY <1>1, <1>2

(* The tasks of a plan are replaced.                                        *)
LEMMA CommitPlanKeeps ==
    ASSUME PlanInv, NEW w \in Writers, CommitPlan(w)
    PROVE  PlanInv' /\ (UNCHANGED tables \/ Account!Move)
<1>1. CASE Refused(w)
  BY <1>1, RefusedKeeps
<1>2. CASE ~Refused(w)
  <2> DEFINE o == plan[w]
  <2>1. /\ o.pc = "plan" /\ RemovesRows(w) /\ Closes(w)
        /\ planDay' = [planDay EXCEPT ![o.p] = o.day]
        /\ task' = [t \in Tasks |->
                      IF t \in DOMAIN o.fresh THEN o.fresh[t]
                      ELSE IF t \in TasksOf(o.p) THEN GoneTask ELSE task[t]]
        /\ UNCHANGED <<habit, ledger, user, frozen, owned, allocations, bundle>>
        /\ req' = req /\ ops' = ops
    BY <1>2 DEF CommitPlan
  <2>2. /\ o.day \in Days /\ o.p \in Plans
        /\ \A t \in DOMAIN o.fresh : o.fresh[t] \in Task /\ o.fresh[t].on = o.p
    BY <2>1, PlanBefore DEF PlanOK
  <2>3. TasksOK'
    <3>1. o.day # 0 /\ o.day \in Days \cup {0}
      BY <2>2 DEF Days
    <3>2. planDay' \in [Plans -> Days \cup {0}]
      BY <2>1, <2>2, <3>1 DEF PlanInv, TasksOK
    <3>3. ASSUME NEW t \in Tasks, IsTask(t)'
          PROVE  task'[t] \in Task /\ planDay'[task'[t].on] # 0
      <4>1. CASE t \in DOMAIN o.fresh
        BY <2>1, <2>2, <3>1, <4>1 DEF PlanInv, TasksOK
      <4>2. CASE t \notin DOMAIN o.fresh
        <5>1. task'[t] = task[t] /\ IsTask(t) /\ planDay[task[t].on] # 0
              /\ task[t] \in Task
          BY <2>1, <3>3, <4>2 DEF PlanInv, TasksOK, IsTask
        <5>2. planDay'[task[t].on] # 0
          BY <2>1, <3>1, <5>1 DEF PlanInv, TasksOK, Task
        <5> QED
          BY <5>1, <5>2
      <4> QED
        BY <4>1, <4>2
    <3> QED
      BY <2>1, <3>2, <3>3 DEF TasksOK
  <2>4. plan' = [plan EXCEPT ![w] = Resting] /\ Resting.op <= ops
    BY <2>1, RestingOK, PlanBefore DEF Closes
  <2>5. /\ \A row \in Awarded(o) : row \in Row
        /\ ReverseAwards(w, Awarded(o)) /\ TablesOK'
    BY <2>1, RowsRemoved
  <2> QED
    BY <2>1, <2>3, <2>4, <2>5, RestingOK, PlanReverses
<1> QED
  BY <1>1, <1>2

(* Experience is read after the commit.                                     *)
LEMMA ReadXpKeeps ==
    ASSUME PlanInv, NEW w \in Writers, ReadXp(w)
    PROVE  PlanInv' /\ UNCHANGED tables
<1> DEFINE q == [plan[w] EXCEPT !.pc = "addxp", !.xp = user.xp, !.level = user.level]
<1>1. /\ plan' = [plan EXCEPT ![w] = q] /\ ops' = ops /\ req' = req
      /\ UNCHANGED tables /\ UNCHANGED <<planDay, task>> /\ plan[w].pc = "xp"
  BY DEF ReadXp, planTables
<1>2. PlanOK(plan[w]) /\ user \in [xp : Nat, level : Nat \ {0}] /\ plan[w].op <= ops
  BY PlanBefore DEF TablesOK, PlanInv, PlanFresh
<1>3. PlanOK(q) /\ q.op <= ops /\ ~Writing(q)
  BY <1>1, <1>2 DEF PlanOK, PlanFields, Writing
<1>4. TasksOK'
  BY <1>1 DEF PlanInv, TasksOK, IsTask
<1> HIDE DEF q
<1> QED
  BY <1>1, <1>3, <1>4, GoingOnKeeps

(* Experience is written back.                                              *)
LEMMA WriteXpKeeps ==
    ASSUME PlanInv, NEW w \in Writers, WriteXp(w)
    PROVE  PlanInv' /\ Account!Move
<1>1. /\ plan[w].pc = "addxp" /\ user' = XpAfter(plan[w])
      /\ plan' = [plan EXCEPT ![w] = Resting] /\ ops' = ops /\ req' = req
      /\ UNCHANGED <<habit, completion, ledger, reversals, coins, frozen, owned,
                     allocations, bundle>>
      /\ UNCHANGED <<planDay, task>>
  BY DEF WriteXp, Closes, planTables
<1>2. user' \in [xp : Nat, level : Nat \ {0}]
  <2>1. plan[w].xp \in Nat /\ plan[w].level \in Nat \ {0} /\ plan[w].xpDelta \in Int
    BY <1>1, PlanBefore DEF PlanOK
  <2> QED
    BY <1>1, <2>1, HabitRewardsAssumption DEF XpAfter, XpNeeded
<1>3. TablesOK'
  BY <1>1, <1>2, PlanBefore DEF TablesOK
<1>4. TasksOK'
  BY <1>1 DEF PlanInv, TasksOK, IsTask
<1>5. Resting.op <= ops
  BY RestingOK, PlanBefore
<1> QED
  BY <1>1, <1>3, <1>4, <1>5, RestingOK, PlanLeaves

-----------------------------------------------------------------------------
(* A toggle, a purchase or the habit's removal leaves the plan's requests   *)
(* and unlinks at most.                                                     *)
LEMMA HabitStepKeeps ==
    ASSUME PlanInv, HabitStep
    PROVE  PlanInv' /\ [Account!Next]_(Account!account)
<1>1. Next /\ plan' = plan /\ planDay' = planDay /\ LedgerInv /\ BalanceInv
  BY DEF HabitStep, PlanInv, BalanceInv
<1>2. BalanceInv' /\ Numbered /\ [Account!Next]_(Account!account)
  BY <1>1, BalanceStep, RulesStep, AccountStep
<1>3. TasksOK'
  <2>1. task' = [t \in Tasks |->
                   IF habit' = "gone" /\ IsTask(t)
                     THEN [task[t] EXCEPT !.linked = FALSE] ELSE task[t]]
    BY DEF HabitStep
  <2>2. ASSUME NEW t \in Tasks, IsTask(t)'
        PROVE  task'[t] \in Task /\ planDay'[task'[t].on] # 0
    <3>1. IsTask(t)
      BY <2>1, <2>2 DEF IsTask
    <3>2. task[t] \in Task /\ planDay[task[t].on] # 0
      BY <3>1 DEF PlanInv, TasksOK
    <3> QED
      BY <1>1, <2>1, <3>2 DEF Task
  <2> QED
    BY <1>1, <2>1, <2>2 DEF PlanInv, TasksOK
<1>4. PlansOK'
  BY <1>1 DEF PlanInv, PlansOK
<1>5. PlanFresh'
  <2>1. ops \in Nat /\ ops' >= ops /\ \A v \in Writers : plan[v].op \in Nat
    BY <1>2, PlanBefore DEF Numbered
  <2>2. ASSUME NEW v \in Writers, Writing(plan[v])
        PROVE  /\ \A e \in ledger' : e.op # plan[v].op
               /\ \A r \in Requests : Underway(req'[r]) => req'[r].op # plan[v].op
    BY <1>2, <2>1, <2>2 DEF Numbered, PlanInv, PlanFresh
  <2>3. \A v \in Writers : plan[v].op <= ops'
    BY <1>2, <2>1 DEF PlanInv, PlanFresh, Numbered
  <2>4. \A v \in Writers : Writing(plan[v]) =>
          \A x \in Writers \ {v} : Writing(plan[x]) => plan[x].op # plan[v].op
    BY DEF PlanInv, PlanFresh
  <2>5. \A v \in Writers : plan'[v] = plan[v]
    BY <1>1
  <2> QED
    BY <2>2, <2>3, <2>4, <2>5 DEF PlanFresh, Writing
<1> QED
  BY <1>2, <1>3, <1>4, <1>5 DEF PlanInv

(* Every step keeps the invariant and is one of the account, or none.       *)
LEMMA PlanStepKeeps ==
    ASSUME PlanInv, [PlanNext]_planVars
    PROVE  PlanInv' /\ [Account!Next]_(Account!account)
<1>1. ASSUME UNCHANGED tables PROVE UNCHANGED (Account!account)
  BY <1>1 DEF tables, Account!account, Credits, Debits, ReversedRows
<1>2. CASE UNCHANGED planVars
  <2>1. /\ UNCHANGED vars /\ UNCHANGED <<planDay, task, plan>>
    BY <1>2 DEF planVars, planTables
  <2>2. BalanceInv' /\ [Account!Next]_(Account!account)
    BY <2>1, BalanceStep, AccountStep DEF PlanInv, BalanceInv
  <2>3. ops' = ops /\ req' = req /\ ledger' = ledger
    BY <2>1 DEF vars, tables
  <2> QED
    BY <2>1, <2>2, <2>3 DEF PlanInv, TasksOK, IsTask, PlansOK, PlanFresh
<1>3. CASE HabitStep
  BY <1>3, HabitStepKeeps
<1>4. ASSUME NEW w \in Writers, TaskStep(w) \/ PlanStep(w) \/ ReadXp(w) \/ WriteXp(w)
                                  \/ Deadlock(w) \/ AbandonPlan(w)
      PROVE  PlanInv' /\ (UNCHANGED tables \/ Account!Move)
  <2>1. CASE TaskStep(w)
    BY <2>1, BeginTaskKeeps, AtOnceKeeps, ReadRowKeeps, CompleteDayKeeps,
       UncompleteDayKeeps, EditTaskKeeps, BeginDeleteKeeps, CommitDeleteKeeps
       DEF TaskStep
  <2>2. CASE PlanStep(w)
    <3>1. ASSUME NEW p \in Plans, NEW d \in Days, NEW ts \in SUBSET Tasks,
                 NEW fresh \in [ts -> Task], \A t \in ts : fresh[t].on = p,
                 BeginPlan(w, p, d, fresh)
          PROVE  PlanInv' /\ UNCHANGED tables
      BY <3>1, BeginPlanKeeps
    <3> QED
      BY <2>2, <3>1, AtOnceKeeps, CommitPlanKeeps DEF PlanStep
  <2>3. CASE AbandonPlan(w)
    BY <2>3, RefusedKeeps DEF AbandonPlan
  <2> QED
    BY <1>4, <2>1, <2>2, <2>3, ReadXpKeeps, WriteXpKeeps, RefusedKeeps
<1> QED
  BY <1>1, <1>2, <1>3, <1>4 DEF PlanNext, Account!Next

(* A user with one plan and no request.                                     *)
LEMMA PlanStart == PlanInit => PlanInv
<1> SUFFICES ASSUME PlanInit PROVE PlanInv
  OBVIOUS
<1>1. BalanceInv /\ ledger = {} /\ ops = 0 /\ ops \in Nat
  BY BalanceStart DEF PlanInit, Init
<1>2. plan = [w \in Writers |-> Resting] /\ planDay = [p \in Plans |-> p]
  BY DEF PlanInit
<1>3. PlansOK
  BY <1>2, RestingOK DEF PlansOK
<1>4. PlanFresh
  BY <1>1, <1>2, RestingOK DEF PlanFresh
<1>5. TasksOK
  <2>1. PICK t \in Tasks, p \in Plans :
          task = [x \in Tasks |->
                     IF x = t THEN [on |-> p, linked |-> TRUE, status |-> "PENDING"]
                     ELSE NoTask]
    BY DEF PlanInit
  <2>2. \A o \in Plans : o \in Days /\ o # 0
    BY DailyPlanAssumption DEF Days
  <2> QED
    BY <1>2, <2>1, <2>2 DEF TasksOK, IsTask, Task, Statuses
<1> QED
  BY <1>1, <1>3, <1>4, <1>5 DEF PlanInv

LEMMA PlanAlways == PlanSpec => []PlanInv
  BY PlanStart, PlanStepKeeps, PTL DEF PlanSpec

(* No award is reversed twice, although toggles and plan requests that race *)
(* hold the same stale row and each believes its award still stands         *)
(* (daily-plan.service.ts, rewards.service.ts reverseCompletionAward).      *)
THEOREM PlanReversesOnce == PlanSpec => []ReversedOnce
<1>1. PlanInv => ReversedOnce
  BY DEF PlanInv, BalanceInv, LedgerInv
<1> QED
  BY <1>1, PlanAlways, PTL

(* The balance is the sum of the ledger while two services write both.      *)
THEOREM PlanBalanceIsTheSum == PlanSpec => []BalanceMatchesLedger
<1>1. PlanInv => BalanceMatchesLedger
  BY DEF PlanInv, BalanceInv
<1> QED
  BY <1>1, PlanAlways, PTL

(* The daily plan composed with the toggles implements the abstract account:*)
(* whichever service writes, a credit is granted once, taken back once and  *)
(* never returns, and coins are spent only when they are there.             *)
THEOREM PlanImplementsAccount == PlanSpec => AccountSpec
<1>1. PlanInit => Account!Init
  BY AccountStart DEF PlanInit
<1> QED
  BY <1>1, PlanStepKeeps, PlanAlways, PTL DEF PlanSpec, AccountSpec, Account!Spec

-----------------------------------------------------------------------------
(* Until two requests overlap.  One request is open, and what it has read   *)
(* is still so; every done day is paid once, whichever service wrote it.    *)
Alone ==
    /\ OneAtATime
    /\ \A v, w \in Writers :
          plan[v].pc # "idle" /\ plan[w].pc # "idle" => v = w
    /\ \A r \in Requests, w \in Writers :
          req[r].pc # "idle" => plan[w].pc = "idle"

PlanUpToDate(q) ==
    /\ Writing(q) =>
          /\ \A e \in ledger : e.op < q.op
          /\ \A d \in Days : completion[d] # NoRow => completion[d].id < q.op
    /\ q.pc = "write" => q.row = completion[q.day]
    /\ q.pc \in {"delete", "plan"} =>
          \A f \in q.found : f[1] \in Days /\ f[2] = completion[f[1]]

AllQuiet ==
    /\ RowIds /\ PaidOnce /\ Alone
    /\ \A r \in Requests : UpToDate(req[r])
    /\ \A w \in Writers : PlanUpToDate(plan[w])

QuietInv == PlanInv /\ (~overlapped => AllQuiet)

(* The state in which a quiet step starts.                                  *)
LEMMA QuietState ==
    ASSUME PlanInv, AllQuiet
    PROVE  /\ PaidState
           /\ \A w \in Writers, r \in Requests : plan[w].pc # "idle" =>
                req[r].pc = "idle" /\ \A v \in Writers \ {w} : plan[v].pc = "idle"
  BY DEF PlanInv, BalanceInv, PaidState, AllQuiet, Alone

(* A request at rest has read nothing.                                      *)
LEMMA AtRest ==
    /\ \A q : q.pc = "idle" => UpToDate(q) /\ PlanUpToDate(q)
    /\ Resting.pc = "idle"
  BY DEF UpToDate, PlanUpToDate, Writing, Resting

(* Rows, awards and reversals as they were: what was read is still so.      *)
LEMMA QuietLeft ==
    ASSUME PlanInv, AllQuiet, completion' = completion, ledger' = ledger,
           reversals' = reversals, ops' = ops \/ ops' = ops + 1
    PROVE  RowIds' /\ PaidOnce'
<1>1. BaseRows' = BaseRows /\ Outstanding' = Outstanding
  BY DEF BaseRows, Outstanding, ReversedRows
<1> QED
  BY <1>1, QuietState, StillPaid

(* A plan request that begins, goes on or ends on the same rows.            *)
LEMMA QuietPlanStep ==
    ASSUME PlanInv, AllQuiet, NEW w \in Writers, NEW q,
           plan' = [plan EXCEPT ![w] = q], req' = req,
           completion' = completion, ledger' = ledger, reversals' = reversals,
           ops' = ops \/ ops' = ops + 1,
           q.pc # "idle" => /\ \A r \in Requests : req[r].pc = "idle"
                            /\ \A v \in Writers \ {w} : plan[v].pc = "idle",
           PlanUpToDate(q)
    PROVE  AllQuiet'
<1>1. \A v \in Writers : plan'[v] = IF v = w THEN q ELSE plan[v]
  BY DEF PlanInv, PlansOK
<1>2. RowIds' /\ PaidOnce'
  BY QuietLeft
<1>3. Alone'
  BY <1>1 DEF AllQuiet, Alone, OneAtATime
<1>5. ASSUME NEW v \in Writers PROVE PlanUpToDate(plan[v])'
  <2>1. PlanUpToDate(plan'[v])
    BY <1>1 DEF AllQuiet
  <2> QED
    BY <2>1 DEF PlanUpToDate, Writing
<1>4. \A r \in Requests : UpToDate(req[r])'
  BY DEF AllQuiet, UpToDate
<1> QED
  BY <1>2, <1>3, <1>4, <1>5 DEF AllQuiet

(* A transaction of the only request that is open writes rows and closes.   *)
LEMMA QuietCommit ==
    ASSUME PlanInv, AllQuiet, NEW w \in Writers, plan[w].pc # "idle", NEW q,
           plan' = [plan EXCEPT ![w] = q], q.pc \in {"idle", "xp"},
           req' = req, RowIds', PaidOnce'
    PROVE  AllQuiet'
<1>1. \A v \in Writers : plan'[v] = IF v = w THEN q ELSE plan[v]
  BY DEF PlanInv, PlansOK
<1>2. /\ \A r \in Requests : req'[r].pc = "idle"
      /\ \A v \in Writers \ {w} : plan'[v].pc = "idle"
  <2>1. \A r \in Requests : req[r].pc = "idle"
    BY QuietState
  <2>2. \A v \in Writers \ {w} : plan[v].pc = "idle"
    BY DEF AllQuiet, Alone
  <2> QED
    BY <1>1, <2>1, <2>2
<1>3. Alone'
  BY <1>1, <1>2 DEF Alone, OneAtATime
<1>4. \A r \in Requests : UpToDate(req[r])'
  BY <1>2 DEF UpToDate
<1>5. ASSUME NEW v \in Writers PROVE PlanUpToDate(plan[v])'
  <2>1. plan'[v].pc \in {"idle", "xp"}
    BY <1>1, <1>2
  <2> QED
    BY <2>1 DEF PlanUpToDate, Writing
<1> QED
  BY <1>3, <1>4, <1>5 DEF AllQuiet

(* What a commit leaves the request at.                                     *)
LEMMA CommitsTo ==
    ASSUME NEW w \in Writers, NEW delta, Commits(w, delta),
           PlanInv
    PROVE  \E q : plan' = [plan EXCEPT ![w] = q] /\ q.pc \in {"idle", "xp"}
<1>1. CASE delta = 0
  BY <1>1, AtRest DEF Commits
<1>2. CASE delta # 0
  <2> DEFINE q == [plan[w] EXCEPT !.pc = "xp", !.xpDelta = delta]
  <2>1. plan' = [plan EXCEPT ![w] = q]
    BY <1>2 DEF Commits
  <2>2. PlanOK(plan[w])
    BY PlanBefore
  <2>3. q.pc = "xp"
    BY <2>2 DEF PlanOK, PlanFields
  <2> HIDE DEF q
  <2> QED
    BY <2>1, <2>3
<1> QED
  BY <1>1, <1>2

-----------------------------------------------------------------------------
(* A request that opens while the history is quiet finds nothing open.      *)
LEMMA OpensAlone ==
    ASSUME NEW w \in Writers, NEW q, Opens(w, q), ~overlapped'
    PROVE  /\ \A r \in Requests : req[r].pc = "idle"
           /\ \A v \in Writers : plan[v].pc = "idle"
  BY DEF Opens, Open

(* Numbers given so far are below the next.                                 *)
LEMMA NextNumber ==
    ASSUME PlanInv, AllQuiet
    PROVE  /\ ops \in Nat
           /\ \A e \in ledger : e.op < ops + 1
           /\ \A d \in Days : completion[d] # NoRow => completion[d].id < ops + 1
<1>1. /\ ops \in Nat /\ completion \in [Days -> Row \cup {NoRow}]
      /\ \A e \in ledger : e.op \in Nat
  BY PlanBefore DEF TablesOK
<1>2. \A e \in ledger : e.op <= ops
  BY DEF PlanInv, BalanceInv, LedgerInv, FreshOps
<1>3. \A d \in Days : completion[d] # NoRow => completion[d].id \in Nat
  BY <1>1 DEF Row
<1> QED
  BY <1>1, <1>2, <1>3 DEF AllQuiet, RowIds

LEMMA BeginTaskQuiet ==
    ASSUME PlanInv, AllQuiet, NEW w \in Writers, NEW t \in Tasks, NEW ask \in Task,
           BeginTask(w, t, ask), ~overlapped'
    PROVE  AllQuiet'
<1> DEFINE q0 == [Resting EXCEPT !.pc = "task", !.t = t, !.was = task[t],
                                 !.ask = ask, !.day = planDay[task[t].on]]
           q == [q0 EXCEPT !.op = ops + 1]
<1>1. Opens(w, q0) /\ plan' = [plan EXCEPT ![w] = q] /\ ops' = ops + 1 /\ req' = req
      /\ UNCHANGED <<completion, ledger, reversals>>
  BY DEF BeginTask, Opens, tables
<1>2. q.pc = "task" /\ q.op = ops + 1
  BY DEF Resting
<1> HIDE DEF q0, q
<1>3. PlanUpToDate(q)
  BY <1>2, NextNumber DEF PlanUpToDate
<1>4. /\ \A r \in Requests : req[r].pc = "idle"
      /\ \A v \in Writers : plan[v].pc = "idle"
  BY <1>1, OpensAlone
<1> QED
  BY <1>1, <1>3, <1>4, QuietPlanStep

(* Removals and plan changes read the rows they find.                       *)
LEMMA FoundQuiet ==
    ASSUME NEW ts, NEW ds \in OnePerTask(ts)
    PROVE  \A f \in {<<d, completion[d]>> : d \in ds} :
              f[1] \in Days /\ f[2] = completion[f[1]]
<1>1. \A d \in ds : d \in Days
  BY DEF OnePerTask, Sourced
<1> QED
  BY <1>1

LEMMA BeginDeleteQuiet ==
    ASSUME PlanInv, AllQuiet, NEW w \in Writers, NEW t \in Tasks, BeginDelete(w, t),
           ~overlapped'
    PROVE  AllQuiet'
<1>1. PICK ds \in OnePerTask({t}) :
        Opens(w, [Resting EXCEPT !.pc = "delete", !.t = t,
                                 !.found = {<<d, completion[d]>> : d \in ds}])
  BY DEF BeginDelete
<1> DEFINE found == {<<d, completion[d]>> : d \in ds}
           q0 == [Resting EXCEPT !.pc = "delete", !.t = t, !.found = found]
           q == [q0 EXCEPT !.op = ops + 1]
<1>2. \A f \in found : f[1] \in Days /\ f[2] = completion[f[1]]
  BY FoundQuiet
<1>3. Opens(w, q0) /\ plan' = [plan EXCEPT ![w] = q] /\ ops' = ops + 1 /\ req' = req
      /\ UNCHANGED <<completion, ledger, reversals>>
  BY <1>1 DEF BeginDelete, Opens, tables
<1> HIDE DEF found
<1>4. q.pc = "delete" /\ q.found = found
  BY DEF Resting
<1> HIDE DEF q0, q
<1>5. PlanUpToDate(q)
  BY <1>2, <1>4 DEF PlanUpToDate, Writing
<1>6. /\ \A r \in Requests : req[r].pc = "idle"
      /\ \A v \in Writers : plan[v].pc = "idle"
  BY <1>3, OpensAlone
<1> QED
  BY <1>3, <1>5, <1>6, QuietPlanStep

LEMMA BeginPlanQuiet ==
    ASSUME PlanInv, AllQuiet, NEW w \in Writers, NEW p \in Plans, NEW day \in Days,
           NEW fresh, BeginPlan(w, p, day, fresh), ~overlapped'
    PROVE  AllQuiet'
<1>1. PICK ds \in OnePerTask(TasksOf(p)) :
        Opens(w, [Resting EXCEPT
              !.pc = "plan", !.p = p, !.day = day, !.fresh = fresh,
              !.found = {<<x, completion[x]>> : x \in ds}])
  BY DEF BeginPlan
<1> DEFINE found == {<<x, completion[x]>> : x \in ds}
           q0 == [Resting EXCEPT !.pc = "plan", !.p = p, !.day = day,
                                 !.fresh = fresh, !.found = found]
           q == [q0 EXCEPT !.op = ops + 1]
<1>2. \A f \in found : f[1] \in Days /\ f[2] = completion[f[1]]
  BY FoundQuiet
<1>3. Opens(w, q0) /\ plan' = [plan EXCEPT ![w] = q] /\ ops' = ops + 1 /\ req' = req
      /\ UNCHANGED <<completion, ledger, reversals>>
  BY <1>1 DEF BeginPlan, Opens, tables
<1> HIDE DEF found
<1>4. q.pc = "plan" /\ q.found = found
  BY DEF Resting
<1> HIDE DEF q0, q
<1>5. PlanUpToDate(q)
  BY <1>2, <1>4 DEF PlanUpToDate, Writing
<1>6. /\ \A r \in Requests : req[r].pc = "idle"
      /\ \A v \in Writers : plan[v].pc = "idle"
  BY <1>3, OpensAlone
<1> QED
  BY <1>3, <1>5, <1>6, QuietPlanStep

(* A refusal ends the request.                                              *)
LEMMA RefusedQuiet ==
    ASSUME PlanInv, AllQuiet, NEW w \in Writers, Refused(w)
    PROVE  AllQuiet'
<1>1. /\ plan' = [plan EXCEPT ![w] = Resting] /\ req' = req /\ ops' = ops
      /\ UNCHANGED <<completion, ledger, reversals>>
  BY DEF Refused, Closes, tables
<1> QED
  BY <1>1, AtRest, QuietPlanStep

(* Nothing is locked by another while a plan request is open.               *)
LEMMA DeadlockQuiet ==
    ASSUME PlanInv, AllQuiet, NEW w \in Writers, Deadlock(w)
    PROVE  FALSE
<1>1. plan[w].pc # "idle" /\ \E r \in Requests : req[r].pc # "idle"
  BY DEF Deadlock, Holders
<1> QED
  BY <1>1 DEF AllQuiet, Alone

(* What is done at once reads no row and writes none.                       *)
LEMMA AtOnceQuiet ==
    ASSUME PlanInv, AllQuiet, NEW w \in Writers,
           \/ \E t \in Tasks, new \in Task : CreateTask(w, t, new)
           \/ \E p \in Plans, d \in Days : MovePlan(w, p, d)
           \/ \E p \in Plans : DeletePlan(w, p)
    PROVE  AllQuiet'
<1>1. /\ plan' = plan /\ ops' = ops + 1 /\ req' = req
      /\ UNCHANGED <<completion, ledger, reversals>>
  BY DEF CreateTask, MovePlan, DeletePlan, tables
<1>2. plan' = [plan EXCEPT ![w] = plan[w]]
  BY <1>1 DEF PlanInv, PlansOK
<1>3. PlanUpToDate(plan[w])
  BY DEF AllQuiet
<1>4. plan[w].pc # "idle" => /\ \A r \in Requests : req[r].pc = "idle"
                             /\ \A v \in Writers \ {w} : plan[v].pc = "idle"
  BY DEF AllQuiet, Alone
<1> DEFINE q == plan[w]
<1>5. /\ plan' = [plan EXCEPT ![w] = q] /\ PlanUpToDate(q)
      /\ q.pc # "idle" => /\ \A r \in Requests : req[r].pc = "idle"
                          /\ \A v \in Writers \ {w} : plan[v].pc = "idle"
  BY <1>2, <1>3, <1>4
<1> HIDE DEF q
<1> QED
  BY <1>1, <1>5, QuietPlanStep

(* Statements of an open request that read.                                 *)
LEMMA ReadsQuiet ==
    ASSUME PlanInv, AllQuiet, NEW w \in Writers, ReadRow(w) \/ ReadXp(w)
    PROVE  AllQuiet'
<1>1. CASE Refused(w)
  BY <1>1, RefusedQuiet
<1>2. CASE ~Refused(w)
  <2>0. /\ PlanOK(plan[w]) /\ plan[w].pc # "idle" /\ PlanUpToDate(plan[w])
        /\ req' = req /\ ops' = ops /\ UNCHANGED <<completion, ledger, reversals>>
    BY <1>2, PlanBefore DEF ReadRow, ReadXp, tables, AllQuiet
  <2>1. /\ \A r \in Requests : req[r].pc = "idle"
        /\ \A v \in Writers \ {w} : plan[v].pc = "idle"
    BY <2>0 DEF AllQuiet, Alone
  <2>2. PICK q : plan' = [plan EXCEPT ![w] = q] /\ PlanUpToDate(q)
    <3>1. CASE ReadRow(w)
      <4> DEFINE found == IF sourced[plan[w].day] = plan[w].t THEN {plan[w].day} ELSE {}
                 q == [plan[w] EXCEPT !.pc = "write", !.row = completion[plan[w].day],
                                      !.found = found]
      <4>1. plan' = [plan EXCEPT ![w] = q] /\ plan[w].pc = "task"
        BY <1>2, <3>1 DEF ReadRow
      <4> HIDE DEF found
      <4>2. /\ q.pc = "write" /\ q.op = plan[w].op /\ q.day = plan[w].day
            /\ q.row = completion[q.day]
        BY <2>0 DEF PlanOK, PlanFields
      <4> HIDE DEF q
      <4>3. PlanUpToDate(q)
        BY <2>0, <4>1, <4>2 DEF PlanUpToDate, Writing
      <4> QED
        BY <4>1, <4>3
    <3>2. CASE ReadXp(w)
      <4> DEFINE q == [plan[w] EXCEPT !.pc = "addxp", !.xp = user.xp, !.level = user.level]
      <4>1. plan' = [plan EXCEPT ![w] = q]
        BY <3>2 DEF ReadXp
      <4>2. q.pc = "addxp"
        BY <2>0 DEF PlanOK, PlanFields
      <4> HIDE DEF q
      <4>3. PlanUpToDate(q)
        BY <4>2 DEF PlanUpToDate, Writing
      <4> QED
        BY <4>1, <4>3
    <3> QED
      BY <3>1, <3>2
  <2> QED
    BY <2>0, <2>1, <2>2, QuietPlanStep
<1> QED
  BY <1>1, <1>2

-----------------------------------------------------------------------------
(* What a reversal takes back of a row that is there is what stands for it. *)
LEMMA TakenIsPaid ==
    ASSUME PaidState, NEW d \in Days, completion[d] # NoRow
    PROVE  LatestAward(completion[d]) \ ReversedRows = PaidFor(d)
<1>1. completion[d] \in Row
  BY Before DEF PaidState, LedgerInv, TypeInv, TypeOK, TablesOK
<1>2. CASE DoneAt(d)
  <2>1. LatestAward(completion[d]) = PaidFor(d)
    BY <1>2, LatestIsPaid, Zenon DEF LatestAward, AwardsOf
  <2>2. PaidFor(d) \cap ReversedRows = {}
    BY DEF PaidFor, Outstanding
  <2> QED
    BY <2>1, <2>2
<1>3. CASE ~DoneAt(d)
  <2>1. ASSUME NEW e \in LatestAward(completion[d]), e \notin ReversedRows
        PROVE  FALSE
    <3>1. e \in ledger /\ e.type = completion[d].kind /\ e.ref[1] = completion[d].id
      BY DEF LatestAward, AwardsOf
    <3>2. e.type \in BaseTypes
      BY <1>1, <3>1, HabitRewardsAssumption DEF Row, BaseTypes
    <3>3. e \in Outstanding
      BY <2>1, <3>1, <3>2 DEF Outstanding
    <3>4. PICK x \in Days : DoneAt(x) /\ e.ref[1] = completion[x].id
      BY <3>3 DEF PaidState, PaidOnce
    <3>5. x = d
      BY <3>1, <3>4 DEF PaidState, RowIds, DoneAt
    <3> QED
      BY <1>3, <3>4, <3>5
  <2>2. PaidFor(d) = {}
    BY <1>3 DEF PaidFor
  <2> QED
    BY <2>1, <2>2
<1> QED
  BY <1>2, <1>3

(* Rows that are deleted with what stands for them leave the others paid.   *)
LEMMA Unpaid ==
    ASSUME PaidState, NEW ds \in SUBSET Days, ops' = ops, ledger' = ledger,
           \A d \in Days : completion'[d] = IF d \in ds THEN NoRow ELSE completion[d],
           NEW U, ReversedRows' = ReversedRows \cup U,
           U = UNION {PaidFor(d) : d \in ds}
    PROVE  RowIds' /\ PaidOnce'
<1> DEFINE fresh == {}
<1>1. RowIds'
  BY DEF PaidState, RowIds
<1>2. BaseRows' = BaseRows \cup fresh
  BY DEF BaseRows
<1>3. Outstanding' = (Outstanding \ UNION {PaidFor(d) : d \in ds}) \cup fresh
  <2>1. Outstanding' = Outstanding \ U
    BY DEF Outstanding
  <2> QED
    BY <2>1
<1>4. /\ \A d \in Days \ ds : completion'[d] = completion[d]
      /\ \A d \in ds : completion'[d] = NoRow
  OBVIOUS
<1>5. /\ \A d \in ds : completion'[d] # NoRow /\ completion'[d].status
              => \E b \in fresh : b.ref[1] = completion'[d].id
      /\ \A b, c \in fresh : b = c
      /\ \A b \in fresh : /\ \E d \in ds : /\ completion'[d] # NoRow
                                            /\ completion'[d].status
                                            /\ b.ref[1] = completion'[d].id
                                            /\ b.type = completion'[d].kind
                         /\ \A e \in ledger : e.op < b.op
  BY <1>4
<1>6. PaidOnce /\ RowIds
  BY DEF PaidState
<1> HIDE DEF fresh
<1> QED
  BY <1>1, <1>2, <1>3, <1>4, <1>5, <1>6, Repaid

(* A completed task pays its day, which was not done.                       *)
LEMMA CompleteDayQuiet ==
    ASSUME PlanInv, AllQuiet, NEW w \in Writers, CompleteDay(w)
    PROVE  AllQuiet'
<1>1. CASE Refused(w)
  BY <1>1, RefusedQuiet
<1>2. CASE ~Refused(w)
  <2> DEFINE o == plan[w]
             d0 == o.day
             row == IF o.row = NoRow
                      THEN [id |-> o.op, status |-> TRUE, kind |-> "FULL"]
                      ELSE [completion[d0] EXCEPT !.status = TRUE]
             b == Entry(o.op, "FULL", row.id, 0, PlanCoins)
             fresh == {b}
  <2>1. /\ o.pc = "write" /\ Completes(o) /\ Commits(w, XpGain)
        /\ completion' = [completion EXCEPT ![d0] = row] /\ AwardsRow(w, row)
        /\ reversals' = reversals /\ req' = req /\ ops' = ops
    BY <1>2 DEF CompleteDay
  <2>2. /\ PaidState /\ d0 \in Days /\ o.op \in Nat /\ o.op <= ops /\ ops \in Nat
        /\ completion \in [Days -> Row \cup {NoRow}]
    BY <2>1, QuietState, PlanBefore DEF PlanOK, PlanInv, PlanFresh, TablesOK
  <2>3. /\ o.row = completion[d0] /\ \A e \in ledger : e.op < o.op
        /\ \A d \in Days : completion[d] # NoRow => completion[d].id < o.op
    BY <2>1 DEF AllQuiet, PlanUpToDate, Writing
  <2>4. ~DoneAt(d0)
    BY <2>1, <2>3 DEF Completes, DoneAt
  <2>5. /\ row \in Row /\ row.status /\ row.kind = "FULL" /\ row.id <= ops
        /\ \A d \in Days : d # d0 /\ completion[d] # NoRow => completion[d].id # row.id
    <3>1. CASE o.row = NoRow
      <4>1. row = [id |-> o.op, status |-> TRUE, kind |-> "FULL"]
        BY <3>1
      <4>2. \A d \in Days : completion[d] # NoRow => completion[d].id \in Nat
        BY <2>2 DEF Row
      <4> HIDE DEF row
      <4>3. row \in Row
        BY <2>2, <4>1, HabitRewardsAssumption DEF Row
      <4> QED
        BY <2>2, <2>3, <4>1, <4>2, <4>3
    <3>2. CASE o.row # NoRow
      <4>1. completion[d0] \in Row /\ ~completion[d0].status
        BY <2>2, <2>3, <2>4, <3>2 DEF DoneAt
      <4>2. row = [completion[d0] EXCEPT !.status = TRUE]
        BY <3>2
      <4> HIDE DEF row
      <4>3. /\ row \in Row /\ row.status
            /\ row.kind = completion[d0].kind /\ row.id = completion[d0].id
        BY <4>1, <4>2 DEF Row
      <4> QED
        BY <2>2, <2>3, <3>2, <4>1, <4>3 DEF PaidState, RowIds
    <3> QED
      BY <3>1, <3>2
  <2> HIDE DEF row
  <2>6. row # NoRow
    BY <2>5, HabitRewardsAssumption DEF Row
  <2>7. \A d \in Days : completion'[d] = IF d = d0 THEN row ELSE completion[d]
    BY <2>1, <2>2
  <2>8. RowIds'
    <3>1. \A d, x \in Days : completion'[d] # NoRow /\ completion'[x] # NoRow
            /\ completion'[d].id = completion'[x].id => d = x
      BY <2>5, <2>7 DEF AllQuiet, RowIds
    <3>2. \A d \in Days : completion'[d] # NoRow =>
          /\ completion'[d].id <= ops'
          /\ ~completion'[d].status => completion'[d].kind = "FULL"
      BY <2>1, <2>5, <2>7 DEF AllQuiet, RowIds
    <3> QED
      BY <3>1, <3>2 DEF RowIds
  <2>9. /\ b.type = "FULL" /\ b.ref[1] = row.id /\ b.op = o.op
        /\ ledger' = ledger \cup fresh
    BY <2>1 DEF Entry, AwardsRow
  <2> HIDE DEF b
  <2>10. b \notin ledger
    BY <2>2, <2>3, <2>9
  <2>11. ReversedRows \subseteq ledger /\ ReversedRows' = ReversedRows
    BY <2>1 DEF ReversedRows, PlanInv, BalanceInv, LedgerInv, ReversedOnce
  <2>12. BaseRows' = BaseRows \cup fresh
    BY <2>9 DEF BaseRows, BaseTypes
  <2>13. PaidFor(d0) = {}
    BY <2>4 DEF PaidFor
  <2>14. Outstanding' = (Outstanding \ UNION {PaidFor(d) : d \in {d0}}) \cup fresh
    <3>1. Outstanding' = Outstanding \cup fresh
      BY <2>9, <2>10, <2>11 DEF Outstanding, BaseTypes
    <3>2. UNION {PaidFor(d) : d \in {d0}} = {}
      BY <2>13
    <3> QED
      BY <3>1, <3>2
  <2>15. /\ {d0} \in SUBSET Days
         /\ \A d \in Days \ {d0} : completion'[d] = completion[d]
         /\ completion'[d0] = row
    BY <2>2, <2>7
  <2>16. \A d \in {d0} : completion'[d] # NoRow /\ completion'[d].status
              => \E c \in fresh : c.ref[1] = completion'[d].id
    BY <2>9, <2>15
  <2>17. \A c \in fresh : /\ \E d \in {d0} : /\ completion'[d] # NoRow
                                             /\ completion'[d].status
                                             /\ c.ref[1] = completion'[d].id
                                             /\ c.type = completion'[d].kind
                          /\ \A e \in ledger : e.op < c.op
    BY <2>3, <2>5, <2>6, <2>9, <2>15
  <2>18. \A c, e \in fresh : c = e
    OBVIOUS
  <2>19. PaidOnce /\ RowIds
    BY DEF AllQuiet
  <2> HIDE DEF fresh, d0
  <2>20. PaidOnce'
    BY <2>8, <2>12, <2>14, <2>15, <2>16, <2>17, <2>18, <2>19, Repaid
  <2>21. PICK q : plan' = [plan EXCEPT ![w] = q] /\ q.pc \in {"idle", "xp"}
    BY <2>1, CommitsTo
  <2>22. plan[w].pc # "idle"
    BY <2>1
  <2> QED
    BY <2>1, <2>8, <2>20, <2>21, <2>22, QuietCommit
<1> QED
  BY <1>1, <1>2

(* An unlinked task deletes its day's row with what stands for it.          *)
LEMMA UncompleteDayQuiet ==
    ASSUME PlanInv, AllQuiet, NEW w \in Writers, UncompleteDay(w)
    PROVE  AllQuiet'
<1>1. CASE Refused(w)
  BY <1>1, RefusedQuiet
<1>2. CASE ~Refused(w)
  <2> DEFINE o == plan[w]
             d0 == o.day
             U == Reversible({o.row}) \ ReversedRows
  <2>1. /\ o.pc = "write" /\ Commits(w, -XpGain) /\ o.row # NoRow
        /\ completion' = [completion EXCEPT ![d0] = NoRow]
        /\ ReverseAwards(w, {o.row})
        /\ ledger' = ledger /\ req' = req /\ ops' = ops
    BY <1>2 DEF UncompleteDay, Uncompletes
  <2>2. /\ PaidState /\ d0 \in Days /\ o.row = completion[d0]
        /\ completion \in [Days -> Row \cup {NoRow}]
    BY <2>1, QuietState, PlanBefore DEF PlanOK, AllQuiet, PlanUpToDate, TablesOK
  <2>3. ReversedRows' = ReversedRows \cup U
    <3>1. reversals' = reversals \cup Reversal(o, U)
      BY <2>1 DEF ReverseAwards
    <3> HIDE DEF U, o
    <3> QED
      BY <3>1, ReversedAfter
  <2>4. U = UNION {PaidFor(d) : d \in {d0}}
    <3>1. Reversible({o.row}) = LatestAward(completion[d0])
      BY <2>2 DEF Reversible
    <3>2. LatestAward(completion[d0]) \ ReversedRows = PaidFor(d0)
      BY <2>1, <2>2, TakenIsPaid
    <3> QED
      BY <3>1, <3>2
  <2>5. \A d \in Days : completion'[d] = IF d \in {d0} THEN NoRow ELSE completion[d]
    BY <2>1, <2>2
  <2>6. {d0} \in SUBSET Days
    BY <2>2
  <2> HIDE DEF U
  <2>7. RowIds' /\ PaidOnce'
    BY <2>1, <2>2, <2>3, <2>4, <2>5, <2>6, Unpaid
  <2>8. PICK q : plan' = [plan EXCEPT ![w] = q] /\ q.pc \in {"idle", "xp"}
    BY <2>1, CommitsTo
  <2>9. plan[w].pc # "idle"
    BY <2>1
  <2> QED
    BY <2>1, <2>7, <2>8, <2>9, QuietCommit
<1> QED
  BY <1>1, <1>2

(* A removal deletes the rows it found with what stands for them.           *)
LEMMA RemovalQuiet ==
    ASSUME PlanInv, AllQuiet, NEW w \in Writers, plan[w].pc \in {"delete", "plan"},
           RemovesRows(w), ledger' = ledger, ops' = ops
    PROVE  RowIds' /\ PaidOnce'
<1> DEFINE q == plan[w]
           ds == DaysFound(q)
           U == Reversible(Awarded(q)) \ ReversedRows
<1>1. /\ PaidState
      /\ \A f \in q.found : f[1] \in Days /\ f[2] = completion[f[1]] /\ f[2] # NoRow
  <2>1. \A f \in q.found : f[1] \in Days /\ f[2] \in Row
    BY PlanBefore DEF PlanOK
  <2> QED
    BY <2>1, QuietState, HabitRewardsAssumption DEF AllQuiet, PlanUpToDate, Row
<1>2. ds \in SUBSET Days /\ \A d \in ds : completion[d] # NoRow
  BY <1>1 DEF DaysFound
<1>3. ReversedRows' = ReversedRows \cup U
  <2>1. reversals' = reversals \cup Reversal(q, U)
    BY DEF RemovesRows, ReverseAwards
  <2> HIDE DEF U, q
  <2> QED
    BY <2>1, ReversedAfter
<1>4. U = UNION {PaidFor(d) : d \in ds}
  <2>1. \A d \in ds : LatestAward(completion[d]) \ ReversedRows = PaidFor(d)
    BY <1>1, <1>2, TakenIsPaid
  <2>2. \A row \in Awarded(q) : \E d \in ds : row = completion[d]
    BY <1>1 DEF Awarded, RowsFound, DaysFound
  <2>3. \A d \in ds : DoneAt(d) => completion[d] \in Awarded(q)
    <3>1. \A d \in ds : completion[d] \in RowsFound(q)
      BY <1>1 DEF RowsFound, DaysFound
    <3> QED
      BY <3>1 DEF Awarded, DoneAt
  <2>4. \A d \in ds : ~DoneAt(d) => PaidFor(d) = {}
    BY DEF PaidFor
  <2>5. ASSUME NEW e \in U PROVE \E d \in ds : e \in PaidFor(d)
    <3>1. PICK row \in Awarded(q) : e \in LatestAward(row)
      BY <2>5 DEF Reversible
    <3> QED
      BY <2>1, <2>2, <2>5, <3>1
  <2>6. ASSUME NEW d \in ds, NEW e \in PaidFor(d) PROVE e \in U
    <3>1. completion[d] \in Awarded(q)
      BY <2>3, <2>4, <2>6
    <3>2. e \in LatestAward(completion[d]) /\ e \notin ReversedRows
      BY <2>1, <2>6
    <3> QED
      BY <3>1, <3>2 DEF Reversible
  <2> HIDE DEF U, ds
  <2> QED
    BY <2>5, <2>6
<1>5. \A d \in Days : completion'[d] = IF d \in ds THEN NoRow ELSE completion[d]
  BY DEF RemovesRows
<1> HIDE DEF U, ds
<1> QED
  BY <1>1, <1>2, <1>3, <1>4, <1>5, Unpaid

LEMMA CommitsQuiet ==
    ASSUME PlanInv, AllQuiet, NEW w \in Writers, CommitDelete(w) \/ CommitPlan(w)
    PROVE  AllQuiet'
<1>1. CASE Refused(w)
  BY <1>1, RefusedQuiet
<1>2. CASE ~Refused(w)
  <2>1. /\ plan[w].pc \in {"delete", "plan"} /\ RemovesRows(w) /\ ledger' = ledger
        /\ ops' = ops /\ req' = req
    BY <1>2 DEF CommitDelete, CommitPlan
  <2>2. RowIds' /\ PaidOnce'
    BY <2>1, RemovalQuiet
  <2>3. PICK q : plan' = [plan EXCEPT ![w] = q] /\ q.pc \in {"idle", "xp"}
    <3>1. CASE CommitDelete(w)
      <4>1. Commits(w, IF Awarded(plan[w]) = {} THEN 0 ELSE -XpGain)
        BY <1>2, <3>1 DEF CommitDelete
      <4> QED
        BY <4>1, CommitsTo
    <3>2. CASE CommitPlan(w)
      BY <1>2, <3>2, AtRest DEF CommitPlan, Closes
    <3> QED
      BY <2>1, <1>2, <3>1, <3>2
  <2> QED
    BY <2>1, <2>2, <2>3, QuietCommit
<1> QED
  BY <1>1, <1>2

(* A task edited, or experience written: no row, no award.                  *)
LEMMA WritesQuiet ==
    ASSUME PlanInv, AllQuiet, NEW w \in Writers, EditTask(w) \/ WriteXp(w)
    PROVE  AllQuiet'
<1>1. CASE Refused(w)
  BY <1>1, RefusedQuiet
<1>2. CASE ~Refused(w)
  <2>1. /\ plan' = [plan EXCEPT ![w] = Resting] /\ req' = req /\ ops' = ops
        /\ UNCHANGED <<completion, ledger, reversals>>
    BY <1>2 DEF EditTask, WriteXp, Commits, Closes, tables
  <2> QED
    BY <2>1, AtRest, QuietPlanStep
<1> QED
  BY <1>1, <1>2

(* A toggle, a purchase or the habit's removal with nothing else open.      *)
LEMMA HabitStepQuiet ==
    ASSUME PlanInv, AllQuiet, HabitStep, ~overlapped'
    PROVE  AllQuiet'
<1>1. PICK r \in Requests : Toggle(r) \/ Purchase(r) \/ Remove(r) \/ Abandon(r)
  BY DEF HabitStep, Next
<1>2. plan' = plan /\ (ops' # ops => Open = {})
  BY DEF HabitStep
<1>3. req[r].pc = "idle" => ops' # ops
  <2> SUFFICES ASSUME req[r].pc = "idle" PROVE ops' = ops + 1
    BY PlanBefore
  <2>1. CASE Toggle(r)
    <3>1. ~WriteExisting(r) /\ ~CreateRow(r) /\ ~CreateConflict(r) /\ ~ReadUser(r)
      BY DEF WriteExisting, CreateRow, CreateConflict, ReadUser
    <3>2. ~Settle(r) /\ ~SettleConflict(r) /\ ~Announce(r)
      BY DEF Settle, SettleConflict, ReadyToSettle, Announce
    <3>3. \E d \in Days, ask \in Asks : Begin(r, d, ask)
      BY <2>1, <3>1, <3>2 DEF Toggle
    <3> QED
      BY <3>3 DEF Begin
  <2>2. CASE Purchase(r)
    <3>1. ~FreezeSettle(r) /\ ~RedeemSettle(r)
      BY DEF FreezeSettle, RedeemSettle
    <3>2. \/ \E d \in Days : FreezeCheck(r, d)
          \/ \E i \in Items : RedeemCheck(r, i)
      BY <2>2, <3>1 DEF Purchase
    <3> QED
      BY <3>2 DEF FreezeCheck, RedeemCheck
  <2>3. CASE Remove(r)
    BY <2>3 DEF Remove, DeleteCount, ArchiveHabit, DeleteHabit
  <2> QED
    BY <1>1, <2>1, <2>2, <2>3 DEF Abandon
<1>4. /\ \A s \in Requests \ {r} : req[s].pc = "idle"
      /\ \A w \in Writers : plan[w].pc = "idle"
  <2>1. CASE Open = {}
    BY <2>1 DEF Open
  <2>2. CASE Open # {}
    BY <1>2, <1>3, <2>2 DEF AllQuiet, Alone, OneAtATime
  <2> QED
    BY <2>1, <2>2
<1>5. RowIds' /\ PaidOnce' /\ \A s \in Requests : UpToDate(req[s])'
  BY <1>1, <1>4, ExactStep, QuietState DEF AllQuiet
<1>6. \A s \in Requests \ {r} : req'[s] = req[s]
  <2>1. TypeInv
    BY DEF PlanInv, BalanceInv, LedgerInv
  <2> QED
    BY <1>1, <2>1, OthersLeft
<1>7. Alone'
  BY <1>2, <1>4, <1>6 DEF Alone, OneAtATime
<1>8. ASSUME NEW w \in Writers PROVE PlanUpToDate(plan[w])'
  BY <1>2, <1>4 DEF PlanUpToDate, Writing
<1> QED
  BY <1>5, <1>7, <1>8 DEF AllQuiet

LEMMA QuietStep == QuietInv /\ [PlanNext]_planVars => QuietInv'
<1> SUFFICES ASSUME QuietInv, [PlanNext]_planVars PROVE QuietInv'
  OBVIOUS
<1>1. PlanInv /\ PlanInv'
  BY PlanStepKeeps DEF QuietInv
<1> SUFFICES ASSUME ~overlapped' PROVE AllQuiet'
  BY <1>1 DEF QuietInv
<1>2. AllQuiet
  <2>1. CASE HabitStep
    BY <2>1 DEF HabitStep, QuietInv
  <2>2. ASSUME NEW w \in Writers, TaskStep(w) \/ PlanStep(w) \/ ReadXp(w)
                                   \/ WriteXp(w) \/ Deadlock(w) \/ AbandonPlan(w)
        PROVE  ~overlapped
    <3>1. CASE TaskStep(w)
      BY <3>1 DEF TaskStep, BeginTask, CreateTask, ReadRow, CompleteDay, UncompleteDay,
         EditTask, BeginDelete, CommitDelete, Opens, Refused
    <3>2. CASE PlanStep(w)
      BY <3>2 DEF PlanStep, BeginPlan, MovePlan, CommitPlan, DeletePlan, Opens, Refused
    <3> QED
      BY <2>2, <3>1, <3>2 DEF ReadXp, WriteXp, Deadlock, AbandonPlan, Refused
  <2>3. CASE UNCHANGED planVars
    BY <2>3 DEF planVars, QuietInv
  <2> QED
    BY <2>1, <2>2, <2>3 DEF PlanNext, QuietInv
<1>3. CASE HabitStep
  BY <1>1, <1>2, <1>3, HabitStepQuiet
<1>4. CASE UNCHANGED planVars
  BY <1>2, <1>4 DEF planVars, planTables, vars, tables, AllQuiet, RowIds, PaidOnce,
     Outstanding, BaseRows, ReversedRows, DoneAt, Alone, OneAtATime, UpToDate,
     PlanUpToDate
<1>5. ASSUME NEW w \in Writers, TaskStep(w) \/ PlanStep(w) \/ ReadXp(w)
                                   \/ WriteXp(w) \/ Deadlock(w) \/ AbandonPlan(w)
      PROVE  AllQuiet'
  <2>1. CASE TaskStep(w)
    BY <1>1, <1>2, <2>1, BeginTaskQuiet, AtOnceQuiet, ReadsQuiet, CompleteDayQuiet,
       UncompleteDayQuiet, WritesQuiet, BeginDeleteQuiet, CommitsQuiet DEF TaskStep
  <2>2. CASE PlanStep(w)
    BY <1>1, <1>2, <2>2, BeginPlanQuiet, AtOnceQuiet, CommitsQuiet DEF PlanStep
  <2>3. CASE AbandonPlan(w)
    BY <1>1, <1>2, <2>3, RefusedQuiet DEF AbandonPlan
  <2> QED
    BY <1>1, <1>2, <1>5, <2>1, <2>2, <2>3, ReadsQuiet, WritesQuiet, DeadlockQuiet
<1> QED
  BY <1>3, <1>4, <1>5 DEF PlanNext

LEMMA QuietStart == PlanInit => QuietInv
<1> SUFFICES ASSUME PlanInit PROVE QuietInv
  OBVIOUS
<1>1. Init /\ plan = [w \in Writers |-> Resting]
  BY DEF PlanInit
<1>2. RowIds /\ PaidOnce /\ \A r \in Requests : UpToDate(req[r]) /\ req[r].pc = "idle"
  BY <1>1, ExactStart, AtRest DEF ExactInv, PaidState, Init, Idle
<1>3. \A w \in Writers : PlanUpToDate(plan[w]) /\ plan[w].pc = "idle"
  BY <1>1, AtRest
<1>4. Alone
  BY <1>2, <1>3 DEF Alone, OneAtATime
<1> QED
  BY <1>2, <1>3, <1>4, PlanStart DEF QuietInv, AllQuiet

(* While no two requests have overlapped, toggles and plan steps in any     *)
(* order leave exactly one standing award for a completed day and none for  *)
(* another: the two services keep one rule of payment between them.         *)
THEOREM PlanPaysExactly == PlanSpec => []QuietDaysPaidExactly
<1>1. QuietInv => QuietDaysPaidExactly
  BY QuietState, ExactlyPaid DEF QuietInv, QuietDaysPaidExactly
<1> QED
  BY <1>1, QuietStart, QuietStep, PTL DEF PlanSpec

-----------------------------------------------------------------------------
(* Any number of plan requests race with one toggle of each day.  A row is  *)
(* never given the number of another; what a toggle has read may be stale,  *)
(* but a row that was done stays done, of its kind, until it is deleted.    *)
Toggling(q) == q.pc \in {"read", "wrote", "user"}
OneToggleADay ==
    \A r, s \in Requests :
        Toggling(req[r]) /\ Toggling(req[s]) /\ req[r].day = req[s].day => r = s

Held(n) ==
    \/ \E r \in Requests : Underway(req[r]) /\ req[r].op = n
    \/ \E w \in Writers : Writing(plan[w]) /\ plan[w].op = n

StillHeld(n) ==
    \/ \E r \in Requests : Underway(req'[r]) /\ req'[r].op = n
    \/ \E w \in Writers : Writing(plan'[w]) /\ plan'[w].op = n

(* No step hands out a number that is not new.                              *)
HeldOn ==
    /\ ops' = ops \/ ops' = ops + 1
    /\ \A n \in Nat : StillHeld(n) => Held(n) \/ n = ops + 1

RowNumbers ==
    RowIds /\ \A d \in Days : completion[d] # NoRow => ~Held(completion[d].id)

SameRow(q) == completion[q.day] # NoRow /\ completion[q.day].id = q.existing.id

Reads(q) ==
    Toggling(q) =>
      /\ q.existing # NoRow =>
            /\ q.existing.id <= ops /\ ~Held(q.existing.id)
            /\ SameRow(q) /\ q.existing.status =>
                  /\ completion[q.day].status
                  /\ completion[q.day].kind = q.existing.kind
      /\ q.adopted => q.pc # "read" /\ q.existing = NoRow
      /\ ~q.adopted /\ q.pc # "read" =>
            /\ q.row = WrittenRow(q)
            /\ IF q.existing = NoRow THEN completion[q.day] = NoRow ELSE SameRow(q)

RaceState == RowNumbers /\ CompletedIsPaid /\ \A r \in Requests : Reads(req[r])
RaceInv == PlanInv /\ RaceState

-----------------------------------------------------------------------------
(* Numbers that are free and given stay free.                               *)
LEMMA StaysFree ==
    ASSUME PlanInv, HeldOn, NEW n \in Nat, n <= ops, ~Held(n)
    PROVE  n <= ops' /\ ~StillHeld(n)
<1>1. ops \in Nat /\ n # ops + 1
  BY PlanBefore
<1> QED
  BY <1>1 DEF HeldOn

(* Types of rows and of what requests have read of them.                    *)
LEMMA RowTypes ==
    ASSUME PlanInv
    PROVE  /\ \A d \in Days : completion[d] # NoRow =>
                completion[d] \in Row /\ completion[d].id \in Nat
           /\ \A r \in Requests : req[r].existing # NoRow =>
                req[r].existing \in Row /\ req[r].existing.id \in Nat
<1>1. completion \in [Days -> Row \cup {NoRow}] /\ req \in [Requests -> Request]
  BY PlanBefore DEF TablesOK
<1>2. \A row \in Row : row.id \in Nat
  BY DEF Row
<1> QED
  BY <1>1, <1>2 DEF Request

(* A step of a plan request hands out at most the next number.              *)
LEMMA PlanNumbers ==
    ASSUME PlanInv, NEW w \in Writers, NEW q,
           plan' = plan \/ plan' = [plan EXCEPT ![w] = q],
           Writing(q) => \/ Writing(plan[w]) /\ q.op = plan[w].op
                         \/ q.op = ops + 1,
           ops' = ops \/ ops' = ops + 1,
           \A r \in Requests : req'[r] = req[r] \/ req'[r] = Idle
    PROVE  HeldOn
<1>1. \A v \in Writers : plan'[v] = plan[v] \/ (v = w /\ plan'[v] = q)
  BY DEF PlanInv, PlansOK
<1>2. ~Underway(Idle)
  BY DEF Underway, Idle
<1>3. ASSUME NEW n \in Nat, StillHeld(n) PROVE Held(n) \/ n = ops + 1
  <2>1. CASE \E r \in Requests : Underway(req'[r]) /\ req'[r].op = n
    BY <1>2, <2>1 DEF Held
  <2>2. ASSUME NEW v \in Writers, Writing(plan'[v]), plan'[v].op = n
        PROVE  Held(n) \/ n = ops + 1
    BY <1>1, <2>2 DEF Held
  <2>3. \/ \E r \in Requests : Underway(req'[r]) /\ req'[r].op = n
        \/ \E v \in Writers : Writing(plan'[v]) /\ plan'[v].op = n
    BY <1>3 DEF StillHeld
  <2> QED
    BY <2>1, <2>2, <2>3
<1> QED
  BY <1>3 DEF HeldOn

(* And so does a step of a toggle or a purchase.                            *)
LEMMA HabitNumbers ==
    ASSUME PlanInv, HabitStep
    PROVE  HeldOn
<1>1. Next /\ plan' = plan /\ Numbered
  BY RulesStep DEF HabitStep, PlanInv, BalanceInv
<1>2. ASSUME NEW n \in Nat, StillHeld(n) PROVE Held(n) \/ n = ops + 1
  <2>1. \/ \E r \in Requests : Underway(req'[r]) /\ req'[r].op = n
        \/ \E v \in Writers : Writing(plan[v]) /\ plan[v].op = n
    BY <1>1, <1>2 DEF StillHeld
  <2> QED
    BY <1>1, <2>1 DEF Held, Numbered
<1> QED
  BY <1>1, <1>2 DEF HeldOn, Numbered

(* Rows keep their numbers, or take one that was held and is given back.    *)
LEMMA NumbersMove ==
    ASSUME PlanInv, RowNumbers, HeldOn, NEW d0, NEW n \in Nat, n <= ops,
           \A d \in Days : completion'[d] # NoRow =>
              /\ \/ completion[d] # NoRow /\ completion'[d].id = completion[d].id
                 \/ d = d0 /\ completion'[d].id = n /\ Held(n) /\ ~StillHeld(n)
              /\ ~completion'[d].status => completion'[d].kind = "FULL"
    PROVE  RowNumbers'
<1>1. ops \in Nat /\ ops' \in Nat /\ ops <= ops'
  BY PlanBefore DEF HeldOn
<1>2. \A d \in Days : completion[d] # NoRow =>
         /\ completion[d].id \in Nat /\ completion[d].id <= ops /\ ~Held(completion[d].id)
  BY RowTypes DEF RowNumbers, RowIds
<1>3. ASSUME NEW d \in Days, completion'[d] # NoRow
      PROVE  completion'[d].id <= ops' /\ ~StillHeld(completion'[d].id)
  <2>1. CASE completion[d] # NoRow /\ completion'[d].id = completion[d].id
    <3> DEFINE m == completion[d].id
    <3>1. m \in Nat /\ m <= ops /\ ~Held(m)
      BY <1>2, <2>1
    <3>2. completion'[d].id = m
      BY <2>1
    <3> HIDE DEF m
    <3>3. m <= ops' /\ ~StillHeld(m)
      BY <3>1, StaysFree
    <3> QED
      BY <3>2, <3>3
  <2>2. CASE completion'[d].id = n /\ ~StillHeld(n)
    BY <1>1, <2>2
  <2> QED
    BY <1>3, <2>1, <2>2
<1>4. \A d, x \in Days : completion'[d] # NoRow /\ completion'[x] # NoRow
          /\ completion'[d].id = completion'[x].id => d = x
  BY <1>2 DEF RowNumbers, RowIds
<1>5. \A d \in Days : completion'[d] # NoRow => ~Held(completion[d].id)'
  BY <1>3 DEF StillHeld, Held, Underway, Writing
<1> QED
  BY <1>3, <1>4, <1>5 DEF RowNumbers, RowIds

(* What a toggle has read stands when the row of its day is left, or moved  *)
(* while the toggle does not lock it.                                       *)
LEMMA ReadsStand ==
    ASSUME PlanInv, RaceState, HeldOn, NEW r \in Requests, req'[r] = req[r], NEW ds,
           Holders(ds) = {}, NEW n,
           Toggling(req[r]) /\ req[r].day \notin ds =>
              completion'[req[r].day] = completion[req[r].day],
           \A d \in ds :
              \/ completion'[d] = NoRow
              \/ /\ completion[d] # NoRow /\ completion'[d] # NoRow
                 /\ completion'[d].id = completion[d].id /\ completion'[d].status
                 /\ completion'[d].kind = completion[d].kind
              \/ completion'[d].id = n /\ Held(n)
    PROVE  Reads(req[r])'
<1> DEFINE q == req[r]
<1> SUFFICES ASSUME Toggling(q) PROVE Reads(req[r])'
  BY DEF Reads, Toggling
<1>1. /\ q.day \in Days /\ req'[r] = q /\ Reads(q) /\ Toggling(q)
      /\ q.existing # NoRow => q.existing.id \in Nat
  <2>1. Sound(req[r])
    BY DEF PlanInv, BalanceInv, LedgerInv, TypeInv, SoundRequests
  <2> QED
    BY <2>1, RowTypes DEF Sound, Toggling, RaceState
<1>2. q.existing # NoRow => q.existing.id <= ops' /\ ~StillHeld(q.existing.id)
  <2> SUFFICES ASSUME q.existing # NoRow
               PROVE  q.existing.id <= ops' /\ ~StillHeld(q.existing.id)
    OBVIOUS
  <2> DEFINE m == q.existing.id
  <2>1. m \in Nat /\ m <= ops /\ ~Held(m)
    BY <1>1 DEF Reads
  <2> HIDE DEF m
  <2>2. m <= ops' /\ ~StillHeld(m)
    BY <2>1, StaysFree
  <2> QED
    BY <2>2 DEF m
<1>3. (/\ q.existing # NoRow /\ q.existing.status /\ completion'[q.day] # NoRow
       /\ completion'[q.day].id = q.existing.id)
        => completion'[q.day].status /\ completion'[q.day].kind = q.existing.kind
  BY <1>1 DEF Reads, SameRow
<1>4. ~q.adopted /\ q.pc # "read" =>
        /\ q.row = WrittenRow(q)
        /\ IF q.existing = NoRow THEN completion'[q.day] = NoRow
           ELSE completion'[q.day] # NoRow /\ completion'[q.day].id = q.existing.id
  <2> SUFFICES ASSUME ~q.adopted, q.pc # "read"
               PROVE  /\ q.row = WrittenRow(q)
                      /\ IF q.existing = NoRow THEN completion'[q.day] = NoRow
                         ELSE /\ completion'[q.day] # NoRow
                              /\ completion'[q.day].id = q.existing.id
    OBVIOUS
  <2>1. q.day \notin ds
    BY <1>1 DEF Holders, Toggling
  <2> QED
    BY <1>1, <2>1 DEF Reads, SameRow
<1>5. q.adopted => q.pc # "read" /\ q.existing = NoRow
  BY <1>1 DEF Reads
<1>6. WrittenRow(req'[r]) = WrittenRow(q)
  BY <1>1
<1>7. q.existing # NoRow => ~Held(req[r].existing.id)'
  BY <1>1, <1>2 DEF StillHeld, Held, Underway, Writing
<1> HIDE DEF q
<1> QED
  BY <1>1, <1>2, <1>3, <1>4, <1>5, <1>6, <1>7 DEF Reads, SameRow, Toggling

LEMMA TogglesADay ==
    ASSUME PlanInv, NEW r \in Requests, Toggling(req[r])
    PROVE  req[r].day \in Days
<1>1. Sound(req[r])
  BY DEF PlanInv, BalanceInv, LedgerInv, TypeInv, SoundRequests
<1> QED
  BY <1>1 DEF Sound, Toggling

LEMMA NotReading ==
    ASSUME NEW r \in Requests, ~Toggling(req'[r])
    PROVE  Reads(req[r])'
  BY DEF Reads, Toggling

(* The rows of ds are deleted, completed, or created under number n, none   *)
(* of them locked by a toggle.                                              *)
LEMMA RowsMove ==
    ASSUME PlanInv, RaceState, HeldOn, NEW ds \in SUBSET Days, Holders(ds) = {},
           NEW n \in Nat, n <= ops,
           \A d \in Days \ ds : completion'[d] = completion[d],
           \A d \in ds :
              \/ completion'[d] = NoRow
              \/ /\ completion[d] # NoRow /\ completion'[d] # NoRow
                 /\ completion'[d].id = completion[d].id /\ completion'[d].status
                 /\ completion'[d].kind = completion[d].kind
              \/ /\ ds = {d} /\ completion'[d].id = n /\ completion'[d].status
                 /\ Held(n) /\ ~StillHeld(n),
           \A r \in Requests : req'[r] = req[r] \/ req'[r] = Idle
    PROVE  RowNumbers' /\ \A r \in Requests : Reads(req[r])'
<1>1. RowNumbers'
  <2>1. PICK d0 : ds = {d0} \/ \A d : ds # {d}
    OBVIOUS
  <2>2. \A d \in Days : completion'[d] # NoRow =>
           /\ \/ completion[d] # NoRow /\ completion'[d].id = completion[d].id
              \/ d = d0 /\ completion'[d].id = n /\ Held(n) /\ ~StillHeld(n)
           /\ ~completion'[d].status => completion'[d].kind = "FULL"
    BY <2>1 DEF RaceState, RowNumbers, RowIds
  <2> QED
    BY <2>2, NumbersMove DEF RaceState
<1>2. ASSUME NEW r \in Requests, req'[r] = req[r] PROVE Reads(req[r])'
  <2>1. Toggling(req[r]) /\ req[r].day \notin ds =>
           completion'[req[r].day] = completion[req[r].day]
    BY TogglesADay
  <2> QED
    BY <1>2, <2>1, ReadsStand
<1>3. ASSUME NEW r \in Requests, req'[r] = Idle PROVE Reads(req[r])'
  <2>1. ~Toggling(req'[r])
    BY <1>3 DEF Toggling, Idle
  <2> QED
    BY <2>1, NotReading
<1> QED
  BY <1>1, <1>2, <1>3

(* What is taken back is of the rows of ds; those that are done there are   *)
(* paid anew or were paid and still are.                                    *)
LEMMA DaysStayPaid ==
    ASSUME RaceState, NEW ds \in SUBSET Days,
           \A d \in Days \ ds : completion'[d] = completion[d],
           \A d \in ds : completion'[d] # NoRow /\ completion'[d].status =>
              \E e \in Outstanding' : /\ e.ref[1] = completion'[d].id
                                      /\ e.type = completion'[d].kind,
           \A e \in Outstanding : e \in Outstanding' \/
              \E d \in ds : completion[d] # NoRow /\ e.ref[1] = completion[d].id
    PROVE  CompletedIsPaid'
<1>1. ASSUME NEW d \in Days, completion'[d] # NoRow, completion'[d].status
      PROVE  \E e \in Outstanding' : /\ e.ref[1] = completion'[d].id
                                      /\ e.type = completion'[d].kind
  <2>1. CASE d \in ds
    BY <1>1, <2>1
  <2>2. CASE d \notin ds
    <3>1. completion'[d] = completion[d] /\ d \in DoneDays(completion)
      BY <1>1, <2>2 DEF DoneDays
    <3>2. PICK e \in Outstanding : e.ref[1] = completion[d].id /\ e.type = completion[d].kind
      BY <3>1 DEF RaceState, CompletedIsPaid
    <3>3. ASSUME NEW x \in ds, completion[x] # NoRow, e.ref[1] = completion[x].id
          PROVE  FALSE
      <4>1. x \in Days /\ completion[d] # NoRow /\ completion[x].id = completion[d].id
        BY <1>1, <3>1, <3>2, <3>3
      <4>2. x = d
        BY <3>3, <4>1 DEF RaceState, RowNumbers, RowIds
      <4> QED
        BY <2>2, <4>2
    <3> QED
      BY <3>1, <3>2, <3>3
  <2> QED
    BY <2>1, <2>2
<1> QED
  BY <1>1 DEF CompletedIsPaid, DoneDays

(* A step that leaves rows and awards.                                      *)
LEMMA RaceLeft ==
    ASSUME PlanInv, RaceState, HeldOn,
           completion' = completion, ledger' = ledger, reversals' = reversals,
           \A r \in Requests : req'[r] = req[r] \/ req'[r] = Idle
    PROVE  RaceState'
<1> DEFINE ds == {}
<1>1. /\ ds \in SUBSET Days /\ Holders(ds) = {} /\ \A d : d \notin ds
      /\ \A d \in Days \ ds : completion'[d] = completion[d]
  BY DEF Holders
<1> HIDE DEF ds
<1>2. RowNumbers' /\ \A r \in Requests : Reads(req[r])'
  <2> DEFINE n == 0
  <2>1. n \in Nat /\ n <= ops
    BY PlanBefore
  <2> HIDE DEF n
  <2> QED
    BY <1>1, <2>1, RowsMove
<1>3. Outstanding' = Outstanding
  BY DEF Outstanding, ReversedRows
<1>4. CompletedIsPaid'
  BY <1>1, <1>3, DaysStayPaid
<1> QED
  BY <1>2, <1>4 DEF RaceState

(* A plan request that ends or goes on without writing a row.               *)
LEMMA RefusedRace ==
    ASSUME PlanInv, RaceState, NEW w \in Writers, Refused(w) \/ Deadlock(w)
    PROVE  RaceState'
<1>1. CASE Refused(w)
  <2>1. /\ plan' = [plan EXCEPT ![w] = Resting] /\ req' = req /\ ops' = ops
        /\ UNCHANGED <<completion, ledger, reversals>>
    BY <1>1 DEF Refused, Closes, tables
  <2>2. HeldOn
    BY <2>1, RestingOK, PlanNumbers
  <2> QED
    BY <2>1, <2>2, RaceLeft
<1>2. ASSUME NEW r \in Requests, req' = [req EXCEPT ![r] = Idle],
             UNCHANGED <<tables, ops, planTables, plan>>
      PROVE  RaceState'
  <2>1. /\ plan' = plan /\ ops' = ops /\ UNCHANGED <<completion, ledger, reversals>>
        /\ \A s \in Requests : req'[s] = req[s] \/ req'[s] = Idle
    BY <1>2, PlanBefore DEF tables
  <2>2. HeldOn
    BY <2>1, RestingOK, PlanNumbers
  <2> QED
    BY <2>1, <2>2, RaceLeft
<1>3. Deadlock(w) => \/ Refused(w)
                     \/ \E r \in Requests : /\ req' = [req EXCEPT ![r] = Idle]
                                            /\ UNCHANGED <<tables, ops, planTables, plan>>
  BY DEF Deadlock, Holders
<1> QED
  BY <1>1, <1>2, <1>3

(* A request that begins takes the next number.                             *)
LEMMA OpensNumber ==
    ASSUME NEW w \in Writers, NEW q, Opens(w, q), "op" \in DOMAIN q
    PROVE  \E x : plan' = [plan EXCEPT ![w] = x] /\ x.op = ops + 1
<1>1. plan' = [plan EXCEPT ![w] = [q EXCEPT !.op = ops + 1]]
  BY DEF Opens
<1>2. [q EXCEPT !.op = ops + 1].op = ops + 1
  OBVIOUS
<1> QED
  BY <1>1, <1>2

(* Requests that begin, or that do all they do at once.                     *)
LEMMA StartsRace ==
    ASSUME PlanInv, RaceState, NEW w \in Writers,
           \/ \E t \in Tasks, ask \in Task : BeginTask(w, t, ask) \/ CreateTask(w, t, ask)
           \/ \E t \in Tasks : BeginDelete(w, t)
           \/ \E p \in Plans, d \in Days : MovePlan(w, p, d)
           \/ \E p \in Plans, d \in Days : \E fresh : BeginPlan(w, p, d, fresh)
           \/ \E p \in Plans : DeletePlan(w, p)
    PROVE  RaceState'
<1>1. /\ req' = req /\ ops' = ops + 1 /\ UNCHANGED tables
      /\ plan' = plan \/ \E q : Opens(w, q) /\ "op" \in DOMAIN q
  <2>1. ASSUME NEW t \in Tasks, NEW ask \in Task, BeginTask(w, t, ask)
        PROVE  /\ req' = req /\ ops' = ops + 1 /\ UNCHANGED tables
               /\ \E q : Opens(w, q) /\ "op" \in DOMAIN q
    <3> DEFINE q == [Resting EXCEPT !.pc = "task", !.t = t, !.was = task[t],
                                    !.ask = ask, !.day = planDay[task[t].on]]
    <3>1. "op" \in DOMAIN q
      BY DEF Resting
    <3>2. Opens(w, q)
      BY <2>1 DEF BeginTask
    <3> HIDE DEF q
    <3> QED
      BY <2>1, <3>1, <3>2 DEF BeginTask, Opens
  <2>2. ASSUME NEW t \in Tasks, BeginDelete(w, t)
        PROVE  /\ req' = req /\ ops' = ops + 1 /\ UNCHANGED tables
               /\ \E q : Opens(w, q) /\ "op" \in DOMAIN q
    <3>1. PICK ds \in OnePerTask({t}) :
             Opens(w, [Resting EXCEPT !.pc = "delete", !.t = t,
                                 !.found = {<<d, completion[d]>> : d \in ds}])
      BY <2>2 DEF BeginDelete
    <3> DEFINE q == [Resting EXCEPT !.pc = "delete", !.t = t,
                                    !.found = {<<d, completion[d]>> : d \in ds}]
    <3>2. "op" \in DOMAIN q
      BY DEF Resting
    <3>3. Opens(w, q)
      BY <3>1
    <3> HIDE DEF q
    <3> QED
      BY <2>2, <3>2, <3>3 DEF BeginDelete, Opens
  <2>3. ASSUME NEW p \in Plans, NEW day \in Days, NEW fresh, BeginPlan(w, p, day, fresh)
        PROVE  /\ req' = req /\ ops' = ops + 1 /\ UNCHANGED tables
               /\ \E q : Opens(w, q) /\ "op" \in DOMAIN q
    <3>1. PICK ds \in OnePerTask(TasksOf(p)) : Opens(w, [Resting EXCEPT
              !.pc = "plan", !.p = p, !.day = day, !.fresh = fresh,
              !.found = {<<x, completion[x]>> : x \in ds}])
      BY <2>3 DEF BeginPlan
    <3> DEFINE q == [Resting EXCEPT
                       !.pc = "plan", !.p = p, !.day = day, !.fresh = fresh,
                       !.found = {<<x, completion[x]>> : x \in ds}]
    <3>2. "op" \in DOMAIN q
      BY DEF Resting
    <3>3. Opens(w, q)
      BY <3>1
    <3> HIDE DEF q
    <3> QED
      BY <2>3, <3>2, <3>3 DEF BeginPlan, Opens
  <2>4. ASSUME \/ \E t \in Tasks, new \in Task : CreateTask(w, t, new)
               \/ \E p \in Plans, d \in Days : MovePlan(w, p, d)
               \/ \E p \in Plans : DeletePlan(w, p)
        PROVE  req' = req /\ ops' = ops + 1 /\ UNCHANGED tables /\ plan' = plan
    BY <2>4 DEF CreateTask, MovePlan, DeletePlan
  <2> QED
    BY <2>1, <2>2, <2>3, <2>4
<1>2. UNCHANGED <<completion, ledger, reversals>>
  BY <1>1 DEF tables
<1>3. PICK q : (plan' = plan \/ plan' = [plan EXCEPT ![w] = q]) /\ q.op = ops + 1
  <2>1. CASE plan' = plan
    <3>1. [op |-> ops + 1].op = ops + 1
      OBVIOUS
    <3> QED
      BY <2>1, <3>1
  <2> QED
    BY <1>1, <2>1, OpensNumber
<1>4. HeldOn
  BY <1>1, <1>3, PlanNumbers
<1> QED
  BY <1>1, <1>2, <1>4, RaceLeft

(* Statements of a plan request that write no row.                          *)
LEMMA GoesOnRace ==
    ASSUME PlanInv, RaceState, NEW w \in Writers,
           ReadRow(w) \/ ReadXp(w) \/ EditTask(w) \/ WriteXp(w)
    PROVE  RaceState'
<1>1. CASE Refused(w)
  BY <1>1, RefusedRace
<1>2. CASE ~Refused(w)
  <2>1. /\ req' = req /\ ops' = ops /\ UNCHANGED <<completion, ledger, reversals>>
    BY <1>2 DEF ReadRow, ReadXp, EditTask, WriteXp, tables
  <2>2. PICK q : /\ plan' = [plan EXCEPT ![w] = q]
                 /\ Writing(q) => Writing(plan[w]) /\ q.op = plan[w].op
    <3>1. CASE ReadRow(w)
      <4> DEFINE found == IF sourced[plan[w].day] = plan[w].t THEN {plan[w].day} ELSE {}
                 q == [plan[w] EXCEPT !.pc = "write", !.row = completion[plan[w].day],
                                      !.found = found]
      <4>1. plan' = [plan EXCEPT ![w] = q] /\ plan[w].pc = "task"
        BY <1>2, <3>1 DEF ReadRow
      <4> HIDE DEF found
      <4>2. q.op = plan[w].op
        BY PlanBefore DEF PlanOK, PlanFields
      <4> HIDE DEF q
      <4> QED
        BY <4>1, <4>2 DEF Writing
    <3>2. CASE ReadXp(w)
      <4> DEFINE q == [plan[w] EXCEPT !.pc = "addxp", !.xp = user.xp, !.level = user.level]
      <4>1. plan' = [plan EXCEPT ![w] = q]
        BY <3>2 DEF ReadXp
      <4>2. q.pc = "addxp"
        BY PlanBefore DEF PlanOK, PlanFields
      <4> HIDE DEF q
      <4> QED
        BY <4>1, <4>2 DEF Writing
    <3>3. CASE EditTask(w) \/ WriteXp(w)
      <4>1. plan' = [plan EXCEPT ![w] = Resting]
        BY <1>2, <3>3 DEF EditTask, WriteXp, Commits, Closes
      <4> QED
        BY <4>1, RestingOK
    <3> QED
      BY <3>1, <3>2, <3>3
  <2>3. HeldOn
    BY <2>1, <2>2, PlanNumbers
  <2> QED
    BY <2>1, <2>3, RaceLeft
<1> QED
  BY <1>1, <1>2

-----------------------------------------------------------------------------
(* Plan transactions that write rows, none of them locked by a toggle.      *)

(* A commit hands out no number, and gives back the one it wrote under.     *)
LEMMA CommitNumbers ==
    ASSUME PlanInv, NEW w \in Writers, req' = req, ops' = ops, ~Writing(plan'[w]),
           \A v \in Writers \ {w} : plan'[v] = plan[v]
    PROVE  HeldOn /\ (Writing(plan[w]) => Held(plan[w].op) /\ ~StillHeld(plan[w].op))
<1>1. HeldOn
  BY DEF HeldOn, Held, StillHeld
<1>2. ASSUME Writing(plan[w]) PROVE Held(plan[w].op) /\ ~StillHeld(plan[w].op)
  <2>1. \A v \in Writers : Writing(plan'[v]) => plan'[v].op # plan[w].op
    BY <1>2 DEF PlanInv, PlanFresh
  <2>2. \A r \in Requests : Underway(req'[r]) => req'[r].op # plan[w].op
    BY <1>2 DEF PlanInv, PlanFresh
  <2> QED
    BY <1>2, <2>1, <2>2 DEF Held, StillHeld
<1> QED
  BY <1>1, <1>2

LEMMA CommitEnds ==
    ASSUME PlanInv, NEW w \in Writers,
           \E q : plan' = [plan EXCEPT ![w] = q] /\ q.pc \in {"idle", "xp"}
    PROVE  ~Writing(plan'[w]) /\ \A v \in Writers \ {w} : plan'[v] = plan[v]
BY DEF PlanInv, PlansOK, Writing

(* A completed task: a row that was done keeps its award, another gets one. *)
LEMMA CompleteDayRace ==
    ASSUME PlanInv, RaceState, NEW w \in Writers, CompleteDay(w)
    PROVE  RaceState'
<1>1. CASE Refused(w)
  BY <1>1, RefusedRace
<1>2. CASE ~Refused(w)
  <2> DEFINE o == plan[w]
             d0 == o.day
             row == IF o.row = NoRow
                      THEN [id |-> o.op, status |-> TRUE, kind |-> "FULL"]
                      ELSE [completion[d0] EXCEPT !.status = TRUE]
             e == Entry(o.op, "FULL", row.id, 0, PlanCoins)
  <2>1. /\ o.pc = "write" /\ Commits(w, XpGain) /\ Holders({d0}) = {}
        /\ completion' = [completion EXCEPT ![d0] = row] /\ AwardsRow(w, row)
        /\ o.row = NoRow => completion[d0] = NoRow
        /\ o.row # NoRow => completion[d0] # NoRow
        /\ reversals' = reversals /\ req' = req /\ ops' = ops
    BY <1>2 DEF CompleteDay, Present
  <2>2. /\ d0 \in Days /\ o.op \in Nat /\ o.op <= ops
        /\ completion \in [Days -> Row \cup {NoRow}] /\ Writing(o)
    BY <2>1, PlanBefore DEF PlanOK, PlanInv, PlanFresh, TablesOK, Writing
  <2>3. /\ row \in Row /\ row.status
        /\ completion[d0] = NoRow => row.id = o.op /\ row.kind = "FULL"
        /\ completion[d0] # NoRow => /\ row.id = completion[d0].id
                                     /\ row.kind = completion[d0].kind
    <3>1. CASE o.row = NoRow
      <4>1. row = [id |-> o.op, status |-> TRUE, kind |-> "FULL"]
        BY <3>1
      <4> HIDE DEF row
      <4>2. row \in Row
        BY <2>2, <4>1, HabitRewardsAssumption DEF Row
      <4> QED
        BY <2>1, <3>1, <4>1, <4>2
    <3>2. CASE o.row # NoRow
      <4>1. completion[d0] \in Row
        BY <2>1, <2>2, <3>2
      <4>2. row = [completion[d0] EXCEPT !.status = TRUE]
        BY <3>2
      <4> HIDE DEF row
      <4>3. /\ row \in Row /\ row.status
            /\ row.kind = completion[d0].kind /\ row.id = completion[d0].id
        BY <4>1, <4>2 DEF Row
      <4> QED
        BY <2>1, <3>2, <4>3
    <3> QED
      BY <3>1, <3>2
  <2> HIDE DEF row
  <2>4. row # NoRow
    BY <2>3, HabitRewardsAssumption DEF Row
  <2>5. \A d \in Days : completion'[d] = IF d = d0 THEN row ELSE completion[d]
    BY <2>1, <2>2
  <2>6. ~Writing(plan'[w]) /\ \A v \in Writers \ {w} : plan'[v] = plan[v]
    BY <2>1, CommitsTo, CommitEnds
  <2>7. HeldOn /\ Held(o.op) /\ ~StillHeld(o.op)
    <3>1. req' = req /\ ops' = ops /\ Writing(plan[w])
      BY <2>1, <2>2
    <3> HIDE DEF o
    <3>2. HeldOn /\ Held(plan[w].op) /\ ~StillHeld(plan[w].op)
      BY <2>6, <3>1, CommitNumbers
    <3> QED
      BY <3>2 DEF o
  <2>8. /\ e.type = "FULL" /\ e.ref[1] = row.id /\ e.op = o.op
        /\ ledger' = ledger \cup {e}
    BY <2>1 DEF Entry, AwardsRow
  <2> HIDE DEF e
  <2>9. e \notin ledger /\ ReversedRows \subseteq ledger /\ ReversedRows' = ReversedRows
    BY <2>1, <2>2, <2>8
       DEF ReversedRows, PlanInv, PlanFresh, BalanceInv, LedgerInv, ReversedOnce
  <2>10. Outstanding' = Outstanding \cup {e}
    BY <2>8, <2>9 DEF Outstanding, BaseTypes
  <2> DEFINE ds == {d0}
             n == o.op
  <2>11. /\ ds \in SUBSET Days /\ Holders(ds) = {}
         /\ \A d \in Days \ ds : completion'[d] = completion[d]
    BY <2>1, <2>2, <2>5
  <2>12. \A d \in ds :
              \/ completion'[d] = NoRow
              \/ /\ completion[d] # NoRow /\ completion'[d] # NoRow
                 /\ completion'[d].id = completion[d].id /\ completion'[d].status
                 /\ completion'[d].kind = completion[d].kind
              \/ /\ ds = {d} /\ completion'[d].id = n /\ completion'[d].status
                 /\ Held(n) /\ ~StillHeld(n)
    BY <2>2, <2>3, <2>4, <2>5, <2>7
  <2>13. /\ n \in Nat /\ n <= ops
         /\ \A r \in Requests : req'[r] = req[r] \/ req'[r] = Idle
    BY <2>1, <2>2
  <2>14. \A d \in ds : \E x \in Outstanding' : /\ x.ref[1] = completion'[d].id
                                             /\ x.type = completion'[d].kind
    <3>1. CASE completion[d0] # NoRow /\ completion[d0].status
      <4>1. d0 \in DoneDays(completion)
        BY <2>2, <3>1 DEF DoneDays
      <4>2. \E x \in Outstanding : /\ x.ref[1] = completion[d0].id
                                   /\ x.type = completion[d0].kind
        BY <4>1 DEF RaceState, CompletedIsPaid
      <4> QED
        BY <2>2, <2>3, <2>5, <2>10, <3>1, <4>2
    <3>2. CASE ~(completion[d0] # NoRow /\ completion[d0].status)
      <4>1. row.kind = "FULL"
        BY <2>2, <2>3, <3>2 DEF RaceState, RowNumbers, RowIds
      <4> QED
        BY <2>2, <2>5, <2>8, <2>10, <4>1
    <3> QED
      BY <3>1, <3>2
  <2> HIDE DEF ds, n
  <2>15. RowNumbers' /\ \A r \in Requests : Reads(req[r])'
    BY <2>7, <2>11, <2>12, <2>13, RowsMove
  <2>16. CompletedIsPaid'
    BY <2>10, <2>11, <2>14, DaysStayPaid
  <2> QED
    BY <2>15, <2>16 DEF RaceState
<1> QED
  BY <1>1, <1>2

(* Rows that are deleted take only awards of their own with them.           *)
LEMMA RowsGone ==
    ASSUME PlanInv, RaceState, HeldOn, NEW ds \in SUBSET Days, Holders(ds) = {},
           \A d \in Days : completion'[d] = IF d \in ds THEN NoRow ELSE completion[d],
           ledger' = ledger, req' = req,
           NEW U, ReversedRows' = ReversedRows \cup U,
           \A e \in U : \E d \in ds : completion[d] # NoRow /\ e.ref[1] = completion[d].id
    PROVE  RaceState'
<1>1. /\ \A d \in Days \ ds : completion'[d] = completion[d]
      /\ \A d \in ds : completion'[d] = NoRow
      /\ \A r \in Requests : req'[r] = req[r]
  OBVIOUS
<1>2. RowNumbers' /\ \A r \in Requests : Reads(req[r])'
  <2> DEFINE n == 0
  <2>1. n \in Nat /\ n <= ops
    BY PlanBefore
  <2> HIDE DEF n
  <2> QED
    BY <1>1, <2>1, RowsMove
<1>3. Outstanding' = Outstanding \ U
  BY DEF Outstanding
<1>4. CompletedIsPaid'
  <2>1. \A e \in Outstanding : e \in Outstanding' \/
              \E d \in ds : completion[d] # NoRow /\ e.ref[1] = completion[d].id
    BY <1>3
  <2> QED
    BY <1>1, <2>1, DaysStayPaid
<1> QED
  BY <1>2, <1>4 DEF RaceState

LEMMA UncompleteDayRace ==
    ASSUME PlanInv, RaceState, NEW w \in Writers, UncompleteDay(w)
    PROVE  RaceState'
<1>1. CASE Refused(w)
  BY <1>1, RefusedRace
<1>2. CASE ~Refused(w)
  <2> DEFINE o == plan[w]
             ds == {o.day}
             U == Reversible({o.row}) \ ReversedRows
  <2>1. /\ o.pc = "write" /\ Commits(w, -XpGain) /\ Holders(ds) = {}
        /\ completion' = [completion EXCEPT ![o.day] = NoRow]
        /\ Present(o.day, o.row) /\ ReverseAwards(w, {o.row})
        /\ ledger' = ledger /\ req' = req /\ ops' = ops
    BY <1>2 DEF UncompleteDay
  <2>2. /\ ds \in SUBSET Days
        /\ \A d \in Days : completion'[d] = IF d \in ds THEN NoRow ELSE completion[d]
    <3>1. o.day \in Days /\ completion \in [Days -> Row \cup {NoRow}]
      BY <2>1, PlanBefore DEF PlanOK, TablesOK
    <3> QED
      BY <2>1, <3>1
  <2>3. ReversedRows' = ReversedRows \cup U
    <3>1. reversals' = reversals \cup Reversal(o, U)
      BY <2>1 DEF ReverseAwards
    <3> HIDE DEF U, o
    <3> QED
      BY <3>1, ReversedAfter
  <2>4. \A e \in U : \E d \in ds : completion[d] # NoRow /\ e.ref[1] = completion[d].id
    <3>1. \A e \in U : e.ref[1] = o.row.id
      BY DEF Reversible, LatestAward, AwardsOf
    <3> QED
      BY <2>1, <3>1 DEF Present
  <2>5. ~Writing(plan'[w]) /\ \A v \in Writers \ {w} : plan'[v] = plan[v]
    BY <2>1, CommitsTo, CommitEnds
  <2> HIDE DEF U, ds, o
  <2>6. HeldOn
    BY <2>1, <2>5, CommitNumbers
  <2> QED
    BY <2>1, <2>2, <2>3, <2>4, <2>6, RowsGone
<1> QED
  BY <1>1, <1>2

LEMMA RemovalRace ==
    ASSUME PlanInv, RaceState, NEW w \in Writers, CommitDelete(w) \/ CommitPlan(w)
    PROVE  RaceState'
<1>1. CASE Refused(w)
  BY <1>1, RefusedRace
<1>2. CASE ~Refused(w)
  <2> DEFINE o == plan[w]
             ds == DaysFound(o)
             U == Reversible(Awarded(o)) \ ReversedRows
  <2>1. /\ o.pc \in {"delete", "plan"} /\ RemovesRows(w) /\ Holders(ds) = {}
        /\ \A f \in o.found : Present(f[1], f[2])
        /\ ledger' = ledger /\ ops' = ops /\ req' = req
    BY <1>2 DEF CommitDelete, CommitPlan, Removable
  <2>2. /\ ds \in SUBSET Days
        /\ \A d \in Days : completion'[d] = IF d \in ds THEN NoRow ELSE completion[d]
    <3>1. \A f \in o.found : f[1] \in Days
      BY <2>1, PlanBefore DEF PlanOK
    <3>2. ds \in SUBSET Days
      BY <3>1 DEF DaysFound
    <3> QED
      BY <2>1, <3>2 DEF RemovesRows
  <2>3. ReversedRows' = ReversedRows \cup U
    <3>1. reversals' = reversals \cup Reversal(o, U)
      BY <2>1 DEF RemovesRows, ReverseAwards
    <3> HIDE DEF U, o
    <3> QED
      BY <3>1, ReversedAfter
  <2>4. ASSUME NEW e \in U
        PROVE  \E d \in ds : completion[d] # NoRow /\ e.ref[1] = completion[d].id
    <3>1. PICK row \in Awarded(o) : e \in LatestAward(row)
      BY <2>4 DEF Reversible
    <3>2. PICK f \in o.found : row = f[2]
      BY <3>1 DEF Awarded, RowsFound
    <3>3. f[1] \in ds /\ Present(f[1], f[2]) /\ e.ref[1] = f[2].id
      BY <2>1, <3>1, <3>2 DEF DaysFound, LatestAward, AwardsOf
    <3> QED
      BY <3>3 DEF Present
  <2>5. ~Writing(plan'[w]) /\ \A v \in Writers \ {w} : plan'[v] = plan[v]
    <3>1. CASE CommitDelete(w)
      <4>1. Commits(w, IF Awarded(plan[w]) = {} THEN 0 ELSE -XpGain)
        BY <1>2, <3>1 DEF CommitDelete
      <4> QED
        BY <4>1, CommitsTo, CommitEnds
    <3>2. CASE CommitPlan(w)
      <4>1. plan' = [plan EXCEPT ![w] = Resting]
        BY <1>2, <3>2 DEF CommitPlan, Closes
      <4> QED
        BY <4>1, RestingOK DEF PlanInv, PlansOK
    <3> QED
      BY <3>1, <3>2
  <2> HIDE DEF U, ds, o
  <2>6. HeldOn
    BY <2>1, <2>5, CommitNumbers
  <2> QED
    BY <2>1, <2>2, <2>3, <2>4, <2>6, RowsGone
<1> QED
  BY <1>1, <1>2

-----------------------------------------------------------------------------
(* What a toggle reads first.                                               *)
LEMMA BeginReads ==
    ASSUME PlanInv, RaceState, HeldOn, NEW r \in Requests, NEW d \in Days, NEW ask \in Asks,
           Begin(r, d, ask)
    PROVE  Reads(req[r])'
<1> DEFINE q == [Idle EXCEPT !.pc = "read", !.op = ops + 1, !.day = d,
                             !.ask = ask, !.existing = completion[d]]
<1>1. req'[r] = q /\ completion' = completion
  BY PlanBefore DEF Begin, tables
<1>2. q.pc = "read" /\ q.day = d /\ q.existing = completion[d] /\ ~q.adopted
  BY DEF Idle
<1> HIDE DEF q
<1>3. completion[d] # NoRow => completion[d].id <= ops' /\ ~StillHeld(completion[d].id)
  <2> SUFFICES ASSUME completion[d] # NoRow
               PROVE  completion[d].id <= ops' /\ ~StillHeld(completion[d].id)
    OBVIOUS
  <2> DEFINE m == completion[d].id
  <2>1. m \in Nat /\ m <= ops /\ ~Held(m)
    BY RowTypes DEF RaceState, RowNumbers, RowIds
  <2> HIDE DEF m
  <2>2. m <= ops' /\ ~StillHeld(m)
    BY <2>1, StaysFree
  <2> QED
    BY <2>2 DEF m
<1>4. completion[d] # NoRow => ~Held(req[r].existing.id)'
  BY <1>1, <1>2, <1>3 DEF StillHeld, Held, Underway, Writing
<1> QED
  BY <1>1, <1>2, <1>3, <1>4 DEF Reads, SameRow

(* And what it writes is made from that, under the lock of the row.         *)
LEMMA GoesOnReads ==
    ASSUME PlanInv, RaceState, HeldOn, NEW r \in Requests,
           WriteExisting(r) \/ CreateRow(r) \/ CreateConflict(r) \/ ReadUser(r)
    PROVE  Reads(req[r])'
<1> DEFINE q == req[r]
<1>0. /\ q \in Request /\ req \in [Requests -> Request] /\ Reads(q)
      /\ completion' = completion
  <2>1. completion' = completion
    BY DEF WriteExisting, CreateRow, CreateConflict, ReadUser, Fail, tables
  <2> QED
    BY <2>1, PlanBefore DEF RaceState
<1>1. CASE Fail(r)
  <2>1. ~Toggling(req'[r])
    BY <1>0, <1>1 DEF Fail, Done, Idle, Toggling
  <2> QED
    BY <2>1, NotReading
<1>2. CASE ~Fail(r)
  <2>1. /\ q.pc \in {"read", "wrote"} /\ req'[r].existing = q.existing
        /\ req'[r].day = q.day /\ req'[r].ask = q.ask /\ req'[r].op = q.op
        /\ req'[r].pc \in {"wrote", "user", "post"}
        /\ IF req'[r].adopted THEN q.existing = NoRow
           ELSE /\ req'[r].row = WrittenRow(q)
                /\ IF q.existing = NoRow THEN completion[q.day] = NoRow ELSE SameRow(q)
    <3>1. CASE WriteExisting(r)
      BY <1>0, <1>2, <3>1 DEF WriteExisting, WrittenRow, Request, Reads, Toggling, SameRow
    <3>2. CASE CreateRow(r)
      BY <1>0, <3>2 DEF CreateRow, WrittenRow, Request, Reads, Toggling
    <3>3. CASE CreateConflict(r)
      BY <1>0, <1>2, <3>3 DEF CreateConflict, Request
    <3>4. CASE ReadUser(r)
      BY <1>0, <3>4 DEF ReadUser, Request, Reads, Toggling
    <3> QED
      BY <3>1, <3>2, <3>3, <3>4
  <2>2. Reads(q) /\ Toggling(q)
    BY <1>0, <1>2, <2>1 DEF Toggling
  <2>3. q.existing # NoRow => q.existing.id <= ops' /\ ~StillHeld(q.existing.id)
    <3> SUFFICES ASSUME q.existing # NoRow
                 PROVE  q.existing.id <= ops' /\ ~StillHeld(q.existing.id)
      OBVIOUS
    <3> DEFINE m == q.existing.id
    <3>1. m \in Nat /\ m <= ops /\ ~Held(m)
      BY <2>2, RowTypes DEF Reads
    <3> HIDE DEF m
    <3>2. m <= ops' /\ ~StillHeld(m)
      BY <3>1, StaysFree
    <3> QED
      BY <3>2 DEF m
  <2>4. q.existing # NoRow => ~Held(req[r].existing.id)'
    BY <2>1, <2>3 DEF StillHeld, Held, Underway, Writing
  <2>5. WrittenRow(req'[r]) = WrittenRow(q)
    BY <2>1 DEF WrittenRow
  <2> HIDE DEF q
  <2> QED
    BY <1>0, <2>1, <2>2, <2>3, <2>4, <2>5 DEF Reads, SameRow
<1> QED
  BY <1>1, <1>2

(* A step of a toggle, a purchase or an archival that changes no row.       *)
LEMMA LooksRace ==
    ASSUME PlanInv, RaceState, HeldOn, NEW r \in Requests,
           Toggle(r) \/ Purchase(r) \/ Remove(r) \/ Abandon(r), ~Settle(r), ~DeleteHabit(r)
    PROVE  RaceState'
<1>1. LedgerInv /\ TypeInv
  BY DEF PlanInv, BalanceInv, LedgerInv
<1>2. completion' = completion /\ Outstanding' = Outstanding
  BY <1>1, RowsKinds
<1>3. RowNumbers'
  <2> DEFINE n == 0
  <2>1. n \in Nat /\ n <= ops
    BY PlanBefore
  <2> HIDE DEF n
  <2>2. \A d \in Days : completion'[d] # NoRow =>
           /\ completion[d] # NoRow /\ completion'[d].id = completion[d].id
           /\ ~completion'[d].status => completion'[d].kind = "FULL"
    BY <1>2 DEF RaceState, RowNumbers, RowIds
  <2> QED
    BY <2>1, <2>2, NumbersMove DEF RaceState
<1>4. CompletedIsPaid'
  BY <1>2 DEF RaceState, CompletedIsPaid, DoneDays
<1>5. ASSUME NEW s \in Requests \ {r} PROVE Reads(req[s])'
  <2> DEFINE ds == {}
             n == 0
  <2>1. Holders(ds) = {} /\ \A d : d \notin ds
    BY DEF Holders
  <2>2. req'[s] = req[s] /\ s \in Requests
    BY <1>1, OthersLeft
  <2> HIDE DEF ds, n
  <2> QED
    BY <1>2, <2>1, <2>2, ReadsStand
<1>6. Reads(req[r])'
  <2>1. CASE \E d \in Days, ask \in Asks : Begin(r, d, ask)
    BY <2>1, BeginReads
  <2>2. CASE WriteExisting(r) \/ CreateRow(r) \/ CreateConflict(r) \/ ReadUser(r)
    BY <2>2, GoesOnReads
  <2>3. CASE DeleteCount(r)
    <3>1. ~Toggling(req'[r])
      BY <2>3, PlanBefore DEF DeleteCount, Idle, Toggling
    <3> QED
      BY <3>1, NotReading
  <2>4. CASE \/ \E d \in Days : FreezeCheck(r, d)
             \/ \E i \in Items : RedeemCheck(r, i)
             \/ FreezeSettle(r) \/ RedeemSettle(r) \/ Settle(r) \/ SettleConflict(r)
             \/ ArchiveHabit(r) \/ DeleteHabit(r) \/ Announce(r) \/ Abandon(r)
    <3>1. ~Toggling(req'[r])
      BY <1>1, <2>4, EndsUnbound DEF Unbound, Toggling
    <3> QED
      BY <3>1, NotReading
  <2> QED
    BY <2>1, <2>2, <2>3, <2>4 DEF Toggle, Purchase, Remove
<1> QED
  BY <1>3, <1>4, <1>5, <1>6 DEF RaceState

(* The rows of a deleted habit go; no toggle holds one then.                *)
LEMMA DeleteRace ==
    ASSUME PlanInv, RaceState, HeldOn, NEW r \in Requests, DeleteHabit(r)
    PROVE  RaceState'
<1>1. TypeInv
  BY DEF PlanInv, BalanceInv, LedgerInv
<1>2. \A d \in Days : completion'[d] = NoRow
  BY DEF DeleteHabit
<1>3. RowNumbers' /\ CompletedIsPaid'
  BY <1>2 DEF RowNumbers, RowIds, CompletedIsPaid, DoneDays
<1>4. ASSUME NEW s \in Requests \ {r} PROVE Reads(req[s])'
  <2> DEFINE n == 0
  <2>1. Holders(Days) = {}
    BY DEF DeleteHabit, Holders
  <2>2. Toggling(req[s]) => req[s].day \in Days
    BY TogglesADay
  <2>3. req'[s] = req[s] /\ s \in Requests
    BY <1>1, OthersLeft DEF Remove
  <2> HIDE DEF n
  <2> QED
    BY <1>2, <2>1, <2>2, <2>3, ReadsStand
<1>5. Reads(req[r])'
  <2>1. ~Toggling(req'[r])
    BY <1>1, EndsUnbound DEF Unbound, Toggling
  <2> QED
    BY <2>1, NotReading
<1> QED
  BY <1>3, <1>4, <1>5 DEF RaceState

(* A settlement writes the row it made from what it read, and pays for it   *)
(* unless the row was done already, of the same kind.                       *)
LEMMA SettleRace ==
    ASSUME PlanInv, RaceState, HeldOn, OneToggleADay, plan' = plan,
           NEW r \in Requests, Settle(r)
    PROVE  RaceState'
<1> DEFINE q == req[r]
           base == Entry(q.op, q.ask.kind, q.row.id, 0, Coins[q.ask.kind])
<1>1. /\ LedgerInv /\ TypeInv /\ q \in Request /\ req \in [Requests -> Request]
      /\ completion \in [Days -> Row \cup {NoRow}] /\ ops \in Nat
      /\ q.op \in Nat /\ q.op <= ops /\ Reads(q) /\ Toggling(q) /\ q.pc # "read"
      /\ q.day \in Days /\ Underway(q)
  <2>1. LedgerInv /\ TypeInv /\ FreshOps /\ Sound(req[r])
    BY DEF PlanInv, BalanceInv, LedgerInv, TypeInv, SoundRequests
  <2>2. q.pc \in {"wrote", "user"}
    BY DEF Settle, ReadyToSettle
  <2> QED
    BY <2>1, <2>2, PlanBefore
       DEF TablesOK, Toggling, RaceState, Sound, FreshOps, Request, Underway
<1>2. completion' = View(q) /\ ops' = ops
  BY DEF Settle
<1>3. Outstanding' = (Outstanding \ (IF Reverses(q) THEN LatestBase(q) ELSE {}))
                        \cup (IF Pays(q) THEN {base} ELSE {})
  BY <1>1, SettleBase
<1>4. ASSUME NEW s \in Requests PROVE Reads(req[s])'
  <2>1. req'[r].pc = "post" /\ (s # r => req'[s] = req[s])
    BY <1>1, OthersLeft DEF Settle, Toggle, Request
  <2>2. CASE ~Toggling(req'[s])
    BY <2>2, NotReading
  <2>3. CASE Toggling(req'[s])
    <3> DEFINE ds == {}
               n == 0
    <3>1. Holders(ds) = {} /\ \A d : d \notin ds
      BY DEF Holders
    <3>2. req'[s] = req[s] /\ s # r /\ Toggling(req[s])
      BY <2>1, <2>3 DEF Toggling
    <3>3. req[s].day # q.day /\ req[s].day \in Days
      BY <1>1, <3>2, TogglesADay DEF OneToggleADay
    <3>4. completion'[req[s].day] = completion[req[s].day]
      BY <1>1, <1>2, <3>3 DEF View
    <3> HIDE DEF ds, n
    <3> QED
      BY <3>1, <3>2, <3>4, ReadsStand
  <2> QED
    BY <2>2, <2>3
<1>5. ~StillHeld(q.op) /\ Held(q.op)
  <2>1. req'[r].pc = "post" /\ \A s \in Requests \ {r} : req'[s] = req[s]
    BY <1>1, OthersLeft DEF Settle, Toggle, Request
  <2>2. \A s \in Requests : Underway(req'[s]) => req'[s].op # q.op
    BY <1>1, <2>1 DEF Underway, LedgerInv, FreshOps
  <2>3. \A w \in Writers : Writing(plan'[w]) => plan'[w].op # q.op
    BY <1>1 DEF PlanInv, PlanFresh
  <2> QED
    BY <1>1, <2>2, <2>3 DEF Held, StillHeld
<1>6. CASE q.adopted
  <2>1. q.existing = NoRow /\ completion' = completion
    BY <1>1, <1>2, <1>6 DEF Reads, View
  <2>2. Outstanding \subseteq Outstanding'
    BY <1>3, <2>1 DEF Reverses, Losing, Swapping, KindChanged, PriorAward
  <2>3. CompletedIsPaid'
    BY <2>1, <2>2 DEF RaceState, CompletedIsPaid, DoneDays
  <2>4. RowNumbers'
    <3> DEFINE n == q.op
    <3>1. n \in Nat /\ n <= ops
      BY <1>1
    <3> HIDE DEF n
    <3>2. \A d \in Days : completion'[d] # NoRow =>
             /\ completion[d] # NoRow /\ completion'[d].id = completion[d].id
             /\ ~completion'[d].status => completion'[d].kind = "FULL"
      BY <2>1 DEF RaceState, RowNumbers, RowIds
    <3> QED
      BY <3>1, <3>2, NumbersMove DEF RaceState
  <2> QED
    BY <1>4, <2>3, <2>4 DEF RaceState
<1>7. CASE ~q.adopted
  <2> DEFINE d0 == q.day
             e0 == q.existing
             new == [status |-> IsCompleted(q.ask), kind |-> q.ask.kind]
  <2>1. /\ \A d \in Days : completion'[d] = IF d = d0 THEN q.row ELSE completion[d]
        /\ q.row = WrittenRow(q)
        /\ IF e0 = NoRow THEN completion[d0] = NoRow ELSE SameRow(q)
    BY <1>1, <1>2, <1>7 DEF View, Reads
  <2>2. q.row # NoRow =>
           /\ e0 # NoRow => ~q.ask.plain
           /\ q.row.id = IF e0 = NoRow THEN q.op ELSE e0.id
           /\ q.row.status = IsCompleted(q.ask) /\ q.row.kind = q.ask.kind
    BY <2>1 DEF WrittenRow
  <2>3. RowNumbers'
    <3> DEFINE n == q.op
    <3>1. n \in Nat /\ n <= ops /\ Held(n) /\ ~StillHeld(n)
      BY <1>1, <1>5
    <3>2. \A d \in Days : completion'[d] # NoRow =>
             /\ \/ completion[d] # NoRow /\ completion'[d].id = completion[d].id
                \/ d = d0 /\ completion'[d].id = n /\ Held(n) /\ ~StillHeld(n)
             /\ ~completion'[d].status => completion'[d].kind = "FULL"
      <4>1. q.row # NoRow /\ ~q.row.status => q.row.kind = "FULL"
        BY <2>2 DEF IsCompleted
      <4> QED
        BY <2>1, <2>2, <3>1, <4>1 DEF SameRow, RaceState, RowNumbers, RowIds
    <3> HIDE DEF n, d0
    <3> QED
      BY <3>1, <3>2, NumbersMove DEF RaceState
  <2>4. ASSUME q.row # NoRow, q.row.status
        PROVE  \E e \in Outstanding' : e.ref[1] = q.row.id /\ e.type = q.row.kind
    <3>1. CASE Pays(q)
      <4>1. base \in Outstanding' /\ base.ref[1] = q.row.id /\ base.type = q.row.kind
        BY <1>3, <2>2, <2>4, <3>1 DEF Entry
      <4> QED
        BY <4>1
    <3>2. CASE ~Pays(q)
      <4>1. /\ e0 # NoRow /\ e0.status /\ e0.kind = q.ask.kind
            /\ ~q.ask.plain /\ IsCompleted(q.ask)
        BY <2>2, <2>4, <3>2
           DEF Pays, Earning, Swapping, Removing, KindChanged, PriorAward
      <4>2. ~Reverses(q)
        BY <4>1 DEF Reverses, Losing, Swapping, Removing, KindChanged
      <4>3. /\ completion[d0] # NoRow /\ completion[d0].status
            /\ completion[d0].id = q.row.id /\ completion[d0].kind = q.row.kind
        BY <1>1, <2>1, <2>2, <2>4, <4>1 DEF Reads, SameRow
      <4>4. d0 \in DoneDays(completion)
        BY <1>1, <4>3 DEF DoneDays
      <4>5. \E e \in Outstanding : e.ref[1] = q.row.id /\ e.type = q.row.kind
        BY <4>3, <4>4 DEF RaceState, CompletedIsPaid
      <4> QED
        BY <1>3, <3>2, <4>2, <4>5
    <3> QED
      BY <3>1, <3>2
  <2>5. ASSUME NEW e \in Outstanding, e \notin Outstanding'
        PROVE  completion[d0] # NoRow /\ e.ref[1] = completion[d0].id
    <3>1. Reverses(q) /\ e \in LatestBase(q)
      BY <1>3, <2>5
    <3>2. e0 # NoRow /\ e.ref[1] = e0.id
      BY <3>1 DEF LatestBase, BaseAwards, Reverses, Losing, Swapping, KindChanged,
         PriorAward
    <3> QED
      BY <2>1, <3>2 DEF SameRow
  <2>6. CompletedIsPaid'
    <3> DEFINE ds == {d0}
    <3>1. /\ ds \in SUBSET Days /\ \A d \in Days \ ds : completion'[d] = completion[d]
          /\ \A d \in ds : completion'[d] # NoRow /\ completion'[d].status =>
                \E e \in Outstanding' : /\ e.ref[1] = completion'[d].id
                                        /\ e.type = completion'[d].kind
          /\ \A e \in Outstanding : e \in Outstanding' \/
                \E d \in ds : completion[d] # NoRow /\ e.ref[1] = completion[d].id
      BY <1>1, <2>1, <2>4, <2>5
    <3> HIDE DEF ds
    <3> QED
      BY <3>1, DaysStayPaid
  <2> QED
    BY <1>4, <2>3, <2>6 DEF RaceState
<1> QED
  BY <1>6, <1>7

LEMMA HabitStepRace ==
    ASSUME PlanInv, RaceState, OneToggleADay, HabitStep
    PROVE  RaceState'
<1>1. HeldOn /\ plan' = plan
  BY HabitNumbers DEF HabitStep
<1>2. PICK r \in Requests : Toggle(r) \/ Purchase(r) \/ Remove(r) \/ Abandon(r)
  BY DEF HabitStep, Next
<1> QED
  BY <1>1, <1>2, LooksRace, DeleteRace, SettleRace

LEMMA RaceStep == OneToggleADay /\ RaceInv /\ [PlanNext]_planVars => RaceInv'
<1> SUFFICES ASSUME OneToggleADay, RaceInv, [PlanNext]_planVars PROVE RaceInv'
  OBVIOUS
<1>1. PlanInv /\ RaceState /\ PlanInv'
  BY PlanStepKeeps DEF RaceInv
<1>2. CASE HabitStep
  BY <1>1, <1>2, HabitStepRace DEF RaceInv
<1>3. ASSUME NEW w \in Writers, TaskStep(w) \/ PlanStep(w) \/ ReadXp(w)
                                   \/ WriteXp(w) \/ Deadlock(w) \/ AbandonPlan(w)
      PROVE  RaceState'
  <2>1. CASE TaskStep(w)
    BY <1>1, <2>1, StartsRace, GoesOnRace, CompleteDayRace, UncompleteDayRace,
       RemovalRace DEF TaskStep
  <2>2. CASE PlanStep(w)
    BY <1>1, <2>2, StartsRace, RemovalRace DEF PlanStep
  <2>3. CASE AbandonPlan(w)
    BY <1>1, <2>3, RefusedRace DEF AbandonPlan
  <2> QED
    BY <1>1, <1>3, <2>1, <2>2, <2>3, GoesOnRace, RefusedRace
<1>4. CASE UNCHANGED planVars
  <2>1. /\ UNCHANGED <<completion, ledger, reversals, req, ops, plan>>
    BY <1>4 DEF planVars, vars, tables
  <2>2. HeldOn
    BY <2>1 DEF HeldOn, Held, StillHeld
  <2> QED
    BY <1>1, <2>1, <2>2, RaceLeft DEF RaceInv
<1> QED
  BY <1>1, <1>2, <1>3, <1>4 DEF PlanNext, RaceInv

LEMMA RaceStart == PlanInit => RaceInv
<1> SUFFICES ASSUME PlanInit PROVE RaceInv
  OBVIOUS
<1>1. Init /\ PlanInv
  BY PlanStart DEF PlanInit
<1>2. \A d \in Days : completion[d] = NoRow
  BY <1>1 DEF Init
<1>3. \A r \in Requests : Reads(req[r])
  BY <1>1 DEF Init, Idle, Reads, Toggling
<1> QED
  BY <1>1, <1>2, <1>3
     DEF RaceInv, RaceState, RowNumbers, RowIds, CompletedIsPaid, DoneDays

(* Any number of plan requests may race with each other and with toggles:   *)
(* while no two toggles of one day are open together, a completed day has a *)
(* standing award of its kind, though both services write its row and each  *)
(* decides by what it read before it had the lock.                          *)
THEOREM CompletedStaysPaid == PlanSpec /\ []OneToggleADay => []CompletedIsPaid
<1>1. RaceInv => CompletedIsPaid
  BY DEF RaceInv, RaceState
<1> QED
  BY <1>1, RaceStart, RaceStep, PTL DEF PlanSpec
=============================================================================
