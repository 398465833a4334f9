---------------------------- MODULE BalanceRepair ----------------------------
(* The explicit balance repair of RewardsService, racing the requests of    *)
(* HabitRewards.  It aggregates the ledger and reads the cached balance with *)
(* two statements of one READ COMMITTED transaction, each with a snapshot of *)
(* its own, and then writes an absolute balance.                            *)
EXTENDS HabitRewards

VARIABLE repair   \* stage of the repair, the sum and the drift it has read

repairVars == <<vars, repair>>

Resting == [pc |-> "idle", op |-> 0, sum |-> 0, drift |-> 0]

RepairInit == Init /\ repair = Resting

(* tx.rewardLedger.aggregate                                                *)
RepairSum ==
    /\ repair.pc = "idle" /\ ops < MaxOps
    /\ repair' = [pc |-> "summed", op |-> ops + 1, sum |-> LedgerSum, drift |-> 0]
    /\ ops' = ops + 1
    /\ UNCHANGED <<tables, req>>

(* tx.user.findUnique and the early return when nothing drifted             *)
RepairCompare ==
    /\ repair.pc = "summed"
    /\ repair' = IF coins = repair.sum THEN Resting
                 ELSE [repair EXCEPT !.pc = "drift", !.drift = coins - repair.sum]
    /\ UNCHANGED vars

RepairWrite ==
    /\ repair.pc = "drift"
    /\ ledger' = ledger \cup {Entry(repair.op, "ADJUSTMENT", 0, 0, repair.drift)}
    /\ coins' = repair.sum + repair.drift
    /\ repair' = Resting
    /\ UNCHANGED <<habit, completion, reversals, user, frozen, owned,
                   allocations, bundle, req, ops>>

RepairNext ==
    \/ Next /\ UNCHANGED repair
    \/ RepairSum \/ RepairCompare \/ RepairWrite

RepairSpec == RepairInit /\ [][RepairNext]_repairVars

(* The repair leaves the ledger sum equal to the cached balance, as         *)
(* rewards.service.ts:199 promises "by construction".                       *)
RepairReconciles ==
    [][repair.pc = "drift" /\ repair'.pc = "idle" => (coins = LedgerSum)']_repairVars
=============================================================================
