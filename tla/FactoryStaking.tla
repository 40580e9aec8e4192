---------------------------- MODULE FactoryStaking ----------------------------
(***************************************************************************)
(* A staking pool that pays rewards in the token staked                    *)
(* (contracts/token-factory/src/staking.rs).  The pool accumulates the     *)
(* reward of one staked unit, scaled by Precision and rounded down; a      *)
(* position remembers what the accumulator had granted it when its amount  *)
(* last changed or its reward was last paid.                               *)
(*                                                                         *)
(* emitted, rewarded and anchored are history: what the rate comes to for  *)
(* the time in which somebody had a stake, what was paid out of that, and  *)
(* whose position was anchored anew with another amount in which ledger.   *)
(***************************************************************************)
EXTENDS FactoryLedger

CONSTANTS
    Rates,          \* reward per unit of time
    Stakes,         \* amounts staked and unstaked
    Precision       \* PRECISION

ASSUME FactoryStakingAssumption ==
    /\ Rates \subseteq Nat /\ Stakes \subseteq Nat \ {0} /\ Precision \in Nat \ {0}

VARIABLES
    pool,           \* the pool, or NoPool
    stakes,         \* the position of each holder
    emitted, rewarded, anchored

stakingVars == <<pool, stakes, emitted, rewarded, anchored>>

NoPool == [rate |-> 0, total |-> 0, acc |-> 0, last |-> -1]
NoStake == [amount |-> 0, debt |-> 0]

StakingInit ==
    /\ pool = NoPool /\ stakes = [h \in Holder |-> NoStake]
    /\ emitted = 0 /\ rewarded = 0 /\ anchored = {}

CreatePool(rate) ==
    /\ pool = NoPool
    /\ pool' = [NoPool EXCEPT !.rate = rate, !.last = ledger]
    /\ UNCHANGED <<stakes, emitted, rewarded, anchored>>

(* Mutation: time without stakers is left for the next one.                *)
RolledLate ==
    IF pool.total = 0 THEN pool
    ELSE [pool EXCEPT !.last = ledger,
                      !.acc = @ + ((ledger - pool.last) * pool.rate * Precision) \div pool.total]

(* update_pool; time without stakers is skipped.                           *)
Rolled ==
    IF pool.total = 0 THEN [pool EXCEPT !.last = ledger]
    ELSE [pool EXCEPT !.last = ledger,
                      !.acc = @ + ((ledger - pool.last) * pool.rate * Precision) \div pool.total]

Granted(amount, acc) == (amount * acc) \div Precision
Accrued(h, acc) == Granted(stakes[h].amount, acc) - stakes[h].debt

(* The position of h is settled and becomes amount; delta is what the      *)
(* holder gets back besides the reward.  Rewards come from nowhere: the    *)
(* supply stays.                                                           *)
Settle(h, amount, delta) ==
    LET pending == Accrued(h, Rolled.acc) IN
    /\ pool' = [Rolled EXCEPT !.total = @ + amount - stakes[h].amount]
    /\ stakes' = [stakes EXCEPT ![h] = [amount |-> amount,
                                        debt |-> Granted(amount, Rolled.acc)]]
    /\ balance' = [balance EXCEPT ![h] = @ + delta + pending]
    /\ rewarded' = rewarded + pending /\ UNCHANGED emitted
    /\ anchored' = IF amount \in {0, stakes[h].amount} THEN anchored
                   ELSE anchored \cup {<<h, ledger>>}
    /\ UNCHANGED supply /\ Unrecorded

Stake(h, n) ==
    /\ pool # NoPool /\ balance[h] >= n
    /\ Settle(h, stakes[h].amount + n, -n)

Unstake(h, n) ==
    /\ stakes[h].amount >= n
    /\ Settle(h, stakes[h].amount - n, n)

ClaimRewards(h) ==
    /\ Accrued(h, Rolled.acc) > 0
    /\ Settle(h, stakes[h].amount, 0)

StakingCall ==
    \/ \E rate \in Rates : CreatePool(rate) /\ UNCHANGED <<balance, supply>> /\ Unrecorded
    \/ \E h \in Holder : ClaimRewards(h) \/ \E n \in Stakes : Stake(h, n) \/ Unstake(h, n)

(* A ledger is the unit of time.                                           *)
PassTime ==
    /\ emitted' = emitted + (IF pool.total = 0 THEN 0 ELSE pool.rate)
    /\ UNCHANGED <<pool, stakes, rewarded, anchored>>
=============================================================================
