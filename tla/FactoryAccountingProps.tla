------------------------- MODULE FactoryAccountingProps -------------------------
(***************************************************************************)
(* What the accounts of a token must add up to.                            *)
(***************************************************************************)
EXTENDS FactoryAccounting

Staked == [h \in Holder |-> stakes[h].amount]
Pending == [h \in Holder |-> Accrued(h, pool.acc)]

(* Nothing is created or lost besides what the calls say: balances and     *)
(* stakes together are the supply and the rewards that were paid, and the  *)
(* total of the pool is the sum of its positions, after any batches with   *)
(* an account named twice (burn.rs:259-270; batch_operations.rs:263-310;   *)
(* staking.rs:154-250).                                                    *)
Conserved ==
    /\ SumFunction(balance) + pool.total = supply + rewarded
    /\ pool.total = SumFunction(Staked)

(* What was claimed in a round and what is still due in it are covered by  *)
(* the amount of the round, for whatever was minted, burned, staked or     *)
(* clawed back since, provided that the snapshots accounted for no more    *)
(* than the supply when the round started, and that none was recorded      *)
(* later in the ledger of its start (dividend_distribution.rs:129-185).    *)
Dues(r) == [h \in Holder |-> Due(r, h)]
StillDue(r) == SumFunctionOnSet(Dues(r), {h \in Holder : <<r, h>> \notin claimed})
ClaimsFit == \A r \in trusted : claimedTotal[r] + StillDue(r) <= rounds[r].amount

(* Once the ledger of its start is over, nothing changes what a round owes *)
(* to each holder: neither later calls nor the claims of others            *)
(* (dividend_distribution.rs:149-161; snapshot.rs:87-117).                 *)
EntitlementFixed ==
    [][\A r \in Round, h \in Holder :
          rounds[r].ledger < ledger => Due(r, h)' = Due(r, h)]_accountingVars

(* The pool grants no more than its rate comes to in the time in which     *)
(* somebody had a stake, whoever comes, leaves, adds or takes at what      *)
(* time.  A position that is anchored anew with another amount may gain    *)
(* less than one unit by that, as its debt is rounded down, but not again  *)
(* in the same ledger (staking.rs:77-133).                                 *)
RewardsBounded ==
    Precision * (rewarded + SumFunction(Pending))
        <= Precision * emitted + Cardinality(anchored) * (Precision - 1)
=============================================================================
