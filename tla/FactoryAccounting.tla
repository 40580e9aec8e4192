--------------------------- MODULE FactoryAccounting ---------------------------
(***************************************************************************)
(* One token with its balances and snapshots, the dividends paid to its    *)
(* holders and the pool in which it is staked, composed.  Each call is one *)
(* transaction, and any number of them share a ledger.                     *)
(***************************************************************************)
EXTENDS FactoryDividends, FactoryStaking

accountingVars == <<ledgerVars, dividendVars, stakingVars>>

AccountingInit == LedgerInit /\ DividendInit /\ StakingInit

AccountingNext ==
    \/ TokenCall /\ Disturb /\ UNCHANGED stakingVars
    \/ DividendCall /\ UNCHANGED <<ledgerVars, stakingVars>>
    \/ StakingCall /\ UNCHANGED dividendVars
    \/ CloseLedger /\ PassTime /\ UNCHANGED dividendVars

AccountingSpec == AccountingInit /\ [][AccountingNext]_accountingVars
=============================================================================
