------------------------------ MODULE MCContract ------------------------------
(***************************************************************************)
(* Model checking the token factory contract: its administration, treasury *)
(* and vaults, and the accounts of one token with dividends and staking.   *)
(* The two share no state that is modelled, so each is explored on its own.*)
(***************************************************************************)
EXTENDS MCTokenFactory, FactoryAccountingProps

VARIABLES
    accounts,       \* what happens to the accounts besides time; chosen once
    calls,          \* token calls so far
    stakings        \* staking calls so far

accountVars == <<accountingVars, calls, stakings>>

ContractSymmetry == Symmetry \cup Permutations(Holder \ {Creator})

(* Bounds on calls and rounds.                                             *)
Untouched == [calls |-> 0, rounds |-> 0, stakings |-> 0]

AccountScenarios ==
    {[Untouched EXCEPT !.calls = 2, !.rounds = 1],          \* dividends
     [Untouched EXCEPT !.calls = 1, !.rounds = 2],          \* from one escrow
     [Untouched EXCEPT !.calls = 1, !.stakings = 5],        \* rewards
     [Untouched EXCEPT !.calls = 1, !.rounds = 1, !.stakings = 2]}

AccountStep ==
    /\ \/ /\ calls < accounts.calls /\ calls' = calls + 1
          /\ TokenCall /\ Disturb /\ UNCHANGED <<stakingVars, stakings>>
       \/ DividendCall /\ UNCHANGED <<ledgerVars, stakingVars, calls, stakings>>
       \/ /\ stakings < accounts.stakings /\ stakings' = stakings + 1
          /\ StakingCall /\ UNCHANGED <<dividendVars, calls>>
       \/ CloseLedger /\ PassTime /\ UNCHANGED <<dividendVars, calls, stakings>>
    /\ Len(rounds') <= accounts.rounds

ContractInit ==
    /\ FactoryInit /\ directs = 0 /\ payouts = 0
    /\ AccountingInit /\ calls = 0 /\ stakings = 0
    /\ \/ scenario \in Scenarios /\ accounts = Untouched
       \/ scenario = None /\ accounts \in AccountScenarios

ContractNext ==
    /\ \/ accounts = Untouched /\ MCNext /\ UNCHANGED accountVars
       \/ scenario = None /\ AccountStep /\ UNCHANGED <<factoryVars, mcVars>>
    /\ UNCHANGED accounts

ContractSpec ==
    ContractInit /\ [][ContractNext]_<<factoryVars, mcVars, accounts, accountVars>>
=============================================================================
