---------------------------- MODULE MCTokenFactory ----------------------------
(* Model checking the token factory.                                       *)
EXTENDS TokenFactoryProps, TLC

VARIABLES
    scenario,       \* how much of what happens; chosen once
    directs,        \* direct calls of the admin so far
    payouts         \* withdrawals at once so far

mcVars == <<scenario, directs, payouts>>

Symmetry == Permutations(Account) \cup Permutations(Treasuries)

Low == [cap |-> 1, allowlist |-> TRUE, duration |-> 2]
High == [cap |-> 2, allowlist |-> FALSE, duration |-> 2]
BothPolicies == {Low, High}

(* Bounds that name what the parts of the contract do to each other.       *)
None == [types |-> {}, supplies |-> {0}, proposals |-> 0, changes |-> 0, actions |-> 0,
         withdrawals |-> 0, payouts |-> 0, vaults |-> 0, directs |-> 0, touches |-> {}]

Scenarios ==
    {\* two proposals of one type
     [None EXCEPT !.proposals = 2, !.types = {"FeeChange"}],
     \* one proposal of any type, while the admin reconfigures or hands over
     [None EXCEPT !.proposals = 1, !.types = Types, !.supplies = Supplies,
                  !.directs = 1, !.touches = {"role", "config"}],
     \* a change and a signed action, with a new admin or signers
     [None EXCEPT !.changes = 1, !.actions = 1, !.directs = 2,
                  !.touches = {"role", "signers"}],
     \* withdrawals while the policy is replaced
     [None EXCEPT !.proposals = 1, !.types = {"PolicyUpdate"}, !.payouts = 3],
     [None EXCEPT !.withdrawals = 1, !.payouts = 3, !.directs = 1,
                  !.touches = {"policy", "recipients"}],
     \* a vault while the contract is paused and the breaker set
     [None EXCEPT !.vaults = MaxVaults, !.directs = 2, !.touches = {"paused", "breaker"}]}

Within ==
    /\ proposalCount' <= scenario.proposals /\ changeCount' <= scenario.changes
    /\ actionCount' <= scenario.actions /\ withdrawalCount' <= scenario.withdrawals
    /\ vaultCount' <= scenario.vaults
    /\ proposalCount' > proposalCount =>
          LET created == proposals'[proposalCount] IN
          created.type \in scenario.types /\ created.supply \in scenario.supplies

MayAnnounce ==
    \/ proposalCount < scenario.proposals
    \/ changeCount < scenario.changes
    \/ actionCount < scenario.actions

Indirect ==
    \/ MayAnnounce /\ Announces /\ UNCHANGED <<treasuryVars, vaultVars>>
    \/ Proceeds /\ UNCHANGED <<treasuryVars, vaultVars>>
    \/ Settles /\ UNCHANGED vaultVars
    \/ /\ withdrawalCount < scenario.withdrawals
       /\ \E r \in Account, n \in Withdrawable : QueueWithdrawal(r, n)
       /\ UNCHANGED vaultVars
    \/ vaultCount < scenario.vaults /\ Deposits /\ UNCHANGED treasuryVars
    \/ \E v \in VaultId : UsesVault(v) /\ UNCHANGED treasuryVars

Pays ==
    /\ payouts < scenario.payouts /\ payouts' = payouts + 1
    /\ \E r \in Account, n \in Withdrawable : WithdrawFees(r, n)
    /\ UNCHANGED vaultVars

(* What the direct calls of a scenario may change.                         *)
Touched ==
    /\ "role" \in scenario.touches \/ UNCHANGED <<settings.admin, pendingAdmin>>
    /\ "config" \in scenario.touches \/ UNCHANGED config
    /\ "paused" \in scenario.touches \/ UNCHANGED settings.paused
    /\ "policy" \in scenario.touches \/ UNCHANGED settings.policy
    /\ "signers" \in scenario.touches \/ UNCHANGED multisig
    /\ "recipients" \in scenario.touches \/ UNCHANGED <<treasuryVars>>
    /\ "breaker" \in scenario.touches \/ UNCHANGED <<limit, tripped>>

Direct ==
    /\ \/ Intervenes /\ UNCHANGED <<treasuryVars, vaultVars>>
       \/ Regulates /\ UNCHANGED vaultVars
       \/ Guards /\ UNCHANGED treasuryVars
    /\ Touched

MCNext ==
    /\ \/ Indirect /\ UNCHANGED <<directs, payouts>>
       \/ Pays /\ UNCHANGED directs
       \/ directs < scenario.directs /\ Direct /\ directs' = directs + 1 /\ UNCHANGED payouts
    /\ UNCHANGED scenario
    /\ Within

MCInit == FactoryInit /\ scenario \in Scenarios /\ directs = 0 /\ payouts = 0
MCSpec == MCInit /\ [][MCNext]_<<factoryVars, mcVars>>
=============================================================================
