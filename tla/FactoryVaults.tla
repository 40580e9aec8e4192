---------------------------- MODULE FactoryVaults ----------------------------
(***************************************************************************)
(* Vaults of the token factory: an amount for an owner, claimable as a     *)
(* whole after a time, after a verifier has confirmed a milestone, or      *)
(* both; cancelled by creator or admin; and handed to another owner when   *)
(* owner and creator agree (contracts/token-factory/src: lib.rs,           *)
(* vault.rs).                                                              *)
(*                                                                         *)
(* Every call but those of the circuit breaker is refused while the        *)
(* contract is paused.  Balances are not modelled: create_vault moves no   *)
(* tokens, and a claim that the contract cannot pay reverts.  paidOut and  *)
(* consents are history.                                                   *)
(***************************************************************************)
EXTENDS FactoryAdmin

CONSTANTS
    VaultAmounts,   \* amounts of vaults
    Limits,         \* withdrawal limits per epoch; 0 disables
    EpochLength,    \* DEFAULT_EPOCH_LEDGERS
    MaxVaults       \* bound: vaults created

ASSUME FactoryVaultsAssumption ==
    /\ VaultAmounts \subseteq Nat \ {0} /\ Limits \subseteq Nat
    /\ EpochLength \in Nat \ {0} /\ MaxVaults \in Nat

VARIABLES
    vaults, vaultCount,
    ownerChange,    \* pending change of owner, per vault
    limit, volume,  \* withdrawal limit, and volume per epoch
    tripped,        \* the circuit breaker has paused withdrawals
    paidOut,        \* history: paid per vault
    consents        \* history: per vault, who agreed to which new owner

vaultVars == <<vaults, vaultCount, ownerChange, limit, volume, tripped, paidOut, consents>>

VaultId == 0..(MaxVaults - 1)
Epoch == 0..(MaxTime \div EpochLength)
NoChange == [to |-> Nobody, byOwner |-> FALSE, byCreator |-> FALSE]

VaultInit ==
    /\ vaults = [v \in VaultId |-> Nothing] /\ vaultCount = 0
    /\ ownerChange = [v \in VaultId |-> NoChange]
    /\ limit = 0 /\ volume = [e \in Epoch |-> 0] /\ tripped = FALSE
    /\ paidOut = [v \in VaultId |-> 0]
    /\ consents = [v \in VaultId |-> {}]

Open(v) == ~settings.paused /\ vaults[v].state = "Active"

-----------------------------------------------------------------------------
(* unlock 0: no time lock.  A verifier may be named without a milestone.   *)
CreateVault(creator, owner, amount, unlock, milestone, verifier) ==
    /\ ~settings.paused /\ vaultCount < MaxVaults
    /\ unlock > 0 \/ milestone
    /\ milestone => verifier # Nobody
    /\ vaults' = [vaults EXCEPT ![vaultCount] =
          [state |-> "Active", creator |-> creator, owner |-> owner,
           total |-> amount, claimed |-> 0, unlock |-> unlock,
           milestone |-> milestone, verifier |-> verifier, verified |-> FALSE]]
    /\ vaultCount' = vaultCount + 1
    /\ UNCHANGED <<adminVars, ownerChange, limit, volume, tripped, paidOut, consents>>

Claimable(v) == vaults[v].total - vaults[v].claimed

(* record_withdrawal, which a claim calls without ensure_withdrawals_enabled *)
RecordVolume(amount) ==
    LET epoch == now \div EpochLength
    IN  IF limit = 0 THEN UNCHANGED <<volume, tripped>>
        ELSE /\ volume' = [volume EXCEPT ![epoch] = @ + amount]
             /\ tripped' = (tripped \/ volume'[epoch] >= limit)

Unlocked(v) ==
    /\ vaults[v].milestone => vaults[v].verified
    /\ now >= vaults[v].unlock

(* By the owner.                                                           *)
ClaimVault(v) ==
    /\ Open(v) /\ Unlocked(v) /\ Claimable(v) > 0
    /\ RecordVolume(Claimable(v))
    /\ vaults' = [vaults EXCEPT ![v].claimed = vaults[v].total, ![v].state = "Claimed"]
    /\ paidOut' = [paidOut EXCEPT ![v] = @ + Claimable(v)]
    /\ UNCHANGED <<adminVars, vaultCount, ownerChange, limit, consents>>

(* By creator or admin; a pending change of owner stays.                   *)
CancelVault(v) ==
    /\ Open(v)
    /\ vaults' = [vaults EXCEPT ![v].state = "Cancelled"]
    /\ UNCHANGED <<adminVars, vaultCount, ownerChange, limit, volume, tripped,
                   paidOut, consents>>

VerifyMilestone(v) ==
    /\ Open(v) /\ vaults[v].verifier # Nobody /\ ~vaults[v].verified
    /\ vaults' = [vaults EXCEPT ![v].verified = TRUE]
    /\ UNCHANGED <<adminVars, vaultCount, ownerChange, limit, volume, tripped,
                   paidOut, consents>>

-----------------------------------------------------------------------------
(* Change of owner.                                                        *)

Consent(a, v, to) == consents' = [consents EXCEPT ![v] = @ \cup {<<a, to>>}]

(* Mutation: the two consents are swapped.                                 *)
ProposeOwnerSwapped(a, v, to) ==
    /\ Open(v) /\ a \in {vaults[v].owner, vaults[v].creator}
    /\ ownerChange[v] = NoChange
    /\ ownerChange' = [ownerChange EXCEPT ![v] =
          [to |-> to, byOwner |-> a = vaults[v].creator,
           byCreator |-> a = vaults[v].owner]]
    /\ Consent(a, v, to)
    /\ UNCHANGED <<adminVars, vaults, vaultCount, limit, volume, tripped, paidOut>>

ProposeOwner(a, v, to) ==
    /\ Open(v) /\ a \in {vaults[v].owner, vaults[v].creator}
    /\ ownerChange[v] = NoChange
    /\ ownerChange' = [ownerChange EXCEPT ![v] =
          [to |-> to, byOwner |-> a = vaults[v].owner,
           byCreator |-> a = vaults[v].creator]]
    /\ Consent(a, v, to)
    /\ UNCHANGED <<adminVars, vaults, vaultCount, limit, volume, tripped, paidOut>>

ApproveOwner(a, v) ==
    LET change == ownerChange[v]
        isOwner == a = vaults[v].owner
        isCreator == a = vaults[v].creator
        byOwner == change.byOwner \/ isOwner
        byCreator == change.byCreator \/ isCreator
    IN  /\ Open(v) /\ change # NoChange
        /\ isOwner \/ isCreator
        /\ ~(isOwner /\ change.byOwner) /\ ~(isCreator /\ change.byCreator)
        /\ Consent(a, v, change.to)
        /\ IF byOwner /\ byCreator
           THEN /\ vaults' = [vaults EXCEPT ![v].owner = change.to]
                /\ ownerChange' = [ownerChange EXCEPT ![v] = NoChange]
           ELSE /\ ownerChange' = [ownerChange EXCEPT ![v].byOwner = byOwner,
                                                      ![v].byCreator = byCreator]
                /\ UNCHANGED vaults
        /\ UNCHANGED <<adminVars, vaultCount, limit, volume, tripped, paidOut>>

-----------------------------------------------------------------------------
(* The circuit breaker, by the admin.                                      *)

SetLimit(l) ==
    /\ limit' = l
    /\ UNCHANGED <<adminVars, vaults, vaultCount, ownerChange, volume, tripped,
                   paidOut, consents>>

ResumeVaults ==
    /\ tripped' = FALSE
    /\ UNCHANGED <<adminVars, vaults, vaultCount, ownerChange, limit, volume,
                   paidOut, consents>>

-----------------------------------------------------------------------------
Deposits ==
    \E creator, owner \in Account, amount \in VaultAmounts, unlock \in 0..MaxTime,
       milestone \in BOOLEAN, verifier \in Account \cup {Nobody} :
        CreateVault(creator, owner, amount, unlock, milestone, verifier)

UsesVault(v) ==
    \/ ClaimVault(v) \/ CancelVault(v) \/ VerifyMilestone(v)
    \/ \E a \in Account : ApproveOwner(a, v) \/ \E to \in Account : ProposeOwner(a, v, to)

Guards == ResumeVaults \/ \E l \in Limits : SetLimit(l)

VaultNext == Deposits \/ Guards \/ \E v \in VaultId : UsesVault(v)
VaultSpec ==
    /\ AdminInit /\ VaultInit
    /\ [][(AdminNext /\ UNCHANGED vaultVars) \/ VaultNext]_<<adminVars, vaultVars>>
=============================================================================
