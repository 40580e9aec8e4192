----------------------------- MODULE TokenFactory -----------------------------
(***************************************************************************)
(* The token factory contract as far as it is modelled: its vaults and its *)
(* treasury under the settings that its administration changes.            *)
(***************************************************************************)
EXTENDS FactoryTreasury, FactoryVaults

factoryVars == <<adminVars, treasuryVars, vaultVars>>

FactoryInit == AdminInit /\ TreasuryInit /\ VaultInit

FactoryNext ==
    \/ AdminNext /\ UNCHANGED <<treasuryVars, vaultVars>>
    \/ TreasuryNext /\ UNCHANGED vaultVars
    \/ VaultNext /\ UNCHANGED treasuryVars

FactorySpec == FactoryInit /\ [][FactoryNext]_factoryVars
=============================================================================
