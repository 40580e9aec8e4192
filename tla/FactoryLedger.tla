---------------------------- MODULE FactoryLedger ----------------------------
(***************************************************************************)
(* Balances and supply of one token that the factory keeps itself, and the *)
(* snapshots of both that are recorded on the way                          *)
(* (contracts/token-factory/src: mint.rs, burn.rs, clawback.rs,            *)
(* batch_operations.rs, snapshot.rs).                                      *)
(*                                                                         *)
(* Who may make a call, and what pauses, allowlists, compliance rules and  *)
(* rate limits forbid, only removes calls, and is left out.  Several       *)
(* snapshots of one ledger are read as the last of them, so one is kept.   *)
(***************************************************************************)
EXTENDS Integers, Sequences, FiniteSetsExt

CONSTANTS
    Holder,
    Creator,        \* who holds the initial supply
    InitialSupply,
    MaxSupply,      \* the max_supply of the token
    Amounts,        \* amounts minted, burned and clawed back
    MaxBatch,       \* bound: entries of a batch
    MaxLedger,      \* bound: ledgers
    NoSnapshot

ASSUME FactoryLedgerAssumption ==
    /\ Creator \in Holder /\ IsFiniteSet(Holder)
    /\ InitialSupply \in Nat /\ MaxSupply \in Nat /\ InitialSupply <= MaxSupply
    /\ Amounts \subseteq Nat \ {0}
    /\ MaxBatch \in Nat /\ MaxLedger \in Nat
    /\ NoSnapshot \notin Int

VARIABLES
    balance,        \* of each holder
    supply,         \* total_supply
    balanceSnaps,   \* of each holder, by ledger
    supplySnaps,    \* by ledger
    ledger          \* sequence number, and time

ledgerVars == <<balance, supply, balanceSnaps, supplySnaps, ledger>>

Ledgers == 0..MaxLedger
Batches == UNION {[1..n -> Holder \X Amounts] : n \in 1..MaxBatch}
NoHistory == [l \in Ledgers |-> NoSnapshot]

LedgerInit ==
    /\ balance = [h \in Holder |-> IF h = Creator THEN InitialSupply ELSE 0]
    /\ supply = InitialSupply /\ ledger = 0
    /\ balanceSnaps = [h \in Holder |->
                          IF h = Creator THEN [NoHistory EXCEPT ![0] = InitialSupply]
                                         ELSE NoHistory]
    /\ supplySnaps = [NoHistory EXCEPT ![0] = InitialSupply]

(* The newest snapshot of a history that is not later than l.              *)
At(history, l) ==
    LET taken == {k \in 0..l : history[k] # NoSnapshot}
    IN  IF taken = {} THEN 0 ELSE history[Max(taken)]

Record(holders) ==
    /\ balanceSnaps' = [h \in Holder |->
           IF h \in holders THEN [balanceSnaps[h] EXCEPT ![ledger] = balance'[h]]
                            ELSE balanceSnaps[h]]
    /\ supplySnaps' = [supplySnaps EXCEPT ![ledger] = supply']
    /\ UNCHANGED ledger

Unrecorded == UNCHANGED <<balanceSnaps, supplySnaps, ledger>>

Mint(h, n) ==
    /\ supply + n <= MaxSupply
    /\ supply' = supply + n /\ balance' = [balance EXCEPT ![h] = @ + n]
    /\ Record({h})

(* burn by the holder and admin_burn.                                      *)
Burn(h, n) ==
    /\ balance[h] >= n
    /\ supply' = supply - n /\ balance' = [balance EXCEPT ![h] = @ - n]
    /\ Record({h})

Clawback(h, n) ==
    /\ balance[h] >= n
    /\ supply' = supply - n /\ balance' = [balance EXCEPT ![h] = @ - n]
    /\ Unrecorded

-----------------------------------------------------------------------------
(* Batches: entries may name a holder more than once.                      *)

Recipients(batch) == {batch[i][1] : i \in DOMAIN batch}
Entries(batch, h) == {i \in DOMAIN batch : batch[i][1] = h}
Parts(batch) == [i \in DOMAIN batch |-> batch[i][2]]
Share(batch, h) == SumFunctionOnSet(Parts(batch), Entries(batch, h))
Total(batch) == SumFunction(Parts(batch))

(* Each entry is checked against the balance before the batch.             *)
BatchBurn(batch) ==
    /\ \A i \in DOMAIN batch : balance[batch[i][1]] >= batch[i][2]
    /\ supply >= Total(batch)
    /\ supply' = supply - Total(batch)
    /\ balance' = [h \in Holder |-> balance[h] - Share(batch, h)]
    /\ Unrecorded

(* Mutation: entries of one recipient are staged over each other.          *)
BatchSettleLast(batch) ==
    /\ supply + Total(batch) <= MaxSupply
    /\ supply' = supply + Total(batch)
    /\ balance' = [h \in Holder |->
           IF Entries(batch, h) = {} THEN balance[h]
                                     ELSE balance[h] + batch[Max(Entries(batch, h))][2]]
    /\ Record(Recipients(batch))

BatchSettle(batch) ==
    /\ supply + Total(batch) <= MaxSupply
    /\ supply' = supply + Total(batch)
    /\ balance' = [h \in Holder |-> balance[h] + Share(batch, h)]
    /\ Record(Recipients(batch))

CloseLedger ==
    /\ ledger < MaxLedger
    /\ ledger' = ledger + 1
    /\ UNCHANGED <<balance, supply, balanceSnaps, supplySnaps>>

TokenCall ==
    \/ \E h \in Holder, n \in Amounts : Mint(h, n) \/ Burn(h, n) \/ Clawback(h, n)
    \/ \E batch \in Batches : BatchBurn(batch) \/ BatchSettle(batch)
=============================================================================
