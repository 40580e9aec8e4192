------------------------ MODULE FactoryAccountingProofs ------------------------
(***************************************************************************)
(* The accounts of a token, for any finite number of holders, any amounts, *)
(* batches, rounds, rates and ledgers: what there is of it adds up, rounds *)
(* of dividends owe what they owed at their start and no more than they    *)
(* have, and a staking pool pays no more than its rate.                    *)
(***************************************************************************)
EXTENDS FactoryAccountingProps, SumTheorems

-----------------------------------------------------------------------------
(* Balances, stakes and supply.                                            *)

Snapshot == Int \cup {NoSnapshot}

LedgerTypes ==
    /\ balance \in [Holder -> Int] /\ supply \in Int
    /\ ledger \in Ledgers
    /\ balanceSnaps \in [Holder -> [Ledgers -> Snapshot]]
    /\ supplySnaps \in [Ledgers -> Snapshot]

StakingTypes ==
    /\ pool \in [rate : Nat, total : Int, acc : Int, last : Int]
    /\ stakes \in [Holder -> [amount : Nat, debt : Int]]
    /\ emitted \in Nat /\ rewarded \in Int
    /\ anchored \subseteq Holder \X Nat

ConservedInv == LedgerTypes /\ StakingTypes /\ Conserved

(* A batch changes the sum of all balances by its total, however often it  *)
(* names a holder.                                                         *)
LEMMA SharesAddUp ==
    ASSUME NEW batch \in Batches
    PROVE  /\ Total(batch) \in Nat
           /\ \A h \in Holder : Share(batch, h) \in Nat
           /\ SumFunctionOnSet([h \in Holder |-> Share(batch, h)], Holder) = Total(batch)
<1>1. PICK n \in 1..MaxBatch : batch \in [1..n -> Holder \X Amounts]
  BY DEF Batches
<1> DEFINE D == 1..n
           a == Parts(batch)
           key == [i \in D |-> batch[i][1]]
<1>2. IsFiniteSet(D) /\ IsFiniteSet(Holder)
  BY <1>1, FS_Interval, FactoryLedgerAssumption
<1>3. DOMAIN batch = D /\ DOMAIN a = D /\ \A i \in D : a[i] \in Nat /\ key[i] \in Holder
  BY <1>1, FactoryLedgerAssumption DEF Parts
<1>4. \A h \in Holder : /\ Entries(batch, h) = {i \in D : key[i] = h}
                        /\ Share(batch, h) = SumFunctionOnSet(a, {i \in D : key[i] = h})
  BY <1>3 DEF Entries, Share
<1>5. Total(batch) = SumFunctionOnSet(a, D)
  BY <1>3, SumOfFunction DEF Total
<1> HIDE DEF D, a, key
<1>6. SumFunctionOnSet(a, D) = SumFunctionOnSet(
         [h \in Holder |-> SumFunctionOnSet(a, {i \in D : key[i] = h})], Holder)
  BY <1>2, <1>3, SumByClass
<1>7. \A h \in Holder : Share(batch, h) \in Nat
  <2> TAKE h \in Holder
  <2> DEFINE E == {i \in D : key[i] = h}
  <2>1. IsFiniteSet(E) /\ \A i \in E : a[i] \in Nat
    BY <1>2, <1>3, FS_Subset
  <2>2. Share(batch, h) = SumFunctionOnSet(a, E)
    BY <1>4
  <2> HIDE DEF E
  <2>3. QED
    BY <2>1, <2>2, SumNat
<1>8. Total(batch) \in Nat
  BY <1>2, <1>3, <1>5, SumNat
<1>9. [h \in Holder |-> Share(batch, h)]
        = [h \in Holder |-> SumFunctionOnSet(a, {i \in D : key[i] = h})]
  BY <1>4
<1>10. QED
  BY <1>5, <1>6, <1>7, <1>8, <1>9

(* A call that changes one balance, and one that changes many.             *)
LEMMA OneBalance ==
    ASSUME LedgerTypes, NEW h \in Holder, NEW n \in Int,
           balance' = [balance EXCEPT ![h] = @ + n]
    PROVE  /\ balance' \in [Holder -> Int]
           /\ SumFunction(balance') = SumFunction(balance) + n
           /\ SumFunction(balance) \in Int
<1>1. IsFiniteSet(Holder) /\ balance \in [Holder -> Int] /\ balance[h] + n \in Int
  BY FactoryLedgerAssumption DEF LedgerTypes
<1>2. SumFunction(balance) \in Int
  BY <1>1, SumFunctionType
<1>3. balance' = [balance EXCEPT ![h] = balance[h] + n]
  BY <1>1
<1>4. balance' \in [Holder -> Int] /\ balance'[h] = balance[h] + n
  BY <1>1, <1>3
<1>5. /\ IsFiniteSet(Holder) /\ h \in Holder
      /\ balance \in [Holder -> Int] /\ balance' \in [Holder -> Int]
      /\ \A k \in Holder \ {h} : balance'[k] = balance[k]
  BY <1>1, <1>3
<1>6. SumFunction(balance') = SumFunction(balance) + balance'[h] - balance[h]
  BY ONLY <1>5, SumChange
<1>7. balance[h] \in Int
  BY <1>1
<1>8. QED
  BY <1>2, <1>4, <1>6, <1>7

LEMMA ManyBalances ==
    ASSUME LedgerTypes, NEW d \in [Holder -> Int],
           balance' = [h \in Holder |-> balance[h] + d[h]]
    PROVE  /\ balance' \in [Holder -> Int]
           /\ SumFunction(balance') = SumFunction(balance) + SumFunction(d)
           /\ SumFunction(balance) \in Int
<1>1. IsFiniteSet(Holder) /\ balance \in [Holder -> Int]
  BY FactoryLedgerAssumption DEF LedgerTypes
<1>2. QED
  BY <1>1, SumPlus, SumFunctionType

-----------------------------------------------------------------------------
(* The calls on the token.                                                 *)

LEMMA RecordTypes ==
    ASSUME LedgerTypes, NEW holders, Record(holders) \/ Unrecorded,
           balance' \in [Holder -> Int], supply' \in Int
    PROVE  LedgerTypes'
<1>1. CASE Unrecorded
  BY <1>1 DEF LedgerTypes, Unrecorded
<1>2. CASE Record(holders)
  <2>1. /\ ledger' = ledger /\ ledger \in Ledgers
        /\ \A h \in Holder : balance'[h] \in Snapshot /\ supply' \in Snapshot
    BY <1>2 DEF LedgerTypes, Record, Snapshot
  <2>2. balanceSnaps' \in [Holder -> [Ledgers -> Snapshot]]
    BY <1>2, <2>1 DEF LedgerTypes, Record
  <2>3. supplySnaps' \in [Ledgers -> Snapshot]
    <3>1. supplySnaps' = [supplySnaps EXCEPT ![ledger] = supply'] /\ supply' \in Snapshot
      BY <1>2 DEF Record, Snapshot
    <3>2. QED
      BY <3>1 DEF LedgerTypes
  <2>4. QED
    BY <2>1, <2>2, <2>3 DEF LedgerTypes
<1>3. QED
  BY <1>1, <1>2

LEMMA TokenConserves ==
    ASSUME ConservedInv, TokenCall, UNCHANGED stakingVars
    PROVE  ConservedInv'
<1> USE DEF ConservedInv
<1>1. /\ stakes' = stakes /\ pool' = pool /\ rewarded' = rewarded
      /\ StakingTypes' /\ Staked' = Staked
  BY DEF stakingVars, StakingTypes, Staked
<1>2. SUFFICES ASSUME NEW n \in Int, supply' = supply + n,
                      balance' \in [Holder -> Int],
                      SumFunction(balance') = SumFunction(balance) + n,
                      SumFunction(balance) \in Int,
                      \E holders : Record(holders) \/ Unrecorded
               PROVE  ConservedInv'
  <2>1. ASSUME NEW h \in Holder, NEW n \in Amounts, Mint(h, n)
        PROVE  ConservedInv'
    <3>1. n \in Int /\ supply' = supply + n /\ balance' = [balance EXCEPT ![h] = @ + n]
          /\ Record({h})
      BY <2>1, FactoryLedgerAssumption DEF Mint
    <3>2. QED
      BY <3>1, <1>2, OneBalance
  <2>2. ASSUME NEW h \in Holder, NEW n \in Amounts, Burn(h, n) \/ Clawback(h, n)
        PROVE  ConservedInv'
    <3>1. /\ -n \in Int /\ supply' = supply + (-n)
          /\ balance' = [balance EXCEPT ![h] = balance[h] - n]
          /\ Record({h}) \/ Unrecorded
      BY <2>2, FactoryLedgerAssumption DEF Burn, Clawback, LedgerTypes
    <3>2. balance' = [balance EXCEPT ![h] = @ + (-n)]
      BY <3>1 DEF LedgerTypes
    <3>3. QED
      BY <3>1, <3>2, <1>2, OneBalance
  <2>3. ASSUME NEW batch \in Batches, BatchBurn(batch) \/ BatchSettle(batch)
        PROVE  ConservedInv'
    <3> DEFINE share == [h \in Holder |-> Share(batch, h)]
               minus == [h \in Holder |-> (-1) * share[h]]
    <3>1. /\ Total(batch) \in Nat /\ share \in [Holder -> Int] /\ minus \in [Holder -> Int]
          /\ SumFunction(share) = Total(batch)
      <4>1. DOMAIN share = Holder
        OBVIOUS
      <4>2. SumFunction(share) = Total(batch)
        BY <4>1, SharesAddUp, SumOfFunction
      <4>3. QED
        BY <4>2, SharesAddUp
    <3>2. SumFunction(minus) = (-1) * Total(batch)
      <4> HIDE DEF share
      <4>1. QED
        BY <3>1, SumTimes, FactoryLedgerAssumption
    <3>3. CASE BatchSettle(batch)
      <4>1. /\ balance' = [h \in Holder |-> balance[h] + share[h]]
            /\ supply' = supply + Total(batch) /\ Record(Recipients(batch))
        BY <3>3 DEF BatchSettle
      <4> HIDE DEF share
      <4>2. QED
        BY <3>1, <4>1, <1>2, ManyBalances
    <3>4. CASE BatchBurn(batch)
      <4>1. balance' = [h \in Holder |-> balance[h] - share[h]] /\ Unrecorded
        BY <3>4 DEF BatchBurn
      <4>2. supply' = supply + (-1) * Total(batch) /\ (-1) * Total(batch) \in Int
        BY <3>1, <3>4 DEF BatchBurn, LedgerTypes
      <4> HIDE DEF share
      <4>3. balance' = [h \in Holder |-> balance[h] + minus[h]]
        BY <3>1, <4>1 DEF LedgerTypes
      <4> HIDE DEF minus
      <4>4. QED
        BY <3>1, <3>2, <4>1, <4>2, <4>3, <1>2, ManyBalances
    <3>5. QED
      BY <2>3, <3>3, <3>4
  <2>4. QED
    BY <2>1, <2>2, <2>3 DEF TokenCall
<1>3. LedgerTypes'
  <2>1. supply' \in Int /\ balance' \in [Holder -> Int]
    BY <1>2 DEF LedgerTypes
  <2>2. QED
    BY <1>2, <2>1, RecordTypes
<1>4. Conserved'
  <2>1. /\ SumFunction(balance) + pool.total = supply + rewarded
        /\ pool.total = SumFunction(Staked)
        /\ pool.total \in Int /\ supply \in Int /\ rewarded \in Int
    BY DEF Conserved, LedgerTypes, StakingTypes
  <2>2. /\ SumFunction(balance') + pool'.total = supply' + rewarded'
        /\ pool'.total = SumFunction(Staked')
    BY <2>1, <1>1, <1>2
  <2>3. QED
    BY <2>2 DEF Conserved
<1>5. QED
  BY <1>1, <1>3, <1>4

-----------------------------------------------------------------------------
(* The calls on the pool.                                                  *)

LEMMA TotalIsNat ==
    ASSUME StakingTypes, pool.total = SumFunction(Staked)
    PROVE  pool.total \in Nat
<1>1. /\ IsFiniteSet(Holder) /\ DOMAIN Staked = Holder
      /\ \A h \in Holder : Staked[h] \in Nat
  BY FactoryLedgerAssumption DEF Staked, StakingTypes
<1>2. QED
  BY <1>1, SumNat, SumOfFunction

LEMMA RolledType ==
    ASSUME StakingTypes, LedgerTypes, pool.total = SumFunction(Staked)
    PROVE  /\ Rolled \in [rate : Nat, total : Int, acc : Int, last : Int]
           /\ Rolled.total = pool.total /\ Rolled.rate = pool.rate /\ Rolled.last = ledger
<1>1. pool.total \in Nat /\ (pool.total # 0 => pool.total > 0)
  BY TotalIsNat
<1>2. /\ pool \in [rate : Nat, total : Int, acc : Int, last : Int]
      /\ ledger \in Int /\ Precision \in Int /\ Precision > 0
  BY FactoryStakingAssumption DEF StakingTypes, LedgerTypes, Ledgers
<1>3. ((ledger - pool.last) * pool.rate * Precision) \in Int
  BY <1>2
<1>4. pool.total # 0 => ((ledger - pool.last) * pool.rate * Precision) \div pool.total \in Int
  BY <1>1, <1>3
<1>5. CASE pool.total = 0
  BY <1>1, <1>2, <1>5 DEF Rolled
<1>6. CASE pool.total # 0
  <2> DEFINE a == pool.acc + ((ledger - pool.last) * pool.rate * Precision) \div pool.total
  <2>1. a \in Int
    BY <1>2, <1>4, <1>6
  <2>2. Rolled = [pool EXCEPT !.last = ledger, !.acc = a]
    BY <1>6 DEF Rolled
  <2> HIDE DEF a
  <2>3. QED
    BY <1>2, <2>1, <2>2
<1>7. QED
  BY <1>5, <1>6

LEMMA StakingConserves ==
    ASSUME ConservedInv, StakingCall
    PROVE  ConservedInv'
<1> USE DEF ConservedInv
<1>1. ASSUME NEW rate \in Rates, CreatePool(rate), UNCHANGED <<balance, supply>>, Unrecorded
      PROVE  ConservedInv'
  <2>1. LedgerTypes'
    BY <1>1 DEF LedgerTypes, Unrecorded
  <2>2. StakingTypes' /\ pool'.total = pool.total /\ rewarded' = rewarded /\ Staked' = Staked
    <3>1. /\ pool' = [rate |-> rate, total |-> 0, acc |-> 0, last |-> ledger]
          /\ pool.total = 0
      BY <1>1 DEF CreatePool, NoPool
    <3>2. ledger \in Int /\ rate \in Nat
      BY FactoryStakingAssumption DEF LedgerTypes, Ledgers
    <3>3. QED
      BY <1>1, <3>1, <3>2 DEF StakingTypes, CreatePool, Staked
  <2>3. Conserved'
    BY <1>1, <2>2 DEF Conserved
  <2>4. QED
    BY <2>1, <2>2, <2>3
<1>2. ASSUME NEW h \in Holder, NEW amount \in Nat, NEW delta \in Int,
             amount - stakes[h].amount = -delta, Settle(h, amount, delta)
      PROVE  ConservedInv'
  <2> DEFINE pending == Accrued(h, Rolled.acc)
  <2>1. /\ stakes[h] \in [amount : Nat, debt : Int] /\ Rolled.acc \in Int
        /\ Precision \in Nat \ {0}
    BY RolledType, FactoryStakingAssumption DEF StakingTypes, Conserved
  <2>2. pending \in Int /\ Granted(amount, Rolled.acc) \in Int
    BY <2>1 DEF Accrued, Granted
  <2>3. /\ pool' = [Rolled EXCEPT !.total = @ + amount - stakes[h].amount]
        /\ stakes' = [stakes EXCEPT ![h] = [amount |-> amount,
                                            debt |-> Granted(amount, Rolled.acc)]]
        /\ balance' = [balance EXCEPT ![h] = @ + delta + pending]
        /\ rewarded' = rewarded + pending /\ emitted' = emitted
        /\ anchored' \in {anchored, anchored \cup {<<h, ledger>>}}
        /\ supply' = supply /\ Unrecorded
    BY <1>2 DEF Settle
  <2> HIDE DEF pending
  <2>4. delta + pending \in Int /\ balance' = [balance EXCEPT ![h] = @ + (delta + pending)]
    <3>1. balance[h] \in Int /\ delta + pending \in Int
      BY <2>2 DEF LedgerTypes
    <3>2. balance[h] + delta + pending = balance[h] + (delta + pending)
      BY <2>2, <3>1
    <3>3. QED
      BY <2>3, <3>1, <3>2
  <2>5. /\ balance' \in [Holder -> Int] /\ SumFunction(balance) \in Int
        /\ SumFunction(balance') = SumFunction(balance) + (delta + pending)
    BY <2>4, OneBalance
  <2>6. StakingTypes'
    <3>1. pool' \in [rate : Nat, total : Int, acc : Int, last : Int]
      BY <2>1, <2>3, RolledType DEF StakingTypes, Conserved
    <3>2. anchored' \subseteq Holder \X Nat
      BY <2>3 DEF StakingTypes, LedgerTypes, Ledgers
    <3>3. stakes' \in [Holder -> [amount : Nat, debt : Int]]
      BY <2>2, <2>3 DEF StakingTypes
    <3>4. emitted' \in Nat /\ rewarded' \in Int
      BY <2>2, <2>3 DEF StakingTypes
    <3>5. QED
      BY <3>1, <3>2, <3>3, <3>4 DEF StakingTypes
  <2>7. LedgerTypes'
    BY <2>3, <2>5 DEF LedgerTypes, Unrecorded
  <2>8. pool'.total = pool.total + amount - stakes[h].amount
    BY <2>3, RolledType DEF Conserved
  <2>9. SumFunction(Staked') = SumFunction(Staked) + amount - stakes[h].amount
    <3>1. Staked \in [Holder -> Int] /\ Staked[h] = stakes[h].amount
      BY DEF Staked, StakingTypes
    <3>2. Staked' = [Staked EXCEPT ![h] = amount]
      <4>1. \A k \in Holder : stakes'[k].amount = IF k = h THEN amount ELSE stakes[k].amount
        BY <2>3 DEF StakingTypes
      <4>2. QED
        BY <4>1 DEF Staked
    <3>3. /\ IsFiniteSet(Holder) /\ h \in Holder
          /\ Staked' \in [Holder -> Int] /\ Staked'[h] = amount
          /\ \A k \in Holder \ {h} : Staked'[k] = Staked[k]
      BY <3>1, <3>2, FactoryLedgerAssumption
    <3>4. SumFunction(Staked') = SumFunction(Staked) + Staked'[h] - Staked[h]
      BY ONLY <3>1, <3>3, SumChange
    <3>5. QED
      BY <3>1, <3>3, <3>4
  <2>10. Conserved'
    <3>1. /\ SumFunction(balance) + pool.total = supply + rewarded
          /\ pool.total = SumFunction(Staked)
          /\ pool.total \in Int /\ supply \in Int /\ rewarded \in Int
      BY DEF Conserved, StakingTypes, LedgerTypes
    <3>2. /\ SumFunction(balance') + pool'.total = supply' + rewarded'
          /\ pool'.total = SumFunction(Staked')
      BY <3>1, <2>1, <2>2, <2>3, <2>5, <2>8, <2>9, <1>2
    <3>3. QED
      BY <3>2 DEF Conserved
  <2>11. QED
    BY <2>6, <2>7, <2>10
<1>3. ASSUME NEW h \in Holder, ClaimRewards(h) \/ \E n \in Stakes : Stake(h, n) \/ Unstake(h, n)
      PROVE  ConservedInv'
  <2>0. stakes[h].amount \in Nat /\ Stakes \subseteq Nat
    BY FactoryStakingAssumption DEF StakingTypes
  <2>1. CASE ClaimRewards(h)
    BY <2>0, <2>1, <1>2 DEF ClaimRewards
  <2>2. ASSUME NEW n \in Stakes, Stake(h, n) PROVE ConservedInv'
    BY <2>0, <2>2, <1>2 DEF Stake
  <2>3. ASSUME NEW n \in Stakes, Unstake(h, n) PROVE ConservedInv'
    BY <2>0, <2>3, <1>2 DEF Unstake
  <2>4. QED
    BY <1>3, <2>1, <2>2, <2>3
<1>4. QED
  BY <1>1, <1>3 DEF StakingCall

-----------------------------------------------------------------------------
LEMMA InitConserved == AccountingInit => ConservedInv
<1> SUFFICES ASSUME AccountingInit PROVE ConservedInv
  OBVIOUS
<1> USE DEF AccountingInit
<1> DEFINE zero == [h \in Holder |-> 0]
<1>1. /\ balance = [h \in Holder |-> IF h = Creator THEN InitialSupply ELSE 0]
      /\ supply = InitialSupply /\ ledger = 0 /\ InitialSupply \in Nat
      /\ Creator \in Holder /\ IsFiniteSet(Holder)
  BY FactoryLedgerAssumption DEF LedgerInit
<1>2. LedgerTypes
  <2>1. ledger \in Ledgers /\ balance \in [Holder -> Int] /\ supply \in Int
    BY <1>1, FactoryLedgerAssumption DEF Ledgers
  <2>2. /\ NoHistory \in [Ledgers -> Snapshot]
        /\ [NoHistory EXCEPT ![0] = InitialSupply] \in [Ledgers -> Snapshot]
    <3>1. NoSnapshot \in Snapshot /\ InitialSupply \in Snapshot
      BY <1>1 DEF Snapshot
    <3>2. NoHistory \in [Ledgers -> Snapshot]
      BY <3>1 DEF NoHistory
    <3>3. QED
      BY <3>1, <3>2
  <2>3. QED
    BY <2>1, <2>2 DEF LedgerInit, LedgerTypes
<1>3. /\ pool = [rate |-> 0, total |-> 0, acc |-> 0, last |-> -1]
      /\ stakes = [h \in Holder |-> [amount |-> 0, debt |-> 0]]
      /\ emitted = 0 /\ rewarded = 0 /\ anchored = {}
  BY DEF StakingInit, NoPool, NoStake
<1>4. StakingTypes
  BY <1>3 DEF StakingTypes
<1>5. Staked = zero
  BY <1>3 DEF Staked
<1>6. SumFunction(zero) = 0
  BY <1>1, SumOfZeros
<1>7. SumFunction(balance) = InitialSupply
  <2>1. /\ IsFiniteSet(Holder) /\ Creator \in Holder
        /\ zero \in [Holder -> Int] /\ balance \in [Holder -> Int]
        /\ \A h \in Holder \ {Creator} : balance[h] = zero[h]
    BY <1>1
  <2>2. balance[Creator] = InitialSupply /\ zero[Creator] = 0
    BY <1>1
  <2> HIDE DEF zero
  <2>3. SumFunction(balance) = SumFunction(zero) + balance[Creator] - zero[Creator]
    BY ONLY <2>1, SumChange
  <2>4. QED
    BY <1>1, <1>6, <2>2, <2>3
<1>8. Conserved
  BY <1>1, <1>3, <1>5, <1>6, <1>7 DEF Conserved
<1>9. QED
  BY <1>2, <1>4, <1>8 DEF ConservedInv

LEMMA NextConserves == ConservedInv /\ [AccountingNext]_accountingVars => ConservedInv'
<1> SUFFICES ASSUME ConservedInv, [AccountingNext]_accountingVars PROVE ConservedInv'
  OBVIOUS
<1>1. CASE TokenCall /\ UNCHANGED stakingVars
  BY <1>1, TokenConserves
<1>2. CASE UNCHANGED <<ledgerVars, stakingVars>>
  BY <1>2 DEF ConservedInv, LedgerTypes, StakingTypes, Conserved, Staked, ledgerVars, stakingVars
<1>3. CASE StakingCall
  BY <1>3, StakingConserves
<1>4. CASE CloseLedger /\ PassTime
  <2>1. /\ ledger' = ledger + 1 /\ ledger' \in Ledgers
        /\ UNCHANGED <<balance, supply, balanceSnaps, supplySnaps>>
    BY <1>4, FactoryLedgerAssumption DEF CloseLedger, ConservedInv, LedgerTypes, Ledgers
  <2>2. emitted' \in Nat /\ UNCHANGED <<pool, stakes, rewarded, anchored>>
    BY <1>4 DEF PassTime, ConservedInv, StakingTypes
  <2>3. QED
    BY <2>1, <2>2 DEF ConservedInv, LedgerTypes, StakingTypes, Conserved, Staked
<1>5. QED
  BY <1>1, <1>2, <1>3, <1>4 DEF AccountingNext, accountingVars

(* Balances and stakes together are the supply and the rewards that were   *)
(* paid, and the total of the pool is the sum of its positions, for any    *)
(* batches (burn.rs:259-270, batch_operations.rs:263-310,                  *)
(* staking.rs:154-250).                                                    *)
THEOREM AccountsConserved == AccountingSpec => []Conserved
<1>1. ConservedInv => Conserved
  BY DEF ConservedInv
<1>2. QED
  BY <1>1, InitConserved, NextConserves, PTL DEF AccountingSpec

-----------------------------------------------------------------------------
(* Snapshots of the past.                                                  *)

(* What a ledger had recorded is what the snapshots up to it say.          *)
LEMMA AtSame ==
    ASSUME NEW l \in Ledgers, NEW s \in [Ledgers -> Snapshot], NEW t \in [Ledgers -> Snapshot],
           \A k \in 0..l : t[k] = s[k]
    PROVE  At(t, l) = At(s, l) /\ At(s, l) \in Int
<1> DEFINE taken == {k \in 0..l : s[k] # NoSnapshot}
<1>1. taken = {k \in 0..l : t[k] # NoSnapshot}
  OBVIOUS
<1>2. l \in Int /\ 0..l \subseteq Ledgers /\ taken \subseteq 0..l
  BY FactoryLedgerAssumption DEF Ledgers
<1>3. ASSUME taken # {}
      PROVE  s[Max(taken)] = t[Max(taken)] /\ s[Max(taken)] \in Int
  <2>1. IsFiniteSet(taken) /\ taken \subseteq Int
    <3>1. IsFiniteSet(0..l) /\ taken \in SUBSET (0..l)
      BY <1>2, FS_Interval
    <3> HIDE DEF taken
    <3>2. IsFiniteSet(taken)
      BY ONLY <3>1, FS_Subset
    <3>3. QED
      BY <3>1, <3>2
  <2> HIDE DEF taken
  <2>2. Max(taken) \in taken
    BY <1>3, <2>1, MaxIn
  <2>3. QED
    BY <1>2, <2>2 DEF Snapshot, taken
<1>4. QED
  BY <1>1, <1>3 DEF At

RoundRecord == [amount : Nat \ {0}, ledger : Ledgers, supply : Nat \ {0},
                deadline : Nat, reclaimed : BOOLEAN]

RoundTypes ==
    /\ rounds \in Seq(RoundRecord)
    /\ claimedTotal \in Seq(Int) /\ Len(claimedTotal) = Len(rounds)
    /\ claimed \subseteq Round \X Holder /\ trusted \subseteq Round
    /\ \A r \in Round : rounds[r].ledger <= ledger

RoundsInv == LedgerTypes /\ RoundTypes

(* A call, or the end of a ledger, leaves the snapshots of the past alone. *)
LEMMA PastFixed ==
    ASSUME LedgerTypes, LedgerTypes', ledger <= ledger',
           UNCHANGED <<balanceSnaps, supplySnaps>> \/ \E holders : Record(holders),
           NEW l \in Ledgers, l < ledger \/ UNCHANGED <<balanceSnaps, supplySnaps>>
    PROVE  \A h \in Holder : /\ At(balanceSnaps'[h], l) = At(balanceSnaps[h], l)
                             /\ At(balanceSnaps[h], l) \in Int
<1> TAKE h \in Holder
<1>1. /\ balanceSnaps[h] \in [Ledgers -> Snapshot] /\ balanceSnaps'[h] \in [Ledgers -> Snapshot]
      /\ ledger \in Ledgers
  BY DEF LedgerTypes
<1>2. \A k \in 0..l : balanceSnaps'[h][k] = balanceSnaps[h][k]
  <2>1. CASE UNCHANGED <<balanceSnaps, supplySnaps>>
    BY <2>1
  <2>2. CASE l < ledger /\ \E holders : Record(holders)
    <3>1. \A k \in 0..l : k # ledger /\ k \in Ledgers
      BY <2>2, FactoryLedgerAssumption DEF LedgerTypes, Ledgers
    <3>2. QED
      BY <2>2, <3>1, <1>1 DEF Record
  <2>3. QED
    BY <2>1, <2>2
<1>3. QED
  BY ONLY <1>1, <1>2, l \in Ledgers, AtSame

-----------------------------------------------------------------------------
(* The rounds of dividends.                                                *)

LEMMA TokenRecords ==
    ASSUME TokenCall \/ StakingCall
    PROVE  /\ ledger' = ledger
           /\ Unrecorded \/ \E holders : Record(holders)
  BY DEF TokenCall, StakingCall, Mint, Burn, Clawback, BatchBurn, BatchSettle, Stake, Unstake,
         ClaimRewards, Settle, Record, Unrecorded

LEMMA AtType ==
    ASSUME NEW l \in Ledgers, NEW s \in [Ledgers -> Snapshot]
    PROVE  At(s, l) \in Int
  BY AtSame

LEMMA RoundFields ==
    ASSUME RoundsInv, NEW r \in Round
    PROVE  /\ rounds[r] \in RoundRecord
           /\ rounds[r].amount \in Nat \ {0} /\ rounds[r].supply \in Nat \ {0}
           /\ rounds[r].ledger \in Ledgers /\ rounds[r].ledger \in Int
<1>1. rounds[r] \in RoundRecord
  BY DEF RoundsInv, RoundTypes, Round
<1>2. QED
  BY <1>1 DEF RoundRecord, Ledgers

(* A round is written once, and but for its remainder never again.         *)
RoundsKept ==
    \A r \in Round : /\ r \in DOMAIN rounds'
                     /\ rounds'[r].amount = rounds[r].amount
                     /\ rounds'[r].ledger = rounds[r].ledger
                     /\ rounds'[r].supply = rounds[r].supply

LEMMA DividendTypes ==
    ASSUME RoundsInv, DividendCall, UNCHANGED ledgerVars
    PROVE  RoundTypes' /\ RoundsKept
<1>0. ledger' = ledger /\ ledger \in Ledgers /\ ledger \in Nat
  BY DEF ledgerVars, RoundsInv, LedgerTypes, Ledgers
<1>1. ASSUME NEW n \in Pools, NEW w \in Windows, Initiate(n, w)
      PROVE  RoundTypes' /\ RoundsKept
  <2> DEFINE new == [amount |-> n, ledger |-> ledger, supply |-> At(supplySnaps, ledger),
                     deadline |-> ledger + w, reclaimed |-> FALSE]
  <2>1. At(supplySnaps, ledger) \in Nat \ {0}
    <3>1. At(supplySnaps, ledger) \in Int
      BY <1>0, AtType DEF RoundsInv, LedgerTypes
    <3>2. QED
      BY <1>1, <3>1 DEF Initiate
  <2>2. new \in RoundRecord /\ new.ledger = ledger
    BY <1>0, <2>1, FactoryDividendsAssumption DEF RoundRecord
  <2>3. /\ rounds' = Append(rounds, new) /\ claimedTotal' = Append(claimedTotal, 0)
        /\ claimed' = claimed /\ trusted' \subseteq trusted \cup {Len(rounds) + 1}
    BY <1>1 DEF Initiate
  <2> HIDE DEF new
  <2>4. /\ rounds' \in Seq(RoundRecord) /\ Len(rounds') = Len(rounds) + 1
        /\ claimedTotal' \in Seq(Int) /\ Len(claimedTotal') = Len(claimedTotal) + 1
        /\ \A r \in Round : rounds'[r] = rounds[r]
        /\ rounds'[Len(rounds) + 1] = new
        /\ DOMAIN rounds' = Round \cup {Len(rounds) + 1}
    BY <2>2, <2>3 DEF RoundsInv, RoundTypes, Round
  <2>5. QED
    BY <1>0, <2>2, <2>3, <2>4 DEF RoundsInv, RoundTypes, Round, RoundsKept
<1>2. ASSUME NEW r \in Round, Reclaim(r)
      PROVE  RoundTypes' /\ RoundsKept
  <2>1. /\ rounds' = [rounds EXCEPT ![r].reclaimed = TRUE]
        /\ UNCHANGED <<claimed, claimedTotal, trusted>>
    BY <1>2 DEF Reclaim
  <2>2. /\ DOMAIN rounds' = Round /\ Len(rounds') = Len(rounds)
        /\ rounds' \in Seq(RoundRecord)
        /\ \A q \in Round : /\ rounds'[q].amount = rounds[q].amount
                            /\ rounds'[q].ledger = rounds[q].ledger
                            /\ rounds'[q].supply = rounds[q].supply
    <3>1. [rounds[r] EXCEPT !.reclaimed = TRUE] \in RoundRecord
      BY RoundFields DEF RoundRecord
    <3>2. rounds' = [rounds EXCEPT ![r] = [rounds[r] EXCEPT !.reclaimed = TRUE]]
      BY <2>1
    <3>3. /\ DOMAIN rounds' = Round /\ Len(rounds') = Len(rounds)
          /\ rounds' \in Seq(RoundRecord)
      BY <3>1, <3>2 DEF RoundsInv, RoundTypes, Round
    <3>4. \A q \in Round : rounds[q] \in RoundRecord
      BY DEF RoundsInv, RoundTypes, Round
    <3>5. QED
      BY <3>2, <3>3, <3>4 DEF RoundRecord, Round
  <2>3. QED
    BY <1>0, <2>1, <2>2 DEF RoundsInv, RoundTypes, Round, RoundsKept
<1>3. ASSUME NEW r \in Round, NEW h \in Holder, Claim(r, h)
      PROVE  RoundTypes' /\ RoundsKept
  <2>1. /\ claimed' = claimed \cup {<<r, h>>}
        /\ claimedTotal' = [claimedTotal EXCEPT ![r] = @ + Due(r, h)]
        /\ rounds' = rounds /\ trusted' = trusted
    BY <1>3 DEF Claim
  <2>2. Due(r, h) \in Int
    <3>1. rounds[r] \in RoundRecord
      BY DEF RoundsInv, RoundTypes, Round
    <3>2. At(balanceSnaps[h], rounds[r].ledger) \in Int
      BY <3>1, AtType DEF RoundsInv, LedgerTypes, RoundRecord
    <3>3. QED
      BY <3>1, <3>2 DEF Due, RoundRecord
  <2>3. claimedTotal' \in Seq(Int) /\ Len(claimedTotal') = Len(claimedTotal)
    BY <2>1, <2>2 DEF RoundsInv, RoundTypes, Round
  <2>4. QED
    BY <1>0, <2>1, <2>3 DEF RoundsInv, RoundTypes, Round, RoundsKept
<1>4. QED
  BY <1>1, <1>2, <1>3 DEF DividendCall

LEMMA NextRounds ==
    ASSUME RoundsInv, ConservedInv, [AccountingNext]_accountingVars
    PROVE  /\ RoundsInv' /\ RoundsKept /\ ledger <= ledger'
           /\ UNCHANGED <<balanceSnaps, supplySnaps>> \/ \E holders : Record(holders)
<1>1. LedgerTypes'
  BY NextConserves DEF ConservedInv
<1>2. ledger \in Int
  BY DEF RoundsInv, LedgerTypes, Ledgers
<1>3. CASE TokenCall /\ Disturb
  <2>1. /\ ledger' = ledger /\ UNCHANGED <<rounds, claimed, claimedTotal>>
        /\ trusted' \subseteq trusted
    BY <1>3, TokenRecords DEF Disturb
  <2>2. QED
    BY <1>1, <1>2, <1>3, <2>1, TokenRecords
    DEF RoundsInv, RoundTypes, Round, RoundsKept, Unrecorded
<1>4. CASE UNCHANGED ledgerVars /\ (DividendCall \/ UNCHANGED dividendVars)
  <2>1. /\ ledger' = ledger
        /\ UNCHANGED <<balanceSnaps, supplySnaps>>
    BY <1>4 DEF ledgerVars
  <2>2. RoundTypes' /\ RoundsKept
    <3>1. CASE DividendCall
      BY <1>4, <3>1, DividendTypes
    <3>2. CASE UNCHANGED dividendVars
      BY <3>2, <2>1 DEF dividendVars, RoundsInv, RoundTypes, Round, RoundsKept
    <3>3. QED
      BY <1>4, <3>1, <3>2
  <2>3. QED
    BY <1>1, <1>2, <2>1, <2>2 DEF RoundsInv
<1>5. CASE StakingCall /\ UNCHANGED dividendVars
  <2>1. ledger' = ledger
    BY <1>5, TokenRecords
  <2>2. RoundTypes' /\ RoundsKept
    BY <1>5, <2>1 DEF dividendVars, RoundsInv, RoundTypes, Round, RoundsKept
  <2>3. QED
    BY <1>1, <1>2, <1>5, <2>1, <2>2, TokenRecords DEF RoundsInv, Unrecorded
<1>6. CASE CloseLedger /\ UNCHANGED dividendVars
  <2>1. ledger' = ledger + 1 /\ UNCHANGED <<balanceSnaps, supplySnaps>>
    BY <1>6 DEF CloseLedger
  <2>2. \A r \in Round : rounds[r].ledger \in Int
    BY RoundFields
  <2>3. RoundTypes' /\ RoundsKept
    BY <1>2, <1>6, <2>1, <2>2 DEF dividendVars, RoundsInv, RoundTypes, Round, RoundsKept
  <2>4. QED
    BY <1>1, <1>2, <2>1, <2>3 DEF RoundsInv
<1>7. QED
  BY <1>3, <1>4, <1>5, <1>6 DEF AccountingNext, accountingVars

LEMMA DueKept ==
    ASSUME RoundsInv, RoundsInv', RoundsKept, ledger <= ledger',
           UNCHANGED <<balanceSnaps, supplySnaps>> \/ \E holders : Record(holders),
           NEW r \in Round, NEW h \in Holder,
           rounds[r].ledger < ledger \/ UNCHANGED <<balanceSnaps, supplySnaps>>
    PROVE  Due(r, h)' = Due(r, h)
<1>1. rounds[r].ledger \in Ledgers
  BY RoundFields
<1>2. At(balanceSnaps'[h], rounds[r].ledger) = At(balanceSnaps[h], rounds[r].ledger)
  BY <1>1, PastFixed DEF RoundsInv
<1>3. /\ rounds'[r].amount = rounds[r].amount
      /\ rounds'[r].ledger = rounds[r].ledger
      /\ rounds'[r].supply = rounds[r].supply
  BY DEF RoundsKept
<1>4. QED
  BY <1>2, <1>3 DEF Due

LEMMA InitRounds == AccountingInit => RoundsInv
  BY InitConserved DEF AccountingInit, DividendInit, RoundsInv, RoundTypes, Round, ConservedInv

(* Once the ledger of its start is over, nothing changes what a round owes *)
(* to each holder, for any number of rounds, holders and ledgers           *)
(* (dividend_distribution.rs:149-161, snapshot.rs:87-117).                 *)
THEOREM EntitlementsStand == AccountingSpec => EntitlementFixed
<1> DEFINE Fixed == \A r \in Round, h \in Holder :
                       rounds[r].ledger < ledger => Due(r, h)' = Due(r, h)
<1>1. ConservedInv /\ RoundsInv /\ [AccountingNext]_accountingVars
         => RoundsInv' /\ [Fixed]_accountingVars
  <2>1. SUFFICES ASSUME ConservedInv, RoundsInv, [AccountingNext]_accountingVars
                 PROVE  RoundsInv' /\ Fixed
    OBVIOUS
  <2>2. QED
    BY <2>1, NextRounds, DueKept
<1>2. QED
  BY <1>1, InitConserved, NextConserves, InitRounds, PTL DEF AccountingSpec, EntitlementFixed

-----------------------------------------------------------------------------
(* What a round pays.                                                      *)

LEMMA Floor ==
    \A x \in Nat, s \in Nat \ {0} : x \div s \in Nat /\ s * (x \div s) <= x
  OBVIOUS

LEMMA Cancel ==
    ASSUME NEW s \in Nat \ {0}, NEW d \in Int, NEW a \in Int, s * d <= a * s
    PROVE  d <= a
  OBVIOUS

LEMMA Greater ==
    ASSUME NEW a \in Nat, NEW x \in Int, NEW y \in Int, x <= y
    PROVE  a * x <= a * y
  OBVIOUS

(* Rounded shares of an amount come to no more than it, if their weights   *)
(* come to no more than the whole.                                         *)
LEMMA Apportioned ==
    ASSUME NEW S, IsFiniteSet(S), NEW due, NEW weight, NEW whole \in Nat \ {0}, NEW a \in Nat,
           \A h \in S : due[h] \in Int /\ weight[h] \in Int /\ whole * due[h] <= a * weight[h],
           SumFunctionOnSet(weight, S) <= whole
    PROVE  SumFunctionOnSet(due, S) <= a
<1> DEFINE f == [h \in S |-> whole * due[h]]
           g == [h \in S |-> a * weight[h]]
<1>1. \A h \in S : /\ due[h] \in Int /\ f[h] = whole * due[h] /\ f[h] \in Int
                   /\ weight[h] \in Int /\ g[h] = a * weight[h] /\ g[h] \in Int
                   /\ f[h] <= g[h]
  OBVIOUS
<1> HIDE DEF f, g
<1>2. SumFunctionOnSet(f, S) = whole * SumFunctionOnSet(due, S)
  BY <1>1, SumScaled
<1>3. SumFunctionOnSet(g, S) = a * SumFunctionOnSet(weight, S)
  BY <1>1, SumScaled
<1>4. SumFunctionOnSet(f, S) <= SumFunctionOnSet(g, S)
  BY <1>1, SumAtMost
<1>5. SumFunctionOnSet(due, S) \in Int /\ SumFunctionOnSet(weight, S) \in Int
  BY <1>1, SumType
<1>6. a * SumFunctionOnSet(weight, S) <= a * whole
  BY <1>5, Greater
<1>7. whole * SumFunctionOnSet(due, S) <= a * whole
  BY <1>2, <1>3, <1>4, <1>5, <1>6
<1>8. QED
  BY <1>5, <1>7, Cancel

LEMMA DueType ==
    ASSUME RoundsInv, NEW r \in Round, NEW h \in Holder
    PROVE  Due(r, h) \in Nat
<1>1. At(balanceSnaps[h], rounds[r].ledger) \in Int
  BY RoundFields, AtType DEF RoundsInv, LedgerTypes
<1>2. QED
  BY <1>1, RoundFields, Floor DEF Due

LEMMA StillDueType ==
    ASSUME RoundsInv, NEW r \in Round
    PROVE  StillDue(r) \in Nat
<1> DEFINE open == {h \in Holder : <<r, h>> \notin claimed}
<1>1. IsFiniteSet(open) /\ \A h \in open : Dues(r)[h] \in Nat
  BY FactoryLedgerAssumption, FS_Subset, DueType DEF Dues
<1> HIDE DEF open
<1>2. SumFunctionOnSet(Dues(r), open) \in Nat
  BY <1>1, SumNat
<1>3. QED
  BY <1>2 DEF StillDue, open

LEMMA RoundFits ==
    ASSUME RoundsInv, RoundsInv', NEW r \in Round', r \notin Round,
           NEW n \in Nat \ {0}, Whole(ledger),
           At(supplySnaps, ledger) \in Nat \ {0},
           rounds'[r].amount = n, rounds'[r].ledger = ledger,
           rounds'[r].supply = At(supplySnaps, ledger),
           UNCHANGED <<balanceSnaps, claimed>>
    PROVE  StillDue(r)' <= n /\ StillDue(r)' \in Int
<1> DEFINE due == Dues(r)'
           weight == Recorded(ledger)
           whole == At(supplySnaps, ledger)
<1>1. \A h \in Holder : <<r, h>> \notin claimed'
  BY DEF RoundsInv, RoundTypes
<1>2. {h \in Holder : <<r, h>> \notin claimed'} = Holder
  BY <1>1
<1>3. StillDue(r)' = SumFunctionOnSet(due, Holder)
  BY <1>2 DEF StillDue
<1>4. ASSUME NEW h \in Holder
      PROVE  due[h] \in Int /\ weight[h] \in Int /\ whole * due[h] <= n * weight[h]
  <2> DEFINE held == At(balanceSnaps[h], ledger)
  <2>1. held \in Int
    BY AtType DEF RoundsInv, LedgerTypes
  <2>2. due[h] = IF held <= 0 THEN 0 ELSE (held * n) \div whole
    BY DEF Dues, Due
  <2>3. weight[h] = IF held > 0 THEN held ELSE 0
    BY DEF Recorded, Positive
  <2> HIDE DEF held, due, weight, whole
  <2>4. CASE held <= 0
    BY <2>1, <2>2, <2>3, <2>4 DEF whole
  <2>5. CASE held > 0
    <3>1. held * n \in Nat /\ whole \in Nat \ {0}
      BY <2>1, <2>5 DEF whole
    <3>2. (held * n) \div whole \in Nat /\ whole * ((held * n) \div whole) <= held * n
      BY <3>1, Floor
    <3>3. QED
      BY <2>1, <2>2, <2>3, <2>5, <3>2
  <2>6. QED
    BY <2>1, <2>4, <2>5
<1>5. SumFunctionOnSet(weight, Holder) <= whole
  <2>1. DOMAIN weight = Holder
    BY DEF Recorded
  <2>2. QED
    BY <2>1, SumOfFunction DEF Whole
<1>6. IsFiniteSet(Holder) /\ whole \in Nat \ {0} /\ n \in Nat
  BY FactoryLedgerAssumption
<1> HIDE DEF due, weight, whole
<1>7. SumFunctionOnSet(due, Holder) <= n
  BY ONLY <1>4, <1>5, <1>6, Apportioned
<1>8. SumFunctionOnSet(due, Holder) \in Int
  BY <1>4, <1>6, SumType
<1>9. QED
  BY <1>3, <1>7, <1>8

Fits(r) == claimedTotal[r] + StillDue(r) <= rounds[r].amount

ClaimsInv == ConservedInv /\ RoundsInv /\ ClaimsFit

LEMMA FitKept ==
    ASSUME RoundsKept, NEW r \in Round, \A h \in Holder : Due(r, h)' = Due(r, h),
           \A h \in Holder : <<r, h>> \in claimed' <=> <<r, h>> \in claimed,
           claimedTotal'[r] = claimedTotal[r], Fits(r)
    PROVE  Fits(r)'
<1>1. Dues(r)' = Dues(r)
  BY DEF Dues
<1>2. {h \in Holder : <<r, h>> \notin claimed'} = {h \in Holder : <<r, h>> \notin claimed}
  OBVIOUS
<1>3. StillDue(r)' = StillDue(r) /\ rounds'[r].amount = rounds[r].amount
  BY <1>1, <1>2 DEF StillDue, RoundsKept
<1>4. QED
  BY <1>3 DEF Fits

LEMMA ClaimFits ==
    ASSUME ClaimsInv, RoundsKept, NEW r \in Round, NEW h \in Holder, Claim(r, h),
           \A q \in Round, k \in Holder : Due(q, k)' = Due(q, k),
           NEW q \in trusted
    PROVE  Fits(q)'
<1>1. /\ claimed' = claimed \cup {<<r, h>>} /\ <<r, h>> \notin claimed
      /\ claimedTotal' = [claimedTotal EXCEPT ![r] = @ + Due(r, h)]
  BY DEF Claim
<1>2. q \in Round /\ Fits(q)
  BY DEF ClaimsInv, ClaimsFit, Fits, RoundsInv, RoundTypes
<1>3. DOMAIN claimedTotal = Round /\ claimedTotal[q] \in Int
  BY <1>2 DEF ClaimsInv, RoundsInv, RoundTypes, Round
<1>4. CASE q # r
  <2>1. \A k \in Holder : <<q, k>> \in claimed' <=> <<q, k>> \in claimed
    BY <1>1, <1>4
  <2>2. claimedTotal'[q] = claimedTotal[q]
    BY <1>1, <1>2, <1>3, <1>4
  <2>3. QED
    BY <1>2, <2>1, <2>2, FitKept
<1>5. CASE q = r
  <2> DEFINE open == {k \in Holder : <<r, k>> \notin claimed}
             due == Dues(r)
  <2>1. {k \in Holder : <<r, k>> \notin claimed'} = open \ {h} /\ h \in open
    BY <1>1
  <2>2. IsFiniteSet(open) /\ \A k \in open : due[k] \in Int
    <3>1. IsFiniteSet(open)
      BY FactoryLedgerAssumption, FS_Subset
    <3>2. \A k \in Holder : due[k] = Due(r, k) /\ Due(r, k) \in Nat
      BY DueType DEF Dues, ClaimsInv
    <3>3. QED
      BY <3>1, <3>2
  <2>3. Dues(r)' = due /\ due[h] = Due(r, h) /\ Due(r, h) \in Nat
    BY DueType DEF Dues, ClaimsInv
  <2>4. StillDue(r)' = SumFunctionOnSet(due, open \ {h}) /\ StillDue(r) = SumFunctionOnSet(due, open)
    BY <2>1, <2>3 DEF StillDue
  <2> HIDE DEF open, due
  <2>5. IsFiniteSet(open \ {h}) /\ \A k \in open \ {h} : due[k] \in Int
    BY <2>2, FS_Subset
  <2>6. SumFunctionOnSet(due, open) = due[h] + SumFunctionOnSet(due, open \ {h})
    BY <2>1, <2>2, SumRemove
  <2>7. SumFunctionOnSet(due, open \ {h}) \in Int
    BY <2>5, SumType
  <2>8. claimedTotal'[r] = claimedTotal[r] + Due(r, h)
    BY <1>1, <1>3
  <2>9. claimedTotal'[r] + StillDue(r)' = claimedTotal[r] + StillDue(r)
    BY <1>3, <1>5, <2>3, <2>4, <2>6, <2>7, <2>8
  <2>10. QED
    BY <1>2, <1>5, <2>9 DEF Fits, RoundsKept
<1>6. QED
  BY <1>4, <1>5

LEMMA NextClaims == ClaimsInv /\ [AccountingNext]_accountingVars => ClaimsInv'
<1> SUFFICES ASSUME ClaimsInv, [AccountingNext]_accountingVars PROVE ClaimsInv'
  OBVIOUS
<1>1. /\ ConservedInv' /\ RoundsInv' /\ RoundsInv /\ RoundsKept /\ ledger <= ledger'
      /\ UNCHANGED <<balanceSnaps, supplySnaps>> \/ \E holders : Record(holders)
  BY NextConserves, NextRounds DEF ClaimsInv
<1>2. \A r \in Round, h \in Holder :
         rounds[r].ledger < ledger \/ UNCHANGED <<balanceSnaps, supplySnaps>>
            => Due(r, h)' = Due(r, h)
  BY <1>1, DueKept
<1>3. \A r \in trusted : r \in Round /\ Fits(r) /\ rounds[r].ledger <= ledger
  BY <1>1 DEF ClaimsInv, ClaimsFit, Fits, RoundsInv, RoundTypes
<1>4. SUFFICES ASSUME NEW r \in trusted' PROVE Fits(r)'
  BY <1>1 DEF ClaimsInv, ClaimsFit, Fits
<1>5. CASE TokenCall /\ Disturb
  <2>1. /\ UNCHANGED <<rounds, claimed, claimedTotal>> /\ r \in trusted
        /\ UNCHANGED <<balanceSnaps, supplySnaps>> \/ rounds[r].ledger # ledger
    BY <1>5 DEF Disturb
  <2>2. rounds[r].ledger < ledger \/ UNCHANGED <<balanceSnaps, supplySnaps>>
    BY <1>1, <1>3, <2>1, RoundFields DEF RoundsInv, LedgerTypes, Ledgers
  <2>3. QED
    BY <1>1, <1>2, <1>3, <2>1, <2>2, FitKept
<1>6. CASE UNCHANGED dividendVars /\ (StakingCall \/ CloseLedger \/ UNCHANGED ledgerVars)
  <2>1. UNCHANGED <<rounds, claimed, claimedTotal>> /\ r \in trusted
    BY <1>6 DEF dividendVars
  <2>2. UNCHANGED <<balanceSnaps, supplySnaps>>
    BY <1>6 DEF StakingCall, Stake, Unstake, ClaimRewards, Settle, Unrecorded, CloseLedger,
                ledgerVars
  <2>3. QED
    BY <1>1, <1>2, <1>3, <2>1, <2>2, FitKept
<1>7. CASE DividendCall /\ UNCHANGED ledgerVars
  <2>1. /\ UNCHANGED <<balanceSnaps, supplySnaps>>
        /\ \A q \in Round, h \in Holder : Due(q, h)' = Due(q, h)
    BY <1>2, <1>7 DEF ledgerVars
  <2>2. ASSUME NEW n \in Pools, NEW w \in Windows, Initiate(n, w)
        PROVE  Fits(r)'
    <3> DEFINE new == [amount |-> n, ledger |-> ledger, supply |-> At(supplySnaps, ledger),
                       deadline |-> ledger + w, reclaimed |-> FALSE]
    <3>1. /\ rounds' = Append(rounds, new) /\ claimedTotal' = Append(claimedTotal, 0)
          /\ claimed' = claimed /\ At(supplySnaps, ledger) > 0
          /\ trusted' = IF Whole(ledger) THEN trusted \cup {Len(rounds) + 1} ELSE trusted
      BY <2>2 DEF Initiate
    <3>2. /\ new.amount = n /\ new.ledger = ledger /\ new.supply = At(supplySnaps, ledger)
      OBVIOUS
    <3> HIDE DEF new
    <3>3. /\ rounds'[Len(rounds) + 1] = new /\ claimedTotal'[Len(rounds) + 1] = 0
          /\ Len(rounds) + 1 \in Round' /\ Len(rounds) + 1 \notin Round
          /\ \A q \in Round : claimedTotal'[q] = claimedTotal[q]
      BY <1>1, <3>1 DEF RoundsInv, RoundTypes, Round
    <3>4. CASE r \in trusted
      BY <1>1, <1>3, <2>1, <3>1, <3>3, <3>4, FitKept
    <3>5. CASE r = Len(rounds) + 1 /\ Whole(ledger)
      <4>1. At(supplySnaps, ledger) \in Nat \ {0}
        <5>1. At(supplySnaps, ledger) \in Int
          BY <1>1, AtType DEF RoundsInv, LedgerTypes
        <5>2. QED
          BY <3>1, <5>1
      <4>2. n \in Nat \ {0}
        BY FactoryDividendsAssumption
      <4>3. StillDue(r)' <= n /\ StillDue(r)' \in Int
        BY <1>1, <2>1, <3>1, <3>2, <3>3, <3>5, <4>1, <4>2, RoundFits
      <4>4. QED
        BY <3>2, <3>3, <3>5, <4>2, <4>3 DEF Fits
    <3>6. QED
      BY <3>1, <3>4, <3>5
  <2>3. ASSUME NEW q \in Round, Reclaim(q)
        PROVE  Fits(r)'
    <3>1. UNCHANGED <<claimed, claimedTotal, trusted>>
      BY <2>3 DEF Reclaim
    <3>2. QED
      BY <1>1, <1>3, <2>1, <3>1, FitKept
  <2>4. ASSUME NEW q \in Round, NEW h \in Holder, Claim(q, h)
        PROVE  Fits(r)'
    <3>1. r \in trusted
      BY <2>4 DEF Claim
    <3>2. QED
      BY <1>1, <2>1, <2>4, <3>1, ClaimFits
  <2>5. QED
    BY <1>7, <2>2, <2>3, <2>4 DEF DividendCall
<1>8. QED
  BY <1>5, <1>6, <1>7 DEF AccountingNext, accountingVars

LEMMA InitClaims == AccountingInit => ClaimsInv
  BY InitConserved, InitRounds DEF AccountingInit, DividendInit, ClaimsInv, ClaimsFit

(* What was claimed in a round and what is still due in it are covered by  *)
(* its amount, for whatever was minted, burned, staked or clawed back      *)
(* since, unless its snapshots were disturbed in the ledger of its start   *)
(* (dividend_distribution.rs:129-185).                                     *)
THEOREM ClaimsAlwaysFit == AccountingSpec => []ClaimsFit
<1>1. ClaimsInv => ClaimsFit
  BY DEF ClaimsInv
<1>2. QED
  BY <1>1, InitClaims, NextClaims, PTL DEF AccountingSpec

-----------------------------------------------------------------------------
(* Rewards.  A position is worth what the accumulator would grant it in    *)
(* full, less its debt; what the pool paid and its positions are worth     *)
(* together never exceeds what the rate came to, but for the units lost    *)
(* and won by rounding.  A position anchored in this ledger may be         *)
(* anchored again without winning more: it has some slack.                 *)

Remainder(a) == a - Precision * (a \div Precision)

Slack(h, acc) ==
    IF <<h, ledger>> \in anchored
    THEN (Precision - 1) - Remainder(stakes[h].amount * acc)
    ELSE 0

Worth(h, acc) == stakes[h].amount * acc - Precision * stakes[h].debt + Slack(h, acc)
Worths(acc) == [h \in Holder |-> Worth(h, acc)]

(* What the rate comes to since the pool was last updated.                 *)
Unrolled == IF pool.total = 0 THEN 0 ELSE (ledger - pool.last) * pool.rate

Bounded ==
    Precision * rewarded + SumFunction(Worths(pool.acc))
        <= Precision * (emitted - Unrolled) + (Precision - 1) * Cardinality(anchored)

Marks ==
    /\ pool.acc \in Nat /\ pool.last <= ledger
    /\ IsFiniteSet(anchored)
    /\ \A h \in Holder, l \in Nat :
          <<h, l>> \in anchored => l <= ledger /\ (l = ledger => pool.last = ledger)

RewardsInv == ConservedInv /\ Marks /\ Bounded

LEMMA RemainderBounds ==
    ASSUME NEW a \in Nat
    PROVE  /\ a \div Precision \in Nat /\ Remainder(a) \in Int
           /\ 0 <= Remainder(a) /\ Remainder(a) <= Precision - 1
           /\ Precision * (a \div Precision) = a - Remainder(a)
  BY FactoryStakingAssumption DEF Remainder

LEMMA Products ==
    /\ \A x \in Nat, y \in Nat : x * y \in Nat
    /\ \A x \in Int, y \in Int : x * y \in Int
  OBVIOUS

LEMMA StakeFields ==
    ASSUME StakingTypes, NEW h \in Holder
    PROVE  stakes[h].amount \in Nat /\ stakes[h].debt \in Int
  BY DEF StakingTypes

LEMMA WorthType ==
    ASSUME StakingTypes, NEW acc \in Nat, NEW h \in Holder
    PROVE  /\ Worth(h, acc) \in Int /\ Slack(h, acc) \in Int /\ 0 <= Slack(h, acc)
           /\ Precision * Accrued(h, acc) <= Worth(h, acc) /\ Accrued(h, acc) \in Int
<1> DEFINE a == stakes[h].amount * acc
           d == stakes[h].debt
<1>1. /\ stakes[h].amount \in Nat /\ d \in Int
      /\ a \in Nat /\ Precision \in Nat \ {0}
  BY StakeFields, Products, FactoryStakingAssumption
<1>2. /\ a \div Precision \in Nat /\ Remainder(a) \in Int
      /\ 0 <= Remainder(a) /\ Remainder(a) <= Precision - 1
      /\ Precision * (a \div Precision) = a - Remainder(a)
  BY <1>1, RemainderBounds
<1>3. /\ Slack(h, acc) = IF <<h, ledger>> \in anchored THEN (Precision - 1) - Remainder(a) ELSE 0
      /\ Worth(h, acc) = a - Precision * d + Slack(h, acc)
      /\ Accrued(h, acc) = a \div Precision - d
  BY DEF Slack, Worth, Accrued, Granted
<1> HIDE DEF a, d
<1>4. Slack(h, acc) \in Int /\ 0 <= Slack(h, acc)
  BY <1>1, <1>2, <1>3
<1>5. Precision * d \in Int
  BY <1>1
<1>6. Precision * (a \div Precision - d) = Precision * (a \div Precision) - Precision * d
  BY <1>1, <1>2
<1>7. QED
  BY <1>1, <1>2, <1>3, <1>4, <1>5, <1>6

LEMMA WorthsType ==
    ASSUME StakingTypes, NEW acc \in Nat
    PROVE  /\ Worths(acc) \in [Holder -> Int]
           /\ \A h \in Holder : Worths(acc)[h] = Worth(h, acc)
           /\ SumFunction(Worths(acc)) \in Int
<1>1. \A h \in Holder : Worth(h, acc) \in Int
  BY WorthType
<1>2. Worths(acc) \in [Holder -> Int] /\ \A h \in Holder : Worths(acc)[h] = Worth(h, acc)
  BY <1>1 DEF Worths
<1>3. QED
  BY <1>2, SumFunctionType, FactoryLedgerAssumption

LEMMA BoundedSuffices == RewardsInv => RewardsBounded
<1> SUFFICES ASSUME RewardsInv PROVE RewardsBounded
  OBVIOUS
<1> DEFINE P == Precision
           acc == pool.acc
           scaled == [h \in Holder |-> P * Pending[h]]
<1>1. StakingTypes /\ acc \in Nat /\ P \in Nat \ {0} /\ IsFiniteSet(Holder) /\ ledger \in Int
  BY FactoryStakingAssumption, FactoryLedgerAssumption
  DEF RewardsInv, ConservedInv, Marks, LedgerTypes, Ledgers
<1>2. Pending \in [Holder -> Int]
  BY <1>1, WorthType DEF Pending
<1>3. SumFunction(scaled) = P * SumFunction(Pending) /\ SumFunction(Pending) \in Int
  BY <1>1, <1>2, SumTimes, SumFunctionType
<1>4. SumFunction(scaled) <= SumFunction(Worths(acc))
  <2> DEFINE w == Worths(acc)
  <2>1. /\ DOMAIN scaled = Holder /\ DOMAIN w = Holder
        /\ \A h \in Holder : scaled[h] \in Int /\ w[h] \in Int /\ scaled[h] <= w[h]
    <3>1. \A h \in Holder : Pending[h] = Accrued(h, acc)
      BY DEF Pending
    <3>2. \A h \in Holder : P * Accrued(h, acc) \in Int /\ P * Accrued(h, acc) <= Worth(h, acc)
      BY <1>1, WorthType, Products
    <3>3. QED
      BY <1>1, <3>1, <3>2, WorthsType
  <2> HIDE DEF w, scaled
  <2>2. SumFunctionOnSet(scaled, Holder) <= SumFunctionOnSet(w, Holder)
    BY <1>1, <2>1, SumAtMost
  <2>3. QED
    BY <2>1, <2>2, SumOfFunction DEF w
<1>5. Unrolled \in Nat
  BY <1>1, Products DEF Unrolled, RewardsInv, Marks, StakingTypes
<1>6. SumFunction(Worths(acc)) \in Int
  BY <1>1, WorthsType
<1>7. rewarded \in Int /\ emitted \in Nat
  BY <1>1 DEF StakingTypes
<1>8. Cardinality(anchored) \in Nat
  BY FS_CardinalityType DEF RewardsInv, Marks
<1> HIDE DEF P, scaled
<1>9. P * rewarded + SumFunction(Worths(acc))
        <= P * (emitted - Unrolled) + (P - 1) * Cardinality(anchored)
  BY DEF RewardsInv, Bounded, P
<1>10. P * (emitted - Unrolled) <= P * emitted
  BY <1>1, <1>5, <1>7, Greater
<1>11. P * (rewarded + SumFunction(Pending)) = P * rewarded + P * SumFunction(Pending)
  BY <1>1, <1>3, <1>7
<1>12. (P - 1) * Cardinality(anchored) = Cardinality(anchored) * (P - 1)
  BY <1>1, <1>8
<1>13. P * (rewarded + SumFunction(Pending))
         <= P * emitted + Cardinality(anchored) * (P - 1)
  <2>1. /\ P * rewarded \in Int /\ P * (emitted - Unrolled) \in Int /\ P * emitted \in Int
        /\ P * SumFunction(Pending) \in Int /\ (P - 1) * Cardinality(anchored) \in Int
    BY <1>1, <1>3, <1>5, <1>7, <1>8
  <2>2. QED
    BY <2>1, <1>3, <1>4, <1>6, <1>9, <1>10, <1>11, <1>12
<1>14. QED
  BY <1>13 DEF RewardsBounded, P

(* The update of the pool grants no more than what was unrolled.           *)
LEMMA RollBounded ==
    ASSUME RewardsInv
    PROVE  /\ Rolled.acc \in Nat
           /\ Precision * rewarded + SumFunction(Worths(Rolled.acc))
                <= Precision * emitted + (Precision - 1) * Cardinality(anchored)
<1> DEFINE P == Precision
           acc == pool.acc
           gain == ((ledger - pool.last) * pool.rate * P) \div pool.total
<1>1. /\ StakingTypes /\ acc \in Nat /\ P \in Nat \ {0} /\ IsFiniteSet(Holder)
      /\ ledger \in Int /\ pool.last \in Int /\ pool.last <= ledger /\ pool.rate \in Nat
      /\ pool.total = SumFunction(Staked) /\ pool.total \in Nat
  BY FactoryStakingAssumption, FactoryLedgerAssumption, TotalIsNat
  DEF RewardsInv, ConservedInv, Marks, LedgerTypes, Ledgers, StakingTypes, Conserved
<1>2. /\ P * rewarded + SumFunction(Worths(acc))
           <= P * (emitted - Unrolled) + (P - 1) * Cardinality(anchored)
      /\ rewarded \in Int /\ emitted \in Nat /\ Cardinality(anchored) \in Nat
      /\ SumFunction(Worths(acc)) \in Int
  BY <1>1, WorthsType, FS_CardinalityType DEF RewardsInv, Bounded, Marks, StakingTypes
<1>3. CASE pool.total = 0
  <2>1. Rolled.acc = acc /\ Unrolled = 0
    BY <1>1, <1>3 DEF Rolled, StakingTypes, Unrolled
  <2> HIDE DEF acc, P
  <2>2. emitted - 0 = emitted
    BY <1>2
  <2>3. QED
    BY <1>1, <1>2, <2>1, <2>2 DEF P
<1>4. CASE pool.total # 0
  <2>1. /\ Unrolled = (ledger - pool.last) * pool.rate /\ Unrolled \in Nat
        /\ Rolled.acc = acc + gain
    BY <1>1, <1>4, Products DEF Rolled, StakingTypes, Unrolled
  <2>2. gain \in Nat /\ pool.total * gain <= P * Unrolled
    <3>1. Unrolled * P \in Nat /\ pool.total \in Nat \ {0} /\ P * Unrolled = Unrolled * P
      BY <1>1, <1>4, <2>1, Products
    <3>2. QED
      BY <2>1, <3>1, Floor
  <2>3. acc + gain \in Nat
    BY <1>1, <2>2
  <2>4. \A h \in Holder : <<h, ledger>> \in anchored => gain = 0
    <3>1. SUFFICES ASSUME NEW h \in Holder, <<h, ledger>> \in anchored PROVE gain = 0
      OBVIOUS
    <3>2. pool.last = ledger
      BY <3>1 DEF RewardsInv, Marks, ConservedInv, LedgerTypes, Ledgers
    <3>3. Unrolled = 0
      BY <1>1, <2>1, <3>2
    <3>4. pool.total * gain <= 0
      BY <1>1, <2>2, <3>3
    <3> HIDE DEF gain
    <3>5. QED
      BY <1>1, <1>4, <2>2, <3>4
  <2> DEFINE granted == [h \in Holder |-> gain * Staked[h]]
             before == Worths(acc)
             after == Worths(acc + gain)
  <2> HIDE DEF gain
  <2>5. \A h \in Holder : Worth(h, acc + gain) = Worth(h, acc) + gain * Staked[h]
    <3> TAKE h \in Holder
    <3>1. stakes[h].amount \in Nat /\ stakes[h].debt \in Int /\ Staked[h] = stakes[h].amount
      BY <1>1, StakeFields DEF Staked
    <3>2. Slack(h, acc + gain) = Slack(h, acc) /\ Slack(h, acc) \in Int
      <4>1. <<h, ledger>> \in anchored => acc + gain = acc
        BY <1>1, <2>4
      <4>2. Slack(h, acc + gain) = Slack(h, acc)
        BY <4>1 DEF Slack
      <4>3. QED
        BY <1>1, <4>2, WorthType
    <3> DEFINE n == stakes[h].amount
               d == Precision * stakes[h].debt
    <3>3. n * (acc + gain) = n * acc + gain * n /\ n * acc \in Int /\ gain * n \in Int /\ d \in Int
      BY <1>1, <2>2, <3>1
    <3>4. /\ Worth(h, acc) = n * acc - d + Slack(h, acc)
          /\ Worth(h, acc + gain) = n * (acc + gain) - d + Slack(h, acc + gain)
      BY DEF Worth
    <3> HIDE DEF n, d, acc
    <3>5. QED
      BY <3>1, <3>2, <3>3, <3>4 DEF n
  <2>6. before \in [Holder -> Int] /\ granted \in [Holder -> Int] /\ Staked \in [Holder -> Int]
    <3>1. \A h \in Holder : Staked[h] \in Int /\ gain * Staked[h] \in Int
      BY <1>1, <2>2, StakeFields DEF Staked
    <3>2. QED
      BY <1>1, <3>1, WorthsType DEF Staked
  <2>7. after = [h \in Holder |-> before[h] + granted[h]]
    BY <2>5 DEF Worths
  <2>8. SumFunction(granted) = gain * pool.total
    BY <1>1, <2>2, <2>6, SumTimes
  <2>9. SumFunction(after) = SumFunction(before) + SumFunction(granted)
    <3> HIDE DEF before, granted, after
    <3>1. QED
      BY <1>1, <2>6, <2>7, SumPlus
  <2>10. SumFunction(Worths(acc + gain)) = SumFunction(Worths(acc)) + pool.total * gain
    BY <1>1, <2>2, <2>8, <2>9
  <2>11. P * (emitted - Unrolled) = P * emitted - P * Unrolled
    BY <1>1, <1>2, <2>1
  <2>12. P * rewarded + SumFunction(Worths(acc + gain)) <= P * emitted + (P - 1) * Cardinality(anchored)
    <3>1. /\ P * rewarded \in Int /\ P * emitted \in Int /\ P * Unrolled \in Int
          /\ pool.total * gain \in Int /\ (P - 1) * Cardinality(anchored) \in Int
      BY <1>1, <1>2, <2>1, <2>2
    <3> HIDE DEF P, acc
    <3>2. QED
      BY <1>2, <2>2, <2>10, <2>11, <3>1
  <2>13. QED
    BY <2>1, <2>3, <2>12
<1>5. QED
  BY <1>3, <1>4

(* A holder who settles is paid from the worth of the position; anchored   *)
(* with another amount, and for the first time in the ledger, the position *)
(* may win less than a unit.                                               *)
LEMMA SettleBounded ==
    ASSUME RewardsInv, ConservedInv', NEW h \in Holder, NEW amount \in Nat, NEW delta \in Int,
           Settle(h, amount, delta)
    PROVE  RewardsInv'
<1> DEFINE P == Precision
           acc == Rolled.acc
           a == stakes[h].amount * acc
           b == amount * acc
           d == stakes[h].debt
           pending == Accrued(h, acc)
           gain == IF anchored' = anchored THEN 0 ELSE P - 1
           before == Worths(acc)
           after == Worths(pool.acc)'
<1>1. /\ StakingTypes /\ StakingTypes' /\ P \in Nat \ {0} /\ IsFiniteSet(Holder)
      /\ ledger \in Nat /\ emitted \in Nat /\ rewarded \in Int
      /\ stakes[h].amount \in Nat /\ d \in Int
      /\ IsFiniteSet(anchored)
      /\ pool.total = SumFunction(Staked)
  <2>1. StakingTypes /\ StakingTypes' /\ pool.total = SumFunction(Staked)
    BY DEF RewardsInv, ConservedInv, Conserved
  <2>2. stakes[h].amount \in Nat /\ d \in Int
    BY <2>1, StakeFields
  <2>3. P \in Nat \ {0} /\ IsFiniteSet(Holder) /\ ledger \in Nat
    BY FactoryStakingAssumption, FactoryLedgerAssumption
    DEF RewardsInv, ConservedInv, LedgerTypes, Ledgers
  <2>4. emitted \in Nat /\ rewarded \in Int /\ IsFiniteSet(anchored)
    BY DEF RewardsInv, ConservedInv, StakingTypes, Marks
  <2>5. QED
    BY <2>1, <2>2, <2>3, <2>4
<1>2. /\ acc \in Nat
      /\ P * rewarded + SumFunction(before) <= P * emitted + (P - 1) * Cardinality(anchored)
  BY RollBounded
<1>3. /\ pool' = [Rolled EXCEPT !.total = @ + amount - stakes[h].amount]
      /\ stakes' = [stakes EXCEPT ![h] = [amount |-> amount, debt |-> Granted(amount, acc)]]
      /\ rewarded' = rewarded + pending /\ emitted' = emitted
      /\ anchored' = IF amount \in {0, stakes[h].amount} THEN anchored
                     ELSE anchored \cup {<<h, ledger>>}
      /\ ledger' = ledger
  BY DEF Settle, Unrecorded
<1>4. /\ pool'.acc = acc /\ pool'.last = ledger /\ Unrolled' = 0
  <2>1. /\ Rolled \in [rate : Nat, total : Int, acc : Int, last : Int]
        /\ Rolled.last = ledger
    BY <1>1, RolledType DEF RewardsInv, ConservedInv
  <2>2. pool'.acc = acc /\ pool'.last = ledger
    BY <1>3, <2>1
  <2>3. (ledger - ledger) * pool'.rate = 0
    BY <1>1 DEF StakingTypes
  <2>4. QED
    BY <1>3, <2>2, <2>3 DEF Unrolled
<1>5. a \in Nat /\ b \in Nat
  BY <1>1, <1>2, Products
<1>6. /\ Remainder(a) \in Int /\ 0 <= Remainder(a) /\ Remainder(a) <= P - 1
      /\ P * (a \div P) = a - Remainder(a) /\ a \div P \in Nat
      /\ Remainder(b) \in Int /\ 0 <= Remainder(b) /\ Remainder(b) <= P - 1
      /\ P * (b \div P) = b - Remainder(b) /\ b \div P \in Nat
  BY <1>5, RemainderBounds
<1>7. pending = a \div P - d /\ pending \in Int
  BY <1>1, <1>6 DEF Accrued, Granted
<1>8. P * pending = (a - Remainder(a)) - P * d /\ P * d \in Int /\ P * pending \in Int
  <2>1. P * (a \div P - d) = P * (a \div P) - P * d /\ P * d \in Int
    BY <1>1, <1>6
  <2> HIDE DEF a, b, d, acc, P, pending
  <2>2. QED
    BY <1>1, <1>5, <1>6, <1>7, <2>1
<1> DEFINE was == IF <<h, ledger>> \in anchored THEN (P - 1) - Remainder(a) ELSE 0
           is == IF <<h, ledger>> \in anchored' THEN (P - 1) - Remainder(b) ELSE 0
<1>9. /\ before[h] = a - P * d + was
      /\ after[h] = Remainder(b) + is
  <2>1. before[h] = a - P * d + was
    BY DEF Worths, Worth, Slack
  <2>2. stakes'[h].amount = amount /\ stakes'[h].debt = b \div P
    BY <1>1, <1>3 DEF StakingTypes, Granted
  <2>3. after[h] = b - P * (b \div P) + is
    BY <1>3, <1>4, <2>2 DEF Worths, Worth, Slack, Remainder
  <2>4. QED
    BY <2>1, <2>3 DEF Remainder
<1>10. P * pending + after[h] <= before[h] + gain
  <2> HIDE DEF a, b, d, acc, P, pending, before, after
  <2>1. P \in Int /\ a \in Int
    BY <1>1, <1>5
  <2>2. CASE amount = stakes[h].amount
    <3>1. a = b /\ anchored' = anchored
      BY <1>3, <2>2 DEF a, b
    <3>2. QED
      BY <1>6, <1>8, <1>9, <2>1, <3>1
  <2>3. CASE amount = 0
    <3>1. anchored' = anchored
      BY <1>3, <2>3
    <3>2. Remainder(b) = 0
      <4>1. b = 0
        BY <1>2, <2>3 DEF b
      <4>2. b \div P = 0 /\ P * 0 = 0
        BY <1>1, <4>1
      <4>3. QED
        BY <4>1, <4>2 DEF Remainder, P
    <3>3. QED
      BY <1>6, <1>8, <1>9, <2>1, <3>1, <3>2
  <2>4. CASE amount \notin {0, stakes[h].amount}
    <3>1. anchored' = anchored \cup {<<h, ledger>>}
      BY <1>3, <2>4
    <3>2. CASE <<h, ledger>> \in anchored
      <4>1. anchored' = anchored
        BY <3>1, <3>2
      <4>2. QED
        BY <1>6, <1>8, <1>9, <2>1, <3>2, <4>1
    <3>3. CASE <<h, ledger>> \notin anchored
      <4>1. anchored' # anchored /\ <<h, ledger>> \in anchored'
        BY <3>1, <3>3
      <4>2. QED
        BY <1>6, <1>8, <1>9, <2>1, <3>3, <4>1
    <3>4. QED
      BY <3>2, <3>3
  <2>5. QED
    BY <2>2, <2>3, <2>4
<1>11. /\ IsFiniteSet(anchored') /\ Cardinality(anchored') \in Nat /\ Cardinality(anchored) \in Nat
       /\ (P - 1) * Cardinality(anchored') = (P - 1) * Cardinality(anchored) + gain
  <2>1. IsFiniteSet(anchored') /\ Cardinality(anchored') \in Nat /\ Cardinality(anchored) \in Nat
    BY <1>1, <1>3, FS_AddElement, FS_CardinalityType
  <2>2. anchored' # anchored => Cardinality(anchored') = Cardinality(anchored) + 1
    <3>1. SUFFICES ASSUME anchored' # anchored
                   PROVE  Cardinality(anchored') = Cardinality(anchored) + 1
      OBVIOUS
    <3>2. anchored' = anchored \cup {<<h, ledger>>} /\ <<h, ledger>> \notin anchored
      BY <1>3, <3>1
    <3>3. QED
      BY <1>1, <3>2, FS_AddElement
  <2>3. QED
    BY <1>1, <2>1, <2>2
<1>12. SumFunction(after) = SumFunction(before) + after[h] - before[h]
  <2>1. before \in [Holder -> Int] /\ SumFunction(before) \in Int
    BY <1>1, <1>2, WorthsType
  <2>2. ASSUME NEW k \in Holder, k # h
        PROVE  after[k] = before[k]
    <3>1. stakes'[k] = stakes[k]
      BY <1>1, <1>3, <2>2 DEF StakingTypes
    <3>2. <<k, ledger>> \in anchored' <=> <<k, ledger>> \in anchored
      BY <1>3, <2>2
    <3>3. QED
      BY <1>3, <1>4, <3>1, <3>2 DEF Worths, Worth, Slack
  <2>3. DOMAIN after = Holder
    BY DEF Worths
  <2>4. after[h] \in Int
    BY <1>1, <1>6, <1>9
  <2>5. after \in [Holder -> Int]
    <3>1. after = [k \in Holder |-> after[k]]
      BY DEF Worths
    <3> HIDE DEF after, before
    <3>2. QED
      BY <2>1, <2>2, <2>4, <3>1
  <2>6. IsFiniteSet(Holder) /\ h \in Holder /\ \A k \in Holder \ {h} : after[k] = before[k]
    BY <1>1, <2>2
  <2> HIDE DEF after, before
  <2>7. QED
    BY ONLY <2>1, <2>5, <2>6, SumChange
<1>13. SumFunction(before) \in Int /\ before[h] \in Int /\ after[h] \in Int
  BY <1>1, <1>2, <1>6, <1>9, WorthsType
<1>14. P * rewarded' = P * rewarded + P * pending /\ P * rewarded \in Int /\ P * emitted \in Int
  BY <1>1, <1>3, <1>7
<1>15. (P - 1) * Cardinality(anchored) \in Int /\ gain \in Int
  BY <1>1, <1>11
<1>16. P * rewarded' + SumFunction(after) <= P * emitted + (P - 1) * Cardinality(anchored')
  <2> HIDE DEF P, acc, a, b, d, pending, gain, before, after
  <2>1. QED
    BY <1>2, <1>8, <1>10, <1>11, <1>12, <1>13, <1>14, <1>15
<1>17. Bounded'
  <2>1. emitted' - Unrolled' = emitted
    BY <1>1, <1>3, <1>4
  <2>2. QED
    BY <1>3, <1>16, <2>1 DEF Bounded
<1>18. Marks'
  <2>1. \A k \in Holder, l \in Nat : <<k, l>> \in anchored' => <<k, l>> \in anchored \/ l = ledger
    BY <1>3
  <2>2. \A k \in Holder, l \in Nat : <<k, l>> \in anchored => l <= ledger
    BY DEF RewardsInv, Marks
  <2>3. QED
    BY <1>1, <1>2, <1>3, <1>4, <1>11, <2>1, <2>2 DEF Marks
<1>19. QED
  BY <1>17, <1>18 DEF RewardsInv

LEMMA SameWorths ==
    ASSUME UNCHANGED <<stakes, anchored>>, pool'.acc = pool.acc,
           \A h \in Holder : <<h, ledger>> \in anchored <=> <<h, ledger'>> \in anchored
    PROVE  Worths(pool.acc)' = Worths(pool.acc)
  BY DEF Worths, Worth, Slack, Remainder

(* With the ledger the slack of its positions is gone.                     *)
LEMMA TimeBounded ==
    ASSUME RewardsInv, ConservedInv', CloseLedger, PassTime
    PROVE  RewardsInv'
<1>1. /\ StakingTypes /\ pool.acc \in Nat /\ Precision \in Nat \ {0} /\ IsFiniteSet(Holder)
      /\ ledger \in Nat /\ pool.last \in Int /\ pool.last <= ledger /\ pool.rate \in Nat
      /\ emitted \in Nat /\ rewarded \in Int
  BY FactoryStakingAssumption, FactoryLedgerAssumption
  DEF RewardsInv, ConservedInv, Marks, LedgerTypes, Ledgers, StakingTypes
<1>2. /\ ledger' = ledger + 1 /\ UNCHANGED <<pool, stakes, rewarded, anchored>>
      /\ emitted' = emitted + (IF pool.total = 0 THEN 0 ELSE pool.rate)
  BY DEF CloseLedger, PassTime
<1>3. \A h \in Holder : <<h, ledger'>> \notin anchored
  BY <1>1, <1>2 DEF RewardsInv, Marks
<1> DEFINE w == Worths(pool.acc)
           v == Worths(pool.acc)'
<1>4. \A h \in Holder : v[h] \in Int /\ w[h] \in Int /\ v[h] <= w[h]
  <2> TAKE h \in Holder
  <2>1. w[h] = Worth(h, pool.acc) /\ w[h] \in Int
    BY <1>1, WorthsType
  <2>2. v[h] = stakes[h].amount * pool.acc - Precision * stakes[h].debt + 0
    BY <1>2, <1>3 DEF Worths, Worth, Slack
  <2>3. Slack(h, pool.acc) \in Int /\ 0 <= Slack(h, pool.acc)
    BY <1>1, WorthType
  <2>4. stakes[h].amount * pool.acc - Precision * stakes[h].debt \in Int
    BY <1>1, StakeFields
  <2> HIDE DEF v, w
  <2>5. w[h] = stakes[h].amount * pool.acc - Precision * stakes[h].debt + Slack(h, pool.acc)
    BY <2>1 DEF Worth
  <2>6. QED
    BY <2>1, <2>2, <2>3, <2>4, <2>5
<1>5. SumFunction(v) <= SumFunction(w) /\ SumFunction(v) \in Int /\ SumFunction(w) \in Int
  <2>1. DOMAIN v = Holder /\ DOMAIN w = Holder
    BY DEF Worths
  <2> HIDE DEF v, w
  <2>2. SumFunctionOnSet(v, Holder) <= SumFunctionOnSet(w, Holder)
    BY <1>1, <1>4, SumAtMost
  <2>3. SumFunctionOnSet(v, Holder) \in Int /\ SumFunctionOnSet(w, Holder) \in Int
    BY <1>1, <1>4, SumType
  <2>4. QED
    BY <2>1, <2>2, <2>3, SumOfFunction
<1>6. emitted' - Unrolled' = emitted - Unrolled /\ emitted - Unrolled \in Int
  <2>1. CASE pool.total = 0
    BY <1>1, <1>2, <2>1 DEF Unrolled
  <2>2. CASE pool.total # 0
    <3>1. /\ Unrolled = (ledger - pool.last) * pool.rate
          /\ Unrolled' = (ledger + 1 - pool.last) * pool.rate
          /\ emitted' = emitted + pool.rate
      <4>1. Unrolled = (ledger - pool.last) * pool.rate /\ emitted' = emitted + pool.rate
        BY <1>2, <2>2 DEF Unrolled
      <4>2. pool' = pool /\ ledger' = ledger + 1
        BY <1>2
      <4>3. Unrolled' = (ledger' - pool'.last) * pool'.rate
        BY <2>2, <4>2 DEF Unrolled
      <4>4. (ledger' - pool'.last) * pool'.rate = (ledger + 1 - pool.last) * pool.rate
        BY <1>1, <4>2
      <4>5. QED
        BY <4>1, <4>3, <4>4
    <3>2. (ledger + 1 - pool.last) * pool.rate = (ledger - pool.last) * pool.rate + pool.rate
      BY <1>1
    <3>3. (ledger - pool.last) * pool.rate \in Int
      BY <1>1
    <3>4. QED
      BY <1>1, <3>1, <3>2, <3>3
  <2>3. QED
    BY <2>1, <2>2
<1>7. Bounded'
  <2>1. /\ Precision * rewarded + SumFunction(w)
             <= Precision * (emitted - Unrolled) + (Precision - 1) * Cardinality(anchored)
        /\ Precision * rewarded \in Int /\ Precision * (emitted - Unrolled) \in Int
        /\ (Precision - 1) * Cardinality(anchored) \in Int
    BY <1>1, <1>6, FS_CardinalityType DEF RewardsInv, Bounded, Marks
  <2> HIDE DEF v, w
  <2>2. Precision * rewarded + SumFunction(v)
           <= Precision * (emitted - Unrolled) + (Precision - 1) * Cardinality(anchored)
    BY <1>5, <2>1
  <2>3. QED
    BY <1>2, <1>6, <2>2 DEF Bounded, v
<1>8. Marks'
  <2>1. \A h \in Holder, l \in Nat : <<h, l>> \in anchored => l <= ledger
    BY DEF RewardsInv, Marks
  <2>2. pool'.acc \in Nat /\ pool'.last <= ledger' /\ IsFiniteSet(anchored')
    BY <1>1, <1>2 DEF RewardsInv, Marks
  <2>3. \A h \in Holder, l \in Nat : <<h, l>> \in anchored' => l <= ledger' /\ l # ledger'
    BY <1>1, <1>2, <2>1
  <2>4. QED
    BY <2>2, <2>3 DEF Marks
<1>9. QED
  BY <1>7, <1>8 DEF RewardsInv

LEMMA NextRewards == RewardsInv /\ [AccountingNext]_accountingVars => RewardsInv'
<1> SUFFICES ASSUME RewardsInv, [AccountingNext]_accountingVars PROVE RewardsInv'
  OBVIOUS
<1>1. ConservedInv' /\ ConservedInv
  BY NextConserves DEF RewardsInv
<1>2. CASE UNCHANGED stakingVars /\ ledger' = ledger
  <2>1. UNCHANGED <<pool, stakes, emitted, rewarded, anchored, ledger>>
    BY <1>2 DEF stakingVars
  <2>2. Worths(pool.acc)' = Worths(pool.acc)
    BY <2>1, SameWorths
  <2>3. Bounded' /\ Marks'
    BY <2>1, <2>2 DEF RewardsInv, Bounded, Marks, Unrolled
  <2>4. QED
    BY <1>1, <2>3 DEF RewardsInv
<1>3. ASSUME NEW rate \in Rates, CreatePool(rate), Unrecorded
      PROVE  RewardsInv'
  <2>1. /\ pool' = [rate |-> rate, total |-> 0, acc |-> 0, last |-> ledger]
        /\ pool.total = 0 /\ pool.acc = 0
        /\ UNCHANGED <<stakes, emitted, rewarded, anchored, ledger>>
    BY <1>3 DEF CreatePool, NoPool, Unrecorded
  <2>2. Worths(pool.acc)' = Worths(pool.acc)
    BY <2>1, SameWorths
  <2>3. Bounded'
    BY <2>1, <2>2 DEF RewardsInv, Bounded, Unrolled
  <2>4. Marks'
    <3>1. ledger \in Int
      BY <1>1 DEF ConservedInv, LedgerTypes, Ledgers
    <3>2. QED
      BY <2>1, <3>1 DEF RewardsInv, Marks
  <2>5. QED
    BY <1>1, <2>3, <2>4 DEF RewardsInv
<1>4. ASSUME NEW h \in Holder, ClaimRewards(h) \/ \E n \in Stakes : Stake(h, n) \/ Unstake(h, n)
      PROVE  RewardsInv'
  <2>0. stakes[h].amount \in Nat /\ Stakes \subseteq Nat
    BY <1>1, FactoryStakingAssumption, StakeFields DEF ConservedInv
  <2>1. CASE ClaimRewards(h)
    BY <1>1, <2>0, <2>1, SettleBounded DEF ClaimRewards
  <2>2. ASSUME NEW n \in Stakes, Stake(h, n) PROVE RewardsInv'
    <3>1. stakes[h].amount + n \in Nat /\ -n \in Int
      BY <2>0
    <3>2. QED
      BY <1>1, <2>2, <3>1, SettleBounded DEF Stake
  <2>3. ASSUME NEW n \in Stakes, Unstake(h, n) PROVE RewardsInv'
    <3>1. stakes[h].amount - n \in Nat /\ n \in Int
      BY <2>0, <2>3 DEF Unstake
    <3>2. QED
      BY <1>1, <2>3, <3>1, SettleBounded DEF Unstake
  <2>4. QED
    BY <1>4, <2>1, <2>2, <2>3
<1>5. CASE StakingCall
  BY <1>3, <1>4, <1>5 DEF StakingCall
<1>6. CASE CloseLedger /\ PassTime
  BY <1>1, <1>6, TimeBounded
<1>7. CASE TokenCall /\ UNCHANGED stakingVars
  BY <1>2, <1>7, TokenRecords
<1>8. CASE UNCHANGED <<ledgerVars, stakingVars>>
  BY <1>2, <1>8 DEF ledgerVars
<1>9. QED
  BY <1>5, <1>6, <1>7, <1>8 DEF AccountingNext, accountingVars

LEMMA InitRewards == AccountingInit => RewardsInv
<1> SUFFICES ASSUME AccountingInit PROVE RewardsInv
  OBVIOUS
<1>1. ConservedInv
  BY InitConserved
<1>2. /\ pool = [rate |-> 0, total |-> 0, acc |-> 0, last |-> -1]
      /\ stakes = [h \in Holder |-> [amount |-> 0, debt |-> 0]]
      /\ emitted = 0 /\ rewarded = 0 /\ anchored = {} /\ ledger = 0
  BY DEF AccountingInit, StakingInit, NoPool, NoStake, LedgerInit
<1>3. Precision \in Int /\ IsFiniteSet(Holder)
  BY FactoryStakingAssumption, FactoryLedgerAssumption
<1>4. Worths(pool.acc) = [h \in Holder |-> 0]
  <2>1. \A h \in Holder : Worth(h, 0) = 0
    BY <1>2, <1>3 DEF Worth, Slack
  <2>2. QED
    BY <1>2, <2>1 DEF Worths
<1>5. Bounded
  <2>1. SumFunction(Worths(pool.acc)) = 0
    BY <1>3, <1>4, SumOfZeros
  <2>2. Cardinality(anchored) = 0
    BY <1>2, FS_EmptySet
  <2>3. Unrolled = 0
    BY <1>2 DEF Unrolled
  <2>4. QED
    BY <1>2, <1>3, <2>1, <2>2, <2>3 DEF Bounded
<1>6. Marks
  BY <1>2, FS_EmptySet DEF Marks
<1>7. QED
  BY <1>1, <1>5, <1>6 DEF RewardsInv

(* The pool grants no more than its rate comes to in the time in which     *)
(* somebody had a stake, and less than one unit more for each time a       *)
(* position was anchored with another amount in a new ledger, for any      *)
(* rate, precision, number of holders and order of their calls             *)
(* (staking.rs:77-133).                                                    *)
THEOREM RewardsStayBounded == AccountingSpec => []RewardsBounded
  BY BoundedSuffices, InitRewards, NextRewards, PTL DEF AccountingSpec
=============================================================================
