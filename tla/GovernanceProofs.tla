--------------------------- MODULE GovernanceProofs ---------------------------
(***************************************************************************)
(* Delegations, for any set of holders and any balances: type correctness, *)
(* acyclicity of the delegation graph, the list that the sweep reads, and  *)
(* what every power consists of.  Proposals, votes and the sweep, for any  *)
(* holders, proposals, periods and thresholds: closed proposals stay       *)
(* closed, a vote and its weight are final, tallies are the sums of the    *)
(* votes, verdicts follow from them, no lapsed delegation is voted with,   *)
(* and sweeping keeps the records of delegations in order.                 *)
(***************************************************************************)
EXTENDS GovernanceVotingProps, SumTheorems

LEMMA Floor0Nat == ASSUME NEW n \in Int PROVE Floor0(n) \in Nat
  BY DEF Floor0

LEMMA DebitType ==
    ASSUME NEW p \in [Address -> Nat], NEW a \in Address, NEW n \in Nat
    PROVE  Debit(p, a, n) \in [Address -> Nat]
<1>1. p[a] - n \in Int
  OBVIOUS
<1> QED BY <1>1, Floor0Nat DEF Debit

LEMMA CreditType ==
    ASSUME NEW p \in [Address -> Nat], NEW a \in Address, NEW n \in Nat
    PROVE  Credit(p, a, n) \in [Address -> Nat]
  BY DEF Credit

(* Moving a recorded delegation back keeps every power a natural number.   *)
LEMMA MoveBackType ==
    ASSUME NEW p \in [Address -> Nat], NEW a \in Address,
           delegation[a] \in Delegation, Delegates(a)
    PROVE  MoveBack(p, a) \in [Address -> Nat]
<1>1. delegation[a].delegatee \in Address /\ delegation[a].amount \in Nat
  BY DEF Delegates, Delegation
<1> QED BY <1>1, DebitType, CreditType DEF MoveBack

-----------------------------------------------------------------------------
LEMMA StorageType ==
    ASSUME NEW balances \in [Address -> Nat], StorageWith(balances),
           admin \in Admins \cup {NoOne}
    PROVE  GovTypeOK
<1>1. NoDelegation \in Delegation /\ NoExpiry \in Nat
  BY DEF Delegation, NoDelegation, NoExpiry
<1>2. [a \in Address |-> NoDelegation] \in [Address -> Delegation]
  BY <1>1
<1>3. [a \in Address |-> {}] \in [Address -> SUBSET Address]
  OBVIOUS
<1>4. [a \in Address |-> NoExpiry] \in [Address -> Nat] /\ 0 \in Nat
  BY <1>1
<1> QED BY <1>2, <1>3, <1>4, Zenon DEF StorageWith, GovTypeOK

LEMMA TypeInit == DelegationInit => GovTypeOK
  BY AmountsAssumption, StorageType DEF DelegationInit

LEMMA TypeStep ==
    ASSUME GovTypeOK, [DelegationNext]_govVars
    PROVE  GovTypeOK'
<1> USE NoOneAssumption, AmountsAssumption, BoundsAssumption
<1> USE DEF GovTypeOK
<1>1. ASSUME NEW a \in Admins, TransferAdmin(a) PROVE GovTypeOK'
  BY <1>1 DEF TransferAdmin, delegationVars
<1>2. CASE Pause \/ Unpause
  BY <1>2 DEF Pause, Unpause, SetPaused, delegationVars
<1>3. ASSUME NEW h \in Address, NEW b \in Amounts, SetBalance(h, b) PROVE GovTypeOK'
  <2> DEFINE target == IF Delegates(h) THEN delegation[h].delegatee ELSE h
  <2>1. target \in Address
    BY DEF Delegates, Delegation
  <2>2. Floor0(power[target] + b - balance[h]) \in Nat
    <3>1. power[target] \in Nat /\ b \in Nat /\ balance[h] \in Nat
      BY <2>1
    <3>2. power[target] + b - balance[h] \in Int
      BY <3>1
    <3> QED BY <3>2, Floor0Nat
  <2> QED BY <1>3, <2>1, <2>2 DEF SetBalance, adminVars
<1>4. ASSUME NEW a \in Address, NEW b \in Address, DelegateTo(a, b)
      PROVE  /\ power' \in [Address -> Nat]
             /\ delegation' \in [Address -> Delegation]
  <2> DEFINE source == IF Delegates(a) THEN delegation[a].delegatee ELSE a
             taken == IF Delegates(a) THEN delegation[a].amount ELSE balance[a]
  <2>1. source \in Address /\ taken \in Nat
    BY DEF Delegates, Delegation
  <2>3. CASE delegation[a].delegatee = b
    BY <1>4, <2>3 DEF DelegateTo
  <2>4. CASE delegation[a].delegatee # b
    <3>1. [delegatee |-> b, amount |-> balance[a]] \in Delegation
      BY DEF Delegation
    <3>2. power' = Credit(Debit(power, source, taken), b, balance[a])
      BY <1>4, <2>4 DEF DelegateTo
    <3>3. power' \in [Address -> Nat]
      BY <2>1, <3>2, DebitType, CreditType
    <3>4. delegation' = [delegation EXCEPT ![a] = [delegatee |-> b, amount |-> balance[a]]]
      BY <1>4, <2>4 DEF DelegateTo
    <3> QED BY <3>1, <3>3, <3>4
  <2> QED BY <2>3, <2>4
<1>5. ASSUME NEW a \in Address, NEW b \in Address, Delegate(a, b) PROVE GovTypeOK'
  BY <1>4, <1>5 DEF Delegate, adminVars, NoExpiry
<1>6. ASSUME NEW a \in Address, NEW b \in Address, NEW t \in 1..MaxTime,
             DelegateWithExpiry(a, b, t)
      PROVE  GovTypeOK'
  <2> QED BY <1>4, <1>6 DEF DelegateWithExpiry, adminVars
<1>7. ASSUME NEW a \in Address, Undelegate(a) PROVE GovTypeOK'
  <2>1. MoveBack(power, a) \in [Address -> Nat]
    BY <1>7, MoveBackType DEF Undelegate
  <2>2. NoDelegation \in Delegation
    BY DEF NoDelegation, Delegation
  <2> QED BY <1>7, <2>1, <2>2 DEF Undelegate, adminVars, NoExpiry
<1>8. ASSUME NEW a \in Address, ExpireDelegation(a) PROVE GovTypeOK'
  <2>1. Delegates(a) => MoveBack(power, a) \in [Address -> Nat]
    BY MoveBackType
  <2>2. NoDelegation \in Delegation
    BY DEF NoDelegation, Delegation
  <2>3. CASE Delegates(a)
    <3>1. /\ power' = MoveBack(power, a)
          /\ delegation' = [delegation EXCEPT ![a] = NoDelegation]
          /\ expiry' = [expiry EXCEPT ![a] = NoExpiry]
          /\ UNCHANGED <<adminVars, balance, delegators, now>>
      BY <1>8, <2>3 DEF ExpireDelegation
    <3> QED BY <2>1, <2>2, <2>3, <3>1 DEF adminVars, NoExpiry
  <2>4. CASE ~Delegates(a)
    BY <1>8, <2>4 DEF ExpireDelegation, adminVars, NoExpiry
  <2> QED BY <2>3, <2>4
<1>9. CASE Tick
  BY <1>9 DEF Tick, adminVars, delegationVars
<1>10. CASE UNCHANGED govVars
  BY <1>10 DEF govVars, adminVars, delegationVars
<1> QED
  BY <1>1, <1>2, <1>3, <1>5, <1>6, <1>7, <1>8, <1>9, <1>10 DEF DelegationNext

(* Every storage entry keeps its type; vote power never goes negative, for *)
(* the floors in delegation.rs and lib.rs (type correctness).              *)
THEOREM DelegationTypeCorrect == DelegationSpec => []GovTypeOK
  BY TypeInit, TypeStep, PTL DEF DelegationSpec

-----------------------------------------------------------------------------
(* The records of delegations, without the powers: what the graph and the  *)
(* lists depend on, also where voting sweeps them.                         *)
Records ==
    /\ balance \in [Address -> Nat]
    /\ delegation \in [Address -> Delegation]
    /\ expiry \in [Address -> Nat]
    /\ delegators \in [Address -> SUBSET Address]

LEMMA NoRecord == NoDelegation \in Delegation /\ NoDelegation.delegatee = NoOne
  BY DEF NoDelegation, Delegation

LEMMA RecordsInit == ASSUME NEW b \in [Address -> Nat], StorageWith(b) PROVE Records
  BY NoRecord DEF StorageWith, Records, NoExpiry

(* What a call may do to the records: nothing, set a balance, delegate or  *)
(* take a delegation back.                                                 *)
Redelegates(a, b) ==
    /\ a # b /\ ~Delegates(b) /\ balance[a] > 0
    /\ delegation' = IF delegation[a].delegatee = b THEN delegation
                     ELSE [delegation EXCEPT ![a] = [delegatee |-> b, amount |-> balance[a]]]
    /\ UNCHANGED balance
    /\ \/ expiry' = [expiry EXCEPT ![a] = NoExpiry] /\ UNCHANGED delegators
       \/ \E t \in 1..MaxTime :
             /\ expiry' = [expiry EXCEPT ![a] = t]
             /\ delegators' = [delegators EXCEPT ![b] = @ \cup {a}]

Withdraws(a) ==
    /\ delegation' = IF Delegates(a) THEN [delegation EXCEPT ![a] = NoDelegation]
                     ELSE delegation
    /\ expiry' = [expiry EXCEPT ![a] = NoExpiry]
    /\ UNCHANGED <<balance, delegators>>

LEMMA RecordsMove ==
    ASSUME [DelegationNext]_govVars
    PROVE  \/ UNCHANGED <<balance, delegation, expiry, delegators>>
           \/ /\ \E a \in Address, n \in Amounts : balance' = [balance EXCEPT ![a] = n]
              /\ UNCHANGED <<delegation, expiry, delegators>>
           \/ \E a, b \in Address : Redelegates(a, b)
           \/ \E a \in Address : Withdraws(a)
<1>1. ASSUME NEW a \in Address, NEW b \in Address, Delegate(a, b) PROVE Redelegates(a, b)
  BY <1>1 DEF Delegate, DelegateTo, Redelegates
<1>2. ASSUME NEW a \in Address, NEW b \in Address, NEW t \in 1..MaxTime,
             DelegateWithExpiry(a, b, t)
      PROVE  Redelegates(a, b)
  BY <1>2 DEF DelegateWithExpiry, DelegateTo, Redelegates
<1>3. ASSUME NEW a \in Address, Undelegate(a) \/ ExpireDelegation(a) PROVE Withdraws(a)
  BY <1>3 DEF Undelegate, ExpireDelegation, Withdraws
<1>4. ASSUME NEW a \in Address, NEW n \in Amounts, SetBalance(a, n)
      PROVE  /\ balance' = [balance EXCEPT ![a] = n]
             /\ UNCHANGED <<delegation, expiry, delegators>>
  BY <1>4 DEF SetBalance
<1>5. CASE \/ \E a \in Admins : TransferAdmin(a)
           \/ Pause \/ Unpause \/ Tick \/ UNCHANGED govVars
  BY <1>5 DEF TransferAdmin, Pause, Unpause, SetPaused, Tick, govVars, delegationVars
<1> QED BY <1>1, <1>2, <1>3, <1>4, <1>5 DEF DelegationNext

LEMMA RecordsStep ==
    ASSUME Records, [DelegationNext]_govVars
    PROVE  Records'
<1>1. ASSUME NEW a \in Address, NEW b \in Address, Redelegates(a, b) PROVE Records'
  <2>1. [delegatee |-> b, amount |-> balance[a]] \in Delegation
    BY DEF Records, Delegation
  <2>2. delegation' \in [Address -> Delegation] /\ balance' \in [Address -> Nat]
    BY <1>1, <2>1 DEF Redelegates, Records
  <2>3. expiry' \in [Address -> Nat] /\ delegators' \in [Address -> SUBSET Address]
    BY <1>1, BoundsAssumption DEF Redelegates, Records, NoExpiry
  <2> QED BY <2>2, <2>3 DEF Records
<1>2. ASSUME NEW a \in Address, Withdraws(a) PROVE Records'
  BY <1>2, NoRecord DEF Withdraws, Records, NoExpiry
<1>3. ASSUME NEW a \in Address, NEW n \in Amounts, balance' = [balance EXCEPT ![a] = n],
             UNCHANGED <<delegation, expiry, delegators>>
      PROVE  Records'
  BY <1>3, AmountsAssumption DEF Records
<1>4. CASE UNCHANGED <<balance, delegation, expiry, delegators>>
  BY <1>4 DEF Records
<1> QED BY <1>1, <1>2, <1>3, <1>4, RecordsMove

LEMMA ListedStep ==
    ASSUME Records, ExpiringIsListed, [DelegationNext]_govVars
    PROVE  ExpiringIsListed'
<1> USE NoOneAssumption DEF Records
<1>1. ASSUME NEW a \in Address, NEW b \in Address, Redelegates(a, b)
      PROVE  ExpiringIsListed'
  <2>1. delegation'[a].delegatee = b /\ b # NoOne
    BY <1>1 DEF Redelegates
  <2>2. ASSUME NEW x \in Address, x # a
        PROVE  /\ delegation'[x] = delegation[x] /\ expiry'[x] = expiry[x]
               /\ \A y \in Address : delegators[y] \subseteq delegators'[y]
    BY <1>1, <2>2 DEF Redelegates
  <2>3. expiry'[a] # NoExpiry => a \in delegators'[b]
    BY <1>1 DEF Redelegates
  <2>4. ASSUME NEW x \in Address, x # a, expiry'[x] # NoExpiry
        PROVE  Delegates(x)' /\ x \in delegators'[delegation'[x].delegatee]
    <3>1. Delegates(x) /\ x \in delegators[delegation[x].delegatee]
      BY <2>2, <2>4 DEF ExpiringIsListed
    <3>2. delegation[x].delegatee \in Address
      BY <3>1 DEF Delegates, Delegation
    <3> QED BY <2>2, <2>4, <3>1, <3>2 DEF Delegates
  <2> QED BY <2>1, <2>3, <2>4 DEF ExpiringIsListed, Delegates
<1>2. ASSUME NEW a \in Address, Withdraws(a) PROVE ExpiringIsListed'
  BY <1>2 DEF Withdraws, ExpiringIsListed, Delegates, NoExpiry
<1>3. ASSUME UNCHANGED <<delegation, expiry, delegators>> PROVE ExpiringIsListed'
  BY <1>3 DEF ExpiringIsListed, Delegates
<1> QED BY <1>1, <1>2, <1>3, RecordsMove

LEMMA ListedInit == ASSUME NEW b, StorageWith(b) PROVE ExpiringIsListed
  BY DEF StorageWith, ExpiringIsListed

(* Whatever re-delegations, renewals and withdrawals came before, every    *)
(* expiring delegation is on the list of its present delegatee, where the  *)
(* sweep looks for it, and no expiry outlives its delegation               *)
(* (delegation_expiry.rs).                                                 *)
THEOREM ExpiringDelegationsAreListed == DelegationSpec => []ExpiringIsListed
<1>1. DelegationInit => Records /\ ExpiringIsListed
  BY RecordsInit, ListedInit, AmountsAssumption DEF DelegationInit
<1>2. Records /\ ExpiringIsListed /\ [DelegationNext]_govVars
         => Records' /\ ExpiringIsListed'
  BY RecordsStep, ListedStep
<1> QED BY <1>1, <1>2, PTL DEF DelegationSpec

-----------------------------------------------------------------------------
(* An edge to a holder that does not delegate closes no cycle: a set of    *)
(* delegators closed under delegation would have to contain that holder.   *)
LEMMA NewEdgeKeepsAcyclic ==
    ASSUME Records, Acyclic, NEW a \in Address, NEW b \in Address, a # b, ~Delegates(b),
           NEW n,
           delegation' = [delegation EXCEPT ![a] = [delegatee |-> b, amount |-> n]]
    PROVE  Acyclic'
<1> SUFFICES ASSUME NEW S \in SUBSET {x \in Address : Delegates(x)'}, S # {},
                    \A x \in S : delegation'[x].delegatee \in S
             PROVE  FALSE
  BY DEF Acyclic
<1>1. b \notin S
  BY DEF Delegates, Records
<1>2. a \notin S
  BY <1>1 DEF Records
<1>3. \A x \in S : Delegates(x) /\ delegation[x].delegatee \in S
  BY <1>2 DEF Delegates, Records
<1> QED BY <1>3 DEF Acyclic

LEMMA FewerEdgesKeepAcyclic ==
    ASSUME Acyclic,
           \A x \in Address : Delegates(x)' => delegation'[x] = delegation[x]
    PROVE  Acyclic'
<1> SUFFICES ASSUME NEW S \in SUBSET {x \in Address : Delegates(x)'}, S # {},
                    \A x \in S : delegation'[x].delegatee \in S
             PROVE  FALSE
  BY DEF Acyclic
<1>1. \A x \in S : Delegates(x) /\ delegation[x].delegatee \in S
  BY DEF Delegates
<1> QED BY <1>1 DEF Acyclic

LEMMA DelegateKeepsAcyclic ==
    ASSUME Records, Acyclic, NEW a \in Address, NEW b \in Address, DelegateTo(a, b)
    PROVE  Acyclic'
<1>1. CASE delegation[a].delegatee = b
  BY <1>1 DEF DelegateTo, Acyclic, Delegates
<1>2. CASE delegation[a].delegatee # b
  BY <1>2, NewEdgeKeepsAcyclic DEF DelegateTo
<1> QED BY <1>1, <1>2

LEMMA AcyclicStep ==
    ASSUME Records, Acyclic, [DelegationNext]_govVars
    PROVE  Acyclic'
<1>1. CASE UNCHANGED delegation
  BY <1>1 DEF Acyclic, Delegates
<1>2. ASSUME NEW a \in Address, NEW b \in Address, DelegateTo(a, b) PROVE Acyclic'
  BY <1>2, DelegateKeepsAcyclic
<1>3. ASSUME NEW a \in Address, delegation' = [delegation EXCEPT ![a] = NoDelegation]
      PROVE  Acyclic'
  BY <1>3, FewerEdgesKeepAcyclic DEF Records, Delegates, NoDelegation
<1>4. CASE DelegationNext
  <2>1. \/ UNCHANGED delegation
        \/ \E a, b \in Address : DelegateTo(a, b)
        \/ \E a \in Address : delegation' = [delegation EXCEPT ![a] = NoDelegation]
    BY <1>4 DEF DelegationNext, TransferAdmin, Pause, Unpause, SetPaused, SetBalance,
                Delegate, DelegateWithExpiry, Undelegate, ExpireDelegation, Tick,
                delegationVars
  <2> QED BY <2>1, <1>1, <1>2, <1>3
<1> QED BY <1>1, <1>4 DEF govVars, delegationVars

LEMMA AcyclicInit == ASSUME NEW b, StorageWith(b) PROVE Acyclic
  BY DEF StorageWith, Acyclic, Delegates, NoDelegation

(* delegate refuses a delegatee that has itself delegated, and that alone  *)
(* keeps the delegation graph free of cycles of any length.                *)
THEOREM DelegationIsAcyclic == DelegationSpec => []Acyclic
<1>1. DelegationInit => Records /\ Acyclic
  BY RecordsInit, AcyclicInit, AmountsAssumption DEF DelegationInit
<1> QED BY <1>1, RecordsStep, AcyclicStep, PTL DEF DelegationSpec

-----------------------------------------------------------------------------
(* The sweep takes back delegations of the voter and to the voter, and     *)
(* drops from the voter's list what is no longer one, or is taken back.    *)
LEMMA SweepKeepsRecords ==
    ASSUME Records, NEW v \in Address, SweepForVoter(v)
    PROVE  Records'
<1>1. delegation' \in [Address -> Delegation]
  BY NoRecord DEF SweepForVoter, Records
<1>2. expiry' \in [Address -> Nat] /\ balance' \in [Address -> Nat]
  BY DEF SweepForVoter, Records, NoExpiry
<1>3. StillDelegating(v) \subseteq Address
  BY DEF StillDelegating, Records
<1>4. delegators' \in [Address -> SUBSET Address]
  BY <1>3 DEF SweepForVoter, Records
<1> QED BY <1>1, <1>2, <1>4 DEF Records

LEMMA SweepKeepsListed ==
    ASSUME Records, ExpiringIsListed, NEW v \in Address, SweepForVoter(v)
    PROVE  ExpiringIsListed'
<1>1. ASSUME NEW a \in Address, expiry'[a] # NoExpiry
      PROVE  Delegates(a)' /\ a \in delegators'[delegation'[a].delegatee]
  <2>1. a \notin Swept(v) /\ expiry'[a] = expiry[a] /\ delegation'[a] = delegation[a]
    BY <1>1 DEF SweepForVoter
  <2>2. Delegates(a) /\ a \in delegators[delegation[a].delegatee]
    BY <1>1, <2>1 DEF ExpiringIsListed
  <2>3. delegation[a].delegatee \in Address
    BY <2>2 DEF Delegates, Records, Delegation
  <2>4. CASE delegation[a].delegatee = v
    <3>1. a \in StillDelegating(v) \ LapsedTo(v)
      BY <2>1, <2>2, <2>4 DEF StillDelegating, Swept
    <3>2. delegators'[v] = StillDelegating(v) \ LapsedTo(v)
      BY DEF SweepForVoter, Records
    <3> QED BY <2>1, <2>2, <2>4, <3>1, <3>2 DEF Delegates
  <2>5. CASE delegation[a].delegatee # v
    <3>1. delegators'[delegation[a].delegatee] = delegators[delegation[a].delegatee]
      BY <2>3, <2>5 DEF SweepForVoter, Records
    <3> QED BY <2>1, <2>2, <3>1 DEF Delegates
  <2> QED BY <2>4, <2>5
<1> QED BY <1>1 DEF ExpiringIsListed

LEMMA SweepKeepsAcyclic ==
    ASSUME Records, Acyclic, NEW v \in Address, SweepForVoter(v)
    PROVE  Acyclic'
<1>1. \A x \in Address : delegation'[x] \in {delegation[x], NoDelegation}
  BY DEF SweepForVoter
<1>2. \A x \in Address : Delegates(x)' => delegation'[x] = delegation[x]
  BY <1>1 DEF Delegates, NoDelegation
<1> QED BY <1>2, FewerEdgesKeepAcyclic

(* Every call is one of delegation, one that leaves delegation alone, or a *)
(* vote with its sweep.                                                    *)
LEMMA CallsMove ==
    ASSUME [Next]_vars
    PROVE  [DelegationNext]_govVars \/ (\E v \in Address : SweepForVoter(v))
           \/ UNCHANGED <<balance, delegation, expiry, delegators>>
<1>1. ASSUME NEW v \in Address, NEW p, NEW f, CastVote(v, p, f) PROVE SweepForVoter(v)
  BY <1>1 DEF CastVote
<1>2. CASE \E a \in Admins : InitializeContract(a)
  BY <1>2 DEF InitializeContract, Initialize, delegationVars
<1>3. CASE DelegationCall
  BY <1>3 DEF DelegationCall
<1>4. CASE ProposalCall
  BY <1>1, <1>4 DEF ProposalCall, CreateProposal, ChangeVote, SetVoteChangeWindow,
                    CancelProposal, FinalizeProposal, ExecuteProposal
<1> QED BY <1>2, <1>3, <1>4 DEF Next, vars

InOrder == Records /\ ExpiringIsListed /\ Acyclic

LEMMA InOrderStep == InOrder /\ [Next]_vars => InOrder'
<1> SUFFICES ASSUME InOrder, [Next]_vars PROVE InOrder'
  OBVIOUS
<1>1. Records /\ ExpiringIsListed /\ Acyclic
  BY DEF InOrder
<1>2. CASE [DelegationNext]_govVars
  BY <1>1, <1>2, RecordsStep, ListedStep, AcyclicStep DEF InOrder
<1>3. ASSUME NEW v \in Address, SweepForVoter(v) PROVE InOrder'
  BY <1>1, <1>3, SweepKeepsRecords, SweepKeepsListed, SweepKeepsAcyclic DEF InOrder
<1>4. CASE UNCHANGED <<balance, delegation, expiry, delegators>>
  BY <1>1, <1>4 DEF InOrder, Records, ExpiringIsListed, Acyclic, Delegates
<1> QED BY <1>2, <1>3, <1>4, CallsMove

(* Votes sweep delegations in between, and yet what expires stays on the   *)
(* list of its delegatee, and no chain of delegations closes, whether or   *)
(* not initialize was called first (delegation_expiry.rs, delegation.rs).  *)
THEOREM SweepsKeepOrder == Spec \/ FreshSpec => [](ExpiringIsListed /\ Acyclic)
<1>1. UninitializedInit => InOrder
  <2>1. [a \in Address |-> 0] \in [Address -> Nat]
    OBVIOUS
  <2> QED BY <2>1, RecordsInit, ListedInit, AcyclicInit DEF UninitializedInit, FreshInit, InOrder
<1>2. Init => InOrder
  BY RecordsInit, ListedInit, AcyclicInit, AmountsAssumption
     DEF Init, DelegationInit, InOrder
<1>3. [DelegationCall \/ ProposalCall]_vars => [Next]_vars
  BY DEF Next
<1>4. InOrder => ExpiringIsListed /\ Acyclic
  BY DEF InOrder
<1> QED BY <1>1, <1>2, <1>3, <1>4, InOrderStep, PTL DEF Spec, FreshSpec

-----------------------------------------------------------------------------
(* The counter is past every proposal, so that none is created twice; and  *)
(* a vote is a weight with a side.                                         *)
Shape ==
    /\ proposals = [p \in ProposalId |-> proposals[p]]
    /\ proposalCount \in Nat
    /\ \A p \in ProposalId : Exists(p) => p < proposalCount
    /\ votes = [p \in ProposalId |-> [v \in Address |-> votes[p][v]]]
    /\ \A p \in ProposalId, v \in Address :
          votes[p][v] = [weight |-> votes[p][v].weight, inFavor |-> votes[p][v].inFavor]

SpecNext == DelegationCall \/ ProposalCall

(* What a call does to proposals and votes.                                *)
Decides(p) ==
    /\ \/ IsActive(p)
       \/ /\ proposals[p].status = "Passed"
          /\ proposals' = [proposals EXCEPT ![p].status = "Executed"]
    /\ \E prop : proposals' = [proposals EXCEPT ![p] = prop]
    /\ UNCHANGED <<votes, proposalCount>>

VotesOn(v, p) ==
    /\ IsActive(p)
    /\ \E prop : proposals' = [proposals EXCEPT ![p] = prop]
    /\ \/ /\ ~HasVoted(p, v)
          /\ \E w, f : votes' = [votes EXCEPT ![p][v] = [weight |-> w, inFavor |-> f]]
       \/ \E f : votes' = [votes EXCEPT ![p][v].inFavor = f]
    /\ UNCHANGED proposalCount

LEMMA ProposalsMove ==
    ASSUME Shape, [SpecNext]_vars
    PROVE  \/ UNCHANGED <<proposals, votes, proposalCount>>
           \/ /\ proposalCount < MaxProposals /\ proposalCount' = proposalCount + 1
              /\ \E prop : proposals' = [proposals EXCEPT ![proposalCount] = prop]
              /\ UNCHANGED votes
           \/ \E p \in ProposalId : Decides(p)
           \/ \E v \in Address, p \in ProposalId : VotesOn(v, p)
<1>1. ASSUME NEW c, NEW d, NEW q, NEW t, CreateProposal(c, d, q, t)
      PROVE  /\ proposalCount < MaxProposals /\ proposalCount' = proposalCount + 1
             /\ \E prop : proposals' = [proposals EXCEPT ![proposalCount] = prop]
             /\ UNCHANGED votes
  BY <1>1 DEF CreateProposal
<1>2. ASSUME NEW v \in Address, NEW p \in ProposalId, NEW f, CastVote(v, p, f)
      PROVE  VotesOn(v, p)
  <2>1. proposals' = [proposals EXCEPT ![p] = AddVote(proposals[p], Weight(v), f)]
    BY <1>2 DEF CastVote
  <2>2. votes' = [votes EXCEPT ![p][v] = [weight |-> Weight(v), inFavor |-> f]]
    BY <1>2 DEF CastVote
  <2>3. IsActive(p) /\ ~HasVoted(p, v) /\ proposalCount' = proposalCount
    BY <1>2 DEF CastVote
  <2> QED BY <2>1, <2>2, <2>3 DEF VotesOn
<1>3. ASSUME NEW v \in Address, NEW p \in ProposalId, ChangeVote(v, p)
      PROVE  VotesOn(v, p)
  <2>1. \E prop : proposals' = [proposals EXCEPT ![p] = prop]
    BY <1>3 DEF ChangeVote
  <2>2. \E f : votes' = [votes EXCEPT ![p][v].inFavor = f]
    BY <1>3 DEF ChangeVote
  <2>3. IsActive(p) /\ proposalCount' = proposalCount
    BY <1>3 DEF ChangeVote
  <2> QED BY <2>1, <2>2, <2>3 DEF VotesOn
<1>4. ASSUME NEW p \in ProposalId,
             \/ \E c \in Proposers : CancelProposal(c, p)
             \/ FinalizeProposal(p) \/ ExecuteProposal(p)
      PROVE  Decides(p)
  <2>1. \E s : proposals' = [proposals EXCEPT ![p].status = s]
    BY <1>4 DEF CancelProposal, FinalizeProposal, ExecuteProposal
  <2>2. \E prop : proposals' = [proposals EXCEPT ![p] = prop]
    BY <2>1
  <2> QED BY <1>4, <2>2 DEF CancelProposal, FinalizeProposal, ExecuteProposal, Decides
<1>5. CASE DelegationCall \/ UNCHANGED vars \/ \E w \in Windows \cup {NoWindow} : SetVoteChangeWindow(w)
  BY <1>5 DEF DelegationCall, SetVoteChangeWindow, vars, proposalVars
<1> QED BY <1>1, <1>2, <1>3, <1>4, <1>5 DEF SpecNext, ProposalCall

LEMMA StatusExists ==
    ASSUME NEW p, proposals[p].status \in {"Active", "Passed"} PROVE Exists(p)
  BY DEF Exists, NoProposal

(* Replacing one proposal that exists, or creating the next one.           *)
LEMMA PutProposal ==
    ASSUME Shape, NEW p \in ProposalId, NEW prop, proposals' = [proposals EXCEPT ![p] = prop]
    PROVE  /\ proposals' = [q \in ProposalId |-> proposals'[q]]
           /\ \A q \in ProposalId : q # p => proposals'[q] = proposals[q]
  BY DEF Shape

LEMMA PutVote ==
    ASSUME Shape, NEW p \in ProposalId, NEW v \in Address, VotesOn(v, p)
    PROVE  /\ votes' = [q \in ProposalId |-> [x \in Address |-> votes'[q][x]]]
           /\ \A q \in ProposalId, x \in Address : votes'[q][x] =
                 [weight |-> votes'[q][x].weight, inFavor |-> votes'[q][x].inFavor]
           /\ \A q \in ProposalId : q # p => votes'[q] = votes[q]
           /\ \A q \in ProposalId, x \in Address :
                 HasVoted(q, x) => votes'[q][x].weight = votes[q][x].weight
<1>1. ASSUME NEW t, votes' = [votes EXCEPT ![p][v] = t]
      PROVE  /\ votes' = [q \in ProposalId |-> [x \in Address |-> votes'[q][x]]]
             /\ \A q \in ProposalId : q # p => votes'[q] = votes[q]
             /\ votes'[p][v] = t
             /\ \A q \in ProposalId, x \in Address :
                   q # p \/ x # v => votes'[q][x] = votes[q][x]
  <2>1. /\ votes = [q \in ProposalId |-> votes[q]]
        /\ \A q \in ProposalId : votes[q] = [x \in Address |-> votes[q][x]]
    BY DEF Shape
  <2>2. votes' = [q \in ProposalId |->
                    IF q = p THEN [votes[p] EXCEPT ![v] = t] ELSE votes[q]]
    BY <1>1, <2>1
  <2>3. [votes[p] EXCEPT ![v] = t] = [x \in Address |-> IF x = v THEN t ELSE votes[p][x]]
    BY <2>1
  <2>4. \A q \in ProposalId, x \in Address :
           votes'[q][x] = IF q = p /\ x = v THEN t ELSE votes[q][x]
    BY <2>2, <2>3
  <2>5. \A q \in ProposalId : votes'[q] = [x \in Address |-> votes'[q][x]]
    <3>1. votes'[p] = [x \in Address |-> IF x = v THEN t ELSE votes[p][x]]
      BY <2>2, <2>3
    <3>2. votes'[p] = [x \in Address |-> votes'[p][x]]
      BY <3>1
    <3> QED BY <2>1, <2>2, <3>2
  <2>6. votes' = [q \in ProposalId |-> [x \in Address |-> votes'[q][x]]]
    BY <2>2, <2>5
  <2> QED BY <2>2, <2>4, <2>6
<1>2. CASE ~HasVoted(p, v) /\ \E w, f :
              votes' = [votes EXCEPT ![p][v] = [weight |-> w, inFavor |-> f]]
  <2>1. PICK w, f : votes' = [votes EXCEPT ![p][v] = [weight |-> w, inFavor |-> f]]
    BY <1>2
  <2> DEFINE t == [weight |-> w, inFavor |-> f]
  <2>2. votes' = [votes EXCEPT ![p][v] = t] /\ t = [weight |-> t.weight, inFavor |-> t.inFavor]
    BY <2>1
  <2> HIDE DEF t
  <2>3. \A q \in ProposalId, x \in Address :
           votes'[q][x] = [weight |-> votes'[q][x].weight, inFavor |-> votes'[q][x].inFavor]
    BY <1>1, <2>2 DEF Shape
  <2>4. \A q \in ProposalId, x \in Address :
           HasVoted(q, x) => votes'[q][x].weight = votes[q][x].weight
    BY <1>1, <1>2, <2>2
  <2> QED BY <1>1, <2>2, <2>3, <2>4
<1>3. CASE \E f : votes' = [votes EXCEPT ![p][v].inFavor = f]
  <2>1. PICK f : votes' = [votes EXCEPT ![p][v].inFavor = f]
    BY <1>3
  <2> DEFINE t == [votes[p][v] EXCEPT !.inFavor = f]
  <2>2. votes' = [votes EXCEPT ![p][v] = t]
    BY <2>1
  <2>3. votes[p][v] = [weight |-> votes[p][v].weight, inFavor |-> votes[p][v].inFavor]
    BY DEF Shape
  <2>4. t = [weight |-> t.weight, inFavor |-> t.inFavor] /\ t.weight = votes[p][v].weight
    BY <2>3
  <2> HIDE DEF t
  <2>5. /\ votes' = [q \in ProposalId |-> [x \in Address |-> votes'[q][x]]]
        /\ \A q \in ProposalId : q # p => votes'[q] = votes[q]
        /\ votes'[p][v] = t
        /\ \A q \in ProposalId, x \in Address :
              q # p \/ x # v => votes'[q][x] = votes[q][x]
    BY <1>1, <2>2
  <2>6. \A q \in ProposalId, x \in Address :
           votes'[q][x] = [weight |-> votes'[q][x].weight, inFavor |-> votes'[q][x].inFavor]
    BY <2>4, <2>5 DEF Shape
  <2>7. \A q \in ProposalId, x \in Address : votes'[q][x].weight = votes[q][x].weight
    BY <2>4, <2>5
  <2> QED BY <2>5, <2>6, <2>7
<1> QED BY <1>2, <1>3 DEF VotesOn

LEMMA ShapeStep == Shape /\ [SpecNext]_vars => Shape'
<1> SUFFICES ASSUME Shape, [SpecNext]_vars PROVE Shape'
  OBVIOUS
<1> USE VotingAssumption
<1>1. CASE UNCHANGED <<proposals, votes, proposalCount>>
  BY <1>1 DEF Shape, Exists
<1>2. ASSUME NEW p \in ProposalId, Exists(p), UNCHANGED proposalCount,
             \E prop : proposals' = [proposals EXCEPT ![p] = prop]
      PROVE  /\ proposals' = [q \in ProposalId |-> proposals'[q]]
             /\ proposalCount' \in Nat
             /\ \A q \in ProposalId : Exists(q)' => q < proposalCount'
  <2>1. /\ proposals' = [q \in ProposalId |-> proposals'[q]]
        /\ \A q \in ProposalId : q # p => proposals'[q] = proposals[q]
    BY <1>2, PutProposal
  <2> QED BY <1>2, <2>1 DEF Shape, Exists
<1>3. ASSUME proposalCount < MaxProposals, proposalCount' = proposalCount + 1,
             \E prop : proposals' = [proposals EXCEPT ![proposalCount] = prop],
             UNCHANGED votes
      PROVE  Shape'
  <2>1. proposalCount \in ProposalId
    BY <1>3 DEF Shape, ProposalId
  <2>2. PICK prop : proposals' = [proposals EXCEPT ![proposalCount] = prop]
    BY <1>3
  <2>3. ASSUME NEW n \in ProposalId, n = proposalCount
        PROVE  /\ proposals' = [q \in ProposalId |-> proposals'[q]]
               /\ \A q \in ProposalId : q # n => proposals'[q] = proposals[q]
    BY <2>2, <2>3, PutProposal
  <2>4. /\ proposals' = [q \in ProposalId |-> proposals'[q]]
        /\ \A q \in ProposalId : q # proposalCount => proposals'[q] = proposals[q]
    BY <2>1, <2>3
  <2>5. \A q \in ProposalId : Exists(q)' => q < proposalCount'
    BY <1>3, <2>1, <2>4 DEF Shape, Exists, ProposalId
  <2> QED BY <1>3, <2>4, <2>5 DEF Shape
<1>4. ASSUME NEW p \in ProposalId, Decides(p) PROVE Shape'
  <2>1. Exists(p)
    BY <1>4, StatusExists DEF Decides, IsActive
  <2>2. /\ proposals' = [q \in ProposalId |-> proposals'[q]]
        /\ proposalCount' \in Nat
        /\ \A q \in ProposalId : Exists(q)' => q < proposalCount'
    BY <1>2, <1>4, <2>1 DEF Decides
  <2> QED BY <1>4, <2>2 DEF Decides, Shape
<1>5. ASSUME NEW v \in Address, NEW p \in ProposalId, VotesOn(v, p) PROVE Shape'
  <2>1. Exists(p)
    BY <1>5, StatusExists DEF VotesOn, IsActive
  <2>2. /\ proposals' = [q \in ProposalId |-> proposals'[q]]
        /\ proposalCount' \in Nat
        /\ \A q \in ProposalId : Exists(q)' => q < proposalCount'
    BY <1>2, <1>5, <2>1 DEF VotesOn
  <2> QED BY <1>5, <2>2, PutVote DEF Shape
<1> QED BY <1>1, <1>3, <1>4, <1>5, ProposalsMove

LEMMA ShapeInit == NoProposals => Shape
  BY VotingAssumption DEF NoProposals, Shape, Exists, NoVote

LEMMA ShapeHolds == Spec => []Shape
  BY ShapeInit, ShapeStep, PTL DEF Spec, Init, SpecNext

(* Once a proposal has left Active, its tallies and the votes on it are    *)
(* final and all it can still do is to be executed, once: no counter ever  *)
(* comes back to its number (lib.rs, create_proposal to execute_proposal). *)
THEOREM ClosedProposalsStayClosed == Spec => ClosedStaysClosed
<1>1. ASSUME Shape, [SpecNext]_vars, NEW p \in ProposalId, Exists(p), ~IsActive(p)
      PROVE  /\ votes'[p] = votes[p]
             /\ \/ proposals'[p] = proposals[p]
                \/ /\ proposals[p].status = "Passed"
                   /\ proposals'[p] = [proposals[p] EXCEPT !.status = "Executed"]
  <2>1. CASE UNCHANGED <<proposals, votes, proposalCount>>
    BY <2>1
  <2>2. CASE /\ proposalCount < MaxProposals
             /\ \E prop : proposals' = [proposals EXCEPT ![proposalCount] = prop]
             /\ UNCHANGED votes
    <3>1. p < proposalCount /\ p # proposalCount
      BY <1>1 DEF Shape, ProposalId
    <3> QED BY <2>2, <3>1 DEF Shape
  <2>3. ASSUME NEW q \in ProposalId, Decides(q)
        PROVE  /\ votes'[p] = votes[p]
               /\ \/ proposals'[p] = proposals[p]
                  \/ /\ proposals[p].status = "Passed"
                     /\ proposals'[p] = [proposals[p] EXCEPT !.status = "Executed"]
    <3>1. CASE q = p
      BY <1>1, <2>3, <3>1 DEF Decides, Shape
    <3>2. CASE q # p
      BY <1>1, <2>3, <3>2 DEF Decides, Shape
    <3> QED BY <3>1, <3>2
  <2>4. ASSUME NEW v \in Address, NEW q \in ProposalId, VotesOn(v, q)
        PROVE  votes'[p] = votes[p] /\ proposals'[p] = proposals[p]
    <3>1. q # p
      BY <1>1, <2>4 DEF VotesOn
    <3> QED BY <1>1, <2>4, <3>1, PutVote, PutProposal DEF VotesOn
  <2> QED BY <1>1, <2>1, <2>2, <2>3, <2>4, ProposalsMove
<1>2. Shape /\ [SpecNext]_vars =>
        [\A p \in ProposalId : Exists(p) /\ ~IsActive(p) =>
            /\ votes'[p] = votes[p]
            /\ \/ proposals'[p] = proposals[p]
               \/ /\ proposals[p].status = "Passed"
                  /\ proposals'[p] = [proposals[p] EXCEPT !.status = "Executed"]]_vars
  BY <1>1
<1> QED BY <1>2, ShapeHolds, PTL DEF Spec, SpecNext, ClosedStaysClosed

(* Nothing withdraws a vote or changes the weight it was cast with, not    *)
(* even flipping it after the power is gone (vote_change.rs, lib.rs).      *)
THEOREM VoteWeightsAreFinal == Spec => WeightIsFinal
<1>1. ASSUME Shape, [SpecNext]_vars, NEW p \in ProposalId, NEW v \in Address, HasVoted(p, v)
      PROVE  votes'[p][v].weight = votes[p][v].weight
  <2>1. ASSUME NEW x \in Address, NEW q \in ProposalId, VotesOn(x, q)
        PROVE  votes'[p][v].weight = votes[p][v].weight
    BY <1>1, <2>1, PutVote
  <2> QED BY <1>1, <2>1, ProposalsMove DEF Decides
<1>2. Shape /\ [SpecNext]_vars =>
        [\A p \in ProposalId, v \in Address :
            HasVoted(p, v) => votes'[p][v].weight = votes[p][v].weight]_vars
  BY <1>1
<1> QED BY <1>2, ShapeHolds, PTL DEF Spec, SpecNext, WeightIsFinal

(* Both, as the runs check them.                                           *)
THEOREM VotesAlwaysStand == Spec => VotesStand
BY ClosedProposalsStayClosed, VoteWeightsAreFinal DEF VotesStand

-----------------------------------------------------------------------------
(* Types of the whole contract, and tallies.                               *)

LEMMA NoOneElse == NoOne \notin Address
BY NoOneAssumption

LEMMA SomeAddresses == ASSUME NEW T \in SUBSET Address PROVE IsFiniteSet(T)
BY AddressAssumption, FS_Subset

LEMMA LapsedToVoter ==
    ASSUME Records, NEW v \in Address
    PROVE  /\ LapsedTo(v) \in SUBSET Address
           /\ \A a \in LapsedTo(v) : delegation[a].delegatee = v /\ Lapsed(a)
BY DEF LapsedTo, StillDelegating, Records

LEMMA ReceivedType ==
    ASSUME Records
    PROVE  /\ Received \in [Address -> Nat]
           /\ \A T \in SUBSET Address : SumFunctionOnSet(Received, T) \in Nat
<1>1. Received \in [Address -> Nat] BY DEF Received, Records, Delegation
<1>2. ASSUME NEW T \in SUBSET Address PROVE SumFunctionOnSet(Received, T) \in Nat
  <2>1. IsFiniteSet(T) /\ \A x \in T : Received[x] \in Nat BY <1>1, SomeAddresses
  <2> QED BY ONLY <2>1, SumNat
<1> QED BY <1>1, <1>2

LEMMA SweptPowerType ==
    ASSUME Records, power \in [Address -> Nat], NEW v \in Address
    PROVE  SweptPower(v) \in [Address -> Nat]
<1> DEFINE home == IF OwnLapsed(v) = {} THEN power ELSE MoveBack(power, v)
           left == Debit(home, v, SumFunctionOnSet(Received, LapsedTo(v)))
<1>1. home \in [Address -> Nat]
  <2>1. OwnLapsed(v) # {} => Delegates(v) BY DEF OwnLapsed
  <2> QED BY <2>1, MoveBackType DEF Records
<1>2. SumFunctionOnSet(Received, LapsedTo(v)) \in Nat BY LapsedToVoter, ReceivedType
<1> HIDE DEF home
<1>3. left \in [Address -> Nat] BY <1>1, <1>2, DebitType
<1>4. SweptPower(v) = [a \in Address |-> IF a \in LapsedTo(v)
                                         THEN left[a] + delegation[a].amount ELSE left[a]]
  BY DEF SweptPower, home
<1> HIDE DEF left
<1>5. \A a \in Address : delegation[a].amount \in Nat BY DEF Records, Delegation
<1> QED BY <1>3, <1>4, <1>5

LEMMA AllTypesStep ==
    ASSUME GovTypeOK, [SpecNext]_vars
    PROVE  GovTypeOK'
<1>1. Records BY DEF GovTypeOK, Records
<1>2. CASE [DelegationNext]_govVars BY <1>2, TypeStep
<1>3. ASSUME NEW v \in Address, SweepForVoter(v) PROVE GovTypeOK'
  <2>1. Records' BY <1>1, <1>3, SweepKeepsRecords
  <2>2. power' \in [Address -> Nat] BY <1>1, <1>3, SweptPowerType DEF GovTypeOK, SweepForVoter
  <2>3. UNCHANGED <<admin, paused, now>> BY <1>3 DEF SweepForVoter, adminVars
  <2> QED BY <2>1, <2>2, <2>3 DEF GovTypeOK, Records
<1>4. CASE UNCHANGED govVars BY <1>4, TypeStep
<1>5. ASSUME NEW v \in Address, NEW p, NEW f, CastVote(v, p, f) PROVE SweepForVoter(v)
  BY <1>5 DEF CastVote
<1>6. [DelegationNext]_govVars \/ (\E v \in Address : SweepForVoter(v)) \/ UNCHANGED govVars
  BY <1>5 DEF SpecNext, DelegationCall, ProposalCall, CreateProposal, ChangeVote,
     SetVoteChangeWindow, CancelProposal, FinalizeProposal, ExecuteProposal, vars
<1> QED BY <1>2, <1>3, <1>4, <1>6

(* What the ballots of one side weigh: a sum over all accounts, to which   *)
(* whoever did not vote adds nothing.                                      *)
SideOf(ballot, side) ==
    [v \in Address |-> IF ballot[v].inFavor = side THEN ballot[v].weight ELSE 0]
Tally(ballot, side) == SumFunctionOnSet(SideOf(ballot, side), Address)

LEMMA SideType ==
    ASSUME NEW b \in [Address -> Vote], NEW side \in BOOLEAN
    PROVE  SideOf(b, side) \in [Address -> Nat] /\ Tally(b, side) \in Nat
<1>1. \A v \in Address : b[v].weight \in Nat BY DEF Vote
<1>2. SideOf(b, side) \in [Address -> Nat] BY <1>1 DEF SideOf
<1>3. \A v \in Address : SideOf(b, side)[v] \in Nat BY <1>2
<1>4. SumFunctionOnSet(SideOf(b, side), Address) \in Nat
  BY ONLY <1>3, AddressAssumption, SumNat
<1> QED BY <1>2, <1>4 DEF Tally

LEMMA TallyChanges ==
    ASSUME NEW b \in [Address -> Vote], NEW c \in [Address -> Vote], NEW v \in Address,
           \A x \in Address \ {v} : c[x] = b[x], NEW side \in BOOLEAN
    PROVE  Tally(c, side) = Tally(b, side)
              + (IF c[v].inFavor = side THEN c[v].weight ELSE 0)
              - (IF b[v].inFavor = side THEN b[v].weight ELSE 0)
<1> DEFINE before == SideOf(b, side)
           after == SideOf(c, side)
<1>1. before \in [Address -> Nat] /\ after \in [Address -> Nat] BY SideType
<1>2. \A x \in Address \ {v} : after[x] = before[x] BY DEF SideOf
<1>3. /\ after[v] = IF c[v].inFavor = side THEN c[v].weight ELSE 0
      /\ before[v] = IF b[v].inFavor = side THEN b[v].weight ELSE 0
  BY DEF SideOf
<1> HIDE DEF before, after
<1>4. \A x \in Address : before[x] \in Int /\ after[x] \in Int BY <1>1
<1>5. SumFunctionOnSet(after, Address) = SumFunctionOnSet(before, Address) + after[v] - before[v]
  <2>1. IsFiniteSet(Address) /\ v \in Address BY AddressAssumption
  <2>2. \A x \in Address \ {v} : after[x] = before[x] BY <1>2
  <2> QED BY <1>4, <2>1, <2>2, SumUpdate
<1> QED BY <1>3, <1>5 DEF Tally, before, after

(* The same as the sum over those who voted for that side.                 *)
LEMMA TallyOfVoters ==
    ASSUME NEW b \in [Address -> Vote], NEW side \in BOOLEAN
    PROVE  Tally(b, side) = SumFunctionOnSet([v \in Address |-> b[v].weight],
                               {v \in Address : b[v] # NoVote /\ b[v].inFavor = side})
<1> DEFINE f == SideOf(b, side)
           w == [v \in Address |-> b[v].weight]
           T == {v \in Address : b[v] # NoVote /\ b[v].inFavor = side}
<1>1. f \in [Address -> Nat] BY SideType
<1>2. T \in SUBSET Address /\ IsFiniteSet(T) BY SomeAddresses
<1>3. \A v \in Address \ T : f[v] = 0 BY DEF SideOf, NoVote
<1>4. \A v \in T : w[v] = f[v] BY DEF SideOf
<1> HIDE DEF f, w, T
<1>5. \A v \in Address : f[v] \in Int BY <1>1
<1>6. SumFunctionOnSet(f, Address) = SumFunctionOnSet(f, T)
  BY ONLY <1>2, <1>3, <1>5, AddressAssumption, SumOfSupport
<1>7. \A v \in T : f[v] \in Int /\ w[v] = f[v] BY <1>2, <1>4, <1>5
<1>8. SumFunctionOnSet(w, T) = SumFunctionOnSet(f, T) BY ONLY <1>2, <1>7, SumSame
<1> QED BY <1>6, <1>8 DEF Tally, f, w, T

LEMMA NoBallots ==
    ASSUME NEW side \in BOOLEAN
    PROVE  Tally([v \in Address |-> NoVote], side) = 0
<1> DEFINE f == SideOf([v \in Address |-> NoVote], side)
<1>1. \A v \in Address : f[v] = 0 BY DEF SideOf, NoVote
<1> HIDE DEF f
<1>2. SumFunctionOnSet(f, Address) = 0 BY ONLY <1>1, AddressAssumption, SumZero
<1> QED BY <1>2 DEF Tally, f

(* What is decided was decided after the end of voting, and as the stored  *)
(* tallies say; and a slot that the counter has not reached holds neither  *)
(* a proposal nor votes, so that tallies begin at zero.                    *)
Settled(prop) ==
    prop.status \in Decided => now > prop.votingEnd /\ prop.status \in Verdict(prop)

Tallied(prop, ballot) ==
    /\ prop.votesFor = Tally(ballot, TRUE)
    /\ prop.votesAgainst = Tally(ballot, FALSE)

Unused(p) == proposals[p] = NoProposal /\ votes[p] = [v \in Address |-> NoVote]

VotingInv ==
    /\ TypeOK
    /\ \A p \in ProposalId : p >= proposalCount => Unused(p)
    /\ \A p \in ProposalId : Exists(p) => /\ Tallied(proposals[p], votes[p])
                                          /\ Settled(proposals[p])

LEMMA ProposalShapes ==
    /\ NoProposal.status = "None" /\ NoProposal \notin Proposal
    /\ \A prop \in Proposal :
          /\ prop.votesFor \in Nat /\ prop.votesAgainst \in Nat /\ prop.votingEnd \in Nat
          /\ prop.quorum \in Nat /\ prop.threshold \in Nat /\ prop.status \in Status
BY DEF NoProposal, Proposal, Status

LEMMA ProposalIs ==
    ASSUME VotingInv, NEW p \in ProposalId, proposals[p].status # "None"
    PROVE  /\ proposals[p] \in Proposal /\ Exists(p) /\ Tallied(proposals[p], votes[p])
           /\ Settled(proposals[p]) /\ votes[p] \in [Address -> Vote]
<1>1. proposals[p] \in Proposal \cup {NoProposal} /\ votes[p] \in [Address -> Vote]
  BY DEF VotingInv, TypeOK, VotingTypeOK
<1>2. Exists(p) BY ProposalShapes DEF Exists
<1> QED BY <1>1, <1>2 DEF VotingInv, Exists

(* A call that writes one proposal and its votes.                          *)
LEMMA OneProposal ==
    ASSUME VotingInv, GovTypeOK', now' = now, NEW p \in ProposalId, Exists(p),
           NEW prop \in Proposal, NEW ballot \in [Address -> Vote],
           proposals' = [proposals EXCEPT ![p] = prop],
           votes' = [votes EXCEPT ![p] = ballot],
           UNCHANGED <<proposalCount, changeWindow>>,
           Tallied(prop, ballot), Settled(prop)
    PROVE  VotingInv'
<1>1. /\ proposals \in [ProposalId -> Proposal \cup {NoProposal}]
      /\ votes \in [ProposalId -> [Address -> Vote]]
  BY DEF VotingInv, TypeOK, VotingTypeOK
<1>2. /\ proposals' \in [ProposalId -> Proposal \cup {NoProposal}]
      /\ votes' \in [ProposalId -> [Address -> Vote]]
  BY <1>1
<1>3. /\ proposals'[p] = prop /\ votes'[p] = ballot
      /\ \A q \in ProposalId : q # p => proposals'[q] = proposals[q] /\ votes'[q] = votes[q]
  BY <1>1
<1>4. TypeOK' BY <1>2 DEF VotingInv, TypeOK, VotingTypeOK
<1>5. ASSUME NEW q \in ProposalId, q >= proposalCount' PROVE Unused(q)'
  <2>1. Unused(q) BY <1>5 DEF VotingInv
  <2>2. q # p BY <2>1 DEF Unused, Exists
  <2> QED BY <1>3, <2>1, <2>2 DEF Unused
<1>6. ASSUME NEW q \in ProposalId, Exists(q)'
      PROVE  Tallied(proposals'[q], votes'[q]) /\ Settled(proposals[q])'
  <2>1. CASE q = p BY <1>3, <2>1 DEF Settled
  <2>2. CASE q # p
    <3>1. Exists(q) BY <1>3, <1>6, <2>2 DEF Exists
    <3>2. Tallied(proposals[q], votes[q]) /\ Settled(proposals[q]) BY <3>1 DEF VotingInv
    <3> QED BY <1>3, <2>2, <3>2 DEF Settled
  <2> QED BY <2>1, <2>2
<1> QED BY <1>4, <1>5, <1>6 DEF VotingInv, Tallied

LEMMA CastStep ==
    ASSUME VotingInv, GovTypeOK', NEW v \in Address, NEW p \in ProposalId, NEW f \in BOOLEAN,
           CastVote(v, p, f)
    PROVE  VotingInv'
<1> DEFINE w == Weight(v)
           b == votes[p]
           c == [b EXCEPT ![v] = [weight |-> w, inFavor |-> f]]
           prop == AddVote(proposals[p], w, f)
<1>1. IsActive(p) /\ ~HasVoted(p, v) /\ proposals[p].status = "Active"
  BY DEF CastVote, IsActive
<1>2. /\ proposals[p] \in Proposal /\ Exists(p) /\ Tallied(proposals[p], b)
      /\ b \in [Address -> Vote]
  BY <1>1, ProposalIs
<1>3. w \in Nat
  <2>1. Records /\ power \in [Address -> Nat] BY DEF VotingInv, TypeOK, GovTypeOK, Records
  <2>2. SweptPower(v)[v] \in Nat /\ balance[v] \in Nat BY <2>1, SweptPowerType DEF Records
  <2> QED BY <2>2 DEF Weight
<1>4. /\ proposals' = [proposals EXCEPT ![p] = prop] /\ votes' = [votes EXCEPT ![p] = c]
      /\ UNCHANGED <<now, proposalCount, changeWindow>>
  BY DEF CastVote, SweepForVoter
<1>5. b[v] = NoVote BY <1>1 DEF HasVoted
<1> HIDE DEF w
<1>6. [weight |-> w, inFavor |-> f] \in Vote BY <1>3 DEF Vote
<1>7. /\ c \in [Address -> Vote] /\ c[v] = [weight |-> w, inFavor |-> f]
      /\ \A x \in Address \ {v} : c[x] = b[x]
  BY <1>2, <1>6
<1>8. c[v].weight = w /\ c[v].inFavor = f /\ b[v].weight = 0 BY <1>5, <1>7 DEF NoVote
<1>9. /\ prop \in Proposal /\ prop.status = "Active"
      /\ prop.votesFor = proposals[p].votesFor + (IF f THEN w ELSE 0)
      /\ prop.votesAgainst = proposals[p].votesAgainst + (IF f THEN 0 ELSE w)
  BY <1>1, <1>2, <1>3 DEF Proposal, AddVote
<1> HIDE DEF b, c, prop
<1>10. ASSUME NEW side \in BOOLEAN
       PROVE  Tally(c, side) = Tally(b, side) + (IF f = side THEN w ELSE 0)
  <2>1. Tally(c, side) = Tally(b, side) + (IF c[v].inFavor = side THEN c[v].weight ELSE 0)
                            - (IF b[v].inFavor = side THEN b[v].weight ELSE 0)
    BY <1>2, <1>7, TallyChanges
  <2>2. Tally(b, side) \in Nat BY <1>2, SideType
  <2> QED BY <1>3, <1>8, <2>1, <2>2
<1>11. Tallied(prop, c)
  <2>1. /\ Tally(c, TRUE) = Tally(b, TRUE) + (IF f = TRUE THEN w ELSE 0)
        /\ Tally(c, FALSE) = Tally(b, FALSE) + (IF f = FALSE THEN w ELSE 0)
    BY <1>10
  <2> QED BY <1>2, <1>9, <2>1 DEF Tallied
<1>12. Settled(prop) BY <1>9 DEF Settled, Decided
<1> QED BY <1>2, <1>4, <1>7, <1>9, <1>11, <1>12, OneProposal

LEMMA FlipStep ==
    ASSUME VotingInv, GovTypeOK', NEW v \in Address, NEW p \in ProposalId, ChangeVote(v, p)
    PROVE  VotingInv'
<1> DEFINE b == votes[p]
           w == b[v].weight
           f == b[v].inFavor
           c == [b EXCEPT ![v] = [@ EXCEPT !.inFavor = ~f]]
           prop == [proposals[p] EXCEPT !.votesFor = IF f THEN @ - w ELSE @ + w,
                                        !.votesAgainst = IF f THEN @ + w ELSE @ - w]
<1>1. IsActive(p) /\ proposals[p].status = "Active" BY DEF ChangeVote, IsActive
<1>2. /\ proposals[p] \in Proposal /\ Exists(p) /\ Tallied(proposals[p], b)
      /\ b \in [Address -> Vote]
  BY <1>1, ProposalIs
<1>3. /\ votes' = [votes EXCEPT ![p] = c] /\ proposals' = [proposals EXCEPT ![p] = prop]
      /\ UNCHANGED <<now, proposalCount, changeWindow>>
  BY DEF ChangeVote, govVars
<1>4. b[v] \in Vote /\ w \in Nat /\ f \in BOOLEAN BY <1>2 DEF Vote
<1>5. /\ c \in [Address -> Vote] /\ c[v].weight = w /\ c[v].inFavor = ~f
      /\ \A x \in Address \ {v} : c[x] = b[x]
  <2>1. [b[v] EXCEPT !.inFavor = ~f] \in Vote BY <1>4 DEF Vote
  <2>2. c[v] = [b[v] EXCEPT !.inFavor = ~f] BY <1>2
  <2>3. c[v].weight = w /\ c[v].inFavor = ~f BY <1>4, <2>2 DEF Vote
  <2> QED BY <1>2, <2>1, <2>3
<1>6. /\ proposals[p].votesFor \in Nat /\ proposals[p].votesAgainst \in Nat
      /\ proposals[p].votesFor = Tally(b, TRUE) /\ proposals[p].votesAgainst = Tally(b, FALSE)
  BY <1>2, ProposalShapes DEF Tallied
<1>7. ASSUME NEW side \in BOOLEAN
      PROVE  /\ Tally(c, side) \in Nat /\ Tally(b, side) \in Nat
             /\ Tally(c, side) = IF f = side THEN Tally(b, side) - w ELSE Tally(b, side) + w
  <2> HIDE DEF b, c, w, f
  <2>1. Tally(c, side) \in Nat /\ Tally(b, side) \in Nat BY <1>2, <1>5, SideType
  <2>2. Tally(c, side) = Tally(b, side) + (IF c[v].inFavor = side THEN c[v].weight ELSE 0)
                            - (IF b[v].inFavor = side THEN b[v].weight ELSE 0)
    BY <1>2, <1>5, TallyChanges
  <2>3. b[v].weight = w /\ b[v].inFavor = f BY DEF w, f
  <2> QED BY <1>4, <1>5, <2>1, <2>2, <2>3
<1>8. /\ Tally(c, TRUE) \in Nat /\ Tally(c, FALSE) \in Nat
      /\ Tally(c, TRUE) = IF f THEN Tally(b, TRUE) - w ELSE Tally(b, TRUE) + w
      /\ Tally(c, FALSE) = IF f THEN Tally(b, FALSE) + w ELSE Tally(b, FALSE) - w
  <2> HIDE DEF b, c, w, f
  <2>1. Tally(c, TRUE) \in Nat /\ Tally(c, TRUE) = IF f = TRUE THEN Tally(b, TRUE) - w ELSE Tally(b, TRUE) + w
    BY <1>7
  <2>2. Tally(c, FALSE) \in Nat /\ Tally(c, FALSE) = IF f = FALSE THEN Tally(b, FALSE) - w ELSE Tally(b, FALSE) + w
    BY <1>7
  <2> QED BY <1>4, <2>1, <2>2
<1>9. /\ prop.votesFor = Tally(c, TRUE) /\ prop.votesAgainst = Tally(c, FALSE)
      /\ prop.status = "Active"
  <2> HIDE DEF b, c, w, f
  <2>1. DOMAIN proposals[p] = {"status", "creator", "votingEnd", "quorum", "threshold",
                               "votesFor", "votesAgainst"}
    BY <1>2 DEF Proposal
  <2> QED BY <1>1, <1>6, <1>8, <2>1
<1>10. prop \in Proposal
  <2>1. \A x \in Nat, y \in Nat :
          [proposals[p] EXCEPT !.votesFor = x, !.votesAgainst = y] \in Proposal
    BY <1>2 DEF Proposal
  <2>2. prop = [proposals[p] EXCEPT !.votesFor = prop.votesFor,
                                    !.votesAgainst = prop.votesAgainst]
    BY <1>2 DEF Proposal
  <2> HIDE DEF prop, b, c
  <2>3. prop.votesFor \in Nat /\ prop.votesAgainst \in Nat BY <1>8, <1>9
  <2> DEFINE x == prop.votesFor
             y == prop.votesAgainst
  <2>4. prop = [proposals[p] EXCEPT !.votesFor = x, !.votesAgainst = y] /\ x \in Nat /\ y \in Nat
    BY <2>2, <2>3
  <2> HIDE DEF x, y
  <2> QED BY <2>1, <2>4
<1>11. Tallied(prop, c) /\ Settled(prop) BY <1>9 DEF Tallied, Settled, Decided
<1> HIDE DEF b, c, prop
<1> QED BY <1>2, <1>3, <1>5, <1>10, <1>11, OneProposal

(* The rounded-down share of the total decides as the exact one would.     *)
LEMMA RoundingDecides ==
    ASSUME NEW n \in Nat, NEW m \in Nat
    PROVE  n > m \div 100 <=> 100 * n > m
<1>1. m \div 100 \in Nat /\ m = 100 * (m \div 100) + (m % 100) /\ (m % 100) \in 0..99
  OBVIOUS
<1> DEFINE q == m \div 100
           r == m % 100
<1>2. q \in Nat /\ m = 100 * q + r /\ r \in 0..99
  BY <1>1
<1> HIDE DEF q, r
<1>3. n > q <=> 100 * n > m
  BY <1>2
<1> QED BY <1>3 DEF q

LEMMA OutcomeIsVerdict ==
    ASSUME NEW prop \in Proposal
    PROVE  /\ Outcome(prop) \in Verdict(prop) /\ Outcome(prop) \in {"Failed", "Passed", "Rejected"}
<1> DEFINE total == prop.votesFor + prop.votesAgainst
           m == total * prop.threshold
<1>1. prop.votesFor \in Nat /\ total \in Nat /\ m \in Nat BY ProposalShapes
<1>2. prop.votesFor > m \div 100 <=> 100 * prop.votesFor > m BY <1>1, RoundingDecides
<1> HIDE DEF m
<1>3. Outcome(prop) = IF total < prop.quorum THEN "Failed"
                      ELSE IF prop.votesFor > m \div 100 THEN "Passed" ELSE "Rejected"
  BY DEF Outcome, m
<1>4. Verdict(prop) = IF total < prop.quorum THEN {"Failed"}
                      ELSE IF 100 * prop.votesFor > m THEN {"Passed", "Executed"}
                      ELSE {"Rejected"}
  BY DEF Verdict, m
<1> QED BY <1>2, <1>3, <1>4

(* Only the status moves: cancelled, decided or executed.                  *)
LEMMA StatusStep ==
    ASSUME VotingInv, GovTypeOK', NEW p \in ProposalId,
           \/ \E c \in Proposers : CancelProposal(c, p)
           \/ FinalizeProposal(p) \/ ExecuteProposal(p)
    PROVE  VotingInv'
<1>1. PICK s :
        /\ proposals' = [proposals EXCEPT ![p].status = s]
        /\ UNCHANGED <<now, votes, proposalCount, changeWindow>>
        /\ proposals[p].status \in {"Active", "Passed"}
        /\ \/ s = "Cancelled"
           \/ s = Outcome(proposals[p]) /\ now > proposals[p].votingEnd
           \/ s = "Executed" /\ proposals[p].status = "Passed"
  BY DEF CancelProposal, FinalizeProposal, ExecuteProposal, IsActive, govVars
<1> DEFINE prop == [proposals[p] EXCEPT !.status = s]
<1>2. /\ proposals[p] \in Proposal /\ Exists(p) /\ Tallied(proposals[p], votes[p])
      /\ Settled(proposals[p]) /\ votes[p] \in [Address -> Vote]
  BY <1>1, ProposalIs
<1>3. s \in Status BY <1>1, <1>2, OutcomeIsVerdict DEF Status
<1>4. /\ prop \in Proposal /\ prop.status = s /\ prop.votesFor = proposals[p].votesFor
      /\ prop.votesAgainst = proposals[p].votesAgainst /\ prop.votingEnd = proposals[p].votingEnd
      /\ prop.quorum = proposals[p].quorum /\ prop.threshold = proposals[p].threshold
  BY <1>2, <1>3 DEF Proposal
<1>5. proposals' = [proposals EXCEPT ![p] = prop] /\ votes' = [votes EXCEPT ![p] = votes[p]]
  BY <1>1 DEF VotingInv, TypeOK, VotingTypeOK
<1> HIDE DEF prop
<1>6. Verdict(prop) = Verdict(proposals[p]) BY <1>4 DEF Verdict
<1>7. Settled(prop)
  <2>1. CASE s = "Cancelled" BY <1>4, <2>1 DEF Settled, Decided
  <2>2. CASE s = Outcome(proposals[p]) /\ now > proposals[p].votingEnd
    BY <1>2, <1>4, <1>6, <2>2, OutcomeIsVerdict DEF Settled
  <2>3. CASE s = "Executed" /\ proposals[p].status = "Passed"
    <3>1. now > proposals[p].votingEnd /\ "Passed" \in Verdict(proposals[p])
      BY <1>2, <2>3 DEF Settled, Decided
    <3>2. "Executed" \in Verdict(proposals[p]) BY <3>1 DEF Verdict
    <3> QED BY <1>4, <1>6, <2>3, <3>1, <3>2 DEF Settled
  <2> QED BY <1>1, <2>1, <2>2, <2>3
<1>8. Tallied(prop, votes[p]) BY <1>2, <1>4 DEF Tallied
<1> QED BY <1>1, <1>2, <1>4, <1>5, <1>7, <1>8, OneProposal

LEMMA CreateStep ==
    ASSUME VotingInv, GovTypeOK', NEW c \in Proposers, NEW d \in Periods, NEW q \in Quorums,
           NEW t \in Thresholds, CreateProposal(c, d, q, t)
    PROVE  VotingInv'
<1> USE VotingAssumption
<1> DEFINE n == proposalCount
           prop == [status |-> "Active", creator |-> c, votingEnd |-> now + d, quorum |-> q,
                    threshold |-> t, votesFor |-> 0, votesAgainst |-> 0]
<1>1. /\ proposals \in [ProposalId -> Proposal \cup {NoProposal}]
      /\ votes \in [ProposalId -> [Address -> Vote]]
      /\ n \in 0..MaxProposals /\ n < MaxProposals /\ now \in Nat
  BY DEF VotingInv, TypeOK, VotingTypeOK, GovTypeOK, CreateProposal
<1>2. n \in ProposalId BY <1>1 DEF ProposalId
<1>3. prop \in Proposal /\ prop.votesFor = 0 /\ prop.votesAgainst = 0 /\ prop.status = "Active"
  BY <1>1 DEF Proposal, Status
<1>4. /\ proposals' = [proposals EXCEPT ![n] = prop] /\ proposalCount' = n + 1
      /\ UNCHANGED <<now, votes, changeWindow>>
  BY DEF CreateProposal, govVars
<1> HIDE DEF prop
<1>5. /\ proposals' \in [ProposalId -> Proposal \cup {NoProposal}] /\ proposals'[n] = prop
      /\ \A p \in ProposalId : p # n => proposals'[p] = proposals[p]
  BY <1>1, <1>2, <1>3, <1>4
<1>6. TypeOK' BY <1>1, <1>4, <1>5 DEF VotingInv, TypeOK, VotingTypeOK
<1>7. \A p \in ProposalId : p >= proposalCount => Unused(p) BY DEF VotingInv
<1>8. ASSUME NEW p \in ProposalId, p >= proposalCount' PROVE Unused(p)'
  <2>1. p \in Nat /\ p >= n /\ p # n BY <1>1, <1>4, <1>8 DEF ProposalId
  <2> QED BY <1>4, <1>5, <1>7, <2>1 DEF Unused
<1>9. ASSUME NEW p \in ProposalId, Exists(p)'
      PROVE  Tallied(proposals'[p], votes'[p]) /\ Settled(proposals[p])'
  <2>1. CASE p = n
    <3>1. votes'[n] = [v \in Address |-> NoVote] BY <1>1, <1>2, <1>4, <1>7 DEF Unused
    <3>2. Tally(votes'[n], TRUE) = 0 /\ Tally(votes'[n], FALSE) = 0 BY <3>1, NoBallots
    <3>3. Tallied(prop, votes'[n]) BY <1>3, <3>2 DEF Tallied
    <3> QED BY <1>3, <1>5, <2>1, <3>3 DEF Settled, Decided
  <2>2. CASE p # n
    <3>1. Exists(p) BY <1>5, <1>9, <2>2 DEF Exists
    <3>2. Tallied(proposals[p], votes[p]) /\ Settled(proposals[p]) BY <3>1 DEF VotingInv
    <3> QED BY <1>4, <1>5, <2>2, <3>2 DEF Settled
  <2> QED BY <2>1, <2>2
<1> QED BY <1>6, <1>8, <1>9 DEF VotingInv, Tallied

(* The calls of delegation, the clock and the window of changes: what is   *)
(* settled stays so as time passes.                                        *)
LEMMA OtherStep ==
    ASSUME VotingInv, GovTypeOK', UNCHANGED <<proposals, votes, proposalCount>>,
           changeWindow' \in Nat \cup {NoWindow}, now' >= now
    PROVE  VotingInv'
<1>1. now \in Nat /\ now' \in Nat BY DEF VotingInv, TypeOK, GovTypeOK
<1>2. TypeOK' BY DEF VotingInv, TypeOK, VotingTypeOK
<1>3. ASSUME NEW p \in ProposalId, Exists(p)
      PROVE  Tallied(proposals[p], votes[p]) /\ Settled(proposals[p])'
  <2>1. proposals[p] \in Proposal BY <1>3 DEF VotingInv, TypeOK, VotingTypeOK, Exists
  <2>2. proposals[p].votingEnd \in Nat BY <2>1, ProposalShapes
  <2> QED BY <1>1, <1>3, <2>2 DEF VotingInv, Settled
<1> QED BY <1>2, <1>3 DEF VotingInv, Unused, Exists, Tallied

LEMMA ClockMoves ==
    ASSUME GovTypeOK, [DelegationNext]_govVars
    PROVE  now' >= now
<1>1. now \in Nat BY DEF GovTypeOK
<1> QED BY <1>1 DEF DelegationNext, TransferAdmin, Pause, Unpause, SetPaused, SetBalance, Delegate,
     DelegateWithExpiry, Undelegate, ExpireDelegation, Tick, govVars

LEMMA VotingStep == VotingInv /\ [SpecNext]_vars => VotingInv'
<1> SUFFICES ASSUME VotingInv, [SpecNext]_vars PROVE VotingInv'
  OBVIOUS
<1>1. GovTypeOK /\ changeWindow \in Nat \cup {NoWindow} /\ now \in Nat
  BY DEF VotingInv, TypeOK, VotingTypeOK, GovTypeOK
<1>2. GovTypeOK' BY <1>1, AllTypesStep
<1>3. CASE DelegationCall
  <2>1. now' >= now BY <1>1, <1>3, ClockMoves DEF DelegationCall
  <2> QED BY <1>1, <1>2, <1>3, <2>1, OtherStep DEF DelegationCall, proposalVars
<1>4. CASE UNCHANGED vars
  BY <1>1, <1>2, <1>4, OtherStep DEF vars, govVars, proposalVars
<1>5. ASSUME NEW w \in Windows \cup {NoWindow}, SetVoteChangeWindow(w) PROVE VotingInv'
  BY <1>1, <1>2, <1>5, OtherStep, VotingAssumption DEF SetVoteChangeWindow, govVars
<1> QED BY <1>2, <1>3, <1>4, <1>5, CastStep, FlipStep, StatusStep, CreateStep
        DEF SpecNext, ProposalCall

LEMMA VotingInit == Init => VotingInv
<1> SUFFICES ASSUME Init PROVE VotingInv
  OBVIOUS
<1>1. GovTypeOK BY TypeInit DEF Init
<1>2. NoVote \in Vote BY DEF NoVote, Vote
<1>3. VotingTypeOK BY <1>2, VotingAssumption DEF Init, NoProposals, VotingTypeOK
<1>4. \A p \in ProposalId : Unused(p) BY DEF Init, NoProposals, Unused
<1> QED BY <1>1, <1>3, <1>4 DEF VotingInv, TypeOK, Unused, Exists

LEMMA VotingSound == Spec => []VotingInv
  BY VotingInit, VotingStep, PTL DEF Spec, SpecNext

(* Every storage entry of the contract keeps its type through delegations, *)
(* sweeps, votes and changes of votes: no tally, power or amount ever goes *)
(* below zero (lib.rs, vote_change.rs, delegation_expiry.rs).              *)
THEOREM ContractTypeCorrect == Spec => []TypeOK
<1>1. VotingInv => TypeOK BY DEF VotingInv
<1> QED BY <1>1, VotingSound, PTL

(* The tallies, which are only ever added to and shifted, are the sums of  *)
(* the recorded weights of the two sides (lib.rs, cast_vote;               *)
(* vote_change.rs).                                                        *)
THEOREM TalliesAreTheVotes == Spec => []TallyIsSumOfVotes
<1>1. VotingInv => TallyIsSumOfVotes
  <2> SUFFICES ASSUME VotingInv, NEW p \in ProposalId, Exists(p)
               PROVE  /\ proposals[p].votesFor = SumFunctionOnSet(Weights(p), Voters(p, TRUE))
                      /\ proposals[p].votesAgainst = SumFunctionOnSet(Weights(p), Voters(p, FALSE))
    BY DEF TallyIsSumOfVotes
  <2>1. votes[p] \in [Address -> Vote] BY DEF VotingInv, TypeOK, VotingTypeOK
  <2>2. Tallied(proposals[p], votes[p]) BY DEF VotingInv
  <2>3. ASSUME NEW side \in BOOLEAN
        PROVE  Tally(votes[p], side) = SumFunctionOnSet(Weights(p), Voters(p, side))
    <3>1. /\ Weights(p) = [v \in Address |-> votes[p][v].weight]
          /\ Voters(p, side) = {v \in Address : votes[p][v] # NoVote /\ votes[p][v].inFavor = side}
      BY DEF Weights, Voters, HasVoted
    <3> QED BY <2>1, <3>1, TallyOfVoters
  <2> QED BY <2>2, <2>3 DEF Tallied
<1> QED BY <1>1, VotingSound, PTL

(* A decision came after the end of voting, and the stored tallies still   *)
(* say the same by the exact threshold (lib.rs, finalize_proposal).        *)
THEOREM VerdictsAreRight == Spec => []VerdictStands
<1>1. VotingInv => VerdictStands BY DEF VotingInv, VerdictStands, Settled
<1> QED BY <1>1, VotingSound, PTL

-----------------------------------------------------------------------------
(* Nobody votes with a lapsed delegation.                                  *)

LEMMA OnlyCastVotes ==
    ASSUME Shape, [SpecNext]_vars, NEW p \in ProposalId, NEW v \in Address, VotesNow(p, v)
    PROVE  \E f \in BOOLEAN : CastVote(v, p, f)
<1>1. ASSUME NEW x \in Address, NEW q \in ProposalId, NEW f \in BOOLEAN, CastVote(x, q, f)
      PROVE  q = p /\ x = v
  <2>1. \A r \in ProposalId, y \in Address :
           r # q \/ y # x => votes'[r][y] = votes[r][y]
    <3>1. /\ votes = [r \in ProposalId |-> votes[r]]
          /\ \A r \in ProposalId : votes[r] = [y \in Address |-> votes[r][y]]
      BY DEF Shape
    <3>2. votes' = [votes EXCEPT ![q][x] = [weight |-> Weight(x), inFavor |-> f]]
      BY <1>1 DEF CastVote
    <3> QED BY <3>1, <3>2
  <2> QED BY <2>1 DEF VotesNow, HasVoted
<1>2. ASSUME NEW x \in Address, NEW q \in ProposalId, ChangeVote(x, q)
      PROVE  FALSE
  <2>1. \A r \in ProposalId, y \in Address :
           r # q \/ y # x => votes'[r][y] = votes[r][y]
    <3>1. /\ votes = [r \in ProposalId |-> votes[r]]
          /\ \A r \in ProposalId : votes[r] = [y \in Address |-> votes[r][y]]
      BY DEF Shape
    <3> DEFINE t == [votes[q][x] EXCEPT !.inFavor = ~votes[q][x].inFavor]
    <3>2. votes' = [votes EXCEPT ![q][x] = t]
      BY <1>2 DEF ChangeVote
    <3> HIDE DEF t
    <3> QED BY <3>1, <3>2
  <2>2. HasVoted(q, x) BY <1>2 DEF ChangeVote
  <2> QED BY <2>1, <2>2 DEF VotesNow, HasVoted
<1>3. votes' # votes BY DEF VotesNow, HasVoted
<1> QED BY <1>1, <1>2, <1>3 DEF SpecNext, DelegationCall, ProposalCall, CreateProposal,
        SetVoteChangeWindow, CancelProposal, FinalizeProposal, ExecuteProposal, vars, proposalVars

LEMMA SweptClean ==
    ASSUME Records, ExpiringIsListed, NEW v \in Address, SweepForVoter(v), NEW a \in Address,
           Lapsed(a)', delegation'[a].delegatee = v \/ a = v
    PROVE  FALSE
<1>1. a \notin Swept(v) /\ expiry'[a] = expiry[a] /\ delegation'[a] = delegation[a]
  BY DEF SweepForVoter, Lapsed
<1>2. Lapsed(a) BY <1>1 DEF Lapsed, SweepForVoter
<1>3. Delegates(a) /\ a \in delegators[delegation[a].delegatee]
  BY <1>2 DEF ExpiringIsListed, Lapsed
<1>4. a # v BY <1>1, <1>2, <1>3 DEF Swept, OwnLapsed
<1>5. a \in LapsedTo(v) BY <1>1, <1>2, <1>3, <1>4 DEF LapsedTo, StillDelegating
<1> QED BY <1>1, <1>5 DEF Swept

(* Once v has voted, nobody's lapsed delegation is left with v and v's own *)
(* is home, and its weight is what it then holds                           *)
(* (delegation_expiry.rs:1-6).                                             *)
THEOREM LapsedPowerNeverVotes == Spec => LapsedNeverVotes
<1> DEFINE Clean == \A p \in ProposalId, v \in Address : VotesNow(p, v) =>
          /\ \A a \in Address : ~(Lapsed(a)' /\ (delegation'[a].delegatee = v \/ a = v))
          /\ votes'[p][v].weight = (IF power'[v] > 0 THEN power'[v] ELSE balance[v])
<1>1. ASSUME InOrder, Shape, [SpecNext]_vars PROVE [Clean]_vars
  <2> SUFFICES ASSUME NEW p \in ProposalId, NEW v \in Address, VotesNow(p, v)
               PROVE  /\ \A a \in Address : ~(Lapsed(a)' /\ (delegation'[a].delegatee = v \/ a = v))
                      /\ votes'[p][v].weight = (IF power'[v] > 0 THEN power'[v] ELSE balance[v])
    OBVIOUS
  <2>1. PICK f \in BOOLEAN : CastVote(v, p, f) BY <1>1, OnlyCastVotes
  <2>2. SweepForVoter(v) /\ power' = SweptPower(v)
    BY <2>1 DEF CastVote, SweepForVoter
  <2>3. \A a \in Address : ~(Lapsed(a)' /\ (delegation'[a].delegatee = v \/ a = v))
    BY <1>1, <2>2, SweptClean DEF InOrder
  <2>4. votes'[p][v].weight = Weight(v)
    <3>1. votes' = [votes EXCEPT ![p][v] = [weight |-> Weight(v), inFavor |-> f]]
      BY <2>1 DEF CastVote
    <3>2. /\ votes = [r \in ProposalId |-> votes[r]]
          /\ \A r \in ProposalId : votes[r] = [y \in Address |-> votes[r][y]]
      BY <1>1 DEF Shape
    <3> QED BY <3>1, <3>2
  <2> QED BY <2>2, <2>3, <2>4 DEF Weight
<1>2. Init => InOrder
  BY RecordsInit, ListedInit, AcyclicInit, AmountsAssumption DEF Init, DelegationInit, InOrder
<1>3. InOrder /\ [SpecNext]_vars => InOrder'
  BY InOrderStep DEF Next, SpecNext
<1> QED BY <1>1, <1>2, <1>3, ShapeHolds, PTL DEF Spec, SpecNext, LapsedNeverVotes

-----------------------------------------------------------------------------
(* Exact vote power.  A holder's entitlement is the sum of the balances    *)
(* that it holds: h tells who holds each one's balance.                    *)
Share(h, bal, b) == SumFunctionOnSet(bal, {x \in Address : h[x] = b})

Holders == [a \in Address |-> IF Delegates(a) THEN delegation[a].delegatee ELSE a]

LEMMA ShareType ==
    ASSUME NEW bal \in [Address -> Nat], NEW T \in SUBSET Address
    PROVE  SumFunctionOnSet(bal, T) \in Nat
<1>1. IsFiniteSet(T) /\ \A x \in T : bal[x] \in Nat BY SomeAddresses
<1> QED BY ONLY <1>1, SumNat

LEMMA OneMore ==
    ASSUME NEW bal \in [Address -> Nat], NEW T \in SUBSET Address, NEW a \in T
    PROVE  SumFunctionOnSet(bal, T) = bal[a] + SumFunctionOnSet(bal, T \ {a})
<1>1. IsFiniteSet(T) /\ \A x \in T : bal[x] \in Int BY SomeAddresses
<1> QED BY <1>1, SumRemove

(* When one balance changes hands, its old holder loses it and its new one *)
(* gains it.                                                               *)
LEMMA MoveShare ==
    ASSUME NEW bal \in [Address -> Nat], NEW a \in Address, NEW b \in Address,
           NEW h \in [Address -> Address], NEW g \in [Address -> Address],
           \A x \in Address : x # a => g[x] = h[x]
    PROVE  /\ Share(h, bal, b) \in Nat /\ Share(g, bal, b) \in Nat
           /\ h[a] = b => bal[a] <= Share(h, bal, b)
           /\ h[a] = b /\ g[a] # b => Share(g, bal, b) = Share(h, bal, b) - bal[a]
           /\ h[a] # b /\ g[a] = b => Share(g, bal, b) = Share(h, bal, b) + bal[a]
           /\ (h[a] = b <=> g[a] = b) => Share(g, bal, b) = Share(h, bal, b)
<1> DEFINE H == {x \in Address : h[x] = b}
           G == {x \in Address : g[x] = b}
           R == {x \in Address \ {a} : h[x] = b}
           rest == SumFunctionOnSet(bal, R)
<1>1. /\ Share(h, bal, b) = SumFunctionOnSet(bal, H) /\ Share(g, bal, b) = SumFunctionOnSet(bal, G)
      /\ H \in SUBSET Address /\ G \in SUBSET Address /\ R \in SUBSET Address
  BY DEF Share
<1>2. rest \in Nat /\ bal[a] \in Nat BY ShareType
<1>3. SumFunctionOnSet(bal, H) = rest + (IF h[a] = b THEN bal[a] ELSE 0)
  <2>1. CASE h[a] = b
    <3>1. a \in H /\ H \ {a} = R BY <2>1
    <3> HIDE DEF H, R
    <3>2. SumFunctionOnSet(bal, H) = bal[a] + SumFunctionOnSet(bal, H \ {a}) BY <1>1, <3>1, OneMore
    <3> QED BY <1>2, <2>1, <3>1, <3>2
  <2>2. CASE h[a] # b
    <3>1. H = R BY <2>2
    <3> HIDE DEF H, R
    <3> QED BY <1>2, <2>2, <3>1
  <2> QED BY <2>1, <2>2
<1>4. SumFunctionOnSet(bal, G) = rest + (IF g[a] = b THEN bal[a] ELSE 0)
  <2>1. CASE g[a] = b
    <3>1. a \in G /\ G \ {a} = R BY <2>1
    <3> HIDE DEF G, R
    <3>2. SumFunctionOnSet(bal, G) = bal[a] + SumFunctionOnSet(bal, G \ {a}) BY <1>1, <3>1, OneMore
    <3> QED BY <1>2, <2>1, <3>1, <3>2
  <2>2. CASE g[a] # b
    <3>1. G = R BY <2>2
    <3> HIDE DEF G, R
    <3> QED BY <1>2, <2>2, <3>1
  <2> QED BY <2>1, <2>2
<1> HIDE DEF H, G, R, rest
<1> QED BY <1>1, <1>2, <1>3, <1>4

(* A change of one balance reaches whoever holds it.                       *)
LEMMA ChangeShare ==
    ASSUME NEW bal \in [Address -> Nat], NEW new \in [Address -> Nat],
           NEW a \in Address, NEW b \in Address, NEW h \in [Address -> Address],
           \A x \in Address \ {a} : new[x] = bal[x]
    PROVE  Share(h, new, b) = Share(h, bal, b) + (IF h[a] = b THEN new[a] - bal[a] ELSE 0)
<1> DEFINE H == {x \in Address : h[x] = b}
<1>1. /\ Share(h, bal, b) = SumFunctionOnSet(bal, H) /\ Share(h, new, b) = SumFunctionOnSet(new, H)
      /\ H \in SUBSET Address /\ (a \in H <=> h[a] = b)
  BY DEF Share
<1> HIDE DEF H
<1>2. IsFiniteSet(H) /\ \A x \in H : bal[x] \in Int /\ new[x] \in Int BY <1>1, SomeAddresses
<1>3. SumFunctionOnSet(bal, H) \in Nat BY <1>1, ShareType
<1>4. CASE a \in H
  <2>1. \A x \in H \ {a} : new[x] = bal[x] BY <1>1
  <2>2. SumFunctionOnSet(new, H) = SumFunctionOnSet(bal, H) + new[a] - bal[a]
    BY <1>2, <1>4, <2>1, SumUpdate
  <2> QED BY <1>1, <1>3, <1>4, <2>2
<1>5. CASE a \notin H
  <2>1. \A x \in H : bal[x] \in Int /\ new[x] = bal[x] BY <1>1, <1>2, <1>5
  <2>2. SumFunctionOnSet(new, H) = SumFunctionOnSet(bal, H) BY <1>2, <2>1, SumSame
  <2> QED BY <1>1, <1>3, <1>5, <2>2
<1> QED BY <1>4, <1>5

(* The balances that v holds for the accounts of L all go home.            *)
LEMMA ReturnShares ==
    ASSUME NEW bal \in [Address -> Nat], NEW v \in Address, NEW b \in Address,
           NEW L \in SUBSET Address, v \notin L,
           NEW h \in [Address -> Address], NEW g \in [Address -> Address],
           \A x \in L : h[x] = v /\ g[x] = x, \A x \in Address \ L : g[x] = h[x]
    PROVE  /\ Share(g, bal, b) \in Nat
           /\ Share(g, bal, b) = Share(h, bal, b)
                 - (IF b = v THEN SumFunctionOnSet(bal, L) ELSE 0)
                 + (IF b \in L THEN bal[b] ELSE 0)
<1> DEFINE H == {x \in Address : h[x] = b}
           G == {x \in Address : g[x] = b}
<1>1. /\ Share(h, bal, b) = SumFunctionOnSet(bal, H) /\ Share(g, bal, b) = SumFunctionOnSet(bal, G)
      /\ H \in SUBSET Address /\ G \in SUBSET Address
  BY DEF Share
<1>2. /\ SumFunctionOnSet(bal, H) \in Nat /\ SumFunctionOnSet(bal, G) \in Nat
      /\ SumFunctionOnSet(bal, L) \in Nat /\ bal[b] \in Nat
  <2> HIDE DEF H, G
  <2> QED BY <1>1, ShareType
<1>3. CASE b = v
  <2>1. L \in SUBSET H /\ H \ L = G /\ b \notin L BY <1>3
  <2> HIDE DEF H, G
  <2>2. IsFiniteSet(H) /\ \A x \in H : bal[x] \in Int BY <1>1, SomeAddresses
  <2>3. SumFunctionOnSet(bal, H) = SumFunctionOnSet(bal, L) + SumFunctionOnSet(bal, H \ L)
    BY <2>1, <2>2, SumSplit
  <2>4. SumFunctionOnSet(bal, G) = SumFunctionOnSet(bal, H) - SumFunctionOnSet(bal, L)
    BY <1>2, <2>1, <2>3
  <2>5. Share(g, bal, b) = Share(h, bal, b) - SumFunctionOnSet(bal, L) + 0
    BY <1>1, <1>2, <2>4
  <2> QED BY <1>1, <1>2, <1>3, <2>1, <2>5
<1>4. CASE b \in L
  <2>1. b \in G /\ G \ {b} = H /\ b # v BY <1>4
  <2> HIDE DEF H, G
  <2>2. SumFunctionOnSet(bal, G) = bal[b] + SumFunctionOnSet(bal, G \ {b}) BY <1>1, <2>1, OneMore
  <2> QED BY <1>1, <1>2, <1>4, <2>1, <2>2
<1>5. CASE b # v /\ b \notin L
  <2>1. G = H BY <1>5
  <2> HIDE DEF H, G
  <2> QED BY <1>1, <1>2, <1>5, <2>1
<1> QED BY <1>3, <1>4, <1>5

LEMMA DebitCredit ==
    ASSUME NEW p \in [Address -> Nat], NEW s \in Address, NEW t \in Address, NEW n \in Nat,
           n <= p[s], NEW x \in Address
    PROVE  /\ Debit(p, s, n)[x] = p[x] - (IF x = s THEN n ELSE 0)
           /\ Credit(Debit(p, s, n), t, n)[x] =
                 p[x] - (IF x = s THEN n ELSE 0) + (IF x = t THEN n ELSE 0)
<1>1. p[s] - n \in Int /\ p[s] - n >= 0 /\ p[x] \in Nat OBVIOUS
<1>2. Floor0(p[s] - n) = p[s] - n BY <1>1 DEF Floor0
<1>3. Debit(p, s, n) = [p EXCEPT ![s] = p[s] - n] BY <1>2 DEF Debit
<1>4. Debit(p, s, n)[x] = p[x] - (IF x = s THEN n ELSE 0) BY <1>1, <1>3
<1>5. Debit(p, s, n) \in [Address -> Nat] BY DebitType
<1>6. Credit(Debit(p, s, n), t, n)[x] = Debit(p, s, n)[x] + (IF x = t THEN n ELSE 0)
  <2> DEFINE d == Debit(p, s, n)
  <2>1. d \in [Address -> Nat] BY <1>5
  <2> HIDE DEF d
  <2>2. Credit(d, t, n)[x] = d[x] + (IF x = t THEN n ELSE 0)
    <3>1. d[x] \in Nat BY <2>1
    <3> QED BY <2>1, <3>1 DEF Credit
  <2> QED BY <2>2 DEF d
<1> QED BY <1>1, <1>4, <1>6

(* Powers that are exact stay so when a balance and its power move on.     *)
LEMMA MoveExact ==
    ASSUME NEW bal \in [Address -> Nat], NEW p \in [Address -> Nat], NEW a \in Address,
           NEW h \in [Address -> Address], NEW g \in [Address -> Address],
           \A x \in Address : x # a => g[x] = h[x],
           \A b \in Address : p[b] = Share(h, bal, b)
    PROVE  \A b \in Address :
              Credit(Debit(p, h[a], bal[a]), g[a], bal[a])[b] = Share(g, bal, b)
<1> DEFINE s == h[a]
           t == g[a]
           n == bal[a]
<1>1. s \in Address /\ t \in Address /\ n \in Nat OBVIOUS
<1>2. n <= p[s]
  <2>1. n <= Share(h, bal, s) BY <1>1, MoveShare
  <2> QED BY <1>1, <2>1
<1>3. ASSUME NEW b \in Address
      PROVE  Credit(Debit(p, s, n), t, n)[b] = Share(g, bal, b)
  <2>1. /\ h[a] = b /\ g[a] # b => Share(g, bal, b) = Share(h, bal, b) - bal[a]
        /\ h[a] # b /\ g[a] = b => Share(g, bal, b) = Share(h, bal, b) + bal[a]
        /\ (h[a] = b <=> g[a] = b) => Share(g, bal, b) = Share(h, bal, b)
    <3>1. /\ bal \in [Address -> Nat] /\ a \in Address /\ b \in Address
          /\ h \in [Address -> Address] /\ g \in [Address -> Address]
          /\ \A x \in Address : x # a => g[x] = h[x]
      OBVIOUS
    <3> HIDE DEF s, t, n
    <3> QED BY ONLY <3>1, MoveShare, SMTT(90)
  <2> HIDE DEF s, t, n
  <2>2. /\ Debit(p, s, n)[b] = p[b] - (IF b = s THEN n ELSE 0)
        /\ Credit(Debit(p, s, n), t, n)[b] = p[b] - (IF b = s THEN n ELSE 0) + (IF b = t THEN n ELSE 0)
    <3>1. p \in [Address -> Nat] /\ b \in Address OBVIOUS
    <3> QED BY ONLY <1>1, <1>2, <3>1, DebitCredit
  <2>3. p[b] = Share(h, bal, b) /\ p[b] \in Nat OBVIOUS
  <2> QED BY <1>1, <2>1, <2>2, <2>3 DEF s, t, n
<1> QED BY <1>3

AmountsExact == \A a \in Address : Delegates(a) => delegation[a].amount = balance[a]
PowersExact == \A b \in Address : power[b] = Share(Holders, balance, b)
NoneHoldsForItself == \A a \in Address : delegation[a].delegatee # a

(* Powers are exact as shares of the balances; the recorded amounts are    *)
(* the balances, for they are what moves; and nobody delegates to itself.  *)
ExactInv ==
    /\ GovTypeOK /\ NoneHoldsForItself /\ drifted \in BOOLEAN
    /\ ~drifted => AmountsExact /\ PowersExact

LEMMA HoldersType ==
    ASSUME Records
    PROVE  /\ Holders \in [Address -> Address]
           /\ \A a \in Address : /\ Delegates(a) => Holders[a] = delegation[a].delegatee
                                 /\ ~Delegates(a) => Holders[a] = a
  BY DEF Holders, Records, Delegation, Delegates

LEMMA SameRecordsSameShares ==
    ASSUME UNCHANGED <<balance, delegation>>
    PROVE  Holders' = Holders /\ \A b : Share(Holders, balance, b)' = Share(Holders, balance, b)
  BY DEF Holders, Delegates, Share

(* What an address is entitled to is its share.                            *)
LEMMA EntitlementIsShare ==
    ASSUME Records, NoneHoldsForItself, NEW b \in Address
    PROVE  Entitlement(b) = Share(Holders, balance, b)
<1> DEFINE H == {x \in Address : Holders[x] = b}
           D == DelegatorsOf(b)
<1>1. Share(Holders, balance, b) = SumFunctionOnSet(balance, H) BY DEF Share
<1>2. /\ H \in SUBSET Address /\ b \notin D
      /\ Delegates(b) => H = D
      /\ ~Delegates(b) => b \in H /\ H \ {b} = D
  BY HoldersType, NoOneElse DEF DelegatorsOf, NoneHoldsForItself, Delegates
<1>3. balance \in [Address -> Nat] BY DEF Records
<1>4. Entitlement(b) = (IF Delegates(b) THEN 0 ELSE balance[b]) + SumFunctionOnSet(balance, D)
  BY DEF Entitlement
<1>5. SumFunctionOnSet(balance, D) \in Nat
  <2>1. D \in SUBSET Address BY DEF DelegatorsOf
  <2> HIDE DEF D
  <2> QED BY <1>3, <2>1, ShareType
<1> HIDE DEF H, D
<1>6. CASE Delegates(b) BY <1>1, <1>2, <1>4, <1>5, <1>6
<1>7. CASE ~Delegates(b)
  <2>1. SumFunctionOnSet(balance, H) = balance[b] + SumFunctionOnSet(balance, H \ {b})
    BY <1>2, <1>3, <1>7, OneMore
  <2> QED BY <1>1, <1>2, <1>4, <1>7, <2>1
<1> QED BY <1>6, <1>7

(* A delegation moves the balance from whoever held it to the delegatee.   *)
LEMMA DelegateKeepsExact ==
    ASSUME GovTypeOK, GovTypeOK', AmountsExact, PowersExact,
           NEW a \in Address, NEW b \in Address, DelegateTo(a, b), UNCHANGED balance
    PROVE  AmountsExact' /\ PowersExact'
<1>0. Records /\ Records' BY DEF GovTypeOK, Records
<1>1. CASE delegation[a].delegatee = b
  <2>1. UNCHANGED <<balance, delegation, power>> BY <1>1 DEF DelegateTo
  <2> QED BY <2>1, SameRecordsSameShares DEF AmountsExact, PowersExact, Delegates
<1>2. CASE delegation[a].delegatee # b
  <2> DEFINE h == Holders
             g == Holders'
             n == balance[a]
  <2>1. /\ power' = Credit(Debit(power, h[a], n), b, n)
        /\ delegation' = [delegation EXCEPT ![a] = [delegatee |-> b, amount |-> n]]
    BY <1>0, <1>2, HoldersType DEF DelegateTo, AmountsExact
  <2>2. delegation'[a] = [delegatee |-> b, amount |-> n]
        /\ \A x \in Address : x # a => delegation'[x] = delegation[x]
    BY <1>0, <2>1 DEF Records
  <2>3. g \in [Address -> Address] /\ g[a] = b /\ \A x \in Address : x # a => g[x] = h[x]
    BY <1>0, <2>2, NoOneElse DEF Holders, Records, Delegation, Delegates
  <2>4. h \in [Address -> Address] /\ \A x \in Address : power[x] = Share(h, balance, x)
    BY <1>0, HoldersType DEF PowersExact
  <2>5. balance \in [Address -> Nat] /\ power \in [Address -> Nat] BY DEF GovTypeOK
  <2>6. AmountsExact' BY <2>2, <1>0 DEF AmountsExact, Delegates, Records
  <2>7. PowersExact'
    <3> HIDE DEF h, g, n
    <3>1. \A x \in Address : Credit(Debit(power, h[a], balance[a]), g[a], balance[a])[x]
                                = Share(g, balance, x)
      <4>1. g \in [Address -> Address] /\ \A x \in Address : x # a => g[x] = h[x] BY <2>3
      <4> QED BY ONLY <4>1, <2>4, <2>5, a \in Address, MoveExact, SMTT(60)
    <3> QED BY <2>1, <2>3, <3>1 DEF PowersExact, Share, g, n
  <2> QED BY <2>6, <2>7
<1> QED BY <1>1, <1>2

(* Taken back, a balance returns to its owner.                             *)
LEMMA WithdrawKeepsExact ==
    ASSUME GovTypeOK, GovTypeOK', AmountsExact, PowersExact,
           NEW a \in Address, Delegates(a), power' = MoveBack(power, a),
           delegation' = [delegation EXCEPT ![a] = NoDelegation], UNCHANGED balance
    PROVE  AmountsExact' /\ PowersExact'
<1> DEFINE h == Holders
           g == Holders'
           n == balance[a]
<1>0. Records /\ Records' BY DEF GovTypeOK, Records
<1>1. power' = Credit(Debit(power, h[a], n), a, n)
  BY <1>0, HoldersType DEF MoveBack, AmountsExact
<1>2. delegation'[a] = NoDelegation /\ \A x \in Address : x # a => delegation'[x] = delegation[x]
  BY <1>0 DEF Records
<1>3. g \in [Address -> Address] /\ g[a] = a /\ \A x \in Address : x # a => g[x] = h[x]
  BY <1>0, <1>2, NoRecord DEF Holders, Records, Delegation, Delegates
<1>4. h \in [Address -> Address] /\ \A x \in Address : power[x] = Share(h, balance, x)
  BY <1>0, HoldersType DEF PowersExact
<1>5. balance \in [Address -> Nat] /\ power \in [Address -> Nat] BY DEF GovTypeOK
<1>6. AmountsExact' BY <1>2, <1>0, NoRecord DEF AmountsExact, Delegates, Records
<1> HIDE DEF h, g, n
<1>7. \A x \in Address : Credit(Debit(power, h[a], balance[a]), g[a], balance[a])[x]
                            = Share(g, balance, x)
  BY ONLY <1>3, <1>4, <1>5, a \in Address, MoveExact
<1>8. PowersExact' BY <1>1, <1>3, <1>7 DEF PowersExact, Share, g, n
<1> QED BY <1>6, <1>8

(* What a change of balance adds reaches whoever holds the balance.        *)
LEMMA SetBalanceKeepsExact ==
    ASSUME GovTypeOK, GovTypeOK', AmountsExact, PowersExact,
           NEW a \in Address, NEW n \in Amounts, SetBalance(a, n),
           \A x \in Address : Delegates(x) => balance'[x] = balance[x]
    PROVE  AmountsExact' /\ PowersExact'
<1> DEFINE h == Holders
           t == h[a]
<1>0. Records /\ Records' /\ n \in Nat BY AmountsAssumption DEF GovTypeOK, Records
<1>1. /\ balance' = [balance EXCEPT ![a] = n] /\ UNCHANGED delegation
      /\ power' = [power EXCEPT ![t] = Floor0(power[t] + n - balance[a])]
  BY <1>0, HoldersType DEF SetBalance
<1>2. /\ balance \in [Address -> Nat] /\ balance' \in [Address -> Nat] /\ power \in [Address -> Nat]
      /\ h \in [Address -> Address] /\ t \in Address
      /\ \A x \in Address : power[x] = Share(h, balance, x)
  BY HoldersType, <1>0 DEF GovTypeOK, PowersExact
<1>3. balance'[a] = n /\ \A x \in Address \ {a} : balance'[x] = balance[x] BY <1>1, <1>2
<1>4. AmountsExact' BY <1>1 DEF AmountsExact, Delegates
<1> HIDE DEF h
<1>5. ASSUME NEW x \in Address
      PROVE  /\ Share(h, balance', x) = power[x] + (IF t = x THEN n - balance[a] ELSE 0)
             /\ Share(h, balance', x) \in Nat
  <2>1. Share(h, balance', x) = Share(h, balance, x) + (IF t = x THEN balance'[a] - balance[a] ELSE 0)
    <3> DEFINE new == balance'
    <3>1. /\ balance \in [Address -> Nat] /\ new \in [Address -> Nat] /\ h \in [Address -> Address]
          /\ \A y \in Address \ {a} : new[y] = balance[y]
      BY <1>2, <1>3
    <3> HIDE DEF new
    <3>2. Share(h, new, x) = Share(h, balance, x) + (IF h[a] = x THEN new[a] - balance[a] ELSE 0)
      BY ONLY <3>1, <1>5, a \in Address, ChangeShare
    <3> QED BY <3>2 DEF new
  <2>2. Share(h, balance', x) \in Nat BY <1>2, ShareType DEF Share
  <2> QED BY <1>2, <1>3, <2>1, <2>2
<1>6. ASSUME NEW x \in Address PROVE power'[x] = Share(h, balance', x)
  <2> HIDE DEF t
  <2>1. power[t] \in Nat /\ balance[a] \in Nat BY <1>2
  <2>2. CASE t = x
    <3>1. power[t] + n - balance[a] = Share(h, balance', x) /\ Share(h, balance', x) \in Nat
      BY <1>0, <1>5, <2>1, <2>2
    <3>2. Floor0(power[t] + n - balance[a]) = Share(h, balance', x) BY <3>1 DEF Floor0
    <3> QED BY <1>1, <1>2, <2>2, <3>2
  <2>3. CASE t # x
    <3>1. power'[x] = power[x] BY <1>1, <1>2, <2>3
    <3> QED BY <1>2, <1>5, <2>3, <3>1
  <2> QED BY <2>2, <2>3
<1>7. Holders' = h BY <1>1 DEF Holders, Delegates, h
<1> QED BY <1>4, <1>6, <1>7 DEF PowersExact, Share

(* The sweep before a vote sends home the voter's own lapsed balance and   *)
(* those that lapsed with it, all as if taken back one by one.             *)
LEMMA SweepKeepsExact ==
    ASSUME GovTypeOK, GovTypeOK', AmountsExact, PowersExact, NoneHoldsForItself,
           NEW v \in Address, SweepForVoter(v)
    PROVE  AmountsExact' /\ PowersExact'
<1> DEFINE h == Holders
           g == Holders'
           own == OwnLapsed(v) # {}
           m == [x \in Address |-> IF own /\ x = v THEN v ELSE h[x]]
           home == IF ~own THEN power ELSE MoveBack(power, v)
           L == LapsedTo(v)
           s == SumFunctionOnSet(balance, L)
           left == Debit(home, v, s)
<1>0. Records /\ Records' BY DEF GovTypeOK, Records
<1>1. /\ balance \in [Address -> Nat] /\ power \in [Address -> Nat] /\ UNCHANGED balance
      /\ L \in SUBSET Address /\ v \notin L
      /\ \A x \in L : Delegates(x) /\ delegation[x].delegatee = v
      /\ own => Delegates(v) /\ OwnLapsed(v) = {v}
  BY <1>0, LapsedToVoter, NoOneElse
     DEF GovTypeOK, SweepForVoter, NoneHoldsForItself, Delegates, OwnLapsed
<1>2. /\ h \in [Address -> Address] /\ m \in [Address -> Address] /\ g \in [Address -> Address]
      /\ \A x \in Address : power[x] = Share(h, balance, x)
      /\ \A x \in Address : x # v => m[x] = h[x]
      /\ own => m[v] = v
      /\ ~own => m = h
  <2>1. h \in [Address -> Address] BY <1>0, HoldersType
  <2>2. g \in [Address -> Address] BY <1>0, NoOneElse DEF Holders, Records, Delegation, Delegates
  <2> HIDE DEF h, g, own
  <2> QED BY <2>1, <2>2 DEF PowersExact, h
<1>3. /\ \A x \in L : m[x] = v /\ g[x] = x
      /\ \A x \in Address \ L : g[x] = m[x]
  <2>1. \A x \in Address : delegation'[x] = IF x \in L \/ (own /\ x = v) THEN NoDelegation
                                            ELSE delegation[x]
    BY <1>1 DEF SweepForVoter, Swept, OwnLapsed
  <2> HIDE DEF own, L
  <2>2. \A x \in L : h[x] = v BY <1>0, <1>1, HoldersType
  <2>3. \A x \in Address : x \in L \/ (own /\ x = v) => g[x] = x
    BY <2>1, NoRecord DEF Holders, Delegates
  <2>4. \A x \in Address : ~(x \in L \/ (own /\ x = v)) => g[x] = h[x]
    BY <2>1 DEF Holders, Delegates
  <2> HIDE DEF h, g, m
  <2> QED BY <1>1, <1>2, <2>2, <2>3, <2>4
<1>4. home \in [Address -> Nat] /\ \A x \in Address : home[x] = Share(m, balance, x)
  <2>1. CASE ~own BY <1>1, <1>2, <2>1
  <2>2. CASE own
    <3>1. home = Credit(Debit(power, h[v], balance[v]), m[v], balance[v])
      <4>1. home = MoveBack(power, v) /\ delegation[v].amount = balance[v]
            /\ delegation[v].delegatee = h[v] /\ m[v] = v
        BY <1>0, <1>1, <1>2, <2>2, HoldersType DEF AmountsExact
      <4> HIDE DEF home, h, m, own
      <4> QED BY <4>1 DEF MoveBack
    <3>2. home \in [Address -> Nat]
      <4>1. home = MoveBack(power, v) /\ Delegates(v) /\ delegation[v] \in Delegation
        BY <1>0, <1>1, <2>2 DEF Records
      <4> HIDE DEF home
      <4> QED BY <1>1, <4>1, MoveBackType
    <3> HIDE DEF home, h, m, own
    <3>3. \A x \in Address : Credit(Debit(power, h[v], balance[v]), m[v], balance[v])[x]
                                = Share(m, balance, x)
      <4>1. balance \in [Address -> Nat] /\ power \in [Address -> Nat] BY <1>1
      <4>2. /\ h \in [Address -> Address] /\ m \in [Address -> Address]
            /\ \A x \in Address : x # v => m[x] = h[x]
        BY <1>2
      <4>3. \A x \in Address : power[x] = Share(h, balance, x) BY <1>2
      <4> QED BY ONLY <4>1, <4>2, <4>3, v \in Address, MoveExact, SMTT(60)
    <3> QED BY <3>1, <3>2, <3>3
  <2> QED BY <2>1, <2>2
<1>5. SumFunctionOnSet(Received, L) = s
  <2>1. \A x \in L : balance[x] \in Int /\ Received[x] = balance[x]
    BY <1>1 DEF Received, AmountsExact
  <2>2. IsFiniteSet(L) BY <1>1, SomeAddresses
  <2> HIDE DEF L
  <2> QED BY ONLY <2>1, <2>2, SumSame DEF s
<1>6. s \in Nat
  <2> HIDE DEF L
  <2> QED BY <1>1, ShareType
<1>7. SweptPower(v) = [x \in Address |-> IF x \in L THEN left[x] + balance[x] ELSE left[x]]
  <2>1. SweptPower(v) = [x \in Address |-> IF x \in L THEN left[x] + delegation[x].amount
                                           ELSE left[x]]
    BY <1>5 DEF SweptPower
  <2>2. \A x \in L : delegation[x].amount = balance[x] BY <1>1 DEF AmountsExact
  <2> HIDE DEF left, L
  <2> QED BY <2>1, <2>2
<1> HIDE DEF h, g, own, m, home, L, s
<1>8. ASSUME NEW x \in Address
      PROVE  /\ Share(g, balance, x) \in Nat
             /\ Share(g, balance, x) = home[x] - (IF x = v THEN s ELSE 0)
                                               + (IF x \in L THEN balance[x] ELSE 0)
  <2>1. /\ Share(g, balance, x) \in Nat
        /\ Share(g, balance, x) = Share(m, balance, x)
              - (IF x = v THEN SumFunctionOnSet(balance, L) ELSE 0)
              + (IF x \in L THEN balance[x] ELSE 0)
    <3>1. /\ balance \in [Address -> Nat] /\ L \in SUBSET Address /\ v \notin L
          /\ m \in [Address -> Address] /\ g \in [Address -> Address]
      BY <1>1, <1>2
    <3> QED BY ONLY <1>3, <3>1, <1>8, v \in Address, ReturnShares, SMTT(60)
  <2> QED BY <1>4, <2>1 DEF s
<1>9. s <= home[v]
  <2>1. Share(g, balance, v) \in Nat /\ Share(g, balance, v) = home[v] - s + 0 BY <1>1, <1>8
  <2>2. home[v] \in Nat BY <1>4
  <2> QED BY <1>6, <2>1, <2>2
<1>10. ASSUME NEW x \in Address PROVE left[x] = home[x] - (IF x = v THEN s ELSE 0)
  BY ONLY <1>4, <1>6, <1>9, <1>10, v \in Address, DebitCredit
<1>11. PowersExact'
  <2>1. \A x \in Address : power'[x] = Share(g, balance, x)
    <3> SUFFICES ASSUME NEW x \in Address PROVE power'[x] = Share(g, balance, x)
      OBVIOUS
    <3>1. power'[x] = IF x \in L THEN left[x] + balance[x] ELSE left[x]
      BY <1>7 DEF SweepForVoter
    <3>2. home[x] \in Nat /\ balance[x] \in Nat BY <1>1, <1>4
    <3> HIDE DEF left
    <3> QED BY <1>6, <1>8, <1>10, <3>1, <3>2
  <2> QED BY <1>1, <2>1 DEF PowersExact, Share, g
<1>12. AmountsExact'
  BY <1>0, <1>1, NoRecord DEF AmountsExact, SweepForVoter, Delegates, Records
<1> QED BY <1>11, <1>12

(* What a call may do to balances, powers and delegations.                 *)
LEMMA PowersMove ==
    ASSUME [Next]_vars
    PROVE  \/ UNCHANGED <<balance, power, delegation>>
           \/ \E a \in Address, n \in Amounts : SetBalance(a, n)
           \/ \E a, b \in Address : DelegateTo(a, b) /\ UNCHANGED balance
           \/ \E a \in Address : /\ Delegates(a) /\ power' = MoveBack(power, a)
                                 /\ delegation' = [delegation EXCEPT ![a] = NoDelegation]
                                 /\ UNCHANGED balance
           \/ \E v \in Address : SweepForVoter(v)
<1>1. CASE DelegationNext
  BY <1>1 DEF DelegationNext, TransferAdmin, Pause, Unpause, SetPaused, Delegate,
     DelegateWithExpiry, Undelegate, ExpireDelegation, Tick, delegationVars
<1>2. ASSUME NEW v \in Address, NEW p, NEW f, CastVote(v, p, f) PROVE SweepForVoter(v)
  BY <1>2 DEF CastVote
<1>3. CASE ProposalCall
  BY <1>2, <1>3 DEF ProposalCall, CreateProposal, ChangeVote, SetVoteChangeWindow,
     CancelProposal, FinalizeProposal, ExecuteProposal, govVars, delegationVars
<1>4. CASE UNCHANGED vars \/ \E a \in Admins : InitializeContract(a)
  BY <1>4 DEF vars, govVars, delegationVars, InitializeContract, Initialize
<1> QED BY <1>1, <1>3, <1>4 DEF Next, DelegationCall

LEMMA AllCallsType ==
    ASSUME GovTypeOK, [Next]_vars
    PROVE  GovTypeOK'
<1>1. CASE \E a \in Admins : InitializeContract(a)
  BY <1>1 DEF InitializeContract, Initialize, delegationVars, GovTypeOK
<1>2. CASE [SpecNext]_vars BY <1>2, AllTypesStep
<1> QED BY <1>1, <1>2 DEF Next, SpecNext

LEMMA NoneHoldsStep ==
    ASSUME GovTypeOK, NoneHoldsForItself, [Next]_vars
    PROVE  NoneHoldsForItself'
<1> USE DEF NoneHoldsForItself
<1>1. Records BY DEF GovTypeOK, Records
<1>2. ASSUME NEW a \in Address, NEW b \in Address, Redelegates(a, b) PROVE NoneHoldsForItself'
  BY <1>1, <1>2 DEF Redelegates, Records
<1>3. ASSUME NEW a \in Address, Withdraws(a) PROVE NoneHoldsForItself'
  BY <1>1, <1>3, NoRecord, NoOneElse DEF Withdraws, Records
<1>4. ASSUME NEW v \in Address, SweepForVoter(v) PROVE NoneHoldsForItself'
  BY <1>4, NoRecord, NoOneElse DEF SweepForVoter
<1> QED BY <1>2, <1>3, <1>4, CallsMove, RecordsMove

LEMMA ExactStep == ExactInv /\ [Next /\ Drifts]_<<vars, drifted>> => ExactInv'
<1> SUFFICES ASSUME ExactInv, [Next /\ Drifts]_<<vars, drifted>> PROVE ExactInv'
  OBVIOUS
<1>1. [Next]_vars /\ GovTypeOK /\ NoneHoldsForItself BY DEF ExactInv
<1>2. GovTypeOK' /\ NoneHoldsForItself' BY <1>1, AllCallsType, NoneHoldsStep
<1>3. drifted' \in BOOLEAN BY DEF ExactInv, Drifts
<1>4. ASSUME ~drifted' PROVE AmountsExact' /\ PowersExact'
  <2>1. AmountsExact /\ PowersExact BY <1>4 DEF ExactInv, Drifts
  <2>2. \A x \in Address : Delegates(x) => balance'[x] = balance[x]
    BY <1>4 DEF Drifts, vars, govVars, delegationVars
  <2>3. CASE UNCHANGED <<balance, power, delegation>>
    BY <2>1, <2>3, SameRecordsSameShares DEF AmountsExact, PowersExact, Delegates
  <2> QED BY <1>1, <1>2, <2>1, <2>2, <2>3, PowersMove, SetBalanceKeepsExact,
             DelegateKeepsExact, WithdrawKeepsExact, SweepKeepsExact
<1> QED BY <1>2, <1>3, <1>4 DEF ExactInv

LEMMA ExactAtFirst == DriftInit => ExactInv
<1> SUFFICES ASSUME DriftInit PROVE ExactInv
  OBVIOUS
<1>1. PICK balances \in [Address -> Nat] : StorageWith(balances) BY DEF DriftInit
<1>2. GovTypeOK /\ Records BY <1>1, StorageType, RecordsInit DEF DriftInit
<1>3. /\ \A a \in Address : ~Delegates(a) /\ delegation[a].delegatee = NoOne
      /\ balance = balances /\ power = balances
  BY <1>1, NoRecord DEF StorageWith, Delegates
<1>4. NoneHoldsForItself /\ AmountsExact BY <1>3, NoOneElse DEF NoneHoldsForItself, AmountsExact
<1>5. ASSUME NEW b \in Address PROVE power[b] = Share(Holders, balance, b)
  <2>1. {x \in Address : Holders[x] = b} = {b} BY <1>2, <1>3, HoldersType
  <2>2. SumFunctionOnSet(balance, {b}) = balance[b] + SumFunctionOnSet(balance, {b} \ {b})
    BY <1>2, OneMore DEF Records
  <2>3. {b} \ {b} = {} /\ balance[b] \in Nat BY <1>2 DEF Records
  <2>4. SumFunctionOnSet(balance, {b} \ {b}) = 0 BY <2>3, SumEmpty
  <2>5. Share(Holders, balance, b) = balance[b]
    <3>1. Share(Holders, balance, b) = SumFunctionOnSet(balance, {b}) BY <2>1 DEF Share
    <3> QED BY <2>2, <2>3, <2>4, <3>1
  <2> QED BY <1>3, <2>5
<1> QED BY <1>2, <1>4, <1>5 DEF ExactInv, PowersExact, DriftInit

(* Whatever was delegated, re-delegated, taken back, left to lapse and     *)
(* swept, in any order and by any number of holders of any balances, each  *)
(* address has exactly the vote power it is entitled to, as long as no     *)
(* delegator's balance was set meanwhile (delegation.rs,                   *)
(* delegation_expiry.rs, set_balance of lib.rs).                           *)
THEOREM PowerStaysExact == DriftSpec => []ExactPower
<1>1. ExactInv => ExactPower
  <2> SUFFICES ASSUME ExactInv, ~drifted, NEW b \in Address PROVE power[b] = Entitlement(b)
    BY DEF ExactPower, PowerIsEntitlement
  <2>1. Records /\ NoneHoldsForItself /\ PowersExact BY DEF ExactInv, GovTypeOK, Records
  <2> QED BY <2>1, EntitlementIsShare DEF PowersExact
<1> QED BY <1>1, ExactAtFirst, ExactStep, PTL DEF DriftSpec
=============================================================================
